-------------------------------- MODULE Seeding --------------------------------
(***************************************************************************)
(* The heats and lanes of one event: SeedingService with several           *)
(* generations in flight, while the seeding is cleared and entries are     *)
(* created, edited, scratched and deleted.                                 *)
(*                                                                         *)
(* A generation is a Node.js handler: it reads the event with its          *)
(* competition, reads the entries, and writes heats and lanes in one       *)
(* transaction; other requests run in between.                             *)
(***************************************************************************)
EXTENDS SeedingRules

CONSTANTS
    Entries,   \* entries that may exist in the event
    Requests,  \* generations in flight at the same time
    Times,     \* entry times
    Pools,     \* numbers of lanes the competition may be given
    MaxEdits   \* bound on the edits of entries and competition

ASSUME SeedingAssumption ==
    /\ IsFiniteSet(Entries)
    /\ Times \subseteq Nat /\ NT \in Times
    /\ Pools \subseteq 1 .. 20
    /\ MaxEdits \in Nat

VARIABLES
    status,  \* status[e]: "IN" (or PK), "OUT" (DQ, DNS, DNF), or "none"
    time,    \* time[e]: entryTimeMs
    spot,    \* spot[e]: heatNumber and laneNumber
    lanes,   \* lanes of the competition's pool
    req,     \* req[r]: the generation in slot r
    edits,   \* edits so far
    fresh    \* entries whose lane the last generation wrote

db   == <<status, time, spot, lanes>>
vars == <<db, req, edits, fresh>>

NoHeat == 0
NoLane == -1   \* lane 0 exists in a pool of ten
NoSpot == [heat |-> NoHeat, lane |-> NoLane]

Idle      == [step |-> "idle", lanes |-> 0, seen |-> <<>>]
Seedable  == {e \in Entries : status[e] = "IN"}
InEvent   == {e \in Entries : status[e] # "none"}

-----------------------------------------------------------------------------
(* generateSeeding.                                                        *)

GenerateBegin(r) ==
    /\ req[r] = Idle
    /\ req' = [req EXCEPT ![r] = [Idle EXCEPT !.step = "entries",
                                              !.lanes = lanes]]
    /\ UNCHANGED <<db, edits, fresh>>

(* The entries seen are ranked and split into heats; the swimmers of a     *)
(* heat are ranked again, equal times shuffled anew, for the lanes from    *)
(* the centre outwards.  A swimmer for whom the pool has no lane left is   *)
(* written without one: the old lane stays.                                *)
Heats(seen, n) ==
    LET sizes == HeatSizes(Cardinality(DOMAIN seen), n)
    IN  {[e \in DOMAIN seen |-> HeatOf(sizes, rank[e])] : rank \in Rankings(seen)}

(* Mutant: the lanes follow the ranks of the whole event.                  *)
PlanAcrossHeats(heat, rank, order) ==
    [e \in DOMAIN heat |->
       [heat |-> heat[e],
        lane |-> IF rank[e] <= Len(order) THEN order[rank[e]] ELSE NoLane]]

Plan(heat, rank, order) ==
    [e \in DOMAIN heat |->
       LET i == Cardinality({f \in DOMAIN heat : heat[f] = heat[e]
                                                 /\ rank[f] <= rank[e]})
       IN  [heat |-> heat[e],
            lane |-> IF i <= Len(order) THEN order[i] ELSE NoLane]]

Plans(seen, n) ==
    LET order == LaneOrder(n)
    IN  {Plan(heat, rank, order) : heat \in Heats(seen, n), rank \in Rankings(seen)}

(* The entries that are not scratched are read; without any, or when the   *)
(* rules raise, nothing is written.                                        *)
GenerateRead(r) ==
    /\ req[r].step = "entries"
    /\ IF Seedable = {} \/ Raises(Cardinality(Seedable), req[r].lanes)
       THEN req' = [req EXCEPT ![r] = Idle]
       ELSE req' = [req EXCEPT ![r].step = "commit",
                               ![r].seen = [e \in Seedable |-> time[e]]]
    /\ UNCHANGED <<db, edits, fresh>>

Assigned(old, new) ==
    IF new.lane = NoLane THEN [old EXCEPT !.heat = new.heat] ELSE new

(* Mutants: deleted entries are not noticed; seeded ones are left alone.   *)
GenerateCommitAnyway(r) ==
    /\ req[r].step = "commit"
    /\ \E plan \in Plans(req[r].seen, req[r].lanes) :
         /\ spot' = [e \in Entries |-> IF e \in DOMAIN plan
                                       THEN Assigned(spot[e], plan[e]) ELSE spot[e]]
         /\ fresh' = {e \in DOMAIN plan : plan[e].lane # NoLane}
    /\ req' = [req EXCEPT ![r] = Idle]
    /\ UNCHANGED <<status, time, lanes, edits>>
GenerateCommitMissing(r) ==
    /\ req[r].step = "commit"
    /\ DOMAIN req[r].seen \subseteq InEvent
    /\ \E plan \in Plans(req[r].seen, req[r].lanes) :
         /\ spot' = [e \in Entries |-> IF e \in DOMAIN plan /\ spot[e] = NoSpot
                                       THEN Assigned(spot[e], plan[e]) ELSE spot[e]]
         /\ fresh' = {e \in DOMAIN plan : plan[e].lane # NoLane}
    /\ req' = [req EXCEPT ![r] = Idle]
    /\ UNCHANGED <<status, time, lanes, edits>>

(* The shuffles have been made before; their outcome shows here.           *)
GenerateCommit(r) ==
    /\ req[r].step = "commit"
    /\ DOMAIN req[r].seen \subseteq InEvent
    /\ \E plan \in Plans(req[r].seen, req[r].lanes) :
         /\ spot' = [e \in Entries |-> IF e \in DOMAIN plan
                                       THEN Assigned(spot[e], plan[e]) ELSE spot[e]]
         /\ fresh' = {e \in DOMAIN plan : plan[e].lane # NoLane}
    /\ req' = [req EXCEPT ![r] = Idle]
    /\ UNCHANGED <<status, time, lanes, edits>>

(* A planned entry was deleted meanwhile: the transaction fails as a whole. *)
GenerateRollback(r) ==
    /\ req[r].step = "commit"
    /\ ~(DOMAIN req[r].seen \subseteq InEvent)
    /\ req' = [req EXCEPT ![r] = Idle]
    /\ UNCHANGED <<db, edits, fresh>>

-----------------------------------------------------------------------------
(* clearSeeding, and the edits of entries and competition.                 *)

Clear ==
    /\ \E e \in InEvent : spot[e] # NoSpot
    /\ spot' = [e \in Entries |-> NoSpot]
    /\ fresh' = {}
    /\ UNCHANGED <<status, time, lanes, req, edits>>

Edits == edits < MaxEdits /\ edits' = edits + 1

CreateEntry(e, t) ==
    /\ Edits /\ e \notin InEvent
    /\ status' = [status EXCEPT ![e] = "IN"]
    /\ time' = [time EXCEPT ![e] = t]
    /\ UNCHANGED <<spot, lanes, req, fresh>>

(* PATCH entries/:id with a status or an entry time; heat and lane stay.   *)
EditEntry(e, s, t) ==
    /\ Edits /\ e \in InEvent /\ <<s, t>> # <<status[e], time[e]>>
    /\ status' = [status EXCEPT ![e] = s]
    /\ time' = [time EXCEPT ![e] = t]
    /\ UNCHANGED <<spot, lanes, req, fresh>>

(* PATCH entries/:id with a heat and a lane, any numbers.                  *)
MoveEntry(e, to) ==
    /\ Edits /\ e \in InEvent
    /\ spot' = [spot EXCEPT ![e] = to]
    /\ fresh' = fresh \ {e}
    /\ UNCHANGED <<status, time, lanes, req>>

DeleteEntry(e) ==
    /\ Edits /\ e \in InEvent
    /\ status' = [status EXCEPT ![e] = "none"]
    /\ time' = [time EXCEPT ![e] = NT]
    /\ spot' = [spot EXCEPT ![e] = NoSpot]
    /\ fresh' = fresh \ {e}
    /\ UNCHANGED <<lanes, req>>

SetLanes(n) ==
    /\ Edits /\ n # lanes
    /\ lanes' = n
    /\ UNCHANGED <<status, time, spot, req, fresh>>

-----------------------------------------------------------------------------
Init ==
    /\ status = [e \in Entries |-> "IN"]
    /\ time \in [Entries -> Times]
    /\ spot = [e \in Entries |-> NoSpot]
    /\ lanes \in Pools
    /\ req = [r \in Requests |-> Idle]
    /\ edits = 0
    /\ fresh = {}

Generate(r) ==
    \/ GenerateBegin(r) \/ GenerateRead(r)
    \/ GenerateCommit(r) \/ GenerateRollback(r)

Edit ==
    \/ \E e \in Entries, t \in Times :
         \/ CreateEntry(e, t)
         \/ \E s \in {"IN", "OUT"} : EditEntry(e, s, t)
    \/ \E e, f \in Entries : MoveEntry(e, spot[f])
    \/ \E e \in Entries : DeleteEntry(e)
    \/ \E n \in Pools : SetLanes(n)

Next == (\E r \in Requests : Generate(r)) \/ Clear \/ Edit

Spec == Init /\ [][Next]_vars

-----------------------------------------------------------------------------
(* Properties.                                                             *)

Spots == [heat : 0 .. Cardinality(Entries), lane : {NoLane} \cup 0 .. 20]

TypeOK ==
    /\ status \in [Entries -> {"none", "IN", "OUT"}]
    /\ time \in [Entries -> Times]
    /\ spot \in [Entries -> Spots]
    /\ lanes \in Pools
    /\ fresh \subseteq InEvent
    /\ \A r \in Requests :
         /\ req[r].step \in {"idle", "entries", "commit"}
         /\ req[r].lanes \in Pools \cup {0}
         /\ DOMAIN req[r].seen \subseteq Entries
         /\ \A e \in DOMAIN req[r].seen : req[r].seen[e] \in Times

(* A generation whose reads are still true when it commits seeds the event *)
(* by the rules: everybody who is not scratched swims, in a lane of the    *)
(* pool that nobody else of the seeded has in that heat; the heats are     *)
(* numbered without a gap, a faster swimmer is never in an earlier heat,   *)
(* and within a heat never further from the centre (seeding.service.ts:    *)
(* 42-51).  The rules need three lanes.                                    *)
FromCenter(e) == LET d == spot'[e].lane - CenterLane(lanes)
                 IN  IF d < 0 THEN -2 * d ELSE 2 * d - 1   \* right before left
Commits(r) == /\ req[r].step = "commit" /\ req'[r] = Idle
              /\ DOMAIN req[r].seen \subseteq InEvent
Current(r) == /\ req[r].lanes = lanes
              /\ req[r].seen = [e \in Seedable |-> time[e]]
SeededByRules ==
    LET heats == {spot'[e].heat : e \in Seedable} IN
    /\ heats = 1 .. HeatCount(Cardinality(Seedable), lanes)
    /\ \A e \in Seedable : spot'[e].lane \in MinLane(lanes) .. MaxLane(lanes)
    /\ \A e, f \in Seedable : e # f =>
         /\ spot'[e] # spot'[f]
         /\ Before(time[e], time[f]) =>
              \/ spot'[e].heat > spot'[f].heat
              \/ spot'[e].heat = spot'[f].heat /\ FromCenter(e) < FromCenter(f)
GenerationSeeds ==
    [][\A r \in Requests :
         Commits(r) /\ Current(r) /\ lanes >= 3 => SeededByRules]_vars

(* Two entries share a lane of a heat only when one of them was left out   *)
(* of the generation that seeded the other (scratched, or written by a     *)
(* generation that a later one overwrote), was moved by hand, or found no  *)
(* lane in a pool of two: no interleaving of generations, edits and clears *)
(* gives one lane twice (seeding.service.ts:150-180).                      *)
LaneSharedOnlyWithOutsider ==
    \A e, f \in fresh : e # f => spot[e] # spot[f]

=============================================================================
