------------------------------- MODULE Import -------------------------------
(***************************************************************************)
(* The import of entries into a competition (AthletesService.confirmImport)*)
(* with several imports in flight, while athletes, events and age groups   *)
(* are created and deleted.                                                *)
(*                                                                         *)
(* An import is one interactive transaction on READ COMMITTED: each of its *)
(* reads is a step and sees what is committed by then; its own rows become *)
(* visible, with their ids, at the commit.  A foreign key to a row that is *)
(* gone, and an entry that somebody else has created, roll it back.        *)
(***************************************************************************)
EXTENDS Integers

CONSTANTS
    Swimmers,    \* last name, first name and birth year, by a number
    EventNames,  \* distance, style and gender, as in the name of an event
    Users, Admins,
    AthleteIds, EventIds, GroupIds,   \* ids the database hands out
    Fits,        \* pairs of a swimmer and an age group of the birth year
    Files,       \* files: sets of rows [swimmer, event]
    Imports,     \* imports in flight at the same time
    MaxEdits,    \* bound: changes made by others
    NoGroup

ASSUME ImportAssumption ==
    /\ Users # {} /\ Admins \subseteq Users
    /\ Fits \subseteq Swimmers \X GroupIds
    /\ UNION {Swimmers, EventNames, AthleteIds, EventIds, GroupIds} \subseteq Nat
    /\ AthleteIds \cap EventIds = {} /\ GroupIds \cap (AthleteIds \cup EventIds) = {}
    /\ \A f \in Files : f \subseteq [swimmer : Swimmers, event : EventNames]
    /\ MaxEdits \in Nat
    /\ NoGroup \notin GroupIds

VARIABLES
    draft,    \* the competition is a draft
    groups,   \* its age groups
    athlete,  \* athlete[a]: swimmer and creator of an athlete, by id
    applied,  \* athletes with an application
    event,    \* event[e]: the name of an event of the competition, by id
    entries,  \* rows [athlete, event, group]
    used,     \* ids given to rows so far
    imp,      \* imp[i]: the import in slot i
    edits,    \* changes by others so far
    clash,    \* imports during which somebody else changed the rows
    done,     \* <<file, user>> imported undisturbed, nothing deleted since
    again     \* imports that repeat one of done

rows  == <<athlete, applied, event, entries>>
ghost == <<clash, done, again>>
vars  == <<draft, groups, rows, used, imp, edits, ghost>>

-----------------------------------------------------------------------------
Steps == {"idle", "athletes", "apply", "events", "entries", "write"}
Partial(S, T) == UNION {[D -> T] : D \in SUBSET S}
Import == [step : Steps, file : Files \cup {{}}, user : Users,
           group : Partial(Swimmers, GroupIds \cup {NoGroup}),
           who : Partial(Swimmers, AthleteIds),
           where : Partial(EventNames, EventIds),
           pairs : SUBSET (AthleteIds \X EventIds)]
NoImport == [step |-> "idle", file |-> {}, user |-> CHOOSE u \in Users : TRUE,
             group |-> <<>>, who |-> <<>>, where |-> <<>>, pairs |-> {}]

(* Types, and the foreign keys and the unique key of entries.              *)
TypeOK ==
    /\ draft \in BOOLEAN /\ groups \subseteq GroupIds
    /\ athlete \in Partial(AthleteIds, [swimmer : Swimmers, owner : Users])
    /\ event \in Partial(EventIds, EventNames)
    /\ applied \subseteq DOMAIN athlete
    /\ entries \subseteq [athlete : DOMAIN athlete, event : DOMAIN event,
                          group : groups \cup {NoGroup}]
    /\ \A x, y \in entries : x.athlete = y.athlete /\ x.event = y.event => x = y
    /\ used \subseteq AthleteIds \cup EventIds \cup GroupIds
    /\ imp \in [Imports -> Import]
    /\ edits \in 0 .. MaxEdits
    /\ clash \subseteq Imports /\ again \subseteq Imports
    /\ done \subseteq Files \X Users

At(i, step)   == imp[i].step = step
InFlight(i)   == ~At(i, "idle")
Becomes(i, x) == imp' = [imp EXCEPT ![i] = x]
Without(f, x) == [y \in DOMAIN f \ {x} |-> f[y]]
With(f, g)    == [x \in DOMAIN f \cup DOMAIN g |-> IF x \in DOMAIN f THEN f[x] ELSE g[x]]

(* Ids count up: new rows for S get, in this order, the lowest not used.   *)
NewIds(S, ids) ==
    {f \in [S -> ids \ used] :
       /\ \A x, y \in S : x < y => f[x] < f[y]
       /\ \A x \in S, n \in ids \ used : n < f[x] => \E y \in S : f[y] = n}

SwimmersOf(f) == {r.swimmer : r \in f}
EventsOf(f)   == {r.event : r \in f}

(* Athletes the user of an import can match: a secretary's own.            *)
Sees(u, a)     == u \in Admins \/ athlete[a].owner = u
Matching(u, w) == {a \in DOMAIN athlete : athlete[a].swimmer = w /\ Sees(u, a)}
Named(n)       == {e \in DOMAIN event : event[e] = n}

(* All ways to pick one row for every key that has one.                    *)
Picks(answer) ==
    LET found == {k \in DOMAIN answer : answer[k] # {}}
    IN  {f \in [found -> UNION {answer[k] : k \in found}] :
           \A k \in found : f[k] \in answer[k]}

-----------------------------------------------------------------------------
(* The controller lets nothing into a competition that is not a draft; the *)
(* transaction reads the competition with its age groups.  The status is   *)
(* not read again, so the two reads are one step.                          *)
Begin(i, f, u) ==
    /\ At(i, "idle") /\ draft
    /\ \E g \in [SwimmersOf(f) -> groups \cup {NoGroup}] :
         /\ \A w \in SwimmersOf(f) :
              IF g[w] = NoGroup THEN \A h \in groups : <<w, h>> \notin Fits
              ELSE <<w, g[w]>> \in Fits
         /\ Becomes(i, [NoImport EXCEPT !.step = "athletes", !.file = f,
                                        !.user = u, !.group = g])
    /\ again' = IF <<f, u>> \in done THEN again \cup {i} ELSE again
    /\ UNCHANGED <<draft, groups, rows, used, edits, clash, done>>

(* Mutant: nobody is looked up.                                            *)
FindNoAthletes(i) ==
    /\ At(i, "athletes")
    /\ Becomes(i, [imp[i] EXCEPT !.step = "apply"])
    /\ UNCHANGED <<draft, groups, rows, used, edits, ghost>>

(* Athletes are matched by name and birth year; of several the last one of *)
(* an unordered answer counts.                                             *)
FindAthletes(i) ==
    /\ At(i, "athletes")
    /\ \E f \in Picks([w \in SwimmersOf(imp[i].file) |->
                       Matching(imp[i].user, w)]) :
         Becomes(i, [imp[i] EXCEPT !.step = "apply", !.who = f])
    /\ UNCHANGED <<draft, groups, rows, used, edits, ghost>>

Matched(i) == {imp[i].who[w] : w \in DOMAIN imp[i].who}
Chosen(i)  == {imp[i].where[n] : n \in DOMAIN imp[i].where}

(* Missing athletes are created, and an application for everybody; from    *)
(* now on the matched athletes are locked against deletion.                *)
Apply(i) ==
    /\ At(i, "apply")
    /\ Matched(i) \subseteq DOMAIN athlete
    /\ Becomes(i, [imp[i] EXCEPT !.step = "events"])
    /\ UNCHANGED <<draft, groups, rows, used, edits, ghost>>

(* Mutant: the events of the competition are not looked up.                *)
FindNoEvents(i) ==
    /\ At(i, "events")
    /\ Becomes(i, [imp[i] EXCEPT !.step = "entries"])
    /\ UNCHANGED <<draft, groups, rows, used, edits, ghost>>

(* Events are matched by name, and missing ones created.                   *)
FindEvents(i) ==
    /\ At(i, "events")
    /\ \E f \in Picks([n \in EventsOf(imp[i].file) |-> Named(n)]) :
         Becomes(i, [imp[i] EXCEPT !.step = "entries", !.where = f])
    /\ UNCHANGED <<draft, groups, rows, used, edits, ghost>>

FindEntries(i) ==
    /\ At(i, "entries")
    /\ LET pairs == {<<x.athlete, x.event>> : x \in entries}
       IN  Becomes(i, [imp[i] EXCEPT !.step = "write",
                         !.pairs = pairs \cap (Matched(i) \X Chosen(i))])
    /\ UNCHANGED <<draft, groups, rows, used, edits, ghost>>

(* The entries of the file that the import did not find.                   *)
NewEntries(i, who, where) ==
    {x \in {[athlete |-> who[r.swimmer], event |-> where[r.event],
             group |-> imp[i].group[r.swimmer]] : r \in imp[i].file} :
       <<x.athlete, x.event>> \notin imp[i].pairs}

(* The database refuses an entry.                                          *)
Refused(i, new) ==
    \/ ~(Matched(i) \subseteq DOMAIN athlete)
    \/ \E x \in new : \/ x.group \notin groups \cup {NoGroup}
                      \/ x.event \in Chosen(i) \ DOMAIN event
                      \/ \E y \in entries : x.athlete = y.athlete
                                            /\ x.event = y.event

NewAthletes(i) == NewIds(SwimmersOf(imp[i].file) \ DOMAIN imp[i].who, AthleteIds)
NewEvents(i)   == NewIds(EventsOf(imp[i].file) \ DOMAIN imp[i].where, EventIds)

Leaves(i) ==
    /\ Becomes(i, NoImport)
    /\ again' = again \ {i}

(* The entries are created, and the transaction commits.                   *)
Commit(i) ==
    /\ At(i, "write")
    /\ \E a \in NewAthletes(i), e \in NewEvents(i) :
         LET who   == With(imp[i].who, a)
             where == With(imp[i].where, e)
             new   == NewEntries(i, who, where)
             ids   == {a[w] : w \in DOMAIN a} \cup {e[n] : n \in DOMAIN e}
         IN  /\ ~Refused(i, new)
             /\ athlete' = With(athlete, [x \in {a[w] : w \in DOMAIN a} |->
                  [swimmer |-> CHOOSE w \in DOMAIN a : a[w] = x,
                   owner |-> imp[i].user]])
             /\ event' = With(event, [x \in {e[n] : n \in DOMAIN e} |->
                  CHOOSE n \in DOMAIN e : e[n] = x])
             /\ applied' = applied \cup {who[w] : w \in DOMAIN who}
             /\ entries' = entries \cup new
             /\ used' = used \cup ids
    /\ Leaves(i)
    /\ done' = IF i \in clash THEN done
               ELSE done \cup {<<imp[i].file, imp[i].user>>}
    /\ clash' = {k \in Imports \ {i} : InFlight(k)}
    /\ UNCHANGED <<draft, groups, edits>>

(* The transaction fails: an application without its athlete, or an entry  *)
(* that the database refuses.                                              *)
RollBack(i) ==
    /\ \/ At(i, "apply") /\ ~(Matched(i) \subseteq DOMAIN athlete)
       \/ /\ At(i, "write")
          /\ \E a \in NewAthletes(i), e \in NewEvents(i) :
               Refused(i, NewEntries(i, With(imp[i].who, a), With(imp[i].where, e)))
    /\ Leaves(i)
    /\ clash' = clash \ {i}
    /\ UNCHANGED <<draft, groups, rows, used, edits, done>>

(* An interactive transaction that takes too long is rolled back.          *)
TimeOut(i) ==
    /\ InFlight(i)
    /\ Leaves(i)
    /\ clash' = clash \ {i}
    /\ UNCHANGED <<draft, groups, rows, used, edits, done>>

-----------------------------------------------------------------------------
(* What others do meanwhile.                                               *)
Others ==
    /\ edits < MaxEdits /\ edits' = edits + 1
    /\ clash' = {k \in Imports : InFlight(k)}
    /\ UNCHANGED imp
Creates  == Others /\ UNCHANGED <<draft, done, again>>
Deletes  == Others /\ done' = {} /\ again' = {} /\ UNCHANGED <<draft, used>>

CreateAthlete(u, w) ==
    /\ Creates
    /\ \E new \in NewIds({w}, AthleteIds) :
         /\ athlete' = With(athlete, [x \in {new[w]} |-> [swimmer |-> w, owner |-> u]])
         /\ used' = used \cup {new[w]}
    /\ UNCHANGED <<groups, applied, event, entries>>

(* An application or an entry of an open transaction locks its athlete.    *)
Locked(a) == \E i \in Imports :
               imp[i].step \in {"events", "entries", "write"} /\ a \in Matched(i)

DeleteAthlete(u, a) ==
    /\ Deletes
    /\ Sees(u, a) /\ ~Locked(a)
    /\ athlete' = Without(athlete, a)
    /\ applied' = applied \ {a}
    /\ entries' = {x \in entries : x.athlete # a}
    /\ UNCHANGED <<groups, event>>

CreateEvent(n) ==
    /\ Creates
    /\ \E new \in NewIds({n}, EventIds) :
         /\ event' = With(event, [x \in {new[n]} |-> n])
         /\ used' = used \cup {new[n]}
    /\ UNCHANGED <<groups, athlete, applied, entries>>

(* Mutant: the entries of an event stay when it is deleted.                *)
DeleteEventOnly(e) ==
    /\ Deletes
    /\ event' = Without(event, e)
    /\ UNCHANGED <<groups, athlete, applied, entries>>

DeleteEvent(e) ==
    /\ Deletes
    /\ event' = Without(event, e)
    /\ entries' = {x \in entries : x.event # e}
    /\ UNCHANGED <<groups, athlete, applied>>

CreateAgeGroup ==
    /\ Creates
    /\ \E g \in GroupIds \ used : groups' = groups \cup {g} /\ used' = used \cup {g}
    /\ UNCHANGED rows

DeleteAgeGroup(g) ==
    /\ Deletes
    /\ groups' = groups \ {g}
    /\ entries' = {[x EXCEPT !.group = IF @ = g THEN NoGroup ELSE @] : x \in entries}
    /\ UNCHANGED <<athlete, applied, event>>

(* The status is changed; the guard of the imports reads it before they    *)
(* begin.                                                                  *)
ChangeStatus ==
    /\ draft' = ~draft
    /\ IF draft THEN edits < MaxEdits /\ edits' = edits + 1 ELSE UNCHANGED edits
    /\ UNCHANGED <<groups, rows, used, imp, ghost>>

-----------------------------------------------------------------------------
Init ==
    /\ draft = TRUE /\ groups \in SUBSET GroupIds
    /\ athlete = <<>> /\ event = <<>> /\ applied = {} /\ entries = {}
    /\ used = groups /\ edits = 0
    /\ imp = [i \in Imports |-> NoImport]
    /\ clash = {} /\ done = {} /\ again = {}

Next ==
    \/ \E i \in Imports :
         \/ \E f \in Files, u \in Users : Begin(i, f, u)
         \/ FindAthletes(i) \/ Apply(i) \/ FindEvents(i) \/ FindEntries(i)
         \/ Commit(i) \/ RollBack(i) \/ TimeOut(i)
    \/ \E u \in Users : \/ \E w \in Swimmers : CreateAthlete(u, w)
                        \/ \E a \in DOMAIN athlete : DeleteAthlete(u, a)
    \/ \E n \in EventNames : CreateEvent(n)
    \/ \E e \in DOMAIN event : DeleteEvent(e)
    \/ CreateAgeGroup
    \/ \E g \in groups : DeleteAgeGroup(g)
    \/ ChangeStatus

Spec == Init /\ [][Next]_vars

-----------------------------------------------------------------------------
(* Properties.                                                             *)
Ends(i) == InFlight(i) /\ imp'[i].step = "idle"

(* Importing a file again, after an import that nobody disturbed, adds no  *)
(* athlete, event or entry (only applications), unless rows were deleted,  *)
(* or two athletes or events answer to the same name, so that the second   *)
(* import may pick the other one (athletes.service.ts:565-573, 638-644).   *)
Several(S) == \E x, y \in S : x # y
Ambiguous(i) ==
    \/ \E w \in SwimmersOf(imp[i].file) : Several(Matching(imp[i].user, w))
    \/ \E n \in EventsOf(imp[i].file) : Several(Named(n))
ReimportAddsNothing ==
    [][\A i \in again : Ends(i) =>
         UNCHANGED <<athlete, event, entries>> \/ Ambiguous(i)]_vars

(* An import that nobody disturbs creates no second athlete or event of a  *)
(* name, and is not rolled back by the database, so that it creates no     *)
(* entry that exists: but nothing except its own reads keeps them apart    *)
(* (no unique key of names, athletes.service.ts:587-596, 646-708).         *)
CleanUnlessRaced ==
    [][\A i \in Imports \ clash :
         /\ ~RollBack(i)
         /\ Ends(i) =>
              /\ \A a \in DOMAIN athlete' \ DOMAIN athlete :
                   Matching(imp[i].user, athlete'[a].swimmer) = {}
              /\ \A e \in DOMAIN event' \ DOMAIN event : Named(event'[e]) = {}]_vars

=============================================================================
