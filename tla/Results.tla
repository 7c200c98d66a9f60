------------------------------- MODULE Results -------------------------------
(***************************************************************************)
(* The results of one event: ResultsService with several requests in       *)
(* flight.  Secretaries save a single result or a whole heat, finalize the *)
(* event (places, WA points, achieved ranks, athlete profiles) and undo    *)
(* it, while entries are edited or deleted and the competition changes     *)
(* status.                                                                 *)
(*                                                                         *)
(* A request is a Node.js handler: its steps are its database calls, with  *)
(* the local code up to the next await, and other requests run in between. *)
(* A Prisma transaction is atomic at its commit, and its reads see what is *)
(* committed (READ COMMITTED).                                             *)
(***************************************************************************)
EXTENDS Ranking, SequencesExt

CONSTANTS
    Entries,     \* entries of the event
    Requests,    \* requests in flight at the same time
    AgeGroup,    \* AgeGroup[e]: the ageGroupId of an entry
    Times,       \* finish times in ms
    Tier,        \* Tier[t]: tier of the best UaSportRank norm met by t, 0: none
    Reports,     \* what secretaries report: records [status, time]
    MaxVersion,  \* bound: a result of this version is edited no more
    Ops          \* the operations this instance has

ASSUME ResultsAssumption ==
    /\ Times \subseteq Nat \ {0}
    /\ Tier \in [Times -> Nat]
    /\ Reports \subseteq [status : {"OK", "DQ", "PK"}, time : Times \cup {0}]
    /\ MaxVersion \in Nat \ {0}
    /\ IsFiniteSet(Entries) /\ IsFiniteSet(Requests)

VARIABLES
    entries,  \* the entries that have not been deleted
    out,      \* entries out of competition: isOutOfCompetition or status PK
    result,   \* result[e]: the Result row of entry e
    tier,     \* tier[e]: the tier of currentRank of the entry's athlete
    comp,     \* status of the competition: "active" (or draft), "completed"
    req,      \* req[r]: the request in slot r
    page,     \* page[r][e]: version of e's result on the page of r's client
    clash     \* slots whose request was in flight while another one committed

db   == <<entries, out, result, tier, comp>>
vars == <<db, req, page, clash>>

-----------------------------------------------------------------------------
(* Rows.  "DQ" stands for DQ, DNS and DNF.  Points and rank are functions  *)
(* of the finish time: scored is the time they were computed for.          *)

NoTime  == 0
NoPlace == 0
ResultStatus == {"OK", "DQ", "PK"}

NoResult == [status |-> "none", time |-> NoTime, version |-> 0,
             place |-> NoPlace, shown |-> "", scored |-> NoTime]
Exists(e) == result[e].status # "none"

(* finishTimeMs is kept with status OK only.                               *)
StoredTime(report) == IF report.status = "OK" THEN report.time ELSE NoTime

Created(report) ==
    [NoResult EXCEPT !.status = report.status, !.time = StoredTime(report),
                     !.version = 1]

Updated(row, report) ==
    [row EXCEPT !.status = report.status, !.time = StoredTime(report),
                !.version = @ + 1]

(* What finalization writes for an entry; tier 0 leaves the profile alone. *)
Derived(p, sh, t, up) == [place |-> p, shown |-> sh, scored |-> t, tier |-> up]
Cleared == Derived(NoPlace, "", NoTime, 0)

-----------------------------------------------------------------------------
(* Requests.                                                               *)

NoVersion == 0
Steps == {"check", "update", "create", "read", "commit", "audit"}

NoRequest == [op |-> "none", step |-> "idle", data |-> <<>>, sent |-> NoVersion,
              missing |-> {}, plan |-> <<>>]
Idle(r)        == req[r] = NoRequest
At(r, op, st)  == req[r].op = op /\ req[r].step = st
Goto(r, st)    == req' = [req EXCEPT ![r].step = st]
Finish(r)      == req' = [req EXCEPT ![r] = NoRequest]

(* A commit by r that others in flight have not seen.                      *)
Commits(r)  == clash' = clash \cup {q \in Requests \ {r} : ~Idle(q)}
Begins(r)   == clash' = clash \ {r}

Editable(e) == e \in entries /\ result[e].version < MaxVersion

(* The client of slot r loads the entries; a missing result counts as      *)
(* version 1 ("entry.result?.version || 1").                               *)
LoadPage(r) ==
    /\ "load" \in Ops /\ Idle(r)
    /\ page' = [page EXCEPT ![r] =
                  [e \in Entries |-> IF Exists(e) THEN result[e].version ELSE 1]]
    /\ UNCHANGED <<db, req, clash>>

-----------------------------------------------------------------------------
(* saveResult.                                                             *)

(* The entry is read with its competition; a completed one is refused.     *)
SaveBegin(r, e, report, sent) ==
    /\ "save" \in Ops /\ Idle(r) /\ Editable(e)
    /\ comp # "completed"
    /\ req' = [req EXCEPT ![r] =
                 [NoRequest EXCEPT !.op = "save", !.step = "check",
                                   !.data = [x \in {e} |-> report],
                                   !.sent = sent]]
    /\ Begins(r)
    /\ UNCHANGED <<db, page>>

Target(r) == CHOOSE e \in DOMAIN req[r].data : TRUE
VersionMatches(row, sent) == sent \in {NoVersion, row.version}

(* Mutant: the version is not compared.                                    *)
SaveCheckUnversioned(r) ==
    /\ At(r, "save", "check")
    /\ Goto(r, IF Exists(Target(r)) THEN "update" ELSE "create")
    /\ UNCHANGED <<db, page, clash>>

(* The result is read; another version than the client's is a conflict.    *)
SaveCheck(r) ==
    LET e == Target(r) IN
    /\ At(r, "save", "check")
    /\ \/ ~Exists(e) /\ Goto(r, "create")
       \/ Exists(e) /\ VersionMatches(result[e], req[r].sent) /\ Goto(r, "update")
       \/ Exists(e) /\ ~VersionMatches(result[e], req[r].sent) /\ Finish(r)
    /\ UNCHANGED <<db, page, clash>>

SaveUpdate(r) ==
    LET e == Target(r) IN
    /\ At(r, "save", "update")
    /\ Exists(e)
    /\ result' = [result EXCEPT ![e] = Updated(@, req[r].data[e])]
    /\ Finish(r) /\ Commits(r)
    /\ UNCHANGED <<entries, out, tier, comp, page>>

SaveCreate(r) ==
    LET e == Target(r) IN
    /\ At(r, "save", "create")
    /\ ~Exists(e) /\ e \in entries
    /\ result' = [result EXCEPT ![e] = Created(req[r].data[e])]
    /\ Goto(r, "audit") /\ Commits(r)
    /\ UNCHANGED <<entries, out, tier, comp, page>>

(* The row to update is gone, or the row to create is there already, or    *)
(* its entry is gone: Prisma raises an error.                              *)
SaveFails(r) ==
    LET e == Target(r) IN
    /\ \/ At(r, "save", "update") /\ ~Exists(e)
       \/ At(r, "save", "create") /\ (Exists(e) \/ e \notin entries)
    /\ Finish(r)
    /\ UNCHANGED <<db, page, clash>>

-----------------------------------------------------------------------------
(* saveHeatResults.                                                        *)

(* The entries are read with their competition and checked, outside of the *)
(* transaction.                                                            *)
HeatBegin(r, data) ==
    /\ "heat" \in Ops /\ Idle(r)
    /\ DOMAIN data # {} /\ \A e \in DOMAIN data : Editable(e)
    /\ comp # "completed"
    /\ req' = [req EXCEPT ![r] =
                 [NoRequest EXCEPT !.op = "heat", !.step = "read",
                                   !.data = data]]
    /\ Begins(r)
    /\ UNCHANGED <<db, page>>

(* The item DTO of the batch has no version field, and the validation pipe *)
(* (whitelist) strips the page's version, which the client does send.      *)
HeatVersion(r, e) == NoVersion

(* The transaction reads each row and checks its version.                  *)
HeatRead(r) ==
    LET rows == DOMAIN req[r].data IN
    /\ At(r, "heat", "read")
    /\ IF \A e \in rows : Exists(e) =>
             VersionMatches(result[e], HeatVersion(r, e))
       THEN req' = [req EXCEPT ![r].step = "commit",
                               ![r].missing = {e \in rows : ~Exists(e)}]
       ELSE Finish(r)
    /\ UNCHANGED <<db, page, clash>>

(* A row it goes to update exists, a row it goes to create does not.       *)
HeatApplies(r) ==
    \A e \in DOMAIN req[r].data :
      e \in entries /\ (Exists(e) <=> e \notin req[r].missing)

HeatCommit(r) ==
    /\ At(r, "heat", "commit")
    /\ HeatApplies(r)
    /\ result' = [e \in Entries |->
                    IF e \notin DOMAIN req[r].data THEN result[e]
                    ELSE IF e \in req[r].missing THEN Created(req[r].data[e])
                    ELSE Updated(result[e], req[r].data[e])]
    /\ Goto(r, "audit") /\ Commits(r)
    /\ UNCHANGED <<entries, out, tier, comp, page>>

HeatRollback(r) ==
    /\ At(r, "heat", "commit")
    /\ ~HeatApplies(r)
    /\ Finish(r)
    /\ UNCHANGED <<db, page, clash>>

-----------------------------------------------------------------------------
(* finalizeEvent, unfinalizeEvent.                                         *)

OutOfCompetition(e) == e \in out \/ result[e].status = "PK"
Valid(e)   == result[e].status \in {"OK", "PK"} /\ result[e].time # NoTime
Ranked(e)  == Valid(e) /\ result[e].status = "OK" /\ ~OutOfCompetition(e)
Extra(e)   == Valid(e) /\ OutOfCompetition(e)
Invalid(e) == Exists(e) /\ result[e].status \notin {"OK", "PK"}

(* The ranked results of an age group in the order of their times; what    *)
(* order a tie is in does not show in the places.                          *)
Peers(e) == {f \in Entries : Ranked(f) /\ AgeGroup[f] = AgeGroup[e]}
InOrder(e) ==
    CHOOSE order \in SetToSeqs(Peers(e)) :
      \A i, j \in DOMAIN order : i < j => result[order[i]].time <= result[order[j]].time
Position(e) == CHOOSE i \in DOMAIN InOrder(e) : InOrder(e)[i] = e

(* Mutants: the zero-based place, and one that counts the ties.            *)
PlaceFromZero(e)  == Position(e) - 1
PlaceAfterTies(e) ==
    1 + Cardinality({f \in Peers(e) : result[f].time <= result[e].time})

PlaceOf(e) ==
    Places([i \in DOMAIN InOrder(e) |-> result[InOrder(e)[i]].time])[Position(e)]

(* Mutant: the profile takes whatever rank is achieved.                    *)
UpgradeAlways(e) == Tier[result[e].time]

(* The profile is upgraded if the rank achieved is above the one read.     *)
Upgrade(e) == IF Tier[result[e].time] > tier[e] THEN Tier[result[e].time] ELSE 0

(* The updates finalizeEvent builds: one for each ranked, out of           *)
(* competition and disqualified result; an OK or PK result without a time  *)
(* is in no list.                                                          *)
FinalPlan ==
    [e \in {x \in Entries : Valid(x) \/ Invalid(x)} |->
       IF Ranked(e) THEN Derived(PlaceOf(e), "place", result[e].time, Upgrade(e))
       ELSE IF Extra(e) THEN Derived(NoPlace, "PK", result[e].time, Upgrade(e))
       ELSE Derived(NoPlace, "DQ", NoTime, 0)]

ClearPlan == [e \in {x \in Entries : Exists(x)} |-> Cleared]

(* Mutant: a completed competition is not refused.                         *)
FinalBeginUnguarded(r, op) ==
    /\ op \in Ops /\ Idle(r)
    /\ req' = [req EXCEPT ![r] = [NoRequest EXCEPT !.op = op, !.step = "read"]]
    /\ Begins(r)
    /\ UNCHANGED <<db, page>>

(* The event is read with its competition; a completed one is refused.     *)
FinalBegin(r, op) ==
    /\ op \in Ops /\ Idle(r)
    /\ comp # "completed"
    /\ req' = [req EXCEPT ![r] = [NoRequest EXCEPT !.op = op, !.step = "read"]]
    /\ Begins(r)
    /\ UNCHANGED <<db, page>>

FinalRead(r) ==
    /\ req[r].step = "read" /\ req[r].op \in {"finalize", "unfinalize"}
    /\ req' = [req EXCEPT ![r].step = "commit",
                          ![r].plan = IF req[r].op = "finalize" THEN FinalPlan
                                      ELSE ClearPlan]
    /\ UNCHANGED <<db, page, clash>>

AtPlanCommit(r) ==
    req[r].step = "commit" /\ req[r].op \in {"finalize", "unfinalize"}
PlanApplies(r) == \A e \in DOMAIN req[r].plan : Exists(e)

FinalCommit(r) ==
    LET plan == req[r].plan IN
    /\ AtPlanCommit(r) /\ PlanApplies(r)
    /\ result' = [e \in Entries |->
                    IF e \notin DOMAIN plan THEN result[e]
                    ELSE [result[e] EXCEPT !.place = plan[e].place,
                                           !.shown = plan[e].shown,
                                           !.scored = plan[e].scored]]
    /\ tier' = [e \in Entries |->
                  IF e \in DOMAIN plan /\ plan[e].tier # 0 THEN plan[e].tier
                  ELSE tier[e]]
    /\ Goto(r, "audit") /\ Commits(r)
    /\ UNCHANGED <<entries, out, comp, page>>

(* A planned row was deleted meanwhile: the transaction fails as a whole.  *)
FinalRollback(r) ==
    /\ AtPlanCommit(r) /\ ~PlanApplies(r)
    /\ Finish(r)
    /\ UNCHANGED <<db, page, clash>>

(* The live viewers are notified and the audit record is written.          *)
Audit(r) ==
    /\ req[r].step = "audit"
    /\ Finish(r)
    /\ UNCHANGED <<db, page, clash>>

-----------------------------------------------------------------------------
(* Competitions and entries.                                               *)

SetStatus(c) ==
    /\ "status" \in Ops /\ comp # c
    /\ comp' = c
    /\ UNCHANGED <<entries, out, result, tier, req, page, clash>>

(* PATCH entries/:id moves an entry into or out of competition.            *)
EditEntry(e) ==
    /\ "edit" \in Ops /\ e \in entries
    /\ out' = IF e \in out THEN out \ {e} ELSE out \cup {e}
    /\ UNCHANGED <<entries, result, tier, comp, req, page, clash>>

(* DELETE entries/:id; the result goes with it (onDelete: Cascade).        *)
DeleteEntry(e) ==
    /\ "delete" \in Ops /\ e \in entries
    /\ entries' = entries \ {e}
    /\ out' = out \ {e}
    /\ result' = [result EXCEPT ![e] = NoResult]
    /\ UNCHANGED <<tier, comp, req, page, clash>>

-----------------------------------------------------------------------------
Init ==
    /\ entries = Entries
    /\ out \in IF "edit" \in Ops THEN SUBSET Entries ELSE {{}}
    /\ result = [e \in Entries |-> NoResult]
    /\ tier = [e \in Entries |-> 0]
    /\ comp = "active"
    /\ req = [r \in Requests |-> NoRequest]
    /\ page = [r \in Requests |-> [e \in Entries |-> 1]]
    /\ clash = {}

Begin(r) ==
    \/ \E e \in entries, report \in Reports :
         \E sent \in {page[r][e], NoVersion} : SaveBegin(r, e, report, sent)
    \/ \E data \in [entries -> Reports] : HeatBegin(r, data)
    \/ \E op \in {"finalize", "unfinalize"} : FinalBegin(r, op)

Step(r) ==
    \/ SaveCheck(r) \/ SaveUpdate(r) \/ SaveCreate(r) \/ SaveFails(r)
    \/ HeatRead(r) \/ HeatCommit(r) \/ HeatRollback(r)
    \/ FinalRead(r) \/ FinalCommit(r) \/ FinalRollback(r)
    \/ Audit(r)

Next ==
    \/ \E r \in Requests : LoadPage(r) \/ Begin(r) \/ Step(r)
    \/ \E c \in {"active", "completed"} : SetStatus(c)
    \/ \E e \in Entries : EditEntry(e) \/ DeleteEntry(e)

Spec == Init /\ [][Next]_vars

(* A request that has begun goes on.                                       *)
FairSpec == Spec /\ \A r \in Requests : WF_vars(Step(r))

-----------------------------------------------------------------------------
(* Properties.                                                             *)

ResultRow == [status : ResultStatus \cup {"none"}, time : Times \cup {NoTime},
              version : 0 .. MaxVersion + Cardinality(Requests),
              place : 0 .. Cardinality(Entries),
              shown : {"", "place", "PK", "DQ"}, scored : Times \cup {NoTime}]
PlanRow   == [place : 0 .. Cardinality(Entries),
              shown : {"", "place", "PK", "DQ"}, scored : Times \cup {NoTime},
              tier : Nat]
Functions(S, T) == UNION {[D -> T] : D \in SUBSET S}

TypeOK ==
    /\ entries \subseteq Entries
    /\ out \subseteq entries
    /\ result \in [Entries -> ResultRow]
    /\ tier \in [Entries -> Nat]
    /\ comp \in {"active", "completed"}
    /\ clash \subseteq Requests
    /\ page \in [Requests -> [Entries -> Nat \ {0}]]
    /\ \A r \in Requests :
         \/ Idle(r)
         \/ /\ req[r].op \in {"save", "heat", "finalize", "unfinalize"}
            /\ req[r].step \in Steps
            /\ req[r].data \in Functions(Entries, Reports)
            /\ req[r].sent \in Nat
            /\ req[r].missing \subseteq Entries
            /\ \A e \in DOMAIN req[r].plan : req[r].plan[e] \in PlanRow

(* A single save that names a version overwrites a newer one only if the   *)
(* other request committed while this one was in flight: the check-then-   *)
(* update of saveResult loses updates in a race, never across requests     *)
(* that follow each other (results.service.ts:68-85).                      *)
LostUpdateOnlyInRace ==
    [][\A r \in Requests :
         SaveUpdate(r) /\ ~VersionMatches(result[Target(r)], req[r].sent)
           => r \in clash]_vars

(* A finalization whose reads are still true when it commits leaves a      *)
(* competition ranking in each age group: the order of places is the order *)
(* of times, ties share a place, and a place counts who is ahead.  Nobody  *)
(* else with a time, and nobody disqualified, keeps a place                *)
(* (results.service.ts:242-344).                                           *)
Undisturbed(r) ==
    req[r].plan = IF req[r].op = "finalize" THEN FinalPlan ELSE ClearPlan
RankingStep ==
    \A e \in Entries :
      /\ Ranked(e) =>
           /\ \A f \in Peers(e) : (result[f].time < result[e].time)
                                   <=> (result'[f].place < result'[e].place)
           /\ result'[e].place =
                1 + Cardinality({f \in Peers(e) :
                                   result'[f].place < result'[e].place})
           /\ result'[e].scored = result[e].time
      /\ Extra(e) \/ Invalid(e) => result'[e].place = NoPlace
FinalizationRanks ==
    [][\A r \in Requests :
         FinalCommit(r) /\ req[r].op = "finalize" /\ Undisturbed(r)
           => RankingStep]_vars

(* An athlete's rank goes down only when two finalizations overlap: the    *)
(* later one decided on the rank it had read before the earlier one        *)
(* upgraded the profile (results.service.ts:288-297, 320-330).             *)
RankDropsOnlyInRace ==
    [][\A e \in Entries : tier'[e] < tier[e] =>
         \E r \in clash : FinalCommit(r) /\ req[r].op = "finalize"]_vars

(* The results of a competition that stays completed come to rest: only    *)
(* requests admitted before may still change them, and they end.           *)
EventuallyFrozen == <>[](comp = "completed") => <>[][result' = result]_vars

(* README.md:28 promises optimistic locking with version conflict          *)
(* detection for the results module and its batch save: a save never       *)
(* overwrites a version that the client's page did not show.               *)
NoUnseenOverwrite ==
    [][\A r \in Requests : HeatCommit(r) =>
         \A e \in DOMAIN req[r].data : Exists(e) =>
           page[r][e] = result[e].version]_vars

(* README.md:30: athletes out of competition do not compete for places: a  *)
(* finalization whose reads are still true leaves them without one.        *)
OutOfCompetitionHasNoPlace ==
    [][\A r \in Requests :
         FinalCommit(r) /\ req[r].op = "finalize" /\ Undisturbed(r)
           => \A e \in Entries :
                OutOfCompetition(e) => result'[e].place = NoPlace]_vars

=============================================================================
