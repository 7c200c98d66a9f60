----------------------------- MODULE ResultsProofs -----------------------------
(***************************************************************************)
(* Proofs about the results of an event, for any number of entries and of  *)
(* requests in flight: what a request decided on before its last await     *)
(* still holds when it writes, unless another request committed meanwhile; *)
(* a finalization that nothing disturbed leaves a competition ranking; and *)
(* the state keeps its types.                                              *)
(***************************************************************************)
EXTENDS Results, ListLemmas

(* Types, as far as the argument about races goes.                         *)
RowTyped(row) ==
    /\ DOMAIN row = DOMAIN NoResult
    /\ row.status \in ResultStatus \cup {"none"}
    /\ row.time \in Times \cup {NoTime}
DataTyped(data) == DOMAIN data \subseteq Entries /\ \A e \in DOMAIN data : data[e] \in Reports
PlanTyped(plan) == \A e \in DOMAIN plan : e \in Entries /\ plan[e].tier \in Nat
ReqTyped(q) ==
    /\ DOMAIN q = DOMAIN NoRequest
    /\ DataTyped(q.data)
    /\ q.op = "save" => DOMAIN q.data # {}
    /\ PlanTyped(q.plan)
ResultsTyped ==
    /\ entries \subseteq Entries
    /\ result = [e \in Entries |-> result[e]]
    /\ \A e \in Entries : RowTyped(result[e])
    /\ tier \in [Entries -> Nat]
    /\ req = [r \in Requests |-> req[r]]
    /\ \A r \in Requests : ReqTyped(req[r])

(* A save about to update has compared the version it overwrites, ...      *)
SaveGood(r) ==
    At(r, "save", "update") =>
      \/ r \in clash
      \/ ~Exists(Target(r))
      \/ VersionMatches(result[Target(r)], req[r].sent)

(* ... and a plan about to be committed only raises ranks, ...             *)
PlanGood(r) ==
    AtPlanCommit(r) =>
      \A e \in DOMAIN req[r].plan :
         req[r].plan[e].tier # 0 =>
           /\ req[r].op = "finalize"
           /\ r \in clash \/ req[r].plan[e].tier > tier[e]

(* ... while nobody else has committed.                                    *)
ResultsInv ==
    /\ ResultsTyped
    /\ \A r \in Requests : SaveGood(r) /\ PlanGood(r)

-----------------------------------------------------------------------------
(* Types.                                                                  *)

LEMMA RowsTyped ==
    ASSUME NEW row, RowTyped(row), NEW report \in Reports
    PROVE  /\ RowTyped(Updated(row, report))
           /\ RowTyped(Created(report))
           /\ RowTyped(NoResult)
  <1>1. /\ report.status \in ResultStatus /\ report.status # "none"
        /\ report.time \in Times \cup {0}
    BY ResultsAssumption DEF ResultStatus
  <1> QED
    BY <1>1 DEF RowTyped, Updated, Created, StoredTime, NoResult, ResultStatus, NoTime

(* The plan of a finalization only raises ranks, that of its undoing       *)
(* touches none.                                                           *)
LEMMA PlansTyped ==
    ASSUME ResultsTyped
    PROVE  /\ PlanTyped(FinalPlan) /\ PlanTyped(ClearPlan)
           /\ \A e \in DOMAIN FinalPlan :
                 FinalPlan[e].tier # 0 => FinalPlan[e].tier > tier[e]
           /\ \A e \in DOMAIN ClearPlan : ClearPlan[e].tier = 0
  <1>1. ASSUME NEW e \in Entries, Valid(e)
        PROVE  Upgrade(e) \in Nat /\ (Upgrade(e) # 0 => Upgrade(e) > tier[e])
    <2>1. result[e].time \in Times
      BY <1>1 DEF ResultsTyped, RowTyped, Valid
    <2>2. Tier[result[e].time] \in Nat /\ tier[e] \in Nat
      BY <2>1, ResultsAssumption DEF ResultsTyped
    <2> QED
      BY <2>2 DEF Upgrade
  <1> QED
    BY <1>1 DEF PlanTyped, FinalPlan, ClearPlan, Derived, Cleared, Ranked, Extra


(* A request changes its own slot of req and no other.                     *)
LEMMA OwnSlot ==
    ASSUME ResultsTyped, NEW r \in Requests, LoadPage(r) \/ Begin(r) \/ Step(r),
           NEW q \in Requests, q # r
    PROVE  req'[q] = req[q]
  BY DEF ResultsTyped, LoadPage, Begin, Step, SaveBegin, HeatBegin, FinalBegin, SaveCheck,
     SaveUpdate, SaveCreate, SaveFails, HeatRead, HeatCommit, HeatRollback, FinalRead,
     FinalCommit, FinalRollback, Audit, Goto, Finish

LEMMA NothingTyped == DataTyped(<<>>) /\ PlanTyped(<<>>) /\ ReqTyped(NoRequest)
  <1>1. DOMAIN <<>> = {}
    OBVIOUS
  <1>2. DataTyped(<<>>) /\ PlanTyped(<<>>)
    BY <1>1 DEF DataTyped, PlanTyped
  <1> QED
    BY <1>2 DEF ReqTyped, NoRequest

LEMMA BeginTyped ==
    ASSUME ResultsTyped, NEW r \in Requests, Begin(r)
    PROVE  /\ ResultsTyped'
           /\ req'[r].step \in {"check", "read"}
           /\ UNCHANGED <<result, tier>>
  <1>1. \E q : req' = [req EXCEPT ![r] = q] /\ ReqTyped(q) /\ q.step \in {"check", "read"}
    <2>1. ASSUME NEW e \in entries, NEW report \in Reports, NEW sent, SaveBegin(r, e, report, sent)
          PROVE  \E q : /\ req' = [req EXCEPT ![r] = q] /\ ReqTyped(q)
                        /\ q.step \in {"check", "read"}
      <3> DEFINE q == [NoRequest EXCEPT !.op = "save", !.step = "check",
                                    !.data = [x \in {e} |-> report], !.sent = sent]
      <3>1. DataTyped([x \in {e} |-> report])
        BY DEF DataTyped, ResultsTyped
      <3>2. ReqTyped(q) /\ q.step \in {"check", "read"}
        BY <3>1, NothingTyped DEF ReqTyped, NoRequest
      <3>3. req' = [req EXCEPT ![r] = q]
        BY <2>1 DEF SaveBegin
      <3> HIDE DEF q
      <3> QED
        BY <3>2, <3>3
    <2>2. ASSUME NEW data \in [entries -> Reports], HeatBegin(r, data)
          PROVE  \E q : /\ req' = [req EXCEPT ![r] = q] /\ ReqTyped(q)
                        /\ q.step \in {"check", "read"}
      <3> DEFINE q == [NoRequest EXCEPT !.op = "heat", !.step = "read", !.data = data]
      <3>1. DataTyped(data)
        BY DEF DataTyped, ResultsTyped
      <3>2. ReqTyped(q) /\ q.step \in {"check", "read"}
        BY <3>1, NothingTyped DEF ReqTyped, NoRequest
      <3>3. req' = [req EXCEPT ![r] = q]
        BY <2>2 DEF HeatBegin
      <3> HIDE DEF q
      <3> QED
        BY <3>2, <3>3
    <2>3. ASSUME NEW op \in {"finalize", "unfinalize"}, FinalBegin(r, op)
          PROVE  \E q : /\ req' = [req EXCEPT ![r] = q] /\ ReqTyped(q)
                        /\ q.step \in {"check", "read"}
      <3> DEFINE q == [NoRequest EXCEPT !.op = op, !.step = "read"]
      <3>1. DataTyped(<<>>)
        BY NothingTyped
      <3>2. ReqTyped(q) /\ q.step \in {"check", "read"}
        BY <3>1, NothingTyped DEF ReqTyped, NoRequest
      <3>3. req' = [req EXCEPT ![r] = q]
        BY <2>3 DEF FinalBegin
      <3> HIDE DEF q
      <3> QED
        BY <3>2, <3>3
    <2> QED
      BY <2>1, <2>2, <2>3 DEF Begin
  <1>q. PICK q : req' = [req EXCEPT ![r] = q] /\ ReqTyped(q) /\ q.step \in {"check", "read"}
    BY <1>1
  <1>2. UNCHANGED <<entries, result, tier>>
    BY DEF Begin, SaveBegin, HeatBegin, FinalBegin, db
  <1>3. req'[r] = q
    BY <1>q DEF ResultsTyped
  <1>4. req' = [x \in Requests |-> req'[x]] /\ \A x \in Requests : x # r => req'[x] = req[x]
    BY <1>q DEF ResultsTyped
  <1> QED
    BY <1>q, <1>2, <1>3, <1>4 DEF ResultsTyped

(* A request that ends or goes on with what it has keeps the types.        *)
LEMMA GoesOn ==
    ASSUME ResultsTyped, NEW r \in Requests,
           Finish(r) \/ \E st : Goto(r, st)
    PROVE  /\ req' = [x \in Requests |-> req'[x]]
           /\ \A x \in Requests : ReqTyped(req'[x])
  <1>1. CASE Finish(r)
    BY <1>1, NothingTyped DEF ResultsTyped, Finish
  <1>2. ASSUME NEW st, Goto(r, st)
        PROVE  /\ req' = [x \in Requests |-> req'[x]]
               /\ \A x \in Requests : ReqTyped(req'[x])
    <2>1. /\ req' = [x \in Requests |-> req'[x]]
          /\ req'[r] = [req[r] EXCEPT !.step = st]
          /\ \A x \in Requests : x # r => req'[x] = req[x]
      BY <1>2 DEF ResultsTyped, Goto
    <2>2. ReqTyped([req[r] EXCEPT !.step = st])
      BY DEF ResultsTyped, ReqTyped, NoRequest
    <2> QED
      BY <2>1, <2>2 DEF ResultsTyped
  <1> QED
    BY <1>1, <1>2

LEMMA StepTyped ==
    ASSUME ResultsTyped, NEW r \in Requests, Step(r)
    PROVE  ResultsTyped'
  <1> DEFINE Reqs == /\ req' = [x \in Requests |-> req'[x]]
                     /\ \A x \in Requests : ReqTyped(req'[x])
  <1> USE DEF ResultsTyped
  <1>1. ASSUME Reqs, UNCHANGED <<entries, result, tier>> PROVE ResultsTyped'
    BY <1>1
  <1>2. CASE SaveCheck(r) \/ SaveFails(r) \/ HeatRollback(r) \/ FinalRollback(r) \/ Audit(r)
    <2>1. UNCHANGED <<entries, result, tier>>
      BY <1>2 DEF SaveCheck, SaveFails, HeatRollback, FinalRollback, Audit, db
    <2>2. Finish(r) \/ \E st : Goto(r, st)
      BY <1>2 DEF SaveCheck, SaveFails, HeatRollback, FinalRollback, Audit
    <2> QED
      BY <1>1, <2>1, <2>2, GoesOn
  <1>3. CASE HeatRead(r)
    <2>1. UNCHANGED <<entries, result, tier>>
      BY <1>3 DEF HeatRead, db
    <2>2. Reqs
      <3>1. CASE Finish(r)
        BY <3>1, GoesOn
      <3>2. CASE ~Finish(r)
        <4>1. PICK m : req' = [req EXCEPT ![r].step = "commit", ![r].missing = m]
          BY <1>3, <3>2 DEF HeatRead
        <4>2. ReqTyped([req[r] EXCEPT !.step = "commit", !.missing = m])
          BY DEF ReqTyped, NoRequest
        <4> QED
          BY <4>1, <4>2
      <3> QED
        BY <3>1, <3>2
    <2> QED
      BY <1>1, <2>1, <2>2
  <1>4. CASE FinalRead(r)
    <2>1. UNCHANGED <<entries, result, tier>>
      BY <1>4 DEF FinalRead, db
    <2>2. PICK plan : PlanTyped(plan) /\ req' = [req EXCEPT ![r].step = "commit", ![r].plan = plan]
      BY <1>4, PlansTyped DEF FinalRead
    <2>3. Reqs
      <3>1. ReqTyped([req[r] EXCEPT !.step = "commit", !.plan = plan])
        BY <2>2 DEF ReqTyped, NoRequest
      <3> QED
        BY <2>2, <3>1
    <2> QED
      BY <1>1, <2>1, <2>3
  <1>5. CASE SaveUpdate(r) \/ SaveCreate(r)
    <2>1. UNCHANGED <<entries, tier>> /\ (Finish(r) \/ \E st : Goto(r, st))
      BY <1>5 DEF SaveUpdate, SaveCreate
    <2>2. DOMAIN req[r].data # {} => Target(r) \in DOMAIN req[r].data
      BY DEF Target
    <2>3. result' = [e \in Entries |-> result'[e]] /\ \A e \in Entries : RowTyped(result'[e])
      <3>1. req[r].data[Target(r)] \in Reports
        BY <1>5, <2>2 DEF ReqTyped, DataTyped, SaveUpdate, SaveCreate, At
      <3> QED
        BY <1>5, <3>1, RowsTyped DEF SaveUpdate, SaveCreate
    <2> QED
      BY <2>1, <2>3, GoesOn
  <1>6. CASE HeatCommit(r)
    <2>1. UNCHANGED <<entries, tier>> /\ \E st : Goto(r, st)
      BY <1>6 DEF HeatCommit
    <2>2. result' = [e \in Entries |-> result'[e]] /\ \A e \in Entries : RowTyped(result'[e])
      BY <1>6, RowsTyped DEF HeatCommit, ReqTyped, DataTyped
    <2> QED
      BY <2>1, <2>2, GoesOn
  <1>7. CASE FinalCommit(r)
    <2>1. UNCHANGED entries /\ \E st : Goto(r, st)
      BY <1>7 DEF FinalCommit
    <2>2. result' = [e \in Entries |-> result'[e]] /\ \A e \in Entries : RowTyped(result'[e])
      BY <1>7 DEF FinalCommit, RowTyped, NoResult
    <2>3. tier' \in [Entries -> Nat]
      BY <1>7 DEF FinalCommit, ReqTyped, PlanTyped
    <2> QED
      BY <2>1, <2>2, <2>3, GoesOn
  <1> QED
    BY <1>2, <1>3, <1>4, <1>5, <1>6, <1>7 DEF Step

LEMMA NextTyped ==
    ASSUME ResultsTyped, Next
    PROVE  ResultsTyped'
  <1>1. ASSUME NEW r \in Requests, LoadPage(r) PROVE ResultsTyped'
    BY <1>1 DEF LoadPage, db, ResultsTyped
  <1>2. ASSUME NEW c, SetStatus(c) PROVE ResultsTyped'
    BY <1>2 DEF SetStatus, ResultsTyped
  <1>3. ASSUME NEW e \in Entries, EditEntry(e) PROVE ResultsTyped'
    BY <1>3 DEF EditEntry, ResultsTyped
  <1>4. ASSUME NEW e \in Entries, DeleteEntry(e) PROVE ResultsTyped'
    BY <1>4 DEF DeleteEntry, ResultsTyped, RowTyped, NoResult
  <1> QED
    BY <1>1, <1>2, <1>3, <1>4, BeginTyped, StepTyped DEF Next


-----------------------------------------------------------------------------
(* What the others do while r is in flight.                                *)

(* Whoever else writes results or profiles commits, and r is told.         *)
LEMMA OthersCommit ==
    ASSUME ResultsTyped, NEW r \in Requests, LoadPage(r) \/ Begin(r) \/ Step(r),
           NEW q \in Requests, q # r
    PROVE  /\ q \in clash => q \in clash'
           /\ Idle(q) \/ q \in clash' \/ UNCHANGED <<result, tier>>
  <1>1. CASE LoadPage(r)
    BY <1>1 DEF LoadPage, db
  <1>2. CASE Begin(r)
    <2>1. Begins(r)
      BY <1>2 DEF Begin, SaveBegin, HeatBegin, FinalBegin
    <2> QED
      BY <1>2, <2>1, BeginTyped DEF Begins
  <1>3. CASE SaveUpdate(r) \/ SaveCreate(r) \/ HeatCommit(r) \/ FinalCommit(r)
    BY <1>3 DEF SaveUpdate, SaveCreate, HeatCommit, FinalCommit, Commits
  <1>4. CASE \/ SaveCheck(r) \/ SaveFails(r) \/ HeatRead(r) \/ HeatRollback(r)
             \/ FinalRead(r) \/ FinalRollback(r) \/ Audit(r)
    BY <1>4 DEF SaveCheck, SaveFails, HeatRead, HeatRollback, FinalRead, FinalRollback, Audit, db
  <1> QED
    BY <1>1, <1>2, <1>3, <1>4 DEF Step

LEMMA OthersKeepGood ==
    ASSUME ResultsInv, NEW r \in Requests, LoadPage(r) \/ Begin(r) \/ Step(r),
           NEW q \in Requests, q # r
    PROVE  SaveGood(q)' /\ PlanGood(q)'
  <1>1. req'[q] = req[q]
    BY OwnSlot DEF ResultsInv
  <1>2. /\ q \in clash => q \in clash'
        /\ Idle(q) \/ q \in clash' \/ UNCHANGED <<result, tier>>
    BY OthersCommit DEF ResultsInv
  <1>3. SaveGood(q) /\ PlanGood(q)
    BY DEF ResultsInv
  <1>4. SaveGood(q)'
    BY <1>1, <1>2, <1>3 DEF SaveGood, At, Idle, NoRequest, Target, Exists
  <1>5. PlanGood(q)'
    BY <1>1, <1>2, <1>3 DEF PlanGood, AtPlanCommit, Idle, NoRequest
  <1> QED
    BY <1>4, <1>5

(* What r does itself.                                                     *)
LEMMA OwnKeepsGood ==
    ASSUME ResultsInv, NEW r \in Requests, LoadPage(r) \/ Begin(r) \/ Step(r)
    PROVE  SaveGood(r)' /\ PlanGood(r)'
  <1> USE DEF ResultsInv
  <1>1. ASSUME req'[r].step \notin {"update", "commit"}
        PROVE  SaveGood(r)' /\ PlanGood(r)'
    BY <1>1 DEF SaveGood, PlanGood, At, AtPlanCommit
  <1>2. CASE LoadPage(r)
    BY <1>2 DEF LoadPage, db, SaveGood, PlanGood, At, AtPlanCommit, Target, Exists
  <1>3. CASE Begin(r)
    BY <1>1, <1>3, BeginTyped
  <1>4. CASE SaveCheck(r)
    <2>1. /\ UNCHANGED <<result, tier, clash>> /\ req[r].op = "save"
          /\ \/ req'[r].step \notin {"update", "commit"}
             \/ /\ VersionMatches(result[Target(r)], req[r].sent)
                /\ Goto(r, "update")
      <3>1. Finish(r) => req'[r].step \notin {"update", "commit"}
        BY DEF Finish, ResultsTyped, NoRequest
      <3>2. Goto(r, "create") => req'[r].step \notin {"update", "commit"}
        BY DEF Goto, ResultsTyped, ReqTyped, NoRequest
      <3> QED
        BY <1>4, <3>1, <3>2 DEF SaveCheck, db, At
    <2>2. ASSUME Goto(r, "update"), VersionMatches(result[Target(r)], req[r].sent)
          PROVE  SaveGood(r)' /\ PlanGood(r)'
      <3>1. /\ req'[r].op = "save" /\ req'[r].data = req[r].data
            /\ req'[r].sent = req[r].sent
        BY <2>1, <2>2 DEF Goto, ResultsTyped, ReqTyped, NoRequest
      <3> QED
        BY <2>1, <2>2, <3>1 DEF SaveGood, PlanGood, AtPlanCommit, Target
    <2> QED
      BY <1>1, <2>1, <2>2
  <1>5. CASE \/ SaveUpdate(r) \/ SaveFails(r) \/ HeatRollback(r) \/ FinalRollback(r) \/ Audit(r)
    <2>1. Finish(r)
      BY <1>5 DEF SaveUpdate, SaveFails, HeatRollback, FinalRollback, Audit
    <2> QED
      BY <1>1, <2>1 DEF Finish, NoRequest, ResultsTyped
  <1>6. CASE SaveCreate(r) \/ HeatCommit(r) \/ FinalCommit(r)
    <2>1. Goto(r, "audit")
      BY <1>6 DEF SaveCreate, HeatCommit, FinalCommit
    <2> QED
      BY <1>1, <2>1 DEF Goto, ResultsTyped, ReqTyped, NoRequest
  <1>7. CASE HeatRead(r)
    <2>1. req'[r] = NoRequest \/ req'[r].op = "heat"
      BY <1>7, ZenonT(60) DEF HeatRead, At, Finish, ResultsTyped, ReqTyped, NoRequest
    <2> QED
      BY <2>1 DEF SaveGood, PlanGood, At, AtPlanCommit, NoRequest
  <1>8. CASE FinalRead(r)
    <2>1. /\ req'[r].op = req[r].op /\ req[r].op \in {"finalize", "unfinalize"}
          /\ req'[r].plan = IF req[r].op = "finalize" THEN FinalPlan ELSE ClearPlan
          /\ UNCHANGED tier
      BY <1>8 DEF FinalRead, ResultsTyped, ReqTyped, NoRequest, db
    <2> QED
      BY <2>1, PlansTyped DEF SaveGood, PlanGood, At
  <1> QED
    BY <1>2, <1>3, <1>4, <1>5, <1>6, <1>7, <1>8 DEF Step

LEMMA NextKeepsGood ==
    ASSUME ResultsInv, Next, NEW r \in Requests
    PROVE  SaveGood(r)' /\ PlanGood(r)'
  <1>1. ASSUME NEW q \in Requests, LoadPage(q) \/ Begin(q) \/ Step(q)
        PROVE  SaveGood(r)' /\ PlanGood(r)'
    BY <1>1, OthersKeepGood, OwnKeepsGood
  <1>2. ASSUME UNCHANGED <<result, tier, req, clash>>
        PROVE  SaveGood(r)' /\ PlanGood(r)'
    BY <1>2 DEF ResultsInv, SaveGood, PlanGood, At, AtPlanCommit, Target, Exists
  <1>3. ASSUME NEW e \in Entries, DeleteEntry(e)
        PROVE  SaveGood(r)' /\ PlanGood(r)'
    <2>1. /\ UNCHANGED <<tier, req, clash>>
          /\ ~Exists(e)' /\ \A f \in Entries : f # e => result'[f] = result[f]
      BY <1>3 DEF DeleteEntry, Exists, NoResult, ResultsInv, ResultsTyped
    <2>2. req[r].op = "save" => Target(r) \in Entries
      BY DEF ResultsInv, ResultsTyped, ReqTyped, DataTyped, Target
    <2> QED
      BY <2>1, <2>2 DEF ResultsInv, SaveGood, PlanGood, At, AtPlanCommit, Target, Exists
  <1> QED
    BY <1>1, <1>2, <1>3 DEF Next, SetStatus, EditEntry

-----------------------------------------------------------------------------
LEMMA InitResults == Init => ResultsInv
  <1> SUFFICES ASSUME Init PROVE ResultsInv
    OBVIOUS
  <1>1. ResultsTyped
    BY NothingTyped DEF Init, ResultsTyped, RowTyped, NoResult
  <1>2. \A r \in Requests : SaveGood(r) /\ PlanGood(r)
    BY DEF Init, SaveGood, PlanGood, At, AtPlanCommit, NoRequest
  <1> QED
    BY <1>1, <1>2 DEF ResultsInv

LEMMA ResultsStep == ResultsInv /\ [Next]_vars => ResultsInv'
  <1> SUFFICES ASSUME ResultsInv, [Next]_vars PROVE ResultsInv'
    OBVIOUS
  <1>1. CASE Next
    BY <1>1, NextTyped, NextKeepsGood DEF ResultsInv
  <1>2. CASE UNCHANGED vars
    BY <1>2 DEF vars, db, ResultsInv, ResultsTyped, SaveGood, PlanGood, At, AtPlanCommit, Target,
       Exists
  <1> QED
    BY <1>1, <1>2

THEOREM ResultsInvariance == Spec => []ResultsInv
  BY InitResults, ResultsStep, PTL DEF Spec

(* saveResult overwrites another version than the client's only if another *)
(* request committed between its read and its update.                      *)
THEOREM UpdatesLostInRace == Spec => LostUpdateOnlyInRace
  <1>1. ResultsInv =>
          \A r \in Requests :
            SaveUpdate(r) /\ ~VersionMatches(result[Target(r)], req[r].sent) => r \in clash
    BY DEF ResultsInv, SaveUpdate, SaveGood
  <1> QED
    BY <1>1, ResultsInvariance, PTL DEF LostUpdateOnlyInRace

(* An athlete's rank drops only by a finalization that read it before      *)
(* another one committed.                                                  *)
THEOREM RanksDropInRace == Spec => RankDropsOnlyInRace
  <1>1. ASSUME ResultsInv, Next, NEW e \in Entries, tier'[e] < tier[e]
        PROVE  \E r \in clash : FinalCommit(r) /\ req[r].op = "finalize"
    <2>1. PICK r \in Requests : FinalCommit(r)
      <3>1. ASSUME ~\E r \in Requests : FinalCommit(r) PROVE tier' = tier
        BY <1>1, <3>1, BeginTyped DEF ResultsInv, Next, LoadPage, Step, SaveCheck, SaveUpdate, SaveCreate,
           SaveFails, HeatRead, HeatCommit, HeatRollback, FinalRead, FinalRollback, Audit,
           SetStatus, EditEntry, DeleteEntry, db
      <3>2. tier[e] \in Nat
        BY <1>1 DEF ResultsInv, ResultsTyped
      <3> QED
        BY <1>1, <3>1, <3>2
    <2>2. /\ e \in DOMAIN req[r].plan /\ req[r].plan[e].tier # 0
          /\ tier'[e] = req[r].plan[e].tier
      <3>1. /\ tier \in [Entries -> Nat]
            /\ tier'[e] = IF e \in DOMAIN req[r].plan /\ req[r].plan[e].tier # 0
                          THEN req[r].plan[e].tier ELSE tier[e]
        BY <1>1, <2>1 DEF FinalCommit, ResultsInv, ResultsTyped
      <3>2. tier[e] \in Nat
        BY <3>1
      <3> QED
        BY <1>1, <3>1, <3>2
    <2>3. tier[e] \in Nat /\ req[r].plan[e].tier \in Nat
      BY <1>1, <2>2 DEF ResultsInv, ResultsTyped, ReqTyped, PlanTyped
    <2>4. req[r].op = "finalize" /\ (r \in clash \/ req[r].plan[e].tier > tier[e])
      BY <1>1, <2>1, <2>2 DEF ResultsInv, PlanGood, FinalCommit
    <2> QED
      BY <1>1, <2>1, <2>2, <2>3, <2>4
  <1>2. ResultsInv /\ [Next]_vars =>
          [\A e \in Entries : tier'[e] < tier[e] =>
             \E r \in clash : FinalCommit(r) /\ req[r].op = "finalize"]_vars
    BY <1>1
  <1> QED
    BY <1>2, ResultsInvariance, PTL DEF Spec, RankDropsOnlyInRace

-----------------------------------------------------------------------------
(* The places a finalization gives.                                        *)
LEMMA PlaceOfSays ==
    ASSUME ResultsTyped, NEW e \in Entries, Ranked(e)
    PROVE  /\ e \in Peers(e) /\ Peers(e) \subseteq Entries
           /\ PlaceOf(e) \in 1 .. Cardinality(Entries)
           /\ \A f \in Peers(e) : result[f].time < result[e].time <=> PlaceOf(f) < PlaceOf(e)
           /\ PlaceOf(e) = 1 + Cardinality({f \in Peers(e) : PlaceOf(f) < PlaceOf(e)})
<1> DEFINE S == Peers(e)
           n == Cardinality(S)
           t == [f \in S |-> result[f].time]
           order == InOrder(e)
           times == [i \in DOMAIN order |-> t[order[i]]]
           pos == [f \in S |-> Position(f)]
           p == [f \in S |-> PlaceOf(f)]
<1>1. S \subseteq Entries /\ IsFiniteSet(S) /\ e \in S
  BY ResultsAssumption, FS_Subset DEF Peers
<1>2. n \in Nat /\ n <= Cardinality(Entries) /\ Cardinality(Entries) \in Nat
  BY <1>1, ResultsAssumption, FS_Subset, FS_CardinalityType
<1>3. t \in [S -> Int]
  <2>1. \A f \in Entries : result[f].time \in Int
    BY ResultsAssumption DEF ResultsTyped, RowTyped, NoTime
  <2> QED
    BY <1>1, <2>1
<1>4. \A f \in S : Peers(f) = S
  BY DEF Peers
<1>5. \A f \in S : InOrder(f) = order
  BY <1>4 DEF InOrder
<1>6. order \in SetToSeqs(S) /\ Sorted(t, order)
  <2>1. PICK o \in SetToSeqs(S) : Sorted(t, o)
    BY <1>1, <1>3, OrderExists
  <2>2. ASSUME NEW x \in SetToSeqs(S)
        PROVE  Sorted(t, x) <=> \A i, j \in DOMAIN x :
                                  i < j => result[x[i]].time <= result[x[j]].time
    <3>1. \A i \in DOMAIN x : x[i] \in S
      BY <1>1, <2>2, OrderSays
    <3> QED
      BY <3>1 DEF Sorted
  <2>3. /\ order \in SetToSeqs(S)
        /\ \A i, j \in DOMAIN order : i < j => result[order[i]].time <= result[order[j]].time
    BY <2>1, <2>2 DEF InOrder
  <2> QED
    BY <2>2, <2>3
<1>7. DOMAIN order = 1 .. n /\ order \in Bijection(1 .. n, S) /\ \A i \in 1 .. n : order[i] \in S
  BY <1>1, <1>6, OrderSays
<1>8. \A f \in S : pos[f] \in 1 .. n /\ order[pos[f]] = f
  <2> SUFFICES ASSUME NEW f \in S PROVE pos[f] \in 1 .. n /\ order[pos[f]] = f
    OBVIOUS
  <2>1. \E i \in 1 .. n : order[i] = f
    BY <1>7 DEF Bijection, Surjection
  <2>2. Position(f) = CHOOSE i \in 1 .. n : order[i] = f
    BY <1>5, <1>7 DEF Position
  <2> QED
    BY <2>1, <2>2
<1>9. times = [i \in DOMAIN order |-> result[order[i]].time]
  BY <1>7
<1>10. \A f \in S : p[f] = Places(times)[pos[f]]
  BY <1>5, <1>9 DEF PlaceOf
<1>11. pos \in [S -> 1 .. n]
  BY <1>8
<1>12. \A f \in S : p[f] = PlaceOf(f)
  OBVIOUS
<1>13. \A f \in S : t[f] = result[f].time
  OBVIOUS
<1>14. times = [i \in DOMAIN order |-> t[order[i]]]
  OBVIOUS
<1> HIDE DEF t, order, times, pos, p, S
<1>15. /\ p[e] \in 1 .. n
       /\ \A f \in S : t[f] < t[e] <=> p[f] < p[e]
       /\ p[e] = 1 + Cardinality(Ahead(S, p, e))
  <2>1. PlacedBy(S, t, order, pos, p)
    BY <1>1, <1>3, <1>6, <1>8, <1>10, <1>11, <1>14 DEF PlacedBy
  <2> QED
    BY <1>1, <2>1, PlacesCount
<1>16. Ahead(S, p, e) = {f \in S : PlaceOf(f) < PlaceOf(e)}
  BY <1>1, <1>12 DEF Ahead
<1>17. PlaceOf(e) \in 1 .. Cardinality(Entries)
  BY <1>1, <1>2, <1>12, <1>15
<1> QED
  BY <1>1, <1>12, <1>13, <1>15, <1>16, <1>17 DEF S

-----------------------------------------------------------------------------
(* A finalization whose reads are still true leaves a competition ranking  *)
(* in each age group, whoever swam and whatever is reported.               *)
THEOREM FinalizationsRank == Spec => FinalizationRanks
<1>1. ASSUME ResultsInv, NEW r \in Requests, FinalCommit(r), req[r].op = "finalize", Undisturbed(r)
      PROVE  RankingStep
  <2>1. \A e \in Entries : e \in DOMAIN FinalPlan =>
          /\ result'[e].place = FinalPlan[e].place /\ result'[e].scored = FinalPlan[e].scored
    <3>1. req[r].plan = FinalPlan
      BY <1>1 DEF Undisturbed
    <3>2. \A e \in Entries : DOMAIN result[e] = DOMAIN NoResult
      BY <1>1 DEF ResultsInv, ResultsTyped, RowTyped
    <3> HIDE DEF FinalPlan
    <3> QED
      BY <1>1, <3>1, <3>2 DEF FinalCommit, NoResult
  <2>2. \A e \in Entries : Ranked(e) =>
          result'[e].place = PlaceOf(e) /\ result'[e].scored = result[e].time
    BY <2>1 DEF FinalPlan, Ranked, Derived
  <2>3. \A e \in Entries : Extra(e) \/ Invalid(e) => result'[e].place = NoPlace
    BY <2>1 DEF FinalPlan, Ranked, Extra, Invalid, Valid, Derived
  <2>4. ASSUME NEW e \in Entries, Ranked(e)
        PROVE  /\ \A f \in Peers(e) : (result[f].time < result[e].time)
                                        <=> (result'[f].place < result'[e].place)
               /\ result'[e].place =
                    1 + Cardinality({f \in Peers(e) : result'[f].place < result'[e].place})
    <3>1. /\ \A f \in Peers(e) : result[f].time < result[e].time <=> PlaceOf(f) < PlaceOf(e)
          /\ PlaceOf(e) = 1 + Cardinality({f \in Peers(e) : PlaceOf(f) < PlaceOf(e)})
      BY <1>1, <2>4, PlaceOfSays DEF ResultsInv
    <3>2. result'[e].place = PlaceOf(e) /\ \A f \in Peers(e) : result'[f].place = PlaceOf(f)
      BY <2>2, <2>4 DEF Peers
    <3>3. {f \in Peers(e) : result'[f].place < result'[e].place}
            = {f \in Peers(e) : PlaceOf(f) < PlaceOf(e)}
      BY <3>2
    <3> QED
      BY <3>1, <3>2, <3>3
  <2> QED
    BY <2>2, <2>3, <2>4 DEF RankingStep
<1>2. ResultsInv /\ [Next]_vars =>
        [\A r \in Requests : FinalCommit(r) /\ req[r].op = "finalize" /\ Undisturbed(r)
                               => RankingStep]_vars
  BY <1>1
<1> QED
  BY <1>2, ResultsInvariance, PTL DEF Spec, FinalizationRanks

-----------------------------------------------------------------------------
(* TypeOK.  The versions stay below their bound because a request takes    *)
(* one that is below MaxVersion, and each of the others in flight adds at  *)
(* most one to it before it ends.                                          *)

RowGood(row) ==
    /\ RowTyped(row) /\ row = [c \in DOMAIN row |-> row[c]]
    /\ row.version \in Nat /\ (row.status # "none" => row.version # 0)
    /\ row.place \in 0 .. Cardinality(Entries)
    /\ row.shown \in {"", "place", "PK", "DQ"}
    /\ row.scored \in Times \cup {NoTime}
PlanRowsGood(plan) == \A e \in DOMAIN plan : plan[e] \in PlanRow
ReqGood(q) ==
    \/ q = NoRequest
    \/ /\ q.op \in {"save", "heat", "finalize", "unfinalize"}
       /\ q.step \in Steps
       /\ q.data \in Functions(Entries, Reports)
       /\ q.sent \in Nat
       /\ q.missing \subseteq Entries
       /\ PlanRowsGood(q.plan)

(* The requests that may yet write the result of e.                        *)
Pending(e) == {r \in Requests : e \in DOMAIN req[r].data /\ req[r].step # "audit"}
VersionBound(v, pending) ==
    v + Cardinality(pending) <= MaxVersion - 1 + Cardinality(Requests)

TypesInv ==
    /\ ResultsInv
    /\ out \subseteq entries /\ comp \in {"active", "completed"} /\ clash \subseteq Requests
    /\ page \in [Requests -> [Entries -> Nat \ {0}]]
    /\ \A e \in Entries : RowGood(result[e]) /\ VersionBound(result[e].version, Pending(e))
    /\ \A r \in Requests : ReqGood(req[r])

(* One version more for one request less.                                  *)
BoundStep(v, pending, w, after) ==
    \/ w <= v /\ after \subseteq pending
    \/ w <= v + 1 /\ \E r \in pending : after \subseteq pending \ {r}
    \/ w < MaxVersion

LEMMA BoundKeeps ==
    ASSUME NEW v \in Nat, NEW w \in Nat, NEW pending \in SUBSET Requests,
           NEW after \in SUBSET Requests,
           VersionBound(v, pending), BoundStep(v, pending, w, after)
    PROVE  VersionBound(w, after)
<1> DEFINE R == Cardinality(Requests)
           P == Cardinality(pending)
           A == Cardinality(after)
<1>1. /\ IsFiniteSet(pending) /\ IsFiniteSet(after)
      /\ R \in Nat /\ P \in Nat /\ A \in Nat /\ A <= R /\ P <= R
  BY ResultsAssumption, FS_Subset, FS_CardinalityType
<1>2. after \subseteq pending => A <= P
  BY <1>1, FS_Subset
<1>3. ASSUME NEW r \in pending, after \subseteq pending \ {r} PROVE A <= P - 1
  <2>1. IsFiniteSet(pending \ {r}) /\ Cardinality(pending \ {r}) = P - 1
    BY <1>1, FS_RemoveElement
  <2> QED
    BY <1>3, <2>1, FS_Subset
<1>4. v + P <= MaxVersion - 1 + R /\ MaxVersion \in Nat
  BY ResultsAssumption DEF VersionBound
<1>5. CASE w <= v /\ after \subseteq pending
  <2>1. A <= P
    BY <1>2, <1>5
  <2> HIDE DEF R, P, A
  <2>2. w + A <= MaxVersion - 1 + R
    BY <1>1, <1>4, <1>5, <2>1
  <2> QED
    BY <2>2 DEF VersionBound, R, A
<1>6. CASE w <= v + 1 /\ \E r \in pending : after \subseteq pending \ {r}
  <2>1. A <= P - 1
    BY <1>3, <1>6
  <2> HIDE DEF R, P, A
  <2>2. w + A <= MaxVersion - 1 + R
    BY <1>1, <1>4, <1>6, <2>1
  <2> QED
    BY <2>2 DEF VersionBound, R, A
<1>7. CASE w < MaxVersion
  <2> HIDE DEF R, P, A
  <2>1. w + A <= MaxVersion - 1 + R
    BY <1>1, <1>4, <1>7
  <2> QED
    BY <2>1 DEF VersionBound, R, A
<1> QED
  BY <1>5, <1>6, <1>7 DEF BoundStep

LEMMA NoRowGood == RowGood(NoResult) /\ NoResult.version = 0
<1>1. /\ 0 \in Nat /\ 0 \in 0 .. Cardinality(Entries)
  BY ResultsAssumption, FS_CardinalityType
<1>2. NoResult = [c \in DOMAIN NoResult |-> NoResult[c]]
  BY DEF NoResult
<1>3. /\ NoResult.version = 0 /\ NoResult.place = 0 /\ NoResult.shown = ""
      /\ NoResult.scored = NoTime /\ NoResult.status = "none" /\ NoResult.time = NoTime
  BY DEF NoResult, NoPlace
<1> QED
  BY <1>1, <1>2, <1>3 DEF RowGood, RowTyped

LEMMA RowsGood ==
    ASSUME NEW row, RowGood(row), NEW report \in Reports
    PROVE  /\ RowGood(Updated(row, report)) /\ Updated(row, report).version = row.version + 1
           /\ RowGood(Created(report)) /\ Created(report).version = 1
<1>1. /\ report.status # "none" /\ 0 \in Nat /\ 1 \in Nat /\ 1 # 0
      /\ \A v \in Nat : v + 1 # 0 /\ v + 1 \in Nat
  BY ResultsAssumption
<1>a. 0 \in 0 .. Cardinality(Entries)
  BY ResultsAssumption, FS_CardinalityType
<1>2. RowTyped(Updated(row, report)) /\ RowTyped(Created(report))
  BY RowsTyped DEF RowGood
<1>5. /\ Updated(row, report) = [c \in DOMAIN Updated(row, report) |-> Updated(row, report)[c]]
      /\ Created(report) = [c \in DOMAIN Created(report) |-> Created(report)[c]]
  BY DEF Updated, Created
<1>6. /\ Updated(row, report).version = row.version + 1
      /\ Updated(row, report).place = row.place /\ Updated(row, report).shown = row.shown
      /\ Updated(row, report).scored = row.scored
  BY DEF Updated, RowGood, RowTyped, NoResult
<1>7. RowGood(Updated(row, report))
  BY <1>1, <1>2, <1>5, <1>6 DEF RowGood
<1>8. /\ Created(report).version = 1 /\ Created(report).place = 0
      /\ Created(report).shown = "" /\ Created(report).scored = NoTime
  BY DEF Created, NoResult, NoPlace
<1>9. RowGood(Created(report))
  BY <1>1, <1>a, <1>2, <1>5, <1>8 DEF RowGood
<1> QED
  BY <1>6, <1>7, <1>8, <1>9

LEMMA PlansGood ==
    ASSUME TypesInv
    PROVE  PlanRowsGood(FinalPlan) /\ PlanRowsGood(ClearPlan)
<1>1. ResultsTyped /\ Cardinality(Entries) \in Nat
  BY ResultsAssumption, FS_CardinalityType DEF TypesInv, ResultsInv
<1> DEFINE place == 0 .. Cardinality(Entries)
<1>a. /\ PlanRow = [place : place, shown : {"", "place", "PK", "DQ"}, scored : Times \cup {NoTime},
                    tier : Nat]
      /\ 0 \in place
  BY <1>1 DEF PlanRow
<1> HIDE DEF place
<1>2. ASSUME NEW p \in place, NEW sh \in {"", "place", "PK", "DQ"},
             NEW t \in Times \cup {NoTime}, NEW up \in Nat
      PROVE  Derived(p, sh, t, up) \in PlanRow
  BY <1>a DEF Derived
<1>3. /\ Derived(NoPlace, "", NoTime, 0) \in PlanRow
      /\ Derived(NoPlace, "DQ", NoTime, 0) \in PlanRow
  BY <1>a DEF Derived, NoPlace
<1>b. \A e \in DOMAIN ClearPlan : ClearPlan[e] \in PlanRow
  BY <1>3 DEF ClearPlan, Cleared
<1>4. ASSUME NEW e \in DOMAIN FinalPlan PROVE FinalPlan[e] \in PlanRow
  <2>1. e \in Entries /\ (Valid(e) \/ Invalid(e))
    BY DEF FinalPlan
  <2>2. Valid(e) => result[e].time \in Times /\ Upgrade(e) \in Nat
    <3>1. Valid(e) => result[e].time \in Times
      BY <1>1, <2>1 DEF ResultsTyped, RowTyped, Valid
    <3>2. Valid(e) => Tier[result[e].time] \in Nat
      BY <3>1, ResultsAssumption
    <3> QED
      BY <3>1, <3>2 DEF Upgrade
  <2>3. CASE Ranked(e)
    <3>1. PlaceOf(e) \in place
      <4>1. PlaceOf(e) \in 1 .. Cardinality(Entries)
        BY <1>1, <2>1, <2>3, PlaceOfSays
      <4> QED
        BY <1>1, <4>1 DEF place
    <3>2. FinalPlan[e] = Derived(PlaceOf(e), "place", result[e].time, Upgrade(e))
      BY <2>3 DEF FinalPlan
    <3> QED
      BY <1>2, <2>2, <2>3, <3>1, <3>2 DEF Ranked
  <2>4. CASE ~Ranked(e) /\ Extra(e)
    <3>1. FinalPlan[e] = Derived(NoPlace, "PK", result[e].time, Upgrade(e))
      BY <2>4 DEF FinalPlan
    <3>2. /\ NoPlace \in place /\ "PK" \in {"", "place", "PK", "DQ"}
          /\ result[e].time \in Times \cup {NoTime} /\ Upgrade(e) \in Nat
      BY <1>a, <2>2, <2>4 DEF Extra, NoPlace
    <3>3. Derived(NoPlace, "PK", result[e].time, Upgrade(e)) \in PlanRow
      BY <1>2, <3>2
    <3> QED
      BY <3>1, <3>3
  <2>5. CASE ~Ranked(e) /\ ~Extra(e)
    <3>1. FinalPlan[e] = Derived(NoPlace, "DQ", NoTime, 0)
      BY <2>5 DEF FinalPlan
    <3> QED
      BY <1>3, <3>1
  <2> QED
    BY <2>3, <2>4, <2>5
<1> QED
  BY <1>4, <1>b DEF PlanRowsGood

LEMMA IdleSays == \A r : Idle(r) => req[r].op = "none" /\ req[r].step = "idle"
BY DEF Idle, NoRequest

(* What finalization changes in a row.                                     *)
Marked(row, p, sh, t) == [row EXCEPT !.place = p, !.shown = sh, !.scored = t]

LEMMA RowMarked ==
    ASSUME NEW row, RowGood(row), NEW p \in 0 .. Cardinality(Entries),
           NEW sh \in {"", "place", "PK", "DQ"}, NEW t \in Times \cup {NoTime}
    PROVE  RowGood(Marked(row, p, sh, t)) /\ Marked(row, p, sh, t).version = row.version
<1> DEFINE new == Marked(row, p, sh, t)
<1>1. DOMAIN new = DOMAIN row /\ new = [c \in DOMAIN new |-> new[c]]
  BY DEF Marked
<1>2. DOMAIN row = {"status", "time", "version", "place", "shown", "scored"}
  BY DEF RowGood, RowTyped, NoResult
<1>3. /\ new.status = row.status /\ new.time = row.time /\ new.version = row.version
      /\ new.place = p /\ new.shown = sh /\ new.scored = t
  BY <1>2 DEF Marked
<1> HIDE DEF new
<1>4. RowGood(new)
  BY <1>1, <1>3 DEF RowGood, RowTyped
<1> QED
  BY <1>3, <1>4 DEF new

(* A request that ends owes nothing, one that goes on keeps what it has.   *)
LEMMA GoesOnGood ==
    ASSUME TypesInv, NEW r \in Requests
    PROVE  /\ Finish(r) => req'[r] = NoRequest /\ DOMAIN req'[r].data = {}
           /\ \A st \in Steps : Goto(r, st) /\ ~Idle(r) =>
                /\ ReqGood(req'[r]) /\ req'[r].data = req[r].data /\ req'[r].step = st
<1>1. ResultsTyped /\ ReqGood(req[r]) /\ ReqTyped(req[r])
  BY DEF TypesInv, ResultsInv, ResultsTyped
<1>2. DOMAIN NoRequest.data = {}
  BY DEF NoRequest
<1>3. Finish(r) => req'[r] = NoRequest
  BY <1>1 DEF Finish, ResultsTyped
<1>4. ASSUME NEW st \in Steps, Goto(r, st), ~Idle(r)
      PROVE  ReqGood(req'[r]) /\ req'[r].data = req[r].data /\ req'[r].step = st
  <2>1. req'[r] = [req[r] EXCEPT !.step = st]
    BY <1>1, <1>4 DEF Goto, ResultsTyped
  <2>2. /\ req'[r].op = req[r].op /\ req'[r].step = st /\ req'[r].data = req[r].data
        /\ req'[r].sent = req[r].sent /\ req'[r].missing = req[r].missing
        /\ req'[r].plan = req[r].plan
    BY <1>1, <2>1 DEF ReqTyped, NoRequest
  <2> QED
    BY <1>1, <1>4, <2>2 DEF ReqGood, Idle
<1> QED
  BY <1>2, <1>3, <1>4

LEMMA OwnStepGood ==
    ASSUME TypesInv, NEW r \in Requests, Step(r)
    PROVE  /\ ReqGood(req'[r])
           /\ \A e \in DOMAIN req'[r].data :
                req'[r].step # "audit" => e \in DOMAIN req[r].data /\ req[r].step # "audit"
<1>1. ResultsTyped /\ ReqGood(req[r]) /\ ReqTyped(req[r])
  BY DEF TypesInv, ResultsInv, ResultsTyped
<1>2. CASE Finish(r)
  BY <1>2, GoesOnGood DEF ReqGood
<1>3. ASSUME NEW st \in Steps, Goto(r, st), ~Idle(r), st = "audit" \/ req[r].step # "audit"
      PROVE  /\ ReqGood(req'[r])
             /\ \A e \in DOMAIN req'[r].data :
                  req'[r].step # "audit" => e \in DOMAIN req[r].data /\ req[r].step # "audit"
  BY <1>3, GoesOnGood
<1>4. CASE SaveCheck(r) \/ SaveCreate(r) \/ HeatCommit(r) \/ FinalCommit(r)
  <2>1. Finish(r) \/ \E st \in Steps : Goto(r, st) /\ (st = "audit" \/ req[r].step # "audit")
    BY <1>4 DEF SaveCheck, SaveCreate, HeatCommit, FinalCommit, At, AtPlanCommit, Steps
  <2>2. ~Idle(r)
    BY <1>4, IdleSays DEF SaveCheck, SaveCreate, HeatCommit, FinalCommit, At, AtPlanCommit
  <2> QED
    BY <1>2, <1>3, <2>1, <2>2
<1>5. CASE SaveUpdate(r) \/ SaveFails(r) \/ HeatRollback(r) \/ FinalRollback(r) \/ Audit(r)
  BY <1>2, <1>5 DEF SaveUpdate, SaveFails, HeatRollback, FinalRollback, Audit
<1>6. CASE HeatRead(r) /\ ~Finish(r)
  <2> DEFINE m == {e \in DOMAIN req[r].data : ~Exists(e)}
  <2>1. req'[r] = [req[r] EXCEPT !.step = "commit", !.missing = m]
    BY <1>1, <1>6 DEF HeatRead, ResultsTyped
  <2>2. /\ req'[r].op = req[r].op /\ req'[r].step = "commit" /\ req'[r].data = req[r].data
        /\ req'[r].sent = req[r].sent /\ req'[r].missing = m /\ req'[r].plan = req[r].plan
    BY <1>1, <2>1 DEF ReqTyped, NoRequest
  <2>3. m \subseteq Entries
    BY <1>1 DEF ReqTyped, DataTyped
  <2>4. req[r].step = "read" /\ ~Idle(r)
    BY <1>6, IdleSays DEF HeatRead, At
  <2> HIDE DEF m
  <2>5. ReqGood(req'[r])
    BY <1>1, <2>2, <2>3, <2>4 DEF ReqGood, Idle, Steps
  <2> QED
    BY <2>2, <2>4, <2>5
<1>7. CASE FinalRead(r)
  <2> DEFINE p == IF req[r].op = "finalize" THEN FinalPlan ELSE ClearPlan
  <2>1. req'[r] = [req[r] EXCEPT !.step = "commit", !.plan = p]
    BY <1>1, <1>7 DEF FinalRead, ResultsTyped
  <2>2. PlanRowsGood(p)
    BY PlansGood
  <2> HIDE DEF p
  <2>3. /\ req'[r].op = req[r].op /\ req'[r].step = "commit" /\ req'[r].data = req[r].data
        /\ req'[r].sent = req[r].sent /\ req'[r].missing = req[r].missing /\ req'[r].plan = p
    BY <1>1, <2>1 DEF ReqTyped, NoRequest
  <2>4. req[r].step = "read" /\ ~Idle(r)
    BY <1>7, IdleSays DEF FinalRead
  <2>5. ReqGood(req'[r])
    BY <1>1, <2>2, <2>3, <2>4 DEF ReqGood, Idle, Steps
  <2> QED
    BY <2>3, <2>4, <2>5
<1> QED
  BY <1>2, <1>4, <1>5, <1>6, <1>7 DEF Step

(* No step gives a request more to write.                                  *)
LEMMA PendingShrinks ==
    ASSUME TypesInv, NEW r \in Requests, Step(r), NEW e \in Entries
    PROVE  Pending(e)' \subseteq Pending(e) /\ Pending(e)' \in SUBSET Requests
<1>1. \A q \in Requests : q # r => req'[q] = req[q]
  BY OwnSlot DEF TypesInv, ResultsInv
<1> QED
  BY <1>1, OwnStepGood DEF Pending

(* A row is written once more by a request that then has written it.       *)
LEMMA RowStep ==
    ASSUME TypesInv, NEW r \in Requests, Step(r), NEW e \in Entries
    PROVE  /\ RowGood(result'[e])
           /\ \/ result'[e].version <= result[e].version
              \/ /\ result'[e].version <= result[e].version + 1
                 /\ r \in Pending(e) /\ r \notin Pending(e)'
<1> DEFINE Goal == /\ RowGood(result'[e])
                   /\ \/ result'[e].version <= result[e].version
                      \/ /\ result'[e].version <= result[e].version + 1
                         /\ r \in Pending(e) /\ r \notin Pending(e)'
<1>1. ResultsTyped /\ ReqGood(req[r]) /\ ReqTyped(req[r]) /\ RowGood(result[e])
      /\ result[e].version \in Nat
  BY DEF TypesInv, ResultsInv, ResultsTyped, RowGood
<1>b. result[e].version \in Nat /\ result[e].version <= result[e].version
  BY <1>1
<1>2. ASSUME result'[e] = result[e] PROVE Goal
  BY <1>1, <1>2
<1>3. ASSUME NEW report \in Reports, e \in DOMAIN req[r].data, req[r].step # "audit",
             \/ result'[e] = Updated(result[e], report)
             \/ result'[e] = Created(report),
             Finish(r) \/ (Goto(r, "audit") /\ ~Idle(r))
      PROVE  Goal
  <2>1. RowGood(result'[e]) /\ result'[e].version <= result[e].version + 1
    BY <1>1, <1>3, RowsGood
  <2>2. r \in Pending(e)
    BY <1>3 DEF Pending
  <2>3. r \notin Pending(e)'
    <3>1. "audit" \in Steps
      BY DEF Steps
    <3>2. DOMAIN req'[r].data = {} \/ req'[r].step = "audit"
      BY <1>3, <3>1, GoesOnGood
    <3> QED
      BY <3>2 DEF Pending
  <2> QED
    BY <2>1, <2>2, <2>3
<1>4. CASE \/ SaveCheck(r) \/ SaveFails(r) \/ HeatRead(r) \/ HeatRollback(r) \/ FinalRead(r)
           \/ FinalRollback(r) \/ Audit(r)
  <2>1. result' = result
    BY <1>4 DEF SaveCheck, SaveFails, HeatRead, HeatRollback, FinalRead, FinalRollback, Audit, db
  <2> QED
    BY <1>2, <2>1
<1>5. CASE SaveUpdate(r) \/ SaveCreate(r)
  <2>1. At(r, "save", "update") \/ At(r, "save", "create")
    BY <1>5 DEF SaveUpdate, SaveCreate
  <2>2. Target(r) \in DOMAIN req[r].data /\ req[r].data[Target(r)] \in Reports
    BY <1>1, <2>1 DEF Target, At, ReqTyped, DataTyped
  <2>3. CASE e = Target(r)
    <3>1. \/ result'[e] = Updated(result[e], req[r].data[e])
          \/ result'[e] = Created(req[r].data[e])
      BY <1>1, <1>5, <2>3 DEF SaveUpdate, SaveCreate, ResultsTyped
    <3>2. Finish(r) \/ (Goto(r, "audit") /\ ~Idle(r))
      BY <1>5, <2>1, IdleSays DEF SaveUpdate, SaveCreate, At
    <3> QED
      BY <1>3, <2>1, <2>2, <2>3, <3>1, <3>2 DEF At
  <2>4. CASE e # Target(r)
    <3>1. result'[e] = result[e]
      BY <1>1, <1>5, <2>4 DEF SaveUpdate, SaveCreate, ResultsTyped
    <3> QED
      BY <1>2, <3>1
  <2> QED
    BY <2>3, <2>4
<1>6. CASE HeatCommit(r)
  <2>1. At(r, "heat", "commit") /\ Goto(r, "audit") /\ ~Idle(r)
    BY <1>6, IdleSays DEF HeatCommit, At
  <2>2. CASE e \in DOMAIN req[r].data
    <3>1. \/ result'[e] = Updated(result[e], req[r].data[e])
          \/ result'[e] = Created(req[r].data[e])
      BY <1>6, <2>2 DEF HeatCommit
    <3>2. req[r].data[e] \in Reports
      BY <1>1, <2>2 DEF ReqTyped, DataTyped
    <3> QED
      BY <1>3, <2>1, <2>2, <3>1, <3>2 DEF At
  <2>3. CASE e \notin DOMAIN req[r].data
    <3>1. result'[e] = result[e]
      BY <1>6, <2>3 DEF HeatCommit
    <3> QED
      BY <1>2, <3>1
  <2> QED
    BY <2>2, <2>3
<1>7. CASE FinalCommit(r)
  <2> DEFINE plan == req[r].plan
  <2>1. CASE e \in DOMAIN plan
    <3>1. plan[e] \in PlanRow
      <4>1. ~Idle(r)
        BY <1>7, IdleSays DEF FinalCommit, AtPlanCommit
      <4> QED
        BY <1>1, <2>1, <4>1 DEF ReqGood, Idle, PlanRowsGood
    <3>2. /\ plan[e].place \in 0 .. Cardinality(Entries)
          /\ plan[e].shown \in {"", "place", "PK", "DQ"} /\ plan[e].scored \in Times \cup {NoTime}
      BY <3>1 DEF PlanRow
    <3>3. PICK p \in 0 .. Cardinality(Entries), sh \in {"", "place", "PK", "DQ"},
               t \in Times \cup {NoTime} : result'[e] = Marked(result[e], p, sh, t)
      BY <1>7, <2>1, <3>2 DEF FinalCommit, Marked
    <3>4. /\ RowGood(Marked(result[e], p, sh, t))
          /\ Marked(result[e], p, sh, t).version = result[e].version
      <4>1. RowGood(result[e])
        BY <1>1
      <4> QED
        BY <4>1, RowMarked, ZenonT(60)
    <3>5. RowGood(result'[e])
      BY <3>3, <3>4
    <3>6. result'[e].version = result[e].version
      BY <3>3, <3>4, ZenonT(60)
    <3>7. result'[e].version <= result[e].version
      BY <1>b, <3>6, ZenonT(60)
    <3> QED
      BY <3>5, <3>7
  <2>2. CASE e \notin DOMAIN plan
    <3>1. result'[e] = result[e]
      BY <1>7, <2>2 DEF FinalCommit
    <3> QED
      BY <1>2, <3>1
  <2> QED
    BY <2>1, <2>2
<1> QED
  BY <1>4, <1>5, <1>6, <1>7 DEF Step

(* A request takes what may be edited still.                               *)
LEMMA BeginGood ==
    ASSUME TypesInv, NEW r \in Requests, Begin(r)
    PROVE  /\ ReqGood(req'[r]) /\ Idle(r)
           /\ \A e \in DOMAIN req'[r].data : result[e].version < MaxVersion
           /\ UNCHANGED <<db, page>> /\ clash' \subseteq clash
<1>1. ResultsTyped /\ entries \subseteq Entries /\ page \in [Requests -> [Entries -> Nat \ {0}]]
  BY DEF TypesInv, ResultsInv, ResultsTyped
<1>2. /\ DOMAIN NoRequest.data = {} /\ NoRequest.data \in Functions(Entries, Reports)
      /\ NoRequest.sent = NoVersion /\ NoRequest.missing = {} /\ NoRequest.plan = <<>>
      /\ NoVersion \in Nat
  BY DEF NoRequest, Functions, NoVersion
<1>3. PlanRowsGood(<<>>)
  BY DEF PlanRowsGood
<1>4. ASSUME NEW q, req' = [req EXCEPT ![r] = q],
             q.op \in {"save", "heat", "finalize", "unfinalize"}, q.step \in Steps,
             q.data \in Functions(Entries, Reports), q.sent \in Nat,
             q.missing = {}, q.plan = <<>>
      PROVE  ReqGood(req'[r]) /\ req'[r].data = q.data
  <2>1. req'[r] = q
    BY <1>1, <1>4 DEF ResultsTyped
  <2> QED
    BY <1>3, <1>4, <2>1 DEF ReqGood
<1>5. CASE \E e \in entries, report \in Reports :
             \E sent \in {page[r][e], NoVersion} : SaveBegin(r, e, report, sent)
  <2>1. PICK e \in entries, report \in Reports :
               \E sent \in {page[r][e], NoVersion} : SaveBegin(r, e, report, sent)
    BY <1>5
  <2>2. PICK sent \in {page[r][e], NoVersion} : SaveBegin(r, e, report, sent)
    BY <2>1
  <2> DEFINE data == [x \in {e} |-> report]
  <2>3. data \in Functions(Entries, Reports) /\ DOMAIN data = {e}
    <3>1. data \in [{e} -> Reports] /\ {e} \in SUBSET Entries
      BY <1>1
    <3> QED
      BY <3>1 DEF Functions
  <2>4. sent \in Nat
    BY <1>1, <1>2
  <2> DEFINE q == [NoRequest EXCEPT !.op = "save", !.step = "check", !.data = data, !.sent = sent]
  <2>5. /\ req' = [req EXCEPT ![r] = q] /\ q.op = "save" /\ q.step \in Steps /\ q.data = data
        /\ q.sent = sent /\ q.missing = {} /\ q.plan = <<>>
    BY <2>2 DEF SaveBegin, NoRequest, Steps
  <2>6. /\ Idle(r) /\ result[e].version < MaxVersion /\ UNCHANGED <<db, page>>
        /\ clash' \subseteq clash
    BY <2>2 DEF SaveBegin, Editable, Begins
  <2> HIDE DEF data, q
  <2>7. ReqGood(req'[r]) /\ req'[r].data = data
    BY <1>4, <2>3, <2>4, <2>5
  <2> QED
    BY <2>3, <2>6, <2>7
<1>6. CASE \E data \in [entries -> Reports] : HeatBegin(r, data)
  <2>1. PICK data \in [entries -> Reports] : HeatBegin(r, data)
    BY <1>6
  <2>2. data \in Functions(Entries, Reports)
    BY <1>1 DEF Functions
  <2> DEFINE q == [NoRequest EXCEPT !.op = "heat", !.step = "read", !.data = data]
  <2>3. /\ req' = [req EXCEPT ![r] = q] /\ q.op = "heat" /\ q.step \in Steps /\ q.data = data
        /\ q.sent = NoVersion /\ q.missing = {} /\ q.plan = <<>>
    BY <2>1 DEF HeatBegin, NoRequest, Steps
  <2> HIDE DEF q
  <2>5. ReqGood(req'[r]) /\ req'[r].data = data
    BY <1>2, <1>4, <2>2, <2>3
  <2>6. /\ Idle(r) /\ (\A e \in DOMAIN data : result[e].version < MaxVersion)
        /\ UNCHANGED <<db, page>> /\ clash' \subseteq clash
    BY <2>1 DEF HeatBegin, Editable, Begins
  <2> QED
    BY <2>5, <2>6
<1>7. CASE \E op \in {"finalize", "unfinalize"} : FinalBegin(r, op)
  <2>1. PICK op \in {"finalize", "unfinalize"} : FinalBegin(r, op)
    BY <1>7
  <2> DEFINE q == [NoRequest EXCEPT !.op = op, !.step = "read"]
  <2>2. /\ req' = [req EXCEPT ![r] = q] /\ q.op = op /\ q.step \in Steps
        /\ q.data = NoRequest.data /\ q.sent = NoVersion /\ q.missing = {} /\ q.plan = <<>>
    BY <2>1 DEF FinalBegin, NoRequest, Steps
  <2> HIDE DEF q
  <2>4. ReqGood(req'[r]) /\ req'[r].data = NoRequest.data
    BY <1>2, <1>4, <2>2
  <2>5. Idle(r) /\ UNCHANGED <<db, page>> /\ clash' \subseteq clash
    BY <2>1 DEF FinalBegin, Begins
  <2> QED
    BY <1>2, <2>4, <2>5
<1> QED
  BY <1>5, <1>6, <1>7 DEF Begin

LEMMA TypesStep ==
    ASSUME TypesInv, Next
    PROVE  TypesInv'
<1>1. /\ ResultsInv' /\ ResultsTyped /\ out \subseteq entries /\ comp \in {"active", "completed"}
      /\ clash \subseteq Requests /\ page \in [Requests -> [Entries -> Nat \ {0}]]
      /\ \A r \in Requests : ReqGood(req[r])
  BY ResultsStep DEF TypesInv, ResultsInv
<1>2. ASSUME NEW e \in Entries
      PROVE  /\ RowGood(result[e]) /\ VersionBound(result[e].version, Pending(e))
             /\ Pending(e) \in SUBSET Requests /\ result[e].version \in Nat
  BY DEF TypesInv, RowGood, Pending
<1>3. ASSUME out' \subseteq entries', comp' \in {"active", "completed"}, clash' \subseteq Requests,
             page' \in [Requests -> [Entries -> Nat \ {0}]],
             \A r \in Requests : ReqGood(req'[r]),
             \A e \in Entries :
               /\ RowGood(result'[e]) /\ Pending(e)' \in SUBSET Requests
               /\ BoundStep(result[e].version, Pending(e), result'[e].version, Pending(e)')
      PROVE  TypesInv'
  <2>1. ASSUME NEW e \in Entries PROVE VersionBound(result'[e].version, Pending(e)')
    <3>1. result'[e].version \in Nat
      BY <1>3 DEF RowGood
    <3> QED
      BY <1>2, <1>3, <3>1, BoundKeeps
  <2>2. \A e \in Entries : VersionBound(result[e].version, Pending(e))'
    BY <2>1
  <2> QED
    BY <1>1, <1>3, <2>2 DEF TypesInv, RowGood, ReqGood
<1>4. ASSUME UNCHANGED req
      PROVE  \A e \in Entries : Pending(e)' = Pending(e)
  BY <1>4 DEF Pending
<1>5. \A e \in Entries : result[e].version <= result[e].version
  BY <1>2
<1>6. ASSUME NEW r \in Requests, LoadPage(r) PROVE TypesInv'
  <2>1. \A e \in Entries : (IF Exists(e) THEN result[e].version ELSE 1) \in Nat \ {0}
    <3>1. \A e \in Entries : result[e].status # "none" => result[e].version \in Nat \ {0}
      BY <1>2 DEF RowGood
    <3> QED
      BY <3>1 DEF Exists
  <2>2. page' \in [Requests -> [Entries -> Nat \ {0}]]
    BY <1>1, <1>6, <2>1 DEF LoadPage
  <2>3. UNCHANGED <<entries, out, result, tier, comp, req, clash>>
    BY <1>6 DEF LoadPage, db
  <2>4. \A e \in Entries :
          /\ RowGood(result'[e]) /\ Pending(e)' \in SUBSET Requests
          /\ BoundStep(result[e].version, Pending(e), result'[e].version, Pending(e)')
    BY <1>2, <1>4, <1>5, <2>3 DEF BoundStep
  <2> QED
    BY <1>1, <1>3, <2>2, <2>3, <2>4
<1>7. ASSUME NEW r \in Requests, Begin(r) PROVE TypesInv'
  <2>1. /\ ReqGood(req'[r]) /\ Idle(r)
        /\ \A e \in DOMAIN req'[r].data : result[e].version < MaxVersion
        /\ UNCHANGED <<entries, out, result, tier, comp, page>> /\ clash' \subseteq clash
    BY <1>7, BeginGood DEF db
  <2>2. \A q \in Requests : q # r => req'[q] = req[q]
    BY <1>1, <1>7, OwnSlot
  <2>3. ASSUME NEW e \in Entries
        PROVE  /\ RowGood(result'[e]) /\ Pending(e)' \in SUBSET Requests
               /\ BoundStep(result[e].version, Pending(e), result'[e].version, Pending(e)')
    <3>1. Pending(e)' \in SUBSET Requests
      BY DEF Pending
    <3>2. CASE e \in DOMAIN req'[r].data
      BY <1>2, <2>1, <3>1, <3>2 DEF BoundStep
    <3>3. CASE e \notin DOMAIN req'[r].data
      <4>1. Pending(e)' \subseteq Pending(e)
        BY <2>2, <3>3 DEF Pending
      <4> QED
        BY <1>2, <1>5, <2>1, <3>1, <4>1 DEF BoundStep
    <3> QED
      BY <3>2, <3>3
  <2>4. \A q \in Requests : ReqGood(req'[q])
    BY <1>1, <2>1, <2>2
  <2> QED
    BY <1>1, <1>3, <2>1, <2>3, <2>4
<1>8. ASSUME NEW r \in Requests, Step(r) PROVE TypesInv'
  <2>1. UNCHANGED <<entries, out, comp, page>> /\ clash' \subseteq clash \cup Requests
    BY <1>8 DEF Step, SaveCheck, SaveUpdate, SaveCreate, SaveFails, HeatRead, HeatCommit,
       HeatRollback, FinalRead, FinalCommit, FinalRollback, Audit, Commits, db
  <2>2. \A q \in Requests : ReqGood(req'[q])
    <3>1. \A q \in Requests : q # r => req'[q] = req[q]
      BY <1>1, <1>8, OwnSlot
    <3> QED
      BY <1>1, <1>8, <3>1, OwnStepGood
  <2>3. ASSUME NEW e \in Entries
        PROVE  /\ RowGood(result'[e]) /\ Pending(e)' \in SUBSET Requests
               /\ BoundStep(result[e].version, Pending(e), result'[e].version, Pending(e)')
    <3>1. Pending(e)' \subseteq Pending(e) /\ Pending(e)' \in SUBSET Requests
      BY <1>8, PendingShrinks
    <3>2. /\ RowGood(result'[e])
          /\ \/ result'[e].version <= result[e].version
             \/ /\ result'[e].version <= result[e].version + 1
                /\ r \in Pending(e) /\ r \notin Pending(e)'
      BY <1>8, RowStep
    <3>3. r \notin Pending(e)' => Pending(e)' \subseteq Pending(e) \ {r}
      BY <3>1
    <3> QED
      BY <3>1, <3>2, <3>3 DEF BoundStep
  <2> QED
    BY <1>1, <1>3, <2>1, <2>2, <2>3
<1>9. ASSUME NEW c \in {"active", "completed"}, SetStatus(c) PROVE TypesInv'
  <2>1. comp' = c /\ UNCHANGED <<entries, out, result, tier, req, page, clash>>
    BY <1>9 DEF SetStatus
  <2>2. \A e \in Entries :
          /\ RowGood(result'[e]) /\ Pending(e)' \in SUBSET Requests
          /\ BoundStep(result[e].version, Pending(e), result'[e].version, Pending(e)')
    BY <1>2, <1>4, <1>5, <2>1 DEF BoundStep
  <2> QED
    BY <1>1, <1>3, <2>1, <2>2
<1>10. ASSUME NEW f \in Entries, EditEntry(f) PROVE TypesInv'
  <2>1. out' \subseteq entries' /\ UNCHANGED <<entries, result, tier, comp, req, page, clash>>
    BY <1>1, <1>10 DEF EditEntry
  <2>2. \A e \in Entries :
          /\ RowGood(result'[e]) /\ Pending(e)' \in SUBSET Requests
          /\ BoundStep(result[e].version, Pending(e), result'[e].version, Pending(e)')
    BY <1>2, <1>4, <1>5, <2>1 DEF BoundStep
  <2> QED
    BY <1>1, <1>3, <2>1, <2>2
<1>11. ASSUME NEW f \in Entries, DeleteEntry(f) PROVE TypesInv'
  <2>1. out' \subseteq entries' /\ UNCHANGED <<tier, comp, req, page, clash>>
    BY <1>1, <1>11 DEF DeleteEntry
  <2>2. ASSUME NEW e \in Entries
        PROVE  /\ RowGood(result'[e]) /\ Pending(e)' \in SUBSET Requests
               /\ BoundStep(result[e].version, Pending(e), result'[e].version, Pending(e)')
    <3>1. RowGood(NoResult) /\ NoResult.version = 0
      BY NoRowGood
    <3>2. result'[e] = NoResult \/ result'[e] = result[e]
      BY <1>1, <1>11 DEF DeleteEntry, ResultsTyped
    <3>3. 0 <= result[e].version
      BY <1>2
    <3>4. RowGood(result'[e]) /\ result'[e].version <= result[e].version
      BY <1>2, <1>5, <3>1, <3>2, <3>3
    <3> QED
      BY <1>2, <1>4, <2>1, <3>4 DEF BoundStep
  <2> QED
    BY <1>1, <1>3, <2>1, <2>2
<1> QED
  BY <1>6, <1>7, <1>8, <1>9, <1>10, <1>11 DEF Next

LEMMA InitTypes == Init => TypesInv
<1> SUFFICES ASSUME Init PROVE TypesInv
  OBVIOUS
<1>1. ResultsInv
  BY InitResults
<1>2. /\ out \subseteq entries /\ comp \in {"active", "completed"} /\ clash \subseteq Requests
      /\ page \in [Requests -> [Entries -> Nat \ {0}]]
  BY DEF Init
<1>3. \A r \in Requests : ReqGood(req[r])
  BY DEF Init, ReqGood
<1>4. ASSUME NEW e \in Entries
      PROVE  RowGood(result[e]) /\ VersionBound(result[e].version, Pending(e))
  <2>1. result[e] = NoResult
    BY DEF Init
  <2>2. Pending(e) = {}
    <3>1. DOMAIN NoRequest.data = {}
      BY DEF NoRequest
    <3> QED
      BY <3>1 DEF Init, Pending
  <2>3. /\ Cardinality({}) = 0 /\ Cardinality(Requests) \in Nat /\ MaxVersion \in Nat \ {0}
    BY ResultsAssumption, FS_EmptySet, FS_CardinalityType
  <2>4. VersionBound(0, {})
    BY <2>3 DEF VersionBound
  <2> QED
    BY <2>1, <2>2, <2>4, NoRowGood
<1> QED
  BY <1>1, <1>2, <1>3, <1>4 DEF TypesInv

LEMMA TypesSay == TypesInv => TypeOK
<1> SUFFICES ASSUME TypesInv PROVE TypeOK
  OBVIOUS
<1>1. ResultsTyped
  BY DEF TypesInv, ResultsInv
<1>2. ASSUME NEW e \in Entries PROVE result[e] \in ResultRow
  <2>1. RowGood(result[e]) /\ VersionBound(result[e].version, Pending(e))
        /\ Pending(e) \in SUBSET Requests
    BY DEF TypesInv, Pending
  <2>2. result[e].version \in 0 .. MaxVersion + Cardinality(Requests)
    <3>1. /\ result[e].version \in Nat /\ Cardinality(Pending(e)) \in Nat
          /\ Cardinality(Requests) \in Nat /\ MaxVersion \in Nat
      BY <2>1, ResultsAssumption, FS_Subset, FS_CardinalityType DEF RowGood
    <3>2. result[e].version + Cardinality(Pending(e)) <= MaxVersion - 1 + Cardinality(Requests)
      BY <2>1 DEF VersionBound
    <3> HIDE DEF Pending
    <3> QED
      BY <3>1, <3>2
  <2>3. /\ DOMAIN result[e] = {"status", "time", "version", "place", "shown", "scored"}
        /\ result[e] = [c \in DOMAIN result[e] |-> result[e][c]]
    BY <2>1 DEF RowGood, RowTyped, NoResult
  <2>4. /\ result[e].status \in ResultStatus \cup {"none"} /\ result[e].time \in Times \cup {NoTime}
        /\ result[e].place \in 0 .. Cardinality(Entries)
        /\ result[e].shown \in {"", "place", "PK", "DQ"} /\ result[e].scored \in Times \cup {NoTime}
    BY <2>1 DEF RowGood, RowTyped
  <2> QED
    BY <2>2, <2>3, <2>4 DEF ResultRow
<1>3. result \in [Entries -> ResultRow]
  BY <1>1, <1>2 DEF ResultsTyped
<1>4. ASSUME NEW r \in Requests
      PROVE  \/ Idle(r)
             \/ /\ req[r].op \in {"save", "heat", "finalize", "unfinalize"}
                /\ req[r].step \in Steps
                /\ req[r].data \in Functions(Entries, Reports)
                /\ req[r].sent \in Nat
                /\ req[r].missing \subseteq Entries
                /\ \A e \in DOMAIN req[r].plan : req[r].plan[e] \in PlanRow
  BY DEF TypesInv, ReqGood, Idle, PlanRowsGood
<1> QED
  BY <1>1, <1>3, <1>4 DEF TypesInv, ResultsTyped, TypeOK

(* The state has its types: a version grows by the requests that were      *)
(* admitted below the bound and by no other, a plan has a place in the     *)
(* field for each result it ranks, and a page shows versions from 1 on.    *)
THEOREM ResultsTypesCorrect == Spec => []TypeOK
<1>1. TypesInv /\ [Next]_vars => TypesInv'
  <2> SUFFICES ASSUME TypesInv, [Next]_vars PROVE TypesInv'
    OBVIOUS
  <2>1. CASE UNCHANGED vars
    <3>1. ResultsInv'
      BY ResultsStep DEF TypesInv
    <3> QED
      BY <2>1, <3>1 DEF TypesInv, vars, db, Pending
  <2> QED
    BY <2>1, TypesStep
<1> QED
  BY InitTypes, TypesSay, <1>1, PTL DEF Spec

=============================================================================
