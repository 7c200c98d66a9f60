--------------------------- MODULE DocumentsProofs ---------------------------
(***************************************************************************)
(* Proofs about what makes the documents of a competition, for any number  *)
(* of exports, processes, open requests, users and presets.                *)
(*                                                                         *)
(* Exports as their users see them: nobody gets an outdated document, is   *)
(* told of a failure that is not one, or of a document that does not come, *)
(* but by a crash, a Redis failure or the TTL.                             *)
(*                                                                         *)
(* The protocol configuration: who changes the sharing of a preset, and    *)
(* what the save of an untouched form stores.  Neither is about one state. *)
(* A change of a preset that nobody has overtaken still finds the sharing  *)
(* it was checked against, and ids are not given out twice, so a new       *)
(* preset is not an old one's; a form that was filled holds what filled    *)
(* it, and so does its save.                                               *)
(*                                                                         *)
(* The settings tab: what is typed into the form stays a form, of which    *)
(* the tab and the server think alike but for the cases that               *)
(* TabAgreesWithServer names.                                              *)
(*                                                                         *)
(* Then the three side by side, as MCDocuments has them.                   *)
(***************************************************************************)
EXTENDS MCDocuments, DocxQueueProofs, ListLemmas

-----------------------------------------------------------------------------
(* Every step of an export is a step of the pipeline, or none.             *)

LEMMA ExportStepIsStep ==
    ASSUME data \in Keys, [ExportNext]_exportVars
    PROVE  [Next]_vars
  <1>1. ASSUME NEW c \in Clients, ClientStep(c) \/ RequestFails(c) PROVE UNCHANGED vars
    BY <1>1 DEF ClientStep, SubmitTimesOut, Poll, DownloadRecord, DownloadDocument, RequestFails
  <1>2. ASSUME NEW c \in Clients, NEW h \in Handlers, NEW step, Click(c, h, step) PROVE Next
    BY <1>2 DEF Click, Next
  <1>3. ASSUME NEW h \in Handlers,
               HandlerStep(h) \/ AnswerExisting(h) \/ AnswerNew(h) \/ HandlerFails(h)
        PROVE  Next
    BY <1>3 DEF HandlerStep, AnswerExisting, AnswerNew, HandlerFails, Next, SubmitStep
  <1>7. ASSUME NEW s \in Services, WorkerGoesOn(s) \/ ServiceRestarts(s) PROVE Next
    BY <1>7 DEF WorkerGoesOn, ServiceRestarts, Next, FaultStep
  <1>4. ASSUME NEW x \in RedisKeys, Expire(x) PROVE Next
    BY <1>4 DEF Next
  <1>5. ASSUME NEW k \in Keys, Edit(k) PROVE UNCHANGED vars
    BY <1>5 DEF Edit
  <1>6. CASE UNCHANGED exportVars
    BY <1>6 DEF exportVars
  <1> QED
    BY <1>1, <1>2, <1>3, <1>4, <1>5, <1>6, <1>7 DEF ExportNext

-----------------------------------------------------------------------------
(* Which payload the jobs under a key, and those of an open request, were  *)
(* created for.                                                            *)

KeysGood  == \A k \in Keys : idem[k] # NoJob => MadeFrom(idem[k], k)
CallsGood == \A h \in Handlers :
               api[h].pc \in {"load", "register", "enqueue"} => MadeFrom(api[h].job, api[h].key)

LEMMA MadeJobs == ASSUME IndInv, NEW j, NEW k, MadeFrom(j, k) PROVE j \in Jobs
  BY DEF IndInv, TypeOK, MadeFrom

(* Whom a key names after a step, it named before, or its handler created. *)
LEMMA KeyNames ==
    ASSUME IndInv, Next, NEW k \in Keys, idem'[k] # NoJob
    PROVE  \/ idem'[k] = idem[k]
           \/ \E h \in Handlers : /\ api[h].pc = "register" /\ api[h].key = k
                                  /\ idem'[k] = api[h].job
  <1> USE DEF IndInv
  <1>1. ASSUME NEW h \in Handlers, SubmitRegister(h)
        PROVE  idem'[k] = idem[k] \/ (api[h].key = k /\ idem'[k] = api[h].job)
    BY <1>1 DEF SubmitRegister, TypeOK
  <1>2. ASSUME NEW h \in Handlers, SubmitStep(h) \/ SubmitFails(h), ~SubmitRegister(h)
        PROVE  idem' = idem
    BY <1>2 DEF SubmitStep, SubmitReplyExisting, SubmitStaleKey, SubmitCreate, SubmitEnqueue,
       SubmitFails, redisVars
  <1>3. ASSUME NEW h \in Handlers, NEW i \in Keys, SubmitResolve(h, i) PROVE idem' = idem
    BY <1>3 DEF SubmitResolve, redisVars
  <1>4. ASSUME NEW s \in Services, WorkerStep(s) \/ FaultStep(s) PROVE idem' = idem
    BY <1>4 DEF WorkerStep, WorkerPull, WorkerDrop, WorkerLoad, WorkerStart, WorkerGenerated,
       WorkerSaveResult, WorkerGenerateRaises, WorkerRetry, WorkerRequeue, WorkerGiveUp,
       WorkerBury, FaultStep, Restart, WorkerDies, CompletingSaveFails, redisVars
  <1>5. ASSUME NEW x \in RedisKeys, Expire(x) PROVE idem'[k] = idem[k]
    BY <1>5 DEF Expire
  <1> QED
    BY <1>1, <1>2, <1>3, <1>4, <1>5 DEF Next, SubmitRegister

(* The open requests after a step: as before, or looking at what the key   *)
(* names, or with a job just created.                                      *)
LEMMA CallGoesOn ==
    ASSUME IndInv, Next, NEW h \in Handlers, api'[h].pc \in {"load", "register", "enqueue"}
    PROVE  \/ /\ api[h].pc \in {"load", "register", "enqueue"}
              /\ api'[h].job = api[h].job /\ api'[h].key = api[h].key
           \/ /\ api'[h].key \in Keys /\ idem[api'[h].key] # NoJob
              /\ api'[h].job = idem[api'[h].key]
           \/ \E n \in Jobs \ used :
                /\ used' = used \cup {n} /\ UNCHANGED worker
                /\ meta'[n].payload = api'[h].key /\ api'[h].job = n
  <1> USE DEF IndInv
  <1>0. api[h] \in ApiCall /\ DOMAIN api = Handlers
    BY DEF TypeOK
  <1>1. ASSUME api'[h] = api[h]
        PROVE  /\ api[h].pc \in {"load", "register", "enqueue"}
               /\ api'[h].job = api[h].job /\ api'[h].key = api[h].key
    BY <1>1
  <1>2. ASSUME NEW g \in Handlers, g # h,
               SubmitStep(g) \/ SubmitFails(g) \/ \E k \in Keys : SubmitResolve(g, k)
        PROVE  api'[h] = api[h]
    BY <1>2 DEF SubmitStep, SubmitResolve, SubmitReplyExisting, SubmitStaleKey, SubmitCreate,
       SubmitRegister, SubmitEnqueue, SubmitFails, TypeOK
  <1>3. ASSUME NEW t \in Services, WorkerStep(t) \/ WorkerDies(t) \/ CompletingSaveFails(t)
        PROVE  api'[h] = api[h]
    BY <1>3 DEF WorkerStep, WorkerPull, WorkerDrop, WorkerLoad, WorkerStart, WorkerGenerated,
       WorkerSaveResult, WorkerGenerateRaises, WorkerRetry, WorkerRequeue, WorkerGiveUp,
       WorkerBury, WorkerDies, CompletingSaveFails
  <1>4. CASE \/ SubmitReplyExisting(h) \/ SubmitEnqueue(h) \/ SubmitStaleKey(h)
             \/ SubmitFails(h)
    BY <1>0, <1>4 DEF SubmitReplyExisting, SubmitEnqueue, SubmitStaleKey, SubmitFails, NoCall,
       Call
  <1>5. CASE SubmitRegister(h)
    BY <1>0, <1>5 DEF SubmitRegister, ApiCall
  <1>6. CASE SubmitCreate(h)
    <2>1. PICK n \in Jobs \ used :
            /\ used' = used \cup {n}
            /\ meta' = [meta EXCEPT ![n] = Meta("queued", 0, api[h].key)]
            /\ api' = [api EXCEPT ![h] = Call("register", api[h].key, n)]
            /\ UNCHANGED worker
      BY <1>6 DEF SubmitCreate, SaveJob
    <2>2. meta'[n].payload = api[h].key /\ api'[h] = Call("register", api[h].key, n)
      BY <1>0, <2>1 DEF TypeOK, Meta
    <2> QED
      BY <2>1, <2>2 DEF Call
  <1>7. ASSUME NEW k \in Keys, SubmitResolve(h, k)
        PROVE  api'[h].key = k /\ idem[k] # NoJob /\ api'[h].job = idem[k]
    BY <1>0, <1>7 DEF SubmitResolve, Call
  <1>8. ASSUME NEW x \in RedisKeys, Expire(x) PROVE api'[h] = api[h]
    BY <1>8 DEF Expire
  <1>9. ASSUME NEW t \in Services, Restart(t) PROVE api'[h] = api[h]
    BY <1>9 DEF Restart, NoCall, Call
  <1> QED
    BY <1>1, <1>2, <1>3, <1>4, <1>5, <1>6, <1>7, <1>8, <1>9 DEF Next, SubmitStep, FaultStep

LEMMA StepKeepsPayloads ==
    ASSUME IndInv, KeysGood, CallsGood, [Next]_vars
    PROVE  KeysGood' /\ CallsGood'
  <1>1. CASE UNCHANGED vars
    BY <1>1 DEF vars, redisVars, ghostVars, KeysGood, CallsGood, MadeFrom, WorkerHolds
  <1>2. CASE Next
    <2>1. ASSUME NEW k \in Keys, idem'[k] # NoJob
          PROVE  \E j : idem'[k] = j /\ MadeFrom(j, k)'
      <3>1. PICK j : j = idem'[k] /\ MadeFrom(j, k)
        BY <1>2, <2>1, KeyNames DEF KeysGood, CallsGood
      <3> QED
        BY <1>2, <3>1, MadeJobs, MadeFromStays
    <2>2. KeysGood'
      BY <2>1 DEF KeysGood, MadeFrom, WorkerHolds
    <2>3. ASSUME NEW h \in Handlers, api'[h].pc \in {"load", "register", "enqueue"}
          PROVE  \E j, k : api'[h].job = j /\ api'[h].key = k /\ MadeFrom(j, k)'
      <3>1. ASSUME NEW j, NEW k, MadeFrom(j, k), api'[h].job = j, api'[h].key = k
            PROVE  \E i, l : api'[h].job = i /\ api'[h].key = l /\ MadeFrom(i, l)'
        BY <1>2, <3>1, MadeJobs, MadeFromStays
      <3>2. ASSUME NEW n \in Jobs \ used, used' = used \cup {n}, UNCHANGED worker,
                   meta'[n].payload = api'[h].key, api'[h].job = n
            PROVE  \E i, l : api'[h].job = i /\ api'[h].key = l /\ MadeFrom(i, l)'
        <4>1. PICK l : l = api'[h].key
          OBVIOUS
        <4>2. \A t \in Services : ~WorkerHolds(t, n)'
          BY <3>2 DEF IndInv, Responsible, WorkerHolds
        <4> QED
          BY <3>2, <4>1, <4>2 DEF MadeFrom
      <3> QED
        BY <1>2, <2>3, <3>1, <3>2, CallGoesOn DEF KeysGood, CallsGood
    <2>4. CallsGood'
      BY <2>3 DEF CallsGood, MadeFrom, WorkerHolds
    <2> QED
      BY <2>2, <2>4
  <1> QED
    BY <1>1, <1>2

-----------------------------------------------------------------------------
(* What an export knows of its job.                                        *)

JobGood(x) ==
    /\ x.pc \in {"poll", "download", "fetch"} => MadeFrom(x.job, x.asked)
    /\ x.pc \in {"download", "fetch"} =>
         "redis" \in Faults \/ Settled(x.job, "completed", "saveResult")
    /\ x.told = "failed" => Settled(x.job, "failed", "bury")

(* An export that waits for a handler is the one it is serving.            *)
WaitGood(x) ==
    x.pc \in Submits =>
      /\ x.via \in Handlers
      /\ api[x.via].pc # "idle" /\ api[x.via].key = x.asked

(* The local state of an export.                                           *)
ExportGood(x) ==
    /\ JobGood(x) /\ WaitGood(x)
    /\ x.pc \in Submits \cup {"poll"} => x.polls # MaxPolls
    /\ x.pc # "idle" => x.told = "nothing"

LEMMA EndedGood ==
    ASSUME NEW told \in Outcomes \ {"failed"}
    PROVE  /\ Ended(told) \in Export /\ ExportGood(Ended(told))
           /\ Ended(told).pc \notin Submits
  BY ExportAssumption DEF Ended, Export, ClientSteps, Submits, ExportGood, JobGood, WaitGood

(* What an export makes of the status of its job.                          *)
LEMMA HeardGood ==
    ASSUME IndInv, ExceptRaised, NEW x \in Export, x.pc \notin Submits, NEW status,
           MadeFrom(x.job, x.asked), x.told = "nothing",
           status \in {"completed", "failed"} => meta[x.job].status = status
    PROVE  /\ Heard(x, status) \in Export /\ ExportGood(Heard(x, status))
           /\ Heard(x, status).pc \notin Submits
  <1>1. x.job \in Jobs
    BY MadeJobs
  <1>2. CASE status = "completed"
    <2> DEFINE y == [x EXCEPT !.pc = "download"]
    <2>1. y \in Export /\ y.pc = "download" /\ y.job = x.job /\ y.asked = x.asked /\ y.told = x.told
      BY DEF Export, ClientSteps
    <2>2. "redis" \in Faults \/ Settled(x.job, "completed", "saveResult")
      BY <1>1, <1>2, CompletedSettled
    <2>3. Heard(x, status) = y
      BY <1>2 DEF Heard
    <2> QED
      BY <2>1, <2>2, <2>3 DEF ExportGood, JobGood, WaitGood, Submits
  <1>3. CASE status = "failed"
    <2> DEFINE y == Failed(x)
    <2>1. y \in Export /\ y.pc = "idle" /\ y.job = x.job /\ y.told = "failed"
      BY <1>1, ExportAssumption DEF Failed, Ended, Export, ClientSteps, Outcomes
    <2>2. Settled(x.job, "failed", "bury")
      BY <1>1, <1>3, FailedSettled
    <2>3. Heard(x, status) = y
      BY <1>3 DEF Heard
    <2> QED
      BY <2>1, <2>2, <2>3 DEF ExportGood, JobGood, WaitGood, Submits
  <1>4. CASE status \notin {"completed", "failed"}
    <2>1. Heard(x, status) = Patient(x)
      BY <1>4 DEF Heard
    <2>2. CASE x.polls = MaxPolls
      BY <2>1, <2>2, EndedGood DEF Patient, Outcomes
    <2>3. CASE x.polls # MaxPolls
      <3> DEFINE y == [x EXCEPT !.pc = "poll"]
      <3>1. y \in Export /\ y.pc = "poll" /\ y.job = x.job /\ y.asked = x.asked /\ y.told = x.told
            /\ y.polls = x.polls
        BY DEF Export, ClientSteps
      <3>2. Heard(x, status) = y
        BY <2>1, <2>3 DEF Patient
      <3> QED
        BY <2>3, <3>1, <3>2 DEF ExportGood, JobGood, WaitGood, Submits
    <2> QED
      BY <2>2, <2>3
  <1> QED
    BY <1>2, <1>3, <1>4

(* What an export knows stays true while the pipeline goes on.             *)
LEMMA JobGoodStays ==
    ASSUME IndInv, [Next]_vars, NEW x, JobGood(x)
    PROVE  JobGood(x)'
  <1>1. CASE UNCHANGED vars
    BY <1>1 DEF vars, redisVars, ghostVars, JobGood, MadeFrom, Settled, WorkerHolds, ApiHolds, Queued
  <1>2. CASE Next
    <2>1. ASSUME NEW st, NEW pc, Settled(x.job, st, pc),
                 pc = "bury" \/ (pc = "saveResult" /\ "redis" \notin Faults)
          PROVE  Settled(x.job, st, pc)'
      <3>1. x.job \in Jobs
        BY <2>1 DEF Settled, IndInv, TypeOK
      <3> QED
        BY <1>2, <2>1, <3>1, SettledStays
    <2>2. MadeFrom(x.job, x.asked) => MadeFrom(x.job, x.asked)'
      BY <1>2, MadeJobs, MadeFromStays
    <2> QED
      BY <2>1, <2>2 DEF JobGood
  <1> QED
    BY <1>1, <1>2

-----------------------------------------------------------------------------
PipelineGood ==
    /\ IndInv /\ ExceptRaised /\ DocumentsOutlive /\ CompletedDownloadable
    /\ KeysGood /\ CallsGood
ClientsGood == \A c \in Clients, x \in Export : client[c] = x => ExportGood(x)
ExportInv == PipelineGood /\ ClientTypeOK /\ ClientsGood

LEMMA PipelineStep == PipelineGood /\ [Next]_vars => PipelineGood'
  BY StepKeeps, StepKeepsRaised, StepKeepsDocuments, StepKeepsPayloads DEF PipelineGood

(* An export whose client does nothing, and whose open request goes on.    *)
LEMMA Undisturbed ==
    ASSUME ExportInv, [Next]_vars, NEW x \in Export, ExportGood(x),
           x.pc \in Submits =>
             api'[x.via].pc # "idle" /\ api'[x.via].key = api[x.via].key
    PROVE  ExportGood(x)'
  BY JobGoodStays DEF ExportInv, PipelineGood, ExportGood, WaitGood

(* The next state of the clients is good if each is.                       *)
LEMMA AllGood ==
    ASSUME \A c \in Clients : \E x \in Export : client'[c] = x /\ ExportGood(x)',
           client' = [c \in Clients |-> client'[c]], data' \in Keys
    PROVE  ClientTypeOK' /\ ClientsGood'
  <1>1. ClientTypeOK'
    BY DEF ClientTypeOK
  <1>2. ASSUME NEW c \in Clients, NEW x \in Export, client'[c] = x PROVE ExportGood(x)'
    <2>1. PICK y \in Export : client'[c] = y /\ ExportGood(y)'
      OBVIOUS
    <2>2. x = y
      BY <1>2, <2>1
    <2> QED
      BY <2>1, <2>2
  <1> QED
    BY <1>1, <1>2 DEF ClientsGood

(* A browser or a synchronous endpoint goes on: the pipeline stands still. *)
LEMMA ClientStepKeeps ==
    ASSUME ExportInv, NEW c \in Clients, ClientStep(c) \/ RequestFails(c)
    PROVE  ClientTypeOK' /\ ClientsGood'
  <1> USE DEF ExportInv, PipelineGood
  <1> DEFINE x == client[c]
  <1>1. UNCHANGED <<vars, data>>
    BY DEF ClientStep, SubmitTimesOut, Poll, DownloadRecord, DownloadDocument, RequestFails
  <1>2. ASSUME NEW y, ExportGood(y) PROVE ExportGood(y)'
    BY <1>1, <1>2 DEF vars, redisVars, ghostVars, ExportGood, JobGood, WaitGood, MadeFrom, Settled,
       WorkerHolds, ApiHolds, Queued
  <1>3. x \in Export /\ ExportGood(x)
    BY DEF ClientTypeOK, ClientsGood
  <1>4. \E y \in Export : ExportGood(y) /\ client' = [client EXCEPT ![c] = y]
    <2>1. ASSUME NEW told \in Outcomes \ {"failed"}, End(c, told)
          PROVE  \E y \in Export : ExportGood(y) /\ client' = [client EXCEPT ![c] = y]
      BY <2>1, EndedGood DEF End, Becomes
    <2>2. CASE Poll(c)
      <3>1. CASE meta[x.job].status = "absent"
        BY <2>1, <2>2, <3>1 DEF Poll, Outcomes
      <3>2. CASE meta[x.job].status # "absent"
        <4> DEFINE y == [x EXCEPT !.polls = @ + 1]
        <4>1. y \in Export /\ y.pc = "poll" /\ y.job = x.job /\ y.asked = x.asked /\ y.told = "nothing"
          <5>1. x.polls \in 0 .. MaxPolls /\ x.polls # MaxPolls /\ x.pc = "poll" /\ x.told = "nothing"
            BY <1>3, <2>2 DEF Poll, ExportGood, Export
          <5>2. x.polls + 1 \in 0 .. MaxPolls
            BY <5>1, ExportAssumption
          <5> QED
            BY <1>3, <5>1, <5>2 DEF Export
        <4>2. MadeFrom(x.job, x.asked)
          BY <1>3, <2>2 DEF Poll, ExportGood, JobGood
        <4>3. client' = [client EXCEPT ![c] = Heard(y, meta[x.job].status)]
          BY <2>2, <3>2 DEF Poll, Becomes
        <4> HIDE DEF y
        <4>4. /\ Heard(y, meta[x.job].status) \in Export
              /\ ExportGood(Heard(y, meta[x.job].status))
          BY <4>1, <4>2, HeardGood DEF Submits
        <4> QED
          BY <4>3, <4>4
      <3> QED
        BY <3>1, <3>2
    <2>3. CASE DownloadRecord(c) /\ ~End(c, "error")
      <3> DEFINE y == [x EXCEPT !.pc = "fetch"]
      <3>1. /\ y \in Export /\ y.pc = "fetch" /\ y.job = x.job
            /\ y.asked = x.asked /\ y.told = x.told
        BY <1>3 DEF Export, ClientSteps
      <3>2. client' = [client EXCEPT ![c] = y] /\ x.pc = "download"
        BY <2>3 DEF DownloadRecord, Becomes
      <3>3. ExportGood(y)
        BY <1>3, <3>1, <3>2 DEF ExportGood, JobGood, WaitGood, Submits
      <3> HIDE DEF y
      <3> QED
        BY <3>1, <3>2, <3>3
    <2>4. {"error", "saved"} \subseteq Outcomes \ {"failed"}
      BY DEF Outcomes
    <2> QED
      BY <2>1, <2>2, <2>3, <2>4 DEF ClientStep, SubmitTimesOut, DownloadRecord, DownloadDocument,
         RequestFails
  <1>5. PICK y \in Export : ExportGood(y) /\ client' = [client EXCEPT ![c] = y]
    BY <1>4
  <1>6. ASSUME NEW d \in Clients PROVE \E z \in Export : client'[d] = z /\ ExportGood(z)'
    <2>1. PICK z : z = client'[d]
      OBVIOUS
    <2>2. z \in Export /\ ExportGood(z)
      BY <1>5, <2>1 DEF ClientTypeOK, ClientsGood
    <2> QED
      BY <1>2, <2>1, <2>2
  <1>7. client' = [d \in Clients |-> client'[d]] /\ data' \in Keys
    BY <1>1, <1>5 DEF ClientTypeOK
  <1> QED
    BY <1>6, <1>7, AllGood


(* A step in which every client stands still or was waiting for one of the *)
(* handlers ended, and no other open request is touched.                   *)
LEMMA HandlersEnd ==
    ASSUME ExportInv, [Next]_vars, NEW ended \in SUBSET Handlers,
           client' = [c \in Clients |-> client'[c]], data' \in Keys,
           \A h \in Handlers \ ended : api'[h] = api[h],
           \A c \in Clients :
             IF \E h \in ended : WaitsFor(c, h)
             THEN \E y \in Export : client'[c] = y /\ ExportGood(y) /\ y.pc \notin Submits
             ELSE client'[c] = client[c]
    PROVE  ClientTypeOK' /\ ClientsGood'
  <1>1. ASSUME NEW c \in Clients PROVE \E y \in Export : client'[c] = y /\ ExportGood(y)'
    <2>1. CASE \E h \in ended : WaitsFor(c, h)
      BY <2>1, Undisturbed
    <2>2. CASE ~ \E h \in ended : WaitsFor(c, h)
      <3>1. PICK x \in Export : client[c] = x /\ client'[c] = x /\ ExportGood(x)
        BY <2>2 DEF ExportInv, ClientTypeOK, ClientsGood
      <3>2. x.pc \in Submits => x.via \in Handlers \ ended
        BY <2>2, <3>1 DEF WaitsFor, ExportGood, WaitGood
      <3>3. x.pc \in Submits => api'[x.via].pc # "idle" /\ api'[x.via].key = api[x.via].key
        BY <3>1, <3>2 DEF ExportGood, WaitGood
      <3> QED
        BY <3>1, <3>3, Undisturbed
    <2> QED
      BY <2>1, <2>2
  <1> QED
    BY <1>1, AllGood

LEMMA ClickKeeps ==
    ASSUME ExportInv, NEW c \in Clients, NEW h \in Handlers, NEW step \in Submits, Click(c, h, step)
    PROVE  ClientTypeOK' /\ ClientsGood'
  <1> USE DEF ExportInv, PipelineGood
  <1>0. PICK a : a = Asking(step, h)
    OBVIOUS
  <1>1. /\ SubmitResolve(h, data) /\ data \in Keys /\ UNCHANGED data
        /\ client' = [client EXCEPT ![c] = a]
    BY <1>0 DEF Click, Becomes, ClientTypeOK
  <1>2. [Next]_vars
    BY <1>1 DEF Next
  <1>3. /\ a \in Export /\ a.pc = step /\ a.via = h /\ a.asked = data /\ a.told = "nothing"
    <2>1. a = [pc |-> step, via |-> h, job |-> NoJob, polls |-> 0, asked |-> data,
               told |-> "nothing"]
      BY <1>0 DEF Asking, Ended
    <2>2. 0 \in 0 .. MaxPolls /\ step \in ClientSteps /\ "nothing" \in Outcomes
      BY ExportAssumption DEF ClientSteps, Outcomes
    <2> QED
      BY <1>1, <2>1, <2>2 DEF Export
  <1>4. /\ api[h].pc = "idle" /\ api'[h].pc # "idle" /\ api'[h].key = data
        /\ \A g \in Handlers : g # h => api'[g] = api[g]
    BY <1>1 DEF SubmitResolve, Call, IndInv, TypeOK
  <1>5. ExportGood(a)'
    <2>1. a.pc \notin {"poll", "download", "fetch", "idle"}
      BY <1>3 DEF Submits
    <2>2. a.polls # MaxPolls
      BY <1>0, ExportAssumption DEF Asking, Ended
    <2> QED
      BY <1>3, <1>4, <2>1, <2>2 DEF ExportGood, JobGood, WaitGood
  <1>6. ASSUME NEW d \in Clients PROVE \E y \in Export : client'[d] = y /\ ExportGood(y)'
    <2>1. CASE d = c
      <3>1. client'[c] = a
        BY <1>1 DEF ClientTypeOK
      <3> QED
        BY <2>1, <1>3, <1>5, <3>1
    <2>2. CASE d # c
      <3>1. PICK x \in Export : client[d] = x /\ client'[d] = x /\ ExportGood(x)
        BY <1>1, <2>2 DEF ClientTypeOK, ClientsGood
      <3>2. x.pc \in Submits => x.via \in Handlers /\ x.via # h
        BY <1>4, <3>1 DEF ExportGood, WaitGood
      <3>3. x.pc \in Submits => api'[x.via].pc # "idle" /\ api'[x.via].key = api[x.via].key
        BY <1>4, <3>1, <3>2 DEF ExportGood, WaitGood
      <3> QED
        BY <1>2, <3>1, <3>3, Undisturbed
    <2> QED
      BY <2>1, <2>2
  <1>7. client' = [d \in Clients |-> client'[d]]
    BY <1>1 DEF ClientTypeOK
  <1> QED
    BY <1>1, <1>6, <1>7, AllGood

(* The clients stand still, and no open request ends.                      *)
LEMMA RequestsGoOn ==
    ASSUME ExportInv, [Next]_vars, UNCHANGED <<data, client>>,
           \A h \in Handlers :
             api[h].pc # "idle" => api'[h].pc # "idle" /\ api'[h].key = api[h].key
    PROVE  ClientTypeOK' /\ ClientsGood'
  <1>1. ASSUME NEW c \in Clients PROVE \E y \in Export : client'[c] = y /\ ExportGood(y)'
    <2>1. PICK x \in Export : client[c] = x /\ client'[c] = x /\ ExportGood(x)
      BY DEF ExportInv, ClientTypeOK, ClientsGood
    <2>2. x.pc \in Submits => api'[x.via].pc # "idle" /\ api'[x.via].key = api[x.via].key
      BY <2>1 DEF ExportGood, WaitGood
    <2> QED
      BY <2>1, <2>2, Undisturbed
  <1>2. client' = [d \in Clients |-> client'[d]] /\ data' \in Keys
    BY DEF ExportInv, ClientTypeOK
  <1> QED
    BY <1>1, <1>2, AllGood

(* A handler goes on with its request.                                     *)
LEMMA HandlerStepKeeps ==
    ASSUME ExportInv, NEW h \in Handlers, HandlerStep(h)
    PROVE  ClientTypeOK' /\ ClientsGood'
  <1> USE DEF ExportInv, PipelineGood
  <1>1. UNCHANGED <<data, client>> /\ [Next]_vars
    BY DEF HandlerStep, Next, SubmitStep
  <1>2. ASSUME NEW g \in Handlers, api[g].pc # "idle"
        PROVE  api'[g].pc # "idle" /\ api'[g].key = api[g].key
    <2>1. api \in [Handlers -> ApiCall]
      BY DEF IndInv, TypeOK
    <2>2. CASE SubmitStaleKey(h)
      BY <1>2, <2>1, <2>2 DEF SubmitStaleKey, Call
    <2>3. CASE SubmitCreate(h)
      <3>1. PICK n : api' = [api EXCEPT ![h] = Call("register", api[h].key, n)]
        BY <2>3 DEF SubmitCreate
      <3> QED
        BY <1>2, <2>1, <3>1 DEF Call
    <2>4. CASE SubmitRegister(h)
      BY <1>2, <2>1, <2>4 DEF SubmitRegister, ApiCall
    <2> QED
      BY <2>2, <2>3, <2>4 DEF HandlerStep
  <1> QED
    BY <1>1, <1>2, RequestsGoOn

(* A worker goes on, or dies: the requests stand still.                    *)
LEMMA WorkerGoesOnKeeps ==
    ASSUME ExportInv, NEW s \in Services, WorkerGoesOn(s)
    PROVE  ClientTypeOK' /\ ClientsGood'
  <1>1. UNCHANGED <<data, client>> /\ [Next]_vars
    BY DEF WorkerGoesOn, Next, FaultStep
  <1>2. api' = api
    BY DEF WorkerGoesOn, WorkerStep, WorkerPull, WorkerDrop, WorkerLoad, WorkerStart,
       WorkerGenerated, WorkerSaveResult, WorkerGenerateRaises, WorkerRetry, WorkerRequeue,
       WorkerGiveUp, WorkerBury, WorkerDies, CompletingSaveFails
  <1> QED
    BY <1>1, <1>2, RequestsGoOn

(* The service answers with a job made for the key of the request.         *)
LEMMA AnswerKeeps ==
    ASSUME ExportInv, NEW h \in Handlers, AnswerExisting(h) \/ AnswerNew(h)
    PROVE  ClientTypeOK' /\ ClientsGood'
  <1> USE DEF ExportInv, PipelineGood
  <1> DEFINE j == api[h].job
  <1>1. /\ [Next]_vars /\ UNCHANGED data
        /\ api' = [api EXCEPT ![h] = NoCall]
        /\ api[h].pc \in {"load", "register", "enqueue"}
    BY DEF AnswerExisting, AnswerNew, SubmitReplyExisting, SubmitEnqueue, Next, SubmitStep
  <1>2. PICK status : /\ Answer(h, j, status)
                      /\ status \in {"completed", "failed"} => meta[j].status = status
    BY DEF AnswerExisting, AnswerNew
  <1>3. MadeFrom(j, api[h].key) /\ j \in Jobs
    BY <1>1, MadeJobs DEF CallsGood
  <1>4. \A g \in Handlers \ {h} : api'[g] = api[g]
    BY <1>1 DEF IndInv, TypeOK
  <1>5. ASSUME NEW c \in Clients, WaitsFor(c, h)
        PROVE  \E y \in Export : client'[c] = y /\ ExportGood(y) /\ y.pc \notin Submits
    <2> DEFINE x == [client[c] EXCEPT !.pc = "poll", !.via = NoHandler, !.job = j]
    <2>1. client[c] \in Export /\ ExportGood(client[c]) /\ client[c].pc \in Submits /\ client[c].via = h
      BY <1>5 DEF ClientTypeOK, ClientsGood, WaitsFor
    <2>2. client[c].asked = api[h].key /\ client[c].told = "nothing"
      BY <2>1 DEF ExportGood, WaitGood, Submits
    <2>3. x \in Export /\ x.pc = "poll" /\ x.job = j /\ x.asked = api[h].key /\ x.told = "nothing"
      BY <1>3, <2>1, <2>2 DEF Export, ClientSteps
    <2> HIDE DEF j
    <2>4. /\ Heard(x, status) \in Export /\ ExportGood(Heard(x, status))
          /\ Heard(x, status).pc \notin Submits
      BY <1>2, <1>3, <2>3, HeardGood DEF Submits
    <2>5. client'[c] = Heard(x, status) \/ client'[c] = x
      BY <1>2, <1>5 DEF Answer, x
    <2>6. ExportGood(x)
      <3>1. x.polls # MaxPolls
        BY <2>1 DEF x, Export, ExportGood
      <3> QED
        BY <1>3, <2>3, <3>1 DEF ExportGood, JobGood, WaitGood, Submits
    <2> QED
      <3>1. x.pc \notin Submits
        BY <2>3 DEF Submits
      <3> QED
        BY <2>3, <2>4, <2>5, <2>6, <3>1
  <1>6. \A c \in Clients : ~WaitsFor(c, h) => client'[c] = client[c]
    BY <1>2 DEF Answer
  <1>7. client' = [c \in Clients |-> client'[c]] /\ data' \in Keys
    BY <1>1, <1>2 DEF Answer, ClientTypeOK
  <1> QED
    BY <1>1, <1>4, <1>5, <1>6, <1>7, HandlersEnd

(* Requests are lost, with or without their process: their clients are     *)
(* told of an error.                                                       *)
LEMMA LossKeeps ==
    ASSUME ExportInv, [Next]_vars, UNCHANGED data, NEW lost \in SUBSET Handlers,
           Unanswered(lost), \A h \in Handlers \ lost : api'[h] = api[h]
    PROVE  ClientTypeOK' /\ ClientsGood'
  <1>1. /\ Ended("error") \in Export /\ ExportGood(Ended("error"))
        /\ Ended("error").pc \notin Submits
    BY EndedGood DEF Outcomes
  <1>2. \A c \in Clients :
          client'[c] = IF \E h \in lost : WaitsFor(c, h) THEN Ended("error") ELSE client[c]
    BY DEF Unanswered
  <1>3. client' = [c \in Clients |-> client'[c]] /\ data' \in Keys
    BY DEF Unanswered, ExportInv, ClientTypeOK
  <1> QED
    BY <1>1, <1>2, <1>3, HandlersEnd

LEMMA HandlerFailsKeeps ==
    ASSUME ExportInv, NEW h \in Handlers, HandlerFails(h)
    PROVE  ClientTypeOK' /\ ClientsGood'
  <1>1. [Next]_vars /\ UNCHANGED data /\ Unanswered({h})
    BY DEF HandlerFails, Next
  <1>2. \A g \in Handlers \ {h} : api'[g] = api[g]
    BY DEF HandlerFails, SubmitFails, ExportInv, PipelineGood, IndInv, TypeOK
  <1> QED
    BY <1>1, <1>2, LossKeeps

LEMMA RestartsKeep ==
    ASSUME ExportInv, NEW s \in Services, ServiceRestarts(s)
    PROVE  ClientTypeOK' /\ ClientsGood'
  <1>1. [Next]_vars /\ UNCHANGED data /\ Unanswered(HandlersOf(s))
    BY DEF ServiceRestarts, Next, FaultStep
  <1>2. HandlersOf(s) \subseteq Handlers /\ \A h \in Handlers \ HandlersOf(s) : api'[h] = api[h]
    BY DEF ServiceRestarts, Restart, HandlersOf
  <1> QED
    BY <1>1, <1>2, LossKeeps

(* A key expires, somebody edits the competition, or nothing happens.      *)
LEMMA RestKeeps ==
    ASSUME ExportInv, [Next]_vars, UNCHANGED <<api, client>>, data' \in Keys
    PROVE  ClientTypeOK' /\ ClientsGood'
  <1>1. ASSUME NEW c \in Clients PROVE \E y \in Export : client'[c] = y /\ ExportGood(y)'
    <2>1. PICK x \in Export : client[c] = x /\ client'[c] = x /\ ExportGood(x)
      BY DEF ExportInv, ClientTypeOK, ClientsGood
    <2> QED
      BY <2>1, Undisturbed DEF ExportGood, WaitGood
  <1>2. client' = [c \in Clients |-> client'[c]]
    BY DEF ExportInv, ClientTypeOK
  <1> QED
    BY <1>1, <1>2, AllGood

LEMMA ExportStep == ExportInv /\ [ExportNext]_exportVars => ExportInv'
  <1> SUFFICES ASSUME ExportInv, [ExportNext]_exportVars PROVE ExportInv'
    OBVIOUS
  <1>1. data \in Keys /\ [Next]_vars
    BY ExportStepIsStep DEF ExportInv, ClientTypeOK
  <1>2. PipelineGood'
    BY <1>1, PipelineStep DEF ExportInv
  <1>3. ASSUME NEW x \in RedisKeys, Expire(x), UNCHANGED <<data, client>>
        PROVE  ClientTypeOK' /\ ClientsGood'
    BY <1>1, <1>3, RestKeeps DEF Expire
  <1>4. ASSUME NEW k \in Keys, Edit(k) PROVE ClientTypeOK' /\ ClientsGood'
    BY <1>1, <1>4, RestKeeps DEF Edit, vars
  <1>5. ASSUME UNCHANGED exportVars PROVE ClientTypeOK' /\ ClientsGood'
    BY <1>1, <1>5, RestKeeps DEF exportVars, vars, ExportInv, ClientTypeOK
  <1>6. ClientTypeOK' /\ ClientsGood'
    BY <1>3, <1>4, <1>5, ClientStepKeeps, ClickKeeps, HandlerStepKeeps, AnswerKeeps,
       HandlerFailsKeeps, WorkerGoesOnKeeps, RestartsKeep DEF ExportNext
  <1> QED
    BY <1>2, <1>6 DEF ExportInv

LEMMA InitExport == ExportInit => ExportInv
  <1> SUFFICES ASSUME ExportInit PROVE ExportInv
    OBVIOUS
  <1>1. IndInv
    BY InitEstablishes DEF ExportInit
  <1>2. ExceptRaised /\ DocumentsOutlive /\ CompletedDownloadable /\ KeysGood /\ CallsGood
    BY DEF ExportInit, Init, ExceptRaised, Pulling, Task, DocumentsOutlive, CompletedDownloadable,
       NoMeta, KeysGood, CallsGood, NoCall, Call
  <1>3. Ended("nothing") \in Export /\ ExportGood(Ended("nothing"))
    BY EndedGood DEF Outcomes
  <1>4. ClientTypeOK /\ ClientsGood
    BY <1>3 DEF ExportInit, ClientTypeOK, ClientsGood
  <1> QED
    BY <1>1, <1>2, <1>4 DEF ExportInv, PipelineGood

(* What an export knows of its job stays true of it, through every fault   *)
(* of the pipeline (docx-download.ts, main.py:316-509).                    *)
THEOREM ExportInvariance == ExportSpec => []ExportInv
  BY InitExport, ExportStep, PTL DEF ExportSpec

(* Nobody is handed a job that was made from anything but what the backend *)
(* read for the export.                                                    *)
THEOREM JobsAreWhatWasAsked == ExportSpec => []JobIsWhatWasAsked
  <1>1. ExportInv => JobIsWhatWasAsked
    BY DEF ExportInv, ClientTypeOK, ClientsGood, ExportGood, JobGood, MadeFrom, JobIsWhatWasAsked
  <1> QED
    BY <1>1, ExportInvariance, PTL

(* A failure a user was told of stays one.                                 *)
THEOREM FailuresAreFinal == ExportSpec => []FailureIsFinal
  <1>1. ExportInv => FailureIsFinal
    BY DEF ExportInv, ClientTypeOK, ClientsGood, ExportGood, JobGood, Settled, FailureIsFinal
  <1> QED
    BY <1>1, ExportInvariance, PTL

(* Who was told that the document is there gets it, but for a crash, a     *)
(* Redis failure, the TTL, or the worker still storing it.                 *)
THEOREM DoneAreDownloadable == ExportSpec => []DoneIsDownloadable
  <1>1. ASSUME ExportInv, NEW c \in Clients, Refused(c)
        PROVE  LET j == client[c].job IN
               \/ meta[j].status = "absent"
               \/ j \in orphans
               \/ \E s \in Services : /\ WorkerHolds(s, j)
                                      /\ worker[s].pc \in {"saveResult", "except"}
               \/ "redis" \in Faults /\ meta[j].status # "completed"
    <2> DEFINE j == client[c].job
    <2>1. /\ MadeFrom(j, client[c].asked)
          /\ "redis" \in Faults \/ Settled(j, "completed", "saveResult")
      BY <1>1 DEF Refused, ExportInv, ClientTypeOK, ClientsGood, ExportGood, JobGood
    <2>2. j \in Jobs
      BY <1>1, <2>1, MadeJobs DEF ExportInv, PipelineGood
    <2>3. "redis" \notin Faults => meta[j].status \in {"completed", "absent"}
      BY <2>1 DEF Settled
    <2>4. CASE meta[j].status = "completed"
      <3>1. j \notin result
        BY <1>1, <2>4 DEF Refused
      <3>2. \/ j \in orphans
            \/ \E s \in Services : worker[s].job = j /\ worker[s].pc \in {"saveResult", "except"}
        BY <1>1, <2>2, <2>4, <3>1 DEF ExportInv, PipelineGood, CompletedDownloadable
      <3> QED
        BY <3>2 DEF WorkerHolds, Holding
    <2> QED
      BY <2>3, <2>4
  <1>2. ExportInv => DoneIsDownloadable
    BY <1>1 DEF DoneIsDownloadable
  <1> QED
    BY <1>2, ExportInvariance, PTL

-----------------------------------------------------------------------------
(* The protocol configuration.                                             *)

(* A change by a secretary that nobody has overtaken, in flight as k.      *)
PlainChange(k) ==
    /\ k \in DOMAIN call /\ call[k].op = "change"
    /\ call[k].by \notin Chiefs /\ ~call[k].overtaken

ChangesGood ==
    \A k \in ConfigCalls : PlainChange(k) =>
      /\ call[k].preset \in taken
      /\ call[k].preset \in DOMAIN preset =>
           call[k].shared \subseteq {preset[call[k].preset].shared}

SavesGood ==
    \A k \in DOMAIN call : call[k].op = "set" /\ call[k].base # NoConfig =>
      call[k].config = call[k].base

Fits(f) ==
    /\ f.base # NoConfig => f.values = f.base
    /\ f.state = "opening" => f.base = NoConfig

FormGood == Fits(form)

(* The inductive invariant.                                                *)
ConfigInv == ConfigTypeOK /\ ChangesGood /\ SavesGood /\ FormGood

-----------------------------------------------------------------------------
(* Which of the three a request is, and its fields.                        *)
SetRow    == [op : {"set"}, config : Config, base : Config \cup {NoConfig}]
ChangeRow == [op : {"change"}, by : Clerks, preset : Presets, config : OneAtMost(Config),
              shared : OneAtMost(BOOLEAN), overtaken : BOOLEAN]
DeleteRow == [op : {"delete"}, preset : Presets]

LEMMA RowByOp ==
    ASSUME NEW w \in Write
    PROVE  /\ w.op = "set" => w \in SetRow
           /\ w.op = "change" => w \in ChangeRow
           /\ w.op = "delete" => w \in DeleteRow
<1>1. w \in SetRow \/ w \in ChangeRow \/ w \in DeleteRow
  BY DEF Write, SetRow, ChangeRow, DeleteRow
<1>2. /\ w \in SetRow => w.op = "set"
      /\ w \in ChangeRow => w.op = "change"
      /\ w \in DeleteRow => w.op = "delete"
  BY DEF SetRow, ChangeRow, DeleteRow
<1> QED
  BY <1>1, <1>2

LEMMA RowIsWrite == SetRow \subseteq Write /\ ChangeRow \subseteq Write /\ DeleteRow \subseteq Write
BY DEF Write, SetRow, ChangeRow, DeleteRow

(* What is given for a field is of its kind, or the field stays.           *)
LEMMA GivenType ==
    ASSUME NEW S, NEW asked \in OneAtMost(S), NEW now \in S
    PROVE  /\ Given(asked, now) \in S
           /\ asked \subseteq {now} => Given(asked, now) = now
<1>1. CASE asked = {}
  BY <1>1 DEF Given
<1>2. CASE asked # {}
  <2>1. PICK x \in S : asked = {x}
    BY <1>2 DEF OneAtMost
  <2>2. Given(asked, now) = x
    BY <2>1 DEF Given
  <2> QED
    BY <2>1, <2>2
<1> QED
  BY <1>1, <1>2

-----------------------------------------------------------------------------
(* A request passes its checks.                                            *)
LEMMA StartsSays ==
    ASSUME NEW k, NEW w, Starts(k, w)
    PROVE  /\ k \in ConfigCalls /\ k \notin DOMAIN call
           /\ DOMAIN call' = DOMAIN call \cup {k} /\ call'[k] = w
           /\ \A j \in DOMAIN call : call'[j] = call[j]
           /\ UNCHANGED <<config, preset, taken>>
BY DEF Starts, Put

LEMMA StartsGood ==
    ASSUME ConfigInv, NEW k, NEW w \in Write, Starts(k, w), UNCHANGED form,
           w.op = "set" /\ w.base # NoConfig => w.config = w.base,
           w.op = "change" /\ w.by \notin Chiefs =>
             /\ w.preset \in DOMAIN preset
             /\ w.shared \subseteq {preset[w.preset].shared}
    PROVE  ConfigInv'
<1> USE DEF ConfigInv
<1>1. /\ k \in ConfigCalls /\ k \notin DOMAIN call
      /\ DOMAIN call' = DOMAIN call \cup {k} /\ call'[k] = w
      /\ \A j \in DOMAIN call : call'[j] = call[j]
      /\ UNCHANGED <<config, preset, taken>>
  BY StartsSays
<1>2. ConfigTypeOK'
  BY <1>1 DEF ConfigTypeOK
<1>3. ChangesGood'
  BY <1>1 DEF ChangesGood, PlainChange, ConfigTypeOK
<1>4. SavesGood' /\ FormGood'
  BY <1>1 DEF SavesGood, FormGood
<1> QED
  BY <1>2, <1>3, <1>4

LEMMA ChecksGood ==
    ASSUME ConfigInv, NEW k \in ConfigCalls, Checks(k)
    PROVE  ConfigInv'
<1> USE DEF ConfigInv
<1>1. ASSUME NEW c \in Config, SetCheck(k, c) PROVE ConfigInv'
  <2> DEFINE w == [op |-> "set", config |-> c, base |-> NoConfig]
  <2>1. w \in Write
    BY RowIsWrite DEF SetRow
  <2>2. Starts(k, w) /\ UNCHANGED form /\ w.op = "set" /\ w.base = NoConfig
    BY <1>1 DEF SetCheck
  <2> HIDE DEF w
  <2> QED
    BY <2>1, <2>2, StartsGood
<1>2. ASSUME NEW u \in Clerks, NEW p \in Presets, ApplyCheck(k, u, p) PROVE ConfigInv'
  <2> DEFINE w == [op |-> "set", config |-> preset[p].config, base |-> NoConfig]
  <2>1. preset[p].config \in Config
    BY <1>2 DEF ApplyCheck, ConfigTypeOK, Preset
  <2>2. w \in Write
    BY <2>1, RowIsWrite DEF SetRow
  <2>3. Starts(k, w) /\ UNCHANGED form /\ w.op = "set" /\ w.base = NoConfig
    BY <1>2 DEF ApplyCheck
  <2> HIDE DEF w
  <2> QED
    BY <2>2, <2>3, StartsGood
<1>3. ASSUME NEW u \in Clerks, NEW p \in Presets, DeleteCheck(k, u, p) PROVE ConfigInv'
  <2> DEFINE w == [op |-> "delete", preset |-> p]
  <2>1. w \in Write
    BY RowIsWrite DEF DeleteRow
  <2>2. Starts(k, w) /\ UNCHANGED form /\ w.op = "delete"
    BY <1>3 DEF DeleteCheck
  <2> HIDE DEF w
  <2> QED
    BY <2>1, <2>2, StartsGood
<1>4. ASSUME NEW u \in Clerks, NEW p \in Presets, NEW c \in OneAtMost(Config),
             NEW shared \in OneAtMost(BOOLEAN), ChangeCheck(k, u, p, c, shared)
      PROVE  ConfigInv'
  <2> DEFINE w == Change(u, p, c, shared)
  <2>1. w \in Write
    BY RowIsWrite DEF ChangeRow, Change
  <2>2. /\ Starts(k, w) /\ UNCHANGED form /\ w.op = "change"
        /\ w.preset = p /\ w.by = u /\ w.shared = shared
        /\ p \in DOMAIN preset /\ (u \notin Chiefs => shared \subseteq {preset[p].shared})
    BY <1>4 DEF ChangeCheck, Owns, Change
  <2> HIDE DEF w
  <2> QED
    BY <2>1, <2>2, StartsGood
<1>5. ASSUME SaveForm(k) PROVE ConfigInv'
  <2> DEFINE w == [op |-> "set", config |-> form.values, base |-> form.base]
  <2>1. form.values \in Config /\ form.base \in Config \cup {NoConfig}
    BY DEF ConfigTypeOK, Form
  <2>2. w \in Write
    BY <2>1, RowIsWrite DEF SetRow
  <2>3. /\ Starts(k, w) /\ UNCHANGED form /\ w.op = "set"
        /\ w.base # NoConfig => w.config = w.base
    BY <1>5 DEF SaveForm, FormGood, Fits
  <2> HIDE DEF w
  <2> QED
    BY <2>2, <2>3, StartsGood
<1> QED
  BY <1>1, <1>2, <1>3, <1>4, <1>5 DEF Checks

-----------------------------------------------------------------------------
(* A request ends, without more or overtaking others.                      *)
LEMMA DoneSays ==
    ASSUME ConfigInv, NEW k \in DOMAIN call, Done(k)
    PROVE  /\ DOMAIN call' = DOMAIN call \ {k}
           /\ \A j \in DOMAIN call : j # k => call'[j] = call[j]
BY DEF Done, Minus

LEMMA OvertakingSays ==
    ASSUME ConfigInv, NEW k \in DOMAIN call, NEW p, DoneOvertaking(k, p)
    PROVE  /\ DOMAIN call' = DOMAIN call \ {k}
           /\ \A j \in DOMAIN call' : call'[j] \in Write
           /\ \A j \in DOMAIN call' : call'[j].op = call[j].op
           /\ \A j \in DOMAIN call' : call[j].op # "change" => call'[j] = call[j]
           /\ \A j \in ConfigCalls : PlainChange(j)' => PlainChange(j) /\ call'[j] = call[j] /\ call[j].preset # p
<1>1. DOMAIN call' = DOMAIN call \ {k}
  BY DEF DoneOvertaking
<1>2. \A j \in DOMAIN call' :
        IF call[j].op = "change" /\ call[j].preset = p
        THEN call'[j] = [call[j] EXCEPT !.overtaken = TRUE] ELSE call'[j] = call[j]
  BY DEF DoneOvertaking
<1>3. \A j \in DOMAIN call' : call[j] \in Write
  BY <1>1 DEF ConfigInv, ConfigTypeOK
<1>4. \A j \in DOMAIN call' : call[j].op = "change" =>
        LET w == [call[j] EXCEPT !.overtaken = TRUE]
        IN  w \in Write /\ w.op = "change" /\ w.overtaken
  <2> SUFFICES ASSUME NEW j \in DOMAIN call', call[j].op = "change"
               PROVE  LET w == [call[j] EXCEPT !.overtaken = TRUE]
                      IN  w \in Write /\ w.op = "change" /\ w.overtaken
    OBVIOUS
  <2>1. call[j] \in ChangeRow
    BY <1>3, RowByOp
  <2>2. /\ [call[j] EXCEPT !.overtaken = TRUE] \in ChangeRow
        /\ [call[j] EXCEPT !.overtaken = TRUE].op = "change"
        /\ [call[j] EXCEPT !.overtaken = TRUE].overtaken
    BY <2>1 DEF ChangeRow
  <2> QED
    BY <2>2, RowIsWrite
<1> QED
  BY <1>1, <1>2, <1>3, <1>4 DEF PlainChange

LEMMA FinishesGood ==
    ASSUME ConfigInv, NEW k \in DOMAIN call, Finishes(k)
    PROVE  ConfigInv'
<1> USE DEF ConfigInv
<1>0. call[k] \in Write
  BY DEF ConfigTypeOK
<1>1. ASSUME SetWrite(k) PROVE ConfigInv'
  <2>1. call[k].config \in Config
    BY <1>0, <1>1, RowByOp DEF SetWrite, SetRow
  <2>2. Done(k) /\ config' \in Config /\ UNCHANGED <<preset, taken, form>>
    BY <1>1, <2>1 DEF SetWrite
  <2>3. /\ DOMAIN call' = DOMAIN call \ {k}
        /\ \A j \in DOMAIN call' : call'[j] = call[j]
    BY <2>2, DoneSays
  <2>4. ConfigTypeOK'
    BY <2>2, <2>3 DEF ConfigTypeOK
  <2>5. ChangesGood'
    BY <2>2, <2>3 DEF ChangesGood, PlainChange
  <2>6. SavesGood' /\ FormGood'
    BY <2>2, <2>3 DEF SavesGood, FormGood, Fits
  <2> QED
    BY <2>4, <2>5, <2>6
<1>2. ASSUME ChangeWrite(k) PROVE ConfigInv'
  <2> DEFINE p == call[k].preset
             row == [preset[p] EXCEPT !.shared = Given(call[k].shared, @),
                                      !.config = Given(call[k].config, @)]
  <2>1. /\ p \in DOMAIN preset /\ DoneOvertaking(k, p) /\ call[k].op = "change"
        /\ UNCHANGED <<config, taken, form>>
    BY <1>2 DEF ChangeWrite
  <2>2. preset' = [preset EXCEPT ![p] = row]
    BY <1>2 DEF ChangeWrite
  <2>3. row \in Preset
    <3>1. call[k].shared \in OneAtMost(BOOLEAN) /\ call[k].config \in OneAtMost(Config)
      BY <1>0, <2>1, RowByOp DEF ChangeRow
    <3>2. preset[p] \in Preset
      BY <2>1 DEF ConfigTypeOK
    <3>3. Given(call[k].shared, preset[p].shared) \in BOOLEAN
          /\ Given(call[k].config, preset[p].config) \in Config
      BY <3>1, <3>2, GivenType DEF Preset
    <3> QED
      BY <3>2, <3>3 DEF Preset
  <2> HIDE DEF p, row
  <2>4. DOMAIN preset' = DOMAIN preset /\ \A q \in DOMAIN preset : q # p => preset'[q] = preset[q]
    BY <2>2
  <2>5. /\ DOMAIN call' = DOMAIN call \ {k}
        /\ \A j \in DOMAIN call' : call'[j] \in Write
        /\ \A j \in DOMAIN call' : call'[j].op = call[j].op
        /\ \A j \in DOMAIN call' : call[j].op # "change" => call'[j] = call[j]
        /\ \A j \in ConfigCalls : PlainChange(j)' => PlainChange(j) /\ call'[j] = call[j] /\ call[j].preset # p
    BY <2>1, OvertakingSays
  <2>6. ConfigTypeOK'
    BY <2>1, <2>2, <2>3, <2>4, <2>5 DEF ConfigTypeOK
  <2>7. ChangesGood'
    BY <2>1, <2>4, <2>5 DEF ChangesGood
  <2>8. SavesGood' /\ FormGood'
    BY <2>1, <2>5 DEF SavesGood, FormGood
  <2> QED
    BY <2>6, <2>7, <2>8
<1>3. ASSUME DeleteWrite(k) PROVE ConfigInv'
  <2>1. /\ Done(k) /\ UNCHANGED <<config, taken, form>>
        /\ DOMAIN preset' \subseteq DOMAIN preset
        /\ \A p \in DOMAIN preset' : preset'[p] = preset[p]
    BY <1>3 DEF DeleteWrite, Minus
  <2>2. /\ DOMAIN call' = DOMAIN call \ {k}
        /\ \A j \in DOMAIN call : j # k => call'[j] = call[j]
    BY <2>1, DoneSays
  <2>3. ConfigTypeOK'
    BY <2>1, <2>2 DEF ConfigTypeOK
  <2>4. ChangesGood'
    BY <2>1, <2>2 DEF ChangesGood, PlainChange
  <2>5. SavesGood' /\ FormGood'
    BY <2>1, <2>2 DEF SavesGood, FormGood
  <2> QED
    BY <2>3, <2>4, <2>5
<1>4. ASSUME GiveUp(k) PROVE ConfigInv'
  <2>1. /\ UNCHANGED <<config, preset, taken, form>>
        /\ DOMAIN call' = DOMAIN call \ {k}
        /\ \A j \in DOMAIN call' : call'[j] = call[j]
    BY <1>4, DoneSays DEF GiveUp
  <2>2. ConfigTypeOK'
    BY <2>1 DEF ConfigTypeOK
  <2>3. ChangesGood'
    BY <2>1 DEF ChangesGood, PlainChange
  <2>4. SavesGood' /\ FormGood'
    BY <2>1 DEF SavesGood, FormGood, Fits
  <2> QED
    BY <2>2, <2>3, <2>4
<1> QED
  BY <1>1, <1>2, <1>3, <1>4 DEF Finishes

LEMMA CreateGood ==
    ASSUME ConfigInv, NEW u \in Clerks, NEW p \in Presets, NEW c \in Config, NEW shared \in BOOLEAN,
           CreatePreset(u, p, c, shared)
    PROVE  ConfigInv'
<1> USE DEF ConfigInv
<1> DEFINE row == [owner |-> u, shared |-> shared, config |-> c]
<1>1. row \in Preset
  BY DEF Preset
<1>2. /\ p \notin taken /\ taken' = taken \cup {p}
      /\ DOMAIN preset' = DOMAIN preset \cup {p} /\ preset'[p] = row
      /\ \A q \in DOMAIN preset : q # p => preset'[q] = preset[q]
      /\ UNCHANGED <<config, call, form>>
  BY DEF CreatePreset, Put
<1>3. ConfigTypeOK'
  BY <1>1, <1>2 DEF ConfigTypeOK
<1>4. ChangesGood'
  BY <1>2 DEF ChangesGood, PlainChange
<1>5. SavesGood' /\ FormGood'
  BY <1>2 DEF SavesGood, FormGood
<1> QED
  BY <1>3, <1>4, <1>5

(* Only the form changes.                                                  *)
LEMMA ShowGood ==
    ASSUME ConfigInv, NEW f \in Form, Show(f), Fits(f)
    PROVE  ConfigInv'
BY DEF ConfigInv, Show, ConfigTypeOK, ChangesGood, PlainChange, SavesGood, FormGood, Fits

LEMMA FormStepsGood ==
    ASSUME ConfigInv, OpenForm \/ ReadForm \/ FillForm \/ FormFails \/ \E c \in Config : Configure(c)
    PROVE  ConfigInv'
<1>0. form \in Form /\ config \in Config /\ FormGood
  BY DEF ConfigInv, ConfigTypeOK
<1>1. ASSUME OpenForm PROVE ConfigInv'
  <2> DEFINE f == [state |-> "opening", values |-> "plain", answer |-> NoConfig, base |-> NoConfig]
  <2>1. f \in Form /\ Fits(f) /\ Show(f)
    BY <1>1 DEF OpenForm, Form, Config, Fits
  <2> HIDE DEF f
  <2> QED
    BY <2>1, ShowGood
<1>2. ASSUME ReadForm PROVE ConfigInv'
  <2> DEFINE f == [form EXCEPT !.answer = config]
  <2>1. f \in Form /\ Fits(f) /\ Show(f)
    BY <1>0, <1>2 DEF ReadForm, Form, FormGood, Fits
  <2> HIDE DEF f
  <2> QED
    BY <2>1, ShowGood
<1>3. ASSUME FillForm PROVE ConfigInv'
  <2> DEFINE f == [state |-> "ready", values |-> form.answer, answer |-> NoConfig, base |-> form.answer]
  <2>1. f \in Form /\ Fits(f) /\ Show(f)
    BY <1>0, <1>3 DEF FillForm, Form, Fits
  <2> HIDE DEF f
  <2> QED
    BY <2>1, ShowGood
<1>4. ASSUME FormFails PROVE ConfigInv'
  <2> DEFINE f == [form EXCEPT !.state = "ready", !.values = "plain", !.answer = NoConfig]
  <2>1. f \in Form /\ Fits(f) /\ Show(f)
    BY <1>0, <1>4 DEF FormFails, Form, Config, FormGood, Fits
  <2> HIDE DEF f
  <2> QED
    BY <2>1, ShowGood
<1>5. ASSUME NEW c \in Config, Configure(c) PROVE ConfigInv'
  <2> DEFINE f == [form EXCEPT !.values = c, !.base = NoConfig]
  <2>1. f \in Form /\ Fits(f) /\ Show(f)
    BY <1>0, <1>5 DEF Configure, Form, Fits
  <2> HIDE DEF f
  <2> QED
    BY <2>1, ShowGood
<1> QED
  BY <1>1, <1>2, <1>3, <1>4, <1>5

LEMMA ConfigStepGood == ConfigInv /\ [ConfigNext]_configVars => ConfigInv'
<1> SUFFICES ASSUME ConfigInv, [ConfigNext]_configVars PROVE ConfigInv'
  OBVIOUS
<1>1. CASE UNCHANGED configVars
  BY <1>1 DEF configVars, ConfigInv, ConfigTypeOK, ChangesGood, PlainChange, SavesGood, FormGood
<1>2. CASE \E u \in Clerks, p \in Presets, c \in Config, shared \in BOOLEAN :
             CreatePreset(u, p, c, shared)
  BY <1>2, CreateGood
<1>3. CASE \E k \in ConfigCalls : Checks(k)
  BY <1>3, ChecksGood
<1>4. CASE \E k \in DOMAIN call : Finishes(k)
  BY <1>4, FinishesGood
<1>5. CASE OpenForm \/ ReadForm \/ FillForm \/ FormFails \/ \E c \in Config : Configure(c)
  BY <1>5, FormStepsGood
<1> QED
  BY <1>1, <1>2, <1>3, <1>4, <1>5 DEF ConfigNext

LEMMA ConfigStartsGood == ConfigInit => ConfigInv
<1> SUFFICES ASSUME ConfigInit PROVE ConfigInv
  OBVIOUS
<1>1. /\ DOMAIN preset = {} /\ DOMAIN call = {} /\ taken = {}
      /\ config \in Config /\ form = Closed
  BY DEF ConfigInit, Config
<1>2. form \in Form /\ Fits(form)
  BY <1>1 DEF Closed, Form, Config, Fits
<1> QED
  BY <1>1, <1>2 DEF ConfigInv, ConfigTypeOK, ChangesGood, PlainChange, SavesGood, FormGood

(* The invariant holds of every configuration, preset, request and form.   *)
THEOREM ConfigInvariance == ConfigSpec => []ConfigInv
BY ConfigStartsGood, ConfigStepGood, PTL DEF ConfigSpec

(* Every value stays in its type, and ids of presets are not used twice.   *)
THEOREM ConfigTypeCorrect == ConfigSpec => []ConfigTypeOK
<1>1. ConfigInv => ConfigTypeOK
  BY DEF ConfigInv
<1> QED
  BY <1>1, ConfigInvariance, PTL

-----------------------------------------------------------------------------
(* A step that lets no request end keeps both promises.                    *)
LEMMA NobodyEnds ==
    ASSUME DOMAIN call \subseteq DOMAIN call'
    PROVE  SharingKept /\ SavedAsFilled
BY DEF SharingKept, SavedAsFilled

LEMMA OthersKeepCalls ==
    ASSUME ConfigInv, [ConfigNext]_configVars, ~\E k \in DOMAIN call : Finishes(k)
    PROVE  DOMAIN call \subseteq DOMAIN call'
<1>1. ASSUME NEW k \in ConfigCalls, Checks(k) PROVE DOMAIN call \subseteq DOMAIN call'
  <2>1. PICK w : Starts(k, w)
    BY <1>1 DEF Checks, SetCheck, ApplyCheck, DeleteCheck, ChangeCheck, SaveForm
  <2> QED
    BY <2>1, StartsSays
<1> QED
  BY <1>1 DEF ConfigNext, configVars, CreatePreset, Show, OpenForm, ReadForm, FillForm,
     FormFails, Configure

(* The presets, and the configuration, after a request has ended.          *)
LEMMA EndsSay ==
    ASSUME ConfigInv, NEW k \in DOMAIN call, Finishes(k)
    PROVE  /\ DOMAIN call' = DOMAIN call \ {k}
           /\ SharingKept /\ SavedAsFilled
<1>0. k \in ConfigCalls /\ call[k] \in Write
  BY DEF ConfigInv, ConfigTypeOK
<1>1. DOMAIN call' = DOMAIN call \ {k}
  BY DoneSays, OvertakingSays
     DEF Finishes, SetWrite, ChangeWrite, DeleteWrite, GiveUp
<1>2. SharingKept
  <2>1. ASSUME ChangeWrite(k), call[k].by \notin Chiefs, ~call[k].overtaken
        PROVE  \A p \in DOMAIN preset \cap DOMAIN preset' : preset'[p].shared = preset[p].shared
    <3> DEFINE q == call[k].preset
               row == [preset[q] EXCEPT !.shared = Given(call[k].shared, @),
                                        !.config = Given(call[k].config, @)]
    <3>1. q \in DOMAIN preset /\ call[k].op = "change" /\ preset' = [preset EXCEPT ![q] = row]
      BY <2>1 DEF ChangeWrite
    <3>2. call[k].shared \in OneAtMost(BOOLEAN)
      BY <1>0, <3>1, RowByOp DEF ChangeRow
    <3>3. call[k].shared \subseteq {preset[q].shared}
      BY <1>0, <2>1, <3>1 DEF ConfigInv, ChangesGood, PlainChange
    <3>4. preset[q] \in Preset
      BY <3>1 DEF ConfigInv, ConfigTypeOK
    <3>5. Given(call[k].shared, preset[q].shared) = preset[q].shared
      BY <3>2, <3>3, <3>4, GivenType DEF Preset
    <3>6. row.shared = preset[q].shared
      BY <3>4, <3>5 DEF Preset
    <3> HIDE DEF q, row
    <3> QED
      BY <3>1, <3>6
  <2>2. ASSUME ~ChangeWrite(k)
        PROVE  \A p \in DOMAIN preset \cap DOMAIN preset' : preset'[p].shared = preset[p].shared
    BY <2>2 DEF Finishes, SetWrite, DeleteWrite, GiveUp, Minus
  <2>3. ChangeWrite(k) => call[k].op = "change"
    BY DEF ChangeWrite
  <2> QED
    BY <1>1, <2>1, <2>2, <2>3 DEF SharingKept
<1>3. SavedAsFilled
  <2>1. config' = config \/ (SetWrite(k) /\ config' = call[k].config)
    BY DEF Finishes, SetWrite, ChangeWrite, DeleteWrite, GiveUp
  <2> QED
    BY <1>1, <2>1 DEF SavedAsFilled, ConfigInv, SavesGood
<1> QED
  BY <1>1, <1>2, <1>3

LEMMA StepsKeep == ConfigInv /\ [ConfigNext]_configVars => SharingKept /\ SavedAsFilled
BY NobodyEnds, OthersKeepCalls, EndsSay

(* Only admins change whether a preset is shared, but for changes that one *)
(* of them has overtaken.                                                  *)
THEOREM SharingByAdmins == ConfigSpec => SharedOnlyByAdmin
<1>1. ConfigInv /\ [ConfigNext]_configVars => [SharingKept]_configVars
  BY StepsKeep
<1> QED
  BY <1>1, ConfigInvariance, PTL DEF ConfigSpec, SharedOnlyByAdmin

(* The save of an untouched form stores what had filled it.                *)
THEOREM FormSavesItsAnswer == ConfigSpec => FormSavesWhatItShows
<1>1. ConfigInv /\ [ConfigNext]_configVars => [SavedAsFilled]_configVars
  BY StepsKeep
<1> QED
  BY <1>1, ConfigInvariance, PTL DEF ConfigSpec, FormSavesWhatItShows

-----------------------------------------------------------------------------
(***************************************************************************)
(* Proofs about SettingsTab: its forms stay forms, however many groups,    *)
(* subgroups and conditions are added, copied, edited and removed; what    *)
(* the tab and the server think of one then follows condition by condition. *)
(***************************************************************************)
LEMMA SeqSays ==
    ASSUME NEW S, NEW s \in Seq(S), NEW x \in S
    PROVE  /\ \A i \in DOMAIN s : i \in 1 .. Len(s) /\ s[i] \in S
           /\ Append(s, x) \in Seq(S) /\ <<x>> \in Seq(S)
           /\ \A i \in DOMAIN s : [s EXCEPT ![i] = x] \in Seq(S)
OBVIOUS

LEMMA RemoveAtSays ==
    ASSUME NEW S, NEW s \in Seq(S), NEW i \in DOMAIN s
    PROVE  RemoveAt(s, i) \in Seq(S)
<1>1. i \in 1 .. Len(s) /\ Len(s) \in Nat
  OBVIOUS
<1>2. SubSeq(s, 1, i - 1) \in Seq(S) /\ SubSeq(s, i + 1, Len(s)) \in Seq(S)
  BY <1>1
<1> QED
  BY <1>2 DEF RemoveAt

(* What is typed for a condition leaves a condition.                       *)
LEMMA ConditionsStay ==
    ASSUME NEW c \in Condition
    PROVE  ChangedConditions(c) \subseteq Condition
<1>1. ASSUME NEW text \in Texts PROVE Typed(c, text) \in Condition
  <2>1. text \in Seq(Items) /\ Integers(text) \in Seq(Items)
    BY SettingsAssumption, FilteredSays DEF Integers
  <2>2. NumberOf(text) \in Items
    BY <2>1 DEF NumberOf, Items
  <2>3. <<"low">> \in Seq(Items) /\ <<NumberOf(text)>> \in Seq(Items)
    BY <2>2 DEF Items
  <2> HIDE DEF Integers, NumberOf
  <2>4. /\ \A k \in {"text", "number", "list"} : \A is \in Seq(Items) :
             [c EXCEPT !.kind = k, !.is = is] \in Condition
    BY DEF Condition
  <2> QED
    BY <2>1, <2>3, <2>4 DEF Typed
<1>2. /\ [c EXCEPT !.field = IF @ = "text" THEN "ageGroupId" ELSE "text"] \in Condition
      /\ [c EXCEPT !.operator = IF @ = "IN" THEN "CONTAINS" ELSE "IN"] \in Condition
  BY DEF Condition
<1> QED
  BY <1>1, <1>2 DEF ChangedConditions

LEMMA BlocksStay ==
    ASSUME NEW b \in Seq(Condition)
    PROVE  ChangedBlocks(b) \subseteq Seq(Condition)
<1>1. EmptyCondition \in Condition
  BY DEF EmptyCondition, Condition
<1>2. Append(b, EmptyCondition) \in Seq(Condition)
  BY <1>1, SeqSays
<1>3. \A i \in DOMAIN b : RemoveAt(b, i) \in Seq(Condition)
  BY RemoveAtSays
<1>4. \A i \in DOMAIN b : \A c \in ChangedConditions(b[i]) : [b EXCEPT ![i] = c] \in Seq(Condition)
  <2> SUFFICES ASSUME NEW i \in DOMAIN b, NEW c \in ChangedConditions(b[i])
               PROVE  [b EXCEPT ![i] = c] \in Seq(Condition)
    OBVIOUS
  <2>1. b[i] \in Condition
    OBVIOUS
  <2>2. c \in Condition
    BY <2>1, ConditionsStay
  <2> QED
    BY <2>2, SeqSays
<1> SUFFICES ASSUME NEW x \in ChangedBlocks(b) PROVE x \in Seq(Condition)
  OBVIOUS
<1>5. \/ x = Append(b, EmptyCondition)
      \/ \E i \in DOMAIN b : x = RemoveAt(b, i)
      \/ \E i \in DOMAIN b : \E c \in ChangedConditions(b[i]) : x = [b EXCEPT ![i] = c]
  BY Zenon DEF ChangedBlocks
<1> QED
  BY <1>2, <1>3, <1>4, <1>5

(* The form with other rules.                                              *)
LEMMA FormStays ==
    ASSUME NEW f \in FormValues
    PROVE  /\ f.rules \in AdvancedRules /\ f.rules.groups \in Seq(RuleGroup)
           /\ \A r \in AdvancedRules : [f EXCEPT !.rules = r] \in FormValues
           /\ \A gs \in Seq(RuleGroup) : [f EXCEPT !.rules.groups = gs] \in FormValues
           /\ \A i \in DOMAIN f.rules.groups :
                /\ f.rules.groups[i] \in RuleGroup
                /\ f.rules.groups[i].blocks \in Seq(Seq(Condition))
                /\ \A bs \in Seq(Seq(Condition)) :
                     [f EXCEPT !.rules.groups[i].blocks = bs] \in FormValues
<1>1. f.rules \in AdvancedRules /\ f.rules.groups \in Seq(RuleGroup)
  BY DEF FormValues, AdvancedRules
<1>2. \A r \in AdvancedRules : [f EXCEPT !.rules = r] \in FormValues
  BY DEF FormValues
<1>3. \A gs \in Seq(RuleGroup) : [f EXCEPT !.rules.groups = gs] \in FormValues
  <2> SUFFICES ASSUME NEW gs \in Seq(RuleGroup)
               PROVE  [f EXCEPT !.rules.groups = gs] \in FormValues
    OBVIOUS
  <2>1. [f.rules EXCEPT !.groups = gs] \in AdvancedRules
    BY <1>1 DEF AdvancedRules
  <2> QED
    BY <1>2, <2>1
<1>4. ASSUME NEW i \in DOMAIN f.rules.groups
      PROVE  /\ f.rules.groups[i] \in RuleGroup
             /\ f.rules.groups[i].blocks \in Seq(Seq(Condition))
  <2>1. f.rules.groups[i] \in RuleGroup
    BY <1>1
  <2> QED
    BY <2>1 DEF RuleGroup
<1>5. ASSUME NEW i \in DOMAIN f.rules.groups, NEW bs \in Seq(Seq(Condition))
      PROVE  [f EXCEPT !.rules.groups[i].blocks = bs] \in FormValues
  <2>1. [f.rules.groups[i] EXCEPT !.blocks = bs] \in RuleGroup
    BY <1>4 DEF RuleGroup
  <2>2. [f.rules.groups EXCEPT ![i] = [f.rules.groups[i] EXCEPT !.blocks = bs]] \in Seq(RuleGroup)
    BY <1>1, <2>1, SeqSays
  <2> QED
    BY <1>3, <2>2
<1> QED
  BY <1>1, <1>2, <1>3, <1>4, <1>5

-----------------------------------------------------------------------------
CompRow == [ageGroups : SUBSET AgeGroupIds, status : Stages, config : FormValues]
TabRow  == [open : BOOLEAN, shown : SUBSET AgeGroupIds, status : Stages,
            role : {"none", "admin", "secretary"}, form : FormValues,
            asked : {"nothing", "complete", "draft", "delete"}, editing : BOOLEAN]

LEMMA TypesByRow ==
    /\ SettingsTypeOK =>
         /\ comp \in CompRow /\ settings \in TabRow
         /\ \A k \in DOMAIN saved : k \in {"defaults", "preset"} /\ saved[k] \in FormValues
    /\ comp' \in CompRow /\ settings' \in TabRow
       /\ (\A k \in DOMAIN saved' : k \in {"defaults", "preset"} /\ saved'[k] \in FormValues)
         => SettingsTypeOK'
BY DEF SettingsTypeOK, CompRow, TabRow

LEMMA RulesOffTyped == RulesOff \in AdvancedRules
<1>1. <<>> \in Seq(RuleGroup)
  OBVIOUS
<1> QED
  BY <1>1 DEF RulesOff, AdvancedRules

LEMMA OpenedTyped ==
    ASSUME NEW c \in CompRow, NEW answered \in BOOLEAN
    PROVE  Opened(c, answered) \in TabRow
<1>1. c.config \in FormValues /\ c.ageGroups \in SUBSET AgeGroupIds /\ c.status \in Stages
  BY DEF CompRow
<1>2. [c.config EXCEPT !.rules = RulesOff] \in FormValues
  BY <1>1, RulesOffTyped, FormStays
<1> QED
  BY <1>1, <1>2 DEF Opened, TabRow

LEMMA ReopensKeeps ==
    ASSUME SettingsTypeOK, NEW c \in CompRow, Reopens(c), UNCHANGED saved
    PROVE  SettingsTypeOK'
BY OpenedTyped, TypesByRow DEF Reopens

LEMMA ShowsKeeps ==
    ASSUME SettingsTypeOK, NEW f \in FormValues, Shows(f)
    PROVE  SettingsTypeOK'
<1>1. settings \in TabRow /\ comp \in CompRow
  BY TypesByRow
<1>2. settings' \in TabRow
  BY <1>1 DEF Shows, TabRow
<1> QED
  BY <1>1, <1>2, TypesByRow DEF Shows

(* What an edit of the form shows is a form again.                         *)
LEMMA EditKeeps == SettingsTypeOK /\ EditForm => SettingsTypeOK'
<1> SUFFICES ASSUME SettingsTypeOK, EditForm PROVE SettingsTypeOK'
  OBVIOUS
<1> DEFINE f == settings.form
           groups == f.rules.groups
<1>1. f \in FormValues /\ settings.shown \subseteq AgeGroupIds
  BY TypesByRow DEF TabRow
<1>2. f.rules \in AdvancedRules /\ groups \in Seq(RuleGroup)
  BY <1>1, FormStays
<1>3. ASSUME NEW r \in AdvancedRules, Rules(r) PROVE SettingsTypeOK'
  BY <1>1, <1>3, FormStays, ShowsKeeps DEF Rules
<1>4. ASSUME NEW gs \in Seq(RuleGroup), Groups(gs) PROVE SettingsTypeOK'
  BY <1>1, <1>4, FormStays, ShowsKeeps DEF Groups
<1>5. ASSUME NEW i \in DOMAIN groups, NEW bs \in Seq(Seq(Condition)), BlocksOf(i, bs)
      PROVE  SettingsTypeOK'
  BY <1>1, <1>5, FormStays, ShowsKeeps DEF BlocksOf
<1>6. ASSUME SetFormat PROVE SettingsTypeOK'
  <2>1. PICK format \in Formats : Shows([f EXCEPT !.format = format])
    BY <1>6 DEF SetFormat
  <2>2. [f EXCEPT !.format = format] \in FormValues
    BY <1>1 DEF FormValues
  <2> QED
    BY <2>1, <2>2, ShowsKeeps
<1>7. ASSUME ChoosePrimary PROVE SettingsTypeOK'
  <2>1. PICK g \in settings.shown \cup {NoAgeGroup} : Shows([f EXCEPT !.primary = g])
    BY <1>7 DEF ChoosePrimary
  <2>2. [f EXCEPT !.primary = g] \in FormValues
    BY <1>1 DEF FormValues
  <2> QED
    BY <2>1, <2>2, ShowsKeeps
<1>8. ASSUME ToggleSecondary PROVE SettingsTypeOK'
  <2>1. PICK g \in settings.shown : Shows([f EXCEPT !.second = SymDiff(@, {g})])
    BY <1>8 DEF ToggleSecondary
  <2>2. SymDiff(f.second, {g}) \subseteq AgeGroupIds
    BY <1>1 DEF SymDiff, FormValues
  <2>3. [f EXCEPT !.second = SymDiff(@, {g})] \in FormValues
    BY <1>1, <2>2 DEF FormValues
  <2> QED
    BY <2>1, <2>3, ShowsKeeps
<1>9. ASSUME SwitchRules PROVE SettingsTypeOK'
  <2>1. [f.rules EXCEPT !.on = ~@] \in AdvancedRules
    BY <1>2 DEF AdvancedRules
  <2> QED
    BY <1>3, <1>9, <2>1 DEF SwitchRules
<1>10. ASSUME EditUnmatched PROVE SettingsTypeOK'
  <2>1. /\ [f.rules EXCEPT !.unmatched = ~@] \in AdvancedRules
        /\ [f.rules EXCEPT !.named = ~@] \in AdvancedRules
    BY <1>2 DEF AdvancedRules
  <2> QED
    BY <1>3, <1>10, <2>1 DEF EditUnmatched
<1>11. EmptyBlock \in Seq(Condition) /\ EmptyGroup \in RuleGroup
       /\ <<EmptyBlock>> \in Seq(Seq(Condition))
  <2>1. EmptyCondition \in Condition
    BY DEF EmptyCondition, Condition
  <2>2. EmptyBlock \in Seq(Condition)
    BY <2>1 DEF EmptyBlock
  <2>3. <<EmptyBlock>> \in Seq(Seq(Condition))
    BY <2>2
  <2> QED
    BY <2>2, <2>3 DEF EmptyGroup, RuleGroup
<1>12. ASSUME AddGroup PROVE SettingsTypeOK'
  <2>1. Append(groups, EmptyGroup) \in Seq(RuleGroup)
    BY <1>2, <1>11
  <2> QED
    BY <1>4, <1>12, <2>1 DEF AddGroup
<1>13. ASSUME NEW i \in DOMAIN groups
       PROVE  /\ groups[i] \in RuleGroup
              /\ groups[i].blocks \in Seq(Seq(Condition))
  BY <1>1, FormStays
<1>14. ASSUME NEW i \in DOMAIN groups, EditGroup(i) PROVE SettingsTypeOK'
  <2> DEFINE other  == [groups[i] EXCEPT !.named = ~@]
             copy   == [groups[i] EXCEPT !.named = TRUE]
             single == [groups[i] EXCEPT !.blocks = <<EmptyBlock>>]
  <2>1. other \in RuleGroup /\ copy \in RuleGroup /\ single \in RuleGroup
    BY <1>11, <1>13 DEF RuleGroup
  <2>2. \/ Groups([groups EXCEPT ![i] = other]) \/ Groups(Append(groups, copy))
        \/ Groups([groups EXCEPT ![i] = single]) \/ Groups(RemoveAt(groups, i))
    BY <1>14 DEF EditGroup
  <2> HIDE DEF other, copy, single
  <2>3. /\ [groups EXCEPT ![i] = other] \in Seq(RuleGroup)
        /\ Append(groups, copy) \in Seq(RuleGroup)
        /\ [groups EXCEPT ![i] = single] \in Seq(RuleGroup)
    BY <1>2, <2>1, SeqSays
  <2>4. RemoveAt(groups, i) \in Seq(RuleGroup)
    BY <1>2, RemoveAtSays
  <2> QED
    BY <1>4, <2>2, <2>3, <2>4
<1>15. ASSUME NEW i \in DOMAIN groups, NEW j \in DOMAIN groups[i].blocks,
              NEW b \in ChangedBlocks(groups[i].blocks[j])
       PROVE  [groups[i].blocks EXCEPT ![j] = b] \in Seq(Seq(Condition))
  <2>1. groups[i].blocks[j] \in Seq(Condition)
    BY <1>13, SeqSays
  <2>2. b \in Seq(Condition)
    BY <2>1, BlocksStay
  <2> QED
    BY <1>13, <2>2, SeqSays
<1>16. ASSUME NEW i \in DOMAIN groups, EditConditions(i) PROVE SettingsTypeOK'
  <2> DEFINE blocks == groups[i].blocks
  <2>1. PICK b \in ChangedBlocks(blocks[1]) : BlocksOf(i, [blocks EXCEPT ![1] = b])
    BY <1>16 DEF EditConditions
  <2>2. CASE 1 \in DOMAIN blocks
    BY <1>5, <1>15, <2>1, <2>2
  <2>3. CASE 1 \notin DOMAIN blocks
    <3>1. [blocks EXCEPT ![1] = b] = blocks
      BY <1>13, <2>3
    <3> QED
      BY <1>5, <1>13, <2>1, <3>1
  <2> QED
    BY <2>2, <2>3
<1>17. ASSUME NEW i \in DOMAIN groups, EditSubgroup(i) PROVE SettingsTypeOK'
  <2> DEFINE blocks == groups[i].blocks
  <2>1. PICK j \in DOMAIN blocks :
          \/ \E b \in ChangedBlocks(blocks[j]) : BlocksOf(i, [blocks EXCEPT ![j] = b])
          \/ BlocksOf(i, Append(blocks, blocks[j])) \/ BlocksOf(i, RemoveAt(blocks, j))
    BY <1>17 DEF EditSubgroup
  <2>2. blocks \in Seq(Seq(Condition)) /\ blocks[j] \in Seq(Condition)
    BY <1>13, SeqSays
  <2>3. Append(blocks, blocks[j]) \in Seq(Seq(Condition))
    BY <2>2, SeqSays
  <2>4. RemoveAt(blocks, j) \in Seq(Seq(Condition))
    BY <2>2, RemoveAtSays
  <2> QED
    BY <1>5, <1>15, <2>1, <2>3, <2>4
<1>18. ASSUME NEW i \in DOMAIN groups, AddSubgroup(i) PROVE SettingsTypeOK'
  <2>1. Append(groups[i].blocks, EmptyBlock) \in Seq(Seq(Condition))
    BY <1>11, <1>13, SeqSays
  <2> QED
    BY <1>5, <1>18, <2>1 DEF AddSubgroup
<1> HIDE DEF groups
<1> QED
  BY <1>6, <1>7, <1>8, <1>9, <1>10, <1>12, <1>14, <1>16, <1>17, <1>18 DEF EditForm, groups

(* What is saved, kept as the defaults or a preset, or applied is a form.  *)
LEMMA SentTyped ==
    ASSUME NEW f \in FormValues
    PROVE  Normalized(Sent(f)) \in FormValues
<1>1. Sent(f) \in FormValues
  <2>1. (IF f.rules.on THEN f.rules ELSE RulesOff) \in AdvancedRules
    BY RulesOffTyped, FormStays
  <2> QED
    BY <2>1 DEF Sent, FormValues
<1>2. [Sent(f).rules EXCEPT !.named = TRUE] \in AdvancedRules
  BY <1>1 DEF FormValues, AdvancedRules
<1> QED
  BY <1>1, <1>2 DEF Normalized, FormValues

LEMMA SettingsStart == SettingsInit => SettingsTypeOK
<1> SUFFICES ASSUME SettingsInit PROVE SettingsTypeOK
  OBVIOUS
<1>1. comp \in CompRow /\ settings = Opened(comp, TRUE) /\ DOMAIN saved = {}
  BY SettingsAssumption DEF SettingsInit, CompRow, Stages
<1>2. settings \in TabRow
  BY <1>1, OpenedTyped
<1> QED
  BY <1>1, <1>2 DEF SettingsTypeOK, CompRow, TabRow

LEMMA SettingsStep == SettingsTypeOK /\ [SettingsNext]_settingsVars => SettingsTypeOK'
<1> SUFFICES ASSUME SettingsTypeOK, [SettingsNext]_settingsVars PROVE SettingsTypeOK'
  OBVIOUS
<1>1. /\ comp \in CompRow /\ settings \in TabRow /\ settings.form \in FormValues
      /\ \A k \in DOMAIN saved : k \in {"defaults", "preset"} /\ saved[k] \in FormValues
  BY TypesByRow DEF TabRow
<1>2. ASSUME NEW s \in Stages, StatusBecomes(s) PROVE SettingsTypeOK'
  <2>1. [comp EXCEPT !.status = s] \in CompRow
    BY <1>1 DEF CompRow
  <2> QED
    BY <1>2, <2>1, ReopensKeeps DEF StatusBecomes
<1>3. ASSUME NEW t \in TabRow, settings' = t, UNCHANGED <<comp, saved>>
      PROVE  SettingsTypeOK'
  BY <1>1, <1>3, TypesByRow
<1>4. ASSUME NEW what \in {"nothing", "complete", "draft", "delete"}, AskFirst(what)
      PROVE  SettingsTypeOK'
  <2>1. [settings EXCEPT !.asked = what] \in TabRow
    BY <1>1 DEF TabRow
  <2> QED
    BY <1>3, <1>4, <2>1 DEF AskFirst
<1>5. ASSUME NEW g \in AgeGroupIds, AddAgeGroup(g) \/ RemoveAgeGroup(g) \/ AgeGroupDeleted(g)
      PROVE  SettingsTypeOK'
  <2>1. /\ [comp EXCEPT !.ageGroups = @ \cup {g}] \in CompRow
        /\ [comp EXCEPT !.ageGroups = @ \ {g}] \in CompRow
    BY <1>1 DEF CompRow
  <2>2. CASE AgeGroupDeleted(g)
    BY <1>1, <2>1, <2>2, TypesByRow DEF AgeGroupDeleted
  <2> QED
    BY <1>5, <2>1, <2>2, ReopensKeeps DEF AddAgeGroup, RemoveAgeGroup
<1>6. ASSUME RoleTold PROVE SettingsTypeOK'
  <2>1. PICK role \in {"admin", "secretary"} : settings' = [settings EXCEPT !.role = role]
    BY <1>6 DEF RoleTold
  <2>2. [settings EXCEPT !.role = role] \in TabRow
    BY <1>1 DEF TabRow
  <2> QED
    BY <1>3, <1>6, <2>1, <2>2 DEF RoleTold
<1>7. ASSUME SaveDetails PROVE SettingsTypeOK'
  BY <1>1, <1>7, ReopensKeeps DEF SaveDetails
<1>8. ASSUME StatusButtons \/ AskDelete \/ Confirm PROVE SettingsTypeOK'
  <2>1. [settings EXCEPT !.open = FALSE, !.asked = "nothing"] \in TabRow
    BY <1>1 DEF TabRow
  <2> QED
    BY <1>2, <1>3, <1>4, <1>8, <2>1 DEF StatusButtons, AskDelete, Confirm, Stages
<1>9. ASSUME SaveConfig PROVE SettingsTypeOK'
  <2>1. Normalized(Sent(settings.form)) \in FormValues
    BY <1>1, SentTyped
  <2>2. [comp EXCEPT !.config = Normalized(Sent(settings.form))] \in CompRow
    BY <1>1, <2>1 DEF CompRow
  <2> QED
    BY <1>9, <2>2, ReopensKeeps DEF SaveConfig
<1>10. ASSUME NEW name \in {"defaults", "preset"}, Keep(name) PROVE SettingsTypeOK'
  <2>1. Normalized(Sent(settings.form)) \in FormValues
    BY <1>1, SentTyped
  <2>2. \A k \in DOMAIN saved' : k \in {"defaults", "preset"} /\ saved'[k] \in FormValues
    BY <1>1, <1>10, <2>1 DEF Keep
  <2> QED
    BY <1>1, <1>10, <2>2, TypesByRow DEF Keep
<1>11. ASSUME PresetBar PROVE SettingsTypeOK'
  <2>1. ASSUME UseDefaults PROVE SettingsTypeOK'
    BY <1>1, <2>1, ShowsKeeps DEF UseDefaults
  <2> QED
    BY <1>10, <1>11, <2>1 DEF PresetBar
<1>12. ASSUME PresetRow PROVE SettingsTypeOK'
  <2>1. [settings EXCEPT !.editing = ~settings.editing] \in TabRow
    BY <1>1 DEF TabRow
  <2>2. "preset" \in DOMAIN saved => [comp EXCEPT !.config = saved["preset"]] \in CompRow
    BY <1>1 DEF CompRow
  <2>3. ASSUME EditPreset(~settings.editing) PROVE SettingsTypeOK'
    BY <1>3, <2>1, <2>3 DEF EditPreset
  <2>4. ASSUME saved' = [k \in DOMAIN saved \ {"preset"} |-> saved[k]],
               UNCHANGED <<comp, settings>>
        PROVE  SettingsTypeOK'
    BY <1>1, <2>4, TypesByRow
  <2>5. ASSUME "preset" \in DOMAIN saved, Reopens([comp EXCEPT !.config = saved["preset"]]),
               UNCHANGED saved
        PROVE  SettingsTypeOK'
    BY <2>2, <2>5, ReopensKeeps
  <2> QED
    BY <1>12, <2>3, <2>4, <2>5 DEF PresetRow
<1>13. CASE UNCHANGED settingsVars
  BY <1>1, <1>13, TypesByRow DEF settingsVars
<1> QED
  BY <1>5, <1>6, <1>7, <1>8, <1>9, <1>11, <1>12, <1>13, EditKeeps DEF SettingsNext

(* The tab, the competition and what is kept of it stay in their types.    *)
THEOREM SettingsTypeCorrect == SettingsSpec => []SettingsTypeOK
BY SettingsStart, SettingsStep, PTL DEF SettingsSpec

-----------------------------------------------------------------------------
(* What is in the groups of a form are conditions.                         *)
LEMMA ConditionsTyped ==
    ASSUME NEW f \in FormValues
    PROVE  Conditions(f) \subseteq Condition
<1>1. \A b \in Blocks(f) : b \in Seq(Condition)
  <2> SUFFICES ASSUME NEW b \in Blocks(f) PROVE b \in Seq(Condition)
    OBVIOUS
  <2>1. PICK g \in ToSet(f.rules.groups) : b \in ToSet(g.blocks)
    BY DEF Blocks
  <2>2. PICK i \in DOMAIN f.rules.groups : g = f.rules.groups[i]
    BY <2>1 DEF ToSet
  <2>3. g.blocks \in Seq(Seq(Condition))
    BY <2>2, FormStays
  <2> QED
    BY <2>1, <2>3 DEF ToSet
<1> SUFFICES ASSUME NEW c \in Conditions(f) PROVE c \in Condition
  OBVIOUS
<1>2. PICK b \in Blocks(f) : c \in ToSet(b)
  BY DEF Conditions
<1> QED
  BY <1>1, <1>2 DEF ToSet

(* The two ways to check one condition.                                    *)
LEMMA ConditionAgrees ==
    ASSUME NEW c \in Condition
    PROVE  /\ TabTakesCondition(c) =>
                \/ ServerTakesCondition(c)
                \/ c.field = "ageGroupId" /\ c.operator # "IN" /\ c.kind = "list"
           /\ ServerTakesCondition(c) =>
                \/ TabTakesCondition(c)
                \/ c.is = <<>> \/ (c.field = "text" /\ c.kind = "number")
                \/ c.field = "ageGroupId" /\ "low" \in ToSet(c.is)
<1>1. c.is \in Seq(Items) /\ ToSet(c.is) \subseteq Items
  BY DEF Condition, ToSet
<1>2. c.is # <<>> => c.is[1] \in ToSet(c.is) /\ ToSet(c.is) # {}
  <2>1. c.is # <<>> => 1 \in DOMAIN c.is
    BY <1>1
  <2> QED
    BY <2>1 DEF ToSet
<1>3. /\ NumberOf(c.is) = "id" => c.is # <<>> /\ Len(c.is) = 1
      /\ Len(c.is) = 1 => ToSet(c.is) = {c.is[1]}
      /\ NumberOf(c.is) # "word" => c.is = <<>> \/ (Len(c.is) = 1 /\ NumberOf(c.is) = c.is[1])
  BY <1>1 DEF NumberOf, ToSet
<1>4. NumberOf(c.is) # "word" => NumberOf(c.is) \in {"low", "id"}
  BY <1>1, <1>3 DEF NumberOf, Items, ToSet
<1> QED
  BY <1>1, <1>2, <1>3, <1>4 DEF TabTakesCondition, ServerTakesCondition, Condition, Items

(* What is sent of a form has its rules, where they are on, and its age    *)
(* groups, where the format is mixed.                                      *)
LEMMA SentSays ==
    ASSUME NEW f \in FormValues
    PROVE  /\ Sent(f).format = f.format
           /\ f.format = "MIXED" => Sent(f).primary = f.primary /\ Sent(f).second = f.second
           /\ f.rules.on => Sent(f).rules = f.rules
           /\ ~f.rules.on => ~Sent(f).rules.on
BY DEF Sent, FormValues, RulesOff

LEMMA FormAgrees ==
    ASSUME SettingsTypeOK
    PROVE  TabAgreesWithServer
<1> DEFINE f == settings.form
           s == Sent(f)
<1>1. f \in FormValues
  BY TypesByRow DEF TabRow
<1>2. Conditions(f) \subseteq Condition
  BY <1>1, ConditionsTyped
<1>3. f.rules.on => Blocks(s) = Blocks(f) /\ Conditions(s) = Conditions(f)
  BY <1>1, SentSays DEF Blocks, Conditions
<1> HIDE DEF f, s
<1>4. ASSUME TabTakes(f), f.primary \notin f.second,
             \A c \in Conditions(f) : ~(c.field = "ageGroupId" /\ c.operator # "IN" /\ c.kind = "list")
      PROVE  ServerTakes(s)
  <2>1. f.rules.on => \A c \in Conditions(f) : ServerTakesCondition(c)
    BY <1>2, <1>4, ConditionAgrees DEF TabTakes
  <2> QED
    BY <1>1, <1>3, <1>4, <2>1, SentSays DEF TabTakes, ServerTakes, ServerTakesRules, s
<1>5. ASSUME ServerTakes(s), ~(f.rules.unmatched /\ ~f.rules.named),
             \A c \in Conditions(f) :
                ~(\/ c.is = <<>>
                  \/ c.field = "ageGroupId" /\ "low" \in ToSet(c.is)
                  \/ c.field = "text" /\ c.kind = "number")
      PROVE  TabTakes(f)
  <2>1. f.rules.on => \A c \in Conditions(f) : TabTakesCondition(c)
    BY <1>1, <1>2, <1>3, <1>5, ConditionAgrees, SentSays DEF ServerTakes, ServerTakesRules, s
  <2> QED
    BY <1>1, <1>3, <1>5, <2>1, SentSays
    DEF TabTakes, ServerTakes, ServerTakesRules, s, FormValues, AdvancedRules
<1> QED
  BY <1>4, <1>5 DEF TabAgreesWithServer, f, s

(* The checks of the tab and of the server agree on every form that can be *)
(* made, with any number of groups, subgroups and conditions, but for the  *)
(* cases the property names.                                               *)
THEOREM ChecksAgree == SettingsSpec => []TabAgreesWithServer
<1>1. SettingsTypeOK => TabAgreesWithServer
  BY FormAgrees
<1> QED
  BY <1>1, SettingsTypeCorrect, PTL

-----------------------------------------------------------------------------
(* The parts side by side: each goes by its own next-state relation.       *)
LEMMA DocumentsAreTheirParts ==
    /\ DocumentsInit => ExportInit /\ ConfigInit /\ SettingsInit
    /\ [DocumentsNext]_allVars => /\ [ExportNext]_exportVars
                                  /\ [ConfigNext]_configVars
                                  /\ [SettingsNext]_settingsVars
                                  /\ UNCHANGED part
<1>1. DocumentsInit => ExportInit /\ ConfigInit /\ SettingsInit
  BY DEF DocumentsInit
<1>2. ASSUME DocumentsNext
      PROVE  /\ [ExportNext]_exportVars /\ [ConfigNext]_configVars
             /\ [SettingsNext]_settingsVars /\ UNCHANGED part
  BY <1>2 DEF DocumentsNext, Frozen, allVars
<1>3. ASSUME UNCHANGED allVars
      PROVE  /\ [ExportNext]_exportVars /\ [ConfigNext]_configVars
             /\ [SettingsNext]_settingsVars /\ UNCHANGED part
  BY <1>3 DEF allVars
<1> QED
  BY <1>1, <1>2, <1>3

(* The invariants of all three, and the part that was chosen.              *)
DocumentsInv ==
    ExportInv /\ ConfigInv /\ SettingsTypeOK /\ part \in {"export", "config", "settings"}

LEMMA DocumentsStart == DocumentsInit => DocumentsInv
<1>1. DocumentsInit => part \in {"export", "config", "settings"}
  BY DEF DocumentsInit
<1> QED
  BY <1>1, DocumentsAreTheirParts, InitExport, ConfigStartsGood, SettingsStart DEF DocumentsInv

LEMMA DocumentsStep == DocumentsInv /\ [DocumentsNext]_allVars => DocumentsInv'
BY DocumentsAreTheirParts, ExportStep, ConfigStepGood, SettingsStep DEF DocumentsInv

(* The invariants of exports, configurations and forms, side by side.      *)
THEOREM DocumentsInvariance == DocumentsSpec => []DocumentsInv
BY DocumentsStart, DocumentsStep, PTL DEF DocumentsSpec

(* Exports, presets, requests and forms stay in their types, whatever goes *)
(* on beside them.                                                         *)
THEOREM DocumentsTypesCorrect == DocumentsSpec => []DocumentsTypeOK
<1>1. DocumentsInv => DocumentsTypeOK
  BY DEF DocumentsInv, ExportInv, ConfigInv, DocumentsTypeOK
<1> QED
  BY <1>1, DocumentsInvariance, PTL
=============================================================================
