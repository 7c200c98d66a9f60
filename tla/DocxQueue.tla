------------------------------ MODULE DocxQueue ------------------------------
(***************************************************************************)
(* The asynchronous DOCX job pipeline of docx-service with its Redis       *)
(* backend: the submit handler (_enqueue_docx_job), the worker loop        *)
(* (_docx_worker), the keys they keep in Redis, and what happens to them   *)
(* when a service process restarts, a Redis command fails, or a key        *)
(* reaches its TTL.                                                        *)
(*                                                                         *)
(* Every service process runs the worker task inside the API process       *)
(* (DOCX_INTERNAL_WORKER), beside the handlers of the submit requests it   *)
(* is serving, which take turns at their awaits; worker.py is a process    *)
(* without handlers.                                                       *)
(*                                                                         *)
(* An action is one Redis command together with the local code up to the   *)
(* next await.  The commands of one _save_job are one action, except in    *)
(* the save that publishes a finished document, where the interval between *)
(* SET meta and SET result is visible to clients and to failures.          *)
(***************************************************************************)
EXTENDS Integers, Sequences, FiniteSets

CONSTANTS
    Jobs,        \* the pool of job ids (uuid4); bounds the jobs ever created
    Keys,        \* idempotency keys: sha256 of the export kind and payload
    Services,    \* docx-service processes, each with one worker task
    Handlers,    \* <<s, n>>: the n-th handler process s may have at a time;
                 \* bounds the submit requests that are open together
    MaxRetries,  \* DOCX_JOB_MAX_RETRIES
    DeadLimit,   \* length the dead-letter list is trimmed to (500)
    Faults,      \* the kinds of fault that may happen in this instance
    NoJob,       \* no job id
    NoKey        \* no idempotency key

ASSUME DocxAssumption ==
    /\ Handlers \subseteq Services \X Nat
    /\ MaxRetries \in Nat \ {0}
    /\ DeadLimit \in Nat \ {0}
    /\ Faults \subseteq {"crash", "redis", "expire"}
    /\ NoJob \notin Jobs
    /\ NoKey \notin Keys

VARIABLES
    meta,    \* meta[j]: the JSON under swimsync:docx:job:<j>:meta
    result,  \* the jobs with a document under swimsync:docx:job:<j>:result
    idem,    \* idem[k]: the job id under swimsync:docx:idempotency:<k>
    queue,   \* the list swimsync:docx:queue
    dead,    \* the list swimsync:docx:dead-letter
    older,   \* <<a, b>>: live key a was last SET before live key b
    api,     \* api[h]: the submit request that handler h is serving
    worker,  \* worker[s]: the worker task of service s and its local job dict
    used,    \* job ids generated so far (uuid4 does not repeat)
    acked,   \* jobs whose id was returned to some client
    orphans  \* jobs whose handler or worker died while responsible for them

redisVars == <<meta, result, idem, queue, dead, older>>
ghostVars == <<used, acked, orphans>>
vars == <<redisVars, api, worker, ghostVars>>

-----------------------------------------------------------------------------
(* Types.                                                                  *)

Statuses == {"absent", "queued", "processing", "completed", "failed"}
JobMeta  == [status : Statuses, attempts : 0 .. MaxRetries,
             payload : Keys \cup {NoKey}]
NoMeta   == [status |-> "absent", attempts |-> 0, payload |-> NoKey]

ApiSteps == {"idle", "load", "create", "register", "enqueue"}
ApiCall  == [pc : ApiSteps, key : Keys \cup {NoKey}, job : Jobs \cup {NoJob}]
Call(step, k, j) == [pc |-> step, key |-> k, job |-> j]
NoCall   == Call("idle", NoKey, NoJob)

WorkerSteps == {"pull", "load", "start", "run", "saveResult", "except",
                "requeue", "bury", "dead"}
WorkerTask  == [pc : WorkerSteps, job : Jobs \cup {NoJob},
                attempts : 0 .. MaxRetries, payload : Keys \cup {NoKey},
                bytes : BOOLEAN]
Task(step, j, n, k, b) == [pc |-> step, job |-> j, attempts |-> n,
                           payload |-> k, bytes |-> b]
Pulling     == Task("pull", NoJob, 0, NoKey, FALSE)
DeadTask    == Task("dead", NoJob, 0, NoKey, FALSE)

MetaKey(j)   == <<"meta", j>>
ResultKey(j) == <<"result", j>>
IdemKey(k)   == <<"idem", k>>
RedisKeys    == {MetaKey(j) : j \in Jobs} \cup {ResultKey(j) : j \in Jobs}
                \cup {IdemKey(k) : k \in Keys}

TypeOK ==
    /\ meta \in [Jobs -> JobMeta]
    /\ result \subseteq Jobs
    /\ idem \in [Keys -> Jobs \cup {NoJob}]
    /\ queue \in Seq(Jobs)
    /\ dead \in Seq(Jobs)
    /\ older \subseteq RedisKeys \X RedisKeys
    /\ api \in [Handlers -> ApiCall]
    /\ worker \in [Services -> WorkerTask]
    /\ used \subseteq Jobs /\ acked \subseteq Jobs /\ orphans \subseteq Jobs

-----------------------------------------------------------------------------
(* Redis.                                                                  *)

(* All keys have the same TTL (DOCX_JOB_TTL_SEC), so they expire in the    *)
(* order in which they were last SET: the clock itself is not needed.      *)
Live == {MetaKey(j) : j \in {i \in Jobs : meta[i].status # "absent"}}
        \cup {ResultKey(j) : j \in result}
        \cup {IdemKey(k) : k \in {i \in Keys : idem[i] # NoJob}}

Forget(rel, x)    == {p \in rel : x \notin {p[1], p[2]}}
Touch(rel, x, on) == IF "expire" \in Faults
                     THEN Forget(rel, x) \cup ((on \ {x}) \X {x})
                     ELSE rel

(* _save_job: SET meta with the TTL, then SET or DELETE the result.        *)
SaveJob(j, m, bytes) ==
    /\ meta' = [meta EXCEPT ![j] = m]
    /\ result' = IF bytes THEN result \cup {j} ELSE result \ {j}
    /\ older' = IF bytes
                THEN Touch(Touch(older, MetaKey(j), Live), ResultKey(j),
                           Live \cup {MetaKey(j)})
                ELSE Forget(Touch(older, MetaKey(j), Live), ResultKey(j))

Meta(st, n, k) == [status |-> st, attempts |-> n, payload |-> k]

-----------------------------------------------------------------------------
(* The submit handler: POST /jobs/start-protocol, /jobs/result-protocol.   *)

(* Bound: a request is accepted only while every open request can still    *)
(* get an id from the pool, or while its key names a stored job.           *)
PoolHasRoom ==
    Cardinality({h \in Handlers : api[h].pc \in {"load", "create"}})
        < Cardinality(Jobs \ used)
KeyNamesJob(k) == idem[k] # NoJob /\ meta[idem[k]].status # "absent"

(* _resolve_idempotency: GET the idempotency key.                          *)
SubmitResolve(h, k) ==
    /\ api[h].pc = "idle"
    /\ PoolHasRoom \/ KeyNamesJob(k)
    /\ LET step == IF idem[k] = NoJob THEN "create" ELSE "load"
       IN  api' = [api EXCEPT ![h] = Call(step, k, idem[k])]
    /\ UNCHANGED <<redisVars, worker, ghostVars>>

(* Mutant: a failed job is set back to queued for the client that asks.    *)
SubmitReviveFailed(h) ==
    /\ api[h].pc = "load"
    /\ meta[api[h].job].status # "absent"
    /\ meta' = [meta EXCEPT ![api[h].job].status =
                  IF @ = "failed" THEN "queued" ELSE @]
    /\ acked' = acked \cup {api[h].job}
    /\ api' = [api EXCEPT ![h] = NoCall]
    /\ UNCHANGED <<result, idem, queue, dead, older, worker, used, orphans>>

(* The key names a job that is still stored: its status is the answer.     *)
SubmitReplyExisting(h) ==
    /\ api[h].pc = "load"
    /\ meta[api[h].job].status # "absent"
    /\ acked' = acked \cup {api[h].job}
    /\ api' = [api EXCEPT ![h] = NoCall]
    /\ UNCHANGED <<redisVars, worker, used, orphans>>

(* The key outlived its job: a new job is created.                         *)
SubmitStaleKey(h) ==
    /\ api[h].pc = "load"
    /\ meta[api[h].job].status = "absent"
    /\ api' = [api EXCEPT ![h] = Call("create", api[h].key, NoJob)]
    /\ UNCHANGED <<redisVars, worker, ghostVars>>

SubmitCreate(h) ==
    /\ api[h].pc = "create"
    /\ \E j \in Jobs \ used :
         /\ used' = used \cup {j}
         /\ SaveJob(j, Meta("queued", 0, api[h].key), FALSE)
         /\ api' = [api EXCEPT ![h] = Call("register", api[h].key, j)]
    /\ UNCHANGED <<idem, queue, dead, worker, acked, orphans>>

(* Mutant: the key is not registered.                                      *)
SubmitUnregistered(h) ==
    /\ api[h].pc = "register"
    /\ api' = [api EXCEPT ![h].pc = "enqueue"]
    /\ UNCHANGED <<redisVars, worker, ghostVars>>

SubmitRegister(h) ==
    /\ api[h].pc = "register"
    /\ idem' = [idem EXCEPT ![api[h].key] = api[h].job]
    /\ older' = Touch(older, IdemKey(api[h].key), Live)
    /\ api' = [api EXCEPT ![h].pc = "enqueue"]
    /\ UNCHANGED <<meta, result, queue, dead, worker, ghostVars>>

SubmitEnqueue(h) ==
    /\ api[h].pc = "enqueue"
    /\ queue' = Append(queue, api[h].job)
    /\ acked' = acked \cup {api[h].job}
    /\ api' = [api EXCEPT ![h] = NoCall]
    /\ UNCHANGED <<meta, result, idem, dead, older, worker, used, orphans>>

-----------------------------------------------------------------------------
(* The worker loop.                                                        *)

(* Mutant: the message stays in the queue while it is worked on.           *)
WorkerPeek(s) ==
    /\ worker[s].pc = "pull"
    /\ queue # <<>>
    /\ worker' = [worker EXCEPT ![s] = Task("load", Head(queue), 0, NoKey, FALSE)]
    /\ UNCHANGED <<redisVars, api, ghostVars>>

(* BLPOP removes the message: from here on only this task knows of it.     *)
WorkerPull(s) ==
    /\ worker[s].pc = "pull"
    /\ queue # <<>>
    /\ worker' = [worker EXCEPT ![s] = Task("load", Head(queue), 0, NoKey, FALSE)]
    /\ queue' = Tail(queue)
    /\ UNCHANGED <<meta, result, idem, dead, older, api, ghostVars>>

(* _load_job finds nothing: the message is dropped.                        *)
WorkerDrop(s) ==
    /\ worker[s].pc = "load"
    /\ meta[worker[s].job].status = "absent"
    /\ worker' = [worker EXCEPT ![s] = Pulling]
    /\ UNCHANGED <<redisVars, api, ghostVars>>

WorkerLoad(s) ==
    LET j == worker[s].job IN
    /\ worker[s].pc = "load"
    /\ meta[j].status # "absent"
    /\ worker' = [worker EXCEPT ![s] = Task("start", j, meta[j].attempts + 1,
                                            meta[j].payload, j \in result)]
    /\ UNCHANGED <<redisVars, api, ghostVars>>

(* The job dict the worker saves, under a new status.                      *)
LocalMeta(s, st) == Meta(st, worker[s].attempts, worker[s].payload)

(* The same dict with the generated bytes in it, at the given step.        *)
WithBytes(s, step) ==
    Task(step, worker[s].job, worker[s].attempts, worker[s].payload, TRUE)

WorkerStart(s) ==
    /\ worker[s].pc = "start"
    /\ SaveJob(worker[s].job, LocalMeta(s, "processing"), worker[s].bytes)
    /\ worker' = [worker EXCEPT ![s].pc = "run"]
    /\ UNCHANGED <<idem, queue, dead, api, ghostVars>>

(* The document is generated and SET meta publishes "completed" ...        *)
WorkerGenerated(s) ==
    /\ worker[s].pc = "run"
    /\ meta' = [meta EXCEPT ![worker[s].job] = LocalMeta(s, "completed")]
    /\ older' = Touch(older, MetaKey(worker[s].job), Live)
    /\ worker' = [worker EXCEPT ![s] = WithBytes(s, "saveResult")]
    /\ UNCHANGED <<result, idem, queue, dead, api, ghostVars>>

(* Mutant: the document is not stored.                                     *)
WorkerLoseResult(s) ==
    /\ worker[s].pc = "saveResult"
    /\ worker' = [worker EXCEPT ![s] = Pulling]
    /\ UNCHANGED <<redisVars, api, ghostVars>>

(* ... and SET result stores the document.                                 *)
WorkerSaveResult(s) ==
    /\ worker[s].pc = "saveResult"
    /\ result' = result \cup {worker[s].job}
    /\ older' = Touch(older, ResultKey(worker[s].job), Live)
    /\ worker' = [worker EXCEPT ![s] = Pulling]
    /\ UNCHANGED <<meta, idem, queue, dead, api, ghostVars>>

(* The generator raises; the except branch follows.                        *)
WorkerGenerateRaises(s) ==
    /\ worker[s].pc = "run"
    /\ worker' = [worker EXCEPT ![s].pc = "except"]
    /\ UNCHANGED <<redisVars, api, ghostVars>>

(* Mutants: one attempt too many; and a retry queued before it is saved.   *)
WorkerRetryOnceMore(s) ==
    /\ worker[s].pc = "except"
    /\ worker[s].attempts <= MaxRetries
    /\ SaveJob(worker[s].job, LocalMeta(s, "queued"), worker[s].bytes)
    /\ worker' = [worker EXCEPT ![s].pc = "requeue"]
    /\ UNCHANGED <<idem, queue, dead, api, ghostVars>>
WorkerRetryUnsaved(s) ==
    /\ worker[s].pc = "except"
    /\ worker[s].attempts < MaxRetries
    /\ worker' = [worker EXCEPT ![s].pc = "requeue"]
    /\ UNCHANGED <<redisVars, api, ghostVars>>

WorkerRetry(s) ==
    /\ worker[s].pc = "except"
    /\ worker[s].attempts < MaxRetries
    /\ SaveJob(worker[s].job, LocalMeta(s, "queued"), worker[s].bytes)
    /\ worker' = [worker EXCEPT ![s].pc = "requeue"]
    /\ UNCHANGED <<idem, queue, dead, api, ghostVars>>

(* Mutant: the retry is saved, but no message is pushed for it.            *)
WorkerForget(s) ==
    /\ worker[s].pc = "requeue"
    /\ worker' = [worker EXCEPT ![s] = Pulling]
    /\ UNCHANGED <<redisVars, api, ghostVars>>

WorkerRequeue(s) ==
    /\ worker[s].pc = "requeue"
    /\ queue' = Append(queue, worker[s].job)
    /\ worker' = [worker EXCEPT ![s] = Pulling]
    /\ UNCHANGED <<meta, result, idem, dead, older, api, ghostVars>>

(* Mutants: the last attempt is not made; the failure is not listed.       *)
WorkerGiveUpEarly(s) ==
    /\ worker[s].pc = "except"
    /\ worker[s].attempts >= MaxRetries - 1
    /\ SaveJob(worker[s].job, LocalMeta(s, "failed"), worker[s].bytes)
    /\ worker' = [worker EXCEPT ![s].pc = "bury"]
    /\ UNCHANGED <<idem, queue, dead, api, ghostVars>>
WorkerGiveUpSilently(s) ==
    /\ worker[s].pc = "except"
    /\ worker[s].attempts >= MaxRetries
    /\ SaveJob(worker[s].job, LocalMeta(s, "failed"), worker[s].bytes)
    /\ worker' = [worker EXCEPT ![s] = Pulling]
    /\ UNCHANGED <<idem, queue, dead, api, ghostVars>>

WorkerGiveUp(s) ==
    /\ worker[s].pc = "except"
    /\ worker[s].attempts >= MaxRetries
    /\ SaveJob(worker[s].job, LocalMeta(s, "failed"), worker[s].bytes)
    /\ worker' = [worker EXCEPT ![s].pc = "bury"]
    /\ UNCHANGED <<idem, queue, dead, api, ghostVars>>

(* _push_dead_letter: RPUSH, then LTRIM to the last DeadLimit items.       *)
Trim(list) == IF Len(list) > DeadLimit THEN Tail(list) ELSE list

WorkerBury(s) ==
    /\ worker[s].pc = "bury"
    /\ dead' = Trim(Append(dead, worker[s].job))
    /\ worker' = [worker EXCEPT ![s] = Pulling]
    /\ UNCHANGED <<meta, result, idem, queue, older, api, ghostVars>>

-----------------------------------------------------------------------------
(* Faults.                                                                 *)

(* The handler or task that answers for a job: from the save that stores   *)
(* the job to its message, from BLPOP to the end of the loop body.         *)
Submitting(c)     == c.pc \in {"register", "enqueue"}
Holding(w)        == w.pc \notin {"pull", "dead"}
ApiHolds(h, j)    == Submitting(api[h]) /\ api[h].job = j
WorkerHolds(s, j) == Holding(worker[s]) /\ worker[s].job = j

HandlersOf(s)     == {h \in Handlers : h[1] = s}

(* A process dies or is redeployed: its requests and its worker task are   *)
(* gone, and on_startup begins a new worker task.                          *)
Restart(s) ==
    /\ "crash" \in Faults
    /\ api' = [h \in Handlers |-> IF h \in HandlersOf(s) THEN NoCall ELSE api[h]]
    /\ worker' = [worker EXCEPT ![s] = Pulling]
    /\ orphans' = orphans \cup
                  {j \in Jobs : WorkerHolds(s, j) \/ \E h \in HandlersOf(s) : ApiHolds(h, j)}
    /\ UNCHANGED <<redisVars, used, acked>>

(* A Redis command of the submit handler fails: HTTP 500.                  *)
SubmitFails(h) ==
    /\ "redis" \in Faults
    /\ api[h].pc # "idle"
    /\ api' = [api EXCEPT ![h] = NoCall]
    /\ orphans' = orphans \cup {j \in Jobs : ApiHolds(h, j)}
    /\ UNCHANGED <<redisVars, worker, used, acked>>

(* A Redis command of the worker fails outside its try block, or in the    *)
(* except branch: the exception ends the task, and nothing starts another  *)
(* one before the process restarts.                                        *)
WorkerDies(s) ==
    /\ "redis" \in Faults
    /\ worker[s].pc \in {"pull", "load", "start", "requeue", "bury", "except"}
    /\ worker' = [worker EXCEPT ![s] = DeadTask]
    /\ orphans' = orphans \cup {j \in Jobs : WorkerHolds(s, j)}
    /\ UNCHANGED <<redisVars, api, used, acked>>

(* A Redis command of the completing save fails inside the try block: the  *)
(* except branch treats it as a failed generation, although the document   *)
(* exists.  A command may have taken effect before its reply was lost.     *)
CompletingSaveFails(s) ==
    /\ "redis" \in Faults
    /\ \/ /\ worker[s].pc = "run"
          /\ UNCHANGED <<result, older>>
       \/ /\ worker[s].pc = "saveResult"
          /\ \/ UNCHANGED <<result, older>>
             \/ /\ result' = result \cup {worker[s].job}
                /\ older' = Touch(older, ResultKey(worker[s].job), Live)
    /\ worker' = [worker EXCEPT ![s] = WithBytes(s, "except")]
    /\ UNCHANGED <<meta, idem, queue, dead, api, ghostVars>>

(* A key reaches its TTL; no live key was SET before it.                   *)
Expire(x) ==
    /\ "expire" \in Faults
    /\ x \in Live
    /\ \A y \in Live : <<y, x>> \notin older
    /\ meta' = [j \in Jobs |-> IF x = MetaKey(j) THEN NoMeta ELSE meta[j]]
    /\ result' = {j \in result : x # ResultKey(j)}
    /\ idem' = [k \in Keys |-> IF x = IdemKey(k) THEN NoJob ELSE idem[k]]
    /\ older' = Forget(older, x)
    /\ UNCHANGED <<queue, dead, api, worker, ghostVars>>

-----------------------------------------------------------------------------
Init ==
    /\ meta = [j \in Jobs |-> NoMeta]
    /\ result = {}
    /\ idem = [k \in Keys |-> NoJob]
    /\ queue = <<>>
    /\ dead = <<>>
    /\ older = {}
    /\ api = [h \in Handlers |-> NoCall]
    /\ worker = [s \in Services |-> Pulling]
    /\ used = {} /\ acked = {} /\ orphans = {}

SubmitStep(h) ==
    \/ SubmitReplyExisting(h) \/ SubmitStaleKey(h)
    \/ SubmitCreate(h) \/ SubmitRegister(h) \/ SubmitEnqueue(h)

WorkerStep(s) ==
    \/ WorkerPull(s) \/ WorkerDrop(s) \/ WorkerLoad(s) \/ WorkerStart(s)
    \/ WorkerGenerated(s) \/ WorkerSaveResult(s) \/ WorkerGenerateRaises(s)
    \/ WorkerRetry(s) \/ WorkerRequeue(s) \/ WorkerGiveUp(s) \/ WorkerBury(s)

FaultStep(s) == Restart(s) \/ WorkerDies(s) \/ CompletingSaveFails(s)

Next ==
    \/ \E h \in Handlers :
         \/ \E k \in Keys : SubmitResolve(h, k)
         \/ SubmitStep(h) \/ SubmitFails(h)
    \/ \E s \in Services : WorkerStep(s) \/ FaultStep(s)
    \/ \E x \in RedisKeys : Expire(x)

Spec == Init /\ [][Next]_vars

(* The event loop of every service goes on with what it has begun; nothing *)
(* obliges clients to submit.                                              *)
Fairness ==
    /\ \A h \in Handlers : WF_vars(SubmitStep(h))
    /\ \A s \in Services : WF_vars(WorkerStep(s))
FairSpec == Spec /\ Fairness

-----------------------------------------------------------------------------
(* Properties.                                                             *)

Queued(j) == \E i \in 1 .. Len(queue) : queue[i] = j
Carried(j) ==
    \/ Queued(j)
    \/ \E h \in Handlers : ApiHolds(h, j)
    \/ \E s \in Services : WorkerHolds(s, j)

(* At any time at most one message, worker or submit handler is            *)
(* responsible for a job.  It is what makes the unlocked read-modify-write *)
(* of the job's meta key in _docx_worker safe with several workers, across *)
(* retries, restarts and Redis failures (main.py:428-482).                 *)
SingleCarrier ==
    /\ \A i, k \in 1 .. Len(queue) : queue[i] = queue[k] => i = k
    /\ \A j \in Jobs, s \in Services :
         WorkerHolds(s, j) => /\ ~Queued(j) /\ \A h \in Handlers : ~ApiHolds(h, j)
                              /\ \A t \in Services : WorkerHolds(t, j) => s = t
    /\ \A j \in Jobs, h \in Handlers :
         ApiHolds(h, j) => ~Queued(j) /\ \A i \in Handlers : ApiHolds(i, j) => h = i

(* What Redis says of a job agrees with whoever is responsible for it: a   *)
(* message, or a worker about to load one, stands for a stored "queued"    *)
(* job with attempts left (or one the TTL removed), a worker past its      *)
(* first save for the status it saved last.  It is why a job is never      *)
(* generated more than MaxRetries times (main.py:441-480).                 *)
StoredAs(m, statuses) == m.status \in statuses \cup {"absent"}
Waiting(m) == StoredAs(m, {"queued"}) /\ m.attempts < MaxRetries

TaskAgrees(w, m) ==
    /\ w.pc \in {"load", "requeue"} => Waiting(m)
    /\ w.pc = "start"      => StoredAs(m, {"queued"})
    /\ w.pc = "run"        => StoredAs(m, {"processing"})
    /\ w.pc = "saveResult" => StoredAs(m, {"completed"})
    /\ w.pc = "except"     => StoredAs(m, {"processing", "completed"})
    /\ w.pc = "bury"       => StoredAs(m, {"failed"})

CarrierStatus ==
    /\ \A i \in 1 .. Len(queue) : Waiting(meta[queue[i]])
    /\ \A h \in Handlers : Submitting(api[h]) => Waiting(meta[api[h].job])
    /\ \A s \in Services :
         Holding(worker[s]) => TaskAgrees(worker[s], meta[worker[s].job])

(* A stored job that is neither completed nor failed is on its way: in the *)
(* queue, or in the hands of a worker or of its submit handler, unless the *)
(* handler or worker responsible for it died (no ack, no visibility        *)
(* timeout: main.py:370-377).                                              *)
StuckOnlyIfOrphaned ==
    \A j \in Jobs :
      meta[j].status \in {"queued", "processing"} => Carried(j) \/ j \in orphans

(* A job that reads "completed" has its document stored, or its worker is  *)
(* still storing it, or died doing so; the TTL never removes the document  *)
(* of a job that still reads "completed" (main.py:316-325, 456-460).       *)
CompletedDownloadable ==
    \A j \in Jobs :
      meta[j].status = "completed" =>
        \/ j \in result
        \/ j \in orphans
        \/ \E s \in Services : worker[s].job = j
                               /\ worker[s].pc \in {"saveResult", "except"}

(* The dead-letter list and the failed jobs agree: it lists a job once,    *)
(* only after the job failed for good, and it lists every failed job that  *)
(* is not being pushed, orphaned, or trimmed away (main.py:412-426,        *)
(* 476-479).                                                               *)
DeadLetterAgrees ==
    /\ \A i \in 1 .. Len(dead) : meta[dead[i]].status \in {"failed", "absent"}
    /\ \A i, k \in 1 .. Len(dead) : dead[i] = dead[k] => i = k
    /\ \A j \in Jobs :
         meta[j].status = "failed" =>
           \/ \E i \in 1 .. Len(dead) : dead[i] = j
           \/ j \in orphans
           \/ Len(dead) = DeadLimit
           \/ \E s \in Services : worker[s].job = j /\ worker[s].pc = "bury"

(* A final status is final: it only ever gives way to the TTL.  The one    *)
(* exception is "completed" when the rest of the completing save fails in  *)
(* Redis, which the except branch answers with a retry (main.py:447-480).  *)
FinalStep ==
    \A j \in Jobs :
      meta[j].status \in {"completed", "failed"} =>
        \/ meta'[j] = meta[j]
        \/ meta'[j].status = "absent"
        \/ /\ meta[j].status = "completed"
           /\ \E s \in Services : worker[s].job = j /\ worker[s].pc = "except"
FinalStatusIsFinal == [][FinalStep]_vars

(* Without expiry and crashes, a burst of requests with one key creates at *)
(* most one job for each request that was open at the same time, in one    *)
(* process or in several: a request that starts after another has          *)
(* registered the key reuses its job (main.py:486-490, 505-508).           *)
OneJobPerOpenRequest ==
    \A k \in Keys :
      Cardinality({j \in Jobs : meta[j].payload = k}) <= Cardinality(Handlers)

(* With services that stay up, every job whose id a client was given       *)
(* reaches a final status.                                                 *)
AckedJobsSettle ==
    \A j \in Jobs :
      j \in acked ~> meta[j].status \in {"completed", "failed"}

(* The pipeline implements the lifecycle its clients see.                  *)
Lifecycle == INSTANCE DocxJob WITH
    status   <- [j \in Jobs |-> meta[j].status],
    attempts <- [j \in Jobs |-> meta[j].attempts]
ImplementsLifecycle == Lifecycle!FairJobSpec

(* README.md:27 lists "retry" among the features of the job pipeline, and  *)
(* the failure toast of docx-download.ts:38-48 offers it by submitting the *)
(* same export again: a repeated submit is not answered with the failure   *)
(* it is meant to retry.                                                   *)
RetryIsNotAnsweredWithFailure ==
    [][\A h \in Handlers :
         SubmitReplyExisting(h) => meta[api[h].job].status # "failed"]_vars

=============================================================================
