--------------------------- MODULE DocxQueueProofs ---------------------------
(***************************************************************************)
(* Proofs about the DOCX job pipeline for any number of jobs, keys,        *)
(* processes and open requests, any retry limit and all faults: first who  *)
(* answers for a job; then what becomes of it.  None gets lost or stays    *)
(* undownloadable but by the death of whoever answered for it, the dead-   *)
(* letter list agrees with the failures, and without faults of Redis every *)
(* job lives the life of DocxJob.                                          *)
(***************************************************************************)
EXTENDS DocxQueue, FiniteSetTheorems, TLAPS

(* Who may be responsible for a job at all: an id that was generated, and  *)
(* a well-formed local state behind it.                                    *)
Responsible ==
    /\ \A i \in 1 .. Len(queue) : queue[i] \in used
    /\ \A h \in Handlers :
         /\ api[h].pc = "load" => api[h].job \in Jobs
         /\ api[h].pc # "idle" => api[h].key \in Keys
         /\ Submitting(api[h]) => api[h].job \in used
    /\ \A s \in Services : Holding(worker[s]) => worker[s].job \in used
    /\ \A j \in Jobs \ used : meta[j] = NoMeta

(* The inductive invariant.  TypeOK alone is not inductive: the attempt a  *)
(* worker is about to count stays within MaxRetries only because the       *)
(* message it pulled stands for a job with attempts left (CarrierStatus),  *)
(* and that stays so only because nobody else writes the job meanwhile     *)
(* (SingleCarrier).                                                        *)
IndInv == TypeOK /\ SingleCarrier /\ CarrierStatus /\ Responsible

-----------------------------------------------------------------------------
(* Facts about the queue.                                                  *)

(* Appending a job that is not in the queue keeps its entries distinct.    *)
LEMMA AppendDistinct ==
    ASSUME NEW q \in Seq(Jobs), NEW j \in Jobs,
           \A i, k \in 1 .. Len(q) : q[i] = q[k] => i = k,
           \A i \in 1 .. Len(q) : q[i] # j
    PROVE  /\ Append(q, j) \in Seq(Jobs)
           /\ \A i, k \in 1 .. Len(Append(q, j)) :
                 Append(q, j)[i] = Append(q, j)[k] => i = k
           /\ \A i \in 1 .. Len(Append(q, j)) :
                 \/ Append(q, j)[i] = j
                 \/ \E k \in 1 .. Len(q) : Append(q, j)[i] = q[k]
  OBVIOUS

(* What is left after taking the head of a queue of distinct jobs is       *)
(* distinct, was there before, and is not the head.                        *)
LEMMA TailDistinct ==
    ASSUME NEW q \in Seq(Jobs), q # <<>>,
           \A i, k \in 1 .. Len(q) : q[i] = q[k] => i = k
    PROVE  /\ Tail(q) \in Seq(Jobs)
           /\ Head(q) \in Jobs
           /\ \E i \in 1 .. Len(q) : q[i] = Head(q)
           /\ \A i, k \in 1 .. Len(Tail(q)) : Tail(q)[i] = Tail(q)[k] => i = k
           /\ \A i \in 1 .. Len(Tail(q)) :
                 Tail(q)[i] # Head(q) /\ \E k \in 1 .. Len(q) : Tail(q)[i] = q[k]
  <1>1. Len(q) \in Nat \ {0} /\ Len(Tail(q)) = Len(q) - 1 /\ Head(q) = q[1]
    OBVIOUS
  <1>2. \A i \in 1 .. Len(Tail(q)) : Tail(q)[i] = q[i + 1]
    OBVIOUS
  <1>3. \A i \in 1 .. Len(Tail(q)) : i + 1 \in 1 .. Len(q) /\ i + 1 # 1
    BY <1>1
  <1>4. QED
    BY <1>1, <1>2, <1>3

-----------------------------------------------------------------------------
(* Types of what the Redis commands write.                                 *)

LEMMA LiveKeys == TypeOK => Live \subseteq RedisKeys
  BY DEF TypeOK, Live, RedisKeys

LEMMA TouchType ==
    ASSUME NEW rel \in SUBSET (RedisKeys \X RedisKeys), NEW x \in RedisKeys,
           NEW on \in SUBSET RedisKeys
    PROVE  /\ Touch(rel, x, on) \in SUBSET (RedisKeys \X RedisKeys)
           /\ Forget(rel, x) \in SUBSET (RedisKeys \X RedisKeys)
  BY DEF Touch, Forget

LEMMA SaveJobType ==
    ASSUME TypeOK, NEW j \in Jobs, NEW m \in JobMeta, NEW b \in BOOLEAN,
           SaveJob(j, m, b)
    PROVE  /\ meta' \in [Jobs -> JobMeta]
           /\ meta' = [meta EXCEPT ![j] = m]
           /\ result' \subseteq Jobs
           /\ older' \subseteq RedisKeys \X RedisKeys
  <1>1. MetaKey(j) \in RedisKeys /\ ResultKey(j) \in RedisKeys
    BY DEF RedisKeys
  <1>2. older \in SUBSET (RedisKeys \X RedisKeys) /\ Live \in SUBSET RedisKeys
    BY LiveKeys DEF TypeOK
  <1>3. Live \cup {MetaKey(j)} \in SUBSET RedisKeys
    BY <1>1, <1>2
  <1>4. Touch(older, MetaKey(j), Live) \in SUBSET (RedisKeys \X RedisKeys)
    BY <1>1, <1>2, TouchType
  <1>5. older' \subseteq RedisKeys \X RedisKeys
    BY <1>1, <1>3, <1>4, TouchType DEF SaveJob
  <1>6. QED
    BY <1>5 DEF SaveJob, TypeOK

(* A worker past BLPOP works on a job that exists, and whatever status it  *)
(* saves is well formed.                                                   *)
LEMMA HolderHasJob ==
    ASSUME IndInv, NEW s \in Services, Holding(worker[s])
    PROVE  /\ worker[s].job \in used
           /\ worker[s].job \in Jobs
           /\ \A st \in Statuses : LocalMeta(s, st) \in JobMeta
  BY DEF IndInv, TypeOK, Responsible, LocalMeta, Meta, JobMeta, WorkerTask

(* A worker that writes the job it holds disturbs nobody: whoever else     *)
(* answers for a job answers for another one.                              *)
LEMMA HolderWrites ==
    ASSUME IndInv, NEW s \in Services, Holding(worker[s]),
           NEW m \in JobMeta, NEW w \in WorkerTask,
           meta' = [meta EXCEPT ![worker[s].job] = m],
           worker' = [worker EXCEPT ![s] = w],
           UNCHANGED <<queue, api, used>>,
           Holding(w), w.job = worker[s].job, TaskAgrees(w, m)
    PROVE  SingleCarrier' /\ CarrierStatus' /\ Responsible'
  <1>1. worker[s].job \in Jobs /\ worker[s].job \in used
    BY HolderHasJob
  <1>2. meta'[worker[s].job] = m /\ \A j \in Jobs : j # worker[s].job => meta'[j] = meta[j]
    BY <1>1 DEF IndInv, TypeOK
  <1>3. worker'[s] = w /\ \A t \in Services : t # s => worker'[t] = worker[t]
    BY DEF IndInv, TypeOK
  <1>4. SingleCarrier'
    <2>1. \A j \in Jobs :
            /\ \A t \in Services : WorkerHolds(t, j)' <=> WorkerHolds(t, j)
            /\ \A g \in Handlers : ApiHolds(g, j)' <=> ApiHolds(g, j)
            /\ Queued(j)' <=> Queued(j)
      BY <1>3 DEF WorkerHolds, ApiHolds, Queued
    <2>2. QED
      BY <2>1 DEF IndInv, SingleCarrier
  <1>5. CarrierStatus'
    <2>1. ASSUME NEW i \in 1 .. Len(queue)
          PROVE  meta'[queue[i]] = meta[queue[i]]
      <3>1. queue[i] \in Jobs /\ queue[i] # worker[s].job
        BY DEF IndInv, TypeOK, SingleCarrier, WorkerHolds, Queued
      <3>2. QED
        BY <1>2, <3>1
    <2>2. ASSUME NEW h \in Handlers, Submitting(api[h])
          PROVE  meta'[api[h].job] = meta[api[h].job]
      <3>1. api[h].job \in Jobs /\ api[h].job # worker[s].job
        BY <2>2 DEF IndInv, TypeOK, Responsible, SingleCarrier, WorkerHolds,
           ApiHolds
      <3>2. QED
        BY <1>2, <3>1
    <2>3. ASSUME NEW t \in Services, t # s, Holding(worker[t])
          PROVE  meta'[worker[t].job] = meta[worker[t].job]
      <3>1. worker[t].job \in Jobs /\ worker[t].job # worker[s].job
        BY <2>3, HolderHasJob DEF IndInv, SingleCarrier, WorkerHolds
      <3>2. QED
        BY <1>2, <3>1
    <2>4. QED
      BY <1>2, <1>3, <2>1, <2>2, <2>3 DEF IndInv, CarrierStatus
  <1>6. Responsible'
    BY DEF IndInv, Responsible
  <1>7. QED
    BY <1>4, <1>5, <1>6

LEMMA PullTakesHead ==
    ASSUME IndInv, NEW s \in Services, WorkerPull(s)
    PROVE  /\ Head(queue) \in Jobs /\ Queued(Head(queue))
           /\ queue' \in Seq(Jobs)
           /\ \A i, k \in 1 .. Len(queue') : queue'[i] = queue'[k] => i = k
           /\ \A i \in 1 .. Len(queue') :
                 /\ queue'[i] # Head(queue)
                 /\ \E k \in 1 .. Len(queue) : queue'[i] = queue[k]
  <1>1. /\ queue \in Seq(Jobs) /\ queue # <<>> /\ queue' = Tail(queue)
        /\ \A i, k \in 1 .. Len(queue) : queue[i] = queue[k] => i = k
    BY DEF IndInv, WorkerPull, SingleCarrier, TypeOK
  <1>2. Queued(Head(queue))
    BY <1>1, TailDistinct DEF Queued
  <1>3. QED
    BY <1>1, <1>2, TailDistinct

-----------------------------------------------------------------------------
(* Every action keeps the inductive invariant.                             *)

LEMMA SubmitResolveKeeps ==
    ASSUME IndInv, NEW h \in Handlers, NEW k \in Keys, SubmitResolve(h, k)
    PROVE  IndInv'
  <1> USE DEF IndInv
  <1>1. TypeOK'
    BY DEF SubmitResolve, redisVars, ghostVars, TypeOK, Call, ApiCall,
       ApiSteps
  <1>2. SingleCarrier'
    <2>1. \A j \in Jobs :
            /\ \A t \in Services : WorkerHolds(t, j)' <=> WorkerHolds(t, j)
            /\ \A g \in Handlers : ApiHolds(g, j)' <=> ApiHolds(g, j)
            /\ Queued(j)' <=> Queued(j)
      BY DEF SubmitResolve, redisVars, WorkerHolds, ApiHolds, Queued,
         Submitting, Call
    <2>2. UNCHANGED queue
      BY DEF SubmitResolve, redisVars
    <2>3. QED
      BY <2>1, <2>2 DEF SingleCarrier
  <1>3. CarrierStatus'
    BY DEF SubmitResolve, redisVars, CarrierStatus, WorkerHolds, Submitting,
       Call
  <1>4. Responsible'
    BY DEF SubmitResolve, redisVars, ghostVars, Responsible, Submitting,
       TypeOK, Call
  <1>5. QED
    BY <1>1, <1>2, <1>3, <1>4

LEMMA SubmitReplyExistingKeeps ==
    ASSUME IndInv, NEW h \in Handlers, SubmitReplyExisting(h)
    PROVE  IndInv'
  <1> USE DEF IndInv
  <1>1. TypeOK'
    BY DEF SubmitReplyExisting, redisVars, TypeOK, Responsible, Call, NoCall,
       ApiCall, ApiSteps
  <1>2. SingleCarrier'
    BY DEF SubmitReplyExisting, redisVars, SingleCarrier, Queued, ApiHolds,
       WorkerHolds, Submitting, Call, NoCall
  <1>3. CarrierStatus'
    BY DEF SubmitReplyExisting, redisVars, CarrierStatus, Submitting, Call,
       NoCall
  <1>4. Responsible'
    BY DEF SubmitReplyExisting, redisVars, Responsible, Submitting, Call,
       NoCall
  <1>5. QED
    BY <1>1, <1>2, <1>3, <1>4

LEMMA SubmitStaleKeyKeeps ==
    ASSUME IndInv, NEW h \in Handlers, SubmitStaleKey(h)
    PROVE  IndInv'
  <1> USE DEF IndInv
  <1>1. TypeOK'
    BY DEF SubmitStaleKey, redisVars, ghostVars, TypeOK, Call, ApiCall,
       ApiSteps
  <1>2. SingleCarrier'
    BY DEF SubmitStaleKey, redisVars, SingleCarrier, Queued, ApiHolds,
       WorkerHolds, Submitting, Call
  <1>3. CarrierStatus'
    BY DEF SubmitStaleKey, redisVars, CarrierStatus, Submitting, Call
  <1>4. Responsible'
    BY DEF SubmitStaleKey, redisVars, ghostVars, Responsible, Submitting,
       Call
  <1>5. QED
    BY <1>1, <1>2, <1>3, <1>4

LEMMA SubmitCreateKeeps ==
    ASSUME IndInv, NEW h \in Handlers, SubmitCreate(h)
    PROVE  IndInv'
  <1> USE DEF IndInv
  <1>1. PICK j \in Jobs \ used :
          /\ used' = used \cup {j}
          /\ SaveJob(j, Meta("queued", 0, api[h].key), FALSE)
          /\ api' = [api EXCEPT ![h] = Call("register", api[h].key, j)]
    BY DEF SubmitCreate
  <1>2. UNCHANGED <<queue, worker>>
    BY DEF SubmitCreate
  <1> DEFINE m == Meta("queued", 0, api[h].key)
  <1>3. m \in JobMeta /\ Waiting(m)
    BY DocxAssumption DEF Meta, JobMeta, Statuses, Waiting, StoredAs, TypeOK,
       ApiCall
  <1>4. /\ meta' \in [Jobs -> JobMeta]
        /\ meta' = [meta EXCEPT ![j] = m]
        /\ result' \subseteq Jobs
        /\ older' \subseteq RedisKeys \X RedisKeys
    BY <1>1, <1>3, SaveJobType
  <1> HIDE DEF m
  <1>5. /\ meta'[j] = m
        /\ \A i \in Jobs : i # j => meta'[i] = meta[i]
        /\ api'[h] = Call("register", api[h].key, j)
        /\ \A g \in Handlers : g # h => api'[g] = api[g]
    BY <1>1, <1>4 DEF TypeOK
  <1>6. TypeOK'
    <2>1. api' \in [Handlers -> ApiCall]
      BY <1>1 DEF Call, ApiCall, ApiSteps, TypeOK
    <2>2. QED
      BY <1>4, <2>1 DEF SubmitCreate, TypeOK
  <1>7. SingleCarrier'
    <2>1. /\ ~Queued(j)
          /\ \A t \in Services : ~WorkerHolds(t, j)
          /\ \A g \in Handlers : ~ApiHolds(g, j)
      BY DEF WorkerHolds, ApiHolds, Queued, Responsible
    <2>2. \A i \in Jobs :
            /\ \A t \in Services : WorkerHolds(t, i)' <=> WorkerHolds(t, i)
            /\ \A g \in Handlers : ApiHolds(g, i)' => (IF g = h THEN i = j ELSE ApiHolds(g, i))
            /\ Queued(i)' <=> Queued(i)
      BY <1>2, <1>5 DEF Call, WorkerHolds, ApiHolds, Queued
    <2>3. QED
      BY <1>2, <2>1, <2>2 DEF SingleCarrier
  <1>8. CarrierStatus'
    <2>1. \A i \in used : meta'[i] = meta[i]
      BY <1>1, <1>5 DEF TypeOK
    <2>2. \A i \in 1 .. Len(queue') : Waiting(meta'[queue'[i]])
      BY <1>2, <2>1 DEF CarrierStatus, Responsible
    <2>3. ASSUME NEW g \in Handlers, Submitting(api'[g])
          PROVE  Waiting(meta'[api'[g].job])
      <3>1. CASE g = h
        BY <1>3, <1>5, <3>1 DEF Call
      <3>2. CASE g # h
        BY <1>5, <2>1, <2>3, <3>2 DEF CarrierStatus, Responsible
      <3>3. QED
        BY <3>1, <3>2
    <2>4. ASSUME NEW t \in Services, Holding(worker'[t])
          PROVE  TaskAgrees(worker'[t], meta'[worker'[t].job])
      <3>1. worker'[t] = worker[t] /\ worker[t].job \in used
        BY <1>2, <2>4 DEF Responsible
      <3>2. QED
        BY <2>1, <2>4, <3>1 DEF CarrierStatus
    <2>5. QED
      BY <2>2, <2>3, <2>4 DEF CarrierStatus
  <1>9. Responsible'
    <2>1. \A i \in Jobs \ used' : meta'[i] = NoMeta
      BY <1>1, <1>5 DEF Responsible
    <2>2. QED
      BY <2>1 DEF SubmitCreate, Responsible, Call
  <1>10. QED
    BY <1>6, <1>7, <1>8, <1>9

LEMMA SubmitRegisterKeeps ==
    ASSUME IndInv, NEW h \in Handlers, SubmitRegister(h)
    PROVE  IndInv'
  <1> USE DEF IndInv
  <1>1. TypeOK'
    <2>1. api[h].key \in Keys /\ api[h].job \in Jobs
      BY DEF SubmitRegister, Responsible, Submitting, TypeOK
    <2>2. older' \subseteq RedisKeys \X RedisKeys
      BY <2>1, LiveKeys, TouchType DEF SubmitRegister, TypeOK, RedisKeys
    <2>3. QED
      BY <2>1, <2>2 DEF SubmitRegister, ghostVars, TypeOK, ApiCall, ApiSteps
  <1>2. SingleCarrier'
    BY DEF SubmitRegister, SingleCarrier, Queued, ApiHolds, WorkerHolds,
       Submitting
  <1>3. CarrierStatus'
    BY DEF SubmitRegister, CarrierStatus, Submitting
  <1>4. Responsible'
    BY DEF SubmitRegister, redisVars, ghostVars, Responsible, Submitting
  <1>5. QED
    BY <1>1, <1>2, <1>3, <1>4

LEMMA SubmitEnqueueKeeps ==
    ASSUME IndInv, NEW h \in Handlers, SubmitEnqueue(h)
    PROVE  IndInv'
  <1> USE DEF IndInv
  <1>1. TypeOK'
    <2>1. api[h].job \in Jobs /\ queue \in Seq(Jobs)
      BY DEF SubmitEnqueue, Responsible, Submitting, TypeOK
    <2>2. queue' \in Seq(Jobs)
      BY <2>1 DEF SubmitEnqueue
    <2>3. NoCall \in ApiCall
      BY DEF NoCall, Call, ApiCall, ApiSteps
    <2>4. QED
      BY <2>2, <2>3 DEF SubmitEnqueue, TypeOK
  <1>2. SingleCarrier'
    <2>1. api[h].job \in Jobs /\ ApiHolds(h, api[h].job)
      BY DEF SubmitEnqueue, Responsible, ApiHolds, Submitting, TypeOK
    <2>2. /\ queue \in Seq(Jobs)
          /\ \A i, k \in 1 .. Len(queue) : queue[i] = queue[k] => i = k
          /\ \A i \in 1 .. Len(queue) : queue[i] # api[h].job
          /\ queue' = Append(queue, api[h].job)
      BY <2>1 DEF SubmitEnqueue, SingleCarrier, Queued, TypeOK
    <2>3. /\ \A i, k \in 1 .. Len(queue') : queue'[i] = queue'[k] => i = k
          /\ \A i \in 1 .. Len(queue') :
               queue'[i] = api[h].job \/ \E k \in 1 .. Len(queue) : queue'[i] = queue[k]
      BY <2>1, <2>2, AppendDistinct
    <2>4. \A i \in Jobs : Queued(i)' => Queued(i) \/ i = api[h].job
      BY <2>3 DEF Queued
    <2>5. \A i \in Jobs :
            /\ \A t \in Services : WorkerHolds(t, i)' <=> WorkerHolds(t, i)
            /\ \A g \in Handlers : ApiHolds(g, i)' <=> g # h /\ ApiHolds(g, i)
      BY DEF SubmitEnqueue, WorkerHolds, ApiHolds, Submitting, NoCall, Call,
         TypeOK
    <2>6. QED
      BY <2>1, <2>3, <2>4, <2>5 DEF SingleCarrier
  <1>3. CarrierStatus'
    <2>1. \A i \in 1 .. Len(queue') : queue'[i] = api[h].job \/ \E k \in 1 .. Len(queue) : queue'[i] = queue[k]
      BY DEF SubmitEnqueue, Responsible, Submitting, TypeOK
    <2>2. Waiting(meta[api[h].job])
      BY DEF SubmitEnqueue, CarrierStatus, Submitting
    <2>3. \A g \in Handlers : g # h => api'[g] = api[g]
      BY DEF SubmitEnqueue, TypeOK
    <2>4. ~Submitting(api'[h])
      BY DEF SubmitEnqueue, Submitting, NoCall, Call, TypeOK
    <2>5. UNCHANGED <<meta, worker>>
      BY DEF SubmitEnqueue
    <2>6. QED
      BY <2>1, <2>2, <2>3, <2>4, <2>5 DEF CarrierStatus
  <1>4. Responsible'
    BY DEF SubmitEnqueue, Responsible, Submitting, Call, NoCall
  <1>5. QED
    BY <1>1, <1>2, <1>3, <1>4

LEMMA WorkerPullKeeps ==
    ASSUME IndInv, NEW s \in Services, WorkerPull(s)
    PROVE  IndInv'
  <1> USE DEF IndInv
  <1> DEFINE j == Head(queue)
  <1>1. /\ j \in Jobs /\ Queued(j)
        /\ queue' \in Seq(Jobs)
        /\ \A i, k \in 1 .. Len(queue') : queue'[i] = queue'[k] => i = k
        /\ \A i \in 1 .. Len(queue') :
              queue'[i] # j /\ \E k \in 1 .. Len(queue) : queue'[i] = queue[k]
    BY PullTakesHead
  <1>2. worker' = [worker EXCEPT ![s] = Task("load", j, 0, NoKey, FALSE)]
    BY DEF WorkerPull
  <1>3. UNCHANGED <<meta, result, idem, dead, older, api, used, acked, orphans>>
    BY DEF WorkerPull, ghostVars
  <1> HIDE DEF j
  <1>4. /\ worker'[s] = Task("load", j, 0, NoKey, FALSE)
        /\ \A t \in Services : t # s => worker'[t] = worker[t]
    BY <1>2 DEF TypeOK
  <1>5. TypeOK'
    <2>1. Task("load", j, 0, NoKey, FALSE) \in WorkerTask
      BY <1>1, DocxAssumption DEF Task, WorkerTask, WorkerSteps
    <2>2. QED
      BY <1>1, <1>2, <1>3, <2>1 DEF TypeOK
  <1>6. SingleCarrier'
    <2>1. \A i \in Jobs : Queued(i)' => Queued(i) /\ i # j
      BY <1>1 DEF Queued
    <2>2. \A i \in Jobs :
            /\ \A t \in Services : WorkerHolds(t, i)' => (IF t = s THEN i = j ELSE WorkerHolds(t, i))
            /\ \A g \in Handlers : ApiHolds(g, i)' <=> ApiHolds(g, i)
      BY <1>3, <1>4 DEF WorkerHolds, ApiHolds, Task
    <2>3. QED
      BY <1>1, <2>1, <2>2 DEF SingleCarrier
  <1>7. CarrierStatus'
    <2>1. Waiting(meta[j])
      BY <1>1 DEF Queued, CarrierStatus
    <2>2. \A i \in 1 .. Len(queue') : Waiting(meta[queue'[i]])
      BY <1>1 DEF CarrierStatus
    <2>3. TaskAgrees(worker'[s], meta[worker'[s].job])
      BY <1>4, <2>1 DEF TaskAgrees, Task
    <2>4. QED
      BY <1>3, <1>4, <2>2, <2>3 DEF CarrierStatus
  <1>8. Responsible'
    <2>1. j \in used /\ \A i \in 1 .. Len(queue') : queue'[i] \in used
      BY <1>1 DEF Queued, Responsible
    <2>2. QED
      BY <1>3, <1>4, <2>1 DEF Responsible, Task
  <1>9. QED
    BY <1>5, <1>6, <1>7, <1>8

LEMMA WorkerDropKeeps ==
    ASSUME IndInv, NEW s \in Services, WorkerDrop(s)
    PROVE  IndInv'
  <1> USE DEF IndInv
  <1>1. TypeOK'
    BY DocxAssumption DEF WorkerDrop, redisVars, ghostVars, TypeOK, Task,
       Pulling, WorkerTask, WorkerSteps
  <1>2. SingleCarrier'
    BY DEF WorkerDrop, redisVars, SingleCarrier, Queued, ApiHolds,
       WorkerHolds, Holding, Task, Pulling
  <1>3. CarrierStatus'
    BY DEF WorkerDrop, redisVars, CarrierStatus, TaskAgrees, Task, Pulling
  <1>4. Responsible'
    BY DEF WorkerDrop, redisVars, ghostVars, Responsible, Holding, Task,
       Pulling
  <1>5. QED
    BY <1>1, <1>2, <1>3, <1>4

LEMMA WorkerLoadKeeps ==
    ASSUME IndInv, NEW s \in Services, WorkerLoad(s)
    PROVE  IndInv'
  <1> USE DEF IndInv
  <1>1. TypeOK'
    <2>1. worker[s].job \in Jobs /\ meta[worker[s].job].attempts < MaxRetries
      BY HolderHasJob DEF WorkerLoad, Holding, CarrierStatus, TaskAgrees,
         Waiting
    <2>2. /\ meta[worker[s].job].attempts + 1 \in 0 .. MaxRetries
          /\ meta[worker[s].job].payload \in Keys \cup {NoKey}
      BY <2>1, DocxAssumption DEF TypeOK, JobMeta
    <2>3. worker' \in [Services -> WorkerTask]
      BY <2>2 DEF WorkerLoad, TypeOK, Task, WorkerTask, WorkerSteps
    <2>4. QED
      BY <2>3 DEF WorkerLoad, redisVars, ghostVars, TypeOK
  <1>2. SingleCarrier'
    <2>1. \A j \in Jobs :
            /\ \A t \in Services : WorkerHolds(t, j)' <=> WorkerHolds(t, j)
            /\ \A g \in Handlers : ApiHolds(g, j)' <=> ApiHolds(g, j)
            /\ Queued(j)' <=> Queued(j)
      BY DEF WorkerLoad, redisVars, WorkerHolds, ApiHolds, Queued, Holding,
         Task
    <2>2. UNCHANGED queue
      BY DEF WorkerLoad, redisVars
    <2>3. QED
      BY <2>1, <2>2 DEF SingleCarrier
  <1>3. CarrierStatus'
    <2>1. TaskAgrees(worker'[s], meta[worker'[s].job])
      BY DEF WorkerLoad, CarrierStatus, TaskAgrees, Waiting, Holding, Task
    <2>2. QED
      BY <2>1 DEF WorkerLoad, redisVars, CarrierStatus, TypeOK
  <1>4. Responsible'
    BY DEF WorkerLoad, redisVars, ghostVars, Responsible, Holding, Task
  <1>5. QED
    BY <1>1, <1>2, <1>3, <1>4

LEMMA WorkerStartKeeps ==
    ASSUME IndInv, NEW s \in Services, WorkerStart(s)
    PROVE  IndInv'
  <1> USE DEF IndInv
  <1> DEFINE m == LocalMeta(s, "processing")
             w == [worker[s] EXCEPT !.pc = "run"]
  <1>1. /\ Holding(worker[s])
        /\ worker[s].job \in Jobs
        /\ m \in JobMeta
        /\ worker[s].bytes \in BOOLEAN
    BY HolderHasJob DEF WorkerStart, Holding, Statuses, TypeOK, WorkerTask
  <1>2. /\ meta' \in [Jobs -> JobMeta]
        /\ meta' = [meta EXCEPT ![worker[s].job] = m]
        /\ result' \subseteq Jobs
        /\ older' \subseteq RedisKeys \X RedisKeys
    BY <1>1, SaveJobType DEF WorkerStart
  <1>3. /\ w \in WorkerTask
        /\ Holding(w)
        /\ w.job = worker[s].job
        /\ TaskAgrees(w, m)
    BY DEF LocalMeta, Meta, Holding, TaskAgrees, StoredAs, TypeOK,
       WorkerTask, WorkerSteps
  <1>4. worker' = [worker EXCEPT ![s] = w] /\ UNCHANGED <<idem, queue, dead, api, used, acked, orphans>>
    BY DEF WorkerStart, ghostVars
  <1> HIDE DEF m, w
  <1>5. SingleCarrier' /\ CarrierStatus' /\ Responsible'
    BY <1>1, <1>2, <1>3, <1>4, HolderWrites
  <1>6. TypeOK'
    BY <1>2, <1>3, <1>4 DEF TypeOK
  <1>7. QED
    BY <1>5, <1>6

LEMMA WorkerGeneratedKeeps ==
    ASSUME IndInv, NEW s \in Services, WorkerGenerated(s)
    PROVE  IndInv'
  <1> USE DEF IndInv
  <1> DEFINE m == LocalMeta(s, "completed")
             w == WithBytes(s, "saveResult")
  <1>1. /\ Holding(worker[s])
        /\ worker[s].job \in Jobs
        /\ m \in JobMeta
    BY HolderHasJob DEF WorkerGenerated, Holding, Statuses
  <1>2. older' \subseteq RedisKeys \X RedisKeys
    BY <1>1, LiveKeys, TouchType DEF WorkerGenerated, TypeOK, RedisKeys
  <1>3. /\ w \in WorkerTask
        /\ Holding(w)
        /\ w.job = worker[s].job
        /\ TaskAgrees(w, m)
    BY DEF WithBytes, Task, LocalMeta, Meta, Holding, TaskAgrees, StoredAs,
       TypeOK, WorkerTask, WorkerSteps
  <1>4. /\ meta' = [meta EXCEPT ![worker[s].job] = m]
        /\ worker' = [worker EXCEPT ![s] = w]
        /\ UNCHANGED <<result, idem, queue, dead, api, used, acked, orphans>>
    BY DEF WorkerGenerated, ghostVars
  <1> HIDE DEF m, w
  <1>5. SingleCarrier' /\ CarrierStatus' /\ Responsible'
    BY <1>1, <1>3, <1>4, HolderWrites
  <1>6. TypeOK'
    BY <1>1, <1>2, <1>3, <1>4 DEF TypeOK
  <1>7. QED
    BY <1>5, <1>6

LEMMA WorkerSaveResultKeeps ==
    ASSUME IndInv, NEW s \in Services, WorkerSaveResult(s)
    PROVE  IndInv'
  <1> USE DEF IndInv
  <1>1. TypeOK'
    <2>1. worker[s].job \in Jobs
      BY HolderHasJob DEF WorkerSaveResult, Holding
    <2>2. older' \subseteq RedisKeys \X RedisKeys
      BY <2>1, LiveKeys, TouchType DEF WorkerSaveResult, TypeOK, RedisKeys
    <2>3. worker' \in [Services -> WorkerTask]
      BY DocxAssumption DEF WorkerSaveResult, Pulling, Task, TypeOK,
         WorkerTask, WorkerSteps
    <2>4. result' \subseteq Jobs
      BY <2>1 DEF WorkerSaveResult, TypeOK
    <2>5. QED
      BY <2>2, <2>3, <2>4 DEF WorkerSaveResult, ghostVars, TypeOK
  <1>2. SingleCarrier'
    BY DEF WorkerSaveResult, SingleCarrier, Queued, ApiHolds, WorkerHolds,
       Holding, Task, Pulling
  <1>3. CarrierStatus'
    BY DEF WorkerSaveResult, ghostVars, CarrierStatus, TaskAgrees, Task,
       Pulling
  <1>4. Responsible'
    BY DEF WorkerSaveResult, ghostVars, Responsible, Holding, Task, Pulling
  <1>5. QED
    BY <1>1, <1>2, <1>3, <1>4

LEMMA WorkerGenerateRaisesKeeps ==
    ASSUME IndInv, NEW s \in Services, WorkerGenerateRaises(s)
    PROVE  IndInv'
  <1> USE DEF IndInv
  <1>1. TypeOK'
    BY ZenonT(60) DEF WorkerGenerateRaises, redisVars, ghostVars, TypeOK, WorkerTask, WorkerSteps
  <1>2. SingleCarrier'
    BY DEF WorkerGenerateRaises, redisVars, SingleCarrier, Queued, ApiHolds,
       WorkerHolds, Holding
  <1>3. CarrierStatus'
    <2>1. TaskAgrees(worker'[s], meta[worker'[s].job])
      BY ZenonT(60) DEF WorkerGenerateRaises, CarrierStatus, TaskAgrees, StoredAs, Holding, TypeOK, WorkerTask
    <2>2. QED
      BY <2>1 DEF WorkerGenerateRaises, redisVars, CarrierStatus
  <1>4. Responsible'
    BY DEF WorkerGenerateRaises, redisVars, ghostVars, Responsible, Holding
  <1>5. QED
    BY <1>1, <1>2, <1>3, <1>4

LEMMA WorkerRetryKeeps ==
    ASSUME IndInv, NEW s \in Services, WorkerRetry(s)
    PROVE  IndInv'
  <1> USE DEF IndInv
  <1> DEFINE m == LocalMeta(s, "queued")
             w == [worker[s] EXCEPT !.pc = "requeue"]
  <1>1. /\ Holding(worker[s])
        /\ worker[s].job \in Jobs
        /\ m \in JobMeta
        /\ worker[s].bytes \in BOOLEAN
    BY HolderHasJob DEF WorkerRetry, Holding, Statuses, TypeOK, WorkerTask
  <1>2. /\ meta' \in [Jobs -> JobMeta]
        /\ meta' = [meta EXCEPT ![worker[s].job] = m]
        /\ result' \subseteq Jobs
        /\ older' \subseteq RedisKeys \X RedisKeys
    BY <1>1, SaveJobType DEF WorkerRetry
  <1>3. /\ w \in WorkerTask
        /\ Holding(w)
        /\ w.job = worker[s].job
        /\ TaskAgrees(w, m)
    BY DEF WorkerRetry, LocalMeta, Meta, Holding, TaskAgrees, StoredAs,
       Waiting, TypeOK, WorkerTask, WorkerSteps
  <1>4. worker' = [worker EXCEPT ![s] = w] /\ UNCHANGED <<idem, queue, dead, api, used, acked, orphans>>
    BY DEF WorkerRetry, ghostVars
  <1> HIDE DEF m, w
  <1>5. SingleCarrier' /\ CarrierStatus' /\ Responsible'
    BY <1>1, <1>2, <1>3, <1>4, HolderWrites
  <1>6. TypeOK'
    BY <1>2, <1>3, <1>4 DEF TypeOK
  <1>7. QED
    BY <1>5, <1>6

LEMMA WorkerRequeueKeeps ==
    ASSUME IndInv, NEW s \in Services, WorkerRequeue(s)
    PROVE  IndInv'
  <1> USE DEF IndInv
  <1>1. TypeOK'
    <2>1. Pulling \in WorkerTask
      BY DocxAssumption DEF Pulling, Task, WorkerTask, WorkerSteps
    <2>2. worker[s].job \in Jobs /\ queue \in Seq(Jobs)
      BY HolderHasJob DEF WorkerRequeue, Holding, TypeOK
    <2>3. queue' \in Seq(Jobs)
      BY <2>2 DEF WorkerRequeue
    <2>4. QED
      BY <2>1, <2>3 DEF WorkerRequeue, ghostVars, TypeOK
  <1>2. SingleCarrier'
    <2>1. worker[s].job \in Jobs /\ WorkerHolds(s, worker[s].job)
      BY HolderHasJob DEF WorkerRequeue, WorkerHolds, Holding
    <2>2. \A i \in 1 .. Len(queue) : queue[i] # worker[s].job
      BY <2>1 DEF SingleCarrier, Queued
    <2>3. /\ \A i, k \in 1 .. Len(queue') : queue'[i] = queue'[k] => i = k
          /\ \A i \in Jobs : Queued(i)' => Queued(i) \/ i = worker[s].job
      BY <2>2 DEF WorkerRequeue, SingleCarrier, Queued
    <2>4. \A i \in Jobs :
            /\ \A t \in Services : WorkerHolds(t, i)' <=> t # s /\ WorkerHolds(t, i)
            /\ \A g \in Handlers : ApiHolds(g, i)' <=> ApiHolds(g, i)
      BY DEF WorkerRequeue, WorkerHolds, ApiHolds, Holding, Pulling, Task,
         TypeOK
    <2>5. QED
      BY <2>1, <2>3, <2>4 DEF SingleCarrier
  <1>3. CarrierStatus'
    <2>1. \A i \in 1 .. Len(queue') : queue'[i] = worker[s].job \/ \E k \in 1 .. Len(queue) : queue'[i] = queue[k]
      BY HolderHasJob DEF WorkerRequeue, Holding, TypeOK
    <2>2. Waiting(meta[worker[s].job])
      BY DEF WorkerRequeue, CarrierStatus, Holding, TaskAgrees
    <2>3. \A t \in Services : t # s => worker'[t] = worker[t]
      BY DEF WorkerRequeue, TypeOK
    <2>4. ~Holding(worker'[s])
      BY DEF WorkerRequeue, Holding, Pulling, Task, TypeOK
    <2>5. UNCHANGED <<meta, api>>
      BY DEF WorkerRequeue
    <2>6. QED
      BY <2>1, <2>2, <2>3, <2>4, <2>5 DEF CarrierStatus
  <1>4. Responsible'
    <2>1. \A i \in 1 .. Len(queue') : queue'[i] \in used
      BY DEF WorkerRequeue, Holding, Responsible
    <2>2. QED
      BY DEF WorkerRequeue, ghostVars, Responsible, Holding, Pulling, Task
  <1>5. QED
    BY <1>1, <1>2, <1>3, <1>4

LEMMA WorkerGiveUpKeeps ==
    ASSUME IndInv, NEW s \in Services, WorkerGiveUp(s)
    PROVE  IndInv'
  <1> USE DEF IndInv
  <1> DEFINE m == LocalMeta(s, "failed")
             w == [worker[s] EXCEPT !.pc = "bury"]
  <1>1. /\ Holding(worker[s])
        /\ worker[s].job \in Jobs
        /\ m \in JobMeta
        /\ worker[s].bytes \in BOOLEAN
    BY HolderHasJob DEF WorkerGiveUp, Holding, Statuses, TypeOK, WorkerTask
  <1>2. /\ meta' \in [Jobs -> JobMeta]
        /\ meta' = [meta EXCEPT ![worker[s].job] = m]
        /\ result' \subseteq Jobs
        /\ older' \subseteq RedisKeys \X RedisKeys
    BY <1>1, SaveJobType DEF WorkerGiveUp
  <1>3. /\ w \in WorkerTask
        /\ Holding(w)
        /\ w.job = worker[s].job
        /\ TaskAgrees(w, m)
    BY DEF LocalMeta, Meta, Holding, TaskAgrees, StoredAs, TypeOK,
       WorkerTask, WorkerSteps
  <1>4. worker' = [worker EXCEPT ![s] = w] /\ UNCHANGED <<idem, queue, dead, api, used, acked, orphans>>
    BY DEF WorkerGiveUp, ghostVars
  <1> HIDE DEF m, w
  <1>5. SingleCarrier' /\ CarrierStatus' /\ Responsible'
    BY <1>1, <1>2, <1>3, <1>4, HolderWrites
  <1>6. TypeOK'
    BY <1>2, <1>3, <1>4 DEF TypeOK
  <1>7. QED
    BY <1>5, <1>6

LEMMA WorkerBuryKeeps ==
    ASSUME IndInv, NEW s \in Services, WorkerBury(s)
    PROVE  IndInv'
  <1> USE DEF IndInv
  <1>1. TypeOK'
    <2>1. Pulling \in WorkerTask
      BY DocxAssumption DEF Pulling, Task, WorkerTask, WorkerSteps
    <2>2. worker[s].job \in Jobs
      BY HolderHasJob DEF WorkerBury, Holding
    <2>3. dead' \in Seq(Jobs)
      <3>1. Append(dead, worker[s].job) \in Seq(Jobs)
        BY <2>2 DEF TypeOK
      <3> QED
        BY <3>1 DEF WorkerBury, Trim
    <2>4. QED
      BY <2>1, <2>3 DEF WorkerBury, ghostVars, TypeOK
  <1>2. SingleCarrier'
    <2>1. \A j \in Jobs :
            /\ \A t \in Services : WorkerHolds(t, j)' <=> t # s /\ WorkerHolds(t, j)
            /\ \A g \in Handlers : ApiHolds(g, j)' <=> ApiHolds(g, j)
            /\ Queued(j)' <=> Queued(j)
      BY DEF WorkerBury, WorkerHolds, ApiHolds, Queued, Holding, Pulling,
         Task, TypeOK
    <2>2. UNCHANGED queue
      BY DEF WorkerBury, redisVars
    <2>3. QED
      BY <2>1, <2>2 DEF SingleCarrier
  <1>3. CarrierStatus'
    BY DEF WorkerBury, CarrierStatus, TaskAgrees, Task, Pulling
  <1>4. Responsible'
    BY DEF WorkerBury, ghostVars, Responsible, Holding, Task, Pulling
  <1>5. QED
    BY <1>1, <1>2, <1>3, <1>4

LEMMA RestartKeeps ==
    ASSUME IndInv, NEW s \in Services, Restart(s)
    PROVE  IndInv'
  <1> USE DEF IndInv
  <1>1. TypeOK'
    BY DocxAssumption DEF Restart, redisVars, TypeOK, Call, NoCall, ApiCall,
       ApiSteps, Task, Pulling, WorkerTask, WorkerSteps
  <1>2. SingleCarrier'
    BY DEF Restart, redisVars, SingleCarrier, Queued, ApiHolds, WorkerHolds,
       Submitting, Holding, Call, NoCall, Task, Pulling
  <1>3. CarrierStatus'
    <2>1. /\ \A h \in Handlers : api'[h] \in {NoCall, api[h]}
          /\ \A t \in Services : t # s => worker'[t] = worker[t]
      BY DEF Restart, TypeOK
    <2>2. ~Submitting(NoCall) /\ ~Holding(worker'[s])
      BY DEF Restart, Submitting, Holding, NoCall, Call, Pulling, Task,
         TypeOK
    <2>3. UNCHANGED <<meta, queue>>
      BY DEF Restart, redisVars
    <2>4. QED
      BY <2>1, <2>2, <2>3 DEF CarrierStatus
  <1>4. Responsible'
    BY DEF Restart, redisVars, Responsible, Submitting, Holding, Call,
       NoCall, Task, Pulling
  <1>5. QED
    BY <1>1, <1>2, <1>3, <1>4

LEMMA SubmitFailsKeeps ==
    ASSUME IndInv, NEW h \in Handlers, SubmitFails(h)
    PROVE  IndInv'
  <1> USE DEF IndInv
  <1>1. TypeOK'
    BY DEF SubmitFails, redisVars, TypeOK, Call, NoCall, ApiCall, ApiSteps
  <1>2. SingleCarrier'
    BY DEF SubmitFails, redisVars, SingleCarrier, Queued, ApiHolds,
       WorkerHolds, Submitting, Call, NoCall
  <1>3. CarrierStatus'
    BY DEF SubmitFails, redisVars, CarrierStatus, Submitting, Call, NoCall
  <1>4. Responsible'
    BY DEF SubmitFails, redisVars, Responsible, Submitting, Call, NoCall
  <1>5. QED
    BY <1>1, <1>2, <1>3, <1>4

LEMMA WorkerDiesKeeps ==
    ASSUME IndInv, NEW s \in Services, WorkerDies(s)
    PROVE  IndInv'
  <1> USE DEF IndInv
  <1>1. TypeOK'
    BY DocxAssumption DEF WorkerDies, redisVars, TypeOK, Task, DeadTask,
       WorkerTask, WorkerSteps
  <1>2. SingleCarrier'
    BY DEF WorkerDies, redisVars, SingleCarrier, Queued, ApiHolds,
       WorkerHolds, Holding, Task, DeadTask
  <1>3. CarrierStatus'
    BY DEF WorkerDies, redisVars, CarrierStatus, TaskAgrees, Task, DeadTask
  <1>4. Responsible'
    BY DEF WorkerDies, redisVars, Responsible, Holding, Task, DeadTask
  <1>5. QED
    BY <1>1, <1>2, <1>3, <1>4

LEMMA CompletingSaveFailsKeeps ==
    ASSUME IndInv, NEW s \in Services, CompletingSaveFails(s)
    PROVE  IndInv'
  <1> USE DEF IndInv
  <1>1. TypeOK'
    <2>1. worker[s].job \in Jobs
      BY HolderHasJob DEF CompletingSaveFails, Holding
    <2>2. older' \subseteq RedisKeys \X RedisKeys
      BY <2>1, LiveKeys, TouchType DEF CompletingSaveFails, TypeOK, RedisKeys
    <2>3. worker' \in [Services -> WorkerTask]
      BY DEF CompletingSaveFails, WithBytes, Task, TypeOK, WorkerTask,
         WorkerSteps
    <2>4. result' \subseteq Jobs
      BY <2>1 DEF CompletingSaveFails, TypeOK
    <2>5. QED
      BY <2>2, <2>3, <2>4 DEF CompletingSaveFails, ghostVars, TypeOK
  <1>2. SingleCarrier'
    <2>1. \A j \in Jobs :
            /\ \A t \in Services : WorkerHolds(t, j)' <=> WorkerHolds(t, j)
            /\ \A g \in Handlers : ApiHolds(g, j)' <=> ApiHolds(g, j)
      BY DEF CompletingSaveFails, WorkerHolds, ApiHolds, Holding, WithBytes,
         Task
    <2>2. QED
      BY <2>1 DEF CompletingSaveFails, SingleCarrier, Queued
  <1>3. CarrierStatus'
    <2>1. TaskAgrees(worker'[s], meta[worker'[s].job])
      BY DEF CompletingSaveFails, CarrierStatus, TaskAgrees, StoredAs,
         Holding, WithBytes, Task
    <2>2. QED
      BY <2>1 DEF CompletingSaveFails, CarrierStatus, TypeOK
  <1>4. Responsible'
    BY DEF CompletingSaveFails, ghostVars, Responsible, Holding, Task,
       WithBytes
  <1>5. QED
    BY <1>1, <1>2, <1>3, <1>4

LEMMA ExpireKeeps ==
    ASSUME IndInv, NEW x \in RedisKeys, Expire(x)
    PROVE  IndInv'
  <1> USE DEF IndInv
  <1>1. TypeOK'
    <2>1. meta' \in [Jobs -> JobMeta]
      BY DocxAssumption DEF Expire, TypeOK, JobMeta, NoMeta, Statuses
    <2>2. older' \subseteq RedisKeys \X RedisKeys
      BY TouchType DEF Expire, TypeOK
    <2>3. QED
      BY <2>1, <2>2 DEF Expire, ghostVars, TypeOK
  <1>2. SingleCarrier'
    BY DEF Expire, SingleCarrier, Queued, ApiHolds, WorkerHolds
  <1>3. CarrierStatus'
    <2>1. \A j \in Jobs : meta'[j] = meta[j] \/ meta'[j] = NoMeta
      BY DEF Expire
    <2>2. Waiting(NoMeta) /\ \A w \in WorkerTask : TaskAgrees(w, NoMeta)
      BY DocxAssumption DEF NoMeta, Waiting, TaskAgrees, StoredAs
    <2>3. \A i \in 1 .. Len(queue) : queue[i] \in Jobs
      BY DEF TypeOK
    <2>4. /\ \A h \in Handlers : Submitting(api[h]) => api[h].job \in Jobs
          /\ \A t \in Services : Holding(worker[t]) => worker[t].job \in Jobs
          /\ \A t \in Services : worker[t] \in WorkerTask
      BY DEF Responsible, TypeOK
    <2>5. UNCHANGED <<queue, api, worker>>
      BY DEF Expire
    <2>6. QED
      BY <2>1, <2>2, <2>3, <2>4, <2>5 DEF CarrierStatus
  <1>4. Responsible'
    BY DEF Expire, ghostVars, Responsible
  <1>5. QED
    BY <1>1, <1>2, <1>3, <1>4

-----------------------------------------------------------------------------
LEMMA InitEstablishes == Init => IndInv
  <1> SUFFICES ASSUME Init PROVE IndInv
    OBVIOUS
  <1> USE DocxAssumption DEF Init
  <1>1. TypeOK
    BY DEF TypeOK, NoMeta, JobMeta, Statuses, NoCall, Call, ApiCall,
       ApiSteps, Pulling, Task, WorkerTask, WorkerSteps
  <1>2. SingleCarrier /\ CarrierStatus /\ Responsible
    BY DEF SingleCarrier, CarrierStatus, Responsible, ApiHolds, WorkerHolds,
       Submitting, Holding, NoCall, Call, Pulling, Task
  <1>3. QED
    BY <1>1, <1>2 DEF IndInv

LEMMA StepKeeps == IndInv /\ [Next]_vars => IndInv'
  <1> SUFFICES ASSUME IndInv, [Next]_vars PROVE IndInv'
    OBVIOUS
  <1>1. CASE UNCHANGED vars
    BY <1>1 DEF vars, redisVars, ghostVars, IndInv, TypeOK, SingleCarrier,
       CarrierStatus, Responsible, Queued, ApiHolds, WorkerHolds
  <1>2. ASSUME NEW h \in Handlers, NEW k \in Keys, SubmitResolve(h, k) PROVE IndInv'
    BY <1>2, SubmitResolveKeeps
  <1>3. ASSUME NEW h \in Handlers, SubmitStep(h) \/ SubmitFails(h) PROVE IndInv'
    BY <1>3, SubmitReplyExistingKeeps, SubmitStaleKeyKeeps, SubmitCreateKeeps,
       SubmitRegisterKeeps, SubmitEnqueueKeeps, SubmitFailsKeeps DEF SubmitStep
  <1>4. ASSUME NEW s \in Services, WorkerStep(s) PROVE IndInv'
    BY <1>4, WorkerPullKeeps, WorkerDropKeeps, WorkerLoadKeeps,
       WorkerStartKeeps, WorkerGeneratedKeeps, WorkerSaveResultKeeps,
       WorkerGenerateRaisesKeeps, WorkerRetryKeeps, WorkerRequeueKeeps,
       WorkerGiveUpKeeps, WorkerBuryKeeps DEF WorkerStep
  <1>5. ASSUME NEW s \in Services, FaultStep(s) PROVE IndInv'
    BY <1>5, RestartKeeps, WorkerDiesKeeps, CompletingSaveFailsKeeps DEF FaultStep
  <1>6. ASSUME NEW x \in RedisKeys, Expire(x) PROVE IndInv'
    BY <1>6, ExpireKeeps
  <1>7. QED
    BY <1>1, <1>2, <1>3, <1>4, <1>5, <1>6 DEF Next

THEOREM Invariance == Spec => []IndInv
  BY InitEstablishes, StepKeeps, PTL DEF Spec

(* Types, in particular attempts never exceed MaxRetries: with _docx_worker *)
(* as it is, no fault makes a job be generated more often than configured.  *)
THEOREM TypeCorrect == Spec => []TypeOK
  <1>1. IndInv => TypeOK
    BY DEF IndInv
  <1>2. QED
    BY <1>1, Invariance, PTL

(* At most one message, worker or submit handler answers for a job.        *)
THEOREM OneCarrier == Spec => []SingleCarrier
  <1>1. IndInv => SingleCarrier
    BY DEF IndInv
  <1>2. QED
    BY <1>1, Invariance, PTL

(* What Redis says of a job agrees with whoever answers for it.            *)
THEOREM CarrierAgrees == Spec => []CarrierStatus
  <1>1. IndInv => CarrierStatus
    BY DEF IndInv
  <1>2. QED
    BY <1>1, Invariance, PTL

-----------------------------------------------------------------------------
(* A worker that saves the job it holds rewrites no final status, unless   *)
(* it is in the except branch after its own completing save.               *)
LEMMA HolderWritesFinal ==
    ASSUME NEW s \in Services,
           \A j \in Jobs : j # worker[s].job => meta'[j] = meta[j],
           \/ StoredAs(meta[worker[s].job], {"queued", "processing"})
           \/ /\ worker[s].pc = "except"
              /\ meta[worker[s].job].status # "failed"
    PROVE  FinalStep
  BY DEF FinalStep, StoredAs

LEMMA StepKeepsFinal == IndInv /\ [Next]_vars => [FinalStep]_vars
  <1> SUFFICES ASSUME IndInv, Next PROVE FinalStep \/ UNCHANGED vars
    OBVIOUS
  <1>1. ASSUME UNCHANGED meta PROVE FinalStep
    BY <1>1 DEF FinalStep
  <1>2. ASSUME NEW h \in Handlers, SubmitCreate(h) PROVE FinalStep
    <2>1. PICK j \in Jobs \ used : SaveJob(j, Meta("queued", 0, api[h].key), FALSE)
      BY <1>2 DEF SubmitCreate
    <2>2. meta[j].status = "absent" /\ \A i \in Jobs : i # j => meta'[i] = meta[i]
      BY <2>1 DEF SaveJob, IndInv, Responsible, NoMeta
    <2>3. QED
      BY <2>2 DEF FinalStep
  <1>3. ASSUME NEW s \in Services, WorkerStart(s) \/ WorkerGenerated(s) \/ WorkerRetry(s) \/ WorkerGiveUp(s)
        PROVE  FinalStep
    <2>1. Holding(worker[s]) /\ worker[s].pc \in {"start", "run", "except"}
      BY <1>3 DEF WorkerStart, WorkerGenerated, WorkerRetry, WorkerGiveUp,
         Holding
    <2>2. TaskAgrees(worker[s], meta[worker[s].job])
      BY <2>1 DEF IndInv, CarrierStatus
    <2>3. \/ StoredAs(meta[worker[s].job], {"queued", "processing"})
          \/ /\ worker[s].pc = "except"
             /\ meta[worker[s].job].status # "failed"
      BY <2>1, <2>2 DEF TaskAgrees, StoredAs
    <2>4. \A j \in Jobs : j # worker[s].job => meta'[j] = meta[j]
      BY <1>3 DEF WorkerStart, WorkerGenerated, WorkerRetry, WorkerGiveUp,
         SaveJob, IndInv, TypeOK
    <2>5. QED
      BY <2>3, <2>4, HolderWritesFinal
  <1>4. ASSUME NEW x \in RedisKeys, Expire(x) PROVE FinalStep
    BY <1>4 DEF Expire, FinalStep, NoMeta
  <1>5. ASSUME NEW h \in Handlers, NEW k \in Keys, SubmitResolve(h, k) PROVE UNCHANGED meta
    BY <1>5 DEF SubmitResolve, redisVars
  <1>6. ASSUME NEW h \in Handlers, SubmitStep(h) \/ SubmitFails(h)
        PROVE  UNCHANGED meta \/ SubmitCreate(h)
    BY <1>6 DEF SubmitStep, SubmitReplyExisting, SubmitStaleKey,
       SubmitRegister, SubmitEnqueue, SubmitFails, redisVars
  <1>7. ASSUME NEW s \in Services, WorkerStep(s)
        PROVE  \/ UNCHANGED meta
               \/ WorkerStart(s) \/ WorkerGenerated(s) \/ WorkerRetry(s) \/ WorkerGiveUp(s)
    BY <1>7 DEF WorkerStep, WorkerPull, WorkerDrop, WorkerLoad,
       WorkerSaveResult, WorkerGenerateRaises, WorkerRequeue, WorkerBury,
       redisVars
  <1>8. ASSUME NEW s \in Services, FaultStep(s) PROVE UNCHANGED meta
    BY <1>8 DEF FaultStep, Restart, WorkerDies,
       CompletingSaveFails, redisVars
  <1>9. QED
    BY <1>1, <1>2, <1>3, <1>4, <1>5, <1>6, <1>7, <1>8 DEF Next

(* Whatever fails, a final status gives way to the TTL only, but for the   *)
(* completing save that fails in Redis half way.                           *)
THEOREM FinalIsFinal == Spec => FinalStatusIsFinal
  <1>1. IndInv /\ [Next]_vars => [FinalStep]_vars
    BY StepKeepsFinal
  <1>2. QED
    BY <1>1, Invariance, PTL DEF Spec, FinalStatusIsFinal

-----------------------------------------------------------------------------
(* Who carries a job, from one step to the next.                           *)

(* A job is carried only by who carried it before; who lets go of it has   *)
(* brought it to an end, or died; and nobody else writes it.               *)
CarriedAlong(j) ==
    /\ j \in used /\ Carried(j)' => Carried(j)
    /\ Carried(j) => \/ Carried(j)' \/ j \in orphans'
                     \/ meta'[j].status \in {"absent", "completed", "failed"}
    /\ j \notin used => Carried(j)' \/ meta'[j] = meta[j]
    /\ meta'[j] \in {meta[j], NoMeta} \/ Carried(j) \/ j \notin used
    /\ j \in used => j \in used'
    /\ j \in orphans => j \in orphans'

(* A step of a worker that takes no other job.                             *)
LEMMA WorkerMoves ==
    ASSUME IndInv, NEW s \in Services, NEW w \in WorkerTask,
           worker' = [worker EXCEPT ![s] = w], UNCHANGED <<queue, api>>,
           Holding(w) => Holding(worker[s]) /\ w.job = worker[s].job
    PROVE  \A j \in Jobs :
             /\ Carried(j)' => Carried(j)
             /\ Carried(j) => Carried(j)' \/ (WorkerHolds(s, j) /\ ~Holding(w))
  <1>1. worker'[s] = w /\ \A t \in Services : t # s => worker'[t] = worker[t]
    BY DEF IndInv, TypeOK
  <1>2. \A j \in Jobs : Queued(j)' <=> Queued(j)
    BY DEF Queued
  <1>3. \A j \in Jobs, h \in Handlers : ApiHolds(h, j)' <=> ApiHolds(h, j)
    BY DEF ApiHolds
  <1>4. \A j \in Jobs, t \in Services :
          /\ WorkerHolds(t, j)' => WorkerHolds(t, j)
          /\ WorkerHolds(t, j) => WorkerHolds(t, j)' \/ (t = s /\ ~Holding(w))
    BY <1>1 DEF WorkerHolds
  <1> QED
    BY <1>2, <1>3, <1>4 DEF Carried

(* A step of a submit handler that answers for no other job.               *)
LEMMA HandlerMoves ==
    ASSUME IndInv, NEW h \in Handlers, NEW c \in ApiCall,
           api' = [api EXCEPT ![h] = c], UNCHANGED <<queue, worker>>,
           Submitting(c) => Submitting(api[h]) /\ c.job = api[h].job
    PROVE  \A j \in Jobs :
             /\ Carried(j)' => Carried(j)
             /\ Carried(j) => Carried(j)' \/ (ApiHolds(h, j) /\ ~Submitting(c))
  <1>1. api'[h] = c /\ \A g \in Handlers : g # h => api'[g] = api[g]
    BY DEF IndInv, TypeOK
  <1>2. \A j \in Jobs : Queued(j)' <=> Queued(j)
    BY DEF Queued
  <1>3. \A j \in Jobs, t \in Services : WorkerHolds(t, j)' <=> WorkerHolds(t, j)
    BY DEF WorkerHolds
  <1>4. \A j \in Jobs, g \in Handlers :
          /\ ApiHolds(g, j)' => ApiHolds(g, j)
          /\ ApiHolds(g, j) => ApiHolds(g, j)' \/ (g = h /\ ~Submitting(c))
    BY <1>1 DEF ApiHolds
  <1> QED
    BY <1>2, <1>3, <1>4 DEF Carried

LEMMA HandlerCarries ==
    ASSUME IndInv, NEW h \in Handlers,
           \/ \E k \in Keys : SubmitResolve(h, k)
           \/ SubmitReplyExisting(h) \/ SubmitStaleKey(h) \/ SubmitRegister(h)
           \/ SubmitFails(h)
    PROVE  \A j \in Jobs : CarriedAlong(j)
  <1> USE DEF IndInv
  <1>1. api[h] \in ApiCall
    BY DEF TypeOK
  <1>2. \E c \in ApiCall :
          /\ api' = [api EXCEPT ![h] = c]
          /\ Submitting(c) => Submitting(api[h]) /\ c.job = api[h].job
          /\ Submitting(api[h]) /\ ~Submitting(c) =>
               orphans' = orphans \cup {j \in Jobs : ApiHolds(h, j)}
    <2>1. CASE \E k \in Keys : SubmitResolve(h, k)
      <3>1. PICK k \in Keys : SubmitResolve(h, k)
        BY <2>1
      <3> DEFINE c == Call(IF idem[k] = NoJob THEN "create" ELSE "load", k, idem[k])
      <3>2. c \in ApiCall /\ ~Submitting(c) /\ ~Submitting(api[h])
        BY <3>1 DEF SubmitResolve, Call, ApiCall, ApiSteps, Submitting, TypeOK
      <3>3. api' = [api EXCEPT ![h] = c]
        BY <3>1 DEF SubmitResolve
      <3> QED
        BY <3>2, <3>3
    <2>2. NoCall \in ApiCall /\ ~Submitting(NoCall)
      BY DEF NoCall, Call, ApiCall, ApiSteps, Submitting
    <2>3. CASE SubmitReplyExisting(h)
      BY <2>2, <2>3 DEF SubmitReplyExisting, Submitting
    <2>4. CASE SubmitStaleKey(h)
      <3>1. Call("create", api[h].key, NoJob) \in ApiCall /\ ~Submitting(Call("create", api[h].key, NoJob))
        BY <1>1 DEF Call, ApiCall, ApiSteps, Submitting
      <3> QED
        BY <2>4, <3>1 DEF SubmitStaleKey, Submitting
    <2>5. CASE SubmitRegister(h)
      <3>1. [api[h] EXCEPT !.pc = "enqueue"] \in ApiCall
        BY <1>1 DEF ApiCall, ApiSteps
      <3>2. Submitting([api[h] EXCEPT !.pc = "enqueue"]) /\ Submitting(api[h])
            /\ [api[h] EXCEPT !.pc = "enqueue"].job = api[h].job
        BY <1>1, <2>5 DEF SubmitRegister, Submitting, ApiCall
      <3>3. api' = [api EXCEPT ![h] = [api[h] EXCEPT !.pc = "enqueue"]]
        BY <2>5 DEF SubmitRegister
      <3> QED
        BY <3>1, <3>2, <3>3
    <2>6. CASE SubmitFails(h)
      BY <2>2, <2>6 DEF SubmitFails
    <2> QED
      BY <2>1, <2>3, <2>4, <2>5, <2>6
  <1>3. /\ UNCHANGED <<meta, queue, worker, used>>
        /\ orphans \subseteq orphans'
    BY DEF SubmitResolve, SubmitReplyExisting, SubmitStaleKey, SubmitRegister, SubmitFails,
       redisVars, ghostVars
  <1>4. PICK c \in ApiCall :
          /\ api' = [api EXCEPT ![h] = c]
          /\ Submitting(c) => Submitting(api[h]) /\ c.job = api[h].job
          /\ Submitting(api[h]) /\ ~Submitting(c) =>
               orphans' = orphans \cup {j \in Jobs : ApiHolds(h, j)}
    BY <1>2
  <1>5. \A j \in Jobs :
          /\ Carried(j)' => Carried(j)
          /\ Carried(j) => Carried(j)' \/ (ApiHolds(h, j) /\ ~Submitting(c))
    BY <1>3, <1>4, HandlerMoves
  <1>6. \A j \in Jobs : ApiHolds(h, j) /\ ~Submitting(c) => j \in orphans'
    BY <1>4 DEF ApiHolds
  <1> QED
    BY <1>3, <1>5, <1>6 DEF CarriedAlong

LEMMA CreateCarries ==
    ASSUME IndInv, NEW h \in Handlers, SubmitCreate(h)
    PROVE  \A j \in Jobs : CarriedAlong(j)
  <1> USE DEF IndInv
  <1>1. PICK n \in Jobs \ used :
          /\ used' = used \cup {n}
          /\ SaveJob(n, Meta("queued", 0, api[h].key), FALSE)
          /\ api' = [api EXCEPT ![h] = Call("register", api[h].key, n)]
    BY DEF SubmitCreate
  <1>2. /\ UNCHANGED <<queue, worker, orphans>>
        /\ ~Submitting(api[h])
    BY DEF SubmitCreate, Submitting
  <1>3. /\ api'[h] = Call("register", api[h].key, n)
        /\ \A g \in Handlers : g # h => api'[g] = api[g]
    BY <1>1 DEF TypeOK
  <1>4. \A j \in Jobs : j # n => meta'[j] = meta[j]
    BY <1>1 DEF SaveJob, TypeOK
  <1>5. \A j \in Jobs :
          /\ \A t \in Services : WorkerHolds(t, j)' <=> WorkerHolds(t, j)
          /\ \A g \in Handlers : ApiHolds(g, j)' <=> IF g = h THEN j = n ELSE ApiHolds(g, j)
          /\ ~ApiHolds(h, j)
    BY <1>2, <1>3 DEF WorkerHolds, ApiHolds, Submitting, Call
  <1>6. \A j \in Jobs : Queued(j)' <=> Queued(j)
    BY <1>2 DEF Queued
  <1>7. \A j \in Jobs : Carried(j)' <=> Carried(j) \/ j = n
    BY <1>5, <1>6 DEF Carried
  <1> QED
    BY <1>1, <1>2, <1>4, <1>7 DEF CarriedAlong

(* A handler or a worker that pushes a message hands its job to the queue. *)
LEMMA PushCarries ==
    ASSUME IndInv, NEW n \in Jobs, Carried(n),
           queue' = Append(queue, n), UNCHANGED <<meta, used, orphans>>,
           \A j \in Jobs, t \in Services :
             /\ WorkerHolds(t, j)' => WorkerHolds(t, j)
             /\ WorkerHolds(t, j) => WorkerHolds(t, j)' \/ j = n,
           \A j \in Jobs, h \in Handlers :
             /\ ApiHolds(h, j)' => ApiHolds(h, j)
             /\ ApiHolds(h, j) => ApiHolds(h, j)' \/ j = n
    PROVE  \A j \in Jobs : CarriedAlong(j)
  <1>1. \A j \in Jobs : Queued(j)' <=> Queued(j) \/ j = n
    <2>1. queue \in Seq(Jobs)
      BY DEF IndInv, TypeOK
    <2>2. /\ Len(queue') = Len(queue) + 1 /\ Len(queue) \in Nat
          /\ queue'[Len(queue) + 1] = n
          /\ \A i \in 1 .. Len(queue) : queue'[i] = queue[i]
      BY <2>1
    <2> QED
      BY <2>2 DEF Queued
  <1>2. \A j \in Jobs : Carried(j)' <=> Carried(j)
    BY <1>1 DEF Carried
  <1> QED
    BY <1>2 DEF CarriedAlong

LEMMA EnqueueCarries ==
    ASSUME IndInv, NEW h \in Handlers, SubmitEnqueue(h)
    PROVE  \A j \in Jobs : CarriedAlong(j)
  <1> USE DEF IndInv
  <1> DEFINE n == api[h].job
  <1>1. n \in Jobs /\ Carried(n)
    BY DEF SubmitEnqueue, Carried, ApiHolds, Submitting, Responsible, TypeOK
  <1>2. queue' = Append(queue, n) /\ UNCHANGED <<meta, worker, used, orphans>>
    BY DEF SubmitEnqueue
  <1>3. api'[h] = NoCall /\ \A g \in Handlers : g # h => api'[g] = api[g]
    BY DEF SubmitEnqueue, TypeOK
  <1>4. \A j \in Jobs, g \in Handlers :
          /\ ApiHolds(g, j)' => ApiHolds(g, j)
          /\ ApiHolds(g, j) => ApiHolds(g, j)' \/ j = n
    BY <1>3 DEF ApiHolds, Submitting, NoCall, Call
  <1>5. \A j \in Jobs, t \in Services : WorkerHolds(t, j)' <=> WorkerHolds(t, j)
    BY <1>2 DEF WorkerHolds
  <1> QED
    BY <1>1, <1>2, <1>4, <1>5, PushCarries

LEMMA RequeueCarries ==
    ASSUME IndInv, NEW s \in Services, WorkerRequeue(s)
    PROVE  \A j \in Jobs : CarriedAlong(j)
  <1> USE DEF IndInv
  <1> DEFINE n == worker[s].job
  <1>1. n \in Jobs /\ Carried(n)
    BY HolderHasJob DEF WorkerRequeue, Carried, WorkerHolds, Holding
  <1>2. queue' = Append(queue, n) /\ UNCHANGED <<meta, api, used, orphans>>
    BY DEF WorkerRequeue, ghostVars
  <1>3. worker'[s] = Pulling /\ \A t \in Services : t # s => worker'[t] = worker[t]
    BY DEF WorkerRequeue, TypeOK
  <1>4. \A j \in Jobs, t \in Services :
          /\ WorkerHolds(t, j)' => WorkerHolds(t, j)
          /\ WorkerHolds(t, j) => WorkerHolds(t, j)' \/ j = n
    BY <1>3 DEF WorkerHolds, Holding, Pulling, Task
  <1>5. \A j \in Jobs, h \in Handlers : ApiHolds(h, j)' <=> ApiHolds(h, j)
    BY <1>2 DEF ApiHolds
  <1> QED
    BY <1>1, <1>2, <1>4, <1>5, PushCarries

LEMMA PullCarries ==
    ASSUME IndInv, NEW s \in Services, WorkerPull(s)
    PROVE  \A j \in Jobs : CarriedAlong(j)
  <1> USE DEF IndInv
  <1> DEFINE n == Head(queue)
  <1>1. /\ n \in Jobs /\ Queued(n)
        /\ \A i \in 1 .. Len(queue') : \E k \in 1 .. Len(queue) : queue'[i] = queue[k]
    BY PullTakesHead
  <1>2. \A j \in Jobs : Queued(j) => Queued(j)' \/ j = n
    <2>1. queue \in Seq(Jobs) /\ queue # <<>> /\ queue' = Tail(queue)
      BY DEF WorkerPull, TypeOK
    <2>2. /\ Len(queue) \in Nat \ {0} /\ Len(queue') = Len(queue) - 1 /\ queue[1] = n
          /\ \A i \in 1 .. Len(queue') : queue'[i] = queue[i + 1]
      BY <2>1
    <2>3. \A i \in 1 .. Len(queue) : i # 1 => i - 1 \in 1 .. Len(queue') /\ queue'[i - 1] = queue[i]
      BY <2>2
    <2> QED
      BY <2>2, <2>3 DEF Queued
  <1>3. /\ worker' = [worker EXCEPT ![s] = Task("load", n, 0, NoKey, FALSE)]
        /\ worker[s].pc = "pull" /\ UNCHANGED <<meta, api, used, orphans>>
    BY DEF WorkerPull, ghostVars
  <1> HIDE DEF n
  <1>4. /\ worker'[s] = Task("load", n, 0, NoKey, FALSE)
        /\ \A t \in Services : t # s => worker'[t] = worker[t]
    BY <1>3 DEF TypeOK
  <1>5. \A j \in Jobs :
          /\ \A t \in Services : WorkerHolds(t, j)' <=> IF t = s THEN j = n ELSE WorkerHolds(t, j)
          /\ ~WorkerHolds(s, j)
          /\ \A h \in Handlers : ApiHolds(h, j)' <=> ApiHolds(h, j)
    BY <1>3, <1>4 DEF WorkerHolds, ApiHolds, Holding, Task
  <1>6. \A j \in Jobs : Queued(j)' => Queued(j)
    BY <1>1 DEF Queued
  <1>7. \A j \in Jobs : Carried(j)' <=> Carried(j)
    BY <1>1, <1>2, <1>5, <1>6 DEF Carried
  <1> QED
    BY <1>3, <1>7 DEF CarriedAlong

(* A worker that goes on, ends its round, or dies.                         *)
LEMMA WorkerCarries ==
    ASSUME IndInv, NEW s \in Services,
           \/ WorkerDrop(s) \/ WorkerLoad(s) \/ WorkerStart(s) \/ WorkerGenerated(s)
           \/ WorkerSaveResult(s) \/ WorkerGenerateRaises(s) \/ WorkerRetry(s)
           \/ WorkerGiveUp(s) \/ WorkerBury(s) \/ WorkerDies(s) \/ CompletingSaveFails(s)
    PROVE  \A j \in Jobs : CarriedAlong(j)
  <1> USE DEF IndInv
  <1>0. /\ worker[s] \in WorkerTask /\ UNCHANGED <<queue, api, used>>
        /\ worker' \in [Services -> WorkerTask]
        /\ \E w : worker' = [worker EXCEPT ![s] = w]
    <2>1. worker' \in [Services -> WorkerTask]
      BY WorkerDropKeeps, WorkerLoadKeeps, WorkerStartKeeps, WorkerGeneratedKeeps,
         WorkerSaveResultKeeps, WorkerGenerateRaisesKeeps, WorkerRetryKeeps, WorkerGiveUpKeeps,
         WorkerBuryKeeps, WorkerDiesKeeps, CompletingSaveFailsKeeps DEF TypeOK
    <2>2. UNCHANGED <<queue, api, used>>
      BY DEF WorkerDrop, WorkerLoad, WorkerStart, WorkerGenerated, WorkerSaveResult,
         WorkerGenerateRaises, WorkerRetry, WorkerGiveUp, WorkerBury, WorkerDies,
         CompletingSaveFails, redisVars, ghostVars
    <2>3. \E w : worker' = [worker EXCEPT ![s] = w]
      BY DEF WorkerDrop, WorkerLoad, WorkerStart, WorkerGenerated, WorkerSaveResult,
         WorkerGenerateRaises, WorkerRetry, WorkerGiveUp, WorkerBury, WorkerDies,
         CompletingSaveFails
    <2> QED
      BY <2>1, <2>2, <2>3 DEF TypeOK
  <1>1. PICK w : worker' = [worker EXCEPT ![s] = w]
    BY <1>0
  <1>2. w \in WorkerTask /\ worker'[s] = w
    BY <1>0, <1>1 DEF TypeOK
  <1>3. Holding(w) => Holding(worker[s]) /\ w.job = worker[s].job
    <2>1. WorkerTask = [pc : WorkerSteps, job : Jobs \cup {NoJob}, attempts : 0 .. MaxRetries,
                        payload : Keys \cup {NoKey}, bytes : BOOLEAN]
      BY DEF WorkerTask
    <2>2. CASE WorkerDrop(s) \/ WorkerSaveResult(s) \/ WorkerBury(s) \/ WorkerDies(s)
      <3>1. worker'[s] = Pulling \/ worker'[s] = DeadTask
        BY <2>2 DEF WorkerDrop, WorkerSaveResult, WorkerBury, WorkerDies, TypeOK
      <3> QED
        BY <1>2, <3>1 DEF Pulling, DeadTask, Task, Holding
    <2>3. CASE WorkerLoad(s)
      <3>1. worker'[s] = Task("start", worker[s].job, meta[worker[s].job].attempts + 1,
                              meta[worker[s].job].payload, worker[s].job \in result)
            /\ worker[s].pc = "load"
        BY <2>3 DEF WorkerLoad, TypeOK
      <3> QED
        BY <1>2, <3>1 DEF Task, Holding
    <2>4. CASE WorkerGenerated(s) \/ CompletingSaveFails(s)
      <3>1. /\ worker[s].pc \in {"run", "saveResult"}
            /\ worker'[s] = WithBytes(s, "saveResult") \/ worker'[s] = WithBytes(s, "except")
        BY <2>4 DEF WorkerGenerated, CompletingSaveFails, TypeOK
      <3> QED
        BY <1>2, <3>1 DEF WithBytes, Task, Holding
    <2>5. CASE WorkerStart(s) \/ WorkerGenerateRaises(s) \/ WorkerRetry(s) \/ WorkerGiveUp(s)
      <3>1. PICK p \in WorkerSteps : worker' = [worker EXCEPT ![s].pc = p]
        BY <2>5 DEF WorkerStart, WorkerGenerateRaises, WorkerRetry, WorkerGiveUp, WorkerSteps
      <3>2. worker'[s].job = worker[s].job
        BY <1>0, <3>1 DEF TypeOK, WorkerTask
      <3>3. Holding(worker[s])
        BY <2>5 DEF WorkerStart, WorkerGenerateRaises, WorkerRetry, WorkerGiveUp, Holding
      <3> QED
        BY <1>2, <3>2, <3>3
    <2> QED
      BY <2>2, <2>3, <2>4, <2>5
  <1>4. \A j \in Jobs :
          /\ Carried(j)' => Carried(j)
          /\ Carried(j) => Carried(j)' \/ (WorkerHolds(s, j) /\ ~Holding(w))
    BY <1>0, <1>1, <1>2, <1>3, WorkerMoves
  <1>5. ASSUME NEW j \in Jobs, WorkerHolds(s, j), ~Holding(w)
        PROVE  j \in orphans' \/ meta'[j].status \in {"absent", "completed", "failed"}
    <2>1. worker[s].job = j /\ TaskAgrees(worker[s], meta[j])
      BY <1>5 DEF WorkerHolds, CarrierStatus
    <2>2. CASE WorkerDrop(s) \/ WorkerSaveResult(s) \/ WorkerBury(s)
      BY <2>1, <2>2 DEF WorkerDrop, WorkerSaveResult, WorkerBury, TaskAgrees, StoredAs, redisVars
    <2>3. CASE WorkerDies(s)
      BY <1>5, <2>3 DEF WorkerDies
    <2>4. CASE WorkerLoad(s)
      BY <1>2, <1>5, <2>4 DEF WorkerLoad, Task, Holding, TypeOK
    <2>5. CASE WorkerGenerated(s) \/ CompletingSaveFails(s)
      BY <1>2, <1>5, <2>5 DEF WorkerGenerated, CompletingSaveFails, WithBytes, Task, Holding, TypeOK
    <2>6. CASE WorkerStart(s) \/ WorkerGenerateRaises(s) \/ WorkerRetry(s) \/ WorkerGiveUp(s)
      <3>1. w.pc \in {"run", "except", "requeue", "bury"}
        BY <1>0, <1>2, <2>6 DEF WorkerStart, WorkerGenerateRaises, WorkerRetry, WorkerGiveUp,
           TypeOK, WorkerTask
      <3> QED
        BY <1>5, <3>1 DEF Holding
    <2> QED
      BY <2>2, <2>3, <2>4, <2>5, <2>6
  <1>6. \A j \in Jobs : meta'[j] = meta[j] \/ WorkerHolds(s, j)
    BY DEF WorkerDrop, WorkerLoad, WorkerStart, WorkerGenerated, WorkerSaveResult,
       WorkerGenerateRaises, WorkerRetry, WorkerGiveUp, WorkerBury, WorkerDies,
       CompletingSaveFails, SaveJob, WorkerHolds, Holding, redisVars, TypeOK
  <1>7. orphans \subseteq orphans'
    BY DEF WorkerDrop, WorkerLoad, WorkerStart, WorkerGenerated, WorkerSaveResult,
       WorkerGenerateRaises, WorkerRetry, WorkerGiveUp, WorkerBury, WorkerDies,
       CompletingSaveFails, ghostVars
  <1>8. \A j \in Jobs : WorkerHolds(s, j) => Carried(j) /\ j \in used
    BY DEF Carried, WorkerHolds, Responsible
  <1> QED
    BY <1>0, <1>4, <1>5, <1>6, <1>7, <1>8 DEF CarriedAlong

LEMMA RestartCarries ==
    ASSUME IndInv, NEW s \in Services, Restart(s)
    PROVE  \A j \in Jobs : CarriedAlong(j)
  <1> USE DEF IndInv
  <1>1. /\ \A h \in Handlers : api'[h] = IF h \in HandlersOf(s) THEN NoCall ELSE api[h]
        /\ worker'[s] = Pulling /\ \A t \in Services : t # s => worker'[t] = worker[t]
        /\ UNCHANGED <<meta, queue, used>> /\ orphans \subseteq orphans'
        /\ \A j \in Jobs : WorkerHolds(s, j) => j \in orphans'
        /\ \A j \in Jobs, h \in HandlersOf(s) : ApiHolds(h, j) => j \in orphans'
    BY DEF Restart, TypeOK, redisVars
  <1>2. \A j \in Jobs :
          /\ \A t \in Services : WorkerHolds(t, j)' <=> t # s /\ WorkerHolds(t, j)
          /\ \A h \in Handlers : ApiHolds(h, j)' <=> h \notin HandlersOf(s) /\ ApiHolds(h, j)
    BY <1>1 DEF WorkerHolds, ApiHolds, Holding, Submitting, Pulling, Task, NoCall, Call
  <1>3. \A j \in Jobs : Queued(j)' <=> Queued(j)
    BY <1>1 DEF Queued
  <1>4. \A j \in Jobs :
          /\ Carried(j)' => Carried(j)
          /\ Carried(j) => \/ Carried(j)' \/ WorkerHolds(s, j)
                           \/ \E h \in HandlersOf(s) : ApiHolds(h, j)
    BY <1>2, <1>3 DEF Carried
  <1> QED
    BY <1>1, <1>4 DEF CarriedAlong

LEMMA ExpireCarries ==
    ASSUME IndInv, NEW x \in RedisKeys, Expire(x)
    PROVE  \A j \in Jobs : CarriedAlong(j)
  <1>1. UNCHANGED <<queue, api, worker, used, orphans>>
    BY DEF Expire, ghostVars
  <1>2. \A j \in Jobs : Carried(j)' <=> Carried(j)
    BY <1>1 DEF Carried, Queued, ApiHolds, WorkerHolds
  <1>3. \A j \in Jobs : meta'[j] \in {meta[j], NoMeta} /\ (j \notin used => meta'[j] = meta[j])
    BY DEF Expire, IndInv, TypeOK, Responsible
  <1> QED
    BY <1>1, <1>2, <1>3 DEF CarriedAlong

LEMMA StepCarries ==
    ASSUME IndInv, [Next]_vars
    PROVE  \A j \in Jobs : CarriedAlong(j)
  <1>1. CASE UNCHANGED vars
    BY <1>1 DEF vars, redisVars, ghostVars, CarriedAlong, Carried, Queued, ApiHolds, WorkerHolds
  <1>2. ASSUME NEW h \in Handlers, NEW k \in Keys, SubmitResolve(h, k)
        PROVE  \A j \in Jobs : CarriedAlong(j)
    BY <1>2, HandlerCarries
  <1>3. ASSUME NEW h \in Handlers, SubmitStep(h) \/ SubmitFails(h)
        PROVE  \A j \in Jobs : CarriedAlong(j)
    BY <1>3, HandlerCarries, CreateCarries, EnqueueCarries DEF SubmitStep
  <1>4. ASSUME NEW s \in Services, WorkerStep(s) PROVE \A j \in Jobs : CarriedAlong(j)
    BY <1>4, PullCarries, RequeueCarries, WorkerCarries DEF WorkerStep
  <1>5. ASSUME NEW s \in Services, FaultStep(s) PROVE \A j \in Jobs : CarriedAlong(j)
    BY <1>5, RestartCarries, WorkerCarries DEF FaultStep
  <1>6. ASSUME NEW x \in RedisKeys, Expire(x) PROVE \A j \in Jobs : CarriedAlong(j)
    BY <1>6, ExpireCarries
  <1> QED
    BY <1>1, <1>2, <1>3, <1>4, <1>5, <1>6 DEF Next

-----------------------------------------------------------------------------
(* No job is stuck but by the death of its carrier.                        *)
LEMMA StepLeavesNoneStuck ==
    IndInv /\ StuckOnlyIfOrphaned /\ [Next]_vars => StuckOnlyIfOrphaned'
  <1> SUFFICES ASSUME IndInv, StuckOnlyIfOrphaned, [Next]_vars, NEW j \in Jobs,
                      meta'[j].status \in {"queued", "processing"}
               PROVE  Carried(j)' \/ j \in orphans'
    BY DEF StuckOnlyIfOrphaned
  <1>1. CarriedAlong(j)
    BY StepCarries
  <1>2. NoMeta.status = "absent" /\ (j \notin used => meta[j] = NoMeta)
    BY DEF NoMeta, IndInv, Responsible
  <1>3. CASE meta'[j] = meta[j]
    BY <1>1, <1>3 DEF CarriedAlong, StuckOnlyIfOrphaned
  <1>4. CASE meta'[j] # meta[j]
    BY <1>1, <1>2, <1>4 DEF CarriedAlong
  <1> QED
    BY <1>3, <1>4

(* A stored job that is neither completed nor failed is in the queue or in *)
(* somebody's hands, or was in those of a handler or worker that died.     *)
THEOREM NoneStuck == Spec => []StuckOnlyIfOrphaned
  <1>1. Init => StuckOnlyIfOrphaned
    BY DEF Init, StuckOnlyIfOrphaned, NoMeta
  <1>2. IndInv /\ StuckOnlyIfOrphaned /\ [Next]_vars => StuckOnlyIfOrphaned'
    BY StepLeavesNoneStuck
  <1> QED
    BY <1>1, <1>2, Invariance, PTL DEF Spec

-----------------------------------------------------------------------------
(* The dead-letter list.                                                   *)

Listed(j) == \E i \in 1 .. Len(dead) : dead[i] = j

(* The list is within its limit, and nobody answers for a job it lists:    *)
(* such a job is never written again, whatever is still in flight.         *)
DeadGood ==
    /\ Len(dead) <= DeadLimit
    /\ \A j \in Jobs : Listed(j) => j \in used /\ ~Carried(j)

(* List r is list q with n pushed to its end, and trimmed.                 *)
PushedTo(q, n, r) ==
    /\ Len(r) <= DeadLimit
    /\ \A i, k \in 1 .. Len(r) : r[i] = r[k] => i = k
    /\ \A i \in 1 .. Len(r) : r[i] = n \/ \E k \in 1 .. Len(q) : r[i] = q[k]
    /\ \E i \in 1 .. Len(r) : r[i] = n
    /\ Len(r) # DeadLimit => \A i \in 1 .. Len(q) : \E k \in 1 .. Len(r) : r[k] = q[i]

LEMMA TrimSays ==
    ASSUME NEW q \in Seq(Jobs), NEW n \in Jobs, Len(q) <= DeadLimit,
           \A i, k \in 1 .. Len(q) : q[i] = q[k] => i = k,
           \A i \in 1 .. Len(q) : q[i] # n
    PROVE  PushedTo(q, n, Trim(Append(q, n)))
  <1> USE DEF PushedTo
  <1> DEFINE r == Trim(Append(q, n))
  <1> DEFINE a == Append(q, n)
  <1>0. DeadLimit \in Nat \ {0}
    BY DocxAssumption
  <1>1. /\ r = Trim(a)
        /\ a \in Seq(Jobs) /\ Len(a) = Len(q) + 1 /\ Len(q) \in Nat /\ a[Len(q) + 1] = n
        /\ \A i \in 1 .. Len(q) : a[i] = q[i]
    OBVIOUS
  <1>2. \A i, k \in 1 .. Len(a) : a[i] = a[k] => i = k
    BY <1>1
  <1> HIDE DEF a, r
  <1> SUFFICES PushedTo(q, n, r)
    BY DEF r
  <1>3. CASE Len(a) <= DeadLimit
    <2>1. r = a
      BY <1>0, <1>1, <1>3 DEF Trim
    <2> QED
      BY <1>0, <1>1, <1>2, <1>3, <2>1
  <1>4. CASE ~(Len(a) <= DeadLimit)
    <2>1. r = Tail(a) /\ Len(q) = DeadLimit
      BY <1>0, <1>1, <1>4 DEF Trim
    <2>2. Len(r) = DeadLimit /\ \A i \in 1 .. Len(r) : r[i] = a[i + 1] /\ i + 1 \in 1 .. Len(a)
      BY <1>0, <1>1, <2>1
    <2>3. r[DeadLimit] = n
      BY <1>0, <1>1, <2>1, <2>2
    <2>4. ASSUME NEW i \in 1 .. Len(r), NEW k \in 1 .. Len(r), r[i] = r[k]
          PROVE  i = k
      <3>1. i + 1 = k + 1
        BY <1>2, <2>2, <2>4
      <3> QED
        BY <1>0, <2>2, <3>1
    <2>5. \A i \in 1 .. Len(r) : r[i] = n \/ \E k \in 1 .. Len(q) : r[i] = q[k]
      BY <1>0, <1>1, <2>1, <2>2
    <2>6. \E i \in 1 .. Len(r) : r[i] = n
      BY <1>0, <2>2, <2>3
    <2> QED
      BY <1>0, <2>1, <2>2, <2>4, <2>5, <2>6
  <1> QED
    BY <1>3, <1>4

(* A worker about to list a failure does so, or dies.                      *)
LEMMA BuriesOrDies ==
    ASSUME IndInv, Next, NEW s \in Services, worker[s].pc = "bury"
    PROVE  worker'[s] = worker[s] \/ WorkerBury(s) \/ worker[s].job \in orphans'
  <1> USE DEF IndInv
  <1>1. worker[s].job \in Jobs /\ WorkerHolds(s, worker[s].job)
    BY HolderHasJob DEF WorkerHolds, Holding
  <1>2. ASSUME NEW t \in Services, t # s, WorkerStep(t) \/ FaultStep(t)
        PROVE  worker'[s] = worker[s]
    BY <1>2 DEF WorkerStep, WorkerPull, WorkerDrop, WorkerLoad, WorkerStart, WorkerGenerated,
       WorkerSaveResult, WorkerGenerateRaises, WorkerRetry, WorkerRequeue, WorkerGiveUp,
       WorkerBury, FaultStep, Restart, WorkerDies, CompletingSaveFails, TypeOK
  <1>3. ASSUME WorkerStep(s) PROVE WorkerBury(s)
    BY <1>3 DEF WorkerStep, WorkerPull, WorkerDrop, WorkerLoad, WorkerStart, WorkerGenerated,
       WorkerSaveResult, WorkerGenerateRaises, WorkerRetry, WorkerRequeue, WorkerGiveUp
  <1>4. ASSUME FaultStep(s) PROVE worker'[s] = worker[s] \/ worker[s].job \in orphans'
    BY <1>1, <1>4 DEF FaultStep, Restart, WorkerDies, CompletingSaveFails
  <1>5. ASSUME NEW h \in Handlers,
               SubmitStep(h) \/ SubmitFails(h) \/ \E k \in Keys : SubmitResolve(h, k)
        PROVE  worker' = worker
    BY <1>5 DEF SubmitStep, SubmitResolve, SubmitReplyExisting, SubmitStaleKey, SubmitCreate,
       SubmitRegister, SubmitEnqueue, SubmitFails
  <1>6. ASSUME NEW x \in RedisKeys, Expire(x) PROVE worker' = worker
    BY <1>6 DEF Expire
  <1> QED
    BY <1>2, <1>3, <1>4, <1>5, <1>6 DEF Next

(* Who saves a final failure is about to list it.                          *)
LEMMA FailsAndBuries ==
    ASSUME IndInv, Next, NEW j \in Jobs, meta'[j].status = "failed", meta'[j] # meta[j]
    PROVE  \E s \in Services : worker'[s].job = j /\ worker'[s].pc = "bury"
  <1> USE DEF IndInv
  <1>1. ASSUME NEW s \in Services, WorkerGiveUp(s)
        PROVE  \E t \in Services : worker'[t].job = j /\ worker'[t].pc = "bury"
    <2>1. worker[s].job = j
      BY <1>1 DEF WorkerGiveUp, SaveJob, TypeOK
    <2>2. worker'[s].job = worker[s].job /\ worker'[s].pc = "bury"
      BY <1>1 DEF WorkerGiveUp, TypeOK, WorkerTask
    <2> QED
      BY <2>1, <2>2
  <1>2. ASSUME NEW h \in Handlers, SubmitCreate(h) PROVE FALSE
    BY <1>2 DEF SubmitCreate, SaveJob, Meta, TypeOK
  <1>3. ASSUME NEW s \in Services, WorkerStart(s) \/ WorkerGenerated(s) \/ WorkerRetry(s) PROVE FALSE
    <2>1. \E st \in {"processing", "completed", "queued"} :
             meta' = [meta EXCEPT ![worker[s].job] = LocalMeta(s, st)]
      BY <1>3 DEF WorkerStart, WorkerGenerated, WorkerRetry, SaveJob
    <2> QED
      BY <2>1 DEF LocalMeta, Meta, TypeOK
  <1>4. ASSUME NEW x \in RedisKeys, Expire(x) PROVE FALSE
    BY <1>4 DEF Expire, NoMeta
  <1>5. ASSUME NEW h \in Handlers, SubmitStep(h) \/ SubmitFails(h), ~SubmitCreate(h)
        PROVE  meta' = meta
    BY <1>5 DEF SubmitStep, SubmitReplyExisting, SubmitStaleKey, SubmitRegister, SubmitEnqueue,
       SubmitFails, redisVars
  <1>6. ASSUME NEW h \in Handlers, NEW k \in Keys, SubmitResolve(h, k) PROVE meta' = meta
    BY <1>6 DEF SubmitResolve, redisVars
  <1>7. ASSUME NEW s \in Services, WorkerStep(s),
               ~(WorkerStart(s) \/ WorkerGenerated(s) \/ WorkerRetry(s) \/ WorkerGiveUp(s))
        PROVE  meta' = meta
    BY <1>7 DEF WorkerStep, WorkerPull, WorkerDrop, WorkerLoad, WorkerSaveResult,
       WorkerGenerateRaises, WorkerRequeue, WorkerBury, redisVars
  <1>8. ASSUME NEW s \in Services, FaultStep(s) PROVE meta' = meta
    BY <1>8 DEF FaultStep, Restart, WorkerDies, CompletingSaveFails, redisVars
  <1> QED
    BY <1>1, <1>2, <1>3, <1>4, <1>5, <1>6, <1>7, <1>8 DEF Next

LEMMA DeadOrBuried ==
    ASSUME Next PROVE dead' = dead \/ \E s \in Services : WorkerBury(s)
  BY DEF Next, SubmitStep, SubmitResolve, SubmitReplyExisting, SubmitStaleKey, SubmitCreate,
     SubmitRegister, SubmitEnqueue, SubmitFails, WorkerStep, WorkerPull, WorkerDrop, WorkerLoad,
     WorkerStart, WorkerGenerated, WorkerSaveResult, WorkerGenerateRaises, WorkerRetry, WorkerRequeue,
     WorkerGiveUp, FaultStep, Restart, WorkerDies, CompletingSaveFails, Expire,
     redisVars

LEMMA StepKeepsDeadLetter ==
    IndInv /\ DeadGood /\ DeadLetterAgrees /\ [Next]_vars => DeadGood' /\ DeadLetterAgrees'
  <1> SUFFICES ASSUME IndInv, DeadGood, DeadLetterAgrees, [Next]_vars
               PROVE  DeadGood' /\ DeadLetterAgrees'
    OBVIOUS
  <1> USE DEF IndInv
  <1>0. \A j \in Jobs : CarriedAlong(j)
    BY StepCarries
  <1>1. /\ dead \in Seq(Jobs) /\ used \subseteq Jobs /\ NoMeta.status = "absent"
        /\ \A i \in 1 .. Len(dead) : dead[i] \in Jobs
    BY DEF TypeOK, NoMeta
  <1>2. \A j \in Jobs : Listed(j) =>
          /\ j \in used' /\ ~Carried(j)'
          /\ meta'[j].status \in {"failed", "absent"}
    <2>1. \A j \in Jobs : Listed(j) => meta[j].status \in {"failed", "absent"}
      BY DEF DeadLetterAgrees, Listed
    <2> QED
      BY <1>0, <1>1, <2>1 DEF CarriedAlong, DeadGood
  <1>3. CASE UNCHANGED vars
    <2>1. UNCHANGED <<meta, dead, orphans, worker>>
      BY <1>3 DEF vars, redisVars, ghostVars
    <2> QED
      BY <1>1, <1>2, <2>1 DEF DeadGood, DeadLetterAgrees, Listed
  <1>4. CASE Next /\ dead' = dead
    <2>1. DeadGood'
      BY <1>2, <1>4 DEF DeadGood, Listed
    <2>2. ASSUME NEW j \in Jobs, meta'[j].status = "failed", ~Listed(j), j \notin orphans',
                 Len(dead) # DeadLimit
          PROVE  \E s \in Services : worker'[s].job = j /\ worker'[s].pc = "bury"
      <3>1. CASE meta'[j] # meta[j]
        BY <1>4, <2>2, <3>1, FailsAndBuries
      <3>2. CASE meta'[j] = meta[j]
        <4>1. j \notin orphans
          BY <1>0, <2>2 DEF CarriedAlong
        <4>2. PICK s \in Services : worker[s].job = j /\ worker[s].pc = "bury"
          BY <2>2, <3>2, <4>1 DEF DeadLetterAgrees, Listed
        <4>3. CASE WorkerBury(s)
          \* then the list is one longer, or it is full
          <5>1. dead' = Trim(Append(dead, j))
            BY <4>2, <4>3 DEF WorkerBury
          <5>2. \A i \in 1 .. Len(dead) : dead[i] # j
            BY <2>2 DEF Listed
          <5>3. \E i \in 1 .. Len(dead') : dead'[i] = j
            <6>1. Len(dead) <= DeadLimit /\ \A i, k \in 1 .. Len(dead) : dead[i] = dead[k] => i = k
              BY DEF DeadGood, DeadLetterAgrees
            <6> QED
              BY <1>1, <5>1, <5>2, <6>1, TrimSays DEF PushedTo
          <5> QED
            BY <1>4, <2>2, <5>3 DEF Listed
        <4> QED
          BY <1>4, <2>2, <4>2, <4>3, BuriesOrDies
      <3> QED
        BY <3>1, <3>2
    <2>3. DeadLetterAgrees'
      BY <1>1, <1>2, <1>4, <2>2 DEF DeadLetterAgrees, Listed
    <2> QED
      BY <2>1, <2>3
  <1>5. CASE Next /\ \E s \in Services : WorkerBury(s)
    <2>1. PICK s \in Services : WorkerBury(s)
      BY <1>5
    <2>0. PICK n : n = worker[s].job
      OBVIOUS
    <2>2. /\ dead' = Trim(Append(dead, n)) /\ UNCHANGED <<meta, queue, api, used, orphans>>
          /\ worker' = [worker EXCEPT ![s] = Pulling] /\ worker[s].pc = "bury"
      BY <2>0, <2>1 DEF WorkerBury, ghostVars
    <2>3. n \in Jobs /\ n \in used /\ WorkerHolds(s, n) /\ Carried(n)
      BY <2>0, <2>2, HolderHasJob DEF WorkerHolds, Holding, Carried
    <2>4. meta[n].status \in {"failed", "absent"}
      BY <2>2, <2>3 DEF CarrierStatus, WorkerHolds, TaskAgrees, StoredAs
    <2>5. /\ worker'[s] = Pulling
          /\ \A t \in Services : t # s => worker'[t] = worker[t]
      BY <2>2 DEF TypeOK
    <2>6. ~Carried(n)'
      <3>1. ~Queued(n)' /\ \A h \in Handlers : ~ApiHolds(h, n)'
        BY <2>2, <2>3 DEF SingleCarrier, Queued, ApiHolds
      <3>2. \A t \in Services : ~WorkerHolds(t, n)'
        BY <2>3, <2>5 DEF SingleCarrier, WorkerHolds, Holding, Pulling, Task
      <3> QED
        BY <3>1, <3>2 DEF Carried
    <2>7. PushedTo(dead, n, dead')
      <3>1. \A i \in 1 .. Len(dead) : dead[i] # n
        BY <2>3 DEF DeadGood, Listed
      <3>2. Len(dead) <= DeadLimit /\ \A i, k \in 1 .. Len(dead) : dead[i] = dead[k] => i = k
        BY DEF DeadGood, DeadLetterAgrees
      <3> QED
        BY <1>1, <2>2, <2>3, <3>1, <3>2, TrimSays
    <2>8. DeadGood'
      <3>1. \A j \in Jobs : Listed(j)' => Listed(j) \/ j = n
        <4>1. \A i \in 1 .. Len(dead') : dead'[i] = n \/ \E k \in 1 .. Len(dead) : dead'[i] = dead[k]
          BY <2>7 DEF PushedTo
        <4> QED
          BY <4>1, Zenon DEF Listed
      <3> QED
        BY <1>2, <2>2, <2>3, <2>6, <2>7, <3>1 DEF DeadGood, PushedTo
    <2>9. ASSUME NEW j \in Jobs, meta'[j].status = "failed", j \notin orphans',
                 Len(dead') # DeadLimit, \A i \in 1 .. Len(dead') : dead'[i] # j
          PROVE  \E t \in Services : worker'[t].job = j /\ worker'[t].pc = "bury"
      <3>1. j # n /\ \A i \in 1 .. Len(dead) : dead[i] # j
        BY <2>7, <2>9 DEF PushedTo
      <3>2. Len(dead) # DeadLimit \/ \E i \in 1 .. Len(dead) : TRUE
        BY <1>1, DocxAssumption
      <3>3. Len(dead) # DeadLimit
        <4>1. dead' = Trim(Append(dead, n)) /\ Len(Append(dead, n)) = Len(dead) + 1
          BY <1>1, <2>2, <2>3
        <4>2. Len(dead) = DeadLimit => Len(dead') = DeadLimit
          BY <1>1, <2>3, <4>1, DocxAssumption DEF Trim
        <4> QED
          BY <2>9, <4>2
      <3>4. PICK t \in Services : worker[t].job = j /\ worker[t].pc = "bury"
        BY <2>2, <2>9, <3>1, <3>3 DEF DeadLetterAgrees
      <3>5. t # s
        BY <2>0, <3>1, <3>4
      <3> QED
        BY <2>5, <3>4, <3>5
    <2>10. DeadLetterAgrees'
      <3>1. \A i \in 1 .. Len(dead') : meta'[dead'[i]].status \in {"failed", "absent"}
        <4>1. \A i \in 1 .. Len(dead) : meta[dead[i]].status \in {"failed", "absent"}
          BY DEF DeadLetterAgrees
        <4>2. \A i \in 1 .. Len(dead') : dead'[i] = n \/ \E k \in 1 .. Len(dead) : dead'[i] = dead[k]
          BY <2>7 DEF PushedTo
        <4>3. meta' = meta
          BY <2>2
        <4> QED
          BY ONLY <2>4, <4>1, <4>2, <4>3
      <3> QED
        BY <2>7, <2>9, <3>1 DEF DeadLetterAgrees, PushedTo
    <2> QED
      BY <2>8, <2>10
  <1> QED
    BY <1>3, <1>4, <1>5, DeadOrBuried

(* The dead-letter list and the failed jobs agree.                         *)
THEOREM DeadLettersAgree == Spec => []DeadLetterAgrees
  <1>1. Init => DeadGood /\ DeadLetterAgrees
    BY DocxAssumption DEF Init, DeadGood, Listed, DeadLetterAgrees, NoMeta
  <1>2. IndInv /\ DeadGood /\ DeadLetterAgrees /\ [Next]_vars => DeadGood' /\ DeadLetterAgrees'
    BY StepKeepsDeadLetter
  <1> QED
    BY <1>1, <1>2, Invariance, PTL DEF Spec

-----------------------------------------------------------------------------
(* Finished documents.                                                     *)

(* The worker that completes j has not let go of it, or died.              *)
Finishing(j) ==
    \/ j \in orphans
    \/ \E s \in Services : worker[s].job = j /\ worker[s].pc \in {"saveResult", "except"}

(* The document of a finished job was stored after the status that reads   *)
(* "completed", and expires after it.                                      *)
Outlived(j) == "expire" \in Faults => <<MetaKey(j), ResultKey(j)>> \in older
DocumentsOutlive ==
    \A j \in Jobs : meta[j].status = "completed" /\ j \in result => Finishing(j) \/ Outlived(j)

LEMMA FinishesOrDies ==
    ASSUME IndInv, Next, NEW j \in Jobs, Finishing(j), meta'[j].status = "completed"
    PROVE  Finishing(j)' \/ \E s \in Services : WorkerSaveResult(s) /\ worker[s].job = j
  <1> USE DEF IndInv
  <1>0. CASE j \in orphans
    <2>1. CarriedAlong(j)
      BY StepCarries
    <2> QED
      BY <1>0, <2>1 DEF CarriedAlong, Finishing
  <1> SUFFICES ASSUME NEW s \in Services, worker[s].job = j, worker[s].pc \in {"saveResult", "except"}
               PROVE  Finishing(j)' \/ WorkerSaveResult(s)
    BY <1>0 DEF Finishing
  <1>1. WorkerHolds(s, j)
    BY DEF WorkerHolds, Holding
  <1>2. ASSUME NEW t \in Services, t # s, WorkerStep(t) \/ FaultStep(t)
        PROVE  worker'[s] = worker[s]
    BY <1>2 DEF WorkerStep, WorkerPull, WorkerDrop, WorkerLoad, WorkerStart, WorkerGenerated,
       WorkerSaveResult, WorkerGenerateRaises, WorkerRetry, WorkerRequeue, WorkerGiveUp,
       WorkerBury, FaultStep, Restart, WorkerDies, CompletingSaveFails, TypeOK
  <1>3. ASSUME WorkerStep(s) PROVE WorkerSaveResult(s)
    <2>1. WorkerSaveResult(s) \/ WorkerRetry(s) \/ WorkerGiveUp(s)
      BY <1>3 DEF WorkerStep, WorkerPull, WorkerDrop, WorkerLoad, WorkerStart, WorkerGenerated,
         WorkerGenerateRaises, WorkerRequeue, WorkerBury
    <2>2. ASSUME WorkerRetry(s) \/ WorkerGiveUp(s) PROVE FALSE
      <3>1. \E st \in {"queued", "failed"} : meta' = [meta EXCEPT ![j] = LocalMeta(s, st)]
        BY <2>2 DEF WorkerRetry, WorkerGiveUp, SaveJob
      <3> QED
        BY <3>1 DEF LocalMeta, Meta, TypeOK
    <2> QED
      BY <2>1, <2>2
  <1>4. ASSUME FaultStep(s) PROVE worker'[s] = worker[s] \/ Finishing(j)'
    <2>1. CASE Restart(s) \/ WorkerDies(s)
      BY <1>1, <2>1 DEF Restart, WorkerDies, Finishing
    <2>2. CASE CompletingSaveFails(s)
      BY <2>2 DEF CompletingSaveFails, WithBytes, Task, Finishing, TypeOK
    <2> QED
      BY <1>4, <2>1, <2>2 DEF FaultStep
  <1>5. ASSUME NEW h \in Handlers,
               SubmitStep(h) \/ SubmitFails(h) \/ \E k \in Keys : SubmitResolve(h, k)
        PROVE  worker' = worker
    BY <1>5 DEF SubmitStep, SubmitResolve, SubmitReplyExisting, SubmitStaleKey, SubmitCreate,
       SubmitRegister, SubmitEnqueue, SubmitFails
  <1>6. ASSUME NEW x \in RedisKeys, Expire(x) PROVE worker' = worker
    BY <1>6 DEF Expire
  <1>7. worker'[s] = worker[s] => Finishing(j)'
    BY DEF Finishing
  <1> QED
    BY <1>2, <1>3, <1>4, <1>5, <1>6, <1>7 DEF Next

(* Who completes a job is the one to store its document.                   *)
LEMMA CompletesAndStores ==
    ASSUME IndInv, Next, NEW j \in Jobs, meta'[j].status = "completed", meta'[j] # meta[j]
    PROVE  Finishing(j)'
  <1> USE DEF IndInv
  <1>1. ASSUME NEW s \in Services, WorkerGenerated(s) PROVE Finishing(j)'
    <2>1. worker[s].job = j
      BY <1>1 DEF WorkerGenerated, TypeOK
    <2>2. worker'[s].job = worker[s].job /\ worker'[s].pc = "saveResult"
      BY <1>1 DEF WorkerGenerated, WithBytes, Task, TypeOK
    <2> QED
      BY <2>1, <2>2 DEF Finishing
  <1>2. ASSUME NEW h \in Handlers, SubmitCreate(h) PROVE FALSE
    BY <1>2 DEF SubmitCreate, SaveJob, Meta, TypeOK
  <1>3. ASSUME NEW s \in Services, WorkerStart(s) \/ WorkerRetry(s) \/ WorkerGiveUp(s) PROVE FALSE
    <2>1. \E st \in {"processing", "failed", "queued"} :
             meta' = [meta EXCEPT ![worker[s].job] = LocalMeta(s, st)]
      BY <1>3 DEF WorkerStart, WorkerGiveUp, WorkerRetry, SaveJob
    <2> QED
      BY <2>1 DEF LocalMeta, Meta, TypeOK
  <1>4. ASSUME NEW x \in RedisKeys, Expire(x) PROVE FALSE
    BY <1>4 DEF Expire, NoMeta
  <1>5. ASSUME NEW h \in Handlers, SubmitStep(h) \/ SubmitFails(h), ~SubmitCreate(h)
        PROVE  meta' = meta
    BY <1>5 DEF SubmitStep, SubmitReplyExisting, SubmitStaleKey, SubmitRegister, SubmitEnqueue,
       SubmitFails, redisVars
  <1>6. ASSUME NEW h \in Handlers, NEW k \in Keys, SubmitResolve(h, k) PROVE meta' = meta
    BY <1>6 DEF SubmitResolve, redisVars
  <1>7. ASSUME NEW s \in Services, WorkerStep(s),
               ~(WorkerStart(s) \/ WorkerGenerated(s) \/ WorkerRetry(s) \/ WorkerGiveUp(s))
        PROVE  meta' = meta
    BY <1>7 DEF WorkerStep, WorkerPull, WorkerDrop, WorkerLoad, WorkerSaveResult,
       WorkerGenerateRaises, WorkerRequeue, WorkerBury, redisVars
  <1>8. ASSUME NEW s \in Services, FaultStep(s) PROVE meta' = meta
    BY <1>8 DEF FaultStep, Restart, WorkerDies, CompletingSaveFails, redisVars
  <1> QED
    BY <1>1, <1>2, <1>3, <1>4, <1>5, <1>6, <1>7, <1>8 DEF Next

(* What is written under another key leaves the order of two keys alone.   *)
LEMMA OrderKept ==
    ASSUME NEW rel, NEW a, NEW b, NEW x, NEW on, x # a, x # b, <<a, b>> \in rel
    PROVE  <<a, b>> \in Touch(rel, x, on) /\ <<a, b>> \in Forget(rel, x)
  BY DEF Touch, Forget

LEMMA SaveKeepsOthers ==
    ASSUME IndInv, NEW i \in Jobs, NEW j \in Jobs, i # j, NEW m, NEW b \in BOOLEAN,
           SaveJob(i, m, b), j \in result
    PROVE  j \in result' /\ (<<MetaKey(j), ResultKey(j)>> \in older =>
                              <<MetaKey(j), ResultKey(j)>> \in older')
  <1>1. MetaKey(i) # MetaKey(j) /\ MetaKey(i) # ResultKey(j)
        /\ ResultKey(i) # MetaKey(j) /\ ResultKey(i) # ResultKey(j)
    BY DEF MetaKey, ResultKey
  <1>2. j \in result'
    BY DEF SaveJob
  <1>3. ASSUME <<MetaKey(j), ResultKey(j)>> \in older
        PROVE  <<MetaKey(j), ResultKey(j)>> \in older'
    <2>1. <<MetaKey(j), ResultKey(j)>> \in Touch(older, MetaKey(i), Live)
      BY <1>1, <1>3, OrderKept
    <2> QED
      BY <1>1, <2>1, OrderKept DEF SaveJob
  <1> QED
    BY <1>2, <1>3

(* The stored document of a finished job, which nobody is working on.      *)
LEMMA DocumentKept ==
    ASSUME IndInv, Next, NEW j \in Jobs, ~Finishing(j), ~Finishing(j)',
           meta[j].status = "completed", meta'[j] = meta[j], j \in result, Outlived(j)
    PROVE  j \in result' /\ Outlived(j)'
  <1> USE DEF IndInv
  <1> DEFINE Kept == /\ j \in result'
                     /\ <<MetaKey(j), ResultKey(j)>> \in older =>
                          <<MetaKey(j), ResultKey(j)>> \in older'
  <1>0. Kept => j \in result' /\ Outlived(j)'
    BY DEF Outlived, MetaKey, ResultKey
  <1>1. ASSUME NEW h \in Handlers, SubmitCreate(h) PROVE Kept
    <2>1. PICK i \in Jobs \ used : SaveJob(i, Meta("queued", 0, api[h].key), FALSE)
      BY <1>1 DEF SubmitCreate
    <2>2. i # j
      BY <2>1 DEF Responsible, NoMeta
    <2> QED
      BY <2>1, <2>2, SaveKeepsOthers
  <1>2. ASSUME NEW s \in Services, WorkerStart(s) \/ WorkerRetry(s) \/ WorkerGiveUp(s) PROVE Kept
    <2>1. PICK st \in {"processing", "queued", "failed"} :
            SaveJob(worker[s].job, LocalMeta(s, st), worker[s].bytes)
      BY <1>2 DEF WorkerStart, WorkerRetry, WorkerGiveUp
    <2>2. worker[s].job \in Jobs /\ worker[s].bytes \in BOOLEAN
      BY <1>2, HolderHasJob DEF WorkerStart, WorkerRetry, WorkerGiveUp, Holding, TypeOK, WorkerTask
    <2>3. worker[s].job # j
      BY <2>1, <2>2 DEF SaveJob, LocalMeta, Meta, TypeOK
    <2> QED
      BY <2>1, <2>2, <2>3, SaveKeepsOthers
  <1>3. ASSUME NEW s \in Services, WorkerGenerated(s) \/ WorkerSaveResult(s) \/ CompletingSaveFails(s)
        PROVE  Kept
    <2> DEFINE i == worker[s].job
    <2>1. i \in Jobs
      BY <1>3, HolderHasJob DEF WorkerGenerated, WorkerSaveResult, CompletingSaveFails, Holding
    <2>2. i # j
      <3>1. CASE WorkerSaveResult(s)
        BY <3>1 DEF WorkerSaveResult, Finishing
      <3>2. CASE WorkerGenerated(s) \/ CompletingSaveFails(s)
        <4>1. /\ worker'[s].job = worker[s].job
              /\ worker'[s].pc \in {"saveResult", "except"}
          BY <3>2 DEF WorkerGenerated, CompletingSaveFails, WithBytes, Task, TypeOK
        <4> QED
          BY <4>1 DEF Finishing
      <3> QED
        BY <1>3, <3>1, <3>2
    <2>3. j \in result'
      BY <1>3 DEF WorkerGenerated, WorkerSaveResult, CompletingSaveFails
    <2>4. \/ older' = older
          \/ older' = Touch(older, MetaKey(i), Live)
          \/ older' = Touch(older, ResultKey(i), Live)
      BY <1>3 DEF WorkerGenerated, WorkerSaveResult, CompletingSaveFails
    <2>5. MetaKey(i) # MetaKey(j) /\ MetaKey(i) # ResultKey(j)
          /\ ResultKey(i) # MetaKey(j) /\ ResultKey(i) # ResultKey(j)
      BY <2>2 DEF MetaKey, ResultKey
    <2> QED
      BY <2>3, <2>4, <2>5, OrderKept
  <1>4. ASSUME NEW h \in Handlers, SubmitRegister(h) PROVE Kept
    <2>1. /\ result' = result
          /\ older' = Touch(older, IdemKey(api[h].key), Live)
      BY <1>4 DEF SubmitRegister
    <2>2. IdemKey(api[h].key) # MetaKey(j) /\ IdemKey(api[h].key) # ResultKey(j)
      BY DEF IdemKey, MetaKey, ResultKey
    <2> QED
      BY <2>1, <2>2, OrderKept
  <1>5. ASSUME NEW x \in RedisKeys, Expire(x) PROVE Kept
    <2>1. x # MetaKey(j)
      BY <1>5 DEF Expire, NoMeta
    <2>2. x # ResultKey(j)
      <3>1. MetaKey(j) \in Live
        BY DEF Live
      <3> QED
        BY <1>5, <3>1 DEF Expire, Outlived
    <2>3. j \in result' /\ older' = Forget(older, x)
      BY <1>5, <2>2 DEF Expire
    <2> QED
      BY <2>1, <2>2, <2>3, OrderKept
  <1>6. ASSUME UNCHANGED <<result, older>> PROVE Kept
    BY <1>6
  <1>7. ASSUME NEW h \in Handlers, SubmitStep(h) \/ SubmitFails(h), ~SubmitCreate(h),
               ~SubmitRegister(h)
        PROVE  UNCHANGED <<result, older>>
    BY <1>7 DEF SubmitStep, SubmitReplyExisting, SubmitStaleKey, SubmitEnqueue, SubmitFails,
       redisVars
  <1>8. ASSUME NEW h \in Handlers, NEW k \in Keys, SubmitResolve(h, k)
        PROVE  UNCHANGED <<result, older>>
    BY <1>8 DEF SubmitResolve, redisVars
  <1>9. ASSUME NEW s \in Services, WorkerStep(s),
               ~(\/ WorkerStart(s) \/ WorkerGenerated(s) \/ WorkerSaveResult(s)
                 \/ WorkerRetry(s) \/ WorkerGiveUp(s))
        PROVE  UNCHANGED <<result, older>>
    BY <1>9 DEF WorkerStep, WorkerPull, WorkerDrop, WorkerLoad,
       WorkerGenerateRaises, WorkerRequeue, WorkerBury, redisVars
  <1>10. ASSUME NEW s \in Services, FaultStep(s), ~CompletingSaveFails(s)
         PROVE  UNCHANGED <<result, older>>
    BY <1>10 DEF FaultStep, Restart, WorkerDies, redisVars
  <1> HIDE DEF Kept
  <1> QED
    BY <1>0, <1>1, <1>2, <1>3, <1>4, <1>5, <1>6, <1>7, <1>8, <1>9, <1>10 DEF Next

LEMMA StepKeepsDocuments ==
    IndInv /\ DocumentsOutlive /\ CompletedDownloadable /\ [Next]_vars
      => DocumentsOutlive' /\ CompletedDownloadable'
  <1> SUFFICES ASSUME IndInv, DocumentsOutlive, CompletedDownloadable, [Next]_vars,
                      NEW j \in Jobs, meta'[j].status = "completed"
               PROVE  Finishing(j)' \/ (j \in result' /\ Outlived(j)')
    BY DEF DocumentsOutlive, CompletedDownloadable, Finishing
  <1> USE DEF IndInv
  <1>1. CASE UNCHANGED vars
    <2>1. UNCHANGED <<meta, result, older, worker, orphans>>
      BY <1>1 DEF vars, redisVars, ghostVars
    <2> QED
      BY <2>1 DEF DocumentsOutlive, CompletedDownloadable, Finishing, Outlived
  <1>2. CASE Next /\ \E s \in Services : WorkerSaveResult(s) /\ worker[s].job = j
    <2>1. PICK s \in Services : WorkerSaveResult(s) /\ worker[s].job = j
      BY <1>2
    <2>2. /\ meta' = meta /\ result' = result \cup {j}
          /\ older' = Touch(older, ResultKey(j), Live)
      BY <2>1 DEF WorkerSaveResult
    <2>3. MetaKey(j) \in Live /\ MetaKey(j) # ResultKey(j)
      BY <2>2 DEF Live, MetaKey, ResultKey
    <2>4. "expire" \in Faults => <<MetaKey(j), ResultKey(j)>> \in older'
      BY <2>2, <2>3 DEF Touch
    <2> QED
      BY <2>2, <2>4 DEF Outlived, MetaKey, ResultKey
  <1>3. CASE Next /\ ~\E s \in Services : WorkerSaveResult(s) /\ worker[s].job = j
    <2> SUFFICES ASSUME ~Finishing(j)' PROVE j \in result' /\ Outlived(j)'
      OBVIOUS
    <2>1. meta'[j] = meta[j] /\ meta[j].status = "completed"
      BY <1>3, CompletesAndStores
    <2>2. ~Finishing(j)
      BY <1>3, FinishesOrDies
    <2>3. j \in result /\ Outlived(j)
      BY <2>1, <2>2 DEF DocumentsOutlive, CompletedDownloadable, Finishing
    <2> QED
      BY <1>3, <2>1, <2>2, <2>3, DocumentKept
  <1> QED
    BY <1>1, <1>2, <1>3

(* A job that reads "completed" has its document stored, unless its worker *)
(* is still storing it or died doing so; the TTL never parts the two.      *)
THEOREM DocumentsStay == Spec => []CompletedDownloadable
  <1>1. Init => DocumentsOutlive /\ CompletedDownloadable
    BY DEF Init, DocumentsOutlive, CompletedDownloadable, NoMeta
  <1>2. IndInv /\ DocumentsOutlive /\ CompletedDownloadable /\ [Next]_vars
          => DocumentsOutlive' /\ CompletedDownloadable'
    BY StepKeepsDocuments
  <1> QED
    BY <1>1, <1>2, Invariance, PTL DEF Spec


-----------------------------------------------------------------------------
(* What one step does to a job that exists.                                *)

(* The worker t of job j stays, or goes to its next step; what it does not *)
(* load it keeps.                                                          *)
TaskMoves(t, j) ==
    \/ worker'[t] = worker[t]
    \/ /\ worker[t].pc = "load" /\ worker'[t].pc = "start"
       /\ meta[j].status # "absent"
       /\ worker'[t].payload = meta[j].payload
       /\ worker'[t].attempts = meta[j].attempts + 1
    \/ /\ <<worker[t].pc, worker'[t].pc>> \in
             {<<"start", "run">>, <<"run", "saveResult">>, <<"run", "except">>,
              <<"saveResult", "except">>, <<"except", "requeue">>, <<"except", "bury">>}
       /\ worker[t].pc = "saveResult" => "redis" \in Faults
       /\ worker'[t].payload = worker[t].payload
       /\ worker'[t].attempts = worker[t].attempts

(* The worker t of job j saves it, going from step to step.                *)
Saves(t, j) ==
    /\ WorkerHolds(t, j) /\ WorkerHolds(t, j)'
    /\ \E x \in {<<"start", "processing", "run">>, <<"run", "completed", "saveResult">>,
                 <<"except", "queued", "requeue">>, <<"except", "failed", "bury">>} :
         /\ worker[t].pc = x[1] /\ worker'[t].pc = x[3]
         /\ meta'[j] = LocalMeta(t, x[2])

LEMMA WorkerStepOfJob ==
    ASSUME IndInv, NEW t \in Services, WorkerStep(t) \/ FaultStep(t),
           NEW j \in Jobs, WorkerHolds(t, j)'
    PROVE  \/ WorkerHolds(t, j) /\ TaskMoves(t, j)
           \/ Queued(j) /\ worker'[t].pc = "load"
  <1> USE DEF IndInv
  <1>0. worker[t] \in WorkerTask /\ DOMAIN worker = Services
    BY DEF TypeOK
  <1>1. CASE WorkerPull(t)
    <2>1. worker'[t] = Task("load", Head(queue), 0, NoKey, FALSE)
      BY <1>0, <1>1 DEF WorkerPull
    <2> QED
      BY <1>1, <2>1, PullTakesHead DEF WorkerHolds, Task
  <1>2. CASE WorkerDrop(t) \/ WorkerSaveResult(t) \/ WorkerRequeue(t) \/ WorkerBury(t)
             \/ Restart(t) \/ WorkerDies(t)
    <2>1. worker'[t] = Pulling \/ worker'[t] = DeadTask
      BY <1>0, <1>2 DEF WorkerDrop, WorkerSaveResult, WorkerRequeue, WorkerBury, Restart, WorkerDies
    <2> QED
      BY <2>1 DEF WorkerHolds, Holding, Pulling, DeadTask, Task
  <1>3. CASE WorkerLoad(t)
    BY <1>0, <1>3 DEF WorkerLoad, WorkerHolds, Holding, TaskMoves, Task
  <1>4. CASE WorkerStart(t) \/ WorkerGenerateRaises(t) \/ WorkerRetry(t) \/ WorkerGiveUp(t)
    BY <1>0, <1>4 DEF WorkerStart, WorkerGenerateRaises, WorkerRetry, WorkerGiveUp, WorkerHolds,
       Holding, TaskMoves, WorkerTask
  <1>5. CASE WorkerGenerated(t) \/ CompletingSaveFails(t)
    BY <1>0, <1>5 DEF WorkerGenerated, CompletingSaveFails, WithBytes, WorkerHolds, Holding,
       TaskMoves, Task
  <1> QED
    BY <1>1, <1>2, <1>3, <1>4, <1>5 DEF WorkerStep, FaultStep

(* Who works on a job did so before, or has just pulled its message.       *)
LEMMA WorkerOfJob ==
    ASSUME IndInv, Next, NEW t \in Services, NEW j \in Jobs, WorkerHolds(t, j)'
    PROVE  \/ WorkerHolds(t, j) /\ TaskMoves(t, j)
           \/ Queued(j) /\ worker'[t].pc = "load"
  <1>1. ASSUME worker'[t] = worker[t] PROVE WorkerHolds(t, j) /\ TaskMoves(t, j)
    BY <1>1 DEF WorkerHolds, TaskMoves
  <1>2. ASSUME NEW s \in Services, s # t, WorkerStep(s) \/ FaultStep(s)
        PROVE  worker'[t] = worker[t]
    BY <1>2 DEF WorkerStep, WorkerPull, WorkerDrop, WorkerLoad, WorkerStart, WorkerGenerated,
       WorkerSaveResult, WorkerGenerateRaises, WorkerRetry, WorkerRequeue, WorkerGiveUp,
       WorkerBury, FaultStep, Restart, WorkerDies, CompletingSaveFails, IndInv, TypeOK
  <1>3. ASSUME NEW h \in Handlers,
               SubmitStep(h) \/ SubmitFails(h) \/ \E k \in Keys : SubmitResolve(h, k)
        PROVE  worker'[t] = worker[t]
    BY <1>3 DEF SubmitStep, SubmitResolve, SubmitReplyExisting, SubmitStaleKey, SubmitCreate,
       SubmitRegister, SubmitEnqueue, SubmitFails
  <1>4. ASSUME NEW x \in RedisKeys, Expire(x) PROVE worker'[t] = worker[t]
    BY <1>4 DEF Expire
  <1> QED
    BY <1>1, <1>2, <1>3, <1>4, WorkerStepOfJob DEF Next

(* A job that exists is written by its worker, and removed by the TTL.     *)
LEMMA MetaOfJob ==
    ASSUME IndInv, Next, NEW j \in Jobs, j \in used
    PROVE  meta'[j] \in {meta[j], NoMeta} \/ \E t \in Services : Saves(t, j)
  <1> USE DEF IndInv
  <1>1. ASSUME NEW h \in Handlers, SubmitCreate(h) PROVE meta'[j] = meta[j]
    BY <1>1 DEF SubmitCreate, SaveJob, TypeOK
  <1>2. ASSUME NEW h \in Handlers, SubmitStep(h) \/ SubmitFails(h), ~SubmitCreate(h)
        PROVE  meta' = meta
    BY <1>2 DEF SubmitStep, SubmitReplyExisting, SubmitStaleKey, SubmitRegister, SubmitEnqueue,
       SubmitFails, redisVars
  <1>3. ASSUME NEW h \in Handlers, NEW k \in Keys, SubmitResolve(h, k) PROVE meta' = meta
    BY <1>3 DEF SubmitResolve, redisVars
  <1>4. ASSUME NEW s \in Services, FaultStep(s) PROVE meta' = meta
    BY <1>4 DEF FaultStep, Restart, WorkerDies, CompletingSaveFails, redisVars
  <1>5. ASSUME NEW s \in Services, WorkerStep(s),
               ~(WorkerStart(s) \/ WorkerGenerated(s) \/ WorkerRetry(s) \/ WorkerGiveUp(s))
        PROVE  meta' = meta
    BY <1>5 DEF WorkerStep, WorkerPull, WorkerDrop, WorkerLoad, WorkerSaveResult,
       WorkerGenerateRaises, WorkerRequeue, WorkerBury, redisVars
  <1>6. ASSUME NEW s \in Services,
               WorkerStart(s) \/ WorkerGenerated(s) \/ WorkerRetry(s) \/ WorkerGiveUp(s)
        PROVE  meta'[j] = meta[j] \/ Saves(s, j)
    <2> DEFINE i == worker[s].job
    <2>1. /\ i \in Jobs /\ worker[s] \in WorkerTask
          /\ DOMAIN worker = Services /\ meta \in [Jobs -> JobMeta]
      BY <1>6, HolderHasJob DEF WorkerStart, WorkerGenerated, WorkerRetry, WorkerGiveUp, Holding, TypeOK
    <2>2. \E x \in {<<"start", "processing", "run">>, <<"run", "completed", "saveResult">>,
                    <<"except", "queued", "requeue">>, <<"except", "failed", "bury">>} :
            /\ worker[s].pc = x[1] /\ worker'[s].pc = x[3] /\ worker'[s].job = i
            /\ meta' = [meta EXCEPT ![i] = LocalMeta(s, x[2])]
      <3>1. CASE WorkerStart(s)
        BY <2>1, <3>1 DEF WorkerStart, SaveJob, WorkerTask
      <3>2. CASE WorkerGenerated(s)
        BY <2>1, <3>2 DEF WorkerGenerated, WithBytes, Task
      <3>3. CASE WorkerRetry(s)
        BY <2>1, <3>3 DEF WorkerRetry, SaveJob, WorkerTask
      <3>4. CASE WorkerGiveUp(s)
        BY <2>1, <3>4 DEF WorkerGiveUp, SaveJob, WorkerTask
      <3> QED
        BY <1>6, <3>1, <3>2, <3>3, <3>4
    <2>3. CASE j # i
      BY <2>1, <2>2, <2>3
    <2>4. CASE j = i
      BY <2>1, <2>2, <2>4 DEF Saves, WorkerHolds, Holding
    <2> QED
      BY <2>3, <2>4
  <1>7. ASSUME NEW x \in RedisKeys, Expire(x) PROVE meta'[j] \in {meta[j], NoMeta}
    BY <1>7 DEF Expire
  <1> QED
    BY <1>1, <1>2, <1>3, <1>4, <1>5, <1>6, <1>7 DEF Next


(* The handler of a job that exists has created it.                        *)
LEMMA HandlerOfJob ==
    ASSUME IndInv, Next, NEW h \in Handlers, NEW j \in Jobs, j \in used, ApiHolds(h, j)'
    PROVE  ApiHolds(h, j)
  <1> USE DEF IndInv
  <1>0. api[h] \in ApiCall /\ DOMAIN api = Handlers
    BY DEF TypeOK
  <1>1. ASSUME api'[h] = api[h] PROVE ApiHolds(h, j)
    BY <1>1 DEF ApiHolds
  <1>2. ASSUME NEW g \in Handlers, g # h,
               SubmitStep(g) \/ SubmitFails(g) \/ \E k \in Keys : SubmitResolve(g, k)
        PROVE  api'[h] = api[h]
    BY <1>2 DEF SubmitStep, SubmitResolve, SubmitReplyExisting, SubmitStaleKey, SubmitCreate,
       SubmitRegister, SubmitEnqueue, SubmitFails, TypeOK
  <1>3. ASSUME NEW s \in Services, WorkerStep(s) \/ WorkerDies(s) \/ CompletingSaveFails(s)
        PROVE  api'[h] = api[h]
    BY <1>3 DEF WorkerStep, WorkerPull, WorkerDrop, WorkerLoad, WorkerStart, WorkerGenerated,
       WorkerSaveResult, WorkerGenerateRaises, WorkerRetry, WorkerRequeue, WorkerGiveUp,
       WorkerBury, WorkerDies, CompletingSaveFails
  <1>4. CASE SubmitReplyExisting(h) \/ SubmitEnqueue(h) \/ SubmitFails(h)
    BY <1>0, <1>4 DEF SubmitReplyExisting, SubmitEnqueue, SubmitFails, ApiHolds, Submitting,
       NoCall, Call
  <1>5. CASE SubmitStaleKey(h) \/ SubmitCreate(h) \/ SubmitRegister(h)
    <2>1. CASE SubmitStaleKey(h)
      BY <1>0, <2>1 DEF SubmitStaleKey, ApiHolds, Submitting, Call
    <2>2. CASE SubmitCreate(h)
      <3>1. PICK n \in Jobs \ used : api' = [api EXCEPT ![h] = Call("register", api[h].key, n)]
        BY <2>2 DEF SubmitCreate
      <3> QED
        BY <1>0, <3>1 DEF ApiHolds, Call
    <2>3. CASE SubmitRegister(h)
      BY <1>0, <2>3 DEF SubmitRegister, ApiHolds, Submitting, ApiCall
    <2> QED
      BY <1>5, <2>1, <2>2, <2>3
  <1>6. ASSUME NEW k \in Keys, SubmitResolve(h, k) PROVE ApiHolds(h, j)
    BY <1>0, <1>6 DEF SubmitResolve, ApiHolds, Submitting, Call
  <1>7. ASSUME NEW x \in RedisKeys, Expire(x) PROVE api'[h] = api[h]
    BY <1>7 DEF Expire
  <1>8. ASSUME NEW s \in Services, Restart(s) PROVE ApiHolds(h, j)
    BY <1>8 DEF Restart, ApiHolds, Submitting, NoCall, Call
  <1> QED
    BY <1>1, <1>2, <1>3, <1>4, <1>5, <1>6, <1>7, <1>8 DEF Next, SubmitStep, FaultStep

(* A message is pushed by the handler or the worker of its job.            *)
LEMMA QueueOfJob ==
    ASSUME IndInv, Next, NEW j \in Jobs, Queued(j)'
    PROVE  \/ Queued(j)
           \/ \E h \in Handlers : ApiHolds(h, j)
           \/ \E t \in Services : WorkerHolds(t, j) /\ worker[t].pc = "requeue"
  <1> USE DEF IndInv
  <1>0. queue \in Seq(Jobs)
    BY DEF TypeOK
  <1>1. ASSUME queue' = queue PROVE Queued(j)
    BY <1>1 DEF Queued
  <1>2. ASSUME NEW n \in Jobs, queue' = Append(queue, n) PROVE Queued(j) \/ j = n
    BY <1>0, <1>2 DEF Queued
  <1>3. ASSUME NEW h \in Handlers, SubmitEnqueue(h)
        PROVE  Queued(j) \/ ApiHolds(h, j)
    <2>1. api[h].job \in Jobs /\ queue' = Append(queue, api[h].job)
      BY <1>3 DEF SubmitEnqueue, Responsible, Submitting, TypeOK
    <2> QED
      BY <1>2, <1>3, <2>1 DEF SubmitEnqueue, ApiHolds, Submitting
  <1>4. ASSUME NEW s \in Services, WorkerRequeue(s)
        PROVE  Queued(j) \/ (WorkerHolds(s, j) /\ worker[s].pc = "requeue")
    <2>1. worker[s].job \in Jobs /\ queue' = Append(queue, worker[s].job)
      BY <1>4, HolderHasJob DEF WorkerRequeue, Holding
    <2> QED
      BY <1>2, <1>4, <2>1 DEF WorkerRequeue, WorkerHolds, Holding
  <1>5. ASSUME NEW s \in Services, WorkerPull(s) PROVE Queued(j)
    BY <1>5, PullTakesHead DEF Queued
  <1>6. ASSUME NEW h \in Handlers, SubmitStep(h) \/ SubmitFails(h), ~SubmitEnqueue(h)
        PROVE  queue' = queue
    BY <1>6 DEF SubmitStep, SubmitReplyExisting, SubmitStaleKey, SubmitCreate, SubmitRegister,
       SubmitFails, redisVars
  <1>7. ASSUME NEW h \in Handlers, NEW k \in Keys, SubmitResolve(h, k) PROVE queue' = queue
    BY <1>7 DEF SubmitResolve, redisVars
  <1>8. ASSUME NEW s \in Services, WorkerStep(s), ~WorkerPull(s), ~WorkerRequeue(s)
        PROVE  queue' = queue
    BY <1>8 DEF WorkerStep, WorkerDrop, WorkerLoad, WorkerStart, WorkerGenerated, WorkerSaveResult,
       WorkerGenerateRaises, WorkerRetry, WorkerGiveUp, WorkerBury, redisVars
  <1>9. ASSUME NEW s \in Services, FaultStep(s) PROVE queue' = queue
    BY <1>9 DEF FaultStep, Restart, WorkerDies, CompletingSaveFails, redisVars
  <1>10. ASSUME NEW x \in RedisKeys, Expire(x) PROVE queue' = queue
    BY <1>10 DEF Expire
  <1> QED
    BY <1>1, <1>3, <1>4, <1>5, <1>6, <1>7, <1>8, <1>9, <1>10 DEF Next

(* Every generated id stays one.                                           *)
LEMMA UsedStays == ASSUME IndInv, Next, NEW j \in used PROVE j \in used'
  <1>1. j \in Jobs
    BY DEF IndInv, TypeOK
  <1> QED
    BY <1>1, StepCarries DEF CarriedAlong

-----------------------------------------------------------------------------
(* What stays true of a job once it is.                                    *)

(* Job j ended with status st, which only the TTL takes back: whoever has  *)
(* it still is the worker that saved it, at step pc.                       *)
Settled(j, st, pc) ==
    /\ j \in used
    /\ meta[j].status \in {st, "absent"}
    /\ ~Queued(j)
    /\ \A h \in Handlers : ~ApiHolds(h, j)
    /\ \A t \in Services : WorkerHolds(t, j) => worker[t].pc = pc

LEMMA SettledStays ==
    ASSUME IndInv, Next, NEW j \in Jobs, NEW st, NEW pc, Settled(j, st, pc),
           pc = "bury" \/ (pc = "saveResult" /\ "redis" \notin Faults)
    PROVE  Settled(j, st, pc)'
  <1>1. j \in used /\ j \in used'
    BY UsedStays DEF Settled
  <1>2. meta'[j].status \in {st, "absent"}
    BY <1>1, MetaOfJob DEF Settled, Saves, NoMeta
  <1>3. ~Queued(j)'
    BY QueueOfJob DEF Settled
  <1>4. \A h \in Handlers : ~ApiHolds(h, j)'
    BY <1>1, HandlerOfJob DEF Settled
  <1>5. ASSUME NEW t \in Services, WorkerHolds(t, j)' PROVE worker'[t].pc = pc
    BY <1>5, WorkerOfJob DEF Settled, TaskMoves
  <1> QED
    BY <1>1, <1>2, <1>3, <1>4, <1>5 DEF Settled

(* A failed job is settled.                                                *)
LEMMA FailedSettled ==
    ASSUME IndInv, NEW j \in Jobs, meta[j].status = "failed"
    PROVE  Settled(j, "failed", "bury")
  <1>1. j \in used
    BY DEF IndInv, Responsible, NoMeta
  <1>2. ~Queued(j) /\ \A h \in Handlers : ~ApiHolds(h, j)
    BY DEF IndInv, CarrierStatus, Waiting, StoredAs, Queued, ApiHolds
  <1>3. ASSUME NEW t \in Services, WorkerHolds(t, j) PROVE worker[t].pc = "bury"
    <2>1. TaskAgrees(worker[t], meta[j]) /\ worker[t].pc \in WorkerSteps \ {"pull", "dead"}
      BY <1>3 DEF IndInv, CarrierStatus, WorkerHolds, Holding, TypeOK, WorkerTask
    <2> QED
      BY <2>1 DEF TaskAgrees, Waiting, StoredAs, WorkerSteps
  <1> QED
    BY <1>1, <1>2, <1>3 DEF Settled

(* Without Redis failures a worker gets to the except branch only by a     *)
(* generation that raised, and so a completed job is settled.              *)
ExceptRaised ==
    "redis" \notin Faults =>
      \A t \in Services : worker[t].pc = "except" => meta[worker[t].job].status # "completed"

LEMMA StepKeepsRaised == IndInv /\ ExceptRaised /\ [Next]_vars => ExceptRaised'
  <1> SUFFICES ASSUME IndInv, ExceptRaised, Next, "redis" \notin Faults,
                      NEW t \in Services, worker'[t].pc = "except"
               PROVE  meta'[worker'[t].job].status # "completed"
    BY DEF ExceptRaised, vars, redisVars
  <1>1. IndInv'
    BY StepKeeps
  <1>2. PICK j \in Jobs : worker'[t].job = j /\ WorkerHolds(t, j)'
    <2>1. worker'[t].job \in Jobs
      BY <1>1 DEF IndInv, TypeOK, Responsible, Holding
    <2>2. PICK j \in Jobs : worker'[t].job = j
      BY <2>1
    <2> QED
      BY <2>2 DEF WorkerHolds, Holding
  <1>3. WorkerHolds(t, j) /\ TaskMoves(t, j)
    BY <1>2, WorkerOfJob
  <1>4. worker[t].pc \in {"run", "except"} /\ worker[t].job = j
    BY <1>3 DEF TaskMoves, WorkerHolds
  <1>5. meta[j].status # "completed"
    BY <1>4, <1>2 DEF IndInv, CarrierStatus, TaskAgrees, StoredAs, ExceptRaised, Holding
  <1>6. j \in used
    BY <1>4 DEF IndInv, Responsible, Holding
  <1>7. ASSUME NEW s \in Services, Saves(s, j) PROVE meta'[j].status # "completed"
    <2>1. s = t
      BY <1>2, <1>3, <1>7 DEF Saves, IndInv, SingleCarrier
    <2> QED
      BY <1>7, <2>1 DEF Saves, LocalMeta, Meta
  <1> QED
    BY <1>2, <1>5, <1>6, <1>7, MetaOfJob DEF NoMeta

LEMMA CompletedSettled ==
    ASSUME IndInv, ExceptRaised, NEW j \in Jobs, meta[j].status = "completed",
           "redis" \notin Faults
    PROVE  Settled(j, "completed", "saveResult")
  <1>1. j \in used
    BY DEF IndInv, Responsible, NoMeta
  <1>2. ~Queued(j) /\ \A h \in Handlers : ~ApiHolds(h, j)
    BY DEF IndInv, CarrierStatus, Waiting, StoredAs, Queued, ApiHolds
  <1>3. ASSUME NEW t \in Services, WorkerHolds(t, j) PROVE worker[t].pc = "saveResult"
    <2>1. TaskAgrees(worker[t], meta[j]) /\ worker[t].pc \in WorkerSteps \ {"pull", "dead"}
      BY <1>3 DEF IndInv, CarrierStatus, WorkerHolds, Holding, TypeOK, WorkerTask
    <2>2. worker[t].pc # "except"
      BY <1>3 DEF ExceptRaised, WorkerHolds
    <2> QED
      BY <2>1, <2>2 DEF TaskAgrees, Waiting, StoredAs, WorkerSteps
  <1> QED
    BY <1>1, <1>2, <1>3 DEF Settled

(* Job j was created for payload k, whatever the TTL has removed since.    *)
MadeFrom(j, k) ==
    /\ j \in used
    /\ meta[j].status = "absent" \/ meta[j].payload = k
    /\ \A t \in Services : WorkerHolds(t, j) => worker[t].pc = "load" \/ worker[t].payload = k

LEMMA MadeFromStays ==
    ASSUME IndInv, Next, NEW j \in Jobs, NEW k, MadeFrom(j, k)
    PROVE  MadeFrom(j, k)'
  <1>1. j \in used /\ j \in used'
    BY UsedStays DEF MadeFrom
  <1>2. ASSUME NEW t \in Services, Saves(t, j) PROVE meta'[j].payload = k
    BY <1>2 DEF Saves, MadeFrom, LocalMeta, Meta
  <1>3. meta'[j].status = "absent" \/ meta'[j].payload = k
    BY <1>1, <1>2, MetaOfJob DEF MadeFrom, NoMeta
  <1>4. ASSUME NEW t \in Services, WorkerHolds(t, j)'
        PROVE  worker'[t].pc = "load" \/ worker'[t].payload = k
    BY <1>4, WorkerOfJob DEF MadeFrom, TaskMoves
  <1> QED
    BY <1>1, <1>3, <1>4 DEF MadeFrom

-----------------------------------------------------------------------------
(* The lifecycle, as long as no key expires and no command of Redis fails. *)

(* What is stored of the job a worker has in hand: the attempt it is about *)
(* to count, and then the one it has counted.                              *)
WorkerLives(w, m) ==
    /\ w.pc = "start"            => w.attempts = m.attempts + 1
    /\ w.pc \in {"run", "except"} => w.attempts = m.attempts /\ m.status = "processing"

LifeGood ==
    /\ \A j \in used : meta[j].status # "absent"
    /\ \A s \in Services : WorkerLives(worker[s], meta[worker[s].job])

(* A job moves in the lifecycle as it does where it is stored.             *)
LEMMA LifeMoves ==
    ASSUME TypeOK, NEW j \in Jobs, NEW st, NEW n, NEW k,
           meta' = [meta EXCEPT ![j] = Meta(st, n, k)]
    PROVE  /\ [i \in Jobs |-> meta'[i].status] =
                [[i \in Jobs |-> meta[i].status] EXCEPT ![j] = st]
           /\ [i \in Jobs |-> meta'[i].attempts] =
                [[i \in Jobs |-> meta[i].attempts] EXCEPT ![j] = n]
BY DEF TypeOK, Meta

(* A worker that goes on, with what is stored of the jobs left alone.      *)
LEMMA WorkerLivesOn ==
    ASSUME IndInv, LifeGood, NEW s \in Services, NEW w,
           worker' = [worker EXCEPT ![s] = w], UNCHANGED <<meta, used>>,
           WorkerLives(w, meta[w.job])
    PROVE  LifeGood' /\ UNCHANGED Lifecycle!jobVars
<1>1. worker'[s] = w /\ \A t \in Services : t # s => worker'[t] = worker[t]
  BY DEF IndInv, TypeOK
<1>2. LifeGood'
  BY <1>1 DEF LifeGood
<1> QED
  BY <1>2 DEF Lifecycle!jobVars

(* A worker that stores the job it has in hand leaves the others theirs.   *)
LEMMA WorkerStores ==
    ASSUME IndInv, LifeGood, NEW s \in Services, Holding(worker[s]), NEW p, NEW m \in JobMeta,
           meta' = [meta EXCEPT ![worker[s].job] = m], UNCHANGED used,
           m.status # "absent", NEW w,
           worker' = [worker EXCEPT ![s] = w], w.job = worker[s].job, WorkerLives(w, m)
    PROVE  LifeGood'
<1>1. worker[s].job \in Jobs
  BY HolderHasJob
<1>2. /\ worker'[s] = w /\ \A t \in Services : t # s => worker'[t] = worker[t]
      /\ meta'[worker[s].job] = m /\ \A j \in Jobs : j # worker[s].job => meta'[j] = meta[j]
  BY <1>1 DEF IndInv, TypeOK
<1>3. \A j \in used : meta'[j].status # "absent"
  BY <1>2 DEF LifeGood, IndInv, TypeOK
<1>4. ASSUME NEW t \in Services PROVE WorkerLives(worker'[t], meta'[worker'[t].job])
  <2>1. CASE t = s
    BY <1>2, <2>1
  <2>2. CASE t # s /\ Holding(worker[t])
    <3>1. worker[t].job \in Jobs /\ worker[t].job # worker[s].job
      BY <1>1, <2>2, HolderHasJob DEF IndInv, SingleCarrier, WorkerHolds
    <3> QED
      BY <1>2, <2>2, <3>1 DEF LifeGood
  <2>3. CASE t # s /\ ~Holding(worker[t])
    BY <1>2, <2>3 DEF WorkerLives, Holding
  <2> QED
    BY <2>1, <2>2, <2>3
<1> QED
  BY <1>3, <1>4 DEF LifeGood

LEMMA SubmitLives ==
    ASSUME IndInv, LifeGood, NEW h \in Handlers,
           SubmitStep(h) \/ \E k \in Keys : SubmitResolve(h, k)
    PROVE  LifeGood' /\ [Lifecycle!JobNext]_(Lifecycle!jobVars)
<1>1. CASE SubmitCreate(h)
  <2>1. PICK j \in Jobs \ used :
          /\ used' = used \cup {j}
          /\ SaveJob(j, Meta("queued", 0, api[h].key), FALSE)
    BY <1>1 DEF SubmitCreate
  <2> DEFINE m == Meta("queued", 0, api[h].key)
  <2>2. meta' = [meta EXCEPT ![j] = m] /\ worker' = worker
    BY <1>1, <2>1 DEF SaveJob, SubmitCreate
  <2>3. meta'[j] = m /\ \A i \in Jobs : i # j => meta'[i] = meta[i]
    BY <2>2 DEF IndInv, TypeOK
  <2>4. m.status = "queued"
    BY DEF Meta
  <2>5. meta[j].status = "absent" /\ meta[j].attempts = 0
    BY DEF IndInv, Responsible, NoMeta
  <2>6. \A t \in Services : Holding(worker[t]) => worker[t].job \in used /\ worker[t].job \in Jobs
    BY HolderHasJob
  <2>7. \A t \in Services : WorkerLives(worker'[t], meta'[worker'[t].job])
    <3> SUFFICES ASSUME NEW t \in Services PROVE WorkerLives(worker[t], meta'[worker[t].job])
      BY <2>2
    <3>1. CASE Holding(worker[t])
      BY <2>3, <2>6, <3>1 DEF LifeGood
    <3>2. CASE ~Holding(worker[t])
      BY <3>2 DEF WorkerLives, Holding
    <3> QED
      BY <3>1, <3>2
  <2>8. LifeGood'
    BY <2>1, <2>3, <2>4, <2>7 DEF LifeGood, IndInv, TypeOK
  <2>9. Lifecycle!Accept(j)
    <3>1. /\ [i \in Jobs |-> meta'[i].status] =
               [[i \in Jobs |-> meta[i].status] EXCEPT ![j] = "queued"]
          /\ [i \in Jobs |-> meta'[i].attempts] =
               [[i \in Jobs |-> meta[i].attempts] EXCEPT ![j] = 0]
      BY <2>2, LifeMoves DEF IndInv
    <3>2. [[i \in Jobs |-> meta[i].attempts] EXCEPT ![j] = 0] = [i \in Jobs |-> meta[i].attempts]
      BY <2>5
    <3> QED
      BY <2>5, <3>1, <3>2 DEF Lifecycle!Accept, Lifecycle!Move
  <2> QED
    BY <2>8, <2>9 DEF Lifecycle!JobNext
<1>2. CASE ~SubmitCreate(h)
  <2>1. UNCHANGED <<meta, used, worker>>
    BY <1>2 DEF SubmitStep, SubmitResolve, SubmitReplyExisting, SubmitStaleKey, SubmitRegister,
       SubmitEnqueue, redisVars, ghostVars
  <2> QED
    BY <2>1 DEF LifeGood, Lifecycle!jobVars
<1> QED
  BY <1>1, <1>2

(* The worker begins, completes, retries or gives up the job in hand.      *)
LEMMA WorkerStepLives ==
    ASSUME IndInv, LifeGood, NEW s \in Services, WorkerStep(s) \/ Restart(s)
    PROVE  LifeGood' /\ [Lifecycle!JobNext]_(Lifecycle!jobVars)
<1> DEFINE n == worker[s].attempts
<1>0. PICK j : j = worker[s].job
  OBVIOUS
<1> USE <1>0
<1>1. worker[s] \in WorkerTask
  BY DEF IndInv, TypeOK
<1>2. ASSUME NEW i \in Jobs, Lifecycle!Progress(i) PROVE Lifecycle!JobNext
  BY <1>2 DEF Lifecycle!JobNext
<1>3. CASE WorkerPull(s) \/ WorkerDrop(s) \/ WorkerSaveResult(s) \/ WorkerRequeue(s)
           \/ WorkerBury(s) \/ Restart(s)
  <2>1. PICK w : worker' = [worker EXCEPT ![s] = w] /\ w.pc \in {"pull", "load"}
    <3>1. Pulling.pc = "pull" /\ Task("load", Head(queue), 0, NoKey, FALSE).pc = "load"
      BY DEF Pulling, Task
    <3>2. \/ worker' = [worker EXCEPT ![s] = Pulling]
          \/ worker' = [worker EXCEPT ![s] = Task("load", Head(queue), 0, NoKey, FALSE)]
      BY <1>3 DEF WorkerPull, WorkerDrop, WorkerSaveResult, WorkerRequeue, WorkerBury, Restart
    <3> QED
      BY <3>1, <3>2
  <2>2. UNCHANGED <<meta, used>>
    BY <1>3 DEF WorkerPull, WorkerDrop, WorkerSaveResult, WorkerRequeue, WorkerBury, Restart,
       redisVars, ghostVars
  <2> QED
    BY <2>1, <2>2, WorkerLivesOn DEF WorkerLives
<1>4. CASE WorkerLoad(s)
  <2> DEFINE w == Task("start", j, meta[j].attempts + 1, meta[j].payload, j \in result)
  <2>1. worker' = [worker EXCEPT ![s] = w] /\ UNCHANGED <<meta, used>>
    BY <1>4 DEF WorkerLoad, redisVars, ghostVars
  <2>2. WorkerLives(w, meta[w.job])
    BY DEF WorkerLives, Task
  <2> QED
    BY <2>1, <2>2, WorkerLivesOn
<1>5. CASE WorkerGenerateRaises(s)
  <2> DEFINE w == [worker[s] EXCEPT !.pc = "except"]
  <2>1. worker' = [worker EXCEPT ![s] = w] /\ UNCHANGED <<meta, used>> /\ worker[s].pc = "run"
    BY <1>5 DEF WorkerGenerateRaises, redisVars, ghostVars
  <2>2. w.job = j /\ w.attempts = n
    BY <1>1 DEF WorkerTask
  <2>3. WorkerLives(w, meta[w.job])
    BY <2>1, <2>2, <1>1 DEF WorkerLives, LifeGood, WorkerTask
  <2> HIDE DEF w
  <2> QED
    BY <2>1, <2>3, WorkerLivesOn
<1>6. ASSUME NEW st \in {"processing", "completed", "queued", "failed"},
             Holding(worker[s]), meta' = [meta EXCEPT ![j] = LocalMeta(s, st)], UNCHANGED used,
             NEW w, worker' = [worker EXCEPT ![s] = w], w.job = j, w.attempts = n,
             w.pc \in {"run", "saveResult", "requeue", "bury"},
             w.pc = "run" => st = "processing"
      PROVE  /\ LifeGood' /\ j \in Jobs
             /\ meta[j].status # "absent"
             /\ [i \in Jobs |-> meta'[i].status] =
                  [[i \in Jobs |-> meta[i].status] EXCEPT ![j] = st]
             /\ [i \in Jobs |-> meta'[i].attempts] =
                  [[i \in Jobs |-> meta[i].attempts] EXCEPT ![j] = n]
  <2>1. j \in used /\ j \in Jobs /\ LocalMeta(s, st) \in JobMeta
    BY <1>6, HolderHasJob DEF Statuses
  <2>2. LocalMeta(s, st).status = st /\ LocalMeta(s, st).attempts = n
    BY DEF LocalMeta, Meta
  <2>3. WorkerLives(w, LocalMeta(s, st))
    BY <1>6, <2>2 DEF WorkerLives
  <2>4. LifeGood'
    BY <1>6, <2>1, <2>2, <2>3, WorkerStores
  <2> QED
    BY <1>6, <2>1, <2>4, LifeMoves DEF LocalMeta, LifeGood, IndInv
<1>7. CASE WorkerStart(s)
  <2> DEFINE w == [worker[s] EXCEPT !.pc = "run"]
  <2>1. /\ worker' = [worker EXCEPT ![s] = w] /\ UNCHANGED used
        /\ meta' = [meta EXCEPT ![j] = LocalMeta(s, "processing")]
        /\ worker[s].pc = "start" /\ Holding(worker[s])
    BY <1>7 DEF WorkerStart, SaveJob, ghostVars, Holding
  <2>2. w.job = j /\ w.attempts = n /\ w.pc = "run"
    BY <1>1 DEF WorkerTask
  <2> HIDE DEF w
  <2>3. /\ LifeGood' /\ j \in Jobs /\ meta[j].status # "absent"
        /\ [i \in Jobs |-> meta'[i].status] =
             [[i \in Jobs |-> meta[i].status] EXCEPT ![j] = "processing"]
        /\ [i \in Jobs |-> meta'[i].attempts] =
             [[i \in Jobs |-> meta[i].attempts] EXCEPT ![j] = n]
    BY <1>6, <2>1, <2>2
  <2>4. meta[j].status = "queued" /\ n = meta[j].attempts + 1 /\ n \in 0 .. MaxRetries
    BY <1>1, <2>1, <2>3 DEF IndInv, CarrierStatus, TaskAgrees, StoredAs, LifeGood, WorkerLives,
       WorkerTask
  <2>5. meta[j].attempts < MaxRetries
    BY <2>3, <2>4, DocxAssumption DEF IndInv, TypeOK, JobMeta
  <2>6. Lifecycle!Begin(j)
    BY <2>3, <2>4, <2>5 DEF Lifecycle!Begin, Lifecycle!Move
  <2> QED
    BY <1>2, <2>6, <2>3 DEF Lifecycle!Progress
<1>8. ASSUME j \in Jobs, n = meta[j].attempts
      PROVE  [[i \in Jobs |-> meta[i].attempts] EXCEPT ![j] = n] = [i \in Jobs |-> meta[i].attempts]
  BY <1>8
<1>9. ASSUME worker[s].pc \in {"run", "except"}
      PROVE  meta[j].status = "processing" /\ n = meta[j].attempts /\ n \in 0 .. MaxRetries
             /\ Holding(worker[s])
  BY <1>1, <1>9 DEF LifeGood, WorkerLives, WorkerTask, Holding
<1>10. CASE WorkerGenerated(s)
  <2> DEFINE w == WithBytes(s, "saveResult")
  <2>1. /\ worker' = [worker EXCEPT ![s] = w] /\ UNCHANGED used
        /\ meta' = [meta EXCEPT ![j] = LocalMeta(s, "completed")]
        /\ worker[s].pc = "run"
    BY <1>10 DEF WorkerGenerated, ghostVars
  <2>2. w.job = j /\ w.attempts = n /\ w.pc = "saveResult"
    BY DEF WithBytes, Task
  <2> HIDE DEF w
  <2>3. /\ LifeGood' /\ j \in Jobs
        /\ [i \in Jobs |-> meta'[i].status] =
             [[i \in Jobs |-> meta[i].status] EXCEPT ![j] = "completed"]
        /\ [i \in Jobs |-> meta'[i].attempts] =
             [[i \in Jobs |-> meta[i].attempts] EXCEPT ![j] = n]
    BY <1>6, <1>9, <2>1, <2>2
  <2>4. Lifecycle!Complete(j)
    BY <1>8, <1>9, <2>1, <2>3 DEF Lifecycle!Complete, Lifecycle!Move
  <2> QED
    BY <1>2, <2>4, <2>3 DEF Lifecycle!Progress
<1>11. CASE WorkerRetry(s)
  <2> DEFINE w == [worker[s] EXCEPT !.pc = "requeue"]
  <2>1. /\ worker' = [worker EXCEPT ![s] = w] /\ UNCHANGED used
        /\ meta' = [meta EXCEPT ![j] = LocalMeta(s, "queued")]
        /\ worker[s].pc = "except" /\ n < MaxRetries
    BY <1>11 DEF WorkerRetry, SaveJob, ghostVars
  <2>2. w.job = j /\ w.attempts = n /\ w.pc = "requeue"
    BY <1>1 DEF WorkerTask
  <2> HIDE DEF w
  <2>3. /\ LifeGood' /\ j \in Jobs
        /\ [i \in Jobs |-> meta'[i].status] =
             [[i \in Jobs |-> meta[i].status] EXCEPT ![j] = "queued"]
        /\ [i \in Jobs |-> meta'[i].attempts] =
             [[i \in Jobs |-> meta[i].attempts] EXCEPT ![j] = n]
    BY <1>6, <1>9, <2>1, <2>2
  <2>4. Lifecycle!Again(j)
    BY <1>8, <1>9, <2>1, <2>3 DEF Lifecycle!Again, Lifecycle!Move
  <2> QED
    BY <1>2, <2>4, <2>3 DEF Lifecycle!Progress
<1>12. CASE WorkerGiveUp(s)
  <2> DEFINE w == [worker[s] EXCEPT !.pc = "bury"]
  <2>1. /\ worker' = [worker EXCEPT ![s] = w] /\ UNCHANGED used
        /\ meta' = [meta EXCEPT ![j] = LocalMeta(s, "failed")]
        /\ worker[s].pc = "except" /\ n >= MaxRetries
    BY <1>12 DEF WorkerGiveUp, SaveJob, ghostVars
  <2>2. w.job = j /\ w.attempts = n /\ w.pc = "bury"
    BY <1>1 DEF WorkerTask
  <2> HIDE DEF w
  <2>3. /\ LifeGood' /\ j \in Jobs
        /\ [i \in Jobs |-> meta'[i].status] =
             [[i \in Jobs |-> meta[i].status] EXCEPT ![j] = "failed"]
        /\ [i \in Jobs |-> meta'[i].attempts] =
             [[i \in Jobs |-> meta[i].attempts] EXCEPT ![j] = n]
    BY <1>6, <1>9, <2>1, <2>2
  <2>4. n = MaxRetries
    BY <1>9, <2>1, DocxAssumption
  <2>5. Lifecycle!Fail(j)
    BY <1>8, <1>9, <2>1, <2>3, <2>4 DEF Lifecycle!Fail, Lifecycle!Move
  <2> QED
    BY <1>2, <2>5, <2>3 DEF Lifecycle!Progress
<1> QED
  BY <1>3, <1>4, <1>5, <1>7, <1>10, <1>11, <1>12 DEF WorkerStep

LEMMA StepLives ==
    ASSUME Faults \subseteq {"crash"}, IndInv, LifeGood, [Next]_vars
    PROVE  LifeGood' /\ [Lifecycle!JobNext]_(Lifecycle!jobVars)
<1>1. CASE UNCHANGED vars
  BY <1>1 DEF vars, redisVars, ghostVars, LifeGood, Lifecycle!jobVars
<1>2. CASE \E h \in Handlers : SubmitStep(h) \/ \E k \in Keys : SubmitResolve(h, k)
  BY <1>2, SubmitLives
<1>3. CASE \E s \in Services : WorkerStep(s) \/ Restart(s)
  BY <1>3, WorkerStepLives
<1>4. /\ ~ \E h \in Handlers : SubmitFails(h)
      /\ ~ \E s \in Services : WorkerDies(s) \/ CompletingSaveFails(s)
  BY DEF SubmitFails, WorkerDies, CompletingSaveFails
<1>5. ~ \E x \in RedisKeys : Expire(x)
  BY DEF Expire
<1> QED
  BY <1>1, <1>2, <1>3, <1>4, <1>5 DEF Next, FaultStep

LEMMA InitLives == Init => LifeGood /\ Lifecycle!JobInit
BY DEF Init, LifeGood, WorkerLives, Pulling, Task, NoMeta, Lifecycle!JobInit

(* While nothing expires and no command of Redis fails, through any number *)
(* of crashes, the pipeline does what DocxJob says: a job is accepted      *)
(* once, is in one generation at a time, is generated MaxRetries times at  *)
(* most, and a final status stays (main.py:428-509).  That it gets there,  *)
(* the fairness of ImplementsLifecycle, is not part of it.                 *)
THEOREM LifecycleKept ==
    ASSUME Faults \subseteq {"crash"}
    PROVE  Spec => Lifecycle!JobSpec
<1>1. Init => LifeGood /\ Lifecycle!JobInit
  BY InitLives
<1>2. IndInv /\ LifeGood /\ [Next]_vars => LifeGood' /\ [Lifecycle!JobNext]_(Lifecycle!jobVars)
  BY StepLives
<1> QED
  BY <1>1, <1>2, Invariance, PTL DEF Spec, Lifecycle!JobSpec

-----------------------------------------------------------------------------
(* One job for each open request, if nothing fails.                        *)

(* Every job that exists has been created for some payload.                *)
MadeGood == \A j \in used : \E k \in Keys : MadeFrom(j, k)

Made(k) == {j \in used : meta[j].payload = k}

(* Every job made for k has a handler of its own, one that is not about to *)
(* make another; as long as the key is not registered, they still have the *)
(* jobs in hand.                                                           *)
Owners(owner, k) ==
    /\ \A i, j \in Made(k) : owner[i] = owner[j] => i = j
    /\ \A h \in Handlers, j \in Made(k) :
         api[h].pc = "create" /\ api[h].key = k => owner[j] # h
    /\ idem[k] = NoJob => \A j \in Made(k) : ApiHolds(owner[j], j)

(* A registered key, a request that found one and a request that registers *)
(* one all name a job that exists, the last one a job made for its key.    *)
RequestsGood ==
    /\ \A k \in Keys : idem[k] # NoJob => idem[k] \in used
    /\ \A h \in Handlers :
         /\ api[h].pc = "load" => api[h].job \in used
         /\ api[h].pc = "enqueue" => idem[api[h].key] # NoJob
         /\ Submitting(api[h]) => api[h].job \in Made(api[h].key)

OwnersGood == \A k \in Keys : \E owner \in [Made(k) -> Handlers] : Owners(owner, k)

LEMMA StepKeepsMade ==
    ASSUME IndInv, MadeGood, Next
    PROVE  MadeGood'
<1> SUFFICES ASSUME NEW j \in used' PROVE (\E k \in Keys : MadeFrom(j, k))'
  BY DEF MadeGood
<1>1. CASE j \in used
  <2>1. j \in Jobs
    BY <1>1 DEF IndInv, TypeOK
  <2>2. PICK k \in Keys : MadeFrom(j, k)
    BY <1>1 DEF MadeGood
  <2> QED
    BY <2>1, <2>2, MadeFromStays
<1>2. CASE j \notin used
  <2>1. PICK h \in Handlers : SubmitCreate(h)
    BY <1>2 DEF Next, SubmitStep, SubmitResolve, SubmitReplyExisting, SubmitStaleKey,
       SubmitRegister, SubmitEnqueue, SubmitFails, WorkerStep, WorkerPull, WorkerDrop, WorkerLoad,
       WorkerStart, WorkerGenerated, WorkerSaveResult, WorkerGenerateRaises, WorkerRetry, WorkerRequeue,
       WorkerGiveUp, WorkerBury, FaultStep, Restart, WorkerDies, CompletingSaveFails,
       Expire, ghostVars
  <2>2. j \in Jobs /\ SaveJob(j, Meta("queued", 0, api[h].key), FALSE) /\ worker' = worker
    BY <1>2, <2>1 DEF SubmitCreate
  <2>3. meta'[j].payload = api[h].key /\ api[h].key \in Keys
    <3>1. meta'[j] = Meta("queued", 0, api[h].key)
      BY <2>2 DEF SaveJob, IndInv, TypeOK
    <3> QED
      BY <2>1, <3>1 DEF Meta, SubmitCreate, IndInv, Responsible
  <2>4. \A t \in Services : ~WorkerHolds(t, j)'
    BY <1>2, <2>2 DEF WorkerHolds, IndInv, Responsible
  <2> QED
    BY <2>3, <2>4 DEF MadeFrom
<1> QED
  BY <1>1, <1>2

LEMMA PayloadStays ==
    ASSUME IndInv, LifeGood, LifeGood', MadeGood, Next, NEW j \in used
    PROVE  j \in used' /\ meta'[j].payload = meta[j].payload
<1>1. PICK k \in Keys : MadeFrom(j, k)
  BY DEF MadeGood
<1>2. j \in Jobs
  BY DEF IndInv, TypeOK
<1>3. MadeFrom(j, k)'
  BY <1>1, <1>2, MadeFromStays
<1> QED
  BY <1>1, <1>3 DEF MadeFrom, LifeGood

(* A step that makes no job, and of which it is known what it does to the  *)
(* requests.                                                               *)
LEMMA OwnersStay ==
    ASSUME IndInv, LifeGood, LifeGood', MadeGood, Next, used' = used, NEW k \in Keys,
           NEW owner \in [Made(k) -> Handlers], Owners(owner, k),
           idem'[k] = NoJob => idem[k] = NoJob,
           \A h \in Handlers : api'[h].pc = "create" /\ api'[h].key = k =>
             (api[h].pc = "create" /\ api[h].key = k) \/ (api[h].pc = "idle" /\ idem[k] = NoJob),
           \A h \in Handlers, j \in Made(k) :
             ApiHolds(h, j) => ApiHolds(h, j)' \/ idem'[k] # NoJob
    PROVE  \E o \in [Made(k)' -> Handlers] : Owners(o, k)'
<1>1. Made(k)' = Made(k)
  BY PayloadStays DEF Made
<1>2. \A j \in Made(k) : owner[j] \in Handlers
  OBVIOUS
<1>3. \A h \in Handlers, j \in Made(k) :
        api'[h].pc = "create" /\ api'[h].key = k => owner[j] # h
  BY <1>2 DEF Owners, ApiHolds, Submitting
<1>4. idem'[k] = NoJob => \A j \in Made(k) : ApiHolds(owner[j], j)'
  BY <1>2 DEF Owners
<1>5. \A o : Owners(o, k)' <=>
        /\ \A i, j \in Made(k)' : o[i] = o[j] => i = j
        /\ \A g \in Handlers, j \in Made(k)' :
             api'[g].pc = "create" /\ api'[g].key = k => o[j] # g
        /\ idem'[k] = NoJob => \A j \in Made(k)' : ApiHolds(o[j], j)'
  BY DEF Owners
<1> QED
  BY <1>1, <1>3, <1>4, <1>5 DEF Owners


(* Without faults, it is a request or a worker that takes a step.          *)
LEMMA FaultlessStep ==
    ASSUME Faults = {}, Next
    PROVE  \/ \E h \in Handlers : (\E k \in Keys : SubmitResolve(h, k)) \/ SubmitStep(h)
           \/ \E s \in Services : WorkerStep(s)
BY DEF Next, FaultStep, Restart, SubmitFails, WorkerDies, CompletingSaveFails, Expire

LEMMA WorkerLeavesRequests ==
    ASSUME NEW s \in Services, WorkerStep(s)
    PROVE  UNCHANGED <<api, idem, used>>
BY DEF WorkerStep, WorkerPull, WorkerDrop, WorkerLoad, WorkerStart, WorkerGenerated,
   WorkerSaveResult, WorkerGenerateRaises, WorkerRetry, WorkerRequeue, WorkerGiveUp, WorkerBury,
   ghostVars, redisVars

LEMMA RequestsStay ==
    ASSUME Faults = {}, IndInv, LifeGood, LifeGood', MadeGood, RequestsGood, Next
    PROVE  RequestsGood'
<1> DEFINE Good(a) == /\ a.pc = "load" => a.job \in used'
                      /\ a.pc = "enqueue" => idem'[a.key] # NoJob
                      /\ Submitting(a) => a.job \in used' /\ meta'[a.job].payload = a.key
<1>1. \A j \in used : j \in used' /\ meta'[j].payload = meta[j].payload
  BY PayloadStays
<1> DEFINE Keeps == /\ \A k \in Keys : idem[k] # NoJob => idem'[k] # NoJob
                    /\ \A k \in Keys : idem'[k] # NoJob => idem'[k] \in used'
<1>3. SUFFICES Keeps /\ \A h \in Handlers : api'[h] = api[h] \/ Good(api'[h])
  <2>1. ASSUME Keeps, NEW h \in Handlers, api'[h] = api[h]
        PROVE  Good(api'[h])
    <3>1. api[h].pc = "enqueue" => api[h].key \in Keys
      BY DEF IndInv, Responsible
    <3> QED
      BY <1>1, <2>1, <3>1 DEF RequestsGood, Made
  <2>2. ASSUME Keeps, \A h \in Handlers : Good(api'[h])
        PROVE  RequestsGood'
    BY <2>2 DEF RequestsGood, Made, Submitting
  <2> QED
    BY <2>1, <2>2
<1>5. ASSUME NEW s \in Services, WorkerStep(s)
      PROVE  Keeps /\ \A h \in Handlers : api'[h] = api[h]
  BY <1>1, <1>5, WorkerLeavesRequests DEF RequestsGood
<1>4. SUFFICES ASSUME NEW h \in Handlers, (\E k \in Keys : SubmitResolve(h, k)) \/ SubmitStep(h)
               PROVE  Keeps /\ \A g \in Handlers : api'[g] = api[g] \/ Good(api'[g])
  <2> HIDE DEF Good, Keeps
  <2> QED
    BY <1>5, FaultlessStep
<1>6. ASSUME NEW c, api' = [api EXCEPT ![h] = c], Good(c)
      PROVE  \A g \in Handlers : api'[g] = api[g] \/ Good(api'[g])
  <2>1. \A g \in Handlers : g # h => api'[g] = api[g]
    BY <1>6 DEF IndInv, TypeOK
  <2>2. api'[h] = c
    BY <1>6 DEF IndInv, TypeOK
  <2> HIDE DEF Good
  <2> QED
    BY <1>6, <2>1, <2>2
<1>13. ASSUME idem' = idem PROVE Keeps
  BY <1>1, <1>13 DEF RequestsGood
<1>7. CASE \E k \in Keys : SubmitResolve(h, k)
  <2>1. PICK k \in Keys : SubmitResolve(h, k)
    BY <1>7
  <2> DEFINE c == Call(IF idem[k] = NoJob THEN "create" ELSE "load", k, idem[k])
  <2>2. api' = [api EXCEPT ![h] = c] /\ idem' = idem
    BY <2>1 DEF SubmitResolve, redisVars
  <2>3. Good(c)
    BY <1>1 DEF Call, Submitting, RequestsGood
  <2> HIDE DEF c, Good, Keeps
  <2> QED
    BY <1>6, <1>13, <2>2, <2>3
<1>8. CASE SubmitReplyExisting(h)
  <2>1. api' = [api EXCEPT ![h] = NoCall] /\ idem' = idem
    BY <1>8 DEF SubmitReplyExisting, redisVars
  <2>2. Good(NoCall)
    BY DEF NoCall, Call, Submitting
  <2> HIDE DEF Good, Keeps
  <2> QED
    BY <1>6, <1>13, <2>1, <2>2
<1>9. CASE SubmitStaleKey(h)
  <2> DEFINE c == Call("create", api[h].key, NoJob)
  <2>1. api' = [api EXCEPT ![h] = c] /\ idem' = idem
    BY <1>9 DEF SubmitStaleKey, redisVars
  <2>2. Good(c)
    BY DEF Call, Submitting
  <2> HIDE DEF Good, Keeps
  <2> QED
    BY <1>6, <1>13, <2>1, <2>2
<1>10. CASE SubmitCreate(h)
  <2>1. PICK j \in Jobs \ used :
          /\ used' = used \cup {j}
          /\ SaveJob(j, Meta("queued", 0, api[h].key), FALSE)
          /\ api' = [api EXCEPT ![h] = Call("register", api[h].key, j)]
    BY <1>10 DEF SubmitCreate
  <2> DEFINE c == Call("register", api[h].key, j)
  <2>2. meta'[j].payload = api[h].key
    BY <2>1 DEF SaveJob, Meta, IndInv, TypeOK
  <2>3. Good(c)
    BY <2>1, <2>2 DEF Call
  <2>4. idem' = idem
    BY <1>10 DEF SubmitCreate
  <2> HIDE DEF Good, Keeps
  <2> QED
    BY <1>6, <1>13, <2>1, <2>3, <2>4
<1>11. CASE SubmitRegister(h)
  <2> DEFINE c == Call("enqueue", api[h].key, api[h].job)
  <2>1. idem' = [idem EXCEPT ![api[h].key] = api[h].job] /\ api' = [api EXCEPT ![h].pc = "enqueue"]
        /\ api[h].pc = "register"
    BY <1>11 DEF SubmitRegister
  <2>2. api[h] \in ApiCall
    BY DEF IndInv, TypeOK
  <2>3. [api[h] EXCEPT !.pc = "enqueue"] = c
    BY <2>2 DEF ApiCall, Call
  <2>4. api' = [api EXCEPT ![h] = c]
    BY <2>1, <2>3
  <2>5. api[h].job \in Made(api[h].key) /\ api[h].key \in Keys
    BY <2>1 DEF RequestsGood, Submitting, IndInv, Responsible
  <2>6. api[h].job \in used /\ api[h].job # NoJob
    BY <2>5, DocxAssumption DEF Made, IndInv, TypeOK
  <2>7. Good(c)
    BY <1>1, <2>1, <2>5, <2>6 DEF Call, IndInv, TypeOK, Made
  <2>8. Keeps
    BY <1>1, <2>1, <2>6 DEF RequestsGood, IndInv, TypeOK
  <2> HIDE DEF c, Good, Keeps
  <2> QED
    BY <1>6, <2>4, <2>7, <2>8
<1>12. CASE SubmitEnqueue(h)
  <2>1. api' = [api EXCEPT ![h] = NoCall] /\ idem' = idem
    BY <1>12 DEF SubmitEnqueue
  <2>2. Good(NoCall)
    BY DEF NoCall, Call, Submitting
  <2> HIDE DEF Good, Keeps
  <2> QED
    BY <1>6, <1>13, <2>1, <2>2
<1> QED
  BY <1>4, <1>7, <1>8, <1>9, <1>10, <1>11, <1>12 DEF SubmitStep


(* A request that makes no job gives up what it holds only after it has    *)
(* registered it, and gets to make one only if its key is not registered.  *)
LEMMA RequestKeepsOwners ==
    ASSUME IndInv, LifeGood, RequestsGood, NEW h \in Handlers, NEW k \in Keys,
           (\E i \in Keys : SubmitResolve(h, i)) \/ SubmitStep(h), ~SubmitCreate(h)
    PROVE  /\ used' = used
           /\ idem'[k] = NoJob => idem[k] = NoJob
           /\ \A g \in Handlers : g # h => api'[g] = api[g]
           /\ api'[h].pc = "create" /\ api'[h].key = k => api[h].pc = "idle" /\ idem[k] = NoJob
           /\ \A j \in Made(k) : ApiHolds(h, j) => ApiHolds(h, j)' \/ idem'[k] # NoJob
<1>1. ASSUME NEW c, api' = [api EXCEPT ![h] = c]
      PROVE  api'[h] = c /\ \A g \in Handlers : g # h => api'[g] = api[g]
  BY <1>1 DEF IndInv, TypeOK
<1>2. CASE \E i \in Keys : SubmitResolve(h, i)
  <2>1. PICK i \in Keys : SubmitResolve(h, i)
    BY <1>2
  <2> DEFINE c == Call(IF idem[i] = NoJob THEN "create" ELSE "load", i, idem[i])
  <2>2. api' = [api EXCEPT ![h] = c] /\ idem' = idem /\ used' = used /\ api[h].pc = "idle"
    BY <2>1 DEF SubmitResolve, redisVars, ghostVars
  <2>3. c.pc = "create" /\ c.key = k => idem[k] = NoJob
    BY DEF Call
  <2> HIDE DEF c
  <2> QED
    BY <1>1, <2>2, <2>3 DEF ApiHolds, Submitting
<1>3. CASE SubmitReplyExisting(h)
  BY <1>1, <1>3 DEF SubmitReplyExisting, NoCall, Call, ApiHolds, Submitting, redisVars
<1>4. CASE SubmitStaleKey(h)
  BY <1>4 DEF SubmitStaleKey, RequestsGood, LifeGood
<1>5. CASE SubmitRegister(h)
  <2> DEFINE c == [api[h] EXCEPT !.pc = "enqueue"]
  <2>1. idem' = [idem EXCEPT ![api[h].key] = api[h].job] /\ api' = [api EXCEPT ![h] = c]
        /\ api[h].pc = "register" /\ used' = used
    BY <1>5 DEF SubmitRegister, ghostVars
  <2>2. c.pc = "enqueue" /\ c.job = api[h].job
    BY DEF IndInv, TypeOK, ApiCall
  <2>3. api[h].job \in Jobs
    BY <2>1 DEF Submitting, IndInv, Responsible, TypeOK
  <2>4. idem'[k] = NoJob => idem[k] = NoJob
    BY <2>1, <2>3, DocxAssumption DEF IndInv, TypeOK
  <2> HIDE DEF c
  <2> QED
    BY <1>1, <2>1, <2>2, <2>4 DEF ApiHolds, Submitting
<1>6. CASE SubmitEnqueue(h)
  <2>1. api' = [api EXCEPT ![h] = NoCall] /\ idem' = idem /\ used' = used
    BY <1>6 DEF SubmitEnqueue, ghostVars
  <2>2. ASSUME NEW j \in Made(k), ApiHolds(h, j) PROVE idem[k] # NoJob
    BY <1>6, <2>2 DEF SubmitEnqueue, ApiHolds, Made, RequestsGood
  <2> QED
    BY <1>1, <2>1, <2>2 DEF NoCall, Call
<1> QED
  BY <1>2, <1>3, <1>4, <1>5, <1>6 DEF SubmitStep

LEMMA CreateKeepsOwners ==
    ASSUME IndInv, LifeGood, LifeGood', MadeGood, Next, NEW k \in Keys,
           NEW owner \in [Made(k) -> Handlers], Owners(owner, k),
           NEW h \in Handlers, SubmitCreate(h)
    PROVE  \E o \in [Made(k)' -> Handlers] : Owners(o, k)'
<1>1. PICK j \in Jobs \ used :
        /\ used' = used \cup {j}
        /\ SaveJob(j, Meta("queued", 0, api[h].key), FALSE)
        /\ api' = [api EXCEPT ![h] = Call("register", api[h].key, j)]
  BY DEF SubmitCreate
<1> DEFINE c == Call("register", api[h].key, j)
<1>2. api'[h] = c /\ \A g \in Handlers : g # h => api'[g] = api[g]
  BY <1>1 DEF IndInv, TypeOK
<1>3. c.pc = "register" /\ c.job = j
  BY DEF Call
<1>4. meta'[j].payload = api[h].key
  BY <1>1 DEF SaveJob, Meta, IndInv, TypeOK
<1>5. idem' = idem /\ api[h].pc = "create"
  BY DEF SubmitCreate
<1>6. Made(k)' = IF api[h].key = k THEN Made(k) \cup {j} ELSE Made(k)
  BY <1>1, <1>4, PayloadStays DEF Made
<1>7. j \notin Made(k)
  BY DEF Made
<1> HIDE DEF c
<1>8. ASSUME NEW o \in [Made(k)' -> Handlers],
             \A i, l \in Made(k)' : o[i] = o[l] => i = l,
             \A g \in Handlers, i \in Made(k)' :
               api'[g].pc = "create" /\ api'[g].key = k => o[i] # g,
             idem'[k] = NoJob => \A i \in Made(k)' : ApiHolds(o[i], i)'
      PROVE  Owners(o, k)'
  BY <1>8 DEF Owners
<1>9. CASE api[h].key = k
  <2>1. \A i \in Made(k) : owner[i] \in Handlers /\ owner[i] # h
    BY <1>5, <1>9 DEF Owners
  <2>2. PICK o \in [Made(k)' -> Handlers] :
          o[j] = h /\ \A i \in Made(k) : o[i] = owner[i]
    <3> DEFINE f == [i \in Made(k)' |-> IF i = j THEN h ELSE owner[i]]
    <3>1. f \in [Made(k)' -> Handlers]
      BY <1>6, <1>9, <2>1
    <3>2. f[j] = h /\ \A i \in Made(k) : f[i] = owner[i]
      BY <1>6, <1>7, <1>9
    <3> QED
      BY <3>1, <3>2
  <2>3. \A i, l \in Made(k)' : o[i] = o[l] => i = l
    BY <1>6, <1>9, <2>1, <2>2 DEF Owners
  <2>4. \A g \in Handlers, i \in Made(k)' : api'[g].pc = "create" /\ api'[g].key = k => o[i] # g
    BY <1>2, <1>3, <1>6, <1>9, <2>1, <2>2 DEF Owners
  <2>5. idem'[k] = NoJob => \A i \in Made(k)' : ApiHolds(o[i], i)'
    BY <1>2, <1>3, <1>5, <1>6, <1>9, <2>1, <2>2 DEF Owners, ApiHolds, Submitting
  <2> QED
    BY <1>8, <2>3, <2>4, <2>5
<1>10. CASE api[h].key # k
  <2>1. \A i \in Made(k) : owner[i] \in Handlers
    OBVIOUS
  <2>2. \A g \in Handlers, i \in Made(k)' :
          api'[g].pc = "create" /\ api'[g].key = k => owner[i] # g
    BY <1>2, <1>3, <1>6, <1>10 DEF Owners
  <2>3. idem'[k] = NoJob => \A i \in Made(k)' : ApiHolds(owner[i], i)'
    BY <1>2, <1>5, <1>6, <1>10, <2>1 DEF Owners, ApiHolds, Submitting
  <2>4. Owners(owner, k)'
    BY <1>6, <1>8, <1>10, <2>2, <2>3 DEF Owners
  <2> QED
    BY <1>6, <1>10, <2>4
<1> QED
  BY <1>9, <1>10

LEMMA StepKeepsOwners ==
    ASSUME Faults = {}, IndInv, LifeGood, LifeGood', MadeGood, RequestsGood, OwnersGood, Next
    PROVE  OwnersGood'
<1> SUFFICES ASSUME NEW k \in Keys
             PROVE  \E o \in [Made(k)' -> Handlers] : Owners(o, k)'
  BY DEF OwnersGood
<1>1. PICK owner \in [Made(k) -> Handlers] : Owners(owner, k)
  BY DEF OwnersGood
<1>3. CASE \E s \in Services : WorkerStep(s)
  <2>1. UNCHANGED <<api, idem, used>>
    BY <1>3, WorkerLeavesRequests
  <2>2. \A g \in Handlers, j \in Made(k) : ApiHolds(g, j) => ApiHolds(g, j)'
    BY <2>1 DEF ApiHolds
  <2> QED
    BY <1>1, <2>1, <2>2, OwnersStay
<1>4. ASSUME NEW h \in Handlers, SubmitCreate(h)
      PROVE  \E o \in [Made(k)' -> Handlers] : Owners(o, k)'
  BY <1>1, <1>4, CreateKeepsOwners
<1>5. ASSUME NEW h \in Handlers, (\E i \in Keys : SubmitResolve(h, i)) \/ SubmitStep(h),
             ~SubmitCreate(h)
      PROVE  \E o \in [Made(k)' -> Handlers] : Owners(o, k)'
  <2>1. /\ used' = used
        /\ idem'[k] = NoJob => idem[k] = NoJob
        /\ \A g \in Handlers : g # h => api'[g] = api[g]
        /\ api'[h].pc = "create" /\ api'[h].key = k => api[h].pc = "idle" /\ idem[k] = NoJob
        /\ \A j \in Made(k) : ApiHolds(h, j) => ApiHolds(h, j)' \/ idem'[k] # NoJob
    BY <1>5, RequestKeepsOwners
  <2>2. \A g \in Handlers : api'[g].pc = "create" /\ api'[g].key = k =>
          (api[g].pc = "create" /\ api[g].key = k) \/ (api[g].pc = "idle" /\ idem[k] = NoJob)
    BY <2>1
  <2>3. \A g \in Handlers, j \in Made(k) : ApiHolds(g, j) => ApiHolds(g, j)' \/ idem'[k] # NoJob
    BY <2>1 DEF ApiHolds
  <2> QED
    BY <1>1, <2>1, <2>2, <2>3, OwnersStay
<1> QED
  BY <1>3, <1>4, <1>5, FaultlessStep

OneEachInv == LifeGood /\ MadeGood /\ RequestsGood /\ OwnersGood

LEMMA OwnersSayOneEach ==
    ASSUME IsFiniteSet(Handlers), IndInv, OwnersGood
    PROVE  OneJobPerOpenRequest
<1> SUFFICES ASSUME NEW k \in Keys
             PROVE  Cardinality({j \in Jobs : meta[j].payload = k}) <= Cardinality(Handlers)
  BY DEF OneJobPerOpenRequest
<1>1. Made(k) = {j \in Jobs : meta[j].payload = k}
  BY DocxAssumption DEF Made, NoMeta, IndInv, TypeOK, Responsible
<1>2. PICK owner \in [Made(k) -> Handlers] : Owners(owner, k)
  BY DEF OwnersGood
<1>3. owner \in Injection(Made(k), Handlers)
  BY <1>2 DEF Injection, IsInjective, Owners
<1> QED
  BY <1>1, <1>3, FS_Injection

(* While nothing fails and nothing expires, the jobs stored for one key    *)
(* are no more than the requests that can be open together, in one process *)
(* or in several, whatever the number of clients and of clicks: the race   *)
(* of _resolve_idempotency with _save_idempotency costs one job for each   *)
(* handler that is between the two when the first one registers            *)
(* (main.py:486-490, 505-508).                                             *)
THEOREM OneJobEach ==
    ASSUME Faults = {}, IsFiniteSet(Handlers)
    PROVE  Spec => []OneJobPerOpenRequest
<1>1. Init => OneEachInv
  <2> SUFFICES ASSUME Init PROVE OneEachInv
    OBVIOUS
  <2>1. LifeGood
    BY InitLives
  <2>2. MadeGood /\ RequestsGood
    BY DEF Init, MadeGood, RequestsGood, NoCall, Call, Submitting
  <2>3. \A k : Made(k) = {}
    BY DEF Made, Init
  <2>4. ASSUME NEW k \in Keys PROVE \E owner \in [Made(k) -> Handlers] : Owners(owner, k)
    <3> DEFINE o == [i \in {} |-> i]
    <3>1. o \in [{} -> Handlers]
      OBVIOUS
    <3>2. Owners(o, k)
      BY <2>3 DEF Owners
    <3> QED
      BY <2>3, <3>1, <3>2
  <2> QED
    BY <2>1, <2>2, <2>4 DEF OneEachInv, OwnersGood
<1>2. IndInv /\ OneEachInv /\ [Next]_vars => OneEachInv'
  <2> SUFFICES ASSUME IndInv, OneEachInv, [Next]_vars PROVE OneEachInv'
    OBVIOUS
  <2>1. LifeGood'
    BY StepLives DEF OneEachInv
  <2>2. CASE UNCHANGED vars
    <3>1. UNCHANGED <<meta, idem, api, worker, used>>
      BY <2>2 DEF vars, redisVars, ghostVars
    <3>2. MadeGood'
      BY <3>1 DEF OneEachInv, MadeGood, MadeFrom, WorkerHolds
    <3>3. RequestsGood'
      BY <3>1 DEF OneEachInv, RequestsGood, Made
    <3>4. \A k : Made(k)' = Made(k)
      BY <3>1 DEF Made
    <3>5. \A k, owner : Owners(owner, k) => Owners(owner, k)'
      BY <3>1, <3>4 DEF Owners, ApiHolds
    <3>6. OwnersGood'
      BY <3>4, <3>5 DEF OneEachInv, OwnersGood
    <3> QED
      BY <2>1, <3>2, <3>3, <3>6 DEF OneEachInv
  <2>3. CASE Next
    BY <2>1, <2>3, StepKeepsMade, RequestsStay, StepKeepsOwners DEF OneEachInv
  <2> QED
    BY <2>2, <2>3
<1>3. IndInv /\ OneEachInv => OneJobPerOpenRequest
  BY OwnersSayOneEach DEF OneEachInv
<1> QED
  BY <1>1, <1>2, <1>3, Invariance, PTL DEF Spec
================================================================================
