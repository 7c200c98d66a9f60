------------------------------ MODULE DocxMemory ------------------------------
(***************************************************************************)
(* The DOCX job pipeline without Redis: jobs, queue and idempotency keys   *)
(* are in the memory of one process, whose only worker takes the jobs in   *)
(* turn.  A generation does not await anything, so nothing else runs       *)
(* meanwhile; what can come in between is the end of the process.          *)
(***************************************************************************)
EXTENDS Integers, Sequences

CONSTANTS
    MemJobs,     \* job ids, never given out twice
    MemKeys,     \* idempotency keys
    MemRetries,  \* DOCX_JOB_MAX_RETRIES
    Nobody       \* no job

ASSUME MemoryAssumption == MemRetries \in Nat \ {0} /\ Nobody \notin MemJobs

VARIABLES
    memJob,    \* docx_jobs: the jobs there are
    memQueue,  \* docx_job_queue
    memKey,    \* docx_idempotency: the job of a key
    hand,      \* the job the worker has taken from the queue
    busy,      \* is it being generated?
    told       \* what was last said of each job, if it is there still or not

memoryVars == <<memJob, memQueue, memKey, hand, busy, told>>

-----------------------------------------------------------------------------
Told   == [status : {"absent", "queued", "processing", "completed", "failed"},
           attempts : 0 .. MemRetries]
MemJob == [status : {"queued", "processing", "completed", "failed"},
           attempts : 0 .. MemRetries, old : BOOLEAN]

(* Types of what is in memory.                                             *)
MemoryTypeOK ==
    /\ DOMAIN memJob \subseteq MemJobs /\ \A j \in DOMAIN memJob : memJob[j] \in MemJob
    /\ memQueue \in Seq(MemJobs)
    /\ DOMAIN memKey \subseteq MemKeys
    /\ \A k \in DOMAIN memKey : memKey[k] \in [job : MemJobs, old : BOOLEAN]
    /\ hand \in MemJobs \cup {Nobody} /\ busy \in BOOLEAN
    /\ told \in [MemJobs -> Told]

OnlyOf(f, S) == [x \in S |-> f[x]]
With(f, x, y) == [z \in DOMAIN f \cup {x} |-> IF z = x THEN y ELSE f[z]]

Ended(j) == memJob[j].status \in {"completed", "failed"}
JobsYoung == {j \in DOMAIN memJob : ~memJob[j].old}  \* mutant: finished or not
JobsKept == {j \in DOMAIN memJob : ~(Ended(j) /\ memJob[j].old)}
KeysKept == {k \in DOMAIN memKey : ~memKey[k].old}

(* Job j is now s after n attempts, and not old.                           *)
Becomes(j, s, n) ==
    /\ memJob' = [memJob EXCEPT ![j] = [status |-> s, attempts |-> n, old |-> FALSE]]
    /\ told' = [told EXCEPT ![j] = [status |-> s, attempts |-> n]]

-----------------------------------------------------------------------------
(* Whoever submits a job, or asks for one, has what is too old removed;    *)
(* the key of a job that is there still is answered with that job.         *)
CleanUp ==
    /\ ~busy
    /\ memJob' = OnlyOf(memJob, JobsKept)
    /\ memKey' = OnlyOf(memKey, KeysKept)
    /\ UNCHANGED <<memQueue, hand, busy, told>>

Submit(j, k) ==
    /\ ~busy /\ told[j].status = "absent"
    /\ k \in KeysKept => memKey[k].job \notin JobsKept
    /\ memJob' = With(OnlyOf(memJob, JobsKept), j,
                      [status |-> "queued", attempts |-> 0, old |-> FALSE])
    /\ memKey' = With(OnlyOf(memKey, KeysKept), k, [job |-> j, old |-> FALSE])
    /\ memQueue' = Append(memQueue, j)
    /\ told' = [told EXCEPT ![j].status = "queued"]
    /\ UNCHANGED <<hand, busy>>

(* The time to live of a job runs from its last change, that of a key from *)
(* its registration.                                                       *)
KeyAges(k) ==
    /\ ~busy /\ k \in KeysKept
    /\ memKey' = [memKey EXCEPT ![k].old = TRUE]
    /\ UNCHANGED <<memJob, memQueue, hand, busy, told>>

JobAges(j) ==
    /\ ~busy /\ ~memJob[j].old
    /\ \A k \in KeysKept : memKey[k].job # j
    /\ memJob' = [memJob EXCEPT ![j].old = TRUE]
    /\ UNCHANGED <<memQueue, memKey, hand, busy, told>>

(* The worker.  Between taking a job and beginning it others may run.      *)
Pull ==
    /\ hand = Nobody /\ memQueue # <<>>
    /\ hand' = Head(memQueue) /\ memQueue' = Tail(memQueue)
    /\ UNCHANGED <<memJob, memKey, busy, told>>

Generate ==
    /\ hand # Nobody /\ ~busy
    /\ Becomes(hand, "processing", memJob[hand].attempts + 1)
    /\ busy' = TRUE
    /\ UNCHANGED <<memQueue, memKey, hand>>

Generated ==
    /\ busy
    /\ Becomes(hand, "completed", memJob[hand].attempts)
    /\ busy' = FALSE /\ hand' = Nobody
    /\ UNCHANGED <<memQueue, memKey>>

(* Mutant: a job is given up before its last attempt.                      *)
GenerationFailsEarly ==
    LET n == memJob[hand].attempts IN
    /\ busy
    /\ IF n < MemRetries - 1
       THEN Becomes(hand, "queued", n) /\ memQueue' = Append(memQueue, hand)
       ELSE Becomes(hand, "failed", n) /\ UNCHANGED memQueue
    /\ busy' = FALSE /\ hand' = Nobody
    /\ UNCHANGED memKey

(* Mutant: there is one more attempt than allowed.                         *)
GenerationFailsLate ==
    LET n == memJob[hand].attempts IN
    /\ busy
    /\ IF n <= MemRetries
       THEN Becomes(hand, "queued", n) /\ memQueue' = Append(memQueue, hand)
       ELSE Becomes(hand, "failed", n) /\ UNCHANGED memQueue
    /\ busy' = FALSE /\ hand' = Nobody
    /\ UNCHANGED memKey

(* A failure puts the job back in line, unless it was the last attempt.    *)
GenerationFails ==
    LET n == memJob[hand].attempts IN
    /\ busy
    /\ IF n < MemRetries
       THEN Becomes(hand, "queued", n) /\ memQueue' = Append(memQueue, hand)
       ELSE Becomes(hand, "failed", n) /\ UNCHANGED memQueue
    /\ busy' = FALSE /\ hand' = Nobody
    /\ UNCHANGED memKey

(* Restarting forgets everything.                                          *)
MemoryLost ==
    /\ memJob' = <<>> /\ memQueue' = <<>> /\ memKey' = <<>>
    /\ hand' = Nobody /\ busy' = FALSE
    /\ UNCHANGED told

-----------------------------------------------------------------------------
MemoryInit ==
    /\ memJob = <<>> /\ memQueue = <<>> /\ memKey = <<>>
    /\ hand = Nobody /\ busy = FALSE
    /\ told = [j \in MemJobs |-> [status |-> "absent", attempts |-> 0]]

MemoryNext ==
    \/ CleanUp
    \/ \E j \in MemJobs, k \in MemKeys : Submit(j, k)
    \/ \E k \in MemKeys : KeyAges(k)
    \/ \E j \in DOMAIN memJob : JobAges(j)
    \/ Pull \/ Generate \/ Generated \/ GenerationFails
    \/ MemoryLost

MemorySpec == MemoryInit /\ [][MemoryNext]_memoryVars

-----------------------------------------------------------------------------
(* Also without Redis, the pipeline keeps what DocxJob promises: a job is  *)
(* accepted once, has its attempts and no more, ends once, and a job that  *)
(* is removed or lost is not heard of again (main.py:316-357, 428-509).    *)
Job == INSTANCE DocxJob WITH
         Jobs <- MemJobs, MaxRetries <- MemRetries,
         status <- [j \in MemJobs |-> told[j].status],
         attempts <- [j \in MemJobs |-> told[j].attempts]

MemoryImplementsJob == Job!JobSpec

(* A job that is not finished is in line, once, or in the worker's hands,  *)
(* and an idempotency key that is not expired names a job that is there:   *)
(* what is removed as too old is never needed (main.py:341-357, 396-410).  *)
NothingNeededIsRemoved ==
    /\ \A j \in DOMAIN memJob : ~Ended(j) =>
         IF j = hand THEN \A i \in DOMAIN memQueue : memQueue[i] # j
         ELSE \E i \in DOMAIN memQueue : \A n \in DOMAIN memQueue : (memQueue[n] = j) <=> (n = i)
    /\ \A i \in DOMAIN memQueue : memQueue[i] \in DOMAIN memJob
    /\ hand # Nobody => hand \in DOMAIN memJob
    /\ \A k \in KeysKept : memKey[k].job \in DOMAIN memJob
=============================================================================
