------------------------------ MODULE JobQueue ------------------------------
(***************************************************************************)
(* The BullMQ queue as src/apps/api uses it: one job record per job id, a   *)
(* producer that adds jobs (Queue.add with a jobId), and workers that run   *)
(* them under a lock.  BullMQ is a library: its behaviour is modelled from  *)
(* the options the code passes (attempts, backoff, removeOnComplete,        *)
(* removeOnFail) and the way the producers and processors call it.          *)
(*                                                                          *)
(* The module has no behaviour of its own.  DocumentPipeline and            *)
(* VehicleScans instantiate it with their own job ids and payloads and put  *)
(* its operators in their actions.                                          *)
(***************************************************************************)
EXTENDS Naturals

CONSTANTS
    JobId,       \* the job ids a producer can build
    Worker,      \* the execution slots (Worker concurrency)
    Payload,     \* what a job carries
    NoPayload,   \* the payload of a job id that is not in the queue
    NoWorker,    \* the holder of a job nobody runs
    Attempts,    \* defaultJobOptions.attempts
    MaxStalled   \* how often a stalled job is handed out again

VARIABLE job     \* job[j]: the record kept under job id j

JobState == {"absent", "waiting", "active", "delayed", "completed", "failed"}

JobRecord == [state  : JobState,
              data   : Payload \cup {NoPayload},
              tries  : 0 .. Attempts,
              stalls : 0 .. MaxStalled,
              holder : Worker \cup {NoWorker}]

NoJob == [state |-> "absent", data |-> NoPayload, tries |-> 0, stalls |-> 0,
          holder |-> NoWorker]

NewJob(data) == [state |-> "waiting", data |-> data, tries |-> 0, stalls |-> 0,
                 holder |-> NoWorker]

\* A job that some worker runs or will run without anybody's help.
InFlight(j) == job[j].state \in {"waiting", "active", "delayed"}

Holds(w, j) == job[j].state = "active" /\ job[j].holder = w

QueueInit == job = [j \in JobId |-> NoJob]

-----------------------------------------------------------------------------
\* Queue.add: a job id that is still known to the queue, in whatever state,
\* makes the call a no-op.  Completed jobs stay known (removeOnComplete: 1000)
\* and so do failed ones (removeOnFail: false).
Add(j, data) ==
    job' = IF job[j].state = "absent"
           THEN [job EXCEPT ![j] = NewJob(data)]
           ELSE job

\* A worker takes a waiting job and with it the job's lock.
Take(w, j) ==
    /\ job[j].state = "waiting"
    /\ job' = [job EXCEPT ![j].state = "active", ![j].holder = w]

\* The processor returned.  Without the lock the queue refuses the result.
Complete(w, j) ==
    job' = IF Holds(w, j)
           THEN [job EXCEPT ![j].state = "completed", ![j].holder = NoWorker]
           ELSE job

\* Mutant: one attempt too many.
FailOffByOne(w, j) ==
    job' = IF Holds(w, j)
           THEN [job EXCEPT ![j].state  = IF job[j].tries < Attempts THEN "delayed" ELSE "failed",
                            ![j].tries  = job[j].tries + 1,
                            ![j].holder = NoWorker]
           ELSE job

\* The processor threw: another attempt after the backoff, or the failed set.
Fail(w, j) ==
    job' = IF Holds(w, j)
           THEN [job EXCEPT ![j].state  = IF job[j].tries + 1 < Attempts
                                          THEN "delayed" ELSE "failed",
                            ![j].tries  = job[j].tries + 1,
                            ![j].holder = NoWorker]
           ELSE job

\* The backoff delay is over.
Promote(j) ==
    /\ job[j].state = "delayed"
    /\ job' = [job EXCEPT ![j].state = "waiting"]

\* A job whose lock was not renewed is handed out again, MaxStalled times.
Stall(j) ==
    /\ job[j].state = "active"
    /\ job' = IF job[j].stalls < MaxStalled
              THEN [job EXCEPT ![j].state  = "waiting",
                               ![j].stalls = job[j].stalls + 1,
                               ![j].holder = NoWorker]
              ELSE [job EXCEPT ![j].state = "failed", ![j].holder = NoWorker]

\* Later completions push a completed job out of the last 1000 that are kept.
Evict(j) ==
    /\ job[j].state = "completed"
    /\ job' = [job EXCEPT ![j] = NoJob]
=============================================================================
