---------------------------- MODULE VehicleScans ----------------------------
(***************************************************************************)
(* Reading registration certificates in the background, for one tenant:     *)
(* the handlers of VehiclesService that start a scan, save its result as a  *)
(* vehicle and delete a vehicle, the vehicle-scans queue, and the workers   *)
(* of VehicleScanProcessor.                                                 *)
(*                                                                          *)
(* The files of a scan are staged in the object store under the scan's id.  *)
(* Saving binds them to the archive of a vehicle; deleting the vehicle      *)
(* deletes them.  Abstracted: what is read from the files is only whether   *)
(* its plate or VIN matches a vehicle, and which; the one or two files of a *)
(* scan are one object; the fields of a vehicle are left out.  The client   *)
(* polls the scan and saves it when it is DONE, on the matched vehicle if   *)
(* there is one (VehicleScanModal of apps/web).                             *)
(***************************************************************************)
EXTENDS Integers, FiniteSets

CONSTANTS
    Scan,          \* scan ids
    Worker,        \* worker slots: Worker concurrency 2
    Request,       \* HTTP requests that can be in progress at the same time
    None,          \* null
    MaxVehicles,   \* bound: vehicles ever created
    VehicleLimit,  \* PLAN_LIMITS[plan].maxVehicles, -1 is unlimited
    Attempts,      \* defaultJobOptions.attempts
    MaxStalled,    \* how often BullMQ hands out a stalled job again
    Ops,           \* the handlers that are called
    Faults         \* the failures that happen

AllOps == {"scan", "save", "create", "remove"}

\* As in DocumentPipeline.
AllFaults == {"crash", "lock", "db", "redis", "store", "api"}

ASSUME ConstantsAssumption ==
    /\ MaxVehicles \in Nat
    /\ VehicleLimit \in Int
    /\ Attempts \in Nat \ {0}
    /\ MaxStalled \in Nat
    /\ IsFiniteSet(Request)
    /\ Ops \subseteq AllOps
    /\ Faults \subseteq AllFaults
    /\ None \notin Scan \cup Worker

VARIABLES
    scan,      \* scan[s]: the VehicleScan row s
    vehicles,  \* the vehicles that exist
    created,   \* the number of vehicles created so far
    archive,   \* <<v, s>>: vehicle v has documents that refer to the files of scan s
    files,     \* the scans whose files are in the store
    job,       \* the BullMQ queue, one job id per scan
    wk,        \* wk[w]: what worker slot w is doing
    req        \* req[r]: what request r is doing

vars == <<scan, vehicles, created, archive, files, job, wk, req>>

VehicleId == 1 .. MaxVehicles
NoVehicle == 0

Queue == INSTANCE JobQueue WITH JobId <- Scan, Payload <- Scan,
                                NoPayload <- None, NoWorker <- None

Unfinished == {"PENDING", "OCR_RUNNING", "EXTRACTING"}
Outcome    == {"DONE", "FAILED"}

ScanRow == [status : Unfinished \cup Outcome \cup {"ABSENT"},
            match  : VehicleId \cup {NoVehicle}]

Exists(s) == scan[s].status # "ABSENT"

WithStatus(s, status) == [scan EXCEPT ![s].status = status]

WithinLimit(n) == VehicleLimit = -1 \/ n < VehicleLimit

-----------------------------------------------------------------------------
(* Requests: VehiclesService *)

RequestPc == {"idle",
              "scanStore", "scanCreate", "scanEnqueue",     \* startScan
              "update", "limit", "create", "attach",        \* confirmScan, create
              "rmDelete", "rmFiles"}                        \* remove

RequestState == [pc      : RequestPc,
                 scan    : Scan \cup {None},
                 vehicle : VehicleId \cup {NoVehicle},
                 docs    : SUBSET Scan]

Call(pc, s, v, docs) == [pc |-> pc, scan |-> s, vehicle |-> v, docs |-> docs]

IdleRequest == Call("idle", None, NoVehicle, {})

At(r, pc) == req[r].pc = pc
Goto(r, pc) == req' = [req EXCEPT ![r].pc = pc]
Begin(r, call) == req' = [req EXCEPT ![r] = call]
Return(r) == Begin(r, IdleRequest)

\* Bound: a request that may still create a vehicle has an id reserved for it.
Creating == {r \in Request : req[r].pc \in {"limit", "create"}}
RoomForVehicle == created + Cardinality(Creating) < MaxVehicles

\* startScan: randomUUID, so the id is in no other hands.
StartScan(r, s) ==
    /\ "scan" \in Ops /\ At(r, "idle")
    /\ ~Exists(s) /\ \A q \in Request : req[q].scan # s
    /\ Begin(r, Call("scanStore", s, NoVehicle, {}))
    /\ UNCHANGED <<scan, vehicles, created, archive, files, job, wk>>

StageFiles(r) ==
    /\ At(r, "scanStore")
    /\ \/ files' = files \cup {req[r].scan} /\ Goto(r, "scanCreate")
       \/ "store" \in Faults /\ UNCHANGED files /\ Return(r)
    /\ UNCHANGED <<scan, vehicles, created, archive, job, wk>>

CreateScan(r) ==
    /\ At(r, "scanCreate")
    /\ scan' = WithStatus(req[r].scan, "PENDING")
    /\ Goto(r, "scanEnqueue")
    /\ UNCHANGED <<vehicles, created, archive, files, job, wk>>

\* Not a safeEnqueue: an error of Redis reaches the caller, who never learns
\* the id of the scan that stays behind.
EnqueueScan(r) ==
    /\ At(r, "scanEnqueue")
    /\ \/ Queue!Add(req[r].scan, req[r].scan)
       \/ "redis" \in Faults /\ UNCHANGED job
    /\ Return(r)
    /\ UNCHANGED <<scan, vehicles, created, archive, files, wk>>

\* confirmScan of what the client has polled: on the matched vehicle, or on a
\* new one.
SaveScan(r, s) ==
    /\ "save" \in Ops /\ At(r, "idle")
    /\ scan[s].status = "DONE"
    /\ LET v == scan[s].match IN
       \/ v # NoVehicle /\ Begin(r, Call("update", s, v, {}))
       \/ v = NoVehicle /\ RoomForVehicle /\ Begin(r, Call("limit", s, NoVehicle, {}))
    /\ UNCHANGED <<scan, vehicles, created, archive, files, job, wk>>

\* create without a scan: the vehicle form, and every new row of a CSV import.
CreateVehicle(r) ==
    /\ "create" \in Ops /\ At(r, "idle") /\ RoomForVehicle
    /\ Begin(r, Call("limit", None, NoVehicle, {}))
    /\ UNCHANGED <<scan, vehicles, created, archive, files, job, wk>>

\* update: both getById and vehicle.update fail when the vehicle is gone.
UpdateVehicle(r) ==
    /\ At(r, "update")
    /\ \/ req[r].vehicle \in vehicles /\ Goto(r, "attach")
       \/ req[r].vehicle \notin vehicles /\ Return(r)
    /\ UNCHANGED <<scan, vehicles, created, archive, files, job, wk>>

\* Mutant: the vehicles are not counted.
AssertVehicleLimitSkipped(r) ==
    /\ At(r, "limit") /\ Goto(r, "create")
    /\ UNCHANGED <<scan, vehicles, created, archive, files, job, wk>>

AssertVehicleLimit(r) ==
    /\ At(r, "limit")
    /\ \/ WithinLimit(Cardinality(vehicles)) /\ Goto(r, "create")
       \/ ~WithinLimit(Cardinality(vehicles)) /\ Return(r)
    /\ UNCHANGED <<scan, vehicles, created, archive, files, job, wk>>

InsertVehicle(r) ==
    /\ At(r, "create")
    /\ created' = created + 1
    /\ vehicles' = vehicles \cup {created + 1}
    /\ \/ req[r].scan = None /\ Return(r)
       \/ /\ req[r].scan # None
          /\ req' = [req EXCEPT ![r].pc = "attach", ![r].vehicle = created + 1]
    /\ UNCHANGED <<scan, archive, files, job, wk>>

\* Mutant: no foreign key.
AttachFilesUnchecked(r) ==
    /\ At(r, "attach")
    /\ archive' = archive \cup {<<req[r].vehicle, req[r].scan>>}
    /\ Return(r)
    /\ UNCHANGED <<scan, vehicles, created, files, job, wk>>

\* vehicleDocument.createMany: fails on its foreign key when the vehicle has
\* been deleted since.
AttachFiles(r) ==
    /\ At(r, "attach")
    /\ archive' = IF req[r].vehicle \in vehicles
                  THEN archive \cup {<<req[r].vehicle, req[r].scan>>}
                  ELSE archive
    /\ Return(r)
    /\ UNCHANGED <<scan, vehicles, created, files, job, wk>>

\* remove: the keys of the archived files are read before the vehicle goes.
RemoveVehicle(r, v) ==
    /\ "remove" \in Ops /\ At(r, "idle")
    /\ v \in vehicles
    /\ Begin(r, Call("rmDelete", None, v, {s \in Scan : <<v, s>> \in archive}))
    /\ UNCHANGED <<scan, vehicles, created, archive, files, job, wk>>

\* vehicle.delete: the vehicle's documents go with it (Cascade).
DeleteVehicle(r) ==
    /\ At(r, "rmDelete")
    /\ \/ /\ req[r].vehicle \in vehicles
          /\ vehicles' = vehicles \ {req[r].vehicle}
          /\ archive' = {a \in archive : a[1] # req[r].vehicle}
          /\ IF req[r].docs = {} THEN Return(r) ELSE Goto(r, "rmFiles")
       \/ /\ req[r].vehicle \notin vehicles
          /\ Return(r)
          /\ UNCHANGED <<vehicles, archive>>
    /\ UNCHANGED <<scan, created, files, job, wk>>

\* One by one, best effort.
DeleteFile(r, s) ==
    /\ At(r, "rmFiles") /\ s \in req[r].docs
    /\ \/ files' = files \ {s}
       \/ "store" \in Faults /\ UNCHANGED files
    /\ IF req[r].docs = {s} THEN Return(r)
       ELSE req' = [req EXCEPT ![r].docs = req[r].docs \ {s}]
    /\ UNCHANGED <<scan, vehicles, created, archive, job, wk>>

\* The API process dies in the middle of a handler, or a query of it fails.
RequestLost(r) ==
    /\ "api" \in Faults /\ ~At(r, "idle")
    /\ Return(r)
    /\ UNCHANGED <<scan, vehicles, created, archive, files, job, wk>>

-----------------------------------------------------------------------------
(* Workers: VehicleScanProcessor.process *)

WorkerPc == {"idle", "start", "recognizing", "extracting", "matched",
             "ack", "catch", "throw"}

\* Inside the try block of process.
Trying == {"start", "recognizing", "extracting", "matched"}

WorkerState == [pc    : WorkerPc,
                scan  : Scan \cup {None},
                match : VehicleId \cup {NoVehicle}]

Run(pc, s) == [pc |-> pc, scan |-> s, match |-> NoVehicle]

IdleWorker == Run("idle", None)

Does(w, pc) == wk[w].pc = pc
Step(w, pc) == wk' = [wk EXCEPT ![w].pc = pc]

\* The worker that took the job of s is still running it.
Executing(s) == \E w \in Worker : Queue!Holds(w, s) /\ ~Does(w, "idle") /\ wk[w].scan = s

\* Mutant: only DONE counts as processed.
ProcessFailedAgain(w, s) ==
    /\ Does(w, "idle")
    /\ Queue!Take(w, s)
    /\ wk' = [wk EXCEPT ![w] = Run(IF Exists(s) /\ scan[s].status # "DONE"
                                   THEN "start" ELSE "ack", s)]
    /\ UNCHANGED <<scan, vehicles, created, archive, files, req>>

\* The job is taken and its scan read.  A missing scan and one that is DONE or
\* FAILED is skipped.  The read stands outside the try block.
Process(w, s) ==
    /\ Does(w, "idle")
    /\ Queue!Take(w, s)
    /\ LET skip == ~Exists(s) \/ scan[s].status \in Outcome IN
       \E pc \in {"start", "ack", "throw"} :
          /\ \/ pc = "start" /\ ~skip
             \/ pc = "ack" /\ skip
             \/ pc = "throw" /\ "db" \in Faults
          /\ wk' = [wk EXCEPT ![w] = Run(pc, s)]
    /\ UNCHANGED <<scan, vehicles, created, archive, files, req>>

SetOcrRunning(w) ==
    /\ Does(w, "start")
    /\ scan' = WithStatus(wk[w].scan, "OCR_RUNNING")
    /\ Step(w, "recognizing")
    /\ UNCHANGED <<vehicles, created, archive, files, job, req>>

\* All files have been read.
SetExtracting(w) ==
    /\ Does(w, "recognizing")
    /\ scan' = WithStatus(wk[w].scan, "EXTRACTING")
    /\ Step(w, "extracting")
    /\ UNCHANGED <<vehicles, created, archive, files, job, req>>

\* The plate or the VIN that was read is that of any one vehicle, or of none.
FindMatchingVehicle(w) ==
    /\ Does(w, "extracting")
    /\ \E v \in vehicles \cup {NoVehicle} :
          wk' = [wk EXCEPT ![w].pc = "matched", ![w].match = v]
    /\ UNCHANGED <<scan, vehicles, created, archive, files, job, req>>

SetDone(w) ==
    /\ Does(w, "matched")
    /\ scan' = [scan EXCEPT ![wk[w].scan] = [status |-> "DONE", match |-> wk[w].match]]
    /\ Step(w, "ack")
    /\ UNCHANGED <<vehicles, created, archive, files, job, req>>

\* OCR or extraction fails, or the database is not reachable.
WorkerError(w) ==
    /\ \/ wk[w].pc \in {"recognizing", "extracting"}
       \/ wk[w].pc \in Trying /\ "db" \in Faults
    /\ Step(w, "catch")
    /\ UNCHANGED <<scan, vehicles, created, archive, files, job, req>>

\* Mutant: the error is not thrown again.
SetFailedSwallowed(w) ==
    /\ Does(w, "catch")
    /\ \/ scan' = WithStatus(wk[w].scan, "FAILED")
       \/ "db" \in Faults /\ UNCHANGED scan
    /\ Step(w, "ack")
    /\ UNCHANGED <<vehicles, created, archive, files, job, req>>

\* The catch block; its own write may fail too, and the job fails either way.
SetFailed(w) ==
    /\ Does(w, "catch")
    /\ \/ scan' = WithStatus(wk[w].scan, "FAILED")
       \/ "db" \in Faults /\ UNCHANGED scan
    /\ Step(w, "throw")
    /\ UNCHANGED <<vehicles, created, archive, files, job, req>>

Finish(w) ==
    /\ \/ Does(w, "ack") /\ Queue!Complete(w, wk[w].scan)
       \/ Does(w, "throw") /\ Queue!Fail(w, wk[w].scan)
    /\ wk' = [wk EXCEPT ![w] = IdleWorker]
    /\ UNCHANGED <<scan, vehicles, created, archive, files, req>>

WorkerCrash(w) ==
    /\ "crash" \in Faults /\ ~Does(w, "idle")
    /\ wk' = [wk EXCEPT ![w] = IdleWorker]
    /\ UNCHANGED <<scan, vehicles, created, archive, files, job, req>>

-----------------------------------------------------------------------------
(* The queue on its own *)

\* Mutant: nothing brings a delayed job back.
RetryNever(s) ==
    FALSE /\ Queue!Promote(s) /\ UNCHANGED <<scan, vehicles, created, archive, files, wk, req>>

RetryDelayed(s) ==
    Queue!Promote(s) /\ UNCHANGED <<scan, vehicles, created, archive, files, wk, req>>

JobStalled(s) ==
    /\ ~Executing(s) \/ "lock" \in Faults
    /\ Queue!Stall(s)
    /\ UNCHANGED <<scan, vehicles, created, archive, files, wk, req>>

EvictCompleted(s) ==
    Queue!Evict(s) /\ UNCHANGED <<scan, vehicles, created, archive, files, wk, req>>

-----------------------------------------------------------------------------
Init ==
    /\ scan = [s \in Scan |-> [status |-> "ABSENT", match |-> NoVehicle]]
    /\ vehicles = {}
    /\ created = 0
    /\ archive = {}
    /\ files = {}
    /\ Queue!QueueInit
    /\ wk = [w \in Worker |-> IdleWorker]
    /\ req = [r \in Request |-> IdleRequest]

RequestNext(r) ==
    \/ \E s \in Scan : StartScan(r, s)
    \/ StageFiles(r)
    \/ CreateScan(r)
    \/ EnqueueScan(r)
    \/ \E s \in Scan : SaveScan(r, s)
    \/ CreateVehicle(r)
    \/ UpdateVehicle(r)
    \/ AssertVehicleLimit(r)
    \/ InsertVehicle(r)
    \/ AttachFiles(r)
    \/ \E v \in VehicleId : RemoveVehicle(r, v)
    \/ DeleteVehicle(r)
    \/ \E s \in Scan : DeleteFile(r, s)
    \/ RequestLost(r)

WorkerStep(w) ==
    \/ SetOcrRunning(w)
    \/ SetExtracting(w)
    \/ FindMatchingVehicle(w)
    \/ SetDone(w)
    \/ WorkerError(w)
    \/ SetFailed(w)
    \/ Finish(w)

WorkerNext(w) ==
    \/ \E s \in Scan : Process(w, s)
    \/ WorkerStep(w)
    \/ WorkerCrash(w)

QueueNext(s) == RetryDelayed(s) \/ JobStalled(s) \/ EvictCompleted(s)

Next ==
    \/ \E r \in Request : RequestNext(r)
    \/ \E w \in Worker : WorkerNext(w)
    \/ \E s \in Scan : QueueNext(s)

Spec == Init /\ [][Next]_vars

\* As in DocumentPipeline: the processors and the queue's own timers run, a
\* waiting job gets its turn, and nobody has to call the API.
Fairness ==
    /\ \A w \in Worker : WF_vars(WorkerStep(w))
    /\ \A s \in Scan :
          /\ SF_vars(\E w \in Worker : Process(w, s))
          /\ WF_vars(RetryDelayed(s))
          /\ WF_vars(JobStalled(s) /\ ~Executing(s))

FairSpec == Spec /\ Fairness

-----------------------------------------------------------------------------
(* Properties *)

\* Every variable keeps its type, and the documents of a vehicle go with it.
TypeOK ==
    /\ scan \in [Scan -> ScanRow]
    /\ created \in 0 .. MaxVehicles
    /\ vehicles \subseteq 1 .. created
    /\ archive \subseteq vehicles \X Scan
    /\ files \subseteq Scan
    /\ job \in [Scan -> Queue!JobRecord]
    /\ wk \in [Worker -> WorkerState]
    /\ req \in [Request -> RequestState]

\* assertVehicleLimit counts before the vehicle is created: forms, imports and
\* scans saved at the same time exceed the plan by no more than the others
\* that were in progress.
VehicleOvershoot ==
    VehicleLimit > 0 => Cardinality(vehicles) < VehicleLimit + Cardinality(Request)

\* What the client that polls until DONE or FAILED has seen is final: no retry,
\* no redelivery of the job and no other worker changes the outcome of a scan.
OutcomeIsFinal == [][\A s \in Scan : scan[s].status \in Outcome => scan'[s] = scan[s]]_vars

\* A scan without an outcome is on its way into the queue, or its job is in the
\* queue or in the failed set.
UnfinishedScanHasJob ==
    \A s \in Scan : scan[s].status \in Unfinished =>
        \/ \E r \in Request : At(r, "scanEnqueue") /\ req[r].scan = s
        \/ job[s].state \in {"waiting", "active", "delayed", "failed"}

\* A polled scan gets an outcome, unless its job ends in the failed set without
\* one: the workers that had it died, or could not write the outcome.
QueuedScanIsAnswered ==
    \A s \in Scan :
        Queue!InFlight(s) ~> scan[s].status \in Outcome \/ job[s].state = "failed"

\* The failed set is the dead-letter queue: a job that completed has read its
\* scan, one that could not be read is kept as failed.
CompletedJobIsDone == \A s \in Scan : job[s].state = "completed" => scan[s].status = "DONE"

\* The documents of a vehicle can be downloaded: their objects are in the store
\* as long as the rows refer to them.
ArchivedFileIsStored == \A a \in archive : a[2] \in files
=============================================================================
