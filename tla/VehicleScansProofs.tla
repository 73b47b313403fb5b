------------------------- MODULE VehicleScansProofs -------------------------
(***************************************************************************)
(* Proofs about VehicleScans, for every value of its constants: type        *)
(* correctness, the bound on the vehicles beyond the plan, and, as long as  *)
(* no worker loses the lock of a job it is running, that the outcome of a   *)
(* scan is final, and that a scan without one has a job, if neither Redis   *)
(* nor the API fails.                                                       *)
(***************************************************************************)
EXTENDS VehicleScans, FiniteSetTheorems, TLAPS

USE DEF NoVehicle, VehicleId

JobOK(s) == Queue!InFlight(s) => job[s].tries < Attempts

ScanPc == {"scanStore", "scanCreate", "scanEnqueue", "update", "attach"}

RequestOK(r) == req[r].pc \in ScanPc => req[r].scan \in Scan

ScansOK    == scan \in [Scan -> ScanRow]
JobsOK     == job \in [Scan -> Queue!JobRecord] /\ \A s \in Scan : JobOK(s)
WorkersOK  == wk \in [Worker -> WorkerState]
              /\ \A w \in Worker : wk[w].pc # "idle" => wk[w].scan \in Scan
RequestsOK == req \in [Request -> RequestState] /\ \A r \in Request : RequestOK(r)

\* An id is reserved for every request that may still create a vehicle.
VehiclesOK ==
    /\ created \in 0 .. MaxVehicles
    /\ created + Cardinality(Creating) <= MaxVehicles
    /\ vehicles \subseteq 1 .. created
    /\ archive \subseteq vehicles \X Scan
    /\ files \subseteq Scan

TypeInv == ScansOK /\ JobsOK /\ WorkersOK /\ RequestsOK /\ VehiclesOK

-----------------------------------------------------------------------------
(* The queue *)

LEMMA NewJobType ==
    \A s \in Scan : Queue!NewJob(s) \in Queue!JobRecord /\ Queue!NewJob(s).tries = 0
BY ConstantsAssumption DEF Queue!NewJob, Queue!JobRecord, Queue!JobState

LEMMA NoJobType == Queue!NoJob \in Queue!JobRecord /\ Queue!NoJob.state = "absent"
BY ConstantsAssumption DEF Queue!NoJob, Queue!JobRecord, Queue!JobState

\* Every operation of the queue keeps the jobs well formed.
LEMMA QueueTyping ==
    ASSUME JobsOK, NEW s \in Scan,
           \/ Queue!Add(s, s)
           \/ \E w \in Worker : Queue!Take(w, s)
           \/ \E w \in Worker : Queue!Complete(w, s)
           \/ \E w \in Worker : Queue!Fail(w, s)
           \/ Queue!Promote(s)
           \/ Queue!Stall(s)
           \/ Queue!Evict(s)
    PROVE  JobsOK'
<1> USE ConstantsAssumption DEF JobsOK, JobOK, Queue!InFlight
<1>1. CASE Queue!Add(s, s)
  BY <1>1, NewJobType DEF Queue!Add
<1>2. ASSUME NEW w \in Worker, Queue!Take(w, s) PROVE JobsOK'
  BY <1>2, SMT, ZenonT(40) DEF Queue!Take, Queue!JobRecord, Queue!JobState
<1>3. ASSUME NEW w \in Worker, Queue!Complete(w, s) PROVE JobsOK'
  BY <1>3 DEF Queue!Complete, Queue!Holds, Queue!JobRecord, Queue!JobState
<1>4. ASSUME NEW w \in Worker, Queue!Fail(w, s) PROVE JobsOK'
  BY <1>4 DEF Queue!Fail, Queue!Holds, Queue!JobRecord, Queue!JobState
<1>5. CASE Queue!Promote(s)
  BY <1>5 DEF Queue!Promote, Queue!JobRecord, Queue!JobState
<1>6. CASE Queue!Stall(s)
  <2>1. CASE job[s].stalls < MaxStalled
    <3>1. job' = [job EXCEPT ![s].state  = "waiting",
                             ![s].stalls = job[s].stalls + 1,
                             ![s].holder = None]
      BY <1>6, <2>1 DEF Queue!Stall
    <3>2. job[s].stalls + 1 \in 0 .. MaxStalled
      BY <2>1 DEF Queue!JobRecord
    <3>3. QED
      BY <1>6, <3>1, <3>2 DEF Queue!Stall, Queue!JobRecord, Queue!JobState
  <2>2. CASE ~(job[s].stalls < MaxStalled)
    <3>1. job' = [job EXCEPT ![s].state = "failed", ![s].holder = None]
      BY <1>6, <2>2 DEF Queue!Stall
    <3>2. job' \in [Scan -> Queue!JobRecord]
      BY <3>1, SMT, ZenonT(40) DEF Queue!JobRecord, Queue!JobState
    <3>3. job'[s].state = "failed" /\ \A c \in Scan \ {s} : job'[c] = job[c]
      BY <3>1 DEF Queue!JobRecord
    <3>4. QED
      BY <3>2, <3>3
  <2>3. QED
    BY <2>1, <2>2
<1>7. CASE Queue!Evict(s)
  BY <1>7, NoJobType DEF Queue!Evict
<1>8. QED
  BY <1>1, <1>2, <1>3, <1>4, <1>5, <1>6, <1>7

-----------------------------------------------------------------------------
(* Requests *)

\* What a request leaves in req when it moves on, begins or returns.
LEMMA GotoEffect ==
    ASSUME RequestsOK, NEW r \in Request, NEW pc \in RequestPc, Goto(r, pc)
    PROVE  /\ req' \in [Request -> RequestState]
           /\ req'[r].pc = pc
           /\ req'[r].scan = req[r].scan
           /\ \A q \in Request \ {r} : req'[q] = req[q]
BY DEF RequestsOK, Goto, RequestState

LEMMA BeginEffect ==
    ASSUME RequestsOK, NEW r \in Request,
           NEW pc \in RequestPc, NEW s \in Scan \cup {None},
           NEW v \in VehicleId \cup {NoVehicle}, NEW docs \in SUBSET Scan,
           Begin(r, Call(pc, s, v, docs))
    PROVE  /\ req' \in [Request -> RequestState]
           /\ req'[r].pc = pc
           /\ req'[r].scan = s
           /\ \A q \in Request \ {r} : req'[q] = req[q]
<1>1. Call(pc, s, v, docs) \in RequestState
  BY DEF Call, RequestState
<1>2. QED
  BY <1>1 DEF RequestsOK, Begin, Call

LEMMA ReturnEffect ==
    ASSUME RequestsOK, NEW r \in Request, Return(r)
    PROVE  /\ req' \in [Request -> RequestState]
           /\ req'[r].pc = "idle"
           /\ req'[r].scan = None
           /\ \A q \in Request \ {r} : req'[q] = req[q]
BY BeginEffect DEF Return, IdleRequest, RequestPc

CreatePc == {"limit", "create"}

\* How a step of r changes the number of reserved ids.
LEMMA CreatingChange ==
    ASSUME NEW r \in Request, \A q \in Request \ {r} : req'[q] = req[q]
    PROVE  /\ Cardinality(Creating) \in Nat
           /\ Cardinality(Creating') =
                Cardinality(Creating)
                  + (IF req'[r].pc \in CreatePc /\ req[r].pc \notin CreatePc THEN 1
                     ELSE IF req'[r].pc \notin CreatePc /\ req[r].pc \in CreatePc THEN -1
                     ELSE 0)
<1> USE DEF CreatePc
<1>1. IsFiniteSet(Creating) /\ Cardinality(Creating) \in Nat
  BY ConstantsAssumption, FS_Subset, FS_CardinalityType DEF Creating
<1>2. CASE req'[r].pc \in CreatePc /\ req[r].pc \notin CreatePc
  <2>1. Creating' = Creating \cup {r} /\ r \notin Creating
    BY <1>2 DEF Creating
  <2>2. QED
    BY <1>1, <1>2, <2>1, FS_AddElement
<1>3. CASE req'[r].pc \notin CreatePc /\ req[r].pc \in CreatePc
  <2>1. Creating' = Creating \ {r} /\ r \in Creating
    BY <1>3 DEF Creating
  <2>2. QED
    BY <1>1, <1>3, <2>1, FS_RemoveElement
<1>4. CASE req'[r].pc \in CreatePc <=> req[r].pc \in CreatePc
  <2>1. Creating' = Creating
    BY <1>4 DEF Creating
  <2>2. QED
    BY <1>1, <1>4, <2>1
<1>5. QED
  BY <1>2, <1>3, <1>4

\* A step of r that does not join the creators keeps TypeInv when it leaves
\* everything else well formed.
LEMMA RequestFrame ==
    ASSUME TypeInv, NEW r \in Request,
           created' = created, wk' = wk, ScansOK', JobsOK',
           vehicles' \subseteq vehicles, archive' \subseteq vehicles' \X Scan,
           files' \subseteq Scan,
           req' \in [Request -> RequestState],
           \A q \in Request \ {r} : req'[q] = req[q],
           RequestOK(r)',
           req'[r].pc \in CreatePc => req[r].pc \in CreatePc
    PROVE  TypeInv'
<1>1. Cardinality(Creating') <= Cardinality(Creating) /\ Cardinality(Creating) \in Nat
      /\ Cardinality(Creating') \in Int
  BY CreatingChange
<1>2. VehiclesOK'
  BY <1>1, ConstantsAssumption DEF TypeInv, VehiclesOK
<1>3. RequestsOK'
  BY DEF TypeInv, RequestsOK, RequestOK
<1>4. QED
  BY <1>2, <1>3 DEF TypeInv, WorkersOK

\* The same for a request that returns, and for one that moves on.
LEMMA RequestReturn ==
    ASSUME TypeInv, NEW r \in Request,
           created' = created, wk' = wk, ScansOK', JobsOK',
           vehicles' \subseteq vehicles, archive' \subseteq vehicles' \X Scan,
           files' \subseteq Scan,
           Return(r)
    PROVE  TypeInv'
<1>1. RequestsOK
  BY DEF TypeInv
<1>2. QED
  BY <1>1, ReturnEffect, RequestFrame DEF RequestOK, ScanPc, CreatePc

LEMMA RequestGoto ==
    ASSUME TypeInv, NEW r \in Request, NEW pc \in RequestPc,
           created' = created, wk' = wk, ScansOK', JobsOK',
           vehicles' \subseteq vehicles, archive' \subseteq vehicles' \X Scan,
           files' \subseteq Scan,
           Goto(r, pc),
           pc \in ScanPc => req[r].pc \in ScanPc,
           pc \in CreatePc => req[r].pc \in CreatePc
    PROVE  TypeInv'
<1>1. RequestsOK /\ RequestOK(r)
  BY DEF TypeInv, RequestsOK
<1>2. QED
  BY <1>1, GotoEffect, RequestFrame DEF RequestOK

LEMMA RequestTyping ==
    ASSUME TypeInv, NEW r \in Request, RequestNext(r)
    PROVE  TypeInv'
<1>0. /\ ScansOK /\ JobsOK /\ WorkersOK /\ RequestsOK /\ VehiclesOK /\ RequestOK(r)
      /\ req[r] \in RequestState
      /\ vehicles \subseteq VehicleId
  BY ConstantsAssumption DEF TypeInv, RequestsOK, VehiclesOK
<1>0a. /\ scan' = scan => ScansOK'
       /\ job' = job => JobsOK'
       /\ vehicles' = vehicles /\ archive' = archive => archive' \subseteq vehicles' \X Scan
       /\ files' = files => files' \subseteq Scan
  BY <1>0 DEF ScansOK, JobsOK, JobOK, Queue!InFlight, VehiclesOK
<1>1. ASSUME NEW s \in Scan, StartScan(r, s) PROVE TypeInv'
  <2>1. /\ req' \in [Request -> RequestState]
        /\ req'[r].pc = "scanStore"
        /\ req'[r].scan = s
        /\ \A q \in Request \ {r} : req'[q] = req[q]
    BY <1>0, <1>1, BeginEffect DEF StartScan, RequestPc
  <2>2. QED
    BY <1>0a, <1>1, <2>1, RequestFrame DEF StartScan, RequestOK, CreatePc
<1>2. CASE StageFiles(r)
  <2>1. req[r].scan \in Scan /\ req[r].pc = "scanStore"
    BY <1>0, <1>2 DEF StageFiles, At, RequestOK, ScanPc
  <2>2. CASE Goto(r, "scanCreate") /\ files' = files \cup {req[r].scan}
    BY <1>0, <1>0a, <1>2, <2>1, <2>2, RequestGoto
    DEF StageFiles, RequestPc, ScanPc, CreatePc, VehiclesOK
  <2>3. CASE Return(r) /\ files' = files
    BY <1>0a, <1>2, <2>3, RequestReturn DEF StageFiles
  <2>4. QED
    BY <1>2, <2>2, <2>3 DEF StageFiles
<1>3. CASE CreateScan(r)
  <2>1. req[r].scan \in Scan /\ req[r].pc = "scanCreate"
    BY <1>0, <1>3 DEF CreateScan, At, RequestOK, ScanPc
  <2>2. ScansOK'
    BY <1>0, <1>3, <2>1 DEF CreateScan, WithStatus, ScansOK, ScanRow, Unfinished
  <2>3. QED
    BY <1>0a, <1>3, <2>1, <2>2, RequestGoto DEF CreateScan, RequestPc, ScanPc, CreatePc
<1>4. CASE EnqueueScan(r)
  <2>1. req[r].scan \in Scan
    BY <1>0, <1>4 DEF EnqueueScan, At, RequestOK, ScanPc
  <2>2. JobsOK'
    BY <1>0, <1>0a, <1>4, <2>1, QueueTyping DEF EnqueueScan
  <2>3. QED
    BY <1>0a, <1>4, <2>2, RequestReturn DEF EnqueueScan
<1>5. ASSUME NEW s \in Scan, SaveScan(r, s) PROVE TypeInv'
  <2>1. CASE Begin(r, Call("update", s, scan[s].match, {}))
    <3>1. scan[s].match \in VehicleId \cup {NoVehicle}
      BY <1>0 DEF ScansOK, ScanRow
    <3>2. PICK v \in VehicleId \cup {NoVehicle} : Begin(r, Call("update", s, v, {}))
      BY <2>1, <3>1
    <3>3. "update" \in RequestPc /\ s \in Scan \cup {None} /\ {} \in SUBSET Scan
      BY DEF RequestPc
    <3>4. /\ req' \in [Request -> RequestState]
          /\ req'[r].pc = "update"
          /\ req'[r].scan = s
          /\ \A q \in Request \ {r} : req'[q] = req[q]
      BY <1>0, <3>2, <3>3, BeginEffect
    <3>5. QED
      BY <1>0a, <1>5, <3>4, RequestFrame DEF SaveScan, RequestOK, CreatePc
  <2>2. CASE RoomForVehicle /\ Begin(r, Call("limit", s, NoVehicle, {}))
    <3>1. /\ req' \in [Request -> RequestState]
          /\ req'[r].pc = "limit"
          /\ \A q \in Request \ {r} : req'[q] = req[q]
      BY <1>0, <2>2, BeginEffect DEF RequestPc
    <3>2. req[r].pc = "idle"
      BY <1>5 DEF SaveScan, At
    <3>3. Cardinality(Creating') = Cardinality(Creating) + 1 /\ Cardinality(Creating) \in Nat
      BY <3>1, <3>2, CreatingChange DEF CreatePc
    <3>4. VehiclesOK'
      BY <1>0, <1>5, <2>2, <3>3, ConstantsAssumption DEF SaveScan, VehiclesOK, RoomForVehicle
    <3>5. RequestsOK'
      BY <1>0, <3>1 DEF RequestsOK, RequestOK, ScanPc
    <3>6. QED
      BY <1>0, <1>0a, <1>5, <3>4, <3>5 DEF SaveScan, TypeInv, WorkersOK
  <2>3. QED
    BY <1>5, <2>1, <2>2 DEF SaveScan
<1>6. CASE CreateVehicle(r)
  <2>1. /\ req' \in [Request -> RequestState]
        /\ req'[r].pc = "limit"
        /\ \A q \in Request \ {r} : req'[q] = req[q]
    BY <1>0, <1>6, BeginEffect DEF CreateVehicle, RequestPc
  <2>2. Cardinality(Creating') = Cardinality(Creating) + 1 /\ Cardinality(Creating) \in Nat
    BY <1>6, <2>1, CreatingChange DEF CreatePc, CreateVehicle, At
  <2>3. VehiclesOK'
    BY <1>0, <1>6, <2>2, ConstantsAssumption DEF CreateVehicle, VehiclesOK, RoomForVehicle
  <2>4. RequestsOK'
    BY <1>0, <2>1 DEF RequestsOK, RequestOK, ScanPc
  <2>5. QED
    BY <1>0, <1>0a, <1>6, <2>3, <2>4 DEF CreateVehicle, TypeInv, WorkersOK
<1>7. CASE UpdateVehicle(r)
  BY <1>0, <1>0a, <1>7, RequestGoto, RequestReturn
  DEF UpdateVehicle, At, RequestPc, ScanPc, CreatePc
<1>8. CASE AssertVehicleLimit(r)
  BY <1>0, <1>0a, <1>8, RequestGoto, RequestReturn
  DEF AssertVehicleLimit, At, RequestPc, ScanPc, CreatePc
<1>9. CASE InsertVehicle(r)
  <2>1. /\ req[r].pc = "create" /\ created' = created + 1
        /\ vehicles' = vehicles \cup {created + 1} /\ archive' = archive /\ files' = files
        /\ scan' = scan /\ job' = job /\ wk' = wk
    BY <1>9 DEF InsertVehicle, At
  <2>2. created + 1 \in VehicleId
    <3>1. r \in Creating /\ IsFiniteSet(Creating)
      BY <2>1, ConstantsAssumption, FS_Subset DEF Creating
    <3>2. Cardinality(Creating) \in Nat /\ Cardinality(Creating) # 0
      BY <3>1, FS_EmptySet, FS_CardinalityType
    <3>3. QED
      BY <1>0, <3>2, ConstantsAssumption DEF VehiclesOK
  <2>3. /\ req' \in [Request -> RequestState]
        /\ req'[r].pc \in {"idle", "attach"}
        /\ RequestOK(r)'
        /\ \A q \in Request \ {r} : req'[q] = req[q]
    <3>1. CASE Return(r)
      BY <1>0, <3>1, ReturnEffect DEF RequestOK, ScanPc
    <3>2. CASE req[r].scan # None
               /\ req' = [req EXCEPT ![r].pc = "attach", ![r].vehicle = created + 1]
      <4>1. req[r].scan \in Scan
        BY <1>0, <3>2 DEF RequestState
      <4>2. PICK v \in VehicleId :
              req' = [req EXCEPT ![r].pc = "attach", ![r].vehicle = v]
        BY <2>2, <3>2
      <4>3. /\ req' \in [Request -> RequestState]
            /\ req'[r].pc = "attach" /\ req'[r].scan = req[r].scan
            /\ \A q \in Request \ {r} : req'[q] = req[q]
        <5>1. /\ req'[r] = [req[r] EXCEPT !.pc = "attach", !.vehicle = v]
              /\ \A q \in Request \ {r} : req'[q] = req[q]
              /\ DOMAIN req' = Request /\ req' = [q \in Request |-> req'[q]]
          BY <1>0, <4>2 DEF RequestsOK
        <5>2. /\ req'[r] \in RequestState
              /\ req'[r].pc = "attach" /\ req'[r].scan = req[r].scan
          BY <1>0, <5>1 DEF RequestState, RequestPc
        <5>3. QED
          BY <1>0, <5>1, <5>2 DEF RequestsOK
      <4>4. QED
        BY <1>0, <4>1, <4>3 DEF RequestOK
    <3>3. QED
      BY <1>9, <3>1, <3>2 DEF InsertVehicle
  <2>4. Cardinality(Creating') = Cardinality(Creating) - 1 /\ Cardinality(Creating) \in Nat
    BY <2>1, <2>3, CreatingChange DEF CreatePc
  <2>5. VehiclesOK'
    BY <1>0, <2>1, <2>2, <2>4, ConstantsAssumption DEF VehiclesOK
  <2>6. RequestsOK'
    BY <1>0, <2>3 DEF RequestsOK, RequestOK
  <2>7. QED
    BY <1>0, <1>0a, <2>1, <2>5, <2>6 DEF TypeInv, WorkersOK
<1>10. CASE AttachFiles(r)
  <2>1. req[r].scan \in Scan
    BY <1>0, <1>10 DEF AttachFiles, At, RequestOK, ScanPc
  <2>2. archive' \subseteq vehicles' \X Scan
    BY <1>0, <1>10, <2>1 DEF AttachFiles, VehiclesOK
  <2>3. QED
    BY <1>0a, <1>10, <2>2, RequestReturn DEF AttachFiles
<1>11. ASSUME NEW v \in VehicleId, RemoveVehicle(r, v) PROVE TypeInv'
  <2>1. /\ req' \in [Request -> RequestState]
        /\ req'[r].pc = "rmDelete"
        /\ \A q \in Request \ {r} : req'[q] = req[q]
    <3>1. PICK docs \in SUBSET Scan : Begin(r, Call("rmDelete", None, v, docs))
      BY <1>11 DEF RemoveVehicle
    <3>2. QED
      BY <1>0, <3>1, BeginEffect DEF RequestPc
  <2>2. QED
    BY <1>0a, <1>11, <2>1, RequestFrame DEF RemoveVehicle, RequestOK, CreatePc, ScanPc
<1>12. CASE DeleteVehicle(r)
  <2>1. vehicles' \subseteq vehicles /\ archive' \subseteq vehicles' \X Scan
    BY <1>0, <1>12 DEF DeleteVehicle, VehiclesOK
  <2>2. Return(r) \/ Goto(r, "rmFiles")
    BY <1>12 DEF DeleteVehicle
  <2>3. QED
    BY <1>0a, <1>12, <2>1, <2>2, RequestReturn, RequestGoto
    DEF DeleteVehicle, RequestPc, ScanPc, CreatePc
<1>13. ASSUME NEW s \in Scan, DeleteFile(r, s) PROVE TypeInv'
  <2>1. files' \subseteq Scan
    BY <1>0, <1>13 DEF DeleteFile, VehiclesOK
  <2>2. CASE Return(r)
    BY <1>0a, <1>13, <2>1, <2>2, RequestReturn DEF DeleteFile
  <2>3. CASE req' = [req EXCEPT ![r].docs = req[r].docs \ {s}]
    <3>1. /\ req' \in [Request -> RequestState]
          /\ req'[r].pc = req[r].pc /\ req'[r].scan = req[r].scan
          /\ \A q \in Request \ {r} : req'[q] = req[q]
      BY <1>0, <2>3 DEF RequestsOK, RequestState
    <3>2. QED
      BY <1>0, <1>0a, <1>13, <2>1, <3>1, RequestFrame DEF DeleteFile, RequestOK
  <2>4. QED
    BY <1>13, <2>2, <2>3 DEF DeleteFile
<1>14. CASE RequestLost(r)
  BY <1>0a, <1>14, RequestReturn DEF RequestLost
<1>15. QED
  BY <1>1, <1>2, <1>3, <1>4, <1>5, <1>6, <1>7, <1>8, <1>9, <1>10, <1>11, <1>12, <1>13, <1>14
  DEF RequestNext

-----------------------------------------------------------------------------
(* Workers *)

LEMMA IdleWorkerType == IdleWorker \in WorkerState /\ IdleWorker.pc = "idle"
BY DEF IdleWorker, Run, WorkerState, WorkerPc

LEMMA StepEffect ==
    ASSUME WorkersOK, NEW w \in Worker, NEW pc \in WorkerPc \ {"idle"}, Step(w, pc),
           wk[w].pc # "idle"
    PROVE  WorkersOK'
BY DEF WorkersOK, Step, WorkerState

\* A step outside the requests keeps TypeInv when it leaves the scans, the jobs
\* and the workers well formed.
LEMMA WorkerFrame ==
    ASSUME TypeInv, ScansOK', JobsOK', WorkersOK',
           UNCHANGED <<vehicles, created, archive, files, req>>
    PROVE  TypeInv'
BY DEF TypeInv, RequestsOK, RequestOK, VehiclesOK, Creating

LEMMA WorkerTyping ==
    ASSUME TypeInv, NEW w \in Worker, WorkerNext(w)
    PROVE  TypeInv'
<1>0. /\ ScansOK /\ JobsOK /\ WorkersOK /\ VehiclesOK /\ wk[w] \in WorkerState
      /\ wk[w].pc # "idle" => wk[w].scan \in Scan
  BY DEF TypeInv, WorkersOK
<1>0a. /\ scan' = scan => ScansOK'
       /\ job' = job => JobsOK'
  BY <1>0 DEF ScansOK, JobsOK, JobOK, Queue!InFlight
<1>0b. ASSUME NEW s \in Scan, NEW status \in Unfinished \cup Outcome,
              scan' = WithStatus(s, status)
       PROVE  ScansOK'
  BY <1>0, <1>0b DEF ScansOK, WithStatus, ScanRow
<1>1. ASSUME NEW s \in Scan, Process(w, s) PROVE TypeInv'
  <2>1. PICK pc \in WorkerPc \ {"idle"} : wk' = [wk EXCEPT ![w] = Run(pc, s)]
    BY <1>1 DEF Process, WorkerPc
  <2>2. Run(pc, s) \in WorkerState /\ Run(pc, s).pc = pc /\ Run(pc, s).scan = s
    BY DEF Run, WorkerState
  <2>3. WorkersOK'
    BY <1>0, <2>1, <2>2 DEF WorkersOK
  <2>4. JobsOK'
    BY <1>0, <1>1, QueueTyping DEF Process
  <2>5. QED
    BY <1>0a, <1>1, <2>3, <2>4, WorkerFrame DEF Process
<1>2. CASE SetOcrRunning(w)
  BY <1>0, <1>0a, <1>0b, <1>2, StepEffect, WorkerFrame
  DEF SetOcrRunning, Does, WorkerPc, Unfinished
<1>3. CASE SetExtracting(w)
  BY <1>0, <1>0a, <1>0b, <1>3, StepEffect, WorkerFrame
  DEF SetExtracting, Does, WorkerPc, Unfinished
<1>4. CASE FindMatchingVehicle(w)
  <2>1. PICK v \in vehicles \cup {NoVehicle} :
          wk' = [wk EXCEPT ![w].pc = "matched", ![w].match = v]
    BY <1>4 DEF FindMatchingVehicle
  <2>2. v \in VehicleId \cup {NoVehicle}
    BY <1>0, ConstantsAssumption DEF VehiclesOK
  <2>3. wk[w].pc # "idle"
    BY <1>4 DEF FindMatchingVehicle, Does
  <2>4. WorkersOK'
    <3>1. /\ wk'[w] = [wk[w] EXCEPT !.pc = "matched", !.match = v]
          /\ \A u \in Worker \ {w} : wk'[u] = wk[u]
          /\ DOMAIN wk' = Worker /\ wk' = [u \in Worker |-> wk'[u]]
      BY <1>0, <2>1 DEF WorkersOK
    <3>2. wk'[w] \in WorkerState /\ wk'[w].scan = wk[w].scan
      BY <1>0, <2>2, <3>1 DEF WorkerState, WorkerPc
    <3>3. QED
      BY <1>0, <2>3, <3>1, <3>2 DEF WorkersOK
  <2>5. QED
    BY <1>0a, <1>4, <2>4, WorkerFrame DEF FindMatchingVehicle
<1>5. CASE SetDone(w)
  <2>1. wk[w].scan \in Scan
    BY <1>0, <1>5 DEF SetDone, Does
  <2>2. ScansOK'
    BY <1>0, <1>5, <2>1 DEF SetDone, ScansOK, ScanRow, WorkerState, Outcome
  <2>3. QED
    BY <1>0, <1>0a, <1>5, <2>2, StepEffect, WorkerFrame DEF SetDone, Does, WorkerPc
<1>6. CASE WorkerError(w)
  BY <1>0, <1>0a, <1>6, StepEffect, WorkerFrame DEF WorkerError, Trying, WorkerPc
<1>7. CASE SetFailed(w)
  BY <1>0, <1>0a, <1>0b, <1>7, StepEffect, WorkerFrame
  DEF SetFailed, Does, WorkerPc, Outcome
<1>8. CASE Finish(w)
  <2>1. wk[w].scan \in Scan
    BY <1>0, <1>8 DEF Finish, Does
  <2>2. JobsOK'
    BY <1>0, <1>8, <2>1, QueueTyping DEF Finish
  <2>3. WorkersOK'
    BY <1>0, <1>8, IdleWorkerType DEF Finish, WorkersOK
  <2>4. QED
    BY <1>0a, <1>8, <2>2, <2>3, WorkerFrame DEF Finish
<1>9. CASE WorkerCrash(w)
  <2>1. WorkersOK'
    BY <1>0, <1>9, IdleWorkerType DEF WorkerCrash, WorkersOK
  <2>2. QED
    BY <1>0a, <1>9, <2>1, WorkerFrame DEF WorkerCrash
<1>10. QED
  BY <1>1, <1>2, <1>3, <1>4, <1>5, <1>6, <1>7, <1>8, <1>9 DEF WorkerNext, WorkerStep

LEMMA QueueNextTyping ==
    ASSUME TypeInv, NEW s \in Scan, QueueNext(s)
    PROVE  TypeInv'
<1>1. /\ UNCHANGED <<scan, vehicles, created, archive, files, wk, req>>
      /\ Queue!Promote(s) \/ Queue!Stall(s) \/ Queue!Evict(s)
  BY DEF QueueNext, RetryDelayed, JobStalled, EvictCompleted
<1>2. ScansOK' /\ JobsOK' /\ WorkersOK'
  BY <1>1, QueueTyping DEF TypeInv, ScansOK, WorkersOK
<1>3. QED
  BY <1>1, <1>2, WorkerFrame

-----------------------------------------------------------------------------
(* Type correctness *)

LEMMA TypeInvInit == Init => TypeInv
<1> SUFFICES ASSUME Init PROVE TypeInv
  OBVIOUS
<1>1. ScansOK
  BY DEF Init, ScansOK, ScanRow
<1>2. JobsOK
  BY NoJobType DEF Init, JobsOK, JobOK, Queue!QueueInit, Queue!InFlight
<1>3. WorkersOK
  BY IdleWorkerType DEF Init, WorkersOK
<1>4. IdleRequest \in RequestState /\ IdleRequest.pc = "idle"
  BY DEF IdleRequest, Call, RequestState, RequestPc
<1>5. RequestsOK
  BY <1>4 DEF Init, RequestsOK, RequestOK, ScanPc
<1>6. Creating = {}
  BY <1>4 DEF Init, Creating
<1>7. VehiclesOK
  BY <1>6, ConstantsAssumption, FS_EmptySet DEF Init, VehiclesOK
<1>8. QED
  BY <1>1, <1>2, <1>3, <1>5, <1>7 DEF TypeInv

LEMMA TypeInvStep == TypeInv /\ [Next]_vars => TypeInv'
<1> SUFFICES ASSUME TypeInv, [Next]_vars PROVE TypeInv'
  OBVIOUS
<1>1. CASE Next
  BY <1>1, RequestTyping, WorkerTyping, QueueNextTyping DEF Next
<1>2. CASE UNCHANGED vars
  BY <1>2 DEF vars, TypeInv, ScansOK, JobsOK, JobOK, Queue!InFlight, WorkersOK,
              RequestsOK, RequestOK, VehiclesOK, Creating
<1>3. QED
  BY <1>1, <1>2

\* Every variable keeps its type, and the archive refers to existing vehicles
\* only: the invariant the runs check as TypeOK, for any number of scans,
\* workers, requests and vehicles.
THEOREM TypeCorrect == Spec => []TypeOK
<1>1. TypeInv => TypeOK
  BY DEF TypeInv, TypeOK, ScansOK, JobsOK, WorkersOK, RequestsOK, VehiclesOK
<1>2. QED
  BY <1>1, TypeInvInit, TypeInvStep, PTL DEF Spec
-----------------------------------------------------------------------------
(* The plan's limit *)

\* Requests that have passed assertVehicleLimit and have not created yet.
Admitted == {r \in Request : req[r].pc = "create"}

\* A request that is admitted found room for its vehicle, so the vehicles and
\* the admitted together are bounded: by the limit, less one, and one for each
\* request that can be in progress.
OvershootInv ==
    VehicleLimit > 0 =>
        Cardinality(vehicles) + Cardinality(Admitted) <= VehicleLimit - 1 + Cardinality(Request)

LEMMA VehiclesFinite ==
    ASSUME TypeInv
    PROVE  /\ IsFiniteSet(vehicles) /\ Cardinality(vehicles) \in Nat
           /\ IsFiniteSet(Admitted) /\ Cardinality(Admitted) \in Nat
           /\ Cardinality(Request) \in Nat
<1>1. IsFiniteSet(1 .. created)
  BY ConstantsAssumption, FS_Interval DEF TypeInv, VehiclesOK
<1>2. IsFiniteSet(vehicles) /\ IsFiniteSet(Admitted)
  BY <1>1, ConstantsAssumption, FS_Subset DEF TypeInv, VehiclesOK, Admitted
<1>3. QED
  BY <1>2, ConstantsAssumption, FS_CardinalityType

\* No new vehicle and nobody newly admitted.
LEMMA OvershootFrame ==
    ASSUME TypeInv, OvershootInv, vehicles' \subseteq vehicles, Admitted' \subseteq Admitted
    PROVE  OvershootInv'
<1>1. /\ Cardinality(vehicles') <= Cardinality(vehicles)
      /\ Cardinality(Admitted') <= Cardinality(Admitted)
      /\ Cardinality(vehicles') \in Nat /\ Cardinality(Admitted') \in Nat
  BY VehiclesFinite, FS_Subset, FS_CardinalityType
<1>2. QED
  BY <1>1, VehiclesFinite, ConstantsAssumption DEF OvershootInv

\* Only assertVehicleLimit admits a request.
LEMMA RequestMoves ==
    ASSUME RequestsOK, NEW r \in Request, RequestNext(r)
    PROVE  /\ \A q \in Request \ {r} : req'[q] = req[q]
           /\ req'[r].pc = "create" =>
                \/ AssertVehicleLimit(r) /\ Goto(r, "create")
                \/ req[r].pc = "create" /\ ~InsertVehicle(r)
<1> DEFINE Others == \A q \in Request \ {r} : req'[q] = req[q]
<1> USE DEF At
<1>0. req[r] \in RequestState
  BY DEF RequestsOK
<1>1. ASSUME NEW pc \in RequestPc, Goto(r, pc) PROVE Others /\ req'[r].pc = pc
  BY <1>1, GotoEffect
<1>2. ASSUME Return(r) PROVE Others /\ req'[r].pc = "idle"
  BY <1>2, ReturnEffect
<1>3. ASSUME NEW pc, NEW s, NEW v, NEW docs, Begin(r, Call(pc, s, v, docs))
      PROVE  Others /\ req'[r].pc = pc
  BY <1>3 DEF RequestsOK, Begin, Call
<1>4. CASE \/ StageFiles(r) \/ CreateScan(r) \/ EnqueueScan(r) \/ UpdateVehicle(r)
           \/ AttachFiles(r) \/ DeleteVehicle(r) \/ RequestLost(r)
  BY <1>1, <1>2, <1>4 DEF StageFiles, CreateScan, EnqueueScan, UpdateVehicle, AttachFiles,
                          DeleteVehicle, RequestLost, RequestPc
<1>5. CASE AssertVehicleLimit(r)
  BY <1>1, <1>2, <1>5 DEF AssertVehicleLimit, RequestPc
<1>6. CASE \/ \E s \in Scan : StartScan(r, s) \/ SaveScan(r, s)
           \/ CreateVehicle(r)
           \/ \E v \in VehicleId : RemoveVehicle(r, v)
  <2>1. PICK pc \in {"scanStore", "update", "limit", "rmDelete"} :
          \E s, v, docs : Begin(r, Call(pc, s, v, docs))
    BY <1>6 DEF StartScan, SaveScan, CreateVehicle, RemoveVehicle
  <2>2. QED
    BY <1>3, <2>1
<1>7. CASE InsertVehicle(r)
  <2>1. CASE Return(r)
    BY <1>2, <2>1
  <2>2. CASE req' = [req EXCEPT ![r].pc = "attach", ![r].vehicle = created + 1]
    <3>1. Others /\ req'[r] = [req[r] EXCEPT !.pc = "attach", !.vehicle = created + 1]
      BY <2>2 DEF RequestsOK
    <3>2. req'[r].pc = "attach"
      BY <1>0, <3>1 DEF RequestState
    <3>3. QED
      BY <3>1, <3>2
  <2>3. QED
    BY <1>7, <2>1, <2>2 DEF InsertVehicle
<1>8. ASSUME NEW s \in Scan, DeleteFile(r, s) PROVE Others /\ req'[r].pc # "create"
  <2>1. CASE req' = [req EXCEPT ![r].docs = req[r].docs \ {s}]
    <3>1. Others /\ req'[r] = [req[r] EXCEPT !.docs = req[r].docs \ {s}]
      BY <2>1 DEF RequestsOK
    <3>2. req'[r].pc = req[r].pc
      BY <1>0, <3>1 DEF RequestState
    <3>3. QED
      BY <1>8, <3>1, <3>2 DEF DeleteFile
  <2>2. QED
    BY <1>2, <1>8, <2>1 DEF DeleteFile
<1>9. QED
  BY <1>4, <1>5, <1>6, <1>7, <1>8 DEF RequestNext

LEMMA OvershootStep ==
    ASSUME TypeInv, OvershootInv, [Next]_vars
    PROVE  OvershootInv'
<1>0. RequestsOK /\ VehiclesOK
  BY DEF TypeInv
<1>1. ASSUME NEW r \in Request, AssertVehicleLimit(r), Goto(r, "create"),
             WithinLimit(Cardinality(vehicles))
      PROVE  OvershootInv'
  <2>1. IsFiniteSet(Request) /\ Admitted' \subseteq Request
    BY ConstantsAssumption DEF Admitted
  <2>2. Cardinality(Admitted') <= Cardinality(Request) /\ Cardinality(Admitted') \in Nat
    BY <2>1, FS_Subset, FS_CardinalityType
  <2>3. VehicleLimit > 0 => Cardinality(vehicles) <= VehicleLimit - 1
    BY <1>1, VehiclesFinite, ConstantsAssumption DEF WithinLimit
  <2>4. vehicles' = vehicles
    BY <1>1 DEF AssertVehicleLimit
  <2>5. QED
    BY <2>2, <2>3, <2>4, VehiclesFinite, ConstantsAssumption DEF OvershootInv
<1>2. ASSUME NEW r \in Request, InsertVehicle(r) PROVE OvershootInv'
  <2>1. r \in Admitted /\ Admitted' = Admitted \ {r}
    <3>1. req[r].pc = "create" /\ req'[r].pc # "create"
          /\ \A q \in Request \ {r} : req'[q] = req[q]
      BY <1>0, <1>2, RequestMoves DEF InsertVehicle, AssertVehicleLimit, At, RequestNext
    <3>2. QED
      BY <3>1 DEF Admitted
  <2>2. Cardinality(Admitted') = Cardinality(Admitted) - 1
    BY <2>1, VehiclesFinite, FS_RemoveElement
  <2>3. /\ Cardinality(vehicles') <= Cardinality(vehicles) + 1
        /\ Cardinality(vehicles') \in Nat
    <3>1. vehicles' = vehicles \cup {created + 1}
      BY <1>2 DEF InsertVehicle
    <3>2. QED
      <4>1. Cardinality(vehicles \cup {created + 1}) \in
              {Cardinality(vehicles), Cardinality(vehicles) + 1}
        BY VehiclesFinite, FS_AddElement
      <4>2. QED
        BY <3>1, <4>1, VehiclesFinite
  <2>4. QED
    BY <2>2, <2>3, VehiclesFinite, ConstantsAssumption DEF OvershootInv
<1>3. ASSUME NEW r \in Request, RequestNext(r), ~InsertVehicle(r),
             ~(AssertVehicleLimit(r) /\ Goto(r, "create"))
      PROVE  OvershootInv'
  <2>1. vehicles' \subseteq vehicles
    BY <1>3 DEF RequestNext, StartScan, StageFiles, CreateScan, EnqueueScan, SaveScan,
                CreateVehicle, UpdateVehicle, AssertVehicleLimit, AttachFiles, RemoveVehicle,
                DeleteVehicle, DeleteFile, RequestLost
  <2>2. Admitted' \subseteq Admitted
    BY <1>0, <1>3, RequestMoves DEF Admitted
  <2>3. QED
    BY <2>1, <2>2, OvershootFrame
<1>4. ASSUME UNCHANGED <<vehicles, req>> PROVE OvershootInv'
  BY <1>4 DEF OvershootInv, Admitted
<1>5. ASSUME NEW w \in Worker, WorkerNext(w) PROVE UNCHANGED <<vehicles, req>>
  BY <1>5 DEF WorkerNext, WorkerStep, Process, SetOcrRunning, SetExtracting, FindMatchingVehicle,
              SetDone, WorkerError, SetFailed, Finish, WorkerCrash
<1>6. ASSUME NEW s \in Scan, QueueNext(s) PROVE UNCHANGED <<vehicles, req>>
  BY <1>6 DEF QueueNext, RetryDelayed, JobStalled, EvictCompleted
<1>7. ASSUME NEW r \in Request, RequestNext(r) PROVE OvershootInv'
  <2>1. AssertVehicleLimit(r) /\ Goto(r, "create") => WithinLimit(Cardinality(vehicles))
    BY <1>0 DEF AssertVehicleLimit, Goto, Return, Begin, IdleRequest, Call, RequestsOK
  <2>2. QED
    BY <1>1, <1>2, <1>3, <1>7, <2>1
<1>8. QED
  BY <1>4, <1>5, <1>6, <1>7 DEF Next, vars

\* A tenant has fewer vehicles than its plan's limit and the number of requests
\* in progress together (assertVehicleLimit counts first and create inserts
\* later), whatever the limit and the number of requests.
THEOREM OvershootBounded == Spec => []VehicleOvershoot
<1>1. ASSUME Init PROVE OvershootInv
  <2>1. vehicles = {} /\ Admitted = {}
    BY <1>1 DEF Init, Admitted, IdleRequest, Call
  <2>2. Cardinality({}) = 0 /\ Cardinality(Request) \in Nat
    BY ConstantsAssumption, FS_EmptySet, FS_CardinalityType
  <2>3. QED
    BY <2>1, <2>2, ConstantsAssumption DEF OvershootInv
<1>2. TypeInv /\ OvershootInv => VehicleOvershoot
  BY VehiclesFinite, ConstantsAssumption DEF OvershootInv, VehicleOvershoot
<1>3. TypeInv /\ OvershootInv /\ [Next]_vars => OvershootInv'
  BY OvershootStep
<1>4. QED
  BY <1>1, <1>2, <1>3, TypeInvInit, TypeInvStep, PTL DEF Spec
-----------------------------------------------------------------------------
(* The outcome of a scan *)

NewPc == {"scanStore", "scanCreate"}

\* A request that is about to create the row of a scan: the row does not exist
\* and no other request has the same id.
FreshInv ==
    \A r \in Request : req[r].pc \in NewPc =>
        /\ ~Exists(req[r].scan)
        /\ \A q \in Request \ {r} : req[q].scan # req[r].scan

\* Without the loss of a lock, a worker that is not idle holds the job of its
\* scan, so nobody else works on that scan.
HoldInv == \A w \in Worker : wk[w].pc # "idle" => Queue!Holds(w, wk[w].scan)

\* Until it has written an outcome itself.
OpenInv ==
    \A w \in Worker : wk[w].pc \in Trying \cup {"catch"} =>
        scan[wk[w].scan].status \in Unfinished

FinalInv == FreshInv /\ HoldInv /\ OpenInv

LEMMA HeldByOne ==
    ASSUME HoldInv, NEW w \in Worker, NEW u \in Worker,
           wk[w].pc # "idle", wk[u].pc # "idle", wk[w].scan = wk[u].scan
    PROVE  w = u
BY DEF HoldInv, Queue!Holds

LEMMA FinalInvInit == Init => FinalInv
<1> SUFFICES ASSUME Init PROVE FinalInv
  OBVIOUS
<1>1. (\A r \in Request : req[r].pc = "idle") /\ (\A w \in Worker : wk[w].pc = "idle")
  BY DEF Init, IdleRequest, Call, IdleWorker, Run
<1>2. QED
  BY <1>1 DEF FinalInv, FreshInv, HoldInv, OpenInv, NewPc, Trying

\* A worker writes only to a scan that is not finished, a request only to one
\* that does not exist.
LEMMA ScanWrites ==
    ASSUME TypeInv, FinalInv, [Next]_vars, NEW s \in Scan
    PROVE  \/ scan'[s] = scan[s]
           \/ /\ scan[s].status \in Unfinished
              /\ \E w \in Worker : wk[w].pc \in Trying \cup {"catch"} /\ wk[w].scan = s
           \/ /\ ~Exists(s)
              /\ scan'[s].status = "PENDING"
              /\ \E r \in Request : CreateScan(r) /\ req[r].scan = s
<1>0. ScansOK /\ WorkersOK /\ RequestsOK
  BY DEF TypeInv
<1>1. ASSUME NEW r \in Request, CreateScan(r), scan'[s] # scan[s]
      PROVE  ~Exists(s) /\ scan'[s].status = "PENDING" /\ req[r].scan = s
  <2>1. req[r].pc = "scanCreate" /\ req[r].scan \in Scan
    BY <1>0, <1>1 DEF CreateScan, At, RequestsOK, RequestOK, ScanPc
  <2>2. ~Exists(req[r].scan)
    BY <2>1 DEF FinalInv, FreshInv, NewPc
  <2>3. QED
    BY <1>0, <1>1, <2>1, <2>2 DEF CreateScan, WithStatus, ScansOK, ScanRow
<1>2. ASSUME NEW w \in Worker, scan'[s] # scan[s],
             SetOcrRunning(w) \/ SetExtracting(w) \/ SetDone(w) \/ SetFailed(w)
      PROVE  /\ wk[w].pc \in Trying \cup {"catch"} /\ wk[w].scan = s
             /\ scan[s].status \in Unfinished
  <2>1. wk[w].pc \in Trying \cup {"catch"} /\ wk[w].scan \in Scan
    BY <1>0, <1>2 DEF SetOcrRunning, SetExtracting, SetDone, SetFailed, Does, Trying, WorkersOK
  <2>2. wk[w].scan = s
    BY <1>0, <1>2, <2>1 DEF SetOcrRunning, SetExtracting, SetDone, SetFailed,
                             WithStatus, ScansOK, ScanRow
  <2>3. QED
    BY <2>1, <2>2 DEF FinalInv, OpenInv
<1>3. ASSUME NEW r \in Request, RequestNext(r), ~CreateScan(r) PROVE scan' = scan
  BY <1>3 DEF RequestNext, StartScan, StageFiles, EnqueueScan, SaveScan, CreateVehicle,
              UpdateVehicle, AssertVehicleLimit, InsertVehicle, AttachFiles, RemoveVehicle,
              DeleteVehicle, DeleteFile, RequestLost
<1>4. ASSUME NEW w \in Worker, WorkerNext(w),
             ~(SetOcrRunning(w) \/ SetExtracting(w) \/ SetDone(w) \/ SetFailed(w))
      PROVE  scan' = scan
  BY <1>4 DEF WorkerNext, WorkerStep, Process, FindMatchingVehicle, WorkerError, Finish,
              WorkerCrash
<1>5. ASSUME NEW c \in Scan, QueueNext(c) PROVE scan' = scan
  BY <1>5 DEF QueueNext, RetryDelayed, JobStalled, EvictCompleted
<1>6. QED
  BY <1>1, <1>2, <1>3, <1>4, <1>5 DEF Next, vars

\* How a request comes to be about to create a row.
LEMMA FreshMoves ==
    ASSUME RequestsOK, NEW r \in Request, RequestNext(r)
    PROVE  \/ \E s \in Scan : StartScan(r, s) /\ req'[r].scan = s
           \/ req'[r].pc \in NewPc /\ req[r].pc \in NewPc /\ req'[r].scan = req[r].scan
              /\ ~CreateScan(r)
           \/ /\ req'[r].pc \notin NewPc
              /\ \/ req'[r].scan \in {None, req[r].scan}
                 \/ \E s \in Scan : SaveScan(r, s) /\ req'[r].scan = s
<1> USE DEF At, NewPc
<1>0. req[r] \in RequestState
  BY DEF RequestsOK
<1>1. ASSUME NEW pc \in RequestPc, Goto(r, pc)
      PROVE  req'[r].pc = pc /\ req'[r].scan = req[r].scan
  BY <1>1, GotoEffect
<1>2. ASSUME Return(r) PROVE req'[r].pc = "idle" /\ req'[r].scan = None
  BY <1>2, ReturnEffect
<1>3. ASSUME NEW pc, NEW s, NEW v, NEW docs, Begin(r, Call(pc, s, v, docs))
      PROVE  req'[r].pc = pc /\ req'[r].scan = s
  BY <1>3 DEF RequestsOK, Begin, Call
<1>4. ASSUME NEW s \in Scan, StartScan(r, s) PROVE req'[r].scan = s
  BY <1>3, <1>4 DEF StartScan
<1>5. CASE StageFiles(r)
  BY <1>1, <1>2, <1>5 DEF StageFiles, RequestPc, CreateScan
<1>6. CASE \/ CreateScan(r) \/ EnqueueScan(r) \/ UpdateVehicle(r) \/ AssertVehicleLimit(r)
           \/ AttachFiles(r) \/ DeleteVehicle(r) \/ RequestLost(r)
  BY <1>1, <1>2, <1>6 DEF CreateScan, EnqueueScan, UpdateVehicle, AssertVehicleLimit,
                          AttachFiles, DeleteVehicle, RequestLost, RequestPc
<1>7. ASSUME NEW s \in Scan, SaveScan(r, s)
      PROVE  req'[r].pc \notin NewPc /\ req'[r].scan = s
  BY <1>3, <1>7 DEF SaveScan
<1>8. CASE CreateVehicle(r) \/ \E v \in VehicleId : RemoveVehicle(r, v)
  <2>1. PICK pc \in {"limit", "rmDelete"} :
          \E v, docs : Begin(r, Call(pc, None, v, docs))
    BY <1>8 DEF CreateVehicle, RemoveVehicle
  <2>2. QED
    BY <1>3, <2>1
<1>9. CASE InsertVehicle(r)
  <2>1. CASE req' = [req EXCEPT ![r].pc = "attach", ![r].vehicle = created + 1]
    <3>1. req'[r] = [req[r] EXCEPT !.pc = "attach", !.vehicle = created + 1]
      BY <2>1 DEF RequestsOK
    <3>2. req'[r].pc = "attach" /\ req'[r].scan = req[r].scan
      BY <1>0, <3>1 DEF RequestState
    <3>3. QED
      BY <3>2
  <2>2. QED
    BY <1>2, <1>9, <2>1 DEF InsertVehicle
<1>10. ASSUME NEW s \in Scan, DeleteFile(r, s)
       PROVE  req'[r].pc \notin NewPc /\ req'[r].scan \in {None, req[r].scan}
  <2>1. CASE req' = [req EXCEPT ![r].docs = req[r].docs \ {s}]
    <3>1. req'[r] = [req[r] EXCEPT !.docs = req[r].docs \ {s}]
      BY <2>1 DEF RequestsOK
    <3>2. req'[r].pc = req[r].pc /\ req'[r].scan = req[r].scan
      BY <1>0, <3>1 DEF RequestState
    <3>3. QED
      BY <1>10, <3>2 DEF DeleteFile
  <2>2. QED
    BY <1>2, <1>10, <2>1 DEF DeleteFile
<1>11. QED
  BY <1>4, <1>5, <1>6, <1>7, <1>8, <1>9, <1>10 DEF RequestNext

\* A request that creates a row moves on in the same step.
LEMMA OneRequestSteps ==
    ASSUME RequestsOK, NEW q \in Request, req'[q].pc \in NewPc
    PROVE  ~CreateScan(q)
BY GotoEffect DEF CreateScan, RequestPc, NewPc

\* A worker in the middle of a job stays with its scan, and leaves the queue
\* alone until it finishes.
LEMMA WorkerMoves ==
    ASSUME WorkersOK, NEW w \in Worker, WorkerStep(w), ~Finish(w)
    PROVE  /\ job' = job
           /\ wk[w].pc # "idle" /\ wk'[w].scan = wk[w].scan
           /\ \A u \in Worker \ {w} : wk'[u] = wk[u]
<1>0. wk[w] \in WorkerState
  BY DEF WorkersOK
<1>1. ASSUME NEW pc, Step(w, pc)
      PROVE  wk'[w].scan = wk[w].scan /\ \A u \in Worker \ {w} : wk'[u] = wk[u]
  BY <1>0, <1>1 DEF Step, WorkersOK, WorkerState
<1>2. CASE FindMatchingVehicle(w)
  <2>1. PICK v : wk' = [wk EXCEPT ![w].pc = "matched", ![w].match = v]
    BY <1>2 DEF FindMatchingVehicle
  <2>2. wk'[w] = [wk[w] EXCEPT !.pc = "matched", !.match = v]
        /\ \A u \in Worker \ {w} : wk'[u] = wk[u]
    BY <2>1 DEF WorkersOK
  <2>3. wk'[w].scan = wk[w].scan
    BY <1>0, <2>2 DEF WorkerState
  <2>4. QED
    BY <1>2, <2>2, <2>3 DEF FindMatchingVehicle, Does
<1>3. CASE ~FindMatchingVehicle(w)
  BY <1>1, <1>3 DEF WorkerStep, SetOcrRunning, SetExtracting, SetDone, WorkerError, SetFailed,
                    Does, Trying
<1>4. QED
  BY <1>2, <1>3

LEMMA FreshStep ==
    ASSUME TypeInv, FinalInv, [Next]_vars
    PROVE  FreshInv'
<1>0. ScansOK /\ RequestsOK /\ FreshInv
  BY DEF TypeInv, FinalInv
<1>1. ASSUME NEW s \in Scan, NEW r \in Request, ~Exists(s),
             req[r].pc \in NewPc, req[r].scan = s, ~CreateScan(r)
      PROVE  scan'[s].status = "ABSENT"
  <2>1. \A q \in Request \ {r} : req[q].scan # s
    BY <1>0, <1>1 DEF FreshInv
  <2>2. scan'[s] = scan[s]
    BY <1>1, <2>1, ScanWrites DEF Exists, Unfinished
  <2>3. QED
    BY <1>1, <2>2 DEF Exists
<1>2. ASSUME NEW r \in Request, RequestNext(r) PROVE FreshInv'
  <2>1. \A q \in Request \ {r} : req'[q] = req[q]
    BY <1>0, <1>2, RequestMoves
  <2>2. \A q \in Request : req[q].pc \in NewPc => req[q].scan \in Scan
    BY <1>0 DEF RequestsOK, RequestOK, NewPc, ScanPc
  <2>3. CASE \E s \in Scan : StartScan(r, s) /\ req'[r].scan = s
    <3>1. PICK s \in Scan : StartScan(r, s) /\ req'[r].scan = s
      BY <2>3
    <3>2. /\ scan' = scan /\ ~Exists(s)
          /\ \A q \in Request : req[q].scan # s
      BY <3>1 DEF StartScan
    <3>3. QED
      BY <1>0, <2>1, <3>1, <3>2 DEF FreshInv, Exists
  <2>4. CASE req'[r].pc \in NewPc /\ req[r].pc \in NewPc /\ req'[r].scan = req[r].scan
             /\ ~CreateScan(r)
    <3>1. ASSUME NEW q \in Request, req'[q].pc \in NewPc
          PROVE  /\ scan'[req'[q].scan].status = "ABSENT"
                 /\ \A p \in Request \ {q} : req'[p].scan # req'[q].scan
      <4>1. req[q].pc \in NewPc /\ req'[q].scan = req[q].scan /\ ~CreateScan(q)
        BY <1>0, <1>2, <2>1, <2>4, <3>1, OneRequestSteps
      <4>2. \A p \in Request : req'[p].scan = req[p].scan
        BY <2>1, <2>4
      <4>3. QED
        BY <1>0, <1>1, <2>2, <3>1, <4>1, <4>2 DEF FreshInv, Exists
    <3>2. QED
      BY <3>1 DEF FreshInv, Exists
  <2>5. CASE /\ req'[r].pc \notin NewPc
             /\ \/ req'[r].scan \in {None, req[r].scan}
                \/ \E s \in Scan : SaveScan(r, s) /\ req'[r].scan = s
    <3>1. ASSUME NEW q \in Request, req'[q].pc \in NewPc
          PROVE  /\ scan'[req'[q].scan].status = "ABSENT"
                 /\ \A p \in Request \ {q} : req'[p].scan # req'[q].scan
      <4>1. q # r /\ req[q].pc \in NewPc /\ req'[q].scan = req[q].scan
        BY <2>1, <2>5, <3>1
      <4>2. req[q].scan \in Scan /\ ~Exists(req[q].scan)
            /\ \A p \in Request \ {q} : req[p].scan # req[q].scan
        BY <1>0, <2>2, <4>1 DEF FreshInv
      <4>3. ~CreateScan(q)
        BY <1>0, <1>2, <3>1, <4>1, OneRequestSteps
      <4>4. scan'[req'[q].scan].status = "ABSENT"
        BY <1>1, <4>1, <4>2, <4>3
      <4>5. req'[r].scan # req'[q].scan
        <5>1. CASE req'[r].scan \in {None, req[r].scan}
          BY <4>1, <4>2, <5>1, ConstantsAssumption
        <5>2. CASE \E s \in Scan : SaveScan(r, s) /\ req'[r].scan = s
          BY <4>1, <4>2, <5>2 DEF SaveScan, Exists
        <5>3. QED
          BY <2>5, <5>1, <5>2
      <4>6. QED
        BY <2>1, <4>1, <4>2, <4>4, <4>5
    <3>2. QED
      BY <3>1 DEF FreshInv, Exists
  <2>6. QED
    BY <1>0, <1>2, <2>3, <2>4, <2>5, FreshMoves
<1>3. ASSUME req' = req PROVE FreshInv'
  <2>1. ASSUME NEW r \in Request, req[r].pc \in NewPc
        PROVE  scan'[req[r].scan].status = "ABSENT"
    <3>1. ~CreateScan(r)
      BY <1>0, <1>3, <2>1, GotoEffect DEF CreateScan, At, RequestPc
    <3>2. req[r].scan \in Scan /\ ~Exists(req[r].scan)
      BY <1>0, <2>1 DEF RequestsOK, RequestOK, NewPc, ScanPc, FreshInv
    <3>3. QED
      BY <1>1, <2>1, <3>1, <3>2
  <2>2. QED
    BY <1>0, <1>3, <2>1 DEF FreshInv, Exists
<1>4. ASSUME NEW w \in Worker, WorkerNext(w) PROVE req' = req
  BY <1>4 DEF WorkerNext, WorkerStep, Process, SetOcrRunning, SetExtracting, FindMatchingVehicle,
              SetDone, WorkerError, SetFailed, Finish, WorkerCrash
<1>5. ASSUME NEW s \in Scan, QueueNext(s) PROVE req' = req
  BY <1>5 DEF QueueNext, RetryDelayed, JobStalled, EvictCompleted
<1>6. QED
  BY <1>2, <1>3, <1>4, <1>5 DEF Next, vars

\* A worker keeps the job it holds until it is done with it: nothing but the
\* loss of its lock takes it away.
LEMMA HoldStep ==
    ASSUME "lock" \notin Faults, TypeInv, FinalInv, [Next]_vars
    PROVE  HoldInv'
<1>0. JobsOK /\ WorkersOK /\ RequestsOK /\ HoldInv
  BY DEF TypeInv, FinalInv
<1>2. ASSUME job' = job, wk' = wk PROVE HoldInv'
  BY <1>0, <1>2 DEF HoldInv, Queue!Holds
<1>3. ASSUME NEW s \in Scan, wk' = wk, Queue!Add(s, s) \/ Queue!Promote(s) \/ Queue!Evict(s)
      PROVE  HoldInv'
  <2>1. \A c \in Scan : job[c].state = "active" => job'[c] = job[c]
    BY <1>0, <1>3 DEF Queue!Add, Queue!Promote, Queue!Evict, JobsOK
  <2>2. QED
    BY <1>0, <1>3, <2>1 DEF HoldInv, Queue!Holds, WorkersOK
<1>4. ASSUME NEW s \in Scan, JobStalled(s) PROVE HoldInv'
  <2>1. ~Executing(s) /\ Queue!Stall(s) /\ wk' = wk
    BY <1>4 DEF JobStalled
  <2>2. \A c \in Scan \ {s} : job'[c] = job[c]
    BY <1>0, <2>1 DEF Queue!Stall, JobsOK
  <2>3. QED
    BY <1>0, <2>1, <2>2 DEF HoldInv, Executing, Does, Queue!Holds, WorkersOK
<1>5. ASSUME NEW w \in Worker, NEW s \in Scan, Process(w, s) PROVE HoldInv'
  <2>1. /\ Queue!Holds(w, s)'
        /\ \A c \in Scan \ {s} : job'[c] = job[c]
        /\ job[s].state = "waiting"
    BY <1>0, <1>5 DEF Process, Queue!Take, Queue!Holds, JobsOK, Queue!JobRecord
  <2>2. wk'[w].scan = s /\ \A u \in Worker \ {w} : wk'[u] = wk[u]
    BY <1>0, <1>5 DEF Process, Run, WorkersOK
  <2>3. QED
    BY <1>0, <2>1, <2>2 DEF HoldInv, Queue!Holds, WorkersOK
<1>6. ASSUME NEW w \in Worker, WorkerStep(w), ~Finish(w) PROVE HoldInv'
  <2>1. /\ job' = job
        /\ wk[w].pc # "idle" /\ wk'[w].scan = wk[w].scan
        /\ \A u \in Worker \ {w} : wk'[u] = wk[u]
    BY <1>0, <1>6, WorkerMoves
  <2>2. QED
    BY <1>0, <2>1 DEF HoldInv, Queue!Holds
<1>7. ASSUME NEW w \in Worker, Finish(w) PROVE HoldInv'
  <2>1. /\ wk[w].pc # "idle" /\ wk'[w].pc = "idle"
        /\ \A u \in Worker \ {w} : wk'[u] = wk[u]
    BY <1>0, <1>7, IdleWorkerType DEF Finish, Does, WorkersOK
  <2>2. \A c \in Scan \ {wk[w].scan} : job'[c] = job[c]
    BY <1>0, <1>7 DEF Finish, Queue!Complete, Queue!Fail, JobsOK
  <2>3. QED
    BY <1>0, <2>1, <2>2, HeldByOne DEF HoldInv, Queue!Holds, WorkersOK
<1>8. ASSUME NEW w \in Worker, WorkerCrash(w) PROVE HoldInv'
  BY <1>0, <1>8, IdleWorkerType DEF WorkerCrash, HoldInv, Queue!Holds, WorkersOK
<1>9. ASSUME NEW r \in Request, RequestNext(r) PROVE HoldInv'
  <2>1. CASE EnqueueScan(r)
    <3>1. req[r].scan \in Scan
      BY <1>0, <2>1 DEF EnqueueScan, At, RequestsOK, RequestOK, ScanPc
    <3>2. QED
      BY <1>2, <1>3, <2>1, <3>1 DEF EnqueueScan
  <2>2. CASE ~EnqueueScan(r)
    <3>1. job' = job /\ wk' = wk
      BY <1>9, <2>2 DEF RequestNext, StartScan, StageFiles, CreateScan, SaveScan, CreateVehicle,
              UpdateVehicle, AssertVehicleLimit, InsertVehicle, AttachFiles, RemoveVehicle,
              DeleteVehicle, DeleteFile, RequestLost
    <3>2. QED
      BY <1>2, <3>1
  <2>3. QED
    BY <2>1, <2>2
<1>10. QED
  BY <1>2, <1>3, <1>4, <1>5, <1>6, <1>7, <1>8, <1>9
  DEF Next, WorkerNext, QueueNext, RetryDelayed, EvictCompleted, vars

\* A worker that is still trying, or in its catch block, has written no outcome,
\* and since it holds the job nobody else has.
LEMMA OpenStep ==
    ASSUME TypeInv, FinalInv, [Next]_vars
    PROVE  OpenInv'
<1> DEFINE Working == Trying \cup {"catch"}
<1> USE DEF Trying
<1>0. ScansOK /\ WorkersOK /\ RequestsOK /\ HoldInv /\ OpenInv
  BY DEF TypeInv, FinalInv
<1>1. ASSUME wk' = wk, scan' = scan PROVE OpenInv'
  BY <1>0, <1>1 DEF OpenInv
<1>2. ASSUME NEW r \in Request, RequestNext(r) PROVE OpenInv'
  <2>1. wk' = wk /\ (scan' = scan \/ scan' = WithStatus(req[r].scan, "PENDING"))
    BY <1>2 DEF RequestNext, StartScan, StageFiles, CreateScan, EnqueueScan, SaveScan,
              CreateVehicle, UpdateVehicle, AssertVehicleLimit, InsertVehicle, AttachFiles,
              RemoveVehicle, DeleteVehicle, DeleteFile, RequestLost
  <2>2. ASSUME NEW s \in Scan, scan[s].status \in Unfinished
        PROVE  scan'[s].status \in Unfinished
    BY <1>0, <2>1, <2>2 DEF WithStatus, ScansOK, ScanRow, Unfinished
  <2>3. QED
    BY <1>0, <2>1, <2>2 DEF OpenInv, WorkersOK
<1>3. ASSUME NEW s \in Scan, QueueNext(s) PROVE OpenInv'
  BY <1>1, <1>3 DEF QueueNext, RetryDelayed, JobStalled, EvictCompleted
<1>4. ASSUME NEW w \in Worker, NEW s \in Scan, Process(w, s) PROVE OpenInv'
  <2>1. scan' = scan /\ \A u \in Worker \ {w} : wk'[u] = wk[u]
    BY <1>0, <1>4 DEF Process, WorkersOK
  <2>2. wk'[w].pc \in Working => wk'[w].scan = s /\ scan[s].status \in Unfinished
    BY <1>0, <1>4 DEF Process, Run, WorkersOK, ScansOK, ScanRow, Exists
  <2>3. QED
    BY <1>0, <2>1, <2>2 DEF OpenInv
<1>5. ASSUME NEW w \in Worker, WorkerStep(w) PROVE OpenInv'
  <2>1. wk[w].pc # "idle" /\ wk[w].scan \in Scan /\ \A u \in Worker \ {w} : wk'[u] = wk[u]
    BY <1>0, <1>5, WorkerMoves DEF WorkersOK, Finish, Does
  <2>2. \A s \in Scan \ {wk[w].scan} : scan'[s] = scan[s]
    BY <1>0, <1>5, <2>1 DEF WorkerStep, SetOcrRunning, SetExtracting, FindMatchingVehicle,
              SetDone, WorkerError, SetFailed, Finish, WithStatus, ScansOK
  <2>3. ASSUME NEW u \in Worker \ {w}, wk[u].pc \in Working
        PROVE  scan'[wk[u].scan].status \in Unfinished
    BY <1>0, <2>1, <2>2, <2>3, HeldByOne DEF OpenInv, WorkersOK
  <2>4. ASSUME wk'[w].pc \in Working
        PROVE  wk'[w].scan = wk[w].scan /\ scan'[wk[w].scan].status \in Unfinished
    <3>1. ~Finish(w)
      BY <1>0, <2>4, IdleWorkerType DEF Finish, WorkersOK
    <3>2. wk'[w].scan = wk[w].scan
      BY <1>0, <1>5, <3>1, WorkerMoves
    <3>3. CASE SetOcrRunning(w) \/ SetExtracting(w)
      BY <1>0, <2>1, <3>2, <3>3
      DEF SetOcrRunning, SetExtracting, WithStatus, ScansOK, ScanRow, Unfinished
    <3>4. CASE FindMatchingVehicle(w) \/ WorkerError(w)
      BY <1>0, <3>2, <3>4 DEF FindMatchingVehicle, WorkerError, Does, OpenInv
    <3>5. CASE SetDone(w) \/ SetFailed(w)
      BY <1>0, <2>4, <3>5 DEF SetDone, SetFailed, Step, WorkersOK, WorkerState
    <3>6. QED
      BY <1>5, <3>1, <3>2, <3>3, <3>4, <3>5 DEF WorkerStep
  <2>5. QED
    BY <2>1, <2>3, <2>4 DEF OpenInv
<1>6. ASSUME NEW w \in Worker, WorkerCrash(w) PROVE OpenInv'
  BY <1>0, <1>6, IdleWorkerType DEF WorkerCrash, OpenInv, WorkersOK
<1>7. QED
  BY <1>1, <1>2, <1>3, <1>4, <1>5, <1>6 DEF Next, WorkerNext, vars

\* As long as no worker loses the lock of a job it is running, no retry, no
\* redelivery after a crash and no other worker changes the outcome of a scan:
\* what a polling client has read stays true.
THEOREM OutcomeFinal ==
    ASSUME "lock" \notin Faults
    PROVE  Spec => OutcomeIsFinal
<1>1. TypeInv /\ FinalInv /\ [Next]_vars => FinalInv'
  BY FreshStep, HoldStep, OpenStep DEF FinalInv
<1>2. TypeInv /\ FinalInv /\ [Next]_vars =>
        [\A s \in Scan : scan[s].status \in Outcome => scan'[s] = scan[s]]_vars
  BY ScanWrites DEF Exists, Outcome, Unfinished
<1>3. QED
  BY <1>1, <1>2, TypeInvInit, TypeInvStep, FinalInvInit, PTL DEF Spec, OutcomeIsFinal

-----------------------------------------------------------------------------
(* Scans without an outcome *)

\* The job of a scan follows its row.
EnqueueInv == \A r \in Request : At(r, "scanEnqueue") => Exists(req[r].scan)
QueuedInv  == \A s \in Scan : job[s].state # "absent" => Exists(s)

\* A job is acknowledged, and completes, only when its scan has an outcome.
AckInv       == \A w \in Worker : Does(w, "ack") => scan[wk[w].scan].status \in Outcome
CompletedInv == \A s \in Scan : job[s].state = "completed" => scan[s].status \in Outcome

AnswerInv == EnqueueInv /\ QueuedInv /\ AckInv /\ CompletedInv /\ UnfinishedScanHasJob

Kept == {"waiting", "active", "delayed", "failed"}

\* What a step does to the job of a scan.
LEMMA JobMoves ==
    ASSUME TypeInv, [Next]_vars, NEW s \in Scan
    PROVE  \/ job'[s] = job[s]
           \/ /\ job[s].state = "absent" /\ job'[s].state = "waiting"
              /\ \E r \in Request : EnqueueScan(r) /\ req[r].scan = s
           \/ job[s].state \in Kept /\ job'[s].state \in Kept
           \/ /\ job[s].state \in Kept /\ job'[s].state = "completed"
              /\ \E w \in Worker : Does(w, "ack") /\ wk[w].scan = s
           \/ job[s].state = "completed" /\ EvictCompleted(s)
<1>0. JobsOK /\ WorkersOK /\ RequestsOK
  BY DEF TypeInv
<1> USE DEF Kept
<1>1. ASSUME NEW r \in Request, RequestNext(r), ~EnqueueScan(r) PROVE job' = job
  BY <1>1 DEF RequestNext, StartScan, StageFiles, CreateScan, SaveScan, CreateVehicle,
              UpdateVehicle, AssertVehicleLimit, InsertVehicle, AttachFiles, RemoveVehicle,
              DeleteVehicle, DeleteFile, RequestLost
<1>2. ASSUME NEW r \in Request, EnqueueScan(r), job'[s] # job[s]
      PROVE  job[s].state = "absent" /\ job'[s].state = "waiting" /\ req[r].scan = s
  <2>1. req[r].scan \in Scan /\ Queue!Add(req[r].scan, req[r].scan)
    BY <1>0, <1>2 DEF EnqueueScan, At, RequestsOK, RequestOK, ScanPc
  <2>2. QED
    BY <1>0, <1>2, <2>1 DEF Queue!Add, Queue!NewJob, JobsOK
<1>3. ASSUME NEW w \in Worker, NEW c \in Scan, Process(w, c), job'[s] # job[s]
      PROVE  job[s].state \in Kept /\ job'[s].state \in Kept
  <2>1. c = s /\ job[s].state = "waiting"
    BY <1>0, <1>3 DEF Process, Queue!Take, JobsOK
  <2>2. job'[s] = [job[s] EXCEPT !.state = "active", !.holder = w]
    BY <1>0, <1>3, <2>1 DEF Process, Queue!Take, JobsOK
  <2>3. job'[s].state = "active"
    BY <1>0, <2>2 DEF JobsOK, Queue!JobRecord
  <2>4. QED
    BY <2>1, <2>3
<1>4. ASSUME NEW w \in Worker, WorkerStep(w), ~Finish(w) PROVE job' = job
  BY <1>0, <1>4, WorkerMoves
<1>5. ASSUME NEW w \in Worker, Finish(w), job'[s] # job[s]
      PROVE  /\ job[s].state \in Kept
             /\ \/ job'[s].state \in Kept
                \/ job'[s].state = "completed" /\ Does(w, "ack") /\ wk[w].scan = s
  <2>1. CASE Does(w, "ack") /\ Queue!Complete(w, wk[w].scan)
    <3>1. /\ wk[w].scan = s /\ Queue!Holds(w, s)
          /\ job'[s] = [job[s] EXCEPT !.state = "completed", !.holder = None]
      BY <1>0, <1>5, <2>1 DEF Queue!Complete, JobsOK
    <3>2. job'[s].state = "completed"
      BY <1>0, <3>1 DEF JobsOK, Queue!JobRecord
    <3>3. QED
      BY <2>1, <3>1, <3>2 DEF Queue!Holds
  <2>2. CASE Queue!Fail(w, wk[w].scan)
    <3>1. /\ wk[w].scan = s /\ Queue!Holds(w, s)
          /\ \E state \in {"delayed", "failed"} :
                job'[s] = [job[s] EXCEPT !.state = state, !.tries = job[s].tries + 1,
                                         !.holder = None]
      BY <1>0, <1>5, <2>2 DEF Queue!Fail, JobsOK
    <3>2. job'[s].state \in {"delayed", "failed"}
      BY <1>0, <3>1 DEF JobsOK, Queue!JobRecord
    <3>3. QED
      BY <3>1, <3>2 DEF Queue!Holds
  <2>3. QED
    BY <1>5, <2>1, <2>2 DEF Finish
<1>6. ASSUME NEW w \in Worker, WorkerCrash(w) PROVE job' = job
  BY <1>6 DEF WorkerCrash
<1>7. ASSUME NEW c \in Scan, RetryDelayed(c) \/ JobStalled(c), job'[s] # job[s]
      PROVE  job[s].state \in Kept /\ job'[s].state \in Kept
  <2>1. CASE Queue!Promote(c)
    <3>1. c = s /\ job[s].state = "delayed" /\ job'[s] = [job[s] EXCEPT !.state = "waiting"]
      BY <1>0, <1>7, <2>1 DEF Queue!Promote, JobsOK
    <3>2. QED
      BY <1>0, <3>1 DEF JobsOK, Queue!JobRecord
  <2>2. CASE Queue!Stall(c)
    <3>1. c = s /\ job[s].state = "active"
      BY <1>0, <1>7, <2>2 DEF Queue!Stall, JobsOK
    <3>2. \/ job'[s] = [job[s] EXCEPT !.state = "waiting", !.stalls = job[s].stalls + 1,
                                      !.holder = None]
          \/ job'[s] = [job[s] EXCEPT !.state = "failed", !.holder = None]
      BY <1>0, <2>2, <3>1 DEF Queue!Stall, JobsOK
    <3>3. job'[s].state \in {"waiting", "failed"}
      BY <1>0, <3>2 DEF JobsOK, Queue!JobRecord
    <3>4. QED
      BY <3>1, <3>3
  <2>3. QED
    BY <1>7, <2>1, <2>2 DEF RetryDelayed, JobStalled
<1>8. ASSUME NEW c \in Scan, EvictCompleted(c), job'[s] # job[s]
      PROVE  job[s].state = "completed" /\ c = s
  BY <1>0, <1>8 DEF EvictCompleted, Queue!Evict, JobsOK
<1>9. QED
  BY <1>1, <1>2, <1>3, <1>4, <1>5, <1>6, <1>7, <1>8
  DEF Next, WorkerNext, QueueNext, vars

\* A row that exists stays, and so does an outcome.
LEMMA RowsStay ==
    ASSUME TypeInv, FinalInv, [Next]_vars, NEW s \in Scan
    PROVE  /\ Exists(s) => Exists(s)'
           /\ scan[s].status \in Outcome => scan'[s].status \in Outcome
           /\ scan'[s].status \in Unfinished /\ scan[s].status \notin Unfinished =>
                 \E r \in Request : CreateScan(r) /\ req[r].scan = s
<1>1. ASSUME scan[s].status \in Unfinished PROVE Exists(s)'
  <2>1. ASSUME NEW w \in Worker, WorkerStep(w), wk[w].scan \in Scan PROVE Exists(s)'
    BY <1>1, <2>1 DEF WorkerStep, SetOcrRunning, SetExtracting, SetDone, SetFailed,
       FindMatchingVehicle, WorkerError, Finish, WithStatus, Exists, Unfinished,
       TypeInv, ScansOK, ScanRow
  <2>2. ASSUME NEW w \in Worker, WorkerStep(w) PROVE wk[w].scan \in Scan
    BY <2>2 DEF WorkerStep, SetOcrRunning, SetExtracting, SetDone, SetFailed,
       FindMatchingVehicle, WorkerError, Finish, Does, Trying, TypeInv, WorkersOK
  <2>3. ASSUME NEW w \in Worker, WorkerNext(w), ~WorkerStep(w) PROVE scan' = scan
    BY <2>3 DEF WorkerNext, Process, WorkerCrash
  <2>4. ASSUME NEW r \in Request, RequestNext(r) PROVE Exists(s)'
    BY <1>1, <2>4 DEF RequestNext, StartScan, StageFiles, CreateScan, EnqueueScan, SaveScan,
       CreateVehicle, UpdateVehicle, AssertVehicleLimit, InsertVehicle, AttachFiles,
       RemoveVehicle, DeleteVehicle, DeleteFile, RequestLost, WithStatus, Exists, Unfinished,
       TypeInv, ScansOK, ScanRow
  <2>5. ASSUME NEW c \in Scan, QueueNext(c) PROVE scan' = scan
    BY <2>5 DEF QueueNext, RetryDelayed, JobStalled, EvictCompleted
  <2>6. QED
    BY <1>1, <2>1, <2>2, <2>3, <2>4, <2>5 DEF Next, vars, Exists, Unfinished
<1>2. QED
  BY <1>1, ScanWrites DEF Exists, Outcome, Unfinished, TypeInv, ScansOK, ScanRow

\* Only the creation of its row sends a request to the queue.
LEMMA EnqueueMoves ==
    ASSUME RequestsOK, NEW r \in Request, RequestNext(r), req'[r].pc = "scanEnqueue"
    PROVE  CreateScan(r) \/ (At(r, "scanEnqueue") /\ req'[r].scan = req[r].scan)
<1> USE DEF At
<1>0. req[r] \in RequestState
  BY DEF RequestsOK
<1>1. ASSUME NEW pc \in RequestPc, Goto(r, pc) PROVE req'[r].pc = pc
  BY <1>1, GotoEffect
<1>2. ASSUME Return(r) PROVE req'[r].pc = "idle"
  BY <1>2, ReturnEffect
<1>3. ASSUME NEW pc, NEW s, NEW v, NEW docs, Begin(r, Call(pc, s, v, docs))
      PROVE  req'[r].pc = pc
  BY <1>3 DEF RequestsOK, Begin, Call
<1>4. CASE \/ StageFiles(r) \/ EnqueueScan(r) \/ UpdateVehicle(r) \/ AssertVehicleLimit(r)
           \/ AttachFiles(r) \/ DeleteVehicle(r) \/ RequestLost(r)
  BY <1>1, <1>2, <1>4 DEF StageFiles, EnqueueScan, UpdateVehicle, AssertVehicleLimit,
                          AttachFiles, DeleteVehicle, RequestLost, RequestPc
<1>5. CASE \/ \E s \in Scan : StartScan(r, s) \/ SaveScan(r, s)
           \/ CreateVehicle(r)
           \/ \E v \in VehicleId : RemoveVehicle(r, v)
  <2>1. PICK pc \in {"scanStore", "update", "limit", "rmDelete"} :
          \E s, v, docs : Begin(r, Call(pc, s, v, docs))
    BY <1>5 DEF StartScan, SaveScan, CreateVehicle, RemoveVehicle
  <2>2. QED
    BY <1>3, <2>1
<1>6. CASE InsertVehicle(r)
  <2>1. CASE req' = [req EXCEPT ![r].pc = "attach", ![r].vehicle = created + 1]
    <3>1. req'[r] = [req[r] EXCEPT !.pc = "attach", !.vehicle = created + 1]
      BY <2>1 DEF RequestsOK
    <3>2. req'[r].pc = "attach"
      BY <1>0, <3>1 DEF RequestState
    <3>3. QED
      BY <3>2
  <2>2. QED
    BY <1>2, <1>6, <2>1 DEF InsertVehicle
<1>7. ASSUME NEW s \in Scan, DeleteFile(r, s) PROVE req'[r].pc # "scanEnqueue"
  <2>1. CASE req' = [req EXCEPT ![r].docs = req[r].docs \ {s}]
    <3>1. req'[r] = [req[r] EXCEPT !.docs = req[r].docs \ {s}]
      BY <2>1 DEF RequestsOK
    <3>2. req'[r].pc = req[r].pc
      BY <1>0, <3>1 DEF RequestState
    <3>3. QED
      BY <1>7, <3>2 DEF DeleteFile
  <2>2. QED
    BY <1>2, <1>7, <2>1 DEF DeleteFile
<1>8. QED
  BY <1>4, <1>5, <1>6, <1>7 DEF RequestNext

\* A request on its way to the queue does nothing else, unless the API dies.
LEMMA EnqueueLeaves ==
    ASSUME "api" \notin Faults, NEW r \in Request, At(r, "scanEnqueue"), RequestNext(r)
    PROVE  EnqueueScan(r)
BY DEF RequestNext, At, StartScan, StageFiles, CreateScan, SaveScan, CreateVehicle, UpdateVehicle,
       AssertVehicleLimit, InsertVehicle, AttachFiles, RemoveVehicle, DeleteVehicle, DeleteFile,
       RequestLost

LEMMA EnqueueStep ==
    ASSUME TypeInv, FinalInv, AnswerInv, [Next]_vars
    PROVE  EnqueueInv'
<1>0. RequestsOK /\ EnqueueInv
  BY DEF TypeInv, AnswerInv
<1> SUFFICES ASSUME NEW r \in Request, At(r, "scanEnqueue")'
             PROVE  Exists(req[r].scan)'
  BY DEF EnqueueInv
<1>1. CASE At(r, "scanEnqueue") /\ req'[r].scan = req[r].scan
  <2>1. req[r].scan \in Scan /\ Exists(req[r].scan)
    BY <1>0, <1>1 DEF EnqueueInv, At, RequestsOK, RequestOK, ScanPc
  <2>2. QED
    BY <1>1, <2>1, RowsStay DEF Exists
<1>2. CASE CreateScan(r)
  <2>1. req[r].scan \in Scan /\ req'[r].scan = req[r].scan
    BY <1>0, <1>2, GotoEffect DEF CreateScan, At, RequestsOK, RequestOK, ScanPc, RequestPc
  <2>2. QED
    BY <1>2, <2>1 DEF CreateScan, WithStatus, Exists, TypeInv, ScansOK, ScanRow
<1>3. ASSUME RequestNext(r), ~CreateScan(r)
      PROVE  At(r, "scanEnqueue") /\ req'[r].scan = req[r].scan
  BY <1>0, <1>3, EnqueueMoves DEF At
<1>4. ASSUME NEW q \in Request, RequestNext(q), q # r PROVE req'[r] = req[r]
  BY <1>0, <1>4, RequestMoves
<1>5. ASSUME NEW w \in Worker, WorkerNext(w) PROVE req' = req
  BY <1>5 DEF WorkerNext, WorkerStep, Process, SetOcrRunning, SetExtracting, FindMatchingVehicle,
              SetDone, WorkerError, SetFailed, Finish, WorkerCrash
<1>6. ASSUME NEW s \in Scan, QueueNext(s) PROVE req' = req
  BY <1>6 DEF QueueNext, RetryDelayed, JobStalled, EvictCompleted
<1>7. QED
  BY <1>1, <1>2, <1>3, <1>4, <1>5, <1>6 DEF Next, vars, At

LEMMA QueuedStep ==
    ASSUME TypeInv, FinalInv, AnswerInv, [Next]_vars
    PROVE  QueuedInv'
<1> SUFFICES ASSUME NEW s \in Scan, (job[s].state # "absent")'
             PROVE  Exists(s)'
  BY DEF QueuedInv
<1>1. ASSUME NEW r \in Request, EnqueueScan(r), req[r].scan = s PROVE Exists(s)
  BY <1>1 DEF EnqueueScan, AnswerInv, EnqueueInv
<1>2. job[s].state # "absent" => Exists(s)
  BY DEF AnswerInv, QueuedInv
<1>3. Exists(s)
  BY <1>1, <1>2, JobMoves DEF Kept
<1>4. QED
  BY <1>3, RowsStay

\* A worker acknowledges a scan it found finished, or one it has just finished.
LEMMA AckStep ==
    ASSUME "lock" \notin Faults, TypeInv, FinalInv, AnswerInv, [Next]_vars
    PROVE  AckInv'
<1>0. ScansOK /\ WorkersOK /\ AckInv
  BY DEF TypeInv, AnswerInv
<1> SUFFICES ASSUME NEW w \in Worker, Does(w, "ack")'
             PROVE  (scan[wk[w].scan].status \in Outcome)'
  BY DEF AckInv
<1>1. ASSUME wk'[w] = wk[w] PROVE scan'[wk'[w].scan].status \in Outcome
  <2>1. wk[w].scan \in Scan /\ scan[wk[w].scan].status \in Outcome
    BY <1>0, <1>1 DEF Does, AckInv, WorkersOK
  <2>2. QED
    BY <1>1, <2>1, RowsStay
<1>2. ASSUME NEW s \in Scan, Process(w, s) PROVE scan'[wk'[w].scan].status \in Outcome
  <2>1. wk'[w] = Run("ack", s) /\ scan' = scan /\ (~Exists(s) \/ scan[s].status \in Outcome)
    BY <1>0, <1>2 DEF Process, Does, Run, WorkersOK
  <2>2. Exists(s)
    BY <1>2 DEF Process, Queue!Take, AnswerInv, QueuedInv
  <2>3. QED
    BY <2>1, <2>2 DEF Run
<1>3. ASSUME WorkerStep(w) PROVE scan'[wk'[w].scan].status \in Outcome
  <2>1. ~Finish(w)
    BY <1>0, IdleWorkerType DEF Finish, Does, WorkersOK
  <2>2. CASE SetDone(w)
    <3>1. wk[w].scan \in Scan /\ wk'[w].scan = wk[w].scan
      BY <1>0, <1>3, <2>1, WorkerMoves DEF WorkersOK
    <3>2. QED
      BY <1>0, <2>2, <3>1 DEF SetDone, ScansOK, Outcome
  <2>3. CASE SetOcrRunning(w) \/ SetExtracting(w) \/ WorkerError(w) \/ SetFailed(w)
    <3>1. PICK pc \in {"recognizing", "extracting", "catch", "throw"} : Step(w, pc)
      BY <2>3 DEF SetOcrRunning, SetExtracting, WorkerError, SetFailed
    <3>2. wk'[w].pc = pc
      BY <1>0, <3>1 DEF Step, WorkersOK, WorkerState
    <3>3. QED
      BY <3>1, <3>2 DEF Does
  <2>4. CASE FindMatchingVehicle(w)
    <3>1. PICK v : wk' = [wk EXCEPT ![w].pc = "matched", ![w].match = v]
      BY <2>4 DEF FindMatchingVehicle
    <3>2. wk'[w] = [wk[w] EXCEPT !.pc = "matched", !.match = v]
      BY <1>0, <3>1 DEF WorkersOK
    <3>3. wk'[w].pc = "matched"
      BY <1>0, <3>2 DEF WorkersOK, WorkerState
    <3>4. QED
      BY <3>3 DEF Does
  <2>5. QED
    BY <1>3, <2>1, <2>2, <2>3, <2>4 DEF WorkerStep
<1>4. ~WorkerCrash(w)
  BY <1>0, IdleWorkerType DEF WorkerCrash, Does, WorkersOK
<1>5. ASSUME NEW u \in Worker, u # w, WorkerNext(u) PROVE wk'[w] = wk[w]
  <2>1. CASE WorkerStep(u) /\ ~Finish(u)
    BY <1>0, <1>5, <2>1, WorkerMoves
  <2>2. QED
    BY <1>0, <1>5, <2>1 DEF WorkerNext, Process, Finish, WorkerCrash, WorkersOK
<1>6. ASSUME NEW r \in Request, RequestNext(r) PROVE wk' = wk
  BY <1>6 DEF RequestNext, StartScan, StageFiles, CreateScan, EnqueueScan, SaveScan,
     CreateVehicle, UpdateVehicle, AssertVehicleLimit, InsertVehicle, AttachFiles,
     RemoveVehicle, DeleteVehicle, DeleteFile, RequestLost
<1>7. ASSUME NEW s \in Scan, QueueNext(s) PROVE wk' = wk
  BY <1>7 DEF QueueNext, RetryDelayed, JobStalled, EvictCompleted
<1>8. QED
  BY <1>1, <1>2, <1>3, <1>4, <1>5, <1>6, <1>7 DEF Next, WorkerNext, vars

LEMMA CompletedStep ==
    ASSUME TypeInv, FinalInv, AnswerInv, [Next]_vars
    PROVE  CompletedInv'
<1> SUFFICES ASSUME NEW s \in Scan, (job[s].state = "completed")'
             PROVE  (scan[s].status \in Outcome)'
  BY DEF CompletedInv
<1>1. job[s].state = "completed" => scan[s].status \in Outcome
  BY DEF AnswerInv, CompletedInv
<1>2. ASSUME NEW w \in Worker, Does(w, "ack"), wk[w].scan = s PROVE scan[s].status \in Outcome
  BY <1>2 DEF AnswerInv, AckInv
<1>3. scan[s].status \in Outcome
  BY <1>1, <1>2, JobMoves DEF Kept
<1>4. QED
  BY <1>3, RowsStay

\* Without a failure of Redis, of the API or of a lock.
LEMMA UnfinishedStep ==
    ASSUME Faults \cap {"redis", "api"} = {}, TypeInv, FinalInv, AnswerInv, [Next]_vars
    PROVE  UnfinishedScanHasJob'
<1>0. RequestsOK
  BY DEF TypeInv
<1> SUFFICES ASSUME NEW s \in Scan, (scan[s].status \in Unfinished)'
             PROVE  \/ \E r \in Request : At(r, "scanEnqueue")' /\ req'[r].scan = s
                    \/ job'[s].state \in Kept
  BY DEF UnfinishedScanHasJob, Kept
<1>1. CASE scan[s].status \notin Unfinished
  <2>1. PICK r \in Request : CreateScan(r) /\ req[r].scan = s
    BY <1>1, RowsStay
  <2>2. At(r, "scanEnqueue")' /\ req'[r].scan = s
    BY <1>0, <2>1, GotoEffect DEF CreateScan, At, RequestPc
  <2>3. QED
    BY <2>2
<1>2. CASE scan[s].status \in Unfinished
  <2>1. job[s].state # "completed" /\ job'[s].state # "completed"
    BY <1>2, CompletedStep DEF AnswerInv, CompletedInv, Outcome, Unfinished
  <2>2. CASE job[s].state \in Kept
    BY <2>1, <2>2, JobMoves DEF Kept
  <2>3. CASE job[s].state \notin Kept
    <3>1. PICK r \in Request : At(r, "scanEnqueue") /\ req[r].scan = s
      BY <1>2, <2>3 DEF AnswerInv, UnfinishedScanHasJob, Kept
    <3>2. job[s].state = "absent"
      BY <2>1, <2>3 DEF Kept, TypeInv, JobsOK, Queue!JobRecord, Queue!JobState
    <3>3. CASE EnqueueScan(r)
      <4>1. job' = [job EXCEPT ![s] = Queue!NewJob(s)]
        BY <3>1, <3>2, <3>3 DEF EnqueueScan, Queue!Add
      <4>2. QED
        BY <4>1 DEF TypeInv, JobsOK, Queue!NewJob, Kept
    <3>4. CASE ~EnqueueScan(r)
      <4>1. ASSUME NEW q \in Request, RequestNext(q) PROVE req'[r] = req[r]
        BY <1>0, <3>1, <3>4, <4>1, RequestMoves, EnqueueLeaves
      <4>2. ASSUME NEW w \in Worker, WorkerNext(w) PROVE req' = req
        BY <4>2 DEF WorkerNext, WorkerStep, Process, SetOcrRunning, SetExtracting,
           FindMatchingVehicle, SetDone, WorkerError, SetFailed, Finish, WorkerCrash
      <4>3. ASSUME NEW c \in Scan, QueueNext(c) PROVE req' = req
        BY <4>3 DEF QueueNext, RetryDelayed, JobStalled, EvictCompleted
      <4>4. req'[r] = req[r]
        BY <4>1, <4>2, <4>3 DEF Next, vars
      <4>5. QED
        BY <3>1, <4>4 DEF At
    <3>5. QED
      BY <3>3, <3>4
  <2>4. QED
    BY <2>2, <2>3
<1>3. QED
  BY <1>1, <1>2

LEMMA AnswerInvInit == Init => AnswerInv
<1> SUFFICES ASSUME Init PROVE AnswerInv
  OBVIOUS
<1>1. /\ \A r \in Request : req[r].pc = "idle"
      /\ \A w \in Worker : wk[w].pc = "idle"
      /\ \A s \in Scan : scan[s].status = "ABSENT" /\ job[s].state = "absent"
  BY DEF Init, IdleRequest, Call, IdleWorker, Run, Queue!QueueInit, Queue!NoJob
<1>2. QED
  BY <1>1 DEF AnswerInv, EnqueueInv, QueuedInv, AckInv, CompletedInv, UnfinishedScanHasJob,
              At, Does, Unfinished

\* A scan without an outcome is about to be put into the queue, or its job is
\* there or in the failed set, whatever crashes, stalls and retries there are:
\* only Redis, the death of the API between the row and the job (startScan), or
\* a lost lock can leave a client polling for nothing.
THEOREM UnfinishedIsQueued ==
    ASSUME Faults \cap {"lock", "redis", "api"} = {}
    PROVE  Spec => []UnfinishedScanHasJob
<1>1. "lock" \notin Faults /\ Faults \cap {"redis", "api"} = {}
  OBVIOUS
<1>2. TypeInv /\ FinalInv /\ [Next]_vars => FinalInv'
  BY <1>1, FreshStep, HoldStep, OpenStep DEF FinalInv
<1>3. TypeInv /\ FinalInv /\ AnswerInv /\ [Next]_vars => AnswerInv'
  BY <1>1, EnqueueStep, QueuedStep, AckStep, CompletedStep, UnfinishedStep DEF AnswerInv
<1>4. AnswerInv => UnfinishedScanHasJob
  BY DEF AnswerInv
<1>5. QED
  BY <1>2, <1>3, <1>4, TypeInvInit, TypeInvStep, FinalInvInit, AnswerInvInit, PTL DEF Spec
=============================================================================
