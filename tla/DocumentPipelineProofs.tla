----------------------- MODULE DocumentPipelineProofs -----------------------
(***************************************************************************)
(* Proofs about DocumentPipeline, for every value of its constants.         *)
(*                                                                          *)
(* TypeInv strengthens the type invariant by what the steps rely on: every  *)
(* reference in a request, a worker, a job or a row is to a document that   *)
(* was created, a job that may run has an attempt left, and an id is        *)
(* reserved for every upload under way.  InvoiceInv, FileInv and LimitInv   *)
(* are the inductive forms of ProcessedHasInvoice, RowHasFile and           *)
(* LimitOvershoot.                                                          *)
(*                                                                          *)
(* DocumentPipeline implements DocumentLifecycle as long as no worker loses *)
(* the lock of a job it runs, and leaves no document without a job as long  *)
(* as, besides, nothing is deleted and no handler or Queue.add fails: the   *)
(* second half, with LifeInv and StrandInv.                                 *)
(***************************************************************************)
EXTENDS DocumentPipeline, FiniteSetTheorems, WellFoundedInduction, TLAPS

USE DEF NoDoc, DocId

Known == 1 .. created

RowOK(d) ==
    /\ doc[d].status # "ABSENT" => doc[d].file \in File /\ d \in Known
    /\ doc[d].dupOf \in Known \cup {NoDoc}

JobOK(f) ==
    /\ job[f].state # "absent" => job[f].data \in Known
    /\ Queue!InFlight(f) => job[f].tries < Attempts

WorkerOK(w) ==
    /\ wk[w].pc # "idle" => wk[w].file \in File /\ wk[w].doc \in Known
    /\ wk[w].dup \in Known \cup {NoDoc}

UploadPc    == {"limit", "store", "create"}
OverwritePc == {"owOriginal", "owDelete", "owFile", "owPromote"}

RequestOK(r) ==
    /\ req[r].pc \in UploadPc \cup {"enqueue"} => req[r].file \in File
    /\ req[r].pc \notin UploadPc \cup {"idle"} => req[r].doc \in Known
    /\ req[r].pc \in OverwritePc => req[r].orig \in Known

DocsOK == doc \in [DocId -> Document] /\ \A d \in DocId : RowOK(d)
JobsOK == job \in [File -> Queue!JobRecord] /\ \A f \in File : JobOK(f)
WorkersOK == wk \in [Worker -> WorkerState] /\ \A w \in Worker : WorkerOK(w)
RequestsOK == req \in [Request -> RequestState] /\ \A r \in Request : RequestOK(r)

\* An id is reserved for every upload that may still create a row.
IdsOK ==
    /\ created \in 0 .. MaxDocs
    /\ created + Cardinality(Uploading) <= MaxDocs
    /\ files \subseteq Known \cup Request

TypeInv == DocsOK /\ JobsOK /\ WorkersOK /\ RequestsOK /\ IdsOK

-----------------------------------------------------------------------------
(* The queue *)

LEMMA NewJobType ==
    \A d \in DocId : /\ Queue!NewJob(d) \in Queue!JobRecord
                     /\ Queue!NewJob(d).tries = 0
                     /\ Queue!NewJob(d).data = d
BY ConstantsAssumption DEF Queue!NewJob, Queue!JobRecord, Queue!JobState

LEMMA NoJobType ==
    /\ Queue!NoJob \in Queue!JobRecord
    /\ Queue!NoJob.state = "absent"
BY ConstantsAssumption DEF Queue!NoJob, Queue!JobRecord, Queue!JobState

\* Every operation of the queue keeps the jobs well formed.
LEMMA QueueTyping ==
    ASSUME JobsOK, NEW f \in File, created' = created, created \in 0 .. MaxDocs,
           \/ \E d \in Known : Queue!Add(f, d)
           \/ \E w \in Worker : Queue!Take(w, f)
           \/ \E w \in Worker : Queue!Complete(w, f)
           \/ \E w \in Worker : Queue!Fail(w, f)
           \/ Queue!Promote(f)
           \/ Queue!Stall(f)
           \/ Queue!Evict(f)
    PROVE  JobsOK'
<1> USE ConstantsAssumption DEF JobsOK, JobOK, Known, Queue!InFlight
<1>1. ASSUME NEW d \in Known, Queue!Add(f, d) PROVE JobsOK'
  <2>1. d \in DocId
    OBVIOUS
  <2>2. QED
    BY <1>1, <2>1, NewJobType DEF Queue!Add
<1>2. ASSUME NEW w \in Worker, Queue!Take(w, f) PROVE JobsOK'
  BY <1>2, SMT, ZenonT(40) DEF Queue!Take, Queue!JobRecord, Queue!JobState
<1>3. ASSUME NEW w \in Worker, Queue!Complete(w, f) PROVE JobsOK'
  BY <1>3 DEF Queue!Complete, Queue!Holds, Queue!JobRecord, Queue!JobState
<1>4. ASSUME NEW w \in Worker, Queue!Fail(w, f) PROVE JobsOK'
  <2>1. CASE ~Queue!Holds(w, f)
    BY <1>4, <2>1 DEF Queue!Fail
  <2>2. CASE Queue!Holds(w, f)
    <3>1. PICK row : row = [job[f] EXCEPT !.state  = IF job[f].tries + 1 < Attempts
                                                     THEN "delayed" ELSE "failed",
                                          !.tries  = job[f].tries + 1,
                                          !.holder = None]
      OBVIOUS
    <3>2. job[f] \in Queue!JobRecord /\ job[f].state = "active" /\ job[f].tries < Attempts
          /\ job[f].data \in Known
      BY <2>2 DEF Queue!Holds, Queue!JobRecord
    <3>3. /\ row \in Queue!JobRecord /\ row.data = job[f].data /\ row.tries = job[f].tries + 1
          /\ row.state = IF job[f].tries + 1 < Attempts THEN "delayed" ELSE "failed"
      <4>1. PICK n \in 0 .. Attempts : n = job[f].tries + 1
        BY <3>2 DEF Queue!JobRecord
      <4>2. PICK state \in {"delayed", "failed"} :
              state = IF job[f].tries + 1 < Attempts THEN "delayed" ELSE "failed"
        OBVIOUS
      <4>3. row = [job[f] EXCEPT !.state = state, !.tries = n, !.holder = None]
        BY <3>1, <4>1, <4>2, Zenon
      <4>4. row \in Queue!JobRecord /\ row.data = job[f].data /\ row.tries = n /\ row.state = state
        BY <3>2, <4>3 DEF Queue!JobRecord, Queue!JobState
      <4> QED  BY <4>1, <4>2, <4>4
    <3>4. job' = [job EXCEPT ![f] = row]
      BY <1>4, <2>2, <3>1 DEF Queue!Fail
    <3>5. row.data \in Known /\ (row.state \in {"waiting", "active", "delayed"} => row.tries < Attempts)
      BY <3>2, <3>3 DEF Queue!JobRecord
    <3> QED
      BY <3>3, <3>4, <3>5
  <2> QED  BY <2>1, <2>2
<1>5. ASSUME Queue!Promote(f) PROVE JobsOK'
  BY <1>5 DEF Queue!Promote, Queue!JobRecord, Queue!JobState
<1>6. ASSUME Queue!Stall(f) PROVE JobsOK'
  <2>1. CASE job[f].stalls < MaxStalled
    <3>1. job' = [job EXCEPT ![f].state  = "waiting",
                             ![f].stalls = job[f].stalls + 1,
                             ![f].holder = None]
      BY <1>6, <2>1 DEF Queue!Stall
    <3>2. job[f].stalls + 1 \in 0 .. MaxStalled
      BY <2>1 DEF Queue!JobRecord
    <3>3. QED
      BY <1>6, <3>1, <3>2 DEF Queue!Stall, Queue!JobRecord, Queue!JobState
  <2>2. CASE ~(job[f].stalls < MaxStalled)
    <3>1. job' = [job EXCEPT ![f].state = "failed", ![f].holder = None]
      BY <1>6, <2>2 DEF Queue!Stall
    <3>2. PICK row : row = [job[f] EXCEPT !.state = "failed", !.holder = None]
      OBVIOUS
    <3>3. row \in Queue!JobRecord /\ row.data = job[f].data /\ row.state = "failed"
      BY <3>2 DEF Queue!JobRecord, Queue!JobState
    <3>4. job' = [job EXCEPT ![f] = row]
      BY <3>1, <3>2
    <3>5. job[f].data \in Known
      BY <1>6 DEF Queue!Stall
    <3> QED
      BY <3>3, <3>4, <3>5
  <2>3. QED
    BY <2>1, <2>2
<1>7. ASSUME Queue!Evict(f) PROVE JobsOK'
  BY <1>7, NoJobType DEF Queue!Evict
<1>8. QED
  BY <1>1, <1>2, <1>3, <1>4, <1>5, <1>6, <1>7

-----------------------------------------------------------------------------
(* Rows *)

LEMMA NoRowType ==
    NoRow \in Document /\ NoRow.status = "ABSENT" /\ NoRow.dupOf = NoDoc /\ NoRow.inv = None
BY DEF NoRow, Document

LEMMA NewRowType ==
    ASSUME NEW f \in File
    PROVE  /\ NewRow(f) \in Document
           /\ NewRow(f).status = "QUEUED"
           /\ NewRow(f).file = f
           /\ NewRow(f).dupOf = NoDoc
BY NoRowType DEF NewRow, NoRow, Document, Open

LEMMA WithoutRowType ==
    ASSUME DocsOK, NEW x, doc' = WithoutRow(x), created' = created
    PROVE  DocsOK'
<1> SUFFICES ASSUME NEW d \in DocId PROVE doc'[d] \in Document /\ RowOK(d)'
  BY DEF DocsOK, WithoutRow
<1> DEFINE cut == [doc[d] EXCEPT !.dupOf = NoDoc]
<1>1. doc[d] \in Document /\ RowOK(d)
  BY DEF DocsOK
<1>2. cut \in Document /\ cut.status = doc[d].status /\ cut.file = doc[d].file
      /\ cut.dupOf = NoDoc
  BY <1>1 DEF Document
<1>3. doc'[d] \in {doc[d], cut, NoRow}
  BY DEF WithoutRow
<1>4. Known' = Known
  BY DEF Known
<1>5. QED
  BY <1>1, <1>2, <1>3, <1>4, NoRowType DEF RowOK

LEMMA WithStatusType ==
    ASSUME DocsOK, NEW x, NEW s \in Open \cup Settled,
           doc' = WithStatus(x, s), created' = created
    PROVE  DocsOK'
<1> SUFFICES ASSUME NEW d \in DocId PROVE doc'[d] \in Document /\ RowOK(d)'
  BY DEF DocsOK, WithStatus
<1> DEFINE new == [doc[d] EXCEPT !.status = s]
<1>1. doc[d] \in Document /\ RowOK(d)
  BY DEF DocsOK
<1>2. new \in Document /\ new.file = doc[d].file /\ new.dupOf = doc[d].dupOf
  BY <1>1 DEF Document
<1>3. doc'[d] = IF d = x /\ Live(d) THEN new ELSE doc[d]
  BY DEF WithStatus
<1>4. Known' = Known
  BY DEF Known
<1>5. QED
  BY <1>1, <1>2, <1>3, <1>4 DEF RowOK, Live

-----------------------------------------------------------------------------
(* Requests *)

\* A step of r that does not join the uploads keeps an id for each of them.
LEMMA UploadingShrinks ==
    ASSUME NEW r \in Request,
           \A q \in Request \ {r} : req'[q] = req[q],
           req'[r].pc \in UploadPc => req[r].pc \in UploadPc
    PROVE  /\ Cardinality(Uploading) \in Nat
           /\ Cardinality(Uploading') \in Nat
           /\ Cardinality(Uploading') <= Cardinality(Uploading)
           /\ req[r].pc \in UploadPc /\ req'[r].pc \notin UploadPc
                => Cardinality(Uploading') = Cardinality(Uploading) - 1
<1> USE DEF UploadPc
<1>1. IsFiniteSet(Uploading)
  BY ConstantsAssumption, FS_Subset DEF Uploading
<1>2. Uploading' \subseteq Uploading
  BY DEF Uploading
<1>3. IsFiniteSet(Uploading') /\ Cardinality(Uploading') <= Cardinality(Uploading)
  BY <1>1, <1>2, FS_Subset
<1>4. ASSUME req[r].pc \in UploadPc, req'[r].pc \notin UploadPc
      PROVE  Cardinality(Uploading') = Cardinality(Uploading) - 1
  <2>1. Uploading' = Uploading \ {r} /\ r \in Uploading
    BY <1>4 DEF Uploading
  <2>2. QED
    BY <1>1, <2>1, FS_RemoveElement
<1>5. QED
  BY <1>1, <1>3, <1>4, FS_CardinalityType

LEMMA UploadingGrows ==
    ASSUME NEW r \in Request,
           \A q \in Request \ {r} : req'[q] = req[q],
           req[r].pc \notin UploadPc,
           req'[r].pc \in UploadPc
    PROVE  /\ Cardinality(Uploading) \in Nat
           /\ Cardinality(Uploading') = Cardinality(Uploading) + 1
<1> USE DEF UploadPc
<1>1. IsFiniteSet(Uploading)
  BY ConstantsAssumption, FS_Subset DEF Uploading
<1>2. Uploading' = Uploading \cup {r} /\ r \notin Uploading
  BY DEF Uploading
<1>3. QED
  BY <1>1, <1>2, FS_AddElement, FS_CardinalityType

\* What a request leaves in req when it moves on, returns or begins.
LEMMA GotoEffect ==
    ASSUME RequestsOK, NEW r \in Request, NEW pc \in RequestPc, Goto(r, pc)
    PROVE  /\ req' \in [Request -> RequestState]
           /\ req'[r].pc = pc
           /\ req'[r].file = req[r].file
           /\ req'[r].doc = req[r].doc
           /\ req'[r].orig = req[r].orig
           /\ \A q \in Request \ {r} : req'[q] = req[q]
BY DEF RequestsOK, Goto, RequestState

LEMMA BeginEffect ==
    ASSUME RequestsOK, NEW r \in Request,
           NEW pc \in RequestPc, NEW f \in File \cup {None},
           NEW d \in DocId \cup {NoDoc}, NEW o \in DocId \cup {NoDoc}, NEW s \in BOOLEAN,
           Begin(r, Call(pc, f, d, o, s))
    PROVE  /\ req' \in [Request -> RequestState]
           /\ req'[r].pc = pc
           /\ req'[r].file = f
           /\ req'[r].doc = d
           /\ req'[r].orig = o
           /\ \A q \in Request \ {r} : req'[q] = req[q]
<1>1. Call(pc, f, d, o, s) \in RequestState
  BY DEF Call, RequestState
<1>2. QED
  BY <1>1 DEF RequestsOK, Begin, Call

LEMMA ReturnEffect ==
    ASSUME RequestsOK, NEW r \in Request, Return(r)
    PROVE  /\ req' \in [Request -> RequestState]
           /\ req'[r].pc = "idle"
           /\ \A q \in Request \ {r} : req'[q] = req[q]
BY BeginEffect DEF Return, IdleRequest, RequestPc

\* A step of r outside the queue keeps TypeInv when it leaves the rows, the
\* objects and its own state well formed and does not join the uploads.
LEMMA RequestFrame ==
    ASSUME TypeInv, NEW r \in Request,
           created' = created, job' = job, wk' = wk,
           DocsOK', files' \subseteq files \cup {r},
           req' \in [Request -> RequestState],
           \A q \in Request \ {r} : req'[q] = req[q],
           RequestOK(r)',
           req'[r].pc \in UploadPc => req[r].pc \in UploadPc
    PROVE  TypeInv'
<1>1. Known' = Known
  BY DEF Known
<1>2. IdsOK'
  BY <1>1, UploadingShrinks, ConstantsAssumption DEF TypeInv, IdsOK
<1>3. JobsOK'
  BY <1>1 DEF TypeInv, JobsOK, JobOK, Queue!InFlight
<1>4. WorkersOK'
  BY <1>1 DEF TypeInv, WorkersOK, WorkerOK
<1>5. RequestsOK'
  BY <1>1 DEF TypeInv, RequestsOK, RequestOK
<1>6. QED
  BY <1>2, <1>3, <1>4, <1>5 DEF TypeInv

\* The same for a step that only moves r on within its handler, or ends it.
LEMMA RequestGoto ==
    ASSUME TypeInv, NEW r \in Request, NEW pc \in RequestPc,
           created' = created, job' = job, wk' = wk, DocsOK', files' \subseteq files \cup {r},
           Goto(r, pc),
           \/ pc \in UploadPc /\ req[r].pc \in UploadPc
           \/ pc \in OverwritePc /\ req[r].pc \in OverwritePc
           \/ pc = "rmFile" /\ req[r].pc = "rmDelete"
    PROVE  TypeInv'
<1>1. RequestsOK /\ RequestOK(r) /\ Known' = Known
  BY DEF TypeInv, RequestsOK, Known
<1>2. QED
  BY <1>1, GotoEffect, RequestFrame DEF RequestOK, UploadPc, OverwritePc

LEMMA RequestReturn ==
    ASSUME TypeInv, NEW r \in Request,
           created' = created, job' = job, wk' = wk, DocsOK', files' \subseteq files \cup {r},
           Return(r)
    PROVE  TypeInv'
<1>1. RequestsOK /\ Known' = Known
  BY DEF TypeInv, Known
<1>2. QED
  BY <1>1, ReturnEffect, RequestFrame DEF RequestOK, UploadPc, OverwritePc

LEMMA RequestTyping ==
    ASSUME TypeInv, NEW r \in Request, RequestNext(r)
    PROVE  TypeInv'
<1>0. /\ DocsOK /\ JobsOK /\ WorkersOK /\ RequestsOK /\ IdsOK /\ RequestOK(r)
      /\ req[r] \in RequestState /\ created \in 0 .. MaxDocs
  BY DEF TypeInv, RequestsOK, IdsOK
<1>0a. ASSUME doc' = doc, created' = created PROVE DocsOK'
  BY <1>0, <1>0a DEF DocsOK, RowOK, Known
<1>1. ASSUME NEW f \in File, UploadNew(r, f) PROVE TypeInv'
  <2>1. /\ req' \in [Request -> RequestState]
        /\ req'[r].pc = "limit"
        /\ req'[r].file = f
        /\ \A q \in Request \ {r} : req'[q] = req[q]
    BY <1>0, <1>1, BeginEffect DEF UploadNew, RequestPc
  <2>2. RequestsOK'
    BY <1>0, <1>1, <2>1 DEF UploadNew, RequestsOK, RequestOK, UploadPc, OverwritePc, Known
  <2>3. Cardinality(Uploading') = Cardinality(Uploading) + 1 /\ Cardinality(Uploading) \in Nat
    BY <1>1, <2>1, UploadingGrows DEF UploadNew, At, UploadPc
  <2>4. IdsOK'
    BY <1>0, <1>1, <2>3, ConstantsAssumption DEF UploadNew, RoomForUpload, IdsOK, Known
  <2>5. JobsOK' /\ WorkersOK'
    BY <1>0, <1>1
    DEF UploadNew, JobsOK, JobOK, Queue!InFlight, WorkersOK, WorkerOK, Known
  <2>6. QED
    BY <1>0a, <1>1, <2>2, <2>4, <2>5 DEF UploadNew, TypeInv
<1>2. ASSUME NEW d \in DocId, UploadKnown(r, d) PROVE TypeInv'
  <2>1. doc[d].file \in File /\ d \in Known
    BY <1>0, <1>2 DEF UploadKnown, Live, DocsOK, RowOK
  <2>2. /\ Begin(r, Call("enqueue", doc[d].file, d, NoDoc, FALSE))
        /\ doc' = doc /\ created' = created /\ files' = files /\ job' = job /\ wk' = wk
    BY <1>2 DEF UploadKnown
  <2>3. /\ req' \in [Request -> RequestState]
        /\ req'[r].pc = "enqueue"
        /\ req'[r].file = doc[d].file
        /\ req'[r].doc = d
        /\ \A q \in Request \ {r} : req'[q] = req[q]
    <3>1. PICK f \in File, o \in DocId \cup {NoDoc}, s \in BOOLEAN :
            f = doc[d].file /\ Begin(r, Call("enqueue", f, d, o, s))
      BY <2>1, <2>2
    <3>2. "enqueue" \in RequestPc /\ d \in DocId \cup {NoDoc} /\ f \in File \cup {None}
      BY DEF RequestPc
    <3>3. /\ req' \in [Request -> RequestState]
          /\ req'[r].pc = "enqueue"
          /\ req'[r].file = f
          /\ req'[r].doc = d
          /\ \A q \in Request \ {r} : req'[q] = req[q]
      BY <1>0, <3>1, <3>2, BeginEffect, SMTT(60)
    <3>4. QED
      BY <3>1, <3>3
  <2>4. RequestOK(r)'
    BY <2>1, <2>2, <2>3 DEF RequestOK, UploadPc, OverwritePc, Known
  <2>5. QED
    BY <1>0a, <2>2, <2>3, <2>4, RequestFrame DEF UploadPc
<1>3. CASE AssertMonthlyDocumentLimit(r)
  <2>1. /\ Goto(r, "store") \/ Return(r)
        /\ req[r].pc = "limit"
        /\ doc' = doc /\ created' = created /\ files' = files /\ job' = job /\ wk' = wk
    BY <1>3 DEF AssertMonthlyDocumentLimit, At
  <2>2. QED
    BY <1>0a, <2>1, RequestGoto, RequestReturn DEF UploadPc, RequestPc
<1>4. CASE UploadStore(r)
  <2>1. /\ Goto(r, "create") \/ Return(r)
        /\ req[r].pc = "store" /\ files' \subseteq files \cup {r}
        /\ doc' = doc /\ created' = created /\ job' = job /\ wk' = wk
    BY <1>4 DEF UploadStore, At
  <2>2. QED
    BY <1>0a, <2>1, RequestGoto, RequestReturn DEF UploadPc, RequestPc
<1>5. CASE UploadCreate(r)
  <2>1. CASE HasFile(req[r].file)
    BY <1>0a, <1>5, <2>1, RequestReturn DEF UploadCreate
  <2>2. CASE ~HasFile(req[r].file)
    <3>1. /\ created' = created + 1
          /\ doc' = [doc EXCEPT ![created + 1] = NewRow(req[r].file)]
          /\ files' = {IF o = r THEN created + 1 ELSE o : o \in files}
          /\ req' = [req EXCEPT ![r].pc = "enqueue", ![r].doc = created + 1]
          /\ job' = job /\ wk' = wk
          /\ req[r].pc = "create"
      BY <1>5, <2>2 DEF UploadCreate, At
    <3>2. Cardinality(Uploading) \in Nat /\ Cardinality(Uploading) # 0
      BY <3>1, ConstantsAssumption, FS_Subset, FS_CardinalityType, FS_EmptySet DEF Uploading
    <3>3. created + 1 \in DocId /\ created + 1 \in Known' /\ Known \subseteq Known'
      BY <1>0, <3>1, <3>2, ConstantsAssumption DEF IdsOK, Known
    <3>4. req[r].file \in File
      BY <1>0, <3>1 DEF RequestOK, UploadPc
    <3>5. DocsOK'
      <4> SUFFICES ASSUME NEW d \in DocId PROVE doc'[d] \in Document /\ RowOK(d)'
        BY <1>0, <3>1 DEF DocsOK
      <4>1. CASE d = created + 1
        <5>1. doc'[d] = NewRow(req[r].file)
          BY <1>0, <3>1, <4>1 DEF DocsOK
        <5>2. QED
          BY <3>3, <3>4, <4>1, <5>1, NewRowType DEF RowOK
      <4>2. CASE d # created + 1
        <5>1. doc'[d] = doc[d] /\ doc[d] \in Document /\ RowOK(d)
          BY <1>0, <3>1, <4>2 DEF DocsOK
        <5>2. QED
          BY <3>3, <5>1 DEF RowOK
      <4>3. QED
        BY <4>1, <4>2
    <3>6. /\ req' \in [Request -> RequestState]
          /\ req'[r].pc = "enqueue"
          /\ req'[r].file = req[r].file
          /\ req'[r].doc = created + 1
          /\ \A q \in Request \ {r} : req'[q] = req[q]
      BY <1>0, <3>1, <3>3 DEF RequestsOK, RequestState, RequestPc
    <3>7. RequestsOK'
      BY <1>0, <3>3, <3>4, <3>6 DEF RequestsOK, RequestOK, UploadPc, OverwritePc
    <3>8. Cardinality(Uploading') = Cardinality(Uploading) - 1
      BY <3>1, <3>6, UploadingShrinks DEF UploadPc
    <3>9. IdsOK'
      BY <1>0, <3>1, <3>2, <3>3, <3>8, ConstantsAssumption DEF IdsOK, Known
    <3>10. JobsOK' /\ WorkersOK'
      BY <1>0, <3>1, <3>3 DEF JobsOK, JobOK, Queue!InFlight, WorkersOK, WorkerOK
    <3>11. QED
      BY <3>5, <3>7, <3>9, <3>10 DEF TypeInv
  <2>3. QED
    BY <2>1, <2>2
<1>6. CASE SafeEnqueue(r)
  <2>1. req[r].file \in File /\ req[r].doc \in Known
    BY <1>0, <1>6 DEF SafeEnqueue, At, RequestOK, UploadPc
  <2>2. JobsOK'
    <3>1. CASE Queue!Add(req[r].file, req[r].doc)
      BY <1>0, <1>6, <2>1, <3>1, QueueTyping DEF SafeEnqueue
    <3>2. CASE UNCHANGED job
      BY <1>0, <1>6, <3>2 DEF SafeEnqueue, JobsOK, JobOK, Queue!InFlight, Known
    <3>3. QED
      BY <1>6, <3>1, <3>2 DEF SafeEnqueue
  <2>3. /\ req' \in [Request -> RequestState]
        /\ req'[r].pc = "idle"
        /\ \A q \in Request \ {r} : req'[q] = req[q]
    BY <1>0, <1>6, ReturnEffect DEF SafeEnqueue
  <2>4. RequestsOK'
    BY <1>0, <1>6, <2>3
    DEF SafeEnqueue, RequestsOK, RequestOK, UploadPc, OverwritePc, Known
  <2>5. IdsOK'
    BY <1>0, <1>6, <2>3, UploadingShrinks, ConstantsAssumption
    DEF SafeEnqueue, IdsOK, Known, UploadPc
  <2>6. QED
    BY <1>0, <1>0a, <1>6, <2>2, <2>4, <2>5
    DEF SafeEnqueue, TypeInv, WorkersOK, WorkerOK, Known
<1>7. ASSUME NEW d \in DocId,
             Confirm(r, d) \/ OverwriteDuplicate(r, d) \/ Remove(r, d)
      PROVE  TypeInv'
  <2>1. d \in Known /\ doc[d].dupOf \in Known \cup {NoDoc} /\ doc[d].sure \in BOOLEAN
    BY <1>0, <1>7
    DEF Confirm, OverwriteDuplicate, Remove, Live, DocsOK, RowOK, Document
  <2>2. Known \subseteq DocId
    BY <1>0, ConstantsAssumption DEF Known
  <2>3. /\ doc' = doc /\ created' = created /\ files' = files /\ job' = job /\ wk' = wk
        /\ req[r].pc = "idle"
    BY <1>7 DEF Confirm, OverwriteDuplicate, Remove, At
  <2>4. PICK pc \in {"confirm", "owOriginal", "rmDelete"}, o \in DocId \cup {NoDoc},
             s \in BOOLEAN :
               /\ Begin(r, Call(pc, None, d, o, s))
               /\ pc = "owOriginal" => o \in Known
    BY <1>7, <2>1, <2>2 DEF Confirm, OverwriteDuplicate, Remove
  <2>5. /\ req' \in [Request -> RequestState]
        /\ req'[r].pc = pc
        /\ req'[r].doc = d
        /\ req'[r].orig = o
        /\ \A q \in Request \ {r} : req'[q] = req[q]
    <3>1. pc \in RequestPc /\ None \in File \cup {None} /\ d \in DocId \cup {NoDoc}
      BY DEF RequestPc
    <3>2. QED
      BY <1>0, <2>4, <3>1, BeginEffect
  <2>6. RequestOK(r)'
    BY <2>1, <2>3, <2>4, <2>5 DEF RequestOK, UploadPc, OverwritePc, Known
  <2>7. QED
    BY <1>0a, <2>3, <2>5, <2>6, RequestFrame DEF UploadPc
<1>8. CASE ConfirmWrite(r)
  <2>1. DocsOK'
    BY <1>0, <1>8, WithStatusType DEF ConfirmWrite, Settled
  <2>2. QED
    BY <1>0, <1>8, <2>1, RequestGoto, RequestReturn DEF ConfirmWrite, IdsOK
<1>9. CASE OverwriteFindOriginal(r)
  BY <1>0a, <1>9, RequestGoto, RequestReturn DEF OverwriteFindOriginal, At, OverwritePc, RequestPc
<1>10. CASE OverwriteDelete(r) \/ RemoveDelete(r)
  <2>1. /\ created' = created /\ files' = files /\ job' = job /\ wk' = wk
        /\ doc' = doc \/ \E x : doc' = WithoutRow(x)
        /\ \/ Return(r)
           \/ Goto(r, "owFile") /\ req[r].pc = "owDelete"
           \/ Goto(r, "rmFile") /\ req[r].pc = "rmDelete"
    BY <1>10 DEF OverwriteDelete, RemoveDelete, At
  <2>2. DocsOK'
    BY <1>0, <1>0a, <2>1, WithoutRowType
  <2>3. QED
    BY <2>1, <2>2, RequestGoto, RequestReturn DEF OverwritePc, RequestPc
<1>11. CASE OverwriteDeleteFile(r)
  BY <1>0a, <1>11, RequestGoto, RequestReturn DEF OverwriteDeleteFile, At, OverwritePc, RequestPc
<1>12. CASE OverwritePromote(r)
  <2>1. DocsOK'
    <3> SUFFICES ASSUME NEW d \in DocId PROVE doc'[d] \in Document /\ RowOK(d)'
      BY <1>12 DEF OverwritePromote, DocsOK
    <3> DEFINE s == StatusFor(req[r].sure)
               new == [doc[d] EXCEPT !.status = s, !.dupOf = NoDoc]
    <3>1. doc[d] \in Document /\ RowOK(d) /\ Known' = Known
      BY <1>0, <1>12 DEF DocsOK, OverwritePromote, Known
    <3>2. s \in Settled
      BY DEF StatusFor, Settled, Ready
    <3>3. new \in Document /\ new.file = doc[d].file /\ new.dupOf = NoDoc
      BY <3>1, <3>2 DEF Document
    <3>4. doc'[d] = IF d = req[r].doc /\ Live(d) THEN new ELSE doc[d]
      BY <1>12 DEF OverwritePromote
    <3>5. QED
      BY <3>1, <3>3, <3>4 DEF RowOK, Live
  <2>2. QED
    BY <1>12, <2>1, RequestGoto, RequestReturn DEF OverwritePromote
<1>13. CASE RemoveFile(r)
  BY <1>0a, <1>13, RequestGoto, RequestReturn DEF RemoveFile
<1>14. CASE RequestLost(r)
  BY <1>0a, <1>14, RequestGoto, RequestReturn DEF RequestLost
<1>15. QED
  BY <1>1, <1>2, <1>3, <1>4, <1>5, <1>6, <1>7, <1>8, <1>9, <1>10, <1>11, <1>12, <1>13, <1>14
  DEF RequestNext

-----------------------------------------------------------------------------
(* Workers and the queue *)

\* A nonempty set of ids has a least one, the one Min chooses.
LEMMA MinOfIds ==
    ASSUME NEW S \in SUBSET Nat, S # {}
    PROVE  Min(S) \in S
<1>1. PICK x \in S : \A y \in S : ~(<<y, x>> \in OpToRel(<, Nat))
  BY NatLessThanWellFounded, WFMin
<1>2. \A y \in S : ~(y < x)
  BY <1>1, Zenon DEF OpToRel
<1>3. \A y \in S : x <= y
  BY <1>2
<1>4. QED
  BY <1>3 DEF Min

LEMMA StepEffect ==
    ASSUME WorkersOK, NEW w \in Worker, NEW pc \in WorkerPc \ {"idle"}, Step(w, pc),
           wk[w].pc # "idle", created' = created
    PROVE  WorkersOK'
<1>1. WorkerOK(w) /\ Known' = Known
  BY DEF WorkersOK, Known
<1>2. wk' \in [Worker -> WorkerState] /\ wk'[w].file = wk[w].file
      /\ wk'[w].doc = wk[w].doc /\ wk'[w].dup = wk[w].dup
      /\ \A v \in Worker \ {w} : wk'[v] = wk[v]
  BY DEF WorkersOK, Step, WorkerState
<1>3. QED
  BY <1>1, <1>2 DEF WorkersOK, WorkerOK

LEMMA IdleWorkerType == IdleWorker \in WorkerState /\ IdleWorker.pc = "idle"
                        /\ IdleWorker.dup = NoDoc
BY DEF IdleWorker, Run, WorkerState, WorkerPc

LEMMA IdleEffect ==
    ASSUME WorkersOK, NEW w \in Worker, wk' = [wk EXCEPT ![w] = IdleWorker],
           created' = created
    PROVE  WorkersOK'
BY IdleWorkerType DEF WorkersOK, WorkerOK, Known

\* A step outside the requests keeps TypeInv when it leaves the rows, the jobs
\* and the workers well formed.
LEMMA WorkerFrame ==
    ASSUME TypeInv, created' = created, files' = files, req' = req,
           DocsOK', JobsOK', WorkersOK'
    PROVE  TypeInv'
BY DEF TypeInv, IdsOK, RequestsOK, RequestOK, Known, Uploading

LEMMA WorkerTyping ==
    ASSUME TypeInv, NEW w \in Worker, WorkerNext(w)
    PROVE  TypeInv'
<1>0. /\ DocsOK /\ JobsOK /\ WorkersOK /\ WorkerOK(w) /\ created \in 0 .. MaxDocs
      /\ wk[w] \in WorkerState
  BY DEF TypeInv, WorkersOK, IdsOK
<1>0a. ASSUME created' = created
       PROVE  /\ doc' = doc => DocsOK'
              /\ job' = job => JobsOK'
  BY <1>0, <1>0a DEF DocsOK, RowOK, JobsOK, JobOK, Queue!InFlight, Known
<1>1. ASSUME NEW f \in File, Process(w, f) PROVE TypeInv'
  <2>1. /\ doc' = doc /\ created' = created /\ files' = files /\ req' = req
        /\ Queue!Take(w, f)
    BY <1>1 DEF Process
  <2>2. PICK pc \in WorkerPc \ {"idle"} : wk' = [wk EXCEPT ![w] = Run(pc, f, job[f].data)]
    BY <1>1 DEF Process, WorkerPc
  <2>3. job[f].data \in Known
    BY <1>0, <2>1 DEF JobsOK, JobOK, Queue!Take
  <2>4. Run(pc, f, job[f].data) \in WorkerState
    BY <1>0, <2>3, ConstantsAssumption DEF Run, WorkerState, Known
  <2>5. WorkersOK'
    BY <1>0, <2>1, <2>2, <2>3, <2>4 DEF WorkersOK, WorkerOK, Run, Known
  <2>6. JobsOK'
    BY <1>0, <2>1, QueueTyping
  <2>7. QED
    BY <1>0a, <2>1, <2>5, <2>6, WorkerFrame
<1>2. CASE SetOcrRunning(w)
  BY <1>0, <1>0a, <1>2, WithStatusType, StepEffect, WorkerFrame
  DEF SetOcrRunning, Does, WorkerPc, Open
<1>3. CASE SetExtracting(w)
  BY <1>0, <1>0a, <1>3, WithStatusType, StepEffect, WorkerFrame
  DEF SetExtracting, Does, WorkerPc, Open
<1>4. CASE MarkNotInvoice(w)
  BY <1>0, <1>0a, <1>4, WithStatusType, StepEffect, WorkerFrame
  DEF MarkNotInvoice, Does, WorkerPc, Settled
<1>5. CASE PersistInvoice(w)
  <2>1. PICK k \in InvoiceKey \cup {NoKey}, s \in BOOLEAN :
          /\ doc' = [doc EXCEPT ![wk[w].doc].inv = k, ![wk[w].doc].sure = s]
          /\ wk' = [wk EXCEPT ![w].pc = "persisted", ![w].key = k, ![w].sure = s]
    BY <1>5 DEF PersistInvoice
  <2>2. /\ created' = created /\ files' = files /\ job' = job /\ req' = req
        /\ wk[w].pc = "extracting"
    BY <1>5 DEF PersistInvoice, Does
  <2>3. DocsOK'
    <3> SUFFICES ASSUME NEW d \in DocId PROVE doc'[d] \in Document /\ RowOK(d)'
      BY <1>0, <2>1 DEF DocsOK
    <3> DEFINE new == [doc[d] EXCEPT !.inv = k, !.sure = s]
    <3>1. doc[d] \in Document /\ RowOK(d) /\ Known' = Known
      BY <1>0, <2>2 DEF DocsOK, Known
    <3>2. /\ new \in Document /\ new.status = doc[d].status
          /\ new.file = doc[d].file /\ new.dupOf = doc[d].dupOf
      BY <3>1 DEF Document
    <3>3. doc'[d] = doc[d] \/ doc'[d] = new
      BY <1>0, <2>1 DEF DocsOK
    <3>4. QED
      BY <3>1, <3>2, <3>3 DEF RowOK
  <2>4. WorkersOK'
    BY <1>0, <2>1, <2>2 DEF WorkersOK, WorkerOK, WorkerState, WorkerPc, Known
  <2>5. QED
    BY <1>0a, <2>2, <2>3, <2>4, WorkerFrame
<1>6. CASE FindDuplicateOriginal(w)
  <2>1. \A S \in SUBSET LiveDocs : S # {} => Min(S) \in Known
    <3> SUFFICES ASSUME NEW S \in SUBSET LiveDocs, S # {} PROVE Min(S) \in Known
      OBVIOUS
    <3>1. LiveDocs \subseteq Known
      BY <1>0 DEF LiveDocs, DocsOK, RowOK
    <3>2. S \in SUBSET Nat
      BY <3>1, ConstantsAssumption DEF Known
    <3>3. QED
      BY <3>1, <3>2, MinOfIds
  <2>2. PICK x \in Known \cup {NoDoc} :
          wk' = [wk EXCEPT ![w].pc = "finalize", ![w].dup = x]
    BY <1>6, <2>1 DEF FindDuplicateOriginal, Originals
  <2>3. /\ doc' = doc /\ created' = created /\ files' = files /\ job' = job /\ req' = req
        /\ wk[w].pc = "persisted"
    BY <1>6 DEF FindDuplicateOriginal, Does
  <2>4. WorkersOK'
    <3>1. /\ wk'[w] = [wk[w] EXCEPT !.pc = "finalize", !.dup = x]
          /\ \A v \in Worker \ {w} : wk'[v] = wk[v]
          /\ DOMAIN wk' = Worker /\ Known' = Known
      BY <1>0, <2>2, <2>3 DEF WorkersOK, Known
    <3>2. x \in DocId \cup {NoDoc}
      BY <1>0, ConstantsAssumption DEF Known
    <3>3. /\ wk'[w] \in WorkerState /\ wk'[w].file = wk[w].file
          /\ wk'[w].doc = wk[w].doc /\ wk'[w].dup = x
      BY <1>0, <3>1, <3>2 DEF WorkerState, WorkerPc
    <3>4. WorkerOK(w)'
      BY <1>0, <2>3, <3>1, <3>3 DEF WorkerOK
    <3>5. QED
      BY <1>0, <2>2, <3>1, <3>3, <3>4 DEF WorkersOK, WorkerOK
  <2>5. QED
    BY <1>0a, <2>3, <2>4, WorkerFrame
<1>7. CASE FinalizeInvoiceDocument(w)
  <2>1. /\ created' = created /\ files' = files /\ job' = job /\ req' = req
        /\ wk[w].pc = "finalize" /\ Step(w, "ack")
    BY <1>7 DEF FinalizeInvoiceDocument, Does
  <2>2. DocsOK'
    <3>1. CASE Live(wk[w].doc)
      <4> DEFINE s == IF wk[w].dup # NoDoc THEN "DUPLICATE" ELSE StatusFor(wk[w].sure)
      <4>1. s \in Settled
        BY DEF StatusFor, Settled, Ready
      <4>2. doc' = [doc EXCEPT ![wk[w].doc].status = s, ![wk[w].doc].dupOf = wk[w].dup]
        BY <1>7, <3>1 DEF FinalizeInvoiceDocument
      <4> HIDE DEF s
      <4>3. QED
        BY <1>0, <2>1, <3>1, <4>1, <4>2 DEF DocsOK, RowOK, Document, WorkerOK, Live, Known
    <3>2. CASE ~Live(wk[w].doc)
      BY <1>0a, <1>7, <2>1, <3>2 DEF FinalizeInvoiceDocument
    <3>3. QED
      BY <3>1, <3>2
  <2>3. QED
    BY <1>0, <1>0a, <2>1, <2>2, StepEffect, WorkerFrame DEF WorkerPc
<1>8. CASE WorkerError(w)
  BY <1>0, <1>0a, <1>8, StepEffect, WorkerFrame DEF WorkerError, Trying, WorkerPc
<1>9. CASE SetFailed(w)
  BY <1>0, <1>0a, <1>9, WithStatusType, StepEffect, WorkerFrame
  DEF SetFailed, Does, WorkerPc, Open
<1>10. CASE Finish(w)
  <2>1. wk[w].file \in File
    BY <1>0, <1>10 DEF Finish, Does, WorkerOK
  <2>2. JobsOK'
    BY <1>0, <1>10, <2>1, QueueTyping DEF Finish
  <2>3. QED
    BY <1>0, <1>0a, <1>10, <2>2, IdleEffect, WorkerFrame DEF Finish
<1>11. CASE WorkerCrash(w)
  BY <1>0, <1>0a, <1>11, IdleEffect, WorkerFrame DEF WorkerCrash
<1>12. QED
  BY <1>1, <1>2, <1>3, <1>4, <1>5, <1>6, <1>7, <1>8, <1>9, <1>10, <1>11
  DEF WorkerNext, WorkerStep

LEMMA QueueNextTyping ==
    ASSUME TypeInv, NEW f \in File, QueueNext(f)
    PROVE  TypeInv'
<1>1. /\ doc' = doc /\ created' = created /\ files' = files /\ wk' = wk /\ req' = req
      /\ Queue!Promote(f) \/ Queue!Stall(f) \/ Queue!Evict(f)
  BY DEF QueueNext, RetryDelayed, JobStalled, EvictCompleted
<1>2. JobsOK' /\ DocsOK' /\ WorkersOK'
  BY <1>1, QueueTyping
  DEF TypeInv, IdsOK, DocsOK, RowOK, WorkersOK, WorkerOK, Known
<1>3. QED
  BY <1>1, <1>2, WorkerFrame

-----------------------------------------------------------------------------
(* Type correctness *)

LEMMA TypeInvInit == Init => TypeInv
<1> SUFFICES ASSUME Init PROVE TypeInv
  OBVIOUS
<1>1. DocsOK
  BY NoRowType DEF Init, DocsOK, RowOK, Known
<1>2. JobsOK
  BY NoJobType DEF Init, JobsOK, JobOK, Queue!QueueInit, Queue!InFlight
<1>3. WorkersOK
  BY IdleWorkerType DEF Init, WorkersOK, WorkerOK
<1>4. IdleRequest \in RequestState /\ IdleRequest.pc = "idle"
  BY DEF IdleRequest, Call, RequestState, RequestPc
<1>5. RequestsOK
  BY <1>4 DEF Init, RequestsOK, RequestOK, UploadPc, OverwritePc
<1>6. Uploading = {}
  BY <1>4 DEF Init, Uploading
<1>7. IdsOK
  BY <1>6, ConstantsAssumption, FS_EmptySet DEF Init, IdsOK
<1>8. QED
  BY <1>1, <1>2, <1>3, <1>5, <1>7 DEF TypeInv

LEMMA TypeInvStep == TypeInv /\ [Next]_vars => TypeInv'
<1> SUFFICES ASSUME TypeInv, [Next]_vars PROVE TypeInv'
  OBVIOUS
<1>1. CASE Next
  BY <1>1, RequestTyping, WorkerTyping, QueueNextTyping DEF Next
<1>2. CASE UNCHANGED vars
  BY <1>2 DEF vars, TypeInv, DocsOK, RowOK, JobsOK, JobOK, Queue!InFlight, WorkersOK, WorkerOK,
              RequestsOK, RequestOK, IdsOK, Known, Uploading
<1>3. QED
  BY <1>1, <1>2

\* Every variable keeps its type: the invariant the runs check as TypeOK, here
\* for any number of files, workers, requests and attempts.
THEOREM TypeCorrect == Spec => []TypeOK
<1>1. TypeInv => TypeOK
  BY ConstantsAssumption
  DEF TypeInv, TypeOK, DocsOK, JobsOK, WorkersOK, RequestsOK, IdsOK, Known
<1>2. QED
  BY <1>1, TypeInvInit, TypeInvStep, PTL DEF Spec

-----------------------------------------------------------------------------
(* What a step does to a row *)

\* The ways in which a step changes the rows.
LEMMA DocChange ==
    ASSUME [Next]_vars
    PROVE  \/ doc' = doc
           \/ \E x, t : t \notin Invoiced /\ doc' = WithStatus(x, t)
           \/ \E x : doc' = WithoutRow(x)
           \/ \E r \in Request : UploadCreate(r) /\ doc' # doc
           \/ \E r \in Request : ConfirmWrite(r)
           \/ \E r \in Request : OverwritePromote(r)
           \/ \E w \in Worker : PersistInvoice(w)
           \/ \E w \in Worker : FinalizeInvoiceDocument(w)
<1>1. ASSUME NEW r \in Request, RequestNext(r)
      PROVE  \/ doc' = doc
             \/ \E x : doc' = WithoutRow(x)
             \/ UploadCreate(r)
             \/ ConfirmWrite(r)
             \/ OverwritePromote(r)
  BY <1>1 DEF RequestNext, UploadNew, UploadKnown, AssertMonthlyDocumentLimit, UploadStore,
     SafeEnqueue, Confirm, OverwriteDuplicate, OverwriteFindOriginal,
     OverwriteDelete, OverwriteDeleteFile, Remove, RemoveDelete, RemoveFile, RequestLost
<1>2. ASSUME NEW w \in Worker, WorkerNext(w)
      PROVE  \/ doc' = doc
             \/ \E x, t : t \notin Invoiced /\ doc' = WithStatus(x, t)
             \/ PersistInvoice(w)
             \/ FinalizeInvoiceDocument(w)
  <2>1. {"OCR_RUNNING", "EXTRACTING", "NOT_INVOICE", "FAILED"} \cap Invoiced = {}
    BY DEF Invoiced, Ready
  <2>2. QED
    BY <1>2, <2>1 DEF WorkerNext, WorkerStep, Process, SetOcrRunning, SetExtracting,
       MarkNotInvoice, FindDuplicateOriginal, WorkerError, SetFailed, Finish, WorkerCrash
<1>3. ASSUME NEW f \in File, QueueNext(f)
      PROVE  doc' = doc
  BY <1>3 DEF QueueNext, RetryDelayed, JobStalled, EvictCompleted
<1>4. QED
  BY <1>1, <1>2, <1>3 DEF Next, vars

\* A created document that is deleted stays deleted, and a document that has an
\* invoice keeps one for as long as it exists.
LEMMA RowStep ==
    ASSUME TypeInv, [Next]_vars, NEW d \in Known, Live(d)'
    PROVE  Live(d) /\ (doc[d].inv # None => doc'[d].inv # None)
<1>1. /\ d \in DocId /\ doc \in [DocId -> Document] /\ doc[d] \in Document
      /\ created \in 0 .. MaxDocs
  BY ConstantsAssumption DEF TypeInv, DocsOK, IdsOK, Known
<1>2. CASE doc' = doc
  BY <1>1, <1>2 DEF Live
<1>3. ASSUME NEW x, NEW t, doc' = WithStatus(x, t)
      PROVE  Live(d) /\ doc'[d].inv = doc[d].inv
  <2>1. doc'[d] = IF d = x /\ Live(d) THEN [doc[d] EXCEPT !.status = t] ELSE doc[d]
    BY <1>1, <1>3 DEF WithStatus
  <2>2. QED
    BY <1>1, <2>1 DEF Live, Document
<1>4. ASSUME NEW x, doc' = WithoutRow(x)
      PROVE  Live(d) /\ doc'[d].inv = doc[d].inv
  <2>1. doc'[d] \in {doc[d], [doc[d] EXCEPT !.dupOf = NoDoc], NoRow}
    BY <1>1, <1>4 DEF WithoutRow
  <2>2. QED
    BY <1>1, <2>1, NoRowType DEF Live, Document
<1>5. ASSUME NEW r \in Request, UploadCreate(r), doc' # doc
      PROVE  Live(d) /\ doc'[d] = doc[d]
  <2>1. doc' = [doc EXCEPT ![created + 1] = NewRow(req[r].file)]
    BY <1>5 DEF UploadCreate
  <2>2. d # created + 1
    BY <1>1 DEF Known
  <2>3. QED
    BY <1>1, <2>1, <2>2 DEF Live
<1>6. ASSUME NEW r \in Request, OverwritePromote(r)
      PROVE  Live(d) /\ doc'[d].inv = doc[d].inv
  <2>1. PICK s : doc'[d] = IF d = req[r].doc /\ Live(d)
                           THEN [doc[d] EXCEPT !.status = s, !.dupOf = NoDoc] ELSE doc[d]
    BY <1>1, <1>6 DEF OverwritePromote
  <2>2. QED
    BY <1>1, <2>1 DEF Live, Document
<1>7. ASSUME NEW w \in Worker, PersistInvoice(w)
      PROVE  Live(d) /\ (doc'[d] = doc[d] \/ doc'[d].inv # None)
  <2>1. PICK k \in InvoiceKey \cup {NoKey}, s \in BOOLEAN :
          doc' = [doc EXCEPT ![wk[w].doc].inv = k, ![wk[w].doc].sure = s]
    BY <1>7 DEF PersistInvoice
  <2>2. k # None
    BY ConstantsAssumption
  <2> DEFINE new == [doc[d] EXCEPT !.inv = k, !.sure = s]
  <2>3. doc'[d] = doc[d] \/ doc'[d] = new
    BY <1>1, <2>1
  <2>4. new.status = doc[d].status /\ new.inv = k
    BY <1>1 DEF Document
  <2> HIDE DEF new
  <2>5. QED
    BY <1>1, <2>2, <2>3, <2>4 DEF Live
<1>8. ASSUME NEW w \in Worker, FinalizeInvoiceDocument(w)
      PROVE  Live(d) /\ doc'[d].inv = doc[d].inv
  <2>1. CASE ~Live(wk[w].doc)
    BY <1>1, <1>8, <2>1 DEF FinalizeInvoiceDocument, Live
  <2>2. CASE Live(wk[w].doc)
    <3>1. PICK s, o : doc' = [doc EXCEPT ![wk[w].doc].status = s, ![wk[w].doc].dupOf = o]
      BY <1>8, <2>2 DEF FinalizeInvoiceDocument
    <3>2. CASE d = wk[w].doc
      <4>1. doc'[d] = [doc[d] EXCEPT !.status = s, !.dupOf = o]
        BY <1>1, <3>1, <3>2
      <4>2. QED
        BY <1>1, <2>2, <3>2, <4>1 DEF Document
    <3>3. CASE d # wk[w].doc
      BY <1>1, <3>1, <3>3 DEF Live
    <3>4. QED
      BY <3>2, <3>3
  <2>3. QED
    BY <2>1, <2>2
<1>9. ASSUME NEW r \in Request, ConfirmWrite(r)
      PROVE  Live(d) /\ doc'[d].inv = doc[d].inv
  BY <1>3, <1>9 DEF ConfirmWrite
<1>10. QED
  BY <1>2, <1>3, <1>4, <1>5, <1>6, <1>7, <1>8, <1>9, DocChange

-----------------------------------------------------------------------------
(* Every processed document has its invoice *)

ConfirmPc == {"confirm"} \cup OverwritePc

\* Something relies on the invoice of d: its status, a worker that has stored
\* it and is about to finalize, or a request that is about to confirm d or to
\* resolve the duplicate d.
Promised(d) ==
    \/ doc[d].status \in Invoiced
    \/ \E w \in Worker : wk[w].pc \in {"persisted", "finalize"} /\ wk[w].doc = d
    \/ \E r \in Request : req[r].pc \in ConfirmPc /\ req[r].doc = d

InvoiceInv == \A d \in LiveDocs : Promised(d) => doc[d].inv # None

\* A status that promises an invoice is written only on the strength of an
\* earlier promise.
LEMMA StatusStep ==
    ASSUME TypeInv, [Next]_vars, NEW d \in Known, doc'[d].status \in Invoiced
    PROVE  Promised(d)
<1>1. d \in DocId /\ doc \in [DocId -> Document] /\ doc[d] \in Document
      /\ created \in 0 .. MaxDocs
  BY ConstantsAssumption DEF TypeInv, DocsOK, IdsOK, Known
<1>0. "ABSENT" \notin Invoiced /\ "QUEUED" \notin Invoiced
  BY DEF Invoiced, Ready
<1>2. CASE doc' = doc
  BY <1>2 DEF Promised
<1>3. ASSUME NEW x, NEW t, t \notin Invoiced, doc' = WithStatus(x, t)
      PROVE  Promised(d)
  <2>1. doc'[d] = IF d = x /\ Live(d) THEN [doc[d] EXCEPT !.status = t] ELSE doc[d]
    BY <1>1, <1>3 DEF WithStatus
  <2>2. QED
    BY <1>1, <1>3, <2>1 DEF Promised, Document
<1>4. ASSUME NEW x, doc' = WithoutRow(x)
      PROVE  Promised(d)
  <2>1. doc'[d] \in {doc[d], [doc[d] EXCEPT !.dupOf = NoDoc], NoRow}
    BY <1>1, <1>4 DEF WithoutRow
  <2>2. QED
    BY <1>1, <1>0, <2>1, NoRowType DEF Promised, Document
<1>5. ASSUME NEW r \in Request, UploadCreate(r), doc' # doc
      PROVE  Promised(d)
  <2>1. doc' = [doc EXCEPT ![created + 1] = NewRow(req[r].file)]
    BY <1>5 DEF UploadCreate
  <2>2. d # created + 1
    BY <1>1 DEF Known
  <2>3. QED
    BY <1>1, <2>1, <2>2 DEF Promised
<1>6. ASSUME NEW r \in Request, ConfirmWrite(r) \/ OverwritePromote(r)
      PROVE  Promised(d)
  <2>1. req[r].pc \in ConfirmPc
    BY <1>6 DEF ConfirmWrite, OverwritePromote, At, ConfirmPc, OverwritePc
  <2>2. d # req[r].doc => doc'[d] = doc[d]
    BY <1>1, <1>6 DEF ConfirmWrite, OverwritePromote, WithStatus
  <2>3. QED
    BY <2>1, <2>2 DEF Promised
<1>7. ASSUME NEW w \in Worker, PersistInvoice(w)
      PROVE  Promised(d)
  <2>1. PICK k \in InvoiceKey \cup {NoKey}, s \in BOOLEAN :
          doc' = [doc EXCEPT ![wk[w].doc].inv = k, ![wk[w].doc].sure = s]
    BY <1>7 DEF PersistInvoice
  <2> DEFINE new == [doc[d] EXCEPT !.inv = k, !.sure = s]
  <2>2. doc'[d] = doc[d] \/ doc'[d] = new
    BY <1>1, <2>1
  <2>3. new.status = doc[d].status
    BY <1>1 DEF Document
  <2> HIDE DEF new
  <2>4. QED
    BY <2>2, <2>3 DEF Promised
<1>8. ASSUME NEW w \in Worker, FinalizeInvoiceDocument(w)
      PROVE  Promised(d)
  <2>1. wk[w].pc = "finalize"
    BY <1>8 DEF FinalizeInvoiceDocument, Does
  <2>2. d # wk[w].doc => doc'[d] = doc[d]
    BY <1>1, <1>8 DEF FinalizeInvoiceDocument
  <2>3. QED
    BY <2>1, <2>2 DEF Promised
<1>9. QED
  BY <1>2, <1>3, <1>4, <1>5, <1>6, <1>7, <1>8, DocChange

\* A worker is about to finalize d only after it has stored the invoice of d.
LEMMA WorkerPromiseStep ==
    ASSUME TypeInv, [Next]_vars, NEW d \in Known, NEW v \in Worker,
           wk'[v].pc \in {"persisted", "finalize"}, wk'[v].doc = d
    PROVE  Promised(d) \/ doc'[d].inv # None
<1>1. WorkersOK /\ wk \in [Worker -> WorkerState]
  BY DEF TypeInv, WorkersOK
<1>2. CASE wk'[v] = wk[v]
  BY <1>2 DEF Promised
<1>3. CASE wk'[v] # wk[v]
  <2>1. PICK w \in Worker : WorkerNext(w)
    BY <1>3 DEF Next, vars, RequestNext, UploadNew, UploadKnown, AssertMonthlyDocumentLimit,
       UploadStore, UploadCreate, SafeEnqueue, Confirm, ConfirmWrite, OverwriteDuplicate,
       OverwriteFindOriginal, OverwriteDelete, OverwriteDeleteFile, OverwritePromote, Remove,
       RemoveDelete, RemoveFile, RequestLost, QueueNext, RetryDelayed, JobStalled,
       EvictCompleted
  <2>2. CASE PersistInvoice(w)
    <3>1. PICK k \in InvoiceKey \cup {NoKey}, s \in BOOLEAN :
            /\ doc' = [doc EXCEPT ![wk[w].doc].inv = k, ![wk[w].doc].sure = s]
            /\ wk' = [wk EXCEPT ![w].pc = "persisted", ![w].key = k, ![w].sure = s]
      BY <2>2 DEF PersistInvoice
    <3>2. v = w /\ wk'[w].doc = wk[w].doc
      BY <1>1, <1>3, <3>1 DEF WorkerState
    <3>3. d \in DocId /\ doc \in [DocId -> Document]
      BY ConstantsAssumption DEF TypeInv, DocsOK, IdsOK, Known
    <3>4. doc'[d] = [doc[d] EXCEPT !.inv = k, !.sure = s]
      BY <3>1, <3>2, <3>3
    <3>5. doc'[d].inv = k
      BY <3>3, <3>4 DEF Document
    <3>6. QED
      BY <3>5, ConstantsAssumption
  <2>3. CASE FindDuplicateOriginal(w)
    <3>1. wk[w].pc = "persisted"
      BY <2>3 DEF FindDuplicateOriginal, Does
    <3>2. PICK x : wk' = [wk EXCEPT ![w].pc = "finalize", ![w].dup = x]
      BY <2>3 DEF FindDuplicateOriginal
    <3>3. v = w /\ wk'[w].doc = wk[w].doc
      BY <1>1, <1>3, <3>2 DEF WorkerState
    <3>4. QED
      BY <3>1, <3>3 DEF Promised
  <2>4. ASSUME NEW f \in File, Process(w, f) PROVE FALSE
    <3>1. PICK pc \in {"start", "ack", "throw"} : wk' = [wk EXCEPT ![w] = Run(pc, f, job[f].data)]
      BY <2>4 DEF Process
    <3>2. QED
      BY <1>1, <1>3, <3>1 DEF Run
  <2>5. CASE \/ SetOcrRunning(w) \/ SetExtracting(w) \/ MarkNotInvoice(w) \/ WorkerError(w)
             \/ SetFailed(w) \/ FinalizeInvoiceDocument(w)
    <3>1. PICK pc \in {"recognizing", "extracting", "ack", "catch", "throw"} : Step(w, pc)
      BY <2>5 DEF SetOcrRunning, SetExtracting, MarkNotInvoice, WorkerError, SetFailed,
         FinalizeInvoiceDocument
    <3>2. QED
      BY <1>1, <1>3, <3>1 DEF Step, WorkerState
  <2>6. CASE Finish(w) \/ WorkerCrash(w)
    BY <1>1, <1>3, <2>6, IdleWorkerType DEF Finish, WorkerCrash
  <2>7. QED
    BY <2>1, <2>2, <2>3, <2>4, <2>5, <2>6 DEF WorkerNext, WorkerStep
<1>4. QED
  BY <1>2, <1>3

\* A request is about to confirm d, or to promote it, only after it has read a
\* status that promises the invoice of d.
LEMMA RequestPromiseStep ==
    ASSUME TypeInv, [Next]_vars, NEW d \in Known, NEW q \in Request,
           req'[q].pc \in ConfirmPc, req'[q].doc = d
    PROVE  Promised(d)
<1>1. RequestsOK /\ req \in [Request -> RequestState]
  BY DEF TypeInv, RequestsOK
<1> USE DEF ConfirmPc, OverwritePc
<1>2. CASE req'[q] = req[q]
  BY <1>2 DEF Promised
<1>3. CASE req'[q] # req[q]
  <2>1. PICK r \in Request : RequestNext(r)
    BY <1>3 DEF Next, vars, WorkerNext, WorkerStep, Process, SetOcrRunning, SetExtracting,
       MarkNotInvoice, PersistInvoice, FindDuplicateOriginal, FinalizeInvoiceDocument,
       WorkerError, SetFailed, Finish, WorkerCrash, QueueNext, RetryDelayed, JobStalled,
       EvictCompleted
  <2>2. ASSUME NEW e \in DocId, Confirm(r, e) \/ OverwriteDuplicate(r, e)
        PROVE  Promised(d)
    <3>1. doc[e].status \in Invoiced
      BY <2>2 DEF Confirm, OverwriteDuplicate, Invoiced
    <3>2. \/ Begin(r, Call("confirm", None, e, NoDoc, FALSE))
          \/ Begin(r, Call("owOriginal", None, e, doc[e].dupOf, doc[e].sure))
      BY <2>2 DEF Confirm, OverwriteDuplicate
    <3>3. d = e
      BY <1>1, <1>3, <3>2 DEF Begin, Call
    <3>4. QED
      BY <3>1, <3>3 DEF Promised
  <2>3. CASE \/ OverwriteFindOriginal(r) \/ OverwriteDeleteFile(r)
             \/ OverwriteDelete(r) /\ req'[r].pc = "owFile"
    <3>1. PICK pc : Goto(r, pc) /\ req[r].pc \in OverwritePc
      BY <2>3, <1>1, ReturnEffect
      DEF OverwriteFindOriginal, OverwriteDelete, OverwriteDeleteFile, At
    <3>2. q = r /\ req'[r].doc = req[r].doc
      BY <1>1, <1>3, <3>1 DEF Goto, RequestState
    <3>3. QED
      BY <3>1, <3>2 DEF Promised
  <2>4. CASE Return(r)
    BY <1>1, <1>3, <2>4, ReturnEffect
  <2>5. ASSUME NEW pc \in RequestPc \ ConfirmPc, Goto(r, pc) PROVE FALSE
    BY <1>1, <1>3, <2>5, GotoEffect
  <2>6. ASSUME NEW pc \in RequestPc \ ConfirmPc, NEW f, NEW e,
               Begin(r, Call(pc, f, e, NoDoc, FALSE))
        PROVE  FALSE
    BY <1>1, <1>3, <2>6 DEF Begin, Call
  <2>7. CASE UploadCreate(r)
    BY <1>1, <1>3, <2>4, <2>7 DEF UploadCreate, RequestState
  <2>8. ASSUME NEW f \in File, UploadNew(r, f) PROVE Promised(d)
    BY <2>6, <2>8 DEF UploadNew, RequestPc
  <2>9. ASSUME NEW e \in DocId, UploadKnown(r, e) \/ Remove(r, e) PROVE Promised(d)
    BY <2>6, <2>9 DEF UploadKnown, Remove, RequestPc
  <2>10. CASE \/ AssertMonthlyDocumentLimit(r) \/ UploadStore(r) \/ RemoveDelete(r)
    BY <2>4, <2>5, <2>10 DEF AssertMonthlyDocumentLimit, UploadStore, RemoveDelete, RequestPc
  <2>11. CASE OverwriteDelete(r)
    <3>1. req'[r].pc = "owFile" \/ Return(r)
      BY <1>1, <2>11, GotoEffect DEF OverwriteDelete, RequestPc
    <3>2. QED
      BY <2>3, <2>4, <2>11, <3>1
  <2>12. CASE \/ SafeEnqueue(r) \/ ConfirmWrite(r) \/ OverwritePromote(r) \/ RemoveFile(r)
              \/ RequestLost(r)
    BY <2>4, <2>12 DEF SafeEnqueue, ConfirmWrite, OverwritePromote, RemoveFile, RequestLost
  <2>13. QED
    BY <2>1, <2>2, <2>3, <2>7, <2>8, <2>9, <2>10, <2>11, <2>12 DEF RequestNext
<1>4. QED
  BY <1>2, <1>3

\* A row that was not there before was created by an upload.
LEMMA NewRowStep ==
    ASSUME TypeInv, [Next]_vars, NEW d \in DocId, d \notin Known, Live(d)'
    PROVE  \E r \in Request :
              /\ req[r].pc = "create"
              /\ d = created + 1
              /\ doc'[d].status = "QUEUED"
              /\ files' = {IF o = r THEN d ELSE o : o \in files}
              /\ req' = [req EXCEPT ![r].pc = "enqueue", ![r].doc = d]
              /\ wk' = wk
<1>1. /\ doc \in [DocId -> Document] /\ created \in 0 .. MaxDocs
      /\ ~Live(d)
  BY DEF TypeInv, DocsOK, RowOK, IdsOK, Live
<1>2. PICK r \in Request : UploadCreate(r) /\ doc' # doc
  <2>1. CASE doc' = doc
    BY <1>1, <2>1 DEF Live
  <2>2. ASSUME NEW x, NEW t, doc' = WithStatus(x, t) PROVE FALSE
    BY <1>1, <2>2 DEF Live, WithStatus
  <2>3. ASSUME NEW x, doc' = WithoutRow(x) PROVE FALSE
    <3>1. doc'[d] \in {doc[d], [doc[d] EXCEPT !.dupOf = NoDoc], NoRow}
      BY <2>3 DEF WithoutRow
    <3>2. QED
      BY <1>1, <3>1, NoRowType DEF Live, Document
  <2>4. ASSUME NEW q \in Request, ConfirmWrite(q) \/ OverwritePromote(q) PROVE FALSE
    <3>1. doc'[d] = doc[d]
      BY <1>1, <2>4 DEF ConfirmWrite, OverwritePromote, WithStatus, Live
    <3>2. QED
      BY <1>1, <3>1 DEF Live
  <2>5. ASSUME NEW w \in Worker, PersistInvoice(w) \/ FinalizeInvoiceDocument(w) PROVE FALSE
    <3>1. Live(wk[w].doc) => d # wk[w].doc
      BY <1>1
    <3>2. doc'[d] = doc[d]
      BY <1>1, <2>5, <3>1 DEF PersistInvoice, FinalizeInvoiceDocument
    <3>3. QED
      BY <1>1, <3>2 DEF Live
  <2>6. QED
    BY <2>1, <2>2, <2>3, <2>4, <2>5, DocChange
<1>3. /\ doc' = [doc EXCEPT ![created + 1] = NewRow(req[r].file)]
      /\ files' = {IF o = r THEN created + 1 ELSE o : o \in files}
      /\ req' = [req EXCEPT ![r].pc = "enqueue", ![r].doc = created + 1]
      /\ wk' = wk /\ req[r].pc = "create"
  BY <1>2 DEF UploadCreate, At
<1>4. d = created + 1 /\ doc'[d].status = "QUEUED"
  BY <1>1, <1>3 DEF Live, NewRow, NoRow
<1>5. QED
  BY <1>3, <1>4

\* What refers to a document refers to a created one, so the row that a step
\* creates is not promised to anybody.
LEMMA NewRowNotPromised ==
    ASSUME TypeInv, [Next]_vars, NEW d \in DocId, d \notin Known, Live(d)'
    PROVE  ~Promised(d)'
<1>1. created \in 0 .. MaxDocs
  BY DEF TypeInv, IdsOK
<1>2. PICK r \in Request :
        /\ req[r].pc = "create"
        /\ d = created + 1
        /\ doc'[d].status = "QUEUED"
        /\ req' = [req EXCEPT ![r].pc = "enqueue", ![r].doc = d]
        /\ wk' = wk
  BY NewRowStep
<1>3. ASSUME NEW w \in Worker, wk'[w].pc \in {"persisted", "finalize"} PROVE wk'[w].doc # d
  BY <1>1, <1>2, <1>3 DEF TypeInv, WorkersOK, WorkerOK, Known
<1>4. ASSUME NEW q \in Request, req'[q].pc \in ConfirmPc PROVE req'[q].doc # d
  <2>1. q # r
    BY <1>2, <1>4 DEF TypeInv, RequestsOK, RequestState, ConfirmPc, OverwritePc
  <2>2. req'[q] = req[q] /\ RequestOK(q)
    BY <1>2, <2>1 DEF TypeInv, RequestsOK
  <2>3. QED
    BY <1>1, <1>2, <1>4, <2>2 DEF RequestOK, ConfirmPc, OverwritePc, UploadPc, Known
<1>5. QED
  BY <1>2, <1>3, <1>4 DEF Promised, Invoiced, Ready

LEMMA InvoiceInvStep == TypeInv /\ InvoiceInv /\ [Next]_vars => InvoiceInv'
<1> SUFFICES ASSUME TypeInv, InvoiceInv, [Next]_vars, NEW d \in DocId, Live(d)', Promised(d)'
             PROVE  doc'[d].inv # None
  BY DEF InvoiceInv, LiveDocs, Live
<1>1. d \in Known
  BY NewRowNotPromised
<1>2. Live(d) /\ (doc[d].inv # None => doc'[d].inv # None)
  BY <1>1, RowStep
<1>3. Promised(d) \/ doc'[d].inv # None
  BY <1>1, StatusStep, WorkerPromiseStep, RequestPromiseStep DEF Promised
<1>4. QED
  BY <1>2, <1>3 DEF InvoiceInv, LiveDocs, Live

\* A document whose status promises an invoice has one, however uploads,
\* retries, confirmations, overwrites and deletions interleave, and whatever
\* fails in between: the worker stores the invoice before it finalizes, and no
\* request writes a status on the strength of anything but such a status.
THEOREM InvoiceCorrect == Spec => []ProcessedHasInvoice
<1>1. Init => InvoiceInv
  BY NoRowType DEF Init, InvoiceInv, LiveDocs
<1>2. InvoiceInv => ProcessedHasInvoice
  BY DEF InvoiceInv, ProcessedHasInvoice, Promised
<1>3. QED
  BY <1>1, <1>2, TypeInvInit, TypeInvStep, InvoiceInvStep, PTL DEF Spec

-----------------------------------------------------------------------------
(* Every row has its object *)

\* A request is about to delete the object of d.
Doomed(d) ==
    \E r \in Request : \/ req[r].pc = "rmFile" /\ req[r].doc = d
                       \/ req[r].pc = "owFile" /\ req[r].orig = d

\* An upload about to create its row has stored the object.
Stored(r) == req[r].pc = "create" => r \in files

FileInv == /\ \A d \in LiveDocs : d \in files /\ ~Doomed(d)
           /\ \A r \in Request : Stored(r)

\* A request comes to create its row only from storing the object.
LEMMA UploadPath ==
    ASSUME RequestsOK, NEW r \in Request, RequestNext(r)
    PROVE  /\ \A q \in Request \ {r} : req'[q] = req[q]
           /\ req'[r].pc = "create" => UploadStore(r) \/ (req[r].pc = "create" /\ files' = files)
<1> DEFINE Others == \A q \in Request \ {r} : req'[q] = req[q]
<1> USE DEF At
<1>0. req[r] \in RequestState
  BY DEF RequestsOK
<1>1. ASSUME NEW pc \in RequestPc, Goto(r, pc) PROVE Others /\ req'[r].pc = pc
  BY <1>1, GotoEffect
<1>2. ASSUME Return(r) PROVE Others /\ req'[r].pc = "idle"
  BY <1>2, ReturnEffect
<1>3. ASSUME NEW pc, NEW f, NEW d, NEW o, NEW s, Begin(r, Call(pc, f, d, o, s))
      PROVE  Others /\ req'[r].pc = pc
  BY <1>3 DEF RequestsOK, Begin, Call
<1>4. CASE AssertMonthlyDocumentLimit(r) \/ UploadStore(r)
  BY <1>1, <1>2, <1>4 DEF AssertMonthlyDocumentLimit, UploadStore, RequestPc
<1>5. CASE \/ OverwriteFindOriginal(r) \/ OverwriteDelete(r)
           \/ OverwriteDeleteFile(r) \/ RemoveDelete(r)
  BY <1>1, <1>2, <1>5 DEF OverwriteFindOriginal, OverwriteDelete,
                          OverwriteDeleteFile, RemoveDelete, RequestPc
<1>6. CASE \/ SafeEnqueue(r) \/ ConfirmWrite(r) \/ OverwritePromote(r) \/ RemoveFile(r)
           \/ RequestLost(r)
  BY <1>2, <1>6 DEF SafeEnqueue, ConfirmWrite, OverwritePromote, RemoveFile, RequestLost
<1>7. CASE \/ \E f \in File : UploadNew(r, f)
           \/ \E d \in DocId : \/ UploadKnown(r, d) \/ Confirm(r, d)
                               \/ OverwriteDuplicate(r, d) \/ Remove(r, d)
  <2>1. PICK pc \in {"limit", "enqueue", "confirm", "owOriginal", "rmDelete"} :
          \E f, d, o, s : Begin(r, Call(pc, f, d, o, s))
    BY <1>7 DEF UploadNew, UploadKnown, Confirm, OverwriteDuplicate, Remove
  <2>2. QED
    BY <1>3, <2>1
<1>8. CASE UploadCreate(r)
  <2>1. CASE req' = [req EXCEPT ![r].pc = "enqueue", ![r].doc = created + 1]
    BY <1>0, <2>1 DEF RequestsOK, RequestState
  <2>2. QED
    BY <1>2, <1>8, <2>1 DEF UploadCreate
<1>9. QED
  BY <1>4, <1>5, <1>6, <1>7, <1>8 DEF RequestNext

\* No other request takes the object of an upload away before its row is there.
LEMMA StoredStep ==
    ASSUME TypeInv, FileInv, [Next]_vars, NEW p \in Request
    PROVE  Stored(p)'
<1>1. req \in [Request -> RequestState] /\ RequestsOK /\ p \notin DocId /\ created \in 0 .. MaxDocs
  BY ConstantsAssumption DEF TypeInv, IdsOK, RequestsOK, DocId
<1>2. CASE UNCHANGED <<files, req>>
  BY <1>2 DEF FileInv, Stored
<1>3. ASSUME NEW r \in Request, RequestNext(r) PROVE Stored(p)'
  <2>1. /\ \A q \in Request \ {r} : req'[q] = req[q]
        /\ req'[r].pc = "create" => UploadStore(r) \/ (req[r].pc = "create" /\ files' = files)
    BY <1>1, <1>3, UploadPath
  <2>2. ASSUME p \in files, ~UploadCreate(r) PROVE p \in files'
    <3>1. \/ files' = files \/ UploadStore(r) \/ RemoveFile(r) \/ OverwriteDeleteFile(r)
      BY <1>3, <2>2
      DEF RequestNext, UploadNew, UploadKnown, AssertMonthlyDocumentLimit,
          SafeEnqueue, Confirm, ConfirmWrite, OverwriteDuplicate, OverwriteFindOriginal,
          OverwriteDelete, OverwritePromote, Remove, RemoveDelete, RequestLost
    <3>2. ASSUME RemoveFile(r) \/ OverwriteDeleteFile(r)
          PROVE  files' = files \/ \E d \in DocId : files' = files \ {d}
      <4>0. Known \subseteq DocId /\ RequestOK(r)
        BY <1>1, ConstantsAssumption DEF Known, DocId, RequestsOK
      <4>1. req[r].pc = "rmFile" => req[r].doc \in DocId
        BY <4>0 DEF RequestOK, UploadPc
      <4>2. req[r].pc = "owFile" => req[r].orig \in DocId
        BY <4>0 DEF RequestOK, OverwritePc
      <4>3. QED
        BY <3>2, <4>1, <4>2 DEF RemoveFile, OverwriteDeleteFile, At
    <3>3. QED
      BY <1>1, <2>2, <3>1, <3>2 DEF UploadStore
  <2>3. CASE p = r
    <3>1. UploadStore(r) => r \in files' \/ req'[r].pc = "idle"
      BY <1>1, ReturnEffect DEF UploadStore
    <3>2. QED
      BY <2>1, <2>3, <3>1 DEF FileInv, Stored
  <2>4. CASE p # r
    <3>1. p \in files /\ UploadCreate(r) => p \in files'
      BY <2>4 DEF UploadCreate
    <3>2. QED
      BY <2>1, <2>2, <2>4, <3>1 DEF FileInv, Stored
  <2>5. QED
    BY <2>3, <2>4
<1>4. QED
  BY <1>2, <1>3 DEF Next, vars, WorkerNext, WorkerStep, Process, SetOcrRunning, SetExtracting,
     MarkNotInvoice, PersistInvoice, FindDuplicateOriginal, FinalizeInvoiceDocument,
     WorkerError, SetFailed, Finish, WorkerCrash, QueueNext, RetryDelayed, JobStalled,
     EvictCompleted

LEMMA FileInvStep == TypeInv /\ FileInv /\ [Next]_vars => FileInv'
<1> SUFFICES ASSUME TypeInv, FileInv, [Next]_vars, NEW d \in DocId, Live(d)'
             PROVE  d \in files' /\ ~Doomed(d)'
  BY StoredStep DEF FileInv, LiveDocs, Live
<1>1. /\ created \in 0 .. MaxDocs /\ req \in [Request -> RequestState] /\ RequestsOK
      /\ doc \in [DocId -> Document]
  BY DEF TypeInv, IdsOK, RequestsOK, DocsOK
<1>2. CASE d \notin Known
  <2>1. PICK r \in Request :
          /\ d = created + 1
          /\ req[r].pc = "create"
          /\ files' = {IF o = r THEN d ELSE o : o \in files}
          /\ req' = [req EXCEPT ![r].pc = "enqueue", ![r].doc = d]
    BY <1>2, NewRowStep
  <2>2. ASSUME NEW q \in Request,
               \/ req'[q].pc = "rmFile" /\ req'[q].doc = d
               \/ req'[q].pc = "owFile" /\ req'[q].orig = d
        PROVE  FALSE
    <3>1. q # r
      BY <1>1, <2>1, <2>2 DEF RequestState
    <3>2. req'[q] = req[q] /\ RequestOK(q)
      BY <1>1, <2>1, <3>1 DEF RequestsOK
    <3>3. QED
      BY <1>1, <2>1, <2>2, <3>2 DEF RequestOK, OverwritePc, UploadPc, Known
  <2>3. d \in files'
    BY <2>1 DEF FileInv, Stored
  <2>4. QED
    BY <2>2, <2>3 DEF Doomed
<1>3. CASE d \in Known
  <2>1. Live(d) /\ d \in files /\ ~Doomed(d)
    BY <1>3, RowStep DEF FileInv, LiveDocs, Live
  <2>2. CASE UNCHANGED <<files, req>>
    BY <2>1, <2>2 DEF Doomed
  <2>3. ASSUME NEW r \in Request, RequestNext(r) PROVE d \in files' /\ ~Doomed(d)'
    <3>1. ASSUME files' # files PROVE d \in files'
      <4>1. UploadStore(r) \/ UploadCreate(r) \/ RemoveFile(r) \/ OverwriteDeleteFile(r)
        BY <2>3, <3>1
        DEF RequestNext, UploadNew, UploadKnown, AssertMonthlyDocumentLimit,
            SafeEnqueue, Confirm, ConfirmWrite, OverwriteDuplicate, OverwriteFindOriginal,
            OverwriteDelete, OverwritePromote, Remove, RemoveDelete, RequestLost
      <4>2. d # r
        BY ConstantsAssumption DEF DocId
      <4>3. QED
        BY <2>1, <4>1, <4>2 DEF UploadStore, UploadCreate, RemoveFile, OverwriteDeleteFile, Doomed, At
    <3>2. ASSUME NEW q \in Request, req'[q] # req[q],
                 \/ req'[q].pc = "rmFile" /\ req'[q].doc = d
                 \/ req'[q].pc = "owFile" /\ req'[q].orig = d
          PROVE  FALSE
      <4> DEFINE FilePc == {"rmFile", "owFile"}
      <4>1. ~Return(r) /\ ~(\E pc \in RequestPc \ FilePc : Goto(r, pc))
        BY <1>1, <3>2, ReturnEffect, GotoEffect
      <4>2. ASSUME NEW pc \in RequestPc \ FilePc, NEW f, NEW e, NEW o, NEW s,
                   Begin(r, Call(pc, f, e, o, s))
            PROVE  FALSE
        BY <1>1, <3>2, <4>2 DEF Begin, Call
      <4>3. CASE \/ OverwriteDelete(r) /\ doc' = WithoutRow(req[r].orig) /\ Goto(r, "owFile")
                 \/ RemoveDelete(r) /\ doc' = WithoutRow(req[r].doc) /\ Goto(r, "rmFile")
        <5>1. Goto(r, "owFile") \/ Goto(r, "rmFile")
          BY <4>3
        <5>2. /\ \A p \in Request \ {r} : req'[p] = req[p]
              /\ req'[r].doc = req[r].doc /\ req'[r].orig = req[r].orig
          BY <1>1, <5>1, GotoEffect DEF RequestPc
        <5>3. \/ Goto(r, "owFile") /\ req'[r].pc = "owFile" /\ doc' = WithoutRow(req[r].orig)
              \/ Goto(r, "rmFile") /\ req'[r].pc = "rmFile" /\ doc' = WithoutRow(req[r].doc)
          BY <1>1, <4>3, GotoEffect DEF RequestPc
        <5>4. doc' = WithoutRow(d)
          BY <3>2, <5>2, <5>3
        <5>5. doc'[d] = NoRow
          BY <5>4 DEF WithoutRow
        <5>6. QED
          BY <5>5, NoRowType DEF Live
      <4>4. CASE UploadCreate(r)
        BY <1>1, <3>2, <4>1, <4>4 DEF UploadCreate, RequestState
      <4>5. ASSUME NEW f \in File, UploadNew(r, f) PROVE FALSE
        BY <4>2, <4>5 DEF UploadNew, RequestPc
      <4>6. ASSUME NEW e \in DocId,
                   UploadKnown(r, e) \/ Confirm(r, e) \/ OverwriteDuplicate(r, e) \/ Remove(r, e)
            PROVE FALSE
        BY <4>2, <4>6 DEF UploadKnown, Confirm, OverwriteDuplicate, Remove, RequestPc
      <4>7. CASE OverwriteDelete(r) \/ RemoveDelete(r)
        BY <4>1, <4>3, <4>7 DEF OverwriteDelete, RemoveDelete
      <4>8. CASE \/ AssertMonthlyDocumentLimit(r) \/ UploadStore(r) \/ OverwriteFindOriginal(r)
                 \/ OverwriteDeleteFile(r)
        BY <4>1, <4>8 DEF AssertMonthlyDocumentLimit, UploadStore, OverwriteFindOriginal,
           OverwriteDeleteFile, RequestPc
      <4>9. CASE \/ SafeEnqueue(r) \/ ConfirmWrite(r) \/ OverwritePromote(r) \/ RemoveFile(r)
                 \/ RequestLost(r)
        BY <4>1, <4>9 DEF SafeEnqueue, ConfirmWrite, OverwritePromote, RemoveFile, RequestLost
      <4>10. QED
        BY <2>3, <4>4, <4>5, <4>6, <4>7, <4>8, <4>9 DEF RequestNext
    <3>3. QED
      BY <2>1, <3>1, <3>2 DEF Doomed
  <2>4. QED
    BY <2>2, <2>3 DEF Next, vars, WorkerNext, WorkerStep, Process, SetOcrRunning, SetExtracting,
       MarkNotInvoice, PersistInvoice, FindDuplicateOriginal, FinalizeInvoiceDocument,
       WorkerError, SetFailed, Finish, WorkerCrash, QueueNext, RetryDelayed, JobStalled,
       EvictCompleted
<1>4. QED
  BY <1>2, <1>3

\* No row is ever without its object in the store, however uploads, removals
\* and overwrites interleave and whichever of their steps fail.
THEOREM FileCorrect == Spec => []RowHasFile
<1>1. Init => FileInv
  BY NoRowType DEF Init, FileInv, LiveDocs, Stored, IdleRequest, Call
<1>2. FileInv => RowHasFile
  BY DEF FileInv, RowHasFile
<1>3. QED
  BY <1>1, <1>2, TypeInvInit, TypeInvStep, FileInvStep, PTL DEF Spec
-----------------------------------------------------------------------------
(* The plan's limit *)

AdmittedPc == {"store", "create"}

\* Uploads that have passed assertMonthlyDocumentLimit and have no row yet.
Admitted == {r \in Request : req[r].pc \in AdmittedPc}

\* An upload that is admitted has just counted fewer rows than the limit, so
\* the rows and the admitted together are bounded: by the limit, less one, and
\* one for each request that can be in progress.
LimitInv ==
    MonthlyLimit > 0 =>
        Cardinality(LiveDocs) + Cardinality(Admitted) <= MonthlyLimit - 1 + Cardinality(Request)

\* Only assertMonthlyDocumentLimit admits an upload.
LEMMA AdmissionStep ==
    ASSUME RequestsOK, NEW r \in Request, RequestNext(r)
    PROVE  /\ \A q \in Request \ {r} : req'[q] = req[q]
           /\ req'[r].pc \in AdmittedPc =>
                req[r].pc \in AdmittedPc \/ WithinLimit(Cardinality(LiveDocs))
<1> DEFINE Others == \A q \in Request \ {r} : req'[q] = req[q]
<1> USE DEF At, AdmittedPc
<1>0. req[r] \in RequestState
  BY DEF RequestsOK
<1>1. ASSUME NEW pc \in RequestPc, Goto(r, pc) PROVE Others /\ req'[r].pc = pc
  BY <1>1, GotoEffect
<1>2. ASSUME Return(r) PROVE Others /\ req'[r].pc = "idle"
  BY <1>2, ReturnEffect
<1>3. ASSUME NEW pc, NEW f, NEW d, NEW o, NEW s, Begin(r, Call(pc, f, d, o, s))
      PROVE  Others /\ req'[r].pc = pc
  BY <1>3 DEF RequestsOK, Begin, Call
<1>4. CASE AssertMonthlyDocumentLimit(r)
  BY <1>1, <1>2, <1>4 DEF AssertMonthlyDocumentLimit, RequestPc
<1>5. CASE \/ UploadStore(r) \/ OverwriteFindOriginal(r) \/ OverwriteDelete(r)
           \/ OverwriteDeleteFile(r) \/ RemoveDelete(r)
  BY <1>1, <1>2, <1>5 DEF UploadStore, OverwriteFindOriginal, OverwriteDelete,
                          OverwriteDeleteFile, RemoveDelete, RequestPc
<1>6. CASE \/ SafeEnqueue(r) \/ ConfirmWrite(r) \/ OverwritePromote(r) \/ RemoveFile(r)
           \/ RequestLost(r)
  BY <1>2, <1>6 DEF SafeEnqueue, ConfirmWrite, OverwritePromote, RemoveFile, RequestLost
<1>7. CASE \/ \E f \in File : UploadNew(r, f)
           \/ \E d \in DocId : \/ UploadKnown(r, d) \/ Confirm(r, d)
                               \/ OverwriteDuplicate(r, d) \/ Remove(r, d)
  <2>1. PICK pc \in {"limit", "enqueue", "confirm", "owOriginal", "rmDelete"} :
          \E f, d, o, s : Begin(r, Call(pc, f, d, o, s))
    BY <1>7 DEF UploadNew, UploadKnown, Confirm, OverwriteDuplicate, Remove
  <2>2. QED
    BY <1>3, <2>1
<1>8. CASE UploadCreate(r)
  <2>1. CASE req' = [req EXCEPT ![r].pc = "enqueue", ![r].doc = created + 1]
    <3>1. Others /\ req'[r] = [req[r] EXCEPT !.pc = "enqueue", !.doc = created + 1]
      BY <2>1 DEF RequestsOK
    <3>2. req'[r].pc = "enqueue"
      BY <1>0, <3>1 DEF RequestState
    <3>3. QED
      BY <3>1, <3>2
  <2>2. QED
    BY <1>2, <1>8, <2>1 DEF UploadCreate
<1>9. QED
  BY <1>4, <1>5, <1>6, <1>7, <1>8 DEF RequestNext

LEMMA LimitFinite ==
    ASSUME TypeInv
    PROVE  /\ IsFiniteSet(LiveDocs) /\ Cardinality(LiveDocs) \in Nat
           /\ IsFiniteSet(Admitted) /\ Cardinality(Admitted) \in Nat
           /\ Cardinality(Request) \in Nat
<1>1. IsFiniteSet(DocId)
  BY ConstantsAssumption, FS_Interval
<1>2. IsFiniteSet(LiveDocs) /\ IsFiniteSet(Admitted)
  BY <1>1, ConstantsAssumption, FS_Subset DEF LiveDocs, Admitted
<1>3. QED
  BY <1>2, ConstantsAssumption, FS_CardinalityType

LEMMA LimitInvStep == TypeInv /\ LimitInv /\ [Next]_vars => LimitInv'
<1> SUFFICES ASSUME TypeInv, LimitInv, [Next]_vars PROVE LimitInv'
  OBVIOUS
<1>0. /\ TypeInv' /\ RequestsOK
      /\ IsFiniteSet(LiveDocs') /\ Cardinality(LiveDocs') \in Nat
      /\ IsFiniteSet(Admitted') /\ Cardinality(Admitted') \in Nat
  <2>1. IsFiniteSet(DocId)
    BY ConstantsAssumption, FS_Interval
  <2>2. IsFiniteSet(LiveDocs') /\ IsFiniteSet(Admitted')
    BY <2>1, ConstantsAssumption, FS_Subset DEF LiveDocs, Admitted
  <2>3. QED
    BY <2>2, TypeInvStep, FS_CardinalityType DEF TypeInv
<1>1. ASSUME NEW d \in DocId, d \notin Known, Live(d)' PROVE LimitInv'
  <2>1. PICK r \in Request : /\ req[r].pc = "create" /\ d = created + 1
                             /\ req' = [req EXCEPT ![r].pc = "enqueue", ![r].doc = d]
    BY <1>1, NewRowStep
  <2>2. req'[r].pc = "enqueue" /\ \A q \in Request \ {r} : req'[q] = req[q]
    BY <1>0, <2>1 DEF RequestsOK, RequestState
  <2>3. r \in Admitted /\ Admitted' = Admitted \ {r}
    BY <2>1, <2>2 DEF Admitted, AdmittedPc
  <2>4. Cardinality(Admitted') = Cardinality(Admitted) - 1
    BY <2>3, LimitFinite, FS_RemoveElement
  <2>5. \A e \in DocId : e \notin Known /\ Live(e)' => e = d
    BY <2>1, NewRowStep
  <2>6. LiveDocs' \subseteq LiveDocs \cup {d}
    BY <2>5, RowStep DEF LiveDocs, Live
  <2>7. /\ IsFiniteSet(LiveDocs \cup {d})
        /\ Cardinality(LiveDocs \cup {d}) \in {Cardinality(LiveDocs), Cardinality(LiveDocs) + 1}
    BY LimitFinite, FS_AddElement
  <2>8. Cardinality(LiveDocs') <= Cardinality(LiveDocs \cup {d})
    BY <2>6, <2>7, FS_Subset
  <2>9. QED
    BY <1>0, <2>4, <2>7, <2>8, LimitFinite, ConstantsAssumption DEF LimitInv
<1>2. CASE \A d \in DocId : Live(d)' => d \in Known
  <2>1. LiveDocs' \subseteq LiveDocs
    BY <1>2, RowStep DEF LiveDocs, Live
  <2>2. Cardinality(LiveDocs') <= Cardinality(LiveDocs)
    BY <2>1, LimitFinite, FS_Subset
  <2>3. CASE Admitted' \subseteq Admitted
    <3>1. Cardinality(Admitted') <= Cardinality(Admitted)
      BY <2>3, LimitFinite, FS_Subset
    <3>2. QED
      BY <1>0, <2>2, <3>1, LimitFinite, ConstantsAssumption DEF LimitInv
  <2>4. CASE WithinLimit(Cardinality(LiveDocs))
    <3>1. Cardinality(Admitted') <= Cardinality(Request)
      BY ConstantsAssumption, FS_Subset DEF Admitted
    <3>2. MonthlyLimit > 0 => Cardinality(LiveDocs) <= MonthlyLimit - 1
      BY <2>4, LimitFinite, ConstantsAssumption DEF WithinLimit
    <3>3. QED
      BY <1>0, <2>2, <3>1, <3>2, LimitFinite, ConstantsAssumption DEF LimitInv
  <2>5. ASSUME NEW r \in Request, RequestNext(r)
        PROVE  Admitted' \subseteq Admitted \/ WithinLimit(Cardinality(LiveDocs))
    BY <1>0, <2>5, AdmissionStep DEF Admitted
  <2>6. CASE req' = req
    BY <2>3, <2>6 DEF Admitted
  <2>7. QED
    BY <2>3, <2>4, <2>5, <2>6 DEF Next, vars, WorkerNext, WorkerStep, Process, SetOcrRunning,
       SetExtracting, MarkNotInvoice, PersistInvoice, FindDuplicateOriginal,
       FinalizeInvoiceDocument, WorkerError, SetFailed, Finish, WorkerCrash, QueueNext,
       RetryDelayed, JobStalled, EvictCompleted
<1>3. QED
  BY <1>1, <1>2

\* A tenant has fewer documents than its plan's monthly limit and the number of
\* requests in progress together (assertMonthlyDocumentLimit counts before the
\* object is stored and the row created), whatever the limit and the number of
\* requests.
THEOREM OvershootBounded == Spec => []LimitOvershoot
<1>1. ASSUME Init PROVE LimitInv
  <2>1. LiveDocs = {} /\ Admitted = {}
    BY <1>1, NoRowType DEF Init, LiveDocs, Admitted, AdmittedPc, IdleRequest, Call
  <2>2. Cardinality({}) = 0 /\ Cardinality(Request) \in Nat
    BY ConstantsAssumption, FS_EmptySet, FS_CardinalityType
  <2>3. QED
    BY <2>1, <2>2, ConstantsAssumption DEF LimitInv
<1>2. TypeInv /\ LimitInv => LimitOvershoot
  BY LimitFinite, ConstantsAssumption DEF LimitInv, LimitOvershoot
<1>3. QED
  BY <1>1, <1>2, TypeInvInit, TypeInvStep, LimitInvStep, PTL DEF Spec

-----------------------------------------------------------------------------
(* The life of a document: the invariants *)

\* A slot that is not idle runs the job of its file, for the document that the
\* job carries.
HoldInv ==
    \A w \in Worker : wk[w].pc # "idle" =>
        Queue!Holds(w, wk[w].file) /\ job[wk[w].file].data = wk[w].doc

\* The document of a job, or of a request that is about to add one, has the
\* file that makes up the id of the job, for as long as it exists.
JobFileInv ==
    \A f \in File : /\ job[f].data \in Known \cup {NoDoc}
                    /\ Live(job[f].data) => doc[job[f].data].file = f

EnqueueInv ==
    \A r \in Request : At(r, "enqueue") /\ Live(req[r].doc) => doc[req[r].doc].file = req[r].file

\* A worker that may still write a status works on an open document.
WorksPc == Trying \cup {"catch"}

OpenInv ==
    \A w \in Worker : wk[w].pc \in WorksPc /\ Live(wk[w].doc) => doc[wk[w].doc].status \in Open

\* A request that is about to confirm or to promote a document read a status
\* that allowed it, and no worker has opened the document since.
Confirmable == Ready \cup {"CONFIRMED"}
Promotable  == Ready \cup {"CONFIRMED", "DUPLICATE"}

ConfirmInv ==
    \A r \in Request : Live(req[r].doc) =>
        /\ req[r].pc = "confirm" => doc[req[r].doc].status \in Confirmable
        /\ req[r].pc \in OverwritePc => doc[req[r].doc].status \in Promotable

LifeInv == HoldInv /\ JobFileInv /\ EnqueueInv /\ OpenInv /\ ConfirmInv

\* No two documents have the same file: @@unique([tenantId, sha256]).
FileUnique == \A d, e \in LiveDocs : doc[d].file = doc[e].file => d = e

\* Without remove and overwrite every document that was created is there.
NothingDeleted ==
    /\ \A d \in Known : Live(d)
    /\ \A r \in Request : req[r].pc \notin OverwritePc \cup {"rmDelete", "rmFile"}

\* Whoever reports a job as completed, or has reported it, has settled the
\* document or found it settled.
SettledInv ==
    /\ \A w \in Worker : wk[w].pc = "ack" => doc[wk[w].doc].status \in Settled
    /\ \A f \in File : job[f].state = "completed" => doc[job[f].data].status \in Settled

StrandInv == FileUnique /\ NothingDeleted /\ SettledInv /\ NoStrandedDocument

-----------------------------------------------------------------------------
(* What a step writes *)

Same(d) == doc'[d].status = doc[d].status /\ doc'[d].file = doc[d].file

\* A step gives the existing document x a status of S, and nothing else a
\* status or a file.
Writes(x, S) ==
    /\ x \in LiveDocs
    /\ doc'[x].status \in S
    /\ doc'[x].file = doc[x].file
    /\ \A d \in DocId \ {x} : Same(d)

\* A step creates the next document, for the file of r.
Creates(r) ==
    /\ req[r].pc = "create"
    /\ created' = created + 1
    /\ created + 1 \in DocId
    /\ ~HasFile(req[r].file)
    /\ doc' = [doc EXCEPT ![created + 1] = NewRow(req[r].file)]
    /\ req' = [req EXCEPT ![r].pc = "enqueue", ![r].doc = created + 1]

\* A step deletes the row of x.
Deletes(x) ==
    /\ x \in LiveDocs
    /\ doc'[x] = NoRow
    /\ \A d \in DocId \ {x} : Same(d)

LEMMA WithStatusWrites ==
    ASSUME DocsOK, NEW x \in DocId, NEW s \in Open \cup Settled, doc' = WithStatus(x, s)
    PROVE  (\A d \in DocId : Same(d)) \/ Writes(x, {s})
<1>1. \A d \in DocId : doc[d] \in Document
  BY DEF DocsOK
<1>2. \A d \in DocId \ {x} : doc'[d] = doc[d]
  BY DEF WithStatus
<1>3. CASE Live(x)
  <2>1. doc'[x] = [doc[x] EXCEPT !.status = s]
    BY <1>3 DEF WithStatus
  <2>2. doc'[x].status = s /\ doc'[x].file = doc[x].file
    BY <1>1, <2>1 DEF Document
  <2>3. QED
    BY <1>2, <1>3, <2>2 DEF Writes, Same, LiveDocs, Live
<1>4. CASE ~Live(x)
  BY <1>2, <1>4 DEF Same, WithStatus
<1>5. QED
  BY <1>3, <1>4

LEMMA WithoutRowDeletes ==
    ASSUME DocsOK, NEW x \in DocId, Live(x), doc' = WithoutRow(x)
    PROVE  Deletes(x)
<1>1. ASSUME NEW d \in DocId \ {x} PROVE Same(d)
  <2>1. doc[d] \in Document /\ doc'[d] \in {doc[d], [doc[d] EXCEPT !.dupOf = NoDoc]}
    BY DEF WithoutRow, DocsOK
  <2>2. QED
    BY <2>1 DEF Same, Document
<1>2. doc'[x] = NoRow
  BY DEF WithoutRow
<1>3. QED
  BY <1>1, <1>2 DEF Deletes, LiveDocs, Live

\* A worker writes the status of the document it works on: an open one, or
\* the one it settles the document with on its last step.
LEMMA WorkerWrites ==
    ASSUME TypeInv, NEW w \in Worker, WorkerNext(w)
    PROVE  /\ created' = created /\ req' = req
           /\ \/ \A d \in DocId : Same(d)
              \/ wk[w].pc \in WorksPc /\ Writes(wk[w].doc, Open)
              \/ /\ wk[w].pc \in WorksPc /\ wk'[w].pc = "ack"
                 /\ Writes(wk[w].doc, Settled \ {"CONFIRMED"})
<1> DEFINE d == wk[w].doc
<1>0. /\ DocsOK /\ wk \in [Worker -> WorkerState] /\ wk[w] \in WorkerState
      /\ doc \in [DocId -> Document] /\ WorkerOK(w) /\ created \in 0 .. MaxDocs
  BY DEF TypeInv, DocsOK, WorkersOK, IdsOK
<1>0a. wk[w].pc # "idle" => d \in DocId
  BY <1>0, ConstantsAssumption DEF WorkerOK, Known
<1>1. created' = created /\ req' = req
  BY DEF WorkerNext, WorkerStep, Process, SetOcrRunning, SetExtracting, MarkNotInvoice,
     PersistInvoice, FindDuplicateOriginal, FinalizeInvoiceDocument, WorkerError, SetFailed,
     Finish, WorkerCrash
<1>2. ASSUME NEW s \in Open, doc' = WithStatus(d, s), wk[w].pc \in WorksPc
      PROVE  (\A e \in DocId : Same(e)) \/ Writes(d, Open)
  <2>1. d \in DocId
    BY <1>0a, <1>2 DEF WorksPc, Trying
  <2>2. QED
    BY <1>0, <1>2, <2>1, WithStatusWrites DEF Writes
<1>3. CASE doc' = doc
  BY <1>1, <1>3 DEF Same
<1>4. CASE SetOcrRunning(w) \/ SetExtracting(w) \/ SetFailed(w)
  <2>1. wk[w].pc \in WorksPc
    BY <1>4 DEF SetOcrRunning, SetExtracting, SetFailed, Does, WorksPc, Trying
  <2>2. doc' = doc \/ \E s \in Open : doc' = WithStatus(d, s)
    BY <1>4 DEF SetOcrRunning, SetExtracting, SetFailed, Open
  <2>3. QED
    BY <1>1, <1>2, <1>3, <2>1, <2>2
<1>5. CASE MarkNotInvoice(w)
  <2>1. wk[w].pc = "extracting" /\ doc' = WithStatus(d, "NOT_INVOICE") /\ Step(w, "ack")
    BY <1>5 DEF MarkNotInvoice, Does
  <2>2. wk'[w].pc = "ack" /\ d \in DocId
    BY <1>0, <1>0a, <2>1 DEF Step, WorkerState
  <2>3. "NOT_INVOICE" \in Settled \ {"CONFIRMED"}
    BY DEF Settled
  <2>4. (\A e \in DocId : Same(e)) \/ Writes(d, {"NOT_INVOICE"})
    BY <1>0, <2>1, <2>2, <2>3, WithStatusWrites
  <2>5. QED
    BY <1>1, <2>1, <2>2, <2>3, <2>4 DEF Writes, WorksPc, Trying
<1>6. CASE PersistInvoice(w)
  <2>1. PICK k \in InvoiceKey \cup {NoKey}, s \in BOOLEAN :
          doc' = [doc EXCEPT ![d].inv = k, ![d].sure = s]
    BY <1>6 DEF PersistInvoice
  <2>2. ASSUME NEW e \in DocId PROVE Same(e)
    <3> DEFINE new == [doc[e] EXCEPT !.inv = k, !.sure = s]
    <3>1. doc'[e] = doc[e] \/ doc'[e] = new
      BY <1>0, <2>1
    <3>2. new.status = doc[e].status /\ new.file = doc[e].file
      BY <1>0 DEF Document
    <3> HIDE DEF new
    <3>3. QED
      BY <3>1, <3>2 DEF Same
  <2>3. QED
    BY <1>1, <2>2
<1>7. CASE FinalizeInvoiceDocument(w)
  <2>1. wk[w].pc = "finalize" /\ Step(w, "ack")
    BY <1>7 DEF FinalizeInvoiceDocument, Does
  <2>2. wk'[w].pc = "ack" /\ d \in DocId
    BY <1>0, <1>0a, <2>1 DEF Step, WorkerState
  <2>3. CASE ~Live(d)
    BY <1>3, <1>7, <2>3 DEF FinalizeInvoiceDocument
  <2>4. CASE Live(d)
    <3> DEFINE s == IF wk[w].dup # NoDoc THEN "DUPLICATE" ELSE StatusFor(wk[w].sure)
    <3>1. s \in Settled \ {"CONFIRMED"}
      BY DEF StatusFor, Settled, Ready
    <3>2. doc' = [doc EXCEPT ![d].status = s, ![d].dupOf = wk[w].dup]
      BY <1>7, <2>4 DEF FinalizeInvoiceDocument
    <3> HIDE DEF s
    <3>3. /\ doc'[d] = [doc[d] EXCEPT !.status = s, !.dupOf = wk[w].dup]
          /\ \A e \in DocId \ {d} : doc'[e] = doc[e]
      BY <1>0, <2>2, <3>2
    <3>4. doc'[d].status = s /\ doc'[d].file = doc[d].file
      BY <1>0, <2>2, <3>3 DEF Document
    <3>5. Writes(d, Settled \ {"CONFIRMED"})
      BY <2>2, <2>4, <3>1, <3>3, <3>4 DEF Writes, Same, LiveDocs, Live
    <3>6. QED
      BY <1>1, <2>1, <2>2, <3>5 DEF WorksPc, Trying
  <2>5. QED
    BY <2>3, <2>4
<1>8. QED
  BY <1>3, <1>4, <1>5, <1>6, <1>7
  DEF WorkerNext, WorkerStep, Process, FindDuplicateOriginal, WorkerError, Finish, WorkerCrash

\* What a request writes: a new document, none any more, or the status that it
\* was on its way to write.
LEMMA RequestWrites ==
    ASSUME TypeInv, NEW r \in Request, RequestNext(r)
    PROVE  /\ wk' = wk
           /\ \/ Creates(r)
              \/ /\ created' = created
                 /\ \/ \A d \in DocId : Same(d)
                    \/ /\ req[r].pc \in {"owDelete", "rmDelete"}
                       /\ \E x \in DocId : Deletes(x)
                    \/ req[r].pc = "confirm" /\ Writes(req[r].doc, {"CONFIRMED"})
                    \/ req[r].pc = "owPromote" /\ Writes(req[r].doc, Ready)
<1>0. /\ DocsOK /\ RequestsOK /\ RequestOK(r) /\ doc \in [DocId -> Document]
      /\ req[r] \in RequestState /\ created \in 0 .. MaxDocs
  BY DEF TypeInv, DocsOK, RequestsOK, IdsOK
<1>1. wk' = wk
  BY DEF RequestNext, UploadNew, UploadKnown, AssertMonthlyDocumentLimit, UploadStore,
     UploadCreate, SafeEnqueue, Confirm, ConfirmWrite, OverwriteDuplicate,
     OverwriteFindOriginal, OverwriteDelete, OverwriteDeleteFile, OverwritePromote, Remove,
     RemoveDelete, RemoveFile, RequestLost
<1>2. CASE doc' = doc /\ created' = created
  BY <1>1, <1>2 DEF Same
<1>3. CASE UploadCreate(r)
  <2>1. CASE HasFile(req[r].file)
    BY <1>2, <1>3, <2>1 DEF UploadCreate
  <2>2. CASE ~HasFile(req[r].file)
    <3>1. Cardinality(Uploading) \in Nat /\ Cardinality(Uploading) # 0
      BY <1>3, ConstantsAssumption, FS_Subset, FS_CardinalityType, FS_EmptySet
      DEF UploadCreate, At, Uploading
    <3>2. created + 1 \in DocId
      BY <1>0, <3>1, ConstantsAssumption DEF TypeInv, IdsOK
    <3>3. QED
      BY <1>1, <1>3, <2>2, <3>2 DEF UploadCreate, At, Creates
  <2>3. QED
    BY <2>1, <2>2
<1>4. CASE OverwriteDelete(r) \/ RemoveDelete(r)
  <2>1. /\ created' = created /\ req[r].pc \in {"owDelete", "rmDelete"}
        /\ doc' = doc \/ \E x \in DocId : Live(x) /\ doc' = WithoutRow(x)
    BY <1>4 DEF OverwriteDelete, RemoveDelete, At, Live
  <2>2. QED
    BY <1>0, <1>1, <1>2, <2>1, WithoutRowDeletes
<1>5. CASE ConfirmWrite(r)
  <2>1. /\ created' = created /\ req[r].pc = "confirm"
        /\ doc' = WithStatus(req[r].doc, "CONFIRMED")
    BY <1>5 DEF ConfirmWrite, At
  <2>2. req[r].doc \in DocId
    BY <1>0, <2>1, ConstantsAssumption DEF RequestOK, UploadPc, Known
  <2>3. QED
    BY <1>0, <1>1, <2>1, <2>2, WithStatusWrites DEF Settled
<1>6. CASE OverwritePromote(r)
  <2> DEFINE x == req[r].doc
             s == StatusFor(req[r].sure)
             new == [doc[x] EXCEPT !.status = s, !.dupOf = NoDoc]
  <2>1. created' = created /\ req[r].pc = "owPromote"
    BY <1>6 DEF OverwritePromote, At
  <2>2. x \in DocId
    BY <1>0, <2>1, ConstantsAssumption DEF RequestOK, UploadPc, Known
  <2>3. /\ \A d \in DocId \ {x} : doc'[d] = doc[d]
        /\ doc'[x] = IF Live(x) THEN new ELSE doc[x]
    BY <1>6, <2>2 DEF OverwritePromote
  <2>4. new.status \in Ready /\ new.file = doc[x].file
    BY <1>0, <2>2 DEF Document, StatusFor, Ready
  <2> HIDE DEF new, s
  <2>5. CASE Live(x)
    BY <1>1, <2>1, <2>3, <2>4, <2>5 DEF Writes, Same, LiveDocs, Live
  <2>6. CASE ~Live(x)
    BY <1>1, <2>1, <2>3, <2>6 DEF Same
  <2>7. QED
    BY <2>5, <2>6
<1>7. QED
  BY <1>2, <1>3, <1>4, <1>5, <1>6
  DEF RequestNext, UploadNew, UploadKnown, AssertMonthlyDocumentLimit, UploadStore, SafeEnqueue,
      Confirm, OverwriteDuplicate, OverwriteFindOriginal, OverwriteDeleteFile, Remove,
      RemoveFile, RequestLost

-----------------------------------------------------------------------------
(* The phases *)

Phases == [d \in DocId |-> PhaseOf(d)]

LEMMA PhaseValue ==
    ASSUME NEW d \in DocId
    PROVE  /\ doc[d].status \in Open => PhaseOf(d) = "open"
           /\ doc[d].status \in Ready => PhaseOf(d) = "ready"
           /\ doc[d].status = "DUPLICATE" => PhaseOf(d) = "duplicate"
           /\ doc[d].status = "NOT_INVOICE" => PhaseOf(d) = "other"
           /\ doc[d].status = "CONFIRMED" => PhaseOf(d) = "confirmed"
           /\ doc[d].status = "ABSENT" => PhaseOf(d) = IF d <= created THEN "gone" ELSE "none"
BY DEF PhaseOf, Open, Ready

\* A step that changes the status of x alone moves x alone.
LEMMA PhaseMove ==
    ASSUME NEW x \in DocId, created' = created, \A d \in DocId \ {x} : Same(d)
    PROVE  Phases' = [Phases EXCEPT ![x] = PhaseOf(x)']
<1>1. ASSUME NEW d \in DocId \ {x} PROVE PhaseOf(d)' = PhaseOf(d)
  BY DEF Same, PhaseOf
<1>2. QED
  BY <1>1 DEF Phases

LEMMA PhasesSame ==
    ASSUME created' = created, \A d \in DocId : Same(d)
    PROVE  Phases' = Phases
<1>1. ASSUME NEW d \in DocId PROVE PhaseOf(d)' = PhaseOf(d)
  BY DEF Same, PhaseOf
<1>2. QED
  BY <1>1 DEF Phases

\* Every step of the pipeline is a step of the document's abstract life, or
\* none of it.
LEMMA LifecycleStep ==
    TypeInv /\ LifeInv /\ [Next]_vars
        => Lifecycle!Next \/ Phases' = Phases
<1> SUFFICES ASSUME TypeInv, LifeInv, [Next]_vars PROVE Lifecycle!Next \/ Phases' = Phases
  OBVIOUS
<1>0. /\ doc \in [DocId -> Document] /\ \A d \in DocId : RowOK(d)
      /\ created \in 0 .. MaxDocs
      /\ TypeInv' /\ doc' \in [DocId -> Document]
  BY TypeInvStep DEF TypeInv, DocsOK, IdsOK
<1>1. ASSUME NEW x \in DocId, created' = created, \A d \in DocId \ {x} : Same(d)
      PROVE  /\ Phases' = [Phases EXCEPT ![x] = Phases'[x]]
             /\ Phases[x] = PhaseOf(x) /\ Phases'[x] = PhaseOf(x)'
  BY <1>1, PhaseMove DEF Phases
<1>2. ASSUME NEW x \in DocId
      PROVE  /\ doc'[x].status \in Open => PhaseOf(x)' = "open"
             /\ doc'[x].status \in Ready => PhaseOf(x)' = "ready"
             /\ doc'[x].status = "DUPLICATE" => PhaseOf(x)' = "duplicate"
             /\ doc'[x].status = "NOT_INVOICE" => PhaseOf(x)' = "other"
             /\ doc'[x].status = "CONFIRMED" => PhaseOf(x)' = "confirmed"
             /\ doc'[x].status = "ABSENT"
                  => PhaseOf(x)' = IF x <= created' THEN "gone" ELSE "none"
  BY DEF PhaseOf, Open, Ready
<1>3. ASSUME NEW w \in Worker, WorkerNext(w) PROVE Lifecycle!Next \/ Phases' = Phases
  <2> DEFINE x == wk[w].doc
  <2>1. created' = created
    BY <1>3, WorkerWrites
  <2>2. CASE \A d \in DocId : Same(d)
    BY <2>1, <2>2, PhasesSame
  <2>3. CASE wk[w].pc \in WorksPc /\ Writes(x, Open)
    <3>1. /\ x \in DocId /\ doc[x].status \in Open /\ doc'[x].status \in Open
          /\ \A d \in DocId \ {x} : Same(d)
      BY <2>3 DEF LifeInv, OpenInv, Writes, LiveDocs, Live
    <3>2. Phases[x] = "open" /\ Phases'[x] = "open"
      BY <1>1, <1>2, <2>1, <3>1, PhaseValue
    <3>3. QED
      BY <1>1, <2>1, <3>1, <3>2 DEF Phases
  <2>4. CASE wk[w].pc \in WorksPc /\ Writes(x, Settled \ {"CONFIRMED"})
    <3>1. /\ x \in DocId /\ doc[x].status \in Open
          /\ doc'[x].status \in Ready \cup {"DUPLICATE", "NOT_INVOICE"}
          /\ \A d \in DocId \ {x} : Same(d)
      BY <2>4 DEF LifeInv, OpenInv, Writes, LiveDocs, Live, Settled
    <3>2. Phases[x] = "open" /\ Phases'[x] \in {"ready", "duplicate", "other"}
      BY <1>1, <1>2, <2>1, <3>1, PhaseValue
    <3>3. Phases' = [Phases EXCEPT ![x] = Phases'[x]]
      BY <1>1, <2>1, <3>1
    <3>4. Lifecycle!Settle(x)
      BY <3>2, <3>3 DEF Lifecycle!Settle, Lifecycle!Move, Phases
    <3>5. QED
      BY <3>1, <3>4 DEF Lifecycle!Next
  <2>5. QED
    BY <1>3, <2>2, <2>3, <2>4, WorkerWrites
<1>4. ASSUME NEW r \in Request, RequestNext(r) PROVE Lifecycle!Next \/ Phases' = Phases
  <2> DEFINE y == req[r].doc
  <2>1. CASE Creates(r)
    <3>0. PICK n \in DocId : n = created + 1
      BY <2>1 DEF Creates
    <3>1. /\ created' = n /\ doc[n].status = "ABSENT"
          /\ doc' = [doc EXCEPT ![n] = NewRow(req[r].file)]
      BY <1>0, <2>1, <3>0 DEF Creates, RowOK, Known
    <3>2. doc'[n].status \in Open
      <4>1. doc'[n] = NewRow(req[r].file)
        BY <1>0, <3>1
      <4>2. QED
        BY <4>1 DEF NewRow, NoRow, Open
    <3>3. ASSUME NEW d \in DocId \ {n} PROVE PhaseOf(d)' = PhaseOf(d)
      <4>1. doc'[d] = doc[d]
        BY <1>0, <3>1
      <4>2. CASE d <= created
        <5>1. d <= created'
          BY <1>0, <3>0, <3>1, <4>2
        <5>2. QED
          BY <4>1, <4>2, <5>1 DEF PhaseOf
      <4>3. CASE ~(d <= created)
        <5>1. ~(d <= created')
          BY <1>0, <3>0, <3>1, <4>3
        <5>2. QED
          BY <4>1, <4>3, <5>1 DEF PhaseOf
      <4>4. QED
        BY <4>2, <4>3
    <3>4. PhaseOf(n) = "none"
      <4>1. ~(n <= created)
        BY <1>0, <3>0
      <4>2. QED
        BY <3>1, <4>1, PhaseValue
    <3>5. PhaseOf(n)' = "open"
      BY <1>2, <3>2
    <3>6. Phases' = [Phases EXCEPT ![n] = "open"] /\ Phases[n] = "none"
      <4>1. Phases' = [Phases EXCEPT ![n] = PhaseOf(n)'] /\ Phases[n] = PhaseOf(n)
        BY <3>3 DEF Phases
      <4>2. QED
        BY <3>4, <3>5, <4>1
    <3>7. Lifecycle!Create(n)
      BY <3>6 DEF Lifecycle!Create, Lifecycle!Move, Phases
    <3>8. QED
      BY <3>7 DEF Lifecycle!Next
  <2>2. ASSUME created' = created, \A d \in DocId : Same(d) PROVE Phases' = Phases
    BY <2>2, PhasesSame
  <2>3. ASSUME created' = created, NEW x \in DocId, Deletes(x) PROVE Lifecycle!Next
    <3>1. /\ doc[x] \in Document /\ doc[x].status # "ABSENT" /\ x <= created
          /\ doc'[x].status = "ABSENT" /\ \A d \in DocId \ {x} : Same(d)
      BY <1>0, <2>3, NoRowType DEF Deletes, LiveDocs, RowOK, Known
    <3>2. Phases[x] \in {"open", "ready", "duplicate", "other", "confirmed"}
      BY <1>1, <2>3, <3>1, PhaseValue DEF Document, Settled
    <3>3. Phases' = [Phases EXCEPT ![x] = "gone"]
      BY <1>1, <1>2, <2>3, <3>1
    <3>4. Lifecycle!Delete(x)
      BY <3>2, <3>3 DEF Lifecycle!Delete, Lifecycle!Move, Lifecycle!Phase, Phases
    <3>5. QED
      BY <3>4 DEF Lifecycle!Next
  <2>4. ASSUME created' = created, req[r].pc = "confirm", Writes(y, {"CONFIRMED"})
        PROVE  Lifecycle!Next
    <3>1. /\ y \in DocId /\ doc[y].status \in Confirmable /\ doc'[y].status = "CONFIRMED"
          /\ \A d \in DocId \ {y} : Same(d)
      BY <2>4 DEF LifeInv, ConfirmInv, Writes, LiveDocs, Live
    <3>2. Phases[y] \in {"ready", "confirmed"} /\ Phases' = [Phases EXCEPT ![y] = "confirmed"]
      BY <1>1, <1>2, <2>4, <3>1, PhaseValue DEF Confirmable
    <3>3. Lifecycle!Confirm(y)
      BY <3>2 DEF Lifecycle!Confirm, Lifecycle!Move, Phases
    <3>4. QED
      BY <3>1, <3>3 DEF Lifecycle!Next
  <2>5. ASSUME created' = created, req[r].pc = "owPromote", Writes(y, Ready)
        PROVE  Lifecycle!Next
    <3>1. /\ y \in DocId /\ doc[y].status \in Promotable /\ doc'[y].status \in Ready
          /\ \A d \in DocId \ {y} : Same(d)
      BY <2>5 DEF LifeInv, ConfirmInv, OverwritePc, Writes, LiveDocs, Live
    <3>2. /\ Phases[y] \in {"duplicate", "ready", "confirmed"}
          /\ Phases' = [Phases EXCEPT ![y] = "ready"]
      BY <1>1, <1>2, <2>5, <3>1, PhaseValue DEF Promotable
    <3>3. Lifecycle!Overwrite(y)
      BY <3>2 DEF Lifecycle!Overwrite, Lifecycle!Move, Phases
    <3>4. QED
      BY <3>1, <3>3 DEF Lifecycle!Next
  <2>6. QED
    BY <1>4, <2>1, <2>2, <2>3, <2>4, <2>5, RequestWrites
<1>5. CASE UNCHANGED <<doc, created>>
  BY <1>5, PhasesSame DEF Same
<1>6. QED
  BY <1>3, <1>4, <1>5 DEF Next, vars, QueueNext, RetryDelayed, JobStalled, EvictCompleted

-----------------------------------------------------------------------------
(* How workers, requests and jobs move *)

\* A worker in the middle of a job stays with its file and document, and leaves
\* the queue alone until it finishes.
LEMMA WorkerMoves ==
    ASSUME WorkersOK, NEW w \in Worker, WorkerStep(w), ~Finish(w)
    PROVE  /\ job' = job
           /\ wk[w].pc # "idle"
           /\ wk'[w].file = wk[w].file /\ wk'[w].doc = wk[w].doc
           /\ \A u \in Worker \ {w} : wk'[u] = wk[u]
           /\ wk'[w].pc \in WorksPc => wk[w].pc \in WorksPc
           /\ wk'[w].pc = "ack" => MarkNotInvoice(w) \/ FinalizeInvoiceDocument(w)
<1>0. wk[w] \in WorkerState
  BY DEF WorkersOK
<1> DEFINE Stays == /\ wk'[w].file = wk[w].file /\ wk'[w].doc = wk[w].doc
                    /\ \A u \in Worker \ {w} : wk'[u] = wk[u]
<1> USE DEF WorksPc, Trying
<1>1. ASSUME NEW pc, Step(w, pc) PROVE Stays /\ wk'[w].pc = pc
  BY <1>0, <1>1 DEF Step, WorkersOK, WorkerState
<1>2. CASE PersistInvoice(w)
  <2>1. PICK k, s : wk' = [wk EXCEPT ![w].pc = "persisted", ![w].key = k, ![w].sure = s]
    BY <1>2 DEF PersistInvoice
  <2>2. wk'[w] = [wk[w] EXCEPT !.pc = "persisted", !.key = k, !.sure = s]
        /\ \A u \in Worker \ {w} : wk'[u] = wk[u]
    BY <2>1 DEF WorkersOK
  <2>3. Stays /\ wk'[w].pc = "persisted"
    BY <1>0, <2>2 DEF WorkerState
  <2>4. QED
    BY <1>2, <2>3 DEF PersistInvoice, Does
<1>3. CASE FindDuplicateOriginal(w)
  <2>1. PICK x : wk' = [wk EXCEPT ![w].pc = "finalize", ![w].dup = x]
    BY <1>3 DEF FindDuplicateOriginal
  <2>2. wk'[w] = [wk[w] EXCEPT !.pc = "finalize", !.dup = x]
        /\ \A u \in Worker \ {w} : wk'[u] = wk[u]
    BY <2>1 DEF WorkersOK
  <2>3. Stays /\ wk'[w].pc = "finalize"
    BY <1>0, <2>2 DEF WorkerState
  <2>4. QED
    BY <1>3, <2>3 DEF FindDuplicateOriginal, Does
<1>4. CASE SetOcrRunning(w) \/ SetExtracting(w) \/ WorkerError(w) \/ SetFailed(w)
  <2>1. PICK pc \in {"recognizing", "extracting", "catch", "throw"} : Step(w, pc)
    BY <1>4 DEF SetOcrRunning, SetExtracting, WorkerError, SetFailed
  <2>2. job' = job /\ wk[w].pc \in WorksPc
    BY <1>4 DEF SetOcrRunning, SetExtracting, WorkerError, SetFailed, Does
  <2>3. QED
    BY <1>1, <2>1, <2>2
<1>5. CASE MarkNotInvoice(w) \/ FinalizeInvoiceDocument(w)
  <2>1. job' = job /\ wk[w].pc \in WorksPc /\ Step(w, "ack")
    BY <1>5 DEF MarkNotInvoice, FinalizeInvoiceDocument, Does
  <2>2. QED
    BY <1>1, <1>5, <2>1
<1>6. QED
  BY <1>2, <1>3, <1>4, <1>5 DEF WorkerStep

\* How a request comes to be where its next write depends on what it has read.
LEMMA RequestMoves ==
    ASSUME RequestsOK, NEW r \in Request, RequestNext(r)
    PROVE  /\ \A q \in Request \ {r} : req'[q] = req[q]
           /\ req'[r].pc = "enqueue" =>
                \/ req' = [req EXCEPT ![r].pc = "enqueue", ![r].doc = created + 1]
                   /\ UploadCreate(r) /\ ~HasFile(req[r].file)
                \/ doc' = doc /\ Live(req'[r].doc) /\ req'[r].file = doc[req'[r].doc].file
           /\ req'[r].pc = "confirm" => doc' = doc /\ doc[req'[r].doc].status \in Ready
           /\ req'[r].pc \in OverwritePc =>
                \/ req[r].pc \in OverwritePc /\ req'[r].doc = req[r].doc
                \/ doc' = doc /\ doc[req'[r].doc].status = "DUPLICATE" /\ "overwrite" \in Ops
           /\ req'[r].pc \in {"rmDelete", "rmFile"} => req[r].pc = "rmDelete" \/ "remove" \in Ops
<1> DEFINE Others == \A q \in Request \ {r} : req'[q] = req[q]
<1> USE DEF At
<1>0. req[r] \in RequestState
  BY DEF RequestsOK
<1>1. ASSUME NEW pc \in RequestPc, Goto(r, pc)
      PROVE  Others /\ req'[r].pc = pc /\ req'[r].doc = req[r].doc
  BY <1>1, GotoEffect
<1>2. ASSUME Return(r) PROVE Others /\ req'[r].pc = "idle"
  BY <1>2, ReturnEffect
<1>3. ASSUME NEW pc, NEW f, NEW d, NEW o, NEW s, Begin(r, Call(pc, f, d, o, s))
      PROVE  Others /\ req'[r].pc = pc /\ req'[r].file = f /\ req'[r].doc = d
  BY <1>3 DEF RequestsOK, Begin, Call
<1>4. ASSUME NEW f \in File, UploadNew(r, f) PROVE Others /\ req'[r].pc = "limit"
  BY <1>3, <1>4 DEF UploadNew
<1>5. ASSUME NEW d \in DocId, UploadKnown(r, d)
      PROVE  /\ Others /\ doc' = doc /\ Live(d)
             /\ req'[r].pc = "enqueue" /\ req'[r].doc = d /\ req'[r].file = doc[d].file
  BY <1>3, <1>5 DEF UploadKnown
<1>6. ASSUME NEW d \in DocId, Confirm(r, d)
      PROVE  /\ Others /\ doc' = doc /\ doc[d].status \in Ready
             /\ req'[r].pc = "confirm" /\ req'[r].doc = d
  BY <1>3, <1>6 DEF Confirm
<1>7. ASSUME NEW d \in DocId, OverwriteDuplicate(r, d)
      PROVE  /\ Others /\ doc' = doc /\ doc[d].status = "DUPLICATE" /\ "overwrite" \in Ops
             /\ req'[r].pc = "owOriginal" /\ req'[r].doc = d
  BY <1>3, <1>7 DEF OverwriteDuplicate
<1>8. ASSUME NEW d \in DocId, Remove(r, d)
      PROVE  Others /\ "remove" \in Ops /\ req'[r].pc = "rmDelete"
  BY <1>3, <1>8 DEF Remove
<1>9. CASE AssertMonthlyDocumentLimit(r) \/ UploadStore(r)
  <2>1. Return(r) \/ \E pc \in {"store", "create"} : Goto(r, pc)
    BY <1>9 DEF AssertMonthlyDocumentLimit, UploadStore
  <2>2. Others /\ req'[r].pc \in {"idle", "store", "create"}
    BY <1>1, <1>2, <2>1 DEF RequestPc
  <2>3. QED
    BY <2>2 DEF OverwritePc
<1>10. CASE UploadCreate(r)
  <2>1. CASE HasFile(req[r].file)
    BY <1>2, <1>10, <2>1 DEF UploadCreate, OverwritePc
  <2>2. CASE ~HasFile(req[r].file)
    <3>1. req' = [req EXCEPT ![r].pc = "enqueue", ![r].doc = created + 1]
      BY <1>10, <2>2 DEF UploadCreate
    <3>2. Others /\ req'[r] = [req[r] EXCEPT !.pc = "enqueue", !.doc = created + 1]
      BY <3>1 DEF RequestsOK
    <3>3. req'[r].pc = "enqueue"
      BY <1>0, <3>2 DEF RequestState
    <3>4. QED
      BY <1>10, <2>2, <3>1, <3>2, <3>3 DEF OverwritePc
  <2>3. QED
    BY <2>1, <2>2
<1>11. CASE OverwriteFindOriginal(r) \/ OverwriteDelete(r) \/ OverwriteDeleteFile(r)
  <2>1. /\ req[r].pc \in OverwritePc
        /\ Return(r) \/ \E pc \in OverwritePc : Goto(r, pc)
    BY <1>11 DEF OverwriteFindOriginal, OverwriteDelete, OverwriteDeleteFile, OverwritePc
  <2>2. OverwritePc \subseteq RequestPc
    BY DEF OverwritePc, RequestPc
  <2>3. CASE Return(r)
    BY <1>2, <2>3 DEF OverwritePc
  <2>4. ASSUME NEW pc \in OverwritePc, Goto(r, pc)
        PROVE  Others /\ req'[r].pc \in OverwritePc /\ req'[r].doc = req[r].doc
    BY <1>1, <2>2, <2>4
  <2>5. CASE \E pc \in OverwritePc : Goto(r, pc)
    BY <2>1, <2>4, <2>5 DEF OverwritePc
  <2>6. QED
    BY <2>1, <2>3, <2>5
<1>12. CASE RemoveDelete(r)
  <2>1. Return(r) \/ Goto(r, "rmFile")
    BY <1>12 DEF RemoveDelete
  <2>2. Others /\ req'[r].pc \in {"idle", "rmFile"} /\ req[r].pc = "rmDelete"
    BY <1>1, <1>2, <1>12, <2>1 DEF RemoveDelete, RequestPc
  <2>3. QED
    BY <2>2 DEF OverwritePc
<1>13. CASE \/ SafeEnqueue(r) \/ ConfirmWrite(r) \/ OverwritePromote(r) \/ RemoveFile(r)
            \/ RequestLost(r)
  <2>1. Return(r)
    BY <1>13 DEF SafeEnqueue, ConfirmWrite, OverwritePromote, RemoveFile, RequestLost
  <2>2. QED
    BY <1>2, <2>1 DEF OverwritePc
<1>14. QED
  BY <1>4, <1>5, <1>6, <1>7, <1>8, <1>9, <1>10, <1>11, <1>12, <1>13 DEF RequestNext, OverwritePc

\* The life of a job: SafeEnqueue adds one where there is none, it is taken,
\* delayed, handed out again or given up with the document it carries, a worker
\* that has processed or skipped the document completes it, and a completed one
\* is evicted.
LEMMA JobMoves ==
    ASSUME TypeInv, [Next]_vars, NEW f \in File
    PROVE  \/ job'[f] = job[f]
           \/ /\ job[f].state = "absent" /\ doc' = doc
              /\ \E r \in Request : /\ At(r, "enqueue") /\ req[r].file = f
                                    /\ job'[f] = Queue!NewJob(req[r].doc)
           \/ /\ job[f].state \in {"waiting", "active", "delayed"}
              /\ job'[f].state \in {"waiting", "active", "delayed", "failed"}
              /\ job'[f].data = job[f].data
           \/ /\ job'[f].state = "completed" /\ job'[f].data = job[f].data
              /\ \E w \in Worker : Does(w, "ack") /\ wk[w].file = f /\ Queue!Holds(w, f)
           \/ job[f].state = "completed" /\ job'[f] = Queue!NoJob
<1> DEFINE Runs == /\ job[f].state \in {"waiting", "active", "delayed"}
                   /\ job'[f].state \in {"waiting", "active", "delayed", "failed"}
                   /\ job'[f].data = job[f].data
<1>0. job \in [File -> Queue!JobRecord] /\ job[f] \in Queue!JobRecord
  BY DEF TypeInv, JobsOK
<1>1. ASSUME NEW g \in File, NEW w \in Worker, Queue!Take(w, g) PROVE job'[f] = job[f] \/ Runs
  BY <1>0, <1>1 DEF Queue!Take, Queue!JobRecord
<1>2. ASSUME NEW g \in File, NEW w \in Worker, Queue!Fail(w, g) PROVE job'[f] = job[f] \/ Runs
  BY <1>0, <1>2 DEF Queue!Fail, Queue!Holds, Queue!JobRecord
<1>3. ASSUME NEW g \in File, Queue!Promote(g) \/ Queue!Stall(g) PROVE job'[f] = job[f] \/ Runs
  BY <1>0, <1>3 DEF Queue!Promote, Queue!Stall, Queue!JobRecord
<1>4. ASSUME NEW g \in File, NEW w \in Worker, Queue!Complete(w, g), job'[f] # job[f]
      PROVE  /\ job'[f].state = "completed" /\ job'[f].data = job[f].data
             /\ g = f /\ Queue!Holds(w, f)
  BY <1>0, <1>4 DEF Queue!Complete, Queue!JobRecord
<1>5. ASSUME NEW g \in File, Queue!Evict(g), job'[f] # job[f]
      PROVE  job[f].state = "completed" /\ job'[f] = Queue!NoJob
  BY <1>0, <1>5 DEF Queue!Evict
<1>6. ASSUME NEW r \in Request, RequestNext(r), job'[f] # job[f]
      PROVE  /\ job[f].state = "absent" /\ doc' = doc
             /\ At(r, "enqueue") /\ req[r].file = f
             /\ job'[f] = Queue!NewJob(req[r].doc)
  <2>1. SafeEnqueue(r)
    BY <1>6 DEF RequestNext, UploadNew, UploadKnown, AssertMonthlyDocumentLimit, UploadStore,
       UploadCreate, Confirm, ConfirmWrite, OverwriteDuplicate, OverwriteFindOriginal,
       OverwriteDelete, OverwriteDeleteFile, OverwritePromote, Remove, RemoveDelete, RemoveFile,
       RequestLost
  <2>2. At(r, "enqueue") /\ doc' = doc /\ Queue!Add(req[r].file, req[r].doc)
    BY <1>6, <2>1 DEF SafeEnqueue
  <2>3. QED
    BY <1>0, <1>6, <2>2 DEF Queue!Add
<1>7. ASSUME NEW w \in Worker, WorkerNext(w), job'[f] # job[f]
      PROVE  \/ Runs
             \/ /\ job'[f].state = "completed" /\ job'[f].data = job[f].data
                /\ Does(w, "ack") /\ wk[w].file = f /\ Queue!Holds(w, f)
  <2>1. CASE \E g \in File : Process(w, g)
    BY <1>1, <1>7, <2>1 DEF Process
  <2>2. CASE Finish(w)
    <3>1. wk[w].file \in File
      BY <2>2 DEF Finish, Does, TypeInv, WorkersOK, WorkerOK
    <3>2. QED
      BY <1>2, <1>4, <1>7, <2>2, <3>1 DEF Finish
  <2>3. QED
    BY <1>7, <2>1, <2>2
    DEF WorkerNext, WorkerStep, SetOcrRunning, SetExtracting, MarkNotInvoice, PersistInvoice,
        FindDuplicateOriginal, FinalizeInvoiceDocument, WorkerError, SetFailed, WorkerCrash
<1>8. ASSUME NEW g \in File, QueueNext(g), job'[f] # job[f]
      PROVE  \/ Runs
             \/ job[f].state = "completed" /\ job'[f] = Queue!NoJob
  <2>1. Queue!Promote(g) \/ Queue!Stall(g) \/ Queue!Evict(g)
    BY <1>8 DEF QueueNext, RetryDelayed, JobStalled, EvictCompleted
  <2>2. CASE Queue!Promote(g) \/ Queue!Stall(g)
    BY <1>3, <1>8, <2>2
  <2>3. CASE Queue!Evict(g)
    BY <1>5, <1>8, <2>3
  <2>4. QED
    BY <2>1, <2>2, <2>3
<1>9. QED
  BY <1>6, <1>7, <1>8 DEF Next, vars

-----------------------------------------------------------------------------
(* The invariants are inductive *)

\* Two slots that are not idle have jobs of different files.
LEMMA HeldByOne ==
    ASSUME HoldInv, NEW w \in Worker, NEW u \in Worker,
           wk[w].pc # "idle", wk[u].pc # "idle", wk[w].file = wk[u].file
    PROVE  w = u
BY DEF HoldInv, Queue!Holds

\* And no two of them work on the same existing document.
LEMMA OneWorkerPerDocument ==
    ASSUME TypeInv, LifeInv, NEW w \in Worker, NEW u \in Worker,
           wk[w].pc # "idle", wk[u].pc # "idle", wk[w].doc = wk[u].doc, Live(wk[w].doc)
    PROVE  w = u
<1>1. wk[w].file \in File /\ wk[u].file \in File
  BY DEF TypeInv, WorkersOK, WorkerOK
<1>2. wk[w].file = wk[u].file
  BY <1>1 DEF LifeInv, HoldInv, JobFileInv
<1>3. QED
  BY <1>2, HeldByOne DEF LifeInv

\* What a step does to a document that goes on existing: its file stays, and
\* its status is changed by the worker that works on it, while it is open, or
\* by a request that confirms or promotes it.
LEMMA StatusMoves ==
    ASSUME TypeInv, LifeInv, [Next]_vars, NEW d \in Known, Live(d)'
    PROVE  /\ Live(d) /\ doc'[d].file = doc[d].file
           /\ \/ doc'[d].status = doc[d].status
              \/ /\ doc[d].status \in Open
                 /\ \E w \in Worker :
                       /\ WorkerNext(w) /\ wk[w].pc \in WorksPc /\ wk[w].doc = d
                       /\ doc'[d].status \in Open \/ wk'[w].pc = "ack"
              \/ doc[d].status \in Confirmable /\ doc'[d].status = "CONFIRMED"
              \/ doc[d].status \in Promotable /\ doc'[d].status \in Ready
<1>0. d \in DocId /\ Live(d) /\ created \in 0 .. MaxDocs /\ doc \in [DocId -> Document]
  BY RowStep, ConstantsAssumption DEF TypeInv, IdsOK, Known, Live, DocsOK
<1>1. CASE doc' = doc
  BY <1>0, <1>1
<1>2. ASSUME NEW w \in Worker, WorkerNext(w), ~Same(d)
      PROVE  /\ wk[w].pc \in WorksPc /\ wk[w].doc = d
             /\ doc'[d].file = doc[d].file
             /\ doc[d].status \in Open
             /\ doc'[d].status \in Open \/ wk'[w].pc = "ack"
  <2>1. /\ wk[w].pc \in WorksPc
        /\ \/ Writes(wk[w].doc, Open)
           \/ wk'[w].pc = "ack" /\ Writes(wk[w].doc, Settled \ {"CONFIRMED"})
    BY <1>0, <1>2, WorkerWrites
  <2>2. wk[w].doc = d
    BY <1>0, <1>2, <2>1 DEF Writes
  <2>3. QED
    BY <1>0, <2>1, <2>2 DEF Writes, LifeInv, OpenInv
<1>3. ASSUME NEW r \in Request, RequestNext(r), ~Same(d)
      PROVE  /\ doc'[d].file = doc[d].file
             /\ \/ doc[d].status \in Confirmable /\ doc'[d].status = "CONFIRMED"
                \/ doc[d].status \in Promotable /\ doc'[d].status \in Ready
  <2>1. CASE Creates(r)
    <3>1. d # created + 1
      BY <1>0 DEF Known
    <3>2. QED
      BY <1>0, <1>3, <2>1, <3>1 DEF Creates, Same
  <2>2. ASSUME NEW x \in DocId, Deletes(x) PROVE FALSE
    BY <1>0, <1>3, <2>2, NoRowType DEF Deletes, Live
  <2>3. CASE req[r].pc = "confirm" /\ Writes(req[r].doc, {"CONFIRMED"})
    BY <1>0, <1>3, <2>3 DEF Writes, LifeInv, ConfirmInv
  <2>4. CASE req[r].pc = "owPromote" /\ Writes(req[r].doc, Ready)
    BY <1>0, <1>3, <2>4 DEF Writes, LifeInv, ConfirmInv, OverwritePc
  <2>5. QED
    BY <1>0, <1>3, <2>1, <2>2, <2>3, <2>4, RequestWrites
<1>4. QED
  BY <1>0, <1>1, <1>2, <1>3
  DEF Same, Next, vars, QueueNext, RetryDelayed, JobStalled, EvictCompleted

\* A worker keeps the job it holds until it is done with it: nothing but the
\* loss of its lock takes it away.
LEMMA HoldStep ==
    ASSUME "lock" \notin Faults, TypeInv, LifeInv, [Next]_vars
    PROVE  HoldInv'
<1>0. JobsOK /\ WorkersOK /\ RequestsOK /\ HoldInv
  BY DEF TypeInv, LifeInv
<1>1. ASSUME job' = job, wk' = wk PROVE HoldInv'
  BY <1>0, <1>1 DEF HoldInv, Queue!Holds
<1>2. ASSUME NEW f \in File, NEW d, wk' = wk,
             Queue!Add(f, d) \/ Queue!Promote(f) \/ Queue!Evict(f)
      PROVE  HoldInv'
  <2>1. \A g \in File : job[g].state = "active" => job'[g] = job[g]
    BY <1>0, <1>2 DEF Queue!Add, Queue!Promote, Queue!Evict, JobsOK
  <2>2. QED
    BY <1>0, <1>2, <2>1 DEF HoldInv, Queue!Holds, WorkersOK, WorkerOK
<1>3. ASSUME NEW f \in File, JobStalled(f) PROVE HoldInv'
  <2>1. ~Executing(f) /\ Queue!Stall(f) /\ wk' = wk
    BY <1>3 DEF JobStalled
  <2>2. \A g \in File \ {f} : job'[g] = job[g]
    BY <1>0, <2>1 DEF Queue!Stall, JobsOK
  <2>3. QED
    BY <1>0, <2>1, <2>2 DEF HoldInv, Executing, Queue!Holds, WorkersOK, WorkerOK
<1>4. ASSUME NEW w \in Worker, NEW f \in File, Process(w, f) PROVE HoldInv'
  <2>1. /\ Queue!Holds(w, f)' /\ job'[f].data = job[f].data
        /\ \A g \in File \ {f} : job'[g] = job[g]
        /\ job[f].state = "waiting"
    BY <1>0, <1>4 DEF Process, Queue!Take, Queue!Holds, JobsOK, Queue!JobRecord
  <2>2. wk'[w].file = f /\ wk'[w].doc = job[f].data /\ \A u \in Worker \ {w} : wk'[u] = wk[u]
    BY <1>0, <1>4 DEF Process, Run, WorkersOK
  <2>3. QED
    BY <1>0, <2>1, <2>2 DEF HoldInv, Queue!Holds, WorkersOK, WorkerOK
<1>5. ASSUME NEW w \in Worker, WorkerStep(w), ~Finish(w) PROVE HoldInv'
  BY <1>0, <1>5, WorkerMoves DEF HoldInv, Queue!Holds
<1>6. ASSUME NEW w \in Worker, Finish(w) PROVE HoldInv'
  <2>1. /\ wk[w].pc # "idle" /\ wk'[w].pc = "idle"
        /\ \A u \in Worker \ {w} : wk'[u] = wk[u]
    BY <1>0, <1>6, IdleWorkerType DEF Finish, Does, WorkersOK
  <2>2. \A g \in File \ {wk[w].file} : job'[g] = job[g]
    BY <1>0, <1>6 DEF Finish, Queue!Complete, Queue!Fail, JobsOK
  <2>3. QED
    BY <1>0, <2>1, <2>2, HeldByOne DEF HoldInv, Queue!Holds, WorkersOK, WorkerOK
<1>7. ASSUME NEW w \in Worker, WorkerCrash(w) PROVE HoldInv'
  BY <1>0, <1>7, IdleWorkerType DEF WorkerCrash, HoldInv, Queue!Holds, WorkersOK
<1>8. ASSUME NEW r \in Request, RequestNext(r) PROVE HoldInv'
  <2>1. CASE SafeEnqueue(r)
    <3>1. req[r].file \in File
      BY <1>0, <2>1 DEF SafeEnqueue, At, RequestsOK, RequestOK, UploadPc
    <3>2. QED
      BY <1>1, <1>2, <2>1, <3>1 DEF SafeEnqueue
  <2>2. CASE ~SafeEnqueue(r)
    <3>1. job' = job /\ wk' = wk
      BY <1>8, <2>2
      DEF RequestNext, UploadNew, UploadKnown, AssertMonthlyDocumentLimit, UploadStore,
          UploadCreate, Confirm, ConfirmWrite, OverwriteDuplicate, OverwriteFindOriginal,
          OverwriteDelete, OverwriteDeleteFile, OverwritePromote, Remove, RemoveDelete,
          RemoveFile, RequestLost
    <3>2. QED
      BY <1>1, <3>1
  <2>3. QED
    BY <2>1, <2>2
<1>9. QED
  BY <1>1, <1>2, <1>3, <1>4, <1>5, <1>6, <1>7, <1>8
  DEF Next, WorkerNext, QueueNext, RetryDelayed, EvictCompleted, vars

LEMMA JobFileStep ==
    ASSUME TypeInv, LifeInv, [Next]_vars
    PROVE  JobFileInv'
<1>0. Known \subseteq Known' /\ \A r \in Request : RequestOK(r)
  <2>1. created \in 0 .. MaxDocs /\ created' \in 0 .. MaxDocs /\ created <= created'
    <3>1. created \in 0 .. MaxDocs /\ created' \in 0 .. MaxDocs
      BY TypeInvStep DEF TypeInv, IdsOK
    <3>2. created' = created \/ created' = created + 1
      BY WorkerWrites, RequestWrites
      DEF Next, vars, QueueNext, RetryDelayed, JobStalled, EvictCompleted, Creates
    <3>3. QED
      BY <3>1, <3>2
  <2>2. QED
    BY <2>1 DEF Known, TypeInv, RequestsOK
<1> SUFFICES ASSUME NEW f \in File, NEW d, d = job'[f].data
             PROVE  d \in Known' \cup {NoDoc} /\ (Live(d)' => doc'[d].file = f)
  BY DEF JobFileInv, Live
<1>1. CASE d \in {job[f].data, NoDoc}
  <2>1. d \in Known \cup {NoDoc}
    BY <1>1 DEF LifeInv, JobFileInv
  <2>2. ASSUME Live(d)' PROVE doc'[d].file = f
    <3>1. d # NoDoc
      BY <2>2 DEF Live
    <3>2. QED
      BY <1>1, <2>1, <2>2, <3>1, StatusMoves DEF LifeInv, JobFileInv
  <2>3. QED
    BY <1>0, <2>1, <2>2
<1>2. ASSUME NEW r \in Request, At(r, "enqueue"), doc' = doc, req[r].file = f, req[r].doc = d
      PROVE  d \in Known' \cup {NoDoc} /\ (Live(d)' => doc'[d].file = f)
  <2>1. d \in Known
    BY <1>0, <1>2 DEF RequestOK, At, UploadPc
  <2>2. QED
    BY <1>0, <1>2, <2>1 DEF LifeInv, EnqueueInv, Live
<1>3. QED
  <2>1. CASE job'[f].data \in {job[f].data, NoDoc}
    BY <1>1, <2>1
  <2>2. ASSUME NEW r \in Request, At(r, "enqueue"), doc' = doc, req[r].file = f,
               job'[f] = Queue!NewJob(req[r].doc)
        PROVE  d \in Known' \cup {NoDoc} /\ (Live(d)' => doc'[d].file = f)
    BY <1>2, <2>2 DEF Queue!NewJob
  <2>3. Queue!NoJob.data = NoDoc
    BY DEF Queue!NoJob
  <2>4. QED
    BY <2>1, <2>2, <2>3, JobMoves

LEMMA EnqueueStep ==
    ASSUME TypeInv, LifeInv, [Next]_vars
    PROVE  EnqueueInv'
<1>0. RequestsOK /\ DocsOK /\ created \in 0 .. MaxDocs
  BY DEF TypeInv, IdsOK
<1> SUFFICES ASSUME NEW r \in Request, NEW d, req'[r].pc = "enqueue", req'[r].doc = d, Live(d)'
             PROVE  doc'[d].file = req'[r].file
  BY DEF EnqueueInv, Live, At
<1>1. CASE req'[r] = req[r]
  <2>1. d \in Known
    BY <1>0, <1>1 DEF RequestsOK, RequestOK, UploadPc
  <2>2. QED
    BY <1>1, <2>1, StatusMoves DEF LifeInv, EnqueueInv, At
<1>2. ASSUME RequestNext(r) PROVE doc'[d].file = req'[r].file
  <2>1. CASE /\ req' = [req EXCEPT ![r].pc = "enqueue", ![r].doc = created + 1]
             /\ UploadCreate(r) /\ ~HasFile(req[r].file)
    <3>1. req'[r] = [req[r] EXCEPT !.pc = "enqueue", !.doc = created + 1] /\ req[r] \in RequestState
      BY <1>0, <2>1 DEF RequestsOK
    <3>2. d = created + 1 /\ req'[r].file = req[r].file
      BY <3>1 DEF RequestState
    <3>3. d \in DocId /\ doc' = [doc EXCEPT ![d] = NewRow(req[r].file)]
      BY <2>1, <3>2 DEF UploadCreate, Live
    <3>4. doc'[d].file = req[r].file
      BY <1>0, <3>3 DEF DocsOK, NewRow, NoRow
    <3>5. QED
      BY <3>2, <3>4
  <2>2. QED
    BY <1>0, <1>2, <2>1, RequestMoves
<1>3. ASSUME NEW q \in Request \ {r}, RequestNext(q) PROVE req'[r] = req[r]
  BY <1>0, <1>3, RequestMoves
<1>4. QED
  BY <1>1, <1>2, <1>3, WorkerWrites
  DEF Next, vars, QueueNext, RetryDelayed, JobStalled, EvictCompleted

\* A worker that is still trying has written no status that settles the
\* document, and since it holds the job nobody else has.
LEMMA OpenStep ==
    ASSUME TypeInv, LifeInv, [Next]_vars
    PROVE  OpenInv'
<1>0. DocsOK /\ WorkersOK /\ Live(NoDoc) = FALSE
  BY DEF TypeInv, Live
<1> SUFFICES ASSUME NEW u \in Worker, NEW d,
                    wk'[u].pc \in WorksPc, wk'[u].doc = d, Live(d)'
             PROVE  doc'[d].status \in Open
  BY DEF OpenInv, Live
<1>1. ASSUME wk[u].pc \in WorksPc, wk[u].doc = d PROVE doc'[d].status \in Open
  <2>1. d \in Known /\ wk[u].pc # "idle"
    BY <1>0, <1>1 DEF WorkersOK, WorkerOK, WorksPc, Trying
  <2>2. Live(d) /\ doc[d].status \in Open
    BY <1>1, <2>1, StatusMoves DEF LifeInv, OpenInv
  <2>3. ASSUME NEW w \in Worker, wk[w].pc \in WorksPc, wk[w].doc = d, wk'[w].pc = "ack"
        PROVE  FALSE
    <3>1. wk[w].pc # "idle"
      BY <2>3 DEF WorksPc, Trying
    <3>2. w = u
      BY <1>1, <2>1, <2>2, <2>3, <3>1, OneWorkerPerDocument
    <3>3. QED
      BY <2>3, <3>2 DEF WorksPc, Trying
  <2>4. Open \cap Promotable = {} /\ Confirmable \subseteq Promotable
    BY DEF Open, Promotable, Confirmable, Ready
  <2>5. QED
    BY <2>1, <2>2, <2>3, <2>4, StatusMoves
<1>2. CASE wk'[u] = wk[u]
  BY <1>1, <1>2
<1>3. CASE WorkerStep(u)
  <2>1. ~Finish(u)
    BY <1>0, IdleWorkerType DEF Finish, WorkersOK, WorksPc, Trying
  <2>2. QED
    BY <1>0, <1>1, <1>3, <2>1, WorkerMoves
<1>4. ASSUME NEW f \in File, Process(u, f) PROVE doc'[d].status \in Open
  <2>1. doc' = doc /\ wk'[u].doc = job[f].data
        /\ (wk'[u].pc = "start" => ~(Live(job[f].data) => doc[job[f].data].status \in Settled))
        /\ wk'[u].pc \in {"start", "ack", "throw"}
    BY <1>0, <1>4 DEF Process, Run, WorkersOK
  <2>2. Live(d) /\ doc[d].status \notin Settled /\ doc[d] \in Document
    BY <1>0, <2>1 DEF WorksPc, Trying, DocsOK, Live
  <2>3. QED
    BY <2>1, <2>2 DEF Document, Live
<1>5. CASE WorkerCrash(u)
  BY <1>0, <1>5, IdleWorkerType DEF WorkerCrash, WorkersOK, WorksPc, Trying
<1>6. ASSUME NEW w \in Worker \ {u}, WorkerNext(w) PROVE wk'[u] = wk[u]
  <2>1. CASE WorkerStep(w) /\ ~Finish(w)
    BY <1>0, <2>1, WorkerMoves
  <2>2. CASE Finish(w) \/ WorkerCrash(w) \/ \E f \in File : Process(w, f)
    BY <1>0, <2>2 DEF Finish, WorkerCrash, Process, WorkersOK
  <2>3. QED
    BY <1>6, <2>1, <2>2 DEF WorkerNext
<1>7. QED
  BY <1>2, <1>3, <1>4, <1>5, <1>6, RequestWrites
  DEF Next, WorkerNext, vars, QueueNext, RetryDelayed, JobStalled, EvictCompleted

LEMMA ConfirmStep ==
    ASSUME TypeInv, LifeInv, [Next]_vars
    PROVE  ConfirmInv'
<1>0. RequestsOK /\ Confirmable \subseteq Promotable /\ Ready \subseteq Confirmable
      /\ Open \cap Promotable = {}
  BY DEF TypeInv, Open, Promotable, Confirmable, Ready
<1> SUFFICES ASSUME NEW r \in Request, NEW d, req'[r].doc = d, Live(d)'
             PROVE  /\ req'[r].pc = "confirm" => doc'[d].status \in Confirmable
                    /\ req'[r].pc \in OverwritePc => doc'[d].status \in Promotable
  BY DEF ConfirmInv, Live
<1>1. ASSUME req[r].doc = d, req[r].pc = "confirm" PROVE doc'[d].status \in Confirmable
  <2>1. d \in Known
    BY <1>0, <1>1 DEF RequestsOK, RequestOK, UploadPc
  <2>2. Live(d) /\ doc[d].status \in Confirmable
    BY <1>1, <2>1, StatusMoves DEF LifeInv, ConfirmInv
  <2>3. QED
    BY <1>0, <2>1, <2>2, StatusMoves DEF Confirmable
<1>2. ASSUME req[r].doc = d, req[r].pc \in OverwritePc PROVE doc'[d].status \in Promotable
  <2>1. d \in Known
    BY <1>0, <1>2 DEF RequestsOK, RequestOK, UploadPc, OverwritePc
  <2>2. Live(d) /\ doc[d].status \in Promotable
    BY <1>2, <2>1, StatusMoves DEF LifeInv, ConfirmInv
  <2>3. QED
    BY <1>0, <2>1, <2>2, StatusMoves DEF Promotable
<1>3. CASE req'[r] = req[r]
  BY <1>1, <1>2, <1>3
<1>4. CASE RequestNext(r)
  <2>1. req'[r].pc = "confirm" => doc' = doc /\ doc[d].status \in Ready
    BY <1>0, <1>4, RequestMoves
  <2>2. req'[r].pc \in OverwritePc => \/ req[r].pc \in OverwritePc /\ d = req[r].doc
                                      \/ doc' = doc /\ doc[d].status = "DUPLICATE"
    BY <1>0, <1>4, RequestMoves
  <2>3. QED
    BY <1>0, <1>2, <2>1, <2>2 DEF Promotable
<1>5. ASSUME NEW q \in Request \ {r}, RequestNext(q) PROVE req'[r] = req[r]
  BY <1>0, <1>5, RequestMoves
<1>6. QED
  BY <1>3, <1>4, <1>5, WorkerWrites
  DEF Next, vars, QueueNext, RetryDelayed, JobStalled, EvictCompleted

LEMMA LifeInvInit == Init => LifeInv
<1> SUFFICES ASSUME Init PROVE LifeInv
  OBVIOUS
<1>1. /\ \A r \in Request : req[r].pc = "idle"
      /\ \A w \in Worker : wk[w].pc = "idle"
      /\ \A f \in File : job[f].data = NoDoc
  BY DEF Init, IdleRequest, Call, IdleWorker, Run, Queue!QueueInit, Queue!NoJob
<1>2. ~Live(NoDoc)
  BY DEF Live
<1>3. QED
  BY <1>1, <1>2
  DEF LifeInv, HoldInv, JobFileInv, EnqueueInv, OpenInv, ConfirmInv, WorksPc, Trying, OverwritePc,
      At

LEMMA LifeInvStep ==
    ASSUME "lock" \notin Faults
    PROVE  TypeInv /\ LifeInv /\ [Next]_vars => LifeInv'
BY HoldStep, JobFileStep, EnqueueStep, OpenStep, ConfirmStep DEF LifeInv

\* As long as no worker loses the lock of a job it runs, the pipeline
\* implements the life of a document: whatever crashes, fails, is retried,
\* redelivered or interleaved, no settled document is opened again, a
\* confirmed one stays confirmed until it is deleted or, as a duplicate
\* overwritten twice, promoted once more, and a deleted one never comes back.
THEOREM LifecycleImplemented ==
    ASSUME "lock" \notin Faults
    PROVE  Spec => ImplementsLifecycle
<1>1. ASSUME Init PROVE Lifecycle!Init
  BY <1>1, PhaseValue, NoRowType DEF Init, Lifecycle!Init
<1>2. TypeInv /\ LifeInv /\ [Next]_vars => [Lifecycle!Next]_([d \in DocId |-> PhaseOf(d)])
  BY LifecycleStep DEF Phases
<1>3. QED
  BY <1>1, <1>2, TypeInvInit, TypeInvStep, LifeInvInit, LifeInvStep, PTL
  DEF Spec, ImplementsLifecycle, Lifecycle!Spec

-----------------------------------------------------------------------------
(* No document is left without a job *)

\* A row that was not there before is the one an upload creates.
LEMMA NewDocument ==
    ASSUME TypeInv, [Next]_vars, NEW d \in DocId, d \notin Known, Live(d)'
    PROVE  \E r \in Request : RequestNext(r) /\ Creates(r) /\ d = created + 1
<1>1. ~Live(d) /\ DocsOK
  BY DEF TypeInv, DocsOK, RowOK, Live
<1>2. ~Same(d)
  BY <1>1 DEF Same, Live
<1>3. ASSUME NEW x, NEW S, Writes(x, S) PROVE FALSE
  BY <1>1, <1>2, <1>3 DEF Writes, LiveDocs, Live
<1>4. ASSUME NEW x, Deletes(x) PROVE FALSE
  BY <1>1, <1>2, <1>4 DEF Deletes, LiveDocs, Live
<1>5. PICK r \in Request : RequestNext(r) /\ doc' # doc
  BY <1>2, <1>3, WorkerWrites
  DEF Same, Next, vars, QueueNext, RetryDelayed, JobStalled, EvictCompleted
<1>6. Creates(r)
  BY <1>2, <1>3, <1>4, <1>5, RequestWrites
<1>7. QED
  BY <1>1, <1>2, <1>5, <1>6 DEF Creates, DocsOK, Same

\* A file is looked up in the step that creates its row.
LEMMA UniqueStep ==
    ASSUME TypeInv, LifeInv, FileUnique, [Next]_vars
    PROVE  FileUnique'
<1>0. created \in 0 .. MaxDocs /\ DocsOK
  BY DEF TypeInv, IdsOK
<1>1. ASSUME NEW d \in DocId, NEW e \in Known, Live(d)', Live(e)', d \notin Known
      PROVE  doc'[d].file # doc'[e].file
  <2>1. PICK r \in Request : Creates(r) /\ d = created + 1
    BY <1>1, NewDocument
  <2>2. doc'[d].file = req[r].file
    BY <1>0, <1>1, <2>1 DEF Creates, DocsOK, NewRow, NoRow
  <2>3. Live(e) /\ doc'[e].file = doc[e].file
    BY <1>1, StatusMoves
  <2>4. QED
    BY <2>1, <2>2, <2>3 DEF Creates, HasFile, LiveDocs, Live
<1>2. ASSUME NEW d \in DocId, NEW e \in DocId, Live(d)', Live(e)', d \notin Known, e \notin Known
      PROVE  d = e
  BY <1>2, NewDocument
<1>3. ASSUME NEW d \in Known, NEW e \in Known, Live(d)', Live(e)', doc'[d].file = doc'[e].file
      PROVE  d = e
  <2>1. Live(d) /\ Live(e) /\ doc[d].file = doc[e].file
    BY <1>3, StatusMoves
  <2>2. QED
    BY <2>1 DEF FileUnique, LiveDocs, Live
<1>4. QED
  BY <1>1, <1>2, <1>3 DEF FileUnique, LiveDocs, Live

LEMMA KeptStep ==
    ASSUME Ops \cap {"remove", "overwrite"} = {}, TypeInv, NothingDeleted, [Next]_vars
    PROVE  NothingDeleted'
<1>0. RequestsOK /\ DocsOK /\ created \in 0 .. MaxDocs
  BY DEF TypeInv, IdsOK
<1>1. ASSUME NEW d \in Known PROVE Live(d)'
  <2>1. Live(d) /\ d \in DocId
    BY <1>1 DEF NothingDeleted, Live
  <2>2. ASSUME Same(d) PROVE Live(d)'
    BY <2>1, <2>2 DEF Same, Live
  <2>3. ASSUME NEW x, NEW S, Writes(x, S), "ABSENT" \notin S PROVE Live(d)'
    BY <2>1, <2>2, <2>3 DEF Writes, Live
  <2>4. "ABSENT" \notin Open /\ "ABSENT" \notin Settled /\ "ABSENT" \notin Ready
    BY DEF Open, Settled, Ready
  <2>5. ASSUME NEW r \in Request, Creates(r) PROVE Live(d)'
    <3>1. d # created + 1
      BY <1>0, <1>1 DEF Known
    <3>2. QED
      BY <1>0, <2>1, <2>5, <3>1 DEF Creates, DocsOK, Live
  <2>6. ASSUME NEW w \in Worker, WorkerNext(w) PROVE Live(d)'
    BY <2>1, <2>2, <2>3, <2>4, <2>6, WorkerWrites
  <2>7. ASSUME NEW r \in Request, RequestNext(r) PROVE Live(d)'
    <3>1. req[r].pc \notin {"owDelete", "rmDelete"}
      BY DEF NothingDeleted, OverwritePc
    <3>2. QED
      BY <2>1, <2>2, <2>3, <2>4, <2>5, <2>7, <3>1, RequestWrites
  <2>8. CASE doc' = doc
    BY <2>2, <2>8 DEF Same
  <2>9. QED
    BY <2>6, <2>7, <2>8 DEF Next, vars, QueueNext, RetryDelayed, JobStalled, EvictCompleted
<1>2. ASSUME NEW d \in Known', d \notin Known PROVE Live(d)'
  <2>1. PICK r \in Request : Creates(r)
    BY <1>2, WorkerWrites, RequestWrites
    DEF Known, Next, vars, QueueNext, RetryDelayed, JobStalled, EvictCompleted
  <2>2. d = created + 1 /\ d \in DocId
    BY <1>0, <1>2, <2>1 DEF Creates, Known
  <2>3. doc'[d].status = "QUEUED"
    BY <1>0, <2>1, <2>2 DEF Creates, DocsOK, NewRow, NoRow
  <2>4. QED
    BY <2>2, <2>3 DEF Live
<1>3. ASSUME NEW r \in Request PROVE req'[r].pc \notin OverwritePc \cup {"rmDelete", "rmFile"}
  <2>1. req[r].pc \notin OverwritePc \cup {"rmDelete", "rmFile"}
    BY DEF NothingDeleted
  <2>2. CASE RequestNext(r)
    BY <1>0, <2>1, <2>2, RequestMoves
  <2>3. ASSUME NEW q \in Request \ {r}, RequestNext(q) PROVE req'[r] = req[r]
    BY <1>0, <2>3, RequestMoves
  <2>4. QED
    BY <2>1, <2>2, <2>3, WorkerWrites
    DEF Next, vars, QueueNext, RetryDelayed, JobStalled, EvictCompleted
<1>4. QED
  BY <1>1, <1>2, <1>3 DEF NothingDeleted

\* A settled document stays settled.
LEMMA SettledStays ==
    ASSUME TypeInv, LifeInv, [Next]_vars, NEW d \in Known, Live(d)', doc[d].status \in Settled
    PROVE  doc'[d].status \in Settled
<1>1. Open \cap Settled = {} /\ Ready \subseteq Settled /\ "CONFIRMED" \in Settled
  BY DEF Open, Settled, Ready
<1>2. QED
  BY <1>1, StatusMoves

LEMMA SettledStep ==
    ASSUME Ops \cap {"remove", "overwrite"} = {},
           TypeInv, LifeInv, NothingDeleted, SettledInv, [Next]_vars
    PROVE  SettledInv'
<1>0. /\ WorkersOK /\ JobsOK /\ DocsOK
      /\ \A d \in Known : Live(d) /\ Live(d)'
  <2>1. Known \subseteq Known' /\ NothingDeleted'
    <3>1. created \in 0 .. MaxDocs /\ (created' = created \/ created' = created + 1)
      BY WorkerWrites, RequestWrites
      DEF Next, vars, QueueNext, RetryDelayed, JobStalled, EvictCompleted, Creates, TypeInv, IdsOK
    <3>2. QED
      BY <3>1, KeptStep DEF Known
  <2>2. QED
    BY <2>1 DEF NothingDeleted, TypeInv, Live
<1>1. ASSUME NEW w \in Worker, wk[w].pc = "ack" PROVE doc'[wk[w].doc].status \in Settled
  <2>1. wk[w].doc \in Known /\ doc[wk[w].doc].status \in Settled
    BY <1>0, <1>1 DEF WorkersOK, WorkerOK, SettledInv
  <2>2. QED
    BY <1>0, <2>1, SettledStays
<1>2. ASSUME NEW w \in Worker, NEW d, wk'[w].pc = "ack", d = wk'[w].doc
      PROVE  doc'[d].status \in Settled
  <2>1. CASE wk'[w] = wk[w]
    BY <1>1, <1>2, <2>1
  <2>2. ASSUME NEW f \in File, Process(w, f) PROVE doc'[d].status \in Settled
    <3>1. /\ doc' = doc /\ d = job[f].data /\ job[f].state = "waiting"
          /\ Live(d) => doc[d].status \in Settled
      BY <1>0, <1>2, <2>2 DEF Process, Queue!Take, Run, WorkersOK
    <3>2. Live(d)
      BY <1>0, <3>1 DEF JobsOK, JobOK
    <3>3. QED
      BY <3>1, <3>2
  <2>3. CASE WorkerStep(w)
    <3>1. ~Finish(w)
      BY <1>0, <1>2, <2>3, IdleWorkerType DEF Finish, WorkersOK
    <3>2. d = wk[w].doc /\ (MarkNotInvoice(w) \/ FinalizeInvoiceDocument(w)) /\ wk[w].pc # "idle"
      BY <1>0, <1>2, <2>3, <3>1, WorkerMoves
    <3>3. d \in DocId /\ Live(d) /\ doc[d] \in Document
      BY <1>0, <3>2 DEF WorkersOK, WorkerOK, Live, DocsOK
    <3>4. CASE MarkNotInvoice(w)
      <4>1. doc'[d] = [doc[d] EXCEPT !.status = "NOT_INVOICE"]
        BY <3>2, <3>3, <3>4 DEF MarkNotInvoice, WithStatus
      <4>2. QED
        BY <3>3, <4>1 DEF Document, Settled
    <3>5. CASE FinalizeInvoiceDocument(w)
      <4> DEFINE s == IF wk[w].dup # NoDoc THEN "DUPLICATE" ELSE StatusFor(wk[w].sure)
      <4>1. s \in Settled
        BY DEF StatusFor, Settled, Ready
      <4>2. doc' = [doc EXCEPT ![d].status = s, ![d].dupOf = wk[w].dup]
        BY <3>2, <3>3, <3>5 DEF FinalizeInvoiceDocument
      <4> HIDE DEF s
      <4>3. doc'[d] = [doc[d] EXCEPT !.status = s, !.dupOf = wk[w].dup]
        BY <1>0, <3>3, <4>2 DEF DocsOK
      <4>4. QED
        BY <3>3, <4>1, <4>3 DEF Document
    <3>6. QED
      BY <3>2, <3>4, <3>5
  <2>4. CASE WorkerCrash(w)
    BY <1>0, <1>2, <2>4, IdleWorkerType DEF WorkerCrash, WorkersOK
  <2>5. ASSUME NEW u \in Worker \ {w}, WorkerNext(u) PROVE wk'[w] = wk[w]
    <3>1. CASE WorkerStep(u) /\ ~Finish(u)
      BY <1>0, <3>1, WorkerMoves
    <3>2. CASE Finish(u) \/ WorkerCrash(u) \/ \E f \in File : Process(u, f)
      BY <1>0, <3>2 DEF Finish, WorkerCrash, Process, WorkersOK
    <3>3. QED
      BY <2>5, <3>1, <3>2 DEF WorkerNext
  <2>6. QED
    BY <2>1, <2>2, <2>3, <2>4, <2>5, RequestWrites
    DEF Next, WorkerNext, vars, QueueNext, RetryDelayed, JobStalled, EvictCompleted
<1>3. ASSUME NEW f \in File, NEW d, job'[f].state = "completed", d = job'[f].data
      PROVE  doc'[d].status \in Settled
  <2>1. CASE job'[f] = job[f]
    <3>1. d \in Known /\ doc[d].status \in Settled
      BY <1>0, <1>3, <2>1 DEF SettledInv, JobsOK, JobOK
    <3>2. QED
      BY <1>0, <3>1, SettledStays
  <2>2. ASSUME NEW w \in Worker, Does(w, "ack"), wk[w].file = f, job'[f].data = job[f].data
        PROVE  doc'[d].status \in Settled
    BY <1>1, <1>3, <2>2 DEF LifeInv, HoldInv, Does
  <2>3. Queue!NoJob.state # "completed" /\ \A e : Queue!NewJob(e).state # "completed"
    BY DEF Queue!NoJob, Queue!NewJob
  <2>4. QED
    BY <1>3, <2>1, <2>2, <2>3, JobMoves
<1>4. QED
  BY <1>2, <1>3 DEF SettledInv

\* An open document keeps its way into the queue, its job, or its place in the
\* failed set.
LEMMA NoStrandedStep ==
    ASSUME Ops \cap {"remove", "overwrite"} = {}, Faults \cap {"redis", "api"} = {},
           TypeInv, LifeInv, StrandInv, [Next]_vars
    PROVE  NoStrandedDocument'
<1> DEFINE InQueue == {"waiting", "active", "delayed", "failed"}
<1>0. /\ RequestsOK /\ DocsOK /\ JobsOK
      /\ FileUnique /\ NothingDeleted /\ SettledInv /\ NoStrandedDocument
      /\ Open \cap Settled = {}
  BY DEF TypeInv, StrandInv, Open, Settled, Ready
<1> SUFFICES ASSUME NEW d \in DocId, Live(d)', doc'[d].status \in Open
             PROVE  \/ \E r \in Request : At(r, "enqueue")' /\ req'[r].doc = d
                    \/ job'[doc'[d].file].data = d /\ job'[doc'[d].file].state \in InQueue
  BY DEF NoStrandedDocument, LiveDocs, Live
<1>1. CASE d \notin Known
  <2>1. PICK r \in Request : Creates(r) /\ d = created + 1
    BY <1>1, NewDocument
  <2>2. req'[r] = [req[r] EXCEPT !.pc = "enqueue", !.doc = d] /\ req[r] \in RequestState
    BY <1>0, <2>1 DEF Creates, RequestsOK
  <2>3. req'[r].pc = "enqueue" /\ req'[r].doc = d
    BY <2>2 DEF RequestState
  <2>4. QED
    BY <2>3 DEF At
<1>2. CASE d \in Known
  <2> DEFINE f == doc[d].file
  <2>1. /\ Live(d) /\ d # NoDoc /\ doc'[d].file = f /\ f \in File
        /\ doc[d].status \in Open
    <3>1. Live(d) /\ doc'[d].file = f
      BY <1>2, StatusMoves
    <3>2. doc[d].status \in Open
      BY <1>0, <1>2, <3>1, SettledStays DEF DocsOK, Document, Live
    <3>3. QED
      BY <1>0, <3>1, <3>2 DEF DocsOK, RowOK, Live
  <2>2. CASE \E r \in Request : At(r, "enqueue") /\ req[r].doc = d
    <3>1. PICK r \in Request : At(r, "enqueue") /\ req[r].doc = d
      BY <2>2
    <3>2. CASE req'[r] = req[r]
      BY <3>1, <3>2 DEF At
    <3>3. CASE RequestNext(r)
      <4>1. SafeEnqueue(r)
        BY <1>0, <3>1, <3>3
        DEF At, RequestNext, UploadNew, UploadKnown, AssertMonthlyDocumentLimit, UploadStore,
            UploadCreate, Confirm, ConfirmWrite, OverwriteDuplicate, OverwriteFindOriginal,
            OverwriteDelete, OverwriteDeleteFile, OverwritePromote, Remove, RemoveDelete,
            RemoveFile, RequestLost
      <4>2. req[r].file = f /\ Queue!Add(f, d)
        <5>1. req[r].file = f
          BY <2>1, <3>1 DEF LifeInv, EnqueueInv
        <5>2. "redis" \notin Faults
          OBVIOUS
        <5>3. QED
          BY <3>1, <4>1, <5>1, <5>2 DEF SafeEnqueue
      <4>3. CASE job[f].state = "absent"
        <5>1. job'[f] = Queue!NewJob(d)
          BY <1>0, <2>1, <4>2, <4>3 DEF Queue!Add, JobsOK
        <5>2. QED
          BY <2>1, <5>1 DEF Queue!NewJob
      <4>4. CASE job[f].state # "absent"
        <5>1. job' = job
          BY <4>2, <4>4 DEF Queue!Add
        <5>2. job[f].data \in Known /\ Live(job[f].data)
          BY <1>0, <2>1, <4>4 DEF JobsOK, JobOK, NothingDeleted
        <5>3. doc[job[f].data].file = f
          BY <2>1, <5>2 DEF LifeInv, JobFileInv
        <5>4. job[f].data = d
          BY <1>0, <2>1, <5>2, <5>3 DEF FileUnique, LiveDocs, Live
        <5>5. job[f].state # "completed"
          BY <1>0, <2>1, <5>4 DEF SettledInv
        <5>6. job[f].state \in InQueue
          BY <1>0, <2>1, <4>4, <5>5 DEF JobsOK, Queue!JobRecord, Queue!JobState
        <5>7. QED
          BY <2>1, <5>1, <5>4, <5>6
      <4>5. QED
        BY <4>3, <4>4
    <3>4. ASSUME NEW q \in Request \ {r}, RequestNext(q) PROVE req'[r] = req[r]
      BY <1>0, <3>4, RequestMoves
    <3>5. QED
      BY <3>2, <3>3, <3>4, WorkerWrites
      DEF Next, vars, QueueNext, RetryDelayed, JobStalled, EvictCompleted
  <2>3. CASE job[f].data = d /\ job[f].state \in InQueue
    <3>1. ASSUME NEW w \in Worker, Does(w, "ack"), wk[w].file = f PROVE FALSE
      BY <1>0, <2>1, <2>3, <3>1 DEF Does, LifeInv, HoldInv, SettledInv
    <3>2. job'[f].data = d /\ job'[f].state \in InQueue
      BY <2>1, <2>3, <3>1, JobMoves
    <3>3. QED
      BY <2>1, <3>2
  <2>4. QED
    BY <1>0, <2>1, <2>2, <2>3 DEF NoStrandedDocument, LiveDocs, Live
<1>3. QED
  BY <1>1, <1>2

LEMMA StrandInvInit == Init => StrandInv
<1> SUFFICES ASSUME Init PROVE StrandInv
  OBVIOUS
<1>1. /\ \A r \in Request : req[r].pc = "idle"
      /\ \A w \in Worker : wk[w].pc = "idle"
      /\ \A f \in File : job[f].state = "absent"
  BY DEF Init, IdleRequest, Call, IdleWorker, Run, Queue!QueueInit, Queue!NoJob
<1>2. LiveDocs = {} /\ Known = {}
  BY NoRowType DEF Init, LiveDocs, Known
<1>3. QED
  BY <1>1, <1>2
  DEF StrandInv, FileUnique, NothingDeleted, SettledInv, NoStrandedDocument, OverwritePc

\* As long as nothing is deleted, no worker loses a lock, Queue.add does not
\* fail and no handler is cut short, every document that is not processed yet
\* is on its way into the queue, has its job there or sits in the failed set,
\* whatever workers crash and queries of theirs fail.  Each hypothesis is
\* needed: a deleted document leaves its job id taken (MCDocumentsReupload),
\* safeEnqueue swallows the error of Redis, a handler that dies before it has
\* called Queue.add never does, and a worker without its lock may reopen a
\* document whose job is completed.
THEOREM NobodyStranded ==
    ASSUME Ops \cap {"remove", "overwrite"} = {},
           Faults \cap {"lock", "redis", "api"} = {}
    PROVE  Spec => []NoStrandedDocument
<1>1. "lock" \notin Faults /\ Faults \cap {"redis", "api"} = {}
  OBVIOUS
<1>2. TypeInv /\ LifeInv /\ StrandInv /\ [Next]_vars => StrandInv'
  BY <1>1, UniqueStep, KeptStep, SettledStep, NoStrandedStep DEF StrandInv
<1>3. TypeInv /\ LifeInv /\ [Next]_vars => LifeInv'
  BY <1>1, LifeInvStep
<1>4. StrandInv => NoStrandedDocument
  BY DEF StrandInv
<1>5. QED
  BY <1>2, <1>3, <1>4, TypeInvInit, TypeInvStep, LifeInvInit, StrandInvInit, PTL DEF Spec
=============================================================================
