-------------------------- MODULE DocumentPipeline --------------------------
(***************************************************************************)
(* The document pipeline of one tenant: the HTTP handlers of                *)
(* DocumentsService (upload, confirm, overwriteDuplicate, remove), the      *)
(* BullMQ queue they feed, and the workers of DocumentsProcessor that turn  *)
(* an uploaded file into an invoice.                                        *)
(*                                                                          *)
(* Every await of the code that touches shared state is a step of its own,  *)
(* so handlers and workers interleave between any two of them.  The         *)
(* database row, the object in the store and the job in Redis are three     *)
(* separate pieces of state: the code has no transaction across them.       *)
(*                                                                          *)
(* Abstracted: the content of a file is its sha256 (File); an extraction    *)
(* yields a duplicate key (supplier and normalized invoice number), or      *)
(* NoKey when one of them is empty, and whether the confidence reaches the  *)
(* AUTO_OK threshold.  Row ids are handed out in creation order, so the     *)
(* order of ids is the order of createdAt.  Audit entries and push messages *)
(* are left out: their failures are swallowed (AuditService.log, the        *)
(* try/catch around sendToUser).  An object in the store has a random key;  *)
(* here it is named by the row that points at it, or by the request that    *)
(* stored it as long as no row does.                                        *)
(***************************************************************************)
EXTENDS Integers, FiniteSets, FiniteSetsExt

CONSTANTS
    File,          \* distinct file contents (sha256)
    Worker,        \* worker slots: Worker concurrency 2
    Request,       \* HTTP requests that can be in progress at the same time
    InvoiceKey,    \* supplier + normalized invoice number
    NoKey,         \* a supplier or a number is missing
    None,          \* null
    MaxDocs,       \* bound: document rows ever created
    MonthlyLimit,  \* PLAN_LIMITS[plan].maxDocumentsPerMonth, -1 is unlimited
    Attempts,      \* defaultJobOptions.attempts
    MaxStalled,    \* how often BullMQ hands out a stalled job again
    Ops,           \* the handlers that are called
    Faults         \* the failures that happen

AllOps == {"upload", "confirm", "overwrite", "remove"}

\* crash:     a worker process dies             db:    a worker's query fails
\* lock:      a running job loses its lock      redis: Queue.add fails
\* store:     an object store call fails        api:   a handler is cut short
AllFaults == {"crash", "lock", "db", "redis", "store", "api"}

ASSUME ConstantsAssumption ==
    /\ MaxDocs \in Nat
    /\ MonthlyLimit \in Int
    /\ Attempts \in Nat \ {0}
    /\ MaxStalled \in Nat
    /\ IsFiniteSet(Request)
    /\ Request \cap (1 .. MaxDocs) = {}
    /\ Ops \subseteq AllOps
    /\ Faults \subseteq AllFaults
    /\ None \notin File \cup Worker \cup InvoiceKey \cup {NoKey}
    /\ NoKey \notin InvoiceKey

VARIABLES
    doc,      \* doc[d]: the documents row d with the invoice hanging off it
    created,  \* the number of rows created so far
    files,    \* the objects in the store: of a document, or of a request
              \* whose upload has not created its row, or never will
    job,      \* the BullMQ queue, one job id per file
    wk,       \* wk[w]: what worker slot w is doing
    req       \* req[r]: what request r is doing

vars == <<doc, created, files, job, wk, req>>

DocId == 1 .. MaxDocs
NoDoc == 0

Queue == INSTANCE JobQueue WITH JobId <- File, Payload <- DocId,
                                NoPayload <- NoDoc, NoWorker <- None

-----------------------------------------------------------------------------
(* Documents *)

Open      == {"QUEUED", "OCR_RUNNING", "EXTRACTING", "FAILED"}
Ready     == {"AUTO_OK", "NEEDS_REVIEW"}
Settled   == Ready \cup {"CONFIRMED", "NOT_INVOICE", "DUPLICATE"}
Requeued  == {"QUEUED", "FAILED"}
Invoiced  == Ready \cup {"CONFIRMED", "DUPLICATE"}

Document == [status : Open \cup Settled \cup {"ABSENT"},
             file   : File \cup {None},
             inv    : InvoiceKey \cup {NoKey, None},   \* None: no invoice row
             sure   : BOOLEAN,                         \* confidence >= 0.8
             dupOf  : DocId \cup {NoDoc}]

NoRow == [status |-> "ABSENT", file |-> None, inv |-> None, sure |-> FALSE,
          dupOf |-> NoDoc]

NewRow(f) == [NoRow EXCEPT !.status = "QUEUED", !.file = f]

Live(d) == d \in DocId /\ doc[d].status # "ABSENT"

LiveDocs == {d \in DocId : doc[d].status # "ABSENT"}

HasFile(f) == \E d \in LiveDocs : doc[d].file = f

\* Mutant: the limit itself still counts as room.
WithinLimitInclusive(n) == MonthlyLimit = -1 \/ n <= MonthlyLimit

\* isWithinLimit; all rows of a run fall into one calendar month.
WithinLimit(n) == MonthlyLimit = -1 \/ n < MonthlyLimit

\* confidence >= AUTO_OK_CONFIDENCE_THRESHOLD
StatusFor(sure) == IF sure THEN "AUTO_OK" ELSE "NEEDS_REVIEW"

\* document.delete: the invoice goes with the row (Cascade), and the rows that
\* were duplicates of it keep their status but lose the reference (SetNull).
WithoutRow(x) ==
    [d \in DocId |-> IF d = x THEN NoRow
                     ELSE IF doc[d].dupOf = x THEN [doc[d] EXCEPT !.dupOf = NoDoc]
                     ELSE doc[d]]

\* updateMany on the id: touches nothing once the row is gone.
WithStatus(x, s) ==
    [d \in DocId |-> IF d = x /\ Live(d) THEN [doc[d] EXCEPT !.status = s] ELSE doc[d]]

-----------------------------------------------------------------------------
(* Requests: DocumentsService *)

RequestPc == {"idle",
              "limit", "store", "create", "enqueue",                 \* upload
              "confirm",
              "owOriginal", "owDelete", "owFile", "owPromote",       \* overwrite
              "rmDelete", "rmFile"}                                  \* remove

RequestState == [pc   : RequestPc,
                 file : File \cup {None},
                 doc  : DocId \cup {NoDoc},
                 orig : DocId \cup {NoDoc},
                 sure : BOOLEAN]

Call(pc, f, d, orig, sure) ==
    [pc |-> pc, file |-> f, doc |-> d, orig |-> orig, sure |-> sure]

IdleRequest == Call("idle", None, NoDoc, NoDoc, FALSE)

At(r, pc) == req[r].pc = pc
Goto(r, pc) == req' = [req EXCEPT ![r].pc = pc]
Begin(r, call) == req' = [req EXCEPT ![r] = call]
Return(r) == Begin(r, IdleRequest)

\* Bound: an upload that may still create a row has an id reserved for it.
Uploading == {r \in Request : req[r].pc \in {"limit", "store", "create"}}
RoomForUpload == created + Cardinality(Uploading) < MaxDocs

\* upload: the file is looked up by its sha256.
UploadNew(r, f) ==
    /\ "upload" \in Ops /\ At(r, "idle") /\ RoomForUpload
    /\ ~HasFile(f)
    /\ Begin(r, Call("limit", f, NoDoc, NoDoc, FALSE))
    /\ UNCHANGED <<doc, created, files, job, wk>>

\* upload of a known file: only an unprocessed document is queued again; any
\* other is returned as it is, which changes nothing.  (Nothing writes the
\* third status of that test, UPLOADED.)
UploadKnown(r, d) ==
    /\ "upload" \in Ops /\ At(r, "idle")
    /\ Live(d) /\ doc[d].status \in Requeued
    /\ Begin(r, Call("enqueue", doc[d].file, d, NoDoc, FALSE))
    /\ UNCHANGED <<doc, created, files, job, wk>>

AssertMonthlyDocumentLimit(r) ==
    /\ At(r, "limit")
    /\ \/ WithinLimit(Cardinality(LiveDocs)) /\ Goto(r, "store")
       \/ ~WithinLimit(Cardinality(LiveDocs)) /\ Return(r)
    /\ UNCHANGED <<doc, created, files, job, wk>>

\* Mutant: an error of the store is swallowed.
UploadStoreSwallowed(r) ==
    /\ At(r, "store")
    /\ \/ files' = files \cup {r}
       \/ "store" \in Faults /\ UNCHANGED files
    /\ Goto(r, "create")
    /\ UNCHANGED <<doc, created, job, wk>>

\* The object is uploaded under a fresh key before the row exists.  A call that
\* fails may have stored it all the same.
UploadStore(r) ==
    /\ At(r, "store")
    /\ \/ files' = files \cup {r} /\ Goto(r, "create")
       \/ "store" \in Faults /\ Return(r) /\ files' \in {files, files \cup {r}}
    /\ UNCHANGED <<doc, created, job, wk>>

\* document.create; @@unique([tenantId, sha256]) rejects a second row, and the
\* object stored for it stays behind.  The new row points at the object that
\* the request has stored.
UploadCreate(r) ==
    /\ At(r, "create")
    /\ \/ /\ ~HasFile(req[r].file)
          /\ created' = created + 1
          /\ doc' = [doc EXCEPT ![created + 1] = NewRow(req[r].file)]
          /\ files' = {IF o = r THEN created + 1 ELSE o : o \in files}
          /\ req' = [req EXCEPT ![r].pc = "enqueue", ![r].doc = created + 1]
       \/ /\ HasFile(req[r].file)
          /\ Return(r)
          /\ UNCHANGED <<doc, created, files>>
    /\ UNCHANGED <<job, wk>>

\* Mutant: the job is forgotten.
SafeEnqueueSkipped(r) ==
    /\ At(r, "enqueue")
    /\ Return(r)
    /\ UNCHANGED <<doc, created, files, job, wk>>

\* safeEnqueue: an error of Redis is logged and swallowed.
SafeEnqueue(r) ==
    /\ At(r, "enqueue")
    /\ \/ Queue!Add(req[r].file, req[r].doc)
       \/ "redis" \in Faults /\ UNCHANGED job
    /\ Return(r)
    /\ UNCHANGED <<doc, created, files, wk>>

\* Mutant: confirm does not look at the status.
ConfirmAnyStatus(r, d) ==
    /\ "confirm" \in Ops /\ At(r, "idle")
    /\ Live(d)
    /\ Begin(r, Call("confirm", None, d, NoDoc, FALSE))
    /\ UNCHANGED <<doc, created, files, job, wk>>

Confirm(r, d) ==
    /\ "confirm" \in Ops /\ At(r, "idle")
    /\ Live(d) /\ doc[d].status \in Ready
    /\ Begin(r, Call("confirm", None, d, NoDoc, FALSE))
    /\ UNCHANGED <<doc, created, files, job, wk>>

\* document.update on the id alone; it throws when the row is gone.
ConfirmWrite(r) ==
    /\ At(r, "confirm")
    /\ doc' = WithStatus(req[r].doc, "CONFIRMED")
    /\ Return(r)
    /\ UNCHANGED <<created, files, job, wk>>

OverwriteDuplicate(r, d) ==
    /\ "overwrite" \in Ops /\ At(r, "idle")
    /\ Live(d) /\ doc[d].status = "DUPLICATE" /\ doc[d].dupOf # NoDoc
    /\ Begin(r, Call("owOriginal", None, d, doc[d].dupOf, doc[d].sure))
    /\ UNCHANGED <<doc, created, files, job, wk>>

OverwriteFindOriginal(r) ==
    /\ At(r, "owOriginal")
    /\ Goto(r, IF Live(req[r].orig) THEN "owDelete" ELSE "owPromote")
    /\ UNCHANGED <<doc, created, files, job, wk>>

\* document.delete throws when another request was faster.
OverwriteDelete(r) ==
    /\ At(r, "owDelete")
    /\ \/ /\ Live(req[r].orig)
          /\ doc' = WithoutRow(req[r].orig)
          /\ Goto(r, "owFile")
       \/ /\ ~Live(req[r].orig)
          /\ Return(r)
          /\ UNCHANGED doc
    /\ UNCHANGED <<created, files, job, wk>>

\* Best effort: a failing store leaves the object behind.
OverwriteDeleteFile(r) ==
    /\ At(r, "owFile")
    /\ \/ files' = files \ {req[r].orig}
       \/ "store" \in Faults /\ UNCHANGED files
    /\ Goto(r, "owPromote")
    /\ UNCHANGED <<doc, created, job, wk>>

OverwritePromote(r) ==
    /\ At(r, "owPromote")
    /\ doc' = [d \in DocId |->
                 IF d = req[r].doc /\ Live(d)
                 THEN [doc[d] EXCEPT !.status = StatusFor(req[r].sure), !.dupOf = NoDoc]
                 ELSE doc[d]]
    /\ Return(r)
    /\ UNCHANGED <<created, files, job, wk>>

\* Mutant: the object is deleted before the row.
RemoveFileFirst(r, d) ==
    /\ "remove" \in Ops /\ At(r, "idle")
    /\ Live(d)
    /\ Begin(r, Call("rmFile", None, d, NoDoc, FALSE))
    /\ UNCHANGED <<doc, created, files, job, wk>>

Remove(r, d) ==
    /\ "remove" \in Ops /\ At(r, "idle")
    /\ Live(d)
    /\ Begin(r, Call("rmDelete", None, d, NoDoc, FALSE))
    /\ UNCHANGED <<doc, created, files, job, wk>>

RemoveDelete(r) ==
    /\ At(r, "rmDelete")
    /\ \/ /\ Live(req[r].doc)
          /\ doc' = WithoutRow(req[r].doc)
          /\ Goto(r, "rmFile")
       \/ /\ ~Live(req[r].doc)
          /\ Return(r)
          /\ UNCHANGED doc
    /\ UNCHANGED <<created, files, job, wk>>

RemoveFile(r) ==
    /\ At(r, "rmFile")
    /\ \/ files' = files \ {req[r].doc}
       \/ "store" \in Faults /\ UNCHANGED files
    /\ Return(r)
    /\ UNCHANGED <<doc, created, job, wk>>

\* The API process dies in the middle of a handler, or a query of it fails.
RequestLost(r) ==
    /\ "api" \in Faults /\ ~At(r, "idle")
    /\ Return(r)
    /\ UNCHANGED <<doc, created, files, job, wk>>

-----------------------------------------------------------------------------
(* Workers: DocumentsProcessor.process *)

WorkerPc == {"idle", "start", "recognizing", "extracting", "persisted",
             "finalize", "ack", "catch", "throw"}

\* Inside the try block of process: an exception leads to the catch block.
Trying == {"start", "recognizing", "extracting", "persisted", "finalize"}

WorkerState == [pc   : WorkerPc,
                file : File \cup {None},
                doc  : DocId \cup {NoDoc},
                key  : InvoiceKey \cup {NoKey, None},
                sure : BOOLEAN,
                dup  : DocId \cup {NoDoc}]

Run(pc, f, d) == [pc |-> pc, file |-> f, doc |-> d, key |-> None, sure |-> FALSE,
                  dup |-> NoDoc]

IdleWorker == Run("idle", None, NoDoc)

Does(w, pc) == wk[w].pc = pc
Step(w, pc) == wk' = [wk EXCEPT ![w].pc = pc]

\* The worker that took the job of f is still running it.
Executing(f) == \E w \in Worker : Queue!Holds(w, f) /\ wk[w].pc # "idle" /\ wk[w].file = f

\* Mutant: processed documents are not skipped.
ProcessAgain(w, f) ==
    /\ Does(w, "idle")
    /\ Queue!Take(w, f)
    /\ LET d == job[f].data IN
       wk' = [wk EXCEPT ![w] = Run(IF Live(d) THEN "start" ELSE "ack", f, d)]
    /\ UNCHANGED <<doc, created, files, req>>

\* Mutant: a failed document counts as processed, so a retry skips it.
ProcessNotFailed(w, f) ==
    /\ Does(w, "idle")
    /\ Queue!Take(w, f)
    /\ LET d == job[f].data
           skip == Live(d) => doc[d].status \in Settled \cup {"FAILED"} IN
       wk' = [wk EXCEPT ![w] = Run(IF skip THEN "ack" ELSE "start", f, d)]
    /\ UNCHANGED <<doc, created, files, req>>

\* The job is taken and its document read.  A missing or already processed
\* document is skipped; FAILED is not among the processed statuses.  The read
\* stands outside the try block.
Process(w, f) ==
    /\ Does(w, "idle")
    /\ Queue!Take(w, f)
    /\ LET d == job[f].data
           skip == Live(d) => doc[d].status \in Settled IN
       \E pc \in {"start", "ack", "throw"} :
          /\ \/ pc = "start" /\ ~skip
             \/ pc = "ack" /\ skip
             \/ pc = "throw" /\ "db" \in Faults
          /\ wk' = [wk EXCEPT ![w] = Run(pc, f, d)]
    /\ UNCHANGED <<doc, created, files, req>>

SetOcrRunning(w) ==
    /\ Does(w, "start")
    /\ doc' = WithStatus(wk[w].doc, "OCR_RUNNING")
    /\ Step(w, "recognizing")
    /\ UNCHANGED <<created, files, job, req>>

\* The OCR has read the object; it may be gone by now, or have been missing,
\* which is one of the failures of WorkerError.
SetExtracting(w) ==
    /\ Does(w, "recognizing")
    /\ doc' = WithStatus(wk[w].doc, "EXTRACTING")
    /\ Step(w, "extracting")
    /\ UNCHANGED <<created, files, job, req>>

\* The extraction classifies the document as something else.
MarkNotInvoice(w) ==
    /\ Does(w, "extracting")
    /\ doc' = WithStatus(wk[w].doc, "NOT_INVOICE")
    /\ Step(w, "ack")
    /\ UNCHANGED <<created, files, job, req>>

\* The transaction that upserts the invoice and rewrites its items.  Without
\* the document its foreign key fails.
PersistInvoice(w) ==
    /\ Does(w, "extracting")
    /\ Live(wk[w].doc)
    /\ \E k \in InvoiceKey \cup {NoKey}, s \in BOOLEAN :
          /\ doc' = [doc EXCEPT ![wk[w].doc].inv = k, ![wk[w].doc].sure = s]
          /\ wk' = [wk EXCEPT ![w].pc = "persisted", ![w].key = k, ![w].sure = s]
    /\ UNCHANGED <<created, files, job, req>>

\* The invoices of other documents under the same key that are not themselves
\* marked as duplicates.
Originals(d, k) ==
    {e \in LiveDocs \ {d} : doc[e].inv = k /\ doc[e].status # "DUPLICATE"}

\* The earliest of them is the original.
FindDuplicateOriginal(w) ==
    /\ Does(w, "persisted")
    /\ LET found == IF wk[w].key = NoKey THEN {} ELSE Originals(wk[w].doc, wk[w].key) IN
       wk' = [wk EXCEPT ![w].pc = "finalize",
                        ![w].dup = IF found = {} THEN NoDoc ELSE Min(found)]
    /\ UNCHANGED <<doc, created, files, job, req>>

\* updateMany: the reference to an original that has disappeared meanwhile
\* fails its foreign key (then WorkerError is the only way on).
FinalizeInvoiceDocument(w) ==
    /\ Does(w, "finalize")
    /\ LET d == wk[w].doc
           dup == wk[w].dup IN
       /\ Live(d) /\ dup # NoDoc => Live(dup)
       /\ doc' = IF Live(d)
                 THEN [doc EXCEPT ![d].status = IF dup # NoDoc THEN "DUPLICATE"
                                                ELSE StatusFor(wk[w].sure),
                                  ![d].dupOf = dup]
                 ELSE doc
    /\ Step(w, "ack")
    /\ UNCHANGED <<created, files, job, req>>

\* An exception inside the try block: the OCR or the extraction fails, a
\* foreign key is violated, or the database is not reachable.
WorkerError(w) ==
    /\ \/ wk[w].pc \in {"recognizing", "extracting"}
       \/ /\ wk[w].pc = "finalize" /\ Live(wk[w].doc)
          /\ wk[w].dup # NoDoc /\ ~Live(wk[w].dup)
       \/ wk[w].pc \in Trying /\ "db" \in Faults
    /\ Step(w, "catch")
    /\ UNCHANGED <<doc, created, files, job, req>>

\* The catch block; its own write may fail too, and the job fails either way.
SetFailed(w) ==
    /\ Does(w, "catch")
    /\ \/ doc' = WithStatus(wk[w].doc, "FAILED")
       \/ "db" \in Faults /\ UNCHANGED doc
    /\ Step(w, "throw")
    /\ UNCHANGED <<created, files, job, req>>

Finish(w) ==
    /\ \/ Does(w, "ack") /\ Queue!Complete(w, wk[w].file)
       \/ Does(w, "throw") /\ Queue!Fail(w, wk[w].file)
    /\ wk' = [wk EXCEPT ![w] = IdleWorker]
    /\ UNCHANGED <<doc, created, files, req>>

WorkerCrash(w) ==
    /\ "crash" \in Faults /\ ~Does(w, "idle")
    /\ wk' = [wk EXCEPT ![w] = IdleWorker]
    /\ UNCHANGED <<doc, created, files, job, req>>

-----------------------------------------------------------------------------
(* The queue on its own *)

\* Mutant: nothing brings a delayed job back.
RetryNever(f) == FALSE /\ Queue!Promote(f) /\ UNCHANGED <<doc, created, files, wk, req>>

RetryDelayed(f) == Queue!Promote(f) /\ UNCHANGED <<doc, created, files, wk, req>>

\* The lock of a crashed worker runs out; with "lock", so may a live one's.
JobStalled(f) ==
    /\ ~Executing(f) \/ "lock" \in Faults
    /\ Queue!Stall(f)
    /\ UNCHANGED <<doc, created, files, wk, req>>

EvictCompleted(f) == Queue!Evict(f) /\ UNCHANGED <<doc, created, files, wk, req>>

-----------------------------------------------------------------------------
Init ==
    /\ doc = [d \in DocId |-> NoRow]
    /\ created = 0
    /\ files = {}
    /\ Queue!QueueInit
    /\ wk = [w \in Worker |-> IdleWorker]
    /\ req = [r \in Request |-> IdleRequest]

RequestNext(r) ==
    \/ \E f \in File : UploadNew(r, f)
    \/ \E d \in DocId : UploadKnown(r, d)
    \/ AssertMonthlyDocumentLimit(r)
    \/ UploadStore(r)
    \/ UploadCreate(r)
    \/ SafeEnqueue(r)
    \/ \E d \in DocId : Confirm(r, d)
    \/ ConfirmWrite(r)
    \/ \E d \in DocId : OverwriteDuplicate(r, d)
    \/ OverwriteFindOriginal(r)
    \/ OverwriteDelete(r)
    \/ OverwriteDeleteFile(r)
    \/ OverwritePromote(r)
    \/ \E d \in DocId : Remove(r, d)
    \/ RemoveDelete(r)
    \/ RemoveFile(r)
    \/ RequestLost(r)

\* A worker slot that is inside process, up to the result of the job.
WorkerStep(w) ==
    \/ SetOcrRunning(w)
    \/ SetExtracting(w)
    \/ MarkNotInvoice(w)
    \/ PersistInvoice(w)
    \/ FindDuplicateOriginal(w)
    \/ FinalizeInvoiceDocument(w)
    \/ WorkerError(w)
    \/ SetFailed(w)
    \/ Finish(w)

WorkerNext(w) ==
    \/ \E f \in File : Process(w, f)
    \/ WorkerStep(w)
    \/ WorkerCrash(w)

QueueNext(f) == RetryDelayed(f) \/ JobStalled(f) \/ EvictCompleted(f)

Next ==
    \/ \E r \in Request : RequestNext(r)
    \/ \E w \in Worker : WorkerNext(w)
    \/ \E f \in File : QueueNext(f)

Spec == Init /\ [][Next]_vars

\* The processors run, the backoff timer and the stalled-job check fire, and a
\* waiting job gets its turn: BullMQ serves the waiting list first in, first
\* out.  Nobody has to call the API.
Fairness ==
    /\ \A w \in Worker : WF_vars(WorkerStep(w))
    /\ \A f \in File :
          /\ SF_vars(\E w \in Worker : Process(w, f))
          /\ WF_vars(RetryDelayed(f))
          /\ WF_vars(JobStalled(f) /\ ~Executing(f))

FairSpec == Spec /\ Fairness

-----------------------------------------------------------------------------
(* Properties *)

\* Every variable keeps its type.
TypeOK ==
    /\ doc \in [DocId -> Document]
    /\ created \in 0 .. MaxDocs
    /\ files \subseteq DocId \cup Request
    /\ job \in [File -> Queue!JobRecord]
    /\ wk \in [Worker -> WorkerState]
    /\ req \in [Request -> RequestState]

\* A document whose status says that an invoice was read from it has one: the
\* worker persists before it finalizes, confirm and overwriteDuplicate write
\* on the strength of an older read, and none of them may end up promising an
\* invoice that is not there.
ProcessedHasInvoice == \A d \in LiveDocs : doc[d].status \in Invoiced => doc[d].inv # None

\* No row without its object: upload stores the object before it creates the
\* row, remove and overwriteDuplicate delete the row before the object, and a
\* handler cut short in between, or a call of the store that fails, leaves at
\* most an object without a row.
RowHasFile == LiveDocs \subseteq files

\* assertMonthlyDocumentLimit counts before the row is created, so uploads in
\* progress at the same time may each see room for themselves.  They exceed
\* the plan by no more than the others that were in progress.
LimitOvershoot ==
    MonthlyLimit > 0 => Cardinality(LiveDocs) < MonthlyLimit + Cardinality(Request)

\* A document that is not processed yet is on its way into the queue, or its
\* job is in the queue, or it sits in the failed set for the operator.
NoStrandedDocument ==
    \A d \in LiveDocs : doc[d].status \in Open =>
        \/ \E r \in Request : At(r, "enqueue") /\ req[r].doc = d
        \/ /\ job[doc[d].file].data = d
           /\ job[doc[d].file].state \in {"waiting", "active", "delayed", "failed"}

\* The original a duplicate refers to is not a duplicate itself
\* (findDuplicateOriginal skips the documents marked DUPLICATE).
OriginalIsNotDuplicate ==
    \A d \in LiveDocs : doc[d].dupOf # NoDoc => doc[doc[d].dupOf].status # "DUPLICATE"

\* A document marked as a duplicate has an original it can overwrite, the only
\* way on that overwriteDuplicate offers it.
DuplicateHasOriginal ==
    \A d \in LiveDocs : doc[d].status = "DUPLICATE" => doc[d].dupOf # NoDoc

\* Uploading the file of an unprocessed document again puts it back into the
\* queue: once safeEnqueue has run, a document still QUEUED or FAILED has a
\* job that will be run.
ReuploadRequeues ==
    [][\A r \in Request, f \in File :
          At(r, "enqueue") /\ req[r].file = f /\ req'[r].pc = "idle"
             /\ Live(req[r].doc) /\ doc[req[r].doc].status \in Requeued
          => Queue!InFlight(f)']_vars

\* Every job leaves the queue: it completes, or ends in the failed set after
\* its attempts, whatever crashes in between.
JobsDrain == \A f \in File : Queue!InFlight(f) ~> ~Queue!InFlight(f)

\* A document whose job is in the queue is processed in the end, or fails for
\* good, or is deleted.
QueuedDocumentSettles ==
    \A f \in File, d \in DocId :
        Queue!InFlight(f) /\ job[f].data = d
            ~> ~Live(d) \/ doc[d].status \in Settled \/ job[f].state = "failed"

-----------------------------------------------------------------------------
(* The abstract life of a document *)

PhaseOf(d) ==
    CASE doc[d].status = "ABSENT"      -> IF d <= created THEN "gone" ELSE "none"
      [] doc[d].status \in Open        -> "open"
      [] doc[d].status \in Ready       -> "ready"
      [] doc[d].status = "DUPLICATE"   -> "duplicate"
      [] doc[d].status = "NOT_INVOICE" -> "other"
      [] doc[d].status = "CONFIRMED"   -> "confirmed"

Lifecycle == INSTANCE DocumentLifecycle WITH phase <- [d \in DocId |-> PhaseOf(d)]

\* The pipeline implements the life of a document that DocumentLifecycle
\* describes: no retry, redelivery or late write of a worker reopens a document
\* that a worker has settled or a user has confirmed.  (overwriteDuplicate may
\* take a confirmed document back to ready, and the abstract life says so.)
ImplementsLifecycle == Lifecycle!Spec
=============================================================================
