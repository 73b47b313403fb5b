# Valloreg in TLA+

Valloreg is a multi-tenant fleet platform: a company uploads its invoices and
registration certificates, background workers read them (OCR and AI extraction),
and the result becomes invoices, vehicles and reminders. The repository is a
TypeScript monorepo: `apps/api` (NestJS, Prisma over PostgreSQL, BullMQ over
Redis, an S3 object store), `apps/web` (Next.js) and `packages/shared` (statuses,
plans, DTOs). This directory models the parts of it where several actors write to
several stores and the computations whose boundaries are hard to test, checks them with
TLC on small instances, and proves the main invariants with TLAPS for every instance.

    cd tla
    tlc -workers 2 -config MCDocumentsApi.cfg MCDocuments    # one run
    tlapm DocumentPipelineProofs.tla                         # the proofs of one module

`PROJECT.json` lists the components, the runs, the mutants, the lines of the source
each definition models, the findings, the hazards and the theorems.

## 1. The system

The state of the system lies in three places that no transaction spans: rows in
PostgreSQL, objects in the store, jobs in Redis; the web client keeps a copy of some rows
in the state of its screens. Four kinds of actors change it: HTTP requests (any number at
the same time), queue workers (two slots per queue and process), schedulers (cron jobs) and
the screens, which apply answers when they arrive. Every `await` is a point where all the
others may run.

| Component | State | Operations | Interacts with | What is hard | What makes it correct |
|---|---|---|---|---|---|
| Documents API (`documents.service.ts`) | document rows: status, sha256, `duplicateOfId`; objects | upload, confirm, overwriteDuplicate, remove | store, database, documents queue | writes to three stores without a transaction; a status read in one await and acted on in a later one; `safeEnqueue` swallows errors | a row has its object; an unprocessed document has a job; a confirmed document stays confirmed, but for a second overwrite of it |
| Documents queue and worker (`documents.processor.ts`, `queue.providers.ts`) | BullMQ jobs keyed by `doc:tenant:sha256`; what each slot is doing | process, retry, stall, evict | documents, invoices, suppliers, vehicles, providers | two slots on two copies of an invoice; crash and redelivery; a lost lock; job ids that stay taken | every job drains; no settled document is reopened; a status that promises an invoice has one |
| OCR and extraction providers (`ocr/`, `extraction/`, `env.validation.ts`) | the chain of models | recognize, extract | workers, environment | six models asked in turn; a stub that stands in unasked | a model that refuses for now is passed over; samples only where a stub is chosen |
| Vehicles and scans (`vehicles.service.ts`, `vehicle-scan.processor.ts`) | vehicles, archive rows, scans, staged objects, jobs keyed by scan | startScan, confirmScan, create, update, remove; process | store, scan queue, web client that polls | the client acts on a polled result; the limit is counted before the insert; vehicles share staged objects | the outcome a client has seen is final; every queued scan gets one; archived files exist |
| Vehicle CSV import (`vehicles.service.ts` 453-641) | none of its own | previewImport, commitImport | vehicles | rows classified against an old read; keys repeated within the file | no row creates a vehicle whose plate or VIN another row of the file had |
| Reminders (`reminders.service.ts`) | due date and mileage, `notifiedStage`, active | create, update, complete, remove, scanAndNotify, upcoming, suggestions | schedulers, push, verification | the daily scan writes a stage computed from an old read; a reminder completed meanwhile | a stage is announced once, and what is overdue is announced |
| Verification (`verification.service.ts`) | one verification per vehicle, and its reminders | verify, verifyAllRo, confirmDocument | reminders, external registries | find-then-create of reminders; every verification resets the stage | a user's reminder stays the user's |
| Users and membership (`users.service.ts`) | members and roles, invitations | invite, acceptInvite, revokeInvitation, changeMemberRole, removeMember | plans, mail | the last owner is counted before the write; a pending invitation counts itself | a company always has an owner (it has not: section 3); the plan's users are bounded |
| Data subject requests and retention (`dsr.service.ts`, `data-retention.service.ts`) | everything a user or a tenant owns | exportData, deleteAccount, deleteTenant; clean-up | all tables, store | the owner count again, in another service; objects and rows deleted in turn | no company without an owner (section 3 again), nothing left of a deleted tenant |
| Authentication and sessions (`auth.service.ts`, `totp.service.ts`) | refresh tokens, reset tokens, two-factor secret | register, login, refresh, logout, reset, 2FA | mail, web client | rotation reads and revokes in two awaits; sessions issued while all are revoked | no session outlives the moment all were revoked; none escapes the second factor but those being issued while it is switched on |
| Tenant scoping (`prisma.service.ts`, `tenant-context.*`, guards) | the holder of the asynchronous context | scoping of every query; TenantGuard, RolesGuard, FeatureGuard | all, the monthly report job | one process and one client serve all companies | no query reaches another company's rows; no handler runs without a role of its route |
| Feature flags, plans, billing, admin | overrides, subscription | isEnabled, isWithinLimit, getOverview | all | precedence of overrides, -1 as unlimited; a limit shown and checked by different code | the page shows what the checks decide by |
| Matching (`matching.service.ts`) | suppliers, supplier-to-vehicle mappings | resolveSupplierId, resolveVehicleForInvoice, learn | worker, invoices | find-then-create without a unique key; ties between mappings | what the invoice names before what is learned; a tie decides nothing |
| Invoices (`invoices.service.ts`) | invoice items, learned mappings | updateItem | worker, matching | a retry of the worker rewrites items a user has corrected | a correction survives |
| Benchmark (`benchmark.service.ts`) | opt-ins, cells | recompute, getComparison, getRecalls | scheduler, recall feeds | thresholds counted per company and vehicle | no cell with fewer companies than the threshold |
| Reports, statistics, insights | none of their own | getSummary, detect*, getFleetTco, stats | invoices, scheduler | days, months and years as instants; medians | an item counts once, in its own period; breakdowns add up |
| HTTP layer (controllers, guards, filter) | none | routing, exceptions | web client | `:id` shadows words; roles per route; what an error becomes | every call arrives; a failure keeps its code, and an unforeseen one says nothing of the inside |
| Web client (`apps/web`) | rows shown by each screen; token and company in the browser | calls, retries, polling | API | answers out of order, retries after a lost answer | a screen shows what is stored |
| Audit log, notifications, mailer, push | log rows, messages | log, send | all | failures are swallowed | nothing waits for them |

Hard behaviours the code has, and which of them are modelled: interleaved requests
and workers (yes), crashes of a worker, of a scan or of the API between two writes (yes),
failing calls of the database, Redis and the store (yes), retries with backoff and
redelivery of stalled jobs (yes), workers that lose their lock and go on (yes, for
documents; see section 5), ids that stay taken in the queue (yes), counters at a plan's
limit (yes), schedulers running into user actions (yes), answers that are late, reordered
or lost on their way to a screen (yes), clocks and days at their boundary (yes).

## 2. The modules

| Module | Models | Uses |
|---|---|---|
| `JobQueue` | a BullMQ queue as the code configures it: job ids, states, attempts, backoff, locks, stalled jobs, eviction | |
| `DocumentLifecycle` | the abstract life of a document | |
| `DocumentPipeline` | DocumentsService, the documents queue, DocumentsProcessor | `JobQueue`, `DocumentLifecycle` (refinement) |
| `VehicleScans` | VehiclesService (scans, vehicles, archive), the vehicle-scans queue, VehicleScanProcessor | `JobQueue` |
| `Reminders` | RemindersService, its daily scan, VerificationService | |
| `Accounts` | registration, invitations, members, deletion of accounts and companies, retention of invitations | |
| `Sessions` | AuthService: sessions, second factor, reset of passwords | |
| `Requests` | a call from the click to the rows: client, tenant context, guards, scoped database client, and the monthly report job in the same process | `ApiRoutes` |
| `Screens` | the screens that load rows, change them and apply the changes themselves | |
| `Rules` | one input per behaviour, and what each computation must satisfy | the eight below, `Arrays` |
| `ReminderRules` | evaluation, order of the dashboard, suggestions | `Arrays` |
| `CostRules` | report summaries and periods, anomalies, fleet costs, market cells | `Arrays` |
| `ImportRules` | CSV parsing, the import, recognition of vehicles | `Arrays` |
| `TotpRules` | codes, their window, base32 | `Arrays` |
| `ApiRoutes` | every route of the API with its roles and feature, every call of the client, matching of paths | |
| `ProviderRules` | the environment, the choice of providers, the chain of models, the feeds | `Arrays` |
| `ErrorRules` | exceptions, the filter, errors in the client | |
| `UsageRules` | plan limits, the page of the plan, the dashboard's counts | |
| `Arrays` | Array.prototype.filter and sort, by the place of each element, so that one can reason about them; reduce, findIndex and findLastIndex | |
| `DocumentPipelineProofs`, `VehicleScansProofs`, `Reminders`-, `Accounts`-, `Sessions`-, `Requests`-, `Screens`- and `RulesProofs` | theorems about the eight modules | the module, and TLAPS |
| `MC...` | constants and symmetry for TLC | |

### How state and actions correspond to the code

A request is a record `req[r]` with a program counter: the handler's first read is the
action that begins it, and each later await that reads or writes shared state is an
action named after what it does (`UploadStore`, `UploadCreate`, `SafeEnqueue`; `StageFiles`,
`CreateScan`, `EnqueueScan`). The other fields are the local variables that survive an
await: the status an overwrite will write was computed from an old read, so it is part
of the record. A worker slot is a record `wk[w]` in the same way. Between
two actions of one request or worker, all others may act.

**JobQueue.** BullMQ is a library, so the module is marked external; it contains what the
code relies on. `Add` with a known id changes nothing (`removeOnComplete: 1000` and
`removeOnFail: false` keep the ids of finished jobs). `Complete` and `Fail` need the lock;
without it the result is refused, but what the processor has written to the
database stays. `Stall` hands out a job whose lock was not renewed, `MaxStalled` times
(BullMQ's default is 1). `Evict` is the completed job falling out of the last thousand.

**DocumentPipeline.** `doc[d]` is the row with the invoice that hangs off it: the invoice has the
document as its foreign key and is deleted with it. `files` are the objects in the store: that of an upload is named
after the request until the row is created an await later, so an upload that stops in between leaves it behind, and
a row could be created without one. Row ids are handed out in creation
order, as `findDuplicateOriginal` orders by `createdAt`. A file is its sha256. What an
extraction yields is chosen nondeterministically: a duplicate key or none, sure
or not, not an invoice, an error. In the abstract life, as in the code, a confirmed document goes back to ready in one way: a
second `overwriteDuplicate` of it, whose status was computed before the first one ended. `WithoutRow` is `document.delete` with the schema's
Cascade and SetNull. `WithStatus` is `updateMany`, which touches nothing when the row is gone.
The read at the top of `process` is outside its try block, so an error there fails the job
without writing FAILED; that is the "throw" branch of `Process`.

**VehicleScans.** `scan[s]` is a scan row (status and matched vehicle), `archive` the pairs of a
vehicle and the scan whose objects its documents refer to. The web client polls a scan
until it is DONE and saves it on the matched vehicle, or on a new one
(`VehicleScanModal.tsx`): that is `SaveScan`. A vehicle form and a row of a CSV import call the
same `create`: that is `CreateVehicle`. The files of one scan are one object. `PATCH` on a
vehicle changes only fields that are left out and has no action.

**Reminders.** One vehicle: nothing relates the reminders of two. A date is the number of days left to
it, so that time needs no bound: `NextDay` lowers every date, down to `-Past`, where all dates
mean the same to the code, and `told` ages with it. `scanAndNotify` is the scan's own
program counter: it lists the active reminders (`BeginScan`), and for each one announces (`Notify`) and then writes the stage it has
computed from that list (`Record`). `verify` asks the provider, stores the answer, and then finds and writes the
reminder of each date in steps of their own, as `applyReminder` awaits each; `confirmDocument` does so for one date. Push and mail are one announcement.
`told[r]` is history: which stage of the present due date was announced, how long ago, and whether
the record of it was lost. A new row gets an id that is neither in use nor in anybody's hands, as a random UUID is;
a handler that may create reminders begins only if there are as many free ids as it and the others may still
need (`Reserved`, `Room`), so that the bound on ids cuts off no handler in the middle.

**Accounts.** A user is his address. `invite` reads the plan, counts members, counts invitations, looks for a member and
creates: each a step. The transactions of `acceptInvite` and `register` are one step each; the argon2 hash
before them is an await like any other. `DeleteTenant` deletes the rows with all that cascades,
and `Cleanup` then the objects, by key and by prefix.

**Sessions.** The rows of one user. Revoked and expired are the same to every reader. `epoch`
counts the moments at which all sessions are revoked (a reset, the switching on of the second factor), and a row
records the epoch it was issued in, whether its login gave a code, and whether it goes back to a login that was
being carried out at such a moment (`late`). A signed token is what it carries, so a challenge is the epoch it was
issued in. Access tokens are not stored; what is modelled is the right to get another one.

**Requests.** `Send` takes token and company from the browser's storage as they are then. `holder[q]` is the object the asynchronous context of
the request holds: the middleware opens it empty, TenantGuard writes the company into it, and the scoped client reads
it at every query. JwtAuthGuard,
TenantGuard, RolesGuard and FeatureGuard run in this order, the reads of membership, plan and override being awaits between
which an administrator may change all of them. The monthly job runs `forEach` company in a holder of its own.
A retry of the client is a second request of the same click. One scoped table stands for all.

**Screens.** `Handler` says of each button which rows the API lets it change, what the screen puts into its state when the answer
comes, whether it loads all rows again then, and what it disables meanwhile; the operators named after
components are the tables of their handlers. `Execute` is the call at the server, `Receive` the answer on the
screen, in any order; `Poll` is the interval with which the list of documents is loaded while one is processed.
Three history variables compare the two orders: `earlier[c]` are the unanswered calls carried out before c; `missing` says that the
screen may lack the effect of an answer that was lost, came before an earlier one's, or is left to a load; and `since` are the
unanswered calls carried out after all that may be lacking, so that a load among them makes up for it.

**Rules.** A behaviour chooses one input of one kind and stops there; the invariants compare what the translated computation
yields with a definition of their own, never with the same steps. `ReminderRules`, `CostRules` and the others are
pure operators, one per function of the source. `Arrays` states filter and sort without recursion: `Where` and `SortedBy`
put the element with k places up to it at place k, which is what `SelectSeq` and `SortSeq` return; `Reduce`, `FindIndex` and
`FindLastIndex` are `FoldLeft`, `SelectInSeq` and `SelectLastInSeq` of the community modules. Amounts are integers, doubled or taken times a hundred where the code
divides; moments are quarters of a day or hours, so that midnight and the hours around it can be told apart;
model values with a given normal form stand for plates and VINs.

`Faults` names the failures an instance allows: "crash" (a worker or the daily scan dies), "lock" (a running job
loses its lock), "db" (a query of a worker or of the scan fails), "redis" (Queue.add fails), "store" (an
object store call fails), "api" (a handler is cut short between two awaits, by a crash
or a failing query). `Ops` names the handlers that are called.

## 3. The runs

Every bound is a constant. The bounds of the pipelines are the sizes of `File`, `Scan`, `Worker`, `Request`, `InvoiceKey`,
`MaxDocs` and `MaxVehicles` on the rows ever created (an upload or a creation that begins
has an id reserved, so the bound cuts off no handler in the middle), `Attempts`, `MaxStalled`.
Deadlock is not checked: nobody has to call the API, and a bounded instance stops when
all ids are used up.

| Run | Bounds | What it asks |
|---|---|---|
| `documents_api` | 3 files, 2 requests, 1 worker, limit 1, faults redis, store, api | `RowHasFile`: no row without its object, whatever is cut short. `LimitOvershoot`: the monthly limit is exceeded by less than the number of requests |
| `documents_workers` | 2 files, 2 workers, 2 requests, 2 attempts, all handlers, no faults | `TypeOK`; `ProcessedHasInvoice`; `RowHasFile`, with overwrites; `ImplementsLifecycle`: with duplicates, overwrites and deletes at any moment, the pipeline is a `DocumentLifecycle` |
| `documents_live` | 1 file, 2 workers, 3 attempts, faults crash, db, with fairness | `JobsDrain`, `QueuedDocumentSettles`, `NoStrandedDocument` across retries |
| `documents_reupload` | 1 file, 2 rows, remove allowed | the violation described below |
| `vehicles_archive` | 2 scans, 2 requests, 1 worker, 3 vehicles, limit 1, faults redis, store, api | `TypeOK` (the archive refers to existing vehicles only); `VehicleOvershoot` |
| `vehicle_scans_live` | 2 scans, 2 workers, 3 attempts, faults crash, db, with fairness | `UnfinishedScanHasJob`, `OutcomeIsFinal`, `QueuedScanIsAnswered` |
| `reminders` | 1 type, 2 reminders, 2 requests, 3 calls or failures, a date overdue and one ahead, no due mileages (the theorems have them), faults db, crash, api, with fairness | `Throttled`: nothing is announced twice for nothing. `ManualIsTheUsers`: a verification moves no date a user has entered. `OverdueIsAnnounced` |
| `accounts` | 2 addresses, 1 company, 2 invitations, 2 requests, 3 memberships, plan of 2 users, faults store, api | `TypeOK` (nobody is a member twice), `UserOvershoot`, `NothingLeft` |
| `sessions` | 3 session rows, 2 reset links, 1 secret, 2 requests, 2 epochs | `SignedOut`, `CodeNeeded`, `LinksBounded` |
| `requests` | 2 users, 2 companies, 3 rows, a click with its retry, 1 change by others, the monthly job; one user is in both companies with different roles | `OwnRowsOnly`, `RoleWasHeld` |
| `screens` | all screens, 2 rows, 1 load, 2 calls at the same time, 2 clicks, 1 failure, with fairness | `ScreenFollowsServer`, `ProcessingSettles` |
| `rules` | the sets of inputs in `MCRules`, up to six elements per list, chosen on both sides of every boundary the code compares with | the thirteen properties below |

What `rules` asks: `UrgentFirst` (the dashboard leaves out nothing more urgent than what it shows, as long as no date lies
a million days ahead: `sortKey` adds the days to a million times the rank, and the DTO does not bound a date),
`SuggestionFollowsHistory`, `ReportsAddUp` (an item counts exactly when its day is in the period, in any time zone, and
breakdowns add up), `OutliersAreFew`, `TrendFollowsCost`, `CellsAreBacked` (no published cell without enough companies and
vehicles), `WrittenIsRead` (CSV and base32 are read as written, codes accepted within a period), `ImportAddsNoTwin`,
`OnlyADominantVehicle` (what is learned decides last and never on a tie; of the candidates on an invoice the first known one decides),
`CallsArrive` (every call of the client reaches its handler and no VIEWER changes anything),
`ServicesStandIn` (which service answers for which settings), `FailuresAreTold` (the forms for signing in show every failure translated, the scan of a
registration tells a refusal from a technical failure, and the words of an unforeseen exception are shown nowhere; the other screens show the
text of the answer, and the loading of a list shows nothing when it fails), `UsageTellsTheLimit` (a check refuses exactly when
the numbers on the page say that the limit is used up; the bar is then full and red, but rounding fills it for 199 of 200, too).

Why these bounds are enough to be interesting: two requests and two workers are the
smallest numbers at which one acts between two awaits of another, and `concurrency: 2` is
what the code sets. Two files are what a duplicate takes; three are needed to pass
a limit of one with two uploads at once. Three attempts are the code's own number and let
a document fail, be retried, be confirmed and be redelivered. Two rows for one file is a
delete followed by a new upload under a job id that is still taken. Two reminders are what a second
verification creates beside the first. Three sessions are a login, its rotation and one issued
by a request that overlaps both; two epochs are needed for one of them to be older than the last. Two memberships of
one user are what a company chosen in the browser takes to matter. Two writes and a load are the smallest set of answers that
can arrive in the wrong order. What does not depend on the size is proved for all sizes, where section 5 says so.

Every property of the passing runs has a mutant in the modules: the operator the code would be
with one plausible bug (a skipped check, an object deleted before its row, FAILED taken for
processed, an error swallowed, a stage written for the wrong reminder, a holder shared by two requests, a row of an
import not remembered), with which TLC finds the property violated.

### Where the code and what is said of it disagree

`documents_reupload` (`NoStrandedDocument`) ends in a violation: a file deleted and uploaded again while the old
job is known to the queue gets a QUEUED row that nothing will process, although the upload is said to queue it
(`documents.service.ts:49`). The property passes in `documents_live`. The difference is
`remove`: without it the id of a job and its document belong together for good.

These configurations end in a counterexample too, and are kept beside the runs for whoever changes
the code they are about. Where the configuration does not list the property, it takes the place of those it lists.

| Configuration | Property | What happens |
|---|---|---|
| `MCDocumentsRequeue` | `ReuploadRequeues` | uploading a FAILED document again is said to make sure it is queued; its failed job still holds the id, so `Queue.add` does nothing |
| `MCDocumentsMutual` | `OriginalIsNotDuplicate` | two workers with two copies of one invoice look for the original before either has written its status; each becomes a duplicate of the other |
| `MCDocumentsOrphan` | `DuplicateHasOriginal` | deleting the original leaves a duplicate without a reference; overwriting refuses it and so does confirming |
| `MCVehicleScansRetry` | `CompletedJobIsDone` | the scan worker skips FAILED scans, so its own retries do nothing: a scan is attempted once and its job ends as completed |
| `MCVehiclesShared` | `ArchivedFileIsStored` | a scan saved twice gives its objects to two vehicles; deleting one deletes the files of the other |
| `MCRemindersVerify` | `ErrorOverwritesNothing` | on an error the service is said to overwrite nothing (`ro-verification.provider.ts:16-18`); `verification.service.ts:334-355` stores the error with three empty dates over the valid ones |
| `MCRemindersThrottle` | `StrictlyThrottled` | the same state is said never to be announced again (`reminders.service.ts:534-535`); every verification clears the stage, so the next scan announces it again |
| `MCAccountsOwners` | `HasOwner` | the last owner is said not to leave a company (`users.service.ts:241`, `dsr.service.ts:110,132`); the others are counted in one await and the role, the membership or the account goes in a later one, and nothing keeps two such requests apart: two owners who leave at the same time still count each other |
| `MCAccountsOwners` | `AcceptedOnce` | a used invitation is said to be refused (`users.service.ts:125`); it is looked at before the users are counted and a password is hashed, and not again in the transaction: of two requests with one link, the second makes a member of a user whom the company has removed meanwhile |
| `MCAccountsPlan` | `RefusedOnlyWhenFull` | accepting counts the invitation that is being accepted, so the last place of a plan can be offered and not taken |
| `MCSessionsReset` | `ResetSignsOutEverywhere` | a reset is said to sign out everywhere (`auth.service.ts:464`); a login or refresh that has checked its password or token before it issues a session after it |
| `MCRules` | `VinBeforePlate` | a VIN is said to come before a plate (`matching.service.ts:23,55-58`); the loop at line 78 goes through the candidates one by one, so the plate of the first wins over the VIN of the second. `OnlyADominantVehicle` states the order the loop has |
| `MCRules` | `CodesAreTranslated` | the client is said to translate the codes of the API so that no text is hard-coded (`errors.ts:2-3`); the forms for signing in do, the other screens show `err.message` (`DocumentsClient.tsx:61`, `TeamClient.tsx:79`, `UploadZone.tsx:81`, `BillingClient.tsx:69`, `RemindersClient.tsx:76` and others), which is the API's own text, or the browser's for a lost connection |
| `MCRequestsRetry` | `OneRowPerClick` | a repeated call is said not to have reached the server (`api.ts:178-181`); a lost answer looks the same, and a form sent once makes two rows |

Differences found while reading, which no module turns into a property:

- `docs/OCR_AI_ENGINE.md:72-73` and `apps/api/README.md:118` offer `mistral`, `google` and `anthropic`; these settings select the
  stub, which invents a sample. `gemini` is what the code knows (`ProviderRules`).
- `env.validation.ts:82` says the `ro` verification falls back to the stub without an API;
  `verification.module.ts:24-27` selects it by the setting alone, and it answers with an error.
- `docs/SECURITY.md:58-59` says the backend refuses a feature that is switched off, reports among them;
  `reports.controller.ts:10-11` has no feature guard.
- Comments in the screens (`RemindersClient.tsx:40`, `DocumentsClient.tsx:33` and others) leave a 401 to AppShell,
  which looks for a token only when it is mounted (`AppShell.tsx:16-20`).

## 4. Fairness

In both pipelines `Fairness` is the same, and nothing else is assumed.

- Weak fairness of each worker's steps inside `process`: a slot that has begun a job runs to
  its end, since every await returns or fails. It may crash at any time.
- Strong fairness of taking a given waiting job: BullMQ's waiting list is first in, first
  out and workers keep fetching, so a job that is taken, fails and waits again is reached
  again. Weak fairness would not do, because while all slots are busy nobody can take it.
- Weak fairness of the backoff timer and of the stalled-job check for a job nobody runs: both
  are timers of BullMQ.
- No fairness of requests: nobody has to call the API. No fairness of faults.

The liveness properties admit "the job is in the failed set": a job whose workers die more
often than `MaxStalled`, or that fails `Attempts` times, is left to the operator, as
`queue.providers.ts` says.

`Reminders` assumes weak fairness of one thing: that something of a handler in progress, a scan in progress or a new day happens. A
handler or scan that has begun goes on, days pass, and each day begins a scan, which is what the cron
expression promises. Nobody has to call a handler. The failures are bounded (`MaxCalls`): a scan
that fails every day announces nothing.

`Screens` assumes weak fairness of three things: of the calls under way some is carried out, answered or refused; some
document is processed further (which is what the pipeline's own liveness says); and
the interval timer of the list fires. The connection fails `MaxFailures` times.

`Accounts`, `Sessions`, `Requests` and `Rules` have no fairness and no liveness property: their handlers wait for nobody.

## 5. What is proved

For all values of the constants, under the assumption of each module only (the bounds are natural numbers,
the sets of requests and ids are finite, `None` is not an element of the other sets) unless stated.

**DocumentPipelineProofs.** `TypeInv` strengthens `TypeOK` by what the steps rely on: every reference held by
a request, worker, job or row is to a document that was created, a job that may run has
an attempt left, and `created + Cardinality(Uploading) <= MaxDocs`.
- `TypeCorrect`: `Spec => []TypeOK`.
- `InvoiceCorrect`: `Spec => []ProcessedHasInvoice`. By itself the property is not inductive: confirm,
  overwrite and finalize write a status they decided on earlier. `InvoiceInv` therefore says that
  a document has an invoice not only when its status promises one, but also when some request or
  worker is about to write such a status (`Promised`). No step takes an invoice
  away except the one that deletes the row, and ids are never used again.
- `FileCorrect`: `Spec => []RowHasFile`. `FileInv` adds that the document whose object a request is about to
  delete (`Doomed`) has no row any more, and that a request which is about to create a row has its object in
  the store (`Stored`), whatever others do meanwhile.
- `OvershootBounded`: `Spec => []LimitOvershoot`. `LimitInv` bounds the rows plus the uploads that have passed
  the check and have no row yet (`Admitted`) by `MonthlyLimit - 1 + Cardinality(Request)`: whoever is
  admitted has just counted fewer rows than the limit (`AdmissionStep`), and an insertion turns an
  admitted upload into a row.

The second half of the module is about the life of a document. A worker's write is admissible only for what it knows of the
row, and it knows that from reads long past. Its two theorems rest on what makes the old reads still true.
- `LifecycleImplemented`: `"lock" \notin Faults` implies `Spec => ImplementsLifecycle`, the refinement of `DocumentLifecycle` step by
  step: the status of each document maps to its phase (`PhaseOf`), and each action to a step of one document's life or to none.
  `LifeInv` is the invariant: a slot that is not idle holds the job of its file, and works for the document the job
  carries (`HoldInv`, `JobFileInv`); a document a worker may still write to is open, since nobody else has the job and a handler
  writes only to settled ones (`OpenInv`); a pending confirm stands for a document that is ready or confirmed, a
  pending promotion for a duplicate, ready or confirmed one (`ConfirmInv`).
- `NobodyStranded`: without `remove` and `overwrite`, and without "lock", "redis" and "api", `Spec => []NoStrandedDocument`, which is the
  hypothesis under which `documents_live` checks it; `documents_reupload` shows that `remove` breaks it. `StrandInv` adds that a file
  has one document, that every document created is still there, and that whoever reports a job as completed has settled its
  document (`SettledInv`): so the job whose id stays taken is never the one an unsettled document needs.

**VehicleScansProofs.** `TypeInv` here reserves an id for every request that may still create a vehicle.
- `TypeCorrect`: `Spec => []TypeOK`, which includes that the archive refers to existing vehicles.
- `OvershootBounded`: `Spec => []VehicleOvershoot`. `OvershootInv` bounds the vehicles plus the requests that have
  passed the check (`Admitted`) by `VehicleLimit - 1 + Cardinality(Request)`: whoever is admitted
  has just counted fewer than the limit, and an insertion turns an admitted request into a
  vehicle.
- `OutcomeFinal`: `"lock" \notin Faults` implies `Spec => OutcomeIsFinal`. Three facts together are inductive: a worker that is
  not idle holds the job of its scan, so nobody else works on it (`HoldInv`); while it is
  trying, or in its catch block, the scan has no outcome (`OpenInv`); and the scan a request is about
  to create does not exist and is known to that request alone (`FreshInv`). Crashes,
  redelivery, retries and failures of the database are all allowed.

- `UnfinishedIsQueued`: without "lock", "redis" and "api", `Spec => []UnfinishedScanHasJob`. `AnswerInv` adds that the scan a request is about to
  queue exists, and that a job which is reported as completed, or was, has given its scan an outcome.

The lemmas on the way say what the queue's operations preserve (`QueueTyping`), what a request leaves behind
when it moves on or returns, and how a step changes the number of reserved ids.

**RequestsProofs.** `Inv` strengthens `TypeOK` and the properties by `RequestOK` and `ReportOK`.
- `RequestsTypeCorrect`: `Spec => []TypeOK`.
- `NoForeignRows`: `Spec => []OwnRowsOnly`. The rows a query reaches are those of the company in the holder, so the
  property is inductive once it is known that from TenantGuard on the holder of a request carries the company that
  request has named, and that nobody else writes to it; the same of the report's holder from the moment it is filled.
- `NoRoleNoRows`: `Spec => []RoleWasHeld`. A role may be taken away while the request waits for the feature
  guard, so the invariant speaks of the roles held since the request arrived (`held`). While it waits for the read of the membership, the role that
  will be read is on record already; what was read is therefore in `held`, and passing RolesGuard needs it to be a role of the route.

**SessionsProofs.** `Inv` is `TypeOK`, both properties, and `RequestOK` for each request.
- `SessionsTypeCorrect`: `Spec => []TypeOK`.
- `NoOldSession`: `Spec => []SignedOut`. Whatever moves the epoch on revokes every live row in the same transaction, and a
  row gets the epoch it is issued in.
- `SecondFactorAsked`: `Spec => []CodeNeeded`. It is not inductive: a request decides long before it issues a session that no code is needed.
  `RequestOK` says of each request that is about to issue one without a code, while the second factor is on, that it began
  in an earlier epoch or continues a session that did; `since <= epoch` makes the switching on itself preserve it.

- `FewLinks`: `Spec => []LinksBounded`. The property is inductive as it stands, given `Inv`: a request that comes to make a link has just
  voided all others, so that what is left is bounded by the requests; making the link turns such a request into a link.

**RemindersProofs.** `TypeInv` types the rows, the handlers and the scan, and says that there are as many free ids as handlers
may still need (`RoomOK`).
- `RemindersTyped`: `Spec => []TypeInv`.
- `NothingToldTwice`: `Spec => Throttled`. The scan decides on rows it read at its beginning, and between the announcement and its record a
  handler may change anything. `TellInv` has four parts: what was told of the present due date is what
  the row says, unless the record was lost or is just being written (`InStep`); in that moment it is what is about to be
  recorded, unless the reminder was changed since the scan began (`ToRecord`); of what was changed nothing was
  told (`NothingToldOfChanged`); and what is left on the list may be told (`TodoIsDue`). The last is the property one scan ahead;
  the first makes the list right when the scan begins, and the two in the middle bring it back after the record.
- `VerificationLeavesManual`: `Spec => ManualIsTheUsers`. `applyReminder` finds a row in one await and writes it in the next.
  `FoundOwn` says that what it has found, if it is still there, is not a user's: no handler turns a row into a user's, and a row
  that a user adds meanwhile does not get the id of a removed one.

**AccountsProofs.** `TypeInv` strengthens `TypeOK` by what requests in progress have found out (`CallOK`) and the ids reserved for
memberships.
- `AccountsTypeCorrect`: `Spec => []TypeOK`, which includes that nobody is a member of a company twice and that members and invitations
  go with their company.
- `OvershootIsBounded`: for at least one request, `Spec => []UserOvershoot`. Unlike the limits of documents and vehicles this one is checked on
  two counts taken at different moments, and what is counted moves: joining turns an invitation into a member, so a request may count
  it twice or, having counted members first, not at all. `Taken(t) < Places` alone is not inductive. The invariant adds, for
  every k, that at most k requests are halfway through the check and harmful at distance k (`Harmful(t, k)`): no more than k places are
  left, and what they counted first has fallen behind (`Missed`) by so much that they would not notice. A step that takes a place
  admits a request or moves an invitation, and each lowers both distances together by at most one.
- `DeletedCompanyLeavesNothing`: `Spec => []NothingLeft`, inductive with `TypeInv`: the deletion of the rows makes the request that will
  clean up the objects, and it goes away only with them or with the failure recorded in `spilled`.

**ScreensProofs.** `TypeInv` types rows, calls and histories.
- `ShowsWhatIsStored`: `Spec => []ScreenFollowsServer`. The property speaks of the moment when no call is under way; before, screen and
  database differ in the effects of the calls in between. The invariant says by how much: the calls that were carried out and not yet
  answered are ordered (`Ordered`), `since` is a final part of them (`Recent`), each row is stored as the last call of
  `since` that touches it makes it (`LastCounts`), and a row that none of them touches is shown as it is stored
  (`NothingLacks`), each but for the progress of the worker. An answer that comes in order takes the first call out of `since`, which
  changes the last one only for rows that call was alone to touch. Most handlers put the row there whatever was shown; `prev.map`
  needs to find one, which is `MappedFinds`: the row is shown, or the last call before that touches it brings it. The API refuses an edit
  of a row that is not there, which is why. `Screens` assumes for it that `None` is not a value of a row.

**RulesProofs.** A behaviour of `Rules` chooses one input; `InputKnown` says that it is one of those the constants allow. The
theorems hold for every choice of those constants that the assumptions of `Rules` admit: no bound on the length of a file, a fleet
or a list of candidates, on the number of plans and rows, on what is thrown.
- `ImportHasNoTwin`: `Spec => []ImportAddsNoTwin`. Whether a row creates or updates a vehicle was decided on the fleet before the
  import, while its rows are applied to a fleet that changes. The invariant of the rows (`Imported`) says of plates and of VINs
  (`KeysApart`): each one a vehicle has was there before or is remembered as given by this file, and a vehicle that was created
  shares its own with nobody. A row that is not skipped brings what was not given yet; if it creates, nobody had it before either. The rest is counting
  (`Tally`) and the limit, read anew for each row. `commitImport` is a fold; its invariant is shown for every number of rows by
  taking the smallest for which it would fail (`RowByRow`, `CommitFacts`).
- `MatchIsDominant`: `Spec => []OnlyADominantVehicle`. Two orders of the mappings by weight agree on the two greatest weights (`SameWeights`);
  one that is at least twice another positive one is greater, so both begin with the same mapping (`SameLearned`). That
  the first known candidate decides is all that is proved about VINs and plates: see `VinBeforePlate` in section 3.
- `FailuresToldAlways`: `Spec => []FailuresAreTold`, through the responses to everything that can be thrown (`ResponseFacts`),
  what the forms for signing in and the scan show of each (`Shown`), and the other screens (`ScreenFacts`).
- `UsageToldAlways`: `Spec => []UsageTellsTheLimit`: page, checks and dashboard count the same finite sets, and a share of
  the limit or more is cut off at 100 (`FullPercent`, `BarFacts`).

Seven more are about arrays. Their lemmas come in four groups: what a filter keeps (`WhereKeeps`: the elements that pass, and no
others), what a sort returns (`Ranked`: a permutation of the array that rises; places are counted, so ties are settled by the index),
how a sum over indices splits into the sums of parts that do not overlap, and how often a value or a place occurs. Folds have
invariants that are shown for every length by taking the shortest for which they fail.
- `UrgentFirstAlways`: `Spec => []UrgentFirst`. What the dashboard shows are the first places of a sorted array; a reminder
  it leaves out has a later place, hence no smaller key, and below a million days a smaller key is a smaller rank. Ids differ, so that as
  many are shown as there are due, or as there is room for.
- `SuggestionFollowsHistoryAlways`: `Spec => []SuggestionFollowsHistory`. The distances between neighbours of the sorted readings add up
  to the greatest less the smallest (`TelescopeUp`), those that count are one fewer than the different readings
  (`DifferentNumbers`), and rounding a mean moves it by at most a half (`MeanOf`). The latest service is a fold; `LatestSoFar` says
  what it holds after k services. The next date lies after every service, since an interval is positive (`LearnedPositive`).
- `ReportsAddUpAlways`: `Spec => []ReportsAddUp`. An invoice's date is assumed to be a midnight UTC, so the end of a local day lies before the next one for every
  zone between -12 and 14; the rows of a breakdown split the indices of what is counted. The month of the monthly report is compared
  over all pairs of midnights, on a server in UTC.
- `OutliersAreFewAlways`: `Spec => []OutliersAreFew`. Half of the places of a sorted array lie on each side of its middle, and what
  stands out lies strictly above the median.
- `TrendFollowsCostAlways`: `Spec => []TrendFollowsCost`. More in the last year raises the percentage or leaves it, as the
  year before it is summed over other items.
- `CellsAreBackedAlways`: `Spec => []CellsAreBacked`. A cell is computed from the items of its key in companies that take part, whatever the
  other items are; a percentile lies between two neighbours of the sorted prices, and a larger one does not lie before a smaller.
- `ServicesStandInAlways`: `Spec => []ServicesStandIn`. The models asked are the chain up to the first that answers or refuses for
  good; the chain has the preferred model first and no model twice.

The last one says that reading undoes writing: `WrittenIsReadAlways`, `Spec => []WrittenIsRead`. A fold over a text is a run of steps, one
state for each place (`StepRuns`), and two folds agree if their states do at every place, by the first place at which they would not.
- CSV: a written table is laid out in pieces, so that each row and each field has a first place in
  the text, and each character of a field in quotes one place or two. At the first place of a field the parser stands outside quotes with an
  empty field and the row as far as it was written; inside a field it has what was written of it. A character of a doubled
  quote is looked at with the one after it, and what follows a closing quote is a delimiter or a line end, never a quote.
- Base32: encoder and decoder are compared after each byte. The bits the encoder has not given out are the low bits of that byte, and they and
  the bits the decoder has not used make up the letter between two bytes; the bits above them differ on both sides and are never
  read. At the end the padding of the last letter is too short for another byte.
- Codes: the difference of two counters is linear arithmetic about quotients by the period.

The assumptions say what the database and the types guarantee: a written table is a sequence of rows that have at least one field, a
secret is a sequence of bytes and clocks are integers; mappings have weights from 1 on, one for a vehicle and supplier, and come in their
order; a plan allows at least one of everything; what is thrown has the status of a failure; reminders of a company have different
ids; prices, dates and mileages are integers or missing; a list in the
environment is a list or unset. One assumption is not guaranteed by the code: that the date of an invoice is a midnight UTC. It is when
the extraction gives a day, as its prompt asks, but `documents.processor.ts:385` takes `new Date` of a text nobody validates, and an
invoice with a time of day on the last day of a period falls out of it on a server east of UTC. TLC evaluates them for the run's inputs.

## 6. What is only model-checked, and what is not modelled

Only model-checked: the liveness properties (`JobsDrain`, `QueuedDocumentSettles`, `QueuedScanIsAnswered`,
`OverdueIsAnnounced`, `ProcessingSettles`), which are out of the prover's reach; and `CallsArrive` of `Rules`.
`CallsArrive` depends on no constant but `None`: TLC has looked at every call and role there is.

The faults a run leaves out matter for these properties:
- `ImplementsLifecycle`, `OutcomeIsFinal`, `NoStrandedDocument` and `UnfinishedScanHasJob` do not hold with "lock".
  A worker that has lost its lock goes on writing, and overwrites what the second worker of the job has
  finished, even a confirmed document; the job is gone by then. BullMQ renews locks while the event
  loop runs, so this takes a process that stands still for longer than the lock.
- `NoStrandedDocument` and `UnfinishedScanHasJob` do not hold with "redis" or "api" either: a handler that
  fails between the row and the job leaves a row without a job. For documents another upload of the file
  queues it; nothing does for scans, whose caller never learned the id.
- `TypeOK` (both), `ProcessedHasInvoice`, `RowHasFile`, `LimitOvershoot` and `VehicleOvershoot` are proved
  with every fault.

`ImplementsLifecycle` is checked with two attempts and interleaved handlers (`documents_workers`); the crashes of `documents_live` are
not combined with it.

Left out of the two pipelines: audit entries and push messages (their failures are swallowed
and nothing reads them back), the fields of documents, invoices and vehicles beyond those named
above, the monthly window of the document limit (all rows fall into one month), and more than
one tenant (every query of the pipelines is by tenant, and job ids and keys contain the tenant; `Requests` is about more than one).

Not modelled, and why:
- Audit log, notifications, mailer and push: best-effort side effects that nothing reads back.
- `resolveSupplierId` and the learning of mappings: what a supplier is to the duplicate check is part of
  the invoice key in `DocumentPipeline`; two workers that create one supplier twice are listed as a hazard.
- The items of an invoice: a retry of the worker against `updateItem` is listed as a hazard; the corrections appear only as calls of
  the review screen.
- The opt-in of a company against a recomputation in progress: `CostRules` has the recomputation as a function of one
  state of the database.
- The polling of VehicleScanModal and the rows of UploadZone: their states are those of one call each. Forms and rendering.
- The export of data, support access and presigned links: they only read, or change nothing another component reads.
- Bootstrapping, health checks and validation pipes.

## 7. The plan

1. Done: `JobQueue`, `DocumentPipeline` with its abstract specification, `VehicleScans`, `Reminders`, `Accounts`, `Sessions`,
   `Requests`, `Screens`, `Rules` with its eight modules, and the proofs above.
2. Theorems: `OutcomeFinal` with the vehicles of the archive.
3. Models: suppliers and mappings created by two workers, the items of an invoice between a retry and a correction, the opt-in
   against a recomputation.
