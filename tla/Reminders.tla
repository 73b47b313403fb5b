------------------------------ MODULE Reminders ------------------------------
(***************************************************************************)
(* The reminders of one vehicle: the handlers of RemindersService, the      *)
(* daily scan that announces what is due, and VerificationService, which    *)
(* writes the due dates it gets from a register or reads from a document.   *)
(*                                                                          *)
(* Time is relative: a date is the number of days left to it, and a day     *)
(* passes only between handlers.  Abstracted: titles, notes and addresses;  *)
(* one vehicle, since nothing relates the reminders of two; push and mail   *)
(* are one announcement, as neither of them reports an undelivered one.     *)
(***************************************************************************)
EXTENDS Integers, FiniteSets

CONSTANTS
    Type,          \* ReminderType, the compliance types a register knows
    Kinds,         \* the kinds of reminder users give
    Request,       \* handlers that can be in progress at the same time
    None,          \* null
    MaxReminders,  \* bound: reminder ids
    MaxCalls,      \* bound: handlers called and failures
    MaxOdometer,   \* bound: the odometer, in units of REMINDER_DUE_SOON_KM
    Past, Horizon, \* bounds: how far back and ahead a date is told apart
    DueDays,       \* the due dates users, documents and registers give
    DueKms,        \* the due mileages users give
    Intervals,     \* the repetition intervals users give
    SoonDays,      \* REMINDER_DUE_SOON_DAYS
    SoonKm,        \* REMINDER_DUE_SOON_KM
    Renotify,      \* REMINDER_OVERDUE_RENOTIFY_DAYS
    Ops,           \* the handlers that are called
    Faults         \* the failures that happen

AllOps == {"create", "update", "complete", "remove", "confirm", "verify", "drive"}

\* "db": a query of the scan or of a notification fails; "crash": the scan is
\* interrupted and started again; "api": a handler is cut short between awaits.
AllFaults == {"db", "crash", "api"}

ASSUME RemindersAssumption ==
    /\ MaxReminders \in Nat /\ MaxCalls \in Nat /\ MaxOdometer \in Nat
    /\ Past \in Nat \ {0} /\ Horizon \in Nat
    /\ DueDays \subseteq -Past .. Horizon
    /\ DueKms \subseteq Nat /\ Intervals \subseteq 1 .. Horizon
    /\ SoonDays \in Nat /\ SoonKm \in Nat /\ Renotify \in Nat \ {0}
    /\ IsFiniteSet(Request) /\ IsFiniteSet(Type)
    /\ Kinds \subseteq {"maintenance", "compliance"}
    /\ Ops \subseteq AllOps /\ Faults \subseteq AllFaults
    /\ None \notin Int /\ None \notin Type /\ None \notin {"due_soon", "overdue"}

VARIABLES
    rem,       \* the Reminder rows, by id
    verif,     \* the VehicleVerification row of the vehicle
    papers,    \* the types of which a document is archived
    odometer,  \* vehicle.odometerKm
    scan,      \* what the daily scan is doing
    req,       \* req[q]: what handler q is doing
    calls,     \* how many handlers have been called or have failed
    told       \* history: what the owner was last told of r's due date, how long
               \* ago, and whether the record of it has been lost since

vars == <<rem, verif, papers, odometer, scan, req, calls, told>>

ReminderId == 1 .. MaxReminders
Days       == (-Past .. Horizon) \cup {None}
Stage      == {"due_soon", "overdue"}
Ago        == (0 .. Renotify) \cup {None}

Row == [type     : Type,
        kind     : {"maintenance", "compliance"},
        source   : {"manual", "verification", "document"},
        days     : Days,                  \* dueDate
        km       : DueKms \cup Nat \cup {None},
        every    : Intervals \cup {Horizon, None},
        everyKm  : Intervals \cup {None},
        active   : BOOLEAN,
        stage    : Stage \cup {None},     \* notifiedStage
        ago      : Ago]                   \* days since lastNotifiedAt

NoNews == [stage |-> None, ago |-> None, lost |-> FALSE]

\* Bound: a date beyond the horizon, or further back than Past, is the last one.
Clip(d) == IF d > Horizon THEN Horizon ELSE IF d < -Past THEN -Past ELSE d

-----------------------------------------------------------------------------
(* RemindersService.evaluate *)

Overdue(days, km, odo) ==
    \/ days # None /\ days < 0
    \/ km # None /\ odo # None /\ km - odo < 0

DueSoon(days, km, odo) ==
    \/ days # None /\ days <= SoonDays
    \/ km # None /\ odo # None /\ km - odo <= SoonKm

Status(row) ==
    IF Overdue(row.days, row.km, odometer) THEN "overdue"
    ELSE IF DueSoon(row.days, row.km, odometer) THEN "due_soon"
    ELSE "ok"

-----------------------------------------------------------------------------
(* Handlers *)

RequestState ==
    [pc    : {"idle", "complete", "find", "write", "upsert", "archive",
              "provider", "store", "applyFind", "applyWrite"},
     id    : ReminderId \cup {None},      \* the reminder that was found
     type  : Type \cup {None},            \* the type that is being applied
     days  : Days,                        \* its date
     every : Intervals \cup {Horizon, None},  \* the interval complete has read
     everyKm : Intervals \cup {None},
     odo   : (0 .. MaxOdometer) \cup {None},
     left  : SUBSET Type,                 \* FIELD_TO_TYPE still to be applied
     data  : [status : {"ok", "not_found", "error"}, dates : [Type -> Days]]]

NoData == [status |-> "error", dates |-> [t \in Type |-> None]]

IdleRequest == [pc |-> "idle", id |-> None, type |-> None, days |-> None,
                every |-> None, everyKm |-> None, odo |-> None, left |-> {},
                data |-> NoData]

At(q, pc) == req[q].pc = pc
Return(q) == req' = [req EXCEPT ![q] = IdleRequest]
Step(q, change) == req' = [req EXCEPT ![q] = change]

Busy == {q \in Request : ~At(q, "idle")}

Called(op) == op \in Ops /\ calls < MaxCalls /\ calls' = calls + 1
Failure(f) == f \in Faults /\ calls < MaxCalls /\ calls' = calls + 1

\* randomUUID: not the id of a row, and in nobody's hands.
FreshIds == {r \in ReminderId : /\ r \notin DOMAIN rem
                                /\ r \notin {n[1] : n \in scan.todo}
                                /\ \A q \in Request : req[q].id # r}
NewId == CHOOSE r \in FreshIds : TRUE

\* Bound: whoever may still create reminders has ids for them.
MayCreate(q, t) ==
    \/ req[q].pc \in {"find", "write"} /\ t = req[q].type
    \/ req[q].pc \in {"provider", "store"}
    \/ req[q].pc \in {"applyFind", "applyWrite"} /\ t \in req[q].left
Reserved == {p \in Request \X Type : MayCreate(p[1], p[2])}
Room(n) == Cardinality(Reserved) + n <= Cardinality(FreshIds)

With(r, row) == [s \in DOMAIN rem \cup {r} |-> IF s = r THEN row ELSE rem[s]]
Without(r)   == [s \in DOMAIN rem \ {r} |-> rem[s]]

Scanning == scan.pc \in {"notify", "record"}

\* The due date of r is a new one, or the owner asked for it anew: what was told
\* before no longer counts.
Renewed(r) == [told EXCEPT ![r] = NoNews]
NewsOver(r) == scan' = [scan EXCEPT !.changed = IF Scanning THEN @ \cup {r} ELSE @]

Reset(row) == [row EXCEPT !.stage = None, !.ago = None]

\* create: a due date, a due mileage or an interval must be given.
Create ==
    /\ Called("create") /\ Room(1)
    /\ \E t \in Type, k \in Kinds, d \in DueDays \cup {None}, km \in DueKms \cup {None},
          i \in Intervals \cup {None}, ik \in Intervals \cup {None}, a \in BOOLEAN :
          /\ d # None \/ km # None \/ i # None \/ ik # None
          /\ rem' = With(NewId,
                [type |-> t, kind |-> k, source |-> "manual", days |-> d, km |-> km,
                 every |-> i, everyKm |-> ik, active |-> a, stage |-> None, ago |-> None])
    /\ told' = Renewed(NewId) /\ NewsOver(NewId)
    /\ UNCHANGED <<verif, papers, odometer, req>>

\* update changes what it is given.  With a due date, a due mileage or a state
\* the stage starts again.
Update(r) ==
    /\ Called("update") /\ r \in DOMAIN rem
    /\ \E t \in Type, k \in Kinds \cup {rem[r].kind}, i \in Intervals \cup {None, rem[r].every},
          ik \in Intervals \cup {None, rem[r].everyKm} :
          LET row == [rem[r] EXCEPT !.type = t, !.kind = k, !.every = i, !.everyKm = ik] IN
          \/ /\ \E d \in DueDays \cup {None, row.days}, km \in DueKms \cup {None, row.km},
                   a \in BOOLEAN :
                   rem' = [rem EXCEPT ![r] = Reset([row EXCEPT
                               !.days = d, !.km = km, !.active = a])]
             /\ told' = Renewed(r) /\ NewsOver(r)
          \/ /\ rem' = [rem EXCEPT ![r] = row]
             /\ UNCHANGED <<told, scan>>
    /\ UNCHANGED <<verif, papers, odometer, req>>

Remove(r) ==
    /\ Called("remove") /\ r \in DOMAIN rem
    /\ rem' = Without(r)
    /\ told' = Renewed(r) /\ NewsOver(r)
    /\ UNCHANGED <<verif, papers, odometer, req>>

\* complete reads the interval and the odometer.
BeginComplete(q, r) ==
    /\ Called("complete") /\ At(q, "idle") /\ r \in DOMAIN rem
    /\ Step(q, [IdleRequest EXCEPT !.pc = "complete", !.id = r, !.every = rem[r].every,
                                   !.everyKm = rem[r].everyKm, !.odo = odometer])
    /\ UNCHANGED <<rem, verif, papers, odometer, scan, told>>

\* Done today or the day before, at a mileage that is given (0 stands for an
\* earlier one) or the odometer's.  The next due date counts from then; without an
\* interval it was a single task.  reminder.update fails when the row is gone.
Complete(q) ==
    /\ At(q, "complete")
    /\ LET r == req[q].id
           rolls == req[q].every # None \/ req[q].everyKm # None IN
       \/ /\ r \in DOMAIN rem
          /\ \E doneAt \in {-1, 0}, doneKm \in {0, req[q].odo} :
                rem' = [rem EXCEPT ![r] = Reset([rem[r] EXCEPT
                    !.days = IF req[q].every = None THEN @ ELSE Clip(doneAt + req[q].every),
                    !.km = IF req[q].everyKm = None \/ doneKm = None THEN @
                           ELSE doneKm + req[q].everyKm,
                    !.active = rolls])]
          /\ told' = Renewed(r) /\ NewsOver(r)
       \/ r \notin DOMAIN rem /\ UNCHANGED <<rem, told, scan>>
    /\ Return(q)
    /\ UNCHANGED <<verif, papers, odometer, calls>>

-----------------------------------------------------------------------------
(* VerificationService.confirmDocument: a date read from a certificate *)

\* The vehicle, the file key and the date are checked first.
BeginConfirm(q, t, d) ==
    /\ Called("confirm") /\ At(q, "idle") /\ Room(1)
    /\ Step(q, [IdleRequest EXCEPT !.pc = "find", !.type = t, !.days = d])
    /\ UNCHANGED <<rem, verif, papers, odometer, scan, told>>

\* reminder.findFirst: any compliance reminder of the type, whoever wrote it.
FindForDocument(q) ==
    /\ At(q, "find")
    /\ LET found == {r \in DOMAIN rem : rem[r].type = req[q].type
                                        /\ rem[r].kind = "compliance"} IN
       \E r \in IF found = {} THEN {None} ELSE found :
          Step(q, [req[q] EXCEPT !.pc = "write", !.id = r])
    /\ UNCHANGED <<rem, verif, papers, odometer, scan, calls, told>>

ComplianceRow(t, d, source) ==
    [type |-> t, kind |-> "compliance", source |-> source, days |-> d, km |-> None,
     every |-> Horizon, everyKm |-> None, active |-> TRUE, stage |-> None, ago |-> None]

\* updateMany touches nothing when the reminder has been removed since.
SetFromDocument(q) ==
    /\ At(q, "write")
    /\ LET r == IF req[q].id = None THEN NewId ELSE req[q].id IN
       \/ /\ req[q].id = None
          /\ rem' = With(r, ComplianceRow(req[q].type, req[q].days, "document"))
          /\ told' = Renewed(r) /\ NewsOver(r)
       \/ /\ req[q].id \in DOMAIN rem
          /\ rem' = [rem EXCEPT ![r] = Reset([rem[r] EXCEPT
                        !.days = req[q].days, !.active = TRUE, !.source = "document"])]
          /\ told' = Renewed(r) /\ NewsOver(r)
       \/ /\ req[q].id # None /\ req[q].id \notin DOMAIN rem
          /\ UNCHANGED <<rem, told, scan>>
    /\ Step(q, [req[q] EXCEPT !.pc = "upsert", !.id = None])
    /\ UNCHANGED <<verif, papers, odometer, calls>>

UpsertField(q) ==
    /\ At(q, "upsert")
    /\ verif' = [exists |-> TRUE, status |-> "ok", source |-> "document",
                 dates |-> [verif.dates EXCEPT ![req[q].type] = req[q].days]]
    /\ Step(q, [req[q] EXCEPT !.pc = "archive"])
    /\ UNCHANGED <<rem, papers, odometer, scan, calls, told>>

ArchiveDocument(q) ==
    /\ At(q, "archive")
    /\ papers' = papers \cup {req[q].type}
    /\ Return(q)
    /\ UNCHANGED <<rem, verif, odometer, scan, calls, told>>

-----------------------------------------------------------------------------
(* VerificationService.doVerify: called by a user and by the weekly job *)

BeginVerify(q) ==
    /\ Called("verify") /\ At(q, "idle") /\ Room(Cardinality(Type))
    /\ Step(q, [IdleRequest EXCEPT !.pc = "provider"])
    /\ UNCHANGED <<rem, verif, papers, odometer, scan, told>>

\* The register answers with the dates it knows, or not at all.
AskProvider(q) ==
    /\ At(q, "provider")
    /\ \E status \in {"ok", "not_found", "error"}, dates \in [Type -> DueDays \cup {None}] :
          /\ status = "error" => dates = NoData.dates
          /\ Step(q, [req[q] EXCEPT !.pc = "store",
                                    !.data = [status |-> status, dates |-> dates]])
    /\ UNCHANGED <<rem, verif, papers, odometer, scan, calls, told>>

\* The row is written whatever the status; reminders only when it is ok.
StoreVerification(q) ==
    /\ At(q, "store")
    /\ verif' = [exists |-> TRUE, status |-> req[q].data.status, source |-> "ro",
                 dates |-> req[q].data.dates]
    /\ \/ /\ req[q].data.status = "ok"
          /\ Step(q, [req[q] EXCEPT !.pc = "applyFind",
                        !.left = {t \in Type : req[q].data.dates[t] # None}])
       \/ req[q].data.status # "ok" /\ Return(q)
    /\ UNCHANGED <<rem, papers, odometer, scan, calls, told>>

\* Mutant: applyReminder takes any reminder of the type.
ApplyFindAny(q) ==
    /\ At(q, "applyFind")
    /\ \/ req[q].left = {} /\ Return(q)
       \/ \E t \in req[q].left :
             LET found == {r \in DOMAIN rem : rem[r].type = t} IN
             \E r \in IF found = {} THEN {None} ELSE found :
                Step(q, [req[q] EXCEPT !.pc = "applyWrite", !.type = t, !.id = r])
    /\ UNCHANGED <<rem, verif, papers, odometer, scan, calls, told>>

\* applyReminder looks for a reminder that a verification wrote.
ApplyFind(q) ==
    /\ At(q, "applyFind")
    /\ \/ req[q].left = {} /\ Return(q)
       \/ \E t \in req[q].left :
             LET found == {r \in DOMAIN rem : rem[r].type = t
                                              /\ rem[r].source = "verification"} IN
             \E r \in IF found = {} THEN {None} ELSE found :
                Step(q, [req[q] EXCEPT !.pc = "applyWrite", !.type = t, !.id = r])
    /\ UNCHANGED <<rem, verif, papers, odometer, scan, calls, told>>

\* The stage is reset even if the date is the one the reminder had.
ApplyWrite(q) ==
    /\ At(q, "applyWrite")
    /\ LET r == IF req[q].id = None THEN NewId ELSE req[q].id
           due == req[q].data.dates[req[q].type] IN
       \/ /\ req[q].id = None
          /\ rem' = With(r, ComplianceRow(req[q].type, due, "verification"))
          /\ told' = Renewed(r) /\ NewsOver(r)
       \/ /\ req[q].id \in DOMAIN rem
          /\ rem' = [rem EXCEPT ![r] = Reset([rem[r] EXCEPT !.days = due, !.active = TRUE])]
          /\ \/ rem[r].days = due /\ rem[r].active
                /\ told' = [told EXCEPT ![r].lost = TRUE] /\ UNCHANGED scan
             \/ ~(rem[r].days = due /\ rem[r].active)
                /\ told' = Renewed(r) /\ NewsOver(r)
       \/ /\ req[q].id # None /\ req[q].id \notin DOMAIN rem
          /\ UNCHANGED <<rem, told, scan>>
    /\ Step(q, [req[q] EXCEPT !.pc = "applyFind", !.id = None, !.type = None,
                              !.left = @ \ {req[q].type}])
    /\ UNCHANGED <<verif, papers, odometer, calls>>

RequestLost(q) ==
    /\ Failure("api") /\ q \in Busy
    /\ Return(q)
    /\ UNCHANGED <<rem, verif, papers, odometer, scan, told>>

\* The odometer is read off, from an invoice or by the user.
Drive ==
    /\ Called("drive")
    /\ odometer' \in 0 .. MaxOdometer
    /\ UNCHANGED <<rem, verif, papers, scan, req, told>>

-----------------------------------------------------------------------------
(* scanAndNotify: one job at a time, every day at seven *)

Quiet == [pc |-> "idle", todo |-> {}, now |-> None, changed |-> {}]

\* Mutant: what is overdue is not announced again.
MustNotifyOnce(row) == row.active /\ Status(row) # "ok" /\ row.stage # Status(row)

\* enteredNewStage or overdueRenotify
MustNotify(row) ==
    LET status == Status(row) IN
    /\ row.active /\ status # "ok"
    /\ \/ row.stage # status
       \/ status = "overdue" /\ row.ago # None /\ row.ago >= Renotify

\* Everything is decided on what findMany returned.
BeginScan ==
    /\ scan.pc = "due"
    /\ LET todo == {<<r, Status(rem[r])>> : r \in {s \in DOMAIN rem : MustNotify(rem[s])}} IN
       scan' = IF todo = {} THEN Quiet
               ELSE [pc |-> "notify", todo |-> todo, now |-> None, changed |-> {}]
    /\ UNCHANGED <<rem, verif, papers, odometer, req, calls, told>>

\* The announcement is about the due date r has now.
Tells(r, stage, lost) ==
    told' = IF r \in scan.changed \/ r \notin DOMAIN rem THEN told
            ELSE [told EXCEPT ![r] = [stage |-> stage, ago |-> 0, lost |-> lost]]

NextReminder(todo) ==
    scan' = IF todo = {} THEN Quiet
            ELSE [scan EXCEPT !.pc = "notify", !.todo = todo, !.now = None]

Notify(r, stage) ==
    /\ scan.pc = "notify" /\ <<r, stage>> \in scan.todo
    /\ Tells(r, stage, FALSE)
    /\ scan' = [scan EXCEPT !.pc = "record", !.now = <<r, stage>>]
    /\ UNCHANGED <<rem, verif, papers, odometer, req, calls>>

\* A query fails before the push or after it: the next reminder is tried.
NotifyFails(r, stage) ==
    /\ Failure("db")
    /\ scan.pc = "notify" /\ <<r, stage>> \in scan.todo
    /\ Tells(r, stage, TRUE) \/ UNCHANGED told
    /\ NextReminder(scan.todo \ {<<r, stage>>})
    /\ UNCHANGED <<rem, verif, papers, odometer, req>>

\* Mutant: the stage is not recorded.
RecordDateOnly ==
    /\ scan.pc = "record"
    /\ rem' = IF scan.now[1] \in DOMAIN rem
              THEN [rem EXCEPT ![scan.now[1]].ago = 0] ELSE rem
    /\ NextReminder(scan.todo \ {scan.now})
    /\ UNCHANGED <<verif, papers, odometer, req, calls, told>>

\* Whatever the reminder has become since, unless it is gone.
Record ==
    /\ scan.pc = "record"
    /\ rem' = IF scan.now[1] \in DOMAIN rem
              THEN [rem EXCEPT ![scan.now[1]].stage = scan.now[2], ![scan.now[1]].ago = 0]
              ELSE rem
    /\ NextReminder(scan.todo \ {scan.now})
    /\ UNCHANGED <<verif, papers, odometer, req, calls, told>>

RecordLost == [told EXCEPT ![scan.now[1]].lost = TRUE]

RecordFails ==
    /\ Failure("db") /\ scan.pc = "record"
    /\ told' = RecordLost
    /\ NextReminder(scan.todo \ {scan.now})
    /\ UNCHANGED <<rem, verif, papers, odometer, req>>

\* The job is run once more, or not at all.
ScanLost ==
    /\ Failure("crash") /\ scan.pc # "idle"
    /\ \/ scan' = Quiet
       \/ scan' = [Quiet EXCEPT !.pc = "due"]
    /\ told' = IF scan.pc = "record" THEN RecordLost ELSE told
    /\ UNCHANGED <<rem, verif, papers, odometer, req>>

-----------------------------------------------------------------------------
(* Time *)

Sooner(d) == IF d = None THEN None ELSE Clip(d - 1)
Older(a)  == IF a = None THEN None ELSE IF a < Renotify THEN a + 1 ELSE a

\* A day passes: no handler and no scan takes that long.
NextDay ==
    /\ Busy = {} /\ scan.pc = "idle"
    /\ rem' = [r \in DOMAIN rem |-> [rem[r] EXCEPT !.days = Sooner(@), !.ago = Older(@)]]
    /\ verif' = [verif EXCEPT !.dates = [t \in Type |-> Sooner(verif.dates[t])]]
    /\ told' = [r \in ReminderId |-> [told[r] EXCEPT !.ago = Older(@)]]
    /\ scan' = [scan EXCEPT !.pc = "due"]
    /\ UNCHANGED <<papers, odometer, req, calls>>

-----------------------------------------------------------------------------
Init ==
    /\ rem = [r \in {} |-> None]
    /\ verif = [exists |-> FALSE, status |-> "error", source |-> "ro", dates |-> NoData.dates]
    /\ papers = {}
    /\ odometer \in {None, 0}
    /\ scan = Quiet
    /\ req = [q \in Request |-> IdleRequest]
    /\ calls = 0
    /\ told = [r \in ReminderId |-> NoNews]

UserNext ==
    \/ Create
    \/ \E r \in ReminderId : Update(r) \/ Remove(r)
    \/ Drive

HandlerStep(q) ==
    \/ Complete(q)
    \/ FindForDocument(q) \/ SetFromDocument(q) \/ UpsertField(q) \/ ArchiveDocument(q)
    \/ AskProvider(q) \/ StoreVerification(q) \/ ApplyFind(q) \/ ApplyWrite(q)

HandlerNext(q) ==
    \/ \E r \in ReminderId : BeginComplete(q, r)
    \/ \E t \in Type, d \in DueDays : BeginConfirm(q, t, d)
    \/ BeginVerify(q)
    \/ HandlerStep(q)
    \/ RequestLost(q)

ScanStep ==
    \/ BeginScan
    \/ \E r \in ReminderId, stage \in Stage : Notify(r, stage)
    \/ Record

ScanNext ==
    \/ ScanStep
    \/ \E r \in ReminderId, stage \in Stage : NotifyFails(r, stage)
    \/ RecordFails
    \/ ScanLost

Next ==
    \/ UserNext
    \/ \E q \in Request : HandlerNext(q)
    \/ ScanNext
    \/ NextDay

Spec == Init /\ [][Next]_vars

\* Something goes on: a handler or a scan that has begun, or time.
Fairness == WF_vars((\E q \in Request : HandlerStep(q)) \/ ScanStep \/ NextDay)

FairSpec == Spec /\ Fairness

-----------------------------------------------------------------------------
(* Properties *)

\* scanAndNotify does not announce the same state of the same due date again,
\* unless it is overdue and a week has passed, or the record of the announcement
\* was lost: the write failed, or a verification has rewritten the reminder.
Throttled ==
    [][\A r \in ReminderId, stage \in Stage :
          Notify(r, stage) /\ told' # told =>
             \/ told[r].stage # stage
             \/ stage = "overdue" /\ told[r].ago >= Renotify
             \/ told[r].lost]_vars

\* The comment of scanAndNotify says so without the exception.
StrictlyThrottled ==
    [][\A r \in ReminderId, stage \in Stage :
          Notify(r, stage) /\ told' # told =>
             \/ told[r].stage # stage
             \/ stage = "overdue" /\ told[r].ago >= Renotify]_vars

\* A verification leaves the reminders alone that a user has entered: they only
\* get a new due date from the user, or from a certificate, which takes them over.
ManualIsTheUsers ==
    [][\A q \in Request : At(q, "applyWrite") /\ ~At(q, "applyWrite")' =>
          \A r \in DOMAIN rem : rem[r].source = "manual" => rem'[r] = rem[r]]_vars

Unannounced(r) ==
    /\ r \in DOMAIN rem /\ rem[r].active
    /\ Status(rem[r]) = "overdue"
    /\ told[r].stage # "overdue"

\* What is overdue is announced as overdue, whatever ran into the scan that
\* should have done it: a stage recorded for an older due date silences the new
\* one for a week at most.
OverdueIsAnnounced == \A r \in ReminderId : Unannounced(r) ~> ~Unannounced(r)

\* RoVerificationProvider: on an error the service overwrites nothing.
ErrorOverwritesNothing ==
    [][\A q \in Request : StoreVerification(q) /\ req[q].data.status = "error" =>
          verif'.dates = verif.dates]_vars
=============================================================================
