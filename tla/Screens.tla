------------------------------ MODULE Screens -------------------------------
(***************************************************************************)
(* The screens of the web client that show rows of the API and change them:   *)
(* what is shown is loaded when the screen opens and again after some calls   *)
(* or while a document is processed; after the other calls the screen makes    *)
(* the change itself.  Calls run at the same time and may be answered in       *)
(* another order than they were carried out.  The user is the only one who     *)
(* changes the rows, but for the pipeline that processes documents.            *)
(***************************************************************************)
EXTENDS Naturals, Sequences

CONSTANTS
    Screens,        \* the screens that may be opened
    Id,             \* rows; on the review page, the fields of the document
    Load, Write,    \* call slots: loads of all rows, and the user's calls
    MaxClicks, MaxFailures,     \* bounds: calls of the user, calls that fail
    None

\* A handler: which rows the API lets it change (new ones, old ones, or any),
\* what it puts into the state when the answer comes, whether the rows are loaded
\* again then, and which buttons are disabled until then.
Handler(makes, shows, reloads, disables) ==
    [makes |-> makes, shows |-> shows, reloads |-> reloads, disables |-> disables]

Adds(shows, reloads)    == Handler({"new"}, shows, reloads, "nothing")
Edits(shows, disables)  == Handler({"old"}, shows, FALSE, disables)

UploadZone          == Adds("saved", TRUE)
DocumentsClient     == [upload |-> UploadZone, remove |-> Edits("filtered", "row")]
VehicleFormModal    == Handler({"new", "old"}, "saved", FALSE, "nothing")
VehicleImportModal  == Handler({"new", "old"}, "nothing", TRUE, "nothing")
VehiclesClient      == [save |-> VehicleFormModal, import |-> VehicleImportModal,
                        remove |-> Edits("filtered", "row")]
ReminderFormModal   == Handler({"new", "old"}, "saved", FALSE, "nothing")
RemindersClient     == [save |-> ReminderFormModal, complete |-> Edits("saved", "row"),
                        remove |-> Edits("filtered", "row")]
VehicleReminders    == [save |-> RemindersClient.save,
                        complete |-> RemindersClient.complete,
                        remove |-> RemindersClient.remove,
                        suggestion |-> Adds("saved", FALSE)]
Members             == [role |-> Edits("mapped", "nothing"),
                        remove |-> Edits("filtered", "nothing")]
Invitations         == [invite |-> Handler({"new"}, "nothing", TRUE, "button"),
                        remove |-> Edits("filtered", "nothing")]
FeatureOverrides    == [feature |-> Handler({"new", "old"}, "saved", FALSE, "nothing"),
                        remove |-> Handler({"any"}, "filtered", FALSE, "nothing")]
ComplianceScanModal == Handler({"old"}, "nothing", TRUE, "nothing")
VehicleVerification == [comply |-> ComplianceScanModal,
                        verify |-> Handler({"any"}, "answered", FALSE, "button")]
\* Confirming puts the status into the copy of the document that was shown when
\* the button was pressed.
DocumentReviewClient == [assign |-> Edits("mapped", "row"),
                         confirm |-> Edits("copied", "button"),
                         overwrite |-> Handler({"old"}, "nothing", TRUE, "button")]

Refresh == Handler({"any"}, "answered", FALSE, "nothing")

Handlers == [documents    |-> DocumentsClient,
             vehicles     |-> VehiclesClient,
             reminders    |-> VehicleReminders,
             members      |-> Members,
             invitations  |-> Invitations,
             overrides    |-> FeatureOverrides,
             verification |-> VehicleVerification,
             review       |-> DocumentReviewClient]

Ops == UNION {DOMAIN Handlers[s] : s \in Screens}

Statuses == <<"QUEUED", "EXTRACTING", "READY">>
PROCESSING == {"QUEUED", "EXTRACTING"}

ASSUME ScreensAssumption ==
    /\ Screens \subseteq DOMAIN Handlers /\ MaxClicks \in Nat /\ MaxFailures \in Nat
    /\ Load \cap Write = {}
    /\ None \notin PROCESSING \cup {"READY", "first", "later"}

VARIABLES
    screen,     \* which of them is open
    stored,     \* the rows in the database, None if there is no such row
    shown,      \* the rows in the state of the component
    call,       \* the calls under way
    busy,       \* the row whose buttons are disabled
    earlier,    \* history: the calls carried out before each of them, while they are
                \*   not yet answered
    missing,    \* history: the screen may have missed the effect of a call
    since,      \* history: the calls carried out after all that may be missing, and not
                \*   yet answered
    loaded,     \* history: the rows were loaded
    clicks, failures

vars == <<screen, stored, shown, call, busy, earlier, missing, since, loaded,
          clicks, failures>>
history == <<earlier, missing, since>>

Slot == Load \cup Write
Free == [op |-> "none", id |-> None, value |-> None, state |-> "free",
         answer |-> None, seen |-> None]

\* The status field of the document on the review page.
StatusField == CHOOSE id \in Id : TRUE

Values == IF screen = "documents" THEN PROCESSING \cup {"READY"} ELSE {"first", "later"}
\* What a call makes of its row: a document is queued, other rows get any value.
ValuesOf(op) == IF op = "remove" THEN {None}
                ELSE IF screen = "documents" THEN {"QUEUED"} ELSE Values
FixedRows == screen \in {"verification", "review"}

Start(c, op, id, v) ==
    [call EXCEPT ![c] = [op |-> op, id |-> id, value |-> v, state |-> "sent",
                         answer |-> None, seen |-> IF op = "confirm" THEN shown ELSE None]]

\* The screen opens, and loads its rows (useEffect).
Init ==
    /\ screen \in Screens
    /\ stored \in [Id -> Values \cup {None}]
    /\ FixedRows => \A id \in Id : stored[id] # None
    /\ shown = [id \in Id |-> None]
    /\ \E c \in Load :
         call = [s \in Slot |-> IF s = c THEN [Free EXCEPT !.op = "load", !.state = "sent"]
                                ELSE Free]
    /\ earlier = [c \in Slot |-> {}] /\ missing = FALSE /\ since = {}
    /\ busy = None /\ loaded = FALSE /\ clicks = 0 /\ failures = 0

-----------------------------------------------------------------------------
(* What the user and the timer start *)

Idle(c) == call[c].state = "free"
UnderWay(op) == \E c \in Slot : call[c].op = op

HandlerOf(op) == IF op \in DOMAIN Handlers[screen] THEN Handlers[screen][op] ELSE Refresh
Doing(c) == HandlerOf(call[c].op)

\* A button of a row that is shown, a form, or a file that is chosen.
Offered(op, id) ==
    /\ op \in DOMAIN Handlers[screen]
    /\ HandlerOf(op).disables = "button" => ~UnderWay(op)
    /\ HandlerOf(op).disables = "row" => busy # id
    /\ \/ shown[id] # None /\ HandlerOf(op).makes # {"new"}
       \/ shown[id] = None /\ stored[id] = None /\ "new" \in HandlerOf(op).makes
    /\ op = "assign" => id # StatusField
    /\ op \in {"confirm", "overwrite"} => id = StatusField

\* The slots differ in their names only.
FreeSlot == CHOOSE c \in Write : Idle(c) \/ \A w \in Write : ~Idle(w)

Click(c, op, id, v) ==
    /\ clicks < MaxClicks /\ clicks' = clicks + 1
    /\ c = FreeSlot /\ Idle(c) /\ Offered(op, id) /\ v \in ValuesOf(op)
    /\ call' = Start(c, op, id, v)
    /\ busy' = IF HandlerOf(op).disables = "row" THEN id ELSE busy
    /\ UNCHANGED <<screen, stored, shown, history, loaded, failures>>

\* Mutant: a document whose data is extracted is not waited for.
PollsForQueued == \E id \in Id : shown[id] = "QUEUED"
\* The effect that starts and stops the interval.
Polls == \E id \in Id : shown[id] \in PROCESSING

\* setInterval, while a document that is shown is being processed.
Poll(c) ==
    /\ screen = "documents" /\ Idle(c)
    /\ Polls
    /\ call' = Start(c, "load", None, None)
    /\ UNCHANGED <<screen, stored, shown, busy, history, loaded, clicks, failures>>

-----------------------------------------------------------------------------
(* The API *)

\* Each call is refused if its row is gone (or is there already).
Accepted(c) ==
    \/ "any" \in Doing(c).makes
    \/ "new" \in Doing(c).makes /\ stored[call[c].id] = None
    \/ "old" \in Doing(c).makes /\ stored[call[c].id] # None

\* The calls that are carried out and not yet answered.
CarriedOut == {c \in Slot : call[c].state = "done"}

Execute(c) ==
    LET r == call[c]
        after == CASE r.op = "load"   -> stored
                   [] r.op = "verify" -> [id \in Id |-> r.value]
                   [] r.op = "remove" -> [stored EXCEPT ![r.id] = None]
                   [] OTHER           -> [stored EXCEPT ![r.id] = r.value]
    IN  /\ r.state = "sent" /\ Accepted(c)
        /\ stored' = after
        /\ call' = [call EXCEPT ![c].state = "done", ![c].value = None,
                      ![c].answer = IF Doing(c).shows = "answered" THEN after ELSE r.value]
        /\ earlier' = [earlier EXCEPT ![c] = CarriedOut]
        /\ since' = since \cup {c}
        /\ UNCHANGED <<screen, shown, busy, missing, loaded, clicks, failures>>

\* The worker, whose progress the document pipeline is about.
Process(id) ==
    /\ screen = "documents"
    /\ \E k \in 1 .. Len(Statuses) - 1 :
         stored[id] = Statuses[k] /\ stored' = [stored EXCEPT ![id] = Statuses[k + 1]]
    /\ UNCHANGED <<screen, shown, call, busy, history, loaded, clicks, failures>>

-----------------------------------------------------------------------------
(* What a screen does with an answer *)

\* Mutant: only a row that is shown already is replaced.
SavedShown(rows, id, v) == IF rows[id] = None THEN rows ELSE [rows EXCEPT ![id] = v]
\* handleSaved, handleUploadComplete, handleFeatureChange: replaced or added.
Saved(rows, id, v) == [rows EXCEPT ![id] = v]
\* handleRoleChange, handleAssignVehicle: prev.map.
Mapped(rows, id, v) == IF rows[id] = None THEN rows ELSE [rows EXCEPT ![id] = v]
\* handleDelete, handleRemoveMember, handleRevoke: prev.filter.
Filtered(rows, id) == [rows EXCEPT ![id] = None]

Applied(c) ==
    LET r == call[c] IN
    CASE Doing(c).shows = "answered" -> r.answer
      [] Doing(c).shows = "saved"    -> Saved(shown, r.id, r.answer)
      [] Doing(c).shows = "mapped"   -> Mapped(shown, r.id, r.answer)
      [] Doing(c).shows = "filtered" -> Filtered(shown, r.id)
      [] Doing(c).shows = "copied"   -> [r.seen EXCEPT ![r.id] = r.answer]
      [] OTHER                       -> shown

Released(c) == IF Doing(c).disables = "row" THEN None ELSE busy

\* An answer that comes before that of a call carried out before; and an answer
\* that is put into a copy of the document from before another one.
Overtakes(c) == earlier[c] # {}
WritesOldCopy(c) == call[c].op = "confirm" /\ call[c].seen # shown
\* The screen has made no change of its own.
LeftToLoad(c) == Doing(c).shows = "nothing"

\* History: the call is answered.
Answered(c) == earlier' = [d \in Slot |-> IF d = c THEN {} ELSE earlier[d] \ {c}]

\* History: the screen has the effect of the call, or it may be missing, until a
\* load that was carried out later is received.
Brought(c) ==
    /\ since' = since \ {c}
    /\ missing' = (missing /\ ~(Doing(c).shows = "answered" /\ c \in since))
Missed(c) ==
    /\ since' = {d \in since : c \in earlier[d]}
    /\ missing' = TRUE

\* The result of an import may be closed without the button that loads the rows.
Receive(c) ==
    /\ call[c].state = "done"
    /\ shown' = Applied(c)
    /\ \/ Doing(c).reloads /\ call' = Start(c, "load", None, None)
       \/ /\ ~Doing(c).reloads \/ call[c].op = "import"
          /\ call' = [call EXCEPT ![c] = Free]
    /\ busy' = Released(c)
    /\ Answered(c)
    /\ IF Overtakes(c) \/ WritesOldCopy(c) \/ LeftToLoad(c) THEN Missed(c)
       ELSE Brought(c)
    /\ loaded' = (loaded \/ Doing(c).shows = "answered")
    /\ UNCHANGED <<screen, stored, clicks, failures>>

\* An error, before or after the call was carried out: nothing is changed but
\* the message.
Fail(c) ==
    LET r == call[c] IN
    /\ r.state # "free"
    /\ \/ r.state = "sent" /\ ~Accepted(c) /\ UNCHANGED failures
       \/ failures < MaxFailures /\ failures' = failures + 1
    /\ call' = [call EXCEPT ![c] = Free]
    /\ busy' = Released(c)
    /\ IF r.state = "done" THEN Answered(c) /\ Missed(c) ELSE UNCHANGED history
    /\ UNCHANGED <<screen, stored, shown, loaded, clicks>>

Next ==
    \/ \E c \in Write, op \in Ops, id \in Id, v \in Values \cup {None} :
         Click(c, op, id, v)
    \/ \E c \in Load : Poll(c)
    \/ \E id \in Id : Process(id)
    \/ \E c \in Slot : Execute(c) \/ Receive(c) \/ Fail(c)

\* A call is carried out, answered or refused.
CallStep ==
    \E c \in Slot :
        \/ Execute(c)
        \/ Receive(c)
        \/ call[c].state = "sent" /\ ~Accepted(c) /\ Fail(c)

\* The server, the worker and the timer go on; the connection fails MaxFailures
\* times.
Fairness == /\ WF_vars(CallStep)
            /\ WF_vars(\E id \in Id : Process(id))
            /\ WF_vars(\E c \in Load : Poll(c))

Spec == Init /\ [][Next]_vars /\ Fairness

-----------------------------------------------------------------------------
(* Properties *)

\* Once every answer has come, in the order in which the calls were carried out
\* and without a loss, a screen shows exactly what is stored: its own changes
\* amount to a reload.  A document that is still processed on the screen is
\* excepted, for the next poll brings it.
ScreenFollowsServer ==
    loaded /\ ~missing /\ (\A c \in Slot : Idle(c)) =>
      \A id \in Id : shown[id] = stored[id] \/ shown[id] \in PROCESSING

\* In whatever order the answers come, the list of documents does not show for
\* ever that a document is processed.
ProcessingSettles ==
    \A id \in Id : []<>(shown[id] \notin PROCESSING)

=============================================================================
