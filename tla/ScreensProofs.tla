---------------------------- MODULE ScreensProofs ---------------------------
(***************************************************************************)
(* Proofs about Screens, for any number of rows and of calls at the same    *)
(* time, any number of clicks and of calls that fail.                       *)
(***************************************************************************)
EXTENDS Screens, TLAPS

Value == Values \cup {None}
Rows  == [Id -> Value]

\* The calls of the screen: its own, and the load of its rows.
Op == {"load"} \cup DOMAIN Handlers[screen]

Answers(c) == Doing(c).shows = "answered"

\* What is known of a call under way.
CallOK(c) ==
    /\ call[c].state \in {"free", "sent", "done"}
    /\ call[c].state # "free" =>
         /\ call[c].op \in Op
         /\ call[c].op # "load" => call[c].id \in Id
         /\ call[c].op = "confirm" => call[c].seen \in Rows
    /\ call[c].state = "sent" =>
         /\ call[c].op # "load" => call[c].value \in Value
         /\ call[c].op = "remove" => call[c].value = None
    /\ call[c].state = "done" =>
         /\ call[c].answer \in IF Answers(c) THEN Rows ELSE Value
         /\ call[c].op = "remove" => call[c].answer = None

TypeInv ==
    /\ screen \in Screens
    /\ stored \in Rows /\ shown \in Rows
    /\ DOMAIN call = Slot
    /\ \A c \in Slot : DOMAIN call[c] = {"op", "id", "value", "state", "answer", "seen"}
    /\ earlier \in [Slot -> SUBSET Slot] /\ missing \in BOOLEAN /\ since \subseteq Slot
    /\ \A c \in Slot : CallOK(c)

\* The calls that are not yet answered were carried out one after the other.
Ordered ==
    /\ \A c \in Slot : earlier[c] \subseteq CarriedOut /\ c \notin earlier[c]
    /\ \A c, d \in CarriedOut : c = d \/ c \in earlier[d] \/ d \in earlier[c]
    /\ \A c, d \in Slot : c \in earlier[d] => d \in CarriedOut /\ d \notin earlier[c]
    /\ \A b, c, d \in Slot : b \in earlier[c] /\ c \in earlier[d] => b \in earlier[d]

\* Those after the last that may be missing are the last of them.
Recent ==
    /\ since \subseteq CarriedOut
    /\ ~missing => CarriedOut \subseteq since
    /\ \A c \in since, d \in Slot : c \in earlier[d] => d \in since

\* What a call makes of a row on the screen, if its answer comes in order.
Touches(c, id) == Answers(c) \/ call[c].id = id
Effect(c, id)  == IF Answers(c) THEN call[c].answer[id] ELSE call[c].answer

\* The worker has gone on at most.
Near(v, id) == v = stored[id] \/ v \in PROCESSING

\* The row is stored as the last call makes it that changes it, and is shown so if
\* there is none.
LastCounts ==
    \A id \in Id, c \in since :
        Touches(c, id) /\ (\A d \in since : c \in earlier[d] => ~Touches(d, id)) =>
          Near(Effect(c, id), id)
NothingLacks ==
    \A id \in Id :
        loaded /\ ~missing /\ (\A d \in since : ~Touches(d, id)) => Near(shown[id], id)

\* A call whose answer replaces a row finds the row when it is its turn: on the
\* screen, or brought there by the last call before it that changes the row.
Finds(c, id) ==
    /\ loaded /\ ~missing /\ (\A d \in since : d \in earlier[c] => ~Touches(d, id)) =>
         shown[id] # None
    /\ \A b \in since :
         b \in earlier[c] /\ Touches(b, id)
           /\ (\A d \in since : b \in earlier[d] /\ d \in earlier[c] => ~Touches(d, id))
         => Effect(b, id) # None
MappedFinds ==
    \A c \in since, id \in Id :
        Doing(c).shows = "mapped" /\ call[c].id = id => Finds(c, id)

Inv == TypeInv /\ Ordered /\ Recent /\ LastCounts /\ NothingLacks /\ MappedFinds

-----------------------------------------------------------------------------
(* The tables of handlers *)

\* Only rows that are there are replaced, an answer with all rows is that of a
\* verification, a copy is written by confirming, and only a removed row is left out.
LEMMA TableFacts ==
    ASSUME NEW s \in DOMAIN Handlers, NEW op \in DOMAIN Handlers[s]
    PROVE  /\ op \notin {"load", "none"}
           /\ Handlers[s][op].shows = "mapped" => Handlers[s][op].makes = {"old"}
           /\ Handlers[s][op].shows = "answered" <=> op = "verify"
           /\ Handlers[s][op].shows = "copied" => op = "confirm"
           /\ Handlers[s][op].shows = "filtered" => op = "remove"
           /\ Handlers[s][op].shows
                \in {"answered", "saved", "mapped", "filtered", "copied", "nothing"}
<1> USE DEF Handler, Adds, Edits
<1>1. CASE s = "documents"
  BY <1>1, SMT DEF Handlers, DocumentsClient, UploadZone
<1>2. CASE s = "vehicles"
  BY <1>2, SMT DEF Handlers, VehiclesClient, VehicleFormModal, VehicleImportModal
<1>3. CASE s = "reminders"
  BY <1>3, SMT DEF Handlers, VehicleReminders, RemindersClient, ReminderFormModal
<1>4. CASE s = "members"
  BY <1>4, SMT DEF Handlers, Members
<1>5. CASE s = "invitations"
  BY <1>5, SMT DEF Handlers, Invitations
<1>6. CASE s = "overrides"
  BY <1>6, SMT DEF Handlers, FeatureOverrides
<1>7. CASE s = "verification"
  BY <1>7, SMT DEF Handlers, VehicleVerification, ComplianceScanModal
<1>8. CASE s = "review"
  BY <1>8, SMT DEF Handlers, DocumentReviewClient
<1>9. s \in {"documents", "vehicles", "reminders", "members", "invitations",
             "overrides", "verification", "review"}
  BY SMT DEF Handlers
<1> QED  BY <1>1, <1>2, <1>3, <1>4, <1>5, <1>6, <1>7, <1>8, <1>9

LEMMA HandlerFacts ==
    ASSUME screen \in Screens, NEW op \in Op
    PROVE  /\ op # "none"
           /\ op = "load" => op \notin DOMAIN Handlers[screen]
           /\ HandlerOf(op).shows = "mapped" => HandlerOf(op).makes = {"old"}
           /\ HandlerOf(op).shows = "answered" <=> op \in {"load", "verify"}
           /\ HandlerOf(op).shows = "copied" => op = "confirm"
           /\ HandlerOf(op).shows = "filtered" => op = "remove"
           /\ HandlerOf(op).shows
                \in {"answered", "saved", "mapped", "filtered", "copied", "nothing"}
<1>1. screen \in DOMAIN Handlers
  BY ScreensAssumption DEF ScreensAssumption
<1>2. CASE op \in DOMAIN Handlers[screen]
  <2>1. HandlerOf(op) = Handlers[screen][op]
    BY <1>2 DEF HandlerOf
  <2> QED  BY <1>1, <1>2, <2>1, TableFacts
<1>3. CASE op \notin DOMAIN Handlers[screen]
  <2>1. op = "load" /\ HandlerOf(op) = Refresh
    BY <1>3 DEF HandlerOf, Op
  <2>2. Refresh.shows = "answered"
    BY DEF Refresh, Handler
  <2> QED  BY <1>3, <2>1, <2>2
<1> QED  BY <1>2, <1>3

LEMMA NoneIsNoValue ==
    /\ None \notin PROCESSING /\ None \notin Values /\ PROCESSING \subseteq {"QUEUED", "EXTRACTING"}
BY ScreensAssumption DEF ScreensAssumption, Values, PROCESSING

-----------------------------------------------------------------------------
(* A call that a step leaves alone *)

LEMMA SameCall ==
    ASSUME screen' = screen, NEW d, call'[d] = call[d]
    PROVE  /\ Doing(d)' = Doing(d) /\ Answers(d)' = Answers(d)
           /\ CallOK(d)' = CallOK(d)
           /\ \A id : Touches(d, id)' = Touches(d, id)
           /\ \A id : Effect(d, id)' = Effect(d, id)
<1>1. Value' = Value /\ Rows' = Rows /\ Op' = Op
  BY DEF Value, Rows, Op, Values
<1>2. Doing(d)' = Doing(d)
  BY DEF Doing, HandlerOf
<1>3. Answers(d)' = Answers(d)
  BY <1>2 DEF Answers
<1>4. CallOK(d)' = CallOK(d)
  BY <1>1, <1>3 DEF CallOK
<1>5. \A id : Touches(d, id)' = Touches(d, id) /\ Effect(d, id)' = Effect(d, id)
  BY <1>3 DEF Touches, Effect
<1> QED  BY <1>2, <1>3, <1>4, <1>5

LEMMA StartFacts ==
    ASSUME DOMAIN call = Slot, NEW c \in Slot, NEW op, NEW id, NEW v,
           call' = Start(c, op, id, v)
    PROVE  /\ DOMAIN call' = Slot /\ \A d \in Slot \ {c} : call'[d] = call[d]
           /\ call'[c] = [op |-> op, id |-> id, value |-> v, state |-> "sent",
                          answer |-> None, seen |-> IF op = "confirm" THEN shown ELSE None]
BY DEF Start

LEMMA FreedFacts ==
    ASSUME DOMAIN call = Slot, NEW c \in Slot, call' = [call EXCEPT ![c] = Free]
    PROVE  /\ DOMAIN call' = Slot /\ \A d \in Slot \ {c} : call'[d] = call[d]
           /\ call'[c] = Free
OBVIOUS

\* What is left to show of the calls when a step touches one of them.
LEMMA OneCall ==
    ASSUME screen' = screen, NEW c \in Slot, \A d \in Slot \ {c} : call'[d] = call[d],
           \A d \in Slot : DOMAIN call[d] = {"op", "id", "value", "state", "answer", "seen"}
                           /\ CallOK(d),
           DOMAIN call'[c] = {"op", "id", "value", "state", "answer", "seen"},
           CallOK(c)'
    PROVE  \A d \in Slot :
             DOMAIN call'[d] = {"op", "id", "value", "state", "answer", "seen"} /\ CallOK(d)'
<1> TAKE d \in Slot
<1>1. CASE d = c
  BY <1>1
<1>2. CASE d # c
  <2>1. call'[d] = call[d]
    BY <1>2
  <2>2. CallOK(d)' = CallOK(d)
    BY <2>1, SameCall
  <2> QED  BY <2>1, <2>2
<1> QED  BY <1>1, <1>2

LEMMA FreedCallOK ==
    ASSUME NEW c \in Slot, call'[c] = Free
    PROVE  CallOK(c)' /\ DOMAIN call'[c] = {"op", "id", "value", "state", "answer", "seen"}
<1>1. call'[c].state = "free" /\ DOMAIN call'[c] = {"op", "id", "value", "state", "answer", "seen"}
  BY DEF Free
<1> QED  BY <1>1 DEF CallOK

LEMMA LoadCallOK ==
    ASSUME NEW c \in Slot,
           call'[c] = [op |-> "load", id |-> None, value |-> None, state |-> "sent",
                       answer |-> None,
                       seen |-> IF "load" = "confirm" THEN shown ELSE None]
    PROVE  CallOK(c)' /\ DOMAIN call'[c] = {"op", "id", "value", "state", "answer", "seen"}
<1>1. /\ call'[c].state = "sent" /\ call'[c].op = "load"
      /\ DOMAIN call'[c] = {"op", "id", "value", "state", "answer", "seen"}
  OBVIOUS
<1> QED  BY <1>1 DEF CallOK, Op

LEMMA InitType == ASSUME Init PROVE TypeInv
<1> USE DEF Init
<1>1. screen \in Screens /\ stored \in Rows /\ shown \in Rows
  BY DEF Rows, Value
<1>2. PICK l \in Load :
        call = [s \in Slot |-> IF s = l THEN [Free EXCEPT !.op = "load", !.state = "sent"]
                               ELSE Free]
  OBVIOUS
<1>3. DOMAIN call = Slot
  BY <1>2
<1>4. ASSUME NEW c \in Slot
      PROVE  /\ DOMAIN call[c] = {"op", "id", "value", "state", "answer", "seen"}
             /\ \/ call[c].state = "free"
                \/ call[c].state = "sent" /\ call[c].op = "load"
  <2>1. CASE c = l
    <3>1. call[c] = [Free EXCEPT !.op = "load", !.state = "sent"]
      BY <1>2, <2>1
    <3> QED  BY <3>1 DEF Free
  <2>2. CASE c # l
    <3>1. call[c] = Free
      BY <1>2, <2>2
    <3>2. /\ Free.state = "free"
          /\ DOMAIN Free = {"op", "id", "value", "state", "answer", "seen"}
      BY DEF Free
    <3> QED  BY <3>1, <3>2
  <2> QED  BY <2>1, <2>2
<1>5. \A c \in Slot : CallOK(c)
  BY <1>4 DEF CallOK, Op
<1>6. earlier \in [Slot -> SUBSET Slot] /\ missing \in BOOLEAN /\ since \subseteq Slot
  OBVIOUS
<1> QED  BY <1>1, <1>3, <1>4, <1>5, <1>6 DEF TypeInv

LEMMA ClickType ==
    ASSUME TypeInv, NEW c \in Write, NEW op \in Ops, NEW id \in Id,
           NEW v \in Values \cup {None}, Click(c, op, id, v)
    PROVE  TypeInv'
<1> USE DEF TypeInv, Click
<1>1. c \in Slot
  BY DEF Slot
<1>2. /\ screen' = screen /\ stored' = stored /\ shown' = shown
      /\ earlier' = earlier /\ missing' = missing /\ since' = since
  BY DEF history
<1>3. Rows' = Rows /\ Value' = Value /\ Op' = Op
  BY <1>2 DEF Rows, Value, Values, Op
<1>4. /\ DOMAIN call' = Slot /\ \A d \in Slot \ {c} : call'[d] = call[d]
      /\ call'[c] = [op |-> op, id |-> id, value |-> v, state |-> "sent",
                     answer |-> None, seen |-> IF op = "confirm" THEN shown ELSE None]
  BY <1>1, StartFacts
<1>5. op \in Op /\ (op = "remove" => v = None)
  BY DEF Offered, Op, ValuesOf
<1>6. /\ DOMAIN call'[c] = {"op", "id", "value", "state", "answer", "seen"}
      /\ call'[c].op = op /\ call'[c].id = id /\ call'[c].value = v
      /\ call'[c].state = "sent" /\ (op = "confirm" => call'[c].seen = shown)
  BY <1>4
<1>7. CallOK(c)'
  BY <1>3, <1>5, <1>6 DEF CallOK, Value
<1>8. \A d \in Slot :
        DOMAIN call'[d] = {"op", "id", "value", "state", "answer", "seen"} /\ CallOK(d)'
  BY <1>1, <1>2, <1>4, <1>6, <1>7, OneCall
<1> QED  BY <1>2, <1>3, <1>4, <1>8

LEMMA PollType ==
    ASSUME TypeInv, NEW c \in Load, Poll(c)
    PROVE  TypeInv'
<1> USE DEF TypeInv, Poll
<1>1. c \in Slot
  BY DEF Slot
<1>2. /\ screen' = screen /\ stored' = stored /\ shown' = shown
      /\ earlier' = earlier /\ missing' = missing /\ since' = since
  BY DEF history
<1>3. Rows' = Rows
  BY <1>2 DEF Rows, Value, Values
<1>4. /\ DOMAIN call' = Slot /\ \A d \in Slot \ {c} : call'[d] = call[d]
      /\ call'[c] = [op |-> "load", id |-> None, value |-> None, state |-> "sent",
                     answer |-> None,
                     seen |-> IF "load" = "confirm" THEN shown ELSE None]
  BY <1>1, StartFacts
<1>5. /\ DOMAIN call'[c] = {"op", "id", "value", "state", "answer", "seen"}
      /\ CallOK(c)'
  BY <1>1, <1>4, LoadCallOK
<1>6. \A d \in Slot :
        DOMAIN call'[d] = {"op", "id", "value", "state", "answer", "seen"} /\ CallOK(d)'
  BY <1>1, <1>2, <1>4, <1>5, OneCall
<1> QED  BY <1>2, <1>3, <1>4, <1>6

LEMMA ProcessType ==
    ASSUME TypeInv, NEW id \in Id, Process(id)
    PROVE  TypeInv' /\ call' = call /\ shown' = shown /\ screen' = screen
           /\ \A i \in Id : stored'[i] = stored[i] \/ stored[i] \in PROCESSING
<1> USE DEF TypeInv, Process
<1>1. /\ screen' = screen /\ call' = call /\ shown' = shown /\ screen = "documents"
      /\ earlier' = earlier /\ missing' = missing /\ since' = since
  BY DEF history
<1>2. Rows' = Rows /\ \A c \in Slot : CallOK(c)' = CallOK(c)
  BY <1>1, SameCall DEF Rows, Value, Values
<1>3. PICK k \in 1 .. Len(Statuses) - 1 :
        stored[id] = Statuses[k] /\ stored' = [stored EXCEPT ![id] = Statuses[k + 1]]
  OBVIOUS
<1>4. k \in {1, 2} /\ Statuses[1] = "QUEUED" /\ Statuses[2] = "EXTRACTING" /\ Statuses[3] = "READY"
  BY DEF Statuses
<1>5. stored[id] \in PROCESSING /\ Statuses[k + 1] \in Values
  BY <1>1, <1>3, <1>4 DEF PROCESSING, Values
<1>6. stored' \in Rows
  BY <1>3, <1>5 DEF Rows, Value
<1>7. \A i \in Id : stored'[i] = stored[i] \/ stored[i] \in PROCESSING
  BY <1>3, <1>5 DEF Rows
<1> QED  BY <1>1, <1>2, <1>6, <1>7

\* What the API does of a call: the rows it changes are stored as its answer will
\* show them, and a row that is to be replaced is there.
LEMMA ExecuteFacts ==
    ASSUME TypeInv, NEW c \in Slot, Execute(c)
    PROVE  /\ TypeInv'
           /\ screen' = screen /\ shown' = shown /\ loaded' = loaded /\ missing' = missing
           /\ \A d \in Slot \ {c} : call'[d] = call[d]
           /\ c \notin CarriedOut /\ CarriedOut' = CarriedOut \cup {c}
           /\ earlier' = [earlier EXCEPT ![c] = CarriedOut] /\ since' = since \cup {c}
           /\ \A id \in Id : Touches(c, id)' => stored'[id] = Effect(c, id)'
           /\ \A id \in Id : ~Touches(c, id)' => stored'[id] = stored[id]
           /\ Doing(c)' = Doing(c) /\ call'[c].id = call[c].id
           /\ Doing(c).shows = "mapped" => stored[call[c].id] # None
<1> DEFINE r == call[c]
           A == IF Doing(c).shows = "answered" THEN stored' ELSE r.value
<1> USE DEF TypeInv
<1>1. /\ r.state = "sent" /\ Accepted(c)
      /\ screen' = screen /\ shown' = shown /\ loaded' = loaded /\ missing' = missing
      /\ earlier' = [earlier EXCEPT ![c] = CarriedOut] /\ since' = since \cup {c}
  BY DEF Execute
<1>2. call' = [call EXCEPT ![c].state = "done", ![c].value = None, ![c].answer = A]
  BY DEF Execute
<1>3. /\ CallOK(c) /\ DOMAIN r = {"op", "id", "value", "state", "answer", "seen"}
      /\ r.op \in Op /\ (r.op # "load" => r.id \in Id /\ r.value \in Value)
      /\ (r.op = "confirm" => r.seen \in Rows) /\ (r.op = "remove" => r.value = None)
  BY <1>1 DEF CallOK
<1>4. /\ DOMAIN call' = Slot /\ \A d \in Slot \ {c} : call'[d] = call[d]
      /\ call'[c] = [call[c] EXCEPT !.state = "done", !.value = None, !.answer = A]
  BY <1>2
<1>5. /\ DOMAIN call'[c] = {"op", "id", "value", "state", "answer", "seen"}
      /\ call'[c].op = r.op /\ call'[c].id = r.id /\ call'[c].seen = r.seen
      /\ call'[c].state = "done" /\ call'[c].answer = A
  BY <1>3, <1>4
<1>6. Doing(c)' = Doing(c) /\ Answers(c)' = Answers(c)
  BY <1>1, <1>5 DEF Doing, HandlerOf, Answers
<1>7. Rows' = Rows /\ Value' = Value /\ Op' = Op
  BY <1>1 DEF Rows, Value, Values, Op
<1>8. Answers(c) <=> r.op \in {"load", "verify"}
  BY <1>3, HandlerFacts DEF Answers, Doing
<1>9. /\ stored' \in Rows
      /\ \A id \in Id : Touches(c, id)' => stored'[id] = Effect(c, id)'
      /\ \A id \in Id : ~Touches(c, id)' => stored'[id] = stored[id]
  <2>1. CASE r.op = "load"
    <3>1. stored' = stored
      BY <2>1 DEF Execute
    <3>2. Answers(c)' /\ call'[c].answer = stored'
      BY <1>5, <1>6, <1>8, <2>1 DEF Answers
    <3> QED  BY <3>1, <3>2 DEF Touches, Effect
  <2>2. CASE r.op = "verify"
    <3>1. stored' = [id \in Id |-> r.value]
      BY <2>2 DEF Execute
    <3>2. Answers(c)' /\ call'[c].answer = stored'
      BY <1>5, <1>6, <1>8, <2>2 DEF Answers
    <3>3. stored' \in Rows
      BY <1>3, <2>2, <3>1 DEF Rows
    <3> QED  BY <3>1, <3>2, <3>3 DEF Touches, Effect
  <2>3. CASE r.op \notin {"load", "verify"}
    <3>1. r.id \in Id /\ r.value \in Value
      BY <1>3, <2>3
    <3>2. stored' = [stored EXCEPT ![r.id] = r.value]
      BY <1>3, <2>3 DEF Execute
    <3>3. ~Answers(c)' /\ call'[c].answer = r.value
      BY <1>5, <1>6, <1>8, <2>3 DEF Answers
    <3>4. stored' \in Rows
      BY <3>1, <3>2 DEF Rows
    <3> QED  BY <1>5, <3>1, <3>2, <3>3, <3>4 DEF Touches, Effect, Rows
  <2> QED  BY <2>1, <2>2, <2>3
<1>10. CallOK(c)'
  <2>1. CASE Answers(c)
    <3>1. A = stored' /\ r.op # "remove"
      BY <1>8, <2>1 DEF Answers
    <3> QED  BY <1>3, <1>5, <1>6, <1>7, <1>9, <2>1, <3>1 DEF CallOK
  <2>2. CASE ~Answers(c)
    <3>1. A = r.value /\ r.op # "load"
      BY <1>8, <2>2 DEF Answers
    <3> QED  BY <1>3, <1>5, <1>6, <1>7, <2>2, <3>1 DEF CallOK
  <2> QED  BY <2>1, <2>2
<1>11. \A d \in Slot :
         DOMAIN call'[d] = {"op", "id", "value", "state", "answer", "seen"} /\ CallOK(d)'
  BY <1>1, <1>4, <1>5, <1>10, OneCall
<1>12. c \notin CarriedOut /\ CarriedOut' = CarriedOut \cup {c}
  <2>1. call[c].state # "done"
    BY <1>1
  <2>2. \A d \in Slot : call'[d].state = "done" <=> d = c \/ call[d].state = "done"
    BY <1>4, <1>5
  <2> QED  BY <2>1, <2>2 DEF CarriedOut
<1>13. earlier' \in [Slot -> SUBSET Slot] /\ since' \subseteq Slot
  BY <1>1 DEF CarriedOut
<1>14. Doing(c).shows = "mapped" => stored[call[c].id] # None
  <2>1. Doing(c).shows = "mapped" => Doing(c).makes = {"old"}
    BY <1>3, HandlerFacts DEF Doing
  <2>2. Doing(c).makes = {"old"} => stored[call[c].id] # None
    BY <1>1, SMT DEF Accepted
  <2> QED  BY <2>1, <2>2
<1> QED  BY <1>1, <1>4, <1>5, <1>6, <1>7, <1>9, <1>11, <1>12, <1>13, <1>14

LEMMA AppliedType ==
    ASSUME TypeInv, NEW c \in Slot, call[c].state = "done"
    PROVE  Applied(c) \in Rows
<1>1. /\ CallOK(c) /\ shown \in Rows /\ call[c].op \in Op /\ screen \in Screens
  BY DEF TypeInv, CallOK
<1>2. CASE Answers(c)
  BY <1>1, <1>2 DEF Applied, Answers, CallOK
<1>3. CASE ~Answers(c)
  <2>1. call[c].id \in Id /\ call[c].answer \in Value
    BY <1>1, <1>3, HandlerFacts DEF CallOK, Answers, Doing
  <2>2. Doing(c).shows = "copied" => call[c].seen \in Rows
    BY <1>1, HandlerFacts DEF CallOK, Doing
  <2>3. CASE Doing(c).shows = "saved"
    BY <1>1, <2>1, <2>3 DEF Applied, Saved, Rows
  <2>4. CASE Doing(c).shows = "mapped"
    BY <1>1, <2>1, <2>4 DEF Applied, Mapped, Rows
  <2>5. CASE Doing(c).shows = "filtered"
    BY <1>1, <2>1, <2>5 DEF Applied, Filtered, Rows, Value
  <2>6. CASE Doing(c).shows = "copied"
    BY <2>1, <2>2, <2>6 DEF Applied, Rows
  <2>7. CASE Doing(c).shows = "nothing"
    BY <1>1, <2>7 DEF Applied
  <2>8. Doing(c).shows \in {"answered", "saved", "mapped", "filtered", "copied", "nothing"}
    BY <1>1, HandlerFacts DEF Doing
  <2> QED  BY <1>3, <2>3, <2>4, <2>5, <2>6, <2>7, <2>8 DEF Answers
<1> QED  BY <1>2, <1>3

LEMMA GoneFacts ==
    ASSUME TypeInv, NEW c \in Slot, Answered(c), Brought(c) \/ Missed(c)
    PROVE  /\ earlier' \in [Slot -> SUBSET Slot] /\ missing' \in BOOLEAN
           /\ since' \subseteq Slot
BY DEF TypeInv, Answered, Brought, Missed

LEMMA ReceiveFacts ==
    ASSUME TypeInv, NEW c \in Slot, Receive(c)
    PROVE  /\ TypeInv'
           /\ screen' = screen /\ stored' = stored
           /\ \A d \in Slot \ {c} : call'[d] = call[d]
           /\ c \in CarriedOut /\ CarriedOut' = CarriedOut \ {c}
<1>1. /\ call[c].state = "done" /\ screen' = screen /\ stored' = stored
      /\ shown' = Applied(c) /\ Answered(c) /\ (Brought(c) \/ Missed(c))
      /\ call' = Start(c, "load", None, None) \/ call' = [call EXCEPT ![c] = Free]
  BY DEF Receive
<1>2. /\ screen \in Screens /\ stored \in Rows /\ DOMAIN call = Slot
      /\ \A d \in Slot : DOMAIN call[d] = {"op", "id", "value", "state", "answer", "seen"}
                         /\ CallOK(d)
  BY DEF TypeInv
<1>3. Rows' = Rows
  BY <1>1 DEF Rows, Value, Values
<1>4. shown' \in Rows
  BY <1>1, AppliedType
<1>5. /\ DOMAIN call' = Slot /\ \A d \in Slot \ {c} : call'[d] = call[d]
      /\ DOMAIN call'[c] = {"op", "id", "value", "state", "answer", "seen"} /\ CallOK(c)'
      /\ call'[c].state # "done"
  <2>1. CASE call' = Start(c, "load", None, None)
    <3>1. /\ DOMAIN call' = Slot /\ \A d \in Slot \ {c} : call'[d] = call[d]
          /\ call'[c] = [op |-> "load", id |-> None, value |-> None, state |-> "sent",
                         answer |-> None,
                         seen |-> IF "load" = "confirm" THEN shown ELSE None]
      BY <1>2, <2>1, StartFacts
    <3>2. call'[c].state # "done"
      BY <3>1
    <3> QED  BY <3>1, <3>2, LoadCallOK
  <2>2. CASE call' = [call EXCEPT ![c] = Free]
    <3>1. /\ DOMAIN call' = Slot /\ \A d \in Slot \ {c} : call'[d] = call[d]
          /\ call'[c] = Free
      BY <1>2, <2>2, FreedFacts
    <3>2. call'[c].state # "done"
      BY <3>1 DEF Free
    <3> QED  BY <3>1, <3>2, FreedCallOK
  <2> QED  BY <1>1, <2>1, <2>2
<1>6. \A d \in Slot :
        DOMAIN call'[d] = {"op", "id", "value", "state", "answer", "seen"} /\ CallOK(d)'
  BY <1>1, <1>2, <1>5, OneCall
<1>7. c \in CarriedOut /\ CarriedOut' = CarriedOut \ {c}
  <2>1. \A d \in Slot : call'[d].state = "done" <=> d # c /\ call[d].state = "done"
    BY <1>5
  <2> QED  BY <1>1, <2>1 DEF CarriedOut
<1>8. /\ earlier' \in [Slot -> SUBSET Slot] /\ missing' \in BOOLEAN /\ since' \subseteq Slot
  BY <1>1, GoneFacts
<1>9. TypeInv'
  BY <1>1, <1>2, <1>3, <1>4, <1>5, <1>6, <1>8 DEF TypeInv
<1> QED  BY <1>1, <1>5, <1>7, <1>9

LEMMA FailFacts ==
    ASSUME TypeInv, NEW c \in Slot, Fail(c)
    PROVE  /\ TypeInv'
           /\ screen' = screen /\ stored' = stored /\ shown' = shown /\ loaded' = loaded
           /\ \A d \in Slot \ {c} : call'[d] = call[d]
           /\ CarriedOut' = CarriedOut \ {c}
           /\ IF c \in CarriedOut THEN Answered(c) /\ Missed(c)
              ELSE earlier' = earlier /\ missing' = missing /\ since' = since
<1>1. /\ screen' = screen /\ stored' = stored /\ shown' = shown /\ loaded' = loaded
      /\ call' = [call EXCEPT ![c] = Free]
      /\ IF call[c].state = "done" THEN Answered(c) /\ Missed(c) ELSE UNCHANGED history
  BY DEF Fail
<1>2. IF c \in CarriedOut THEN Answered(c) /\ Missed(c)
      ELSE earlier' = earlier /\ missing' = missing /\ since' = since
  BY <1>1 DEF CarriedOut, history
<1>3. /\ screen \in Screens /\ stored \in Rows /\ shown \in Rows /\ DOMAIN call = Slot
      /\ earlier \in [Slot -> SUBSET Slot] /\ missing \in BOOLEAN /\ since \subseteq Slot
      /\ \A d \in Slot : DOMAIN call[d] = {"op", "id", "value", "state", "answer", "seen"}
                         /\ CallOK(d)
  BY DEF TypeInv
<1>4. Rows' = Rows
  BY <1>1 DEF Rows, Value, Values
<1>5. /\ DOMAIN call' = Slot /\ \A d \in Slot \ {c} : call'[d] = call[d]
      /\ call'[c] = Free
  BY <1>1, <1>3, FreedFacts
<1>6. /\ DOMAIN call'[c] = {"op", "id", "value", "state", "answer", "seen"} /\ CallOK(c)'
  BY <1>5, FreedCallOK
<1>7. \A d \in Slot :
        DOMAIN call'[d] = {"op", "id", "value", "state", "answer", "seen"} /\ CallOK(d)'
  BY <1>1, <1>3, <1>5, <1>6, OneCall
<1>8. CarriedOut' = CarriedOut \ {c}
  <2>1. call'[c].state # "done"
    BY <1>5 DEF Free
  <2>2. \A d \in Slot : call'[d].state = "done" <=> d # c /\ call[d].state = "done"
    BY <1>5, <2>1
  <2> QED  BY <2>2 DEF CarriedOut
<1>9. /\ earlier' \in [Slot -> SUBSET Slot] /\ missing' \in BOOLEAN /\ since' \subseteq Slot
  BY <1>2, <1>3, GoneFacts
<1>10. TypeInv'
  BY <1>1, <1>3, <1>4, <1>5, <1>7, <1>9 DEF TypeInv
<1> QED  BY <1>1, <1>2, <1>5, <1>8, <1>10

-----------------------------------------------------------------------------
(* Steps that carry out no call and answer none *)

LEMMA QuietStep ==
    ASSUME Inv, TypeInv', screen' = screen, shown' = shown, loaded' = loaded,
           earlier' = earlier, missing' = missing, since' = since,
           CarriedOut' = CarriedOut, \A d \in CarriedOut : call'[d] = call[d],
           \A i \in Id : stored'[i] = stored[i] \/ stored[i] \in PROCESSING
    PROVE  Inv'
<1> USE DEF Inv
<1>1. Ordered' /\ Recent'
  BY DEF Ordered, Recent
<1>2. \A d \in since : d \in CarriedOut /\ call'[d] = call[d]
  BY DEF Recent
<1>3. \A d \in since :
        /\ Doing(d)' = Doing(d)
        /\ \A id : Touches(d, id)' = Touches(d, id) /\ Effect(d, id)' = Effect(d, id)
  BY <1>2, SameCall
<1>4. \A id \in Id : \A v : Near(v, id) => Near(v, id)'
  BY DEF Near, PROCESSING
<1>5. LastCounts'
  <2> SUFFICES ASSUME NEW id \in Id, NEW c \in since', Touches(c, id)',
                      \A d \in since' : c \in earlier'[d] => ~Touches(d, id)'
               PROVE  Near(Effect(c, id), id)'
    BY DEF LastCounts
  <2>1. Near(Effect(c, id), id)
    BY <1>3 DEF LastCounts
  <2> QED  BY <1>3, <1>4, <2>1 DEF Near
<1>6. NothingLacks'
  <2> SUFFICES ASSUME NEW id \in Id, loaded', ~missing', \A d \in since' : ~Touches(d, id)'
               PROVE  Near(shown[id], id)'
    BY DEF NothingLacks
  <2>1. Near(shown[id], id)
    BY <1>3 DEF NothingLacks
  <2> QED  BY <1>4, <2>1 DEF Near
<1>7. MappedFinds'
  <2> SUFFICES ASSUME NEW c \in since', NEW id \in Id,
                      Doing(c)'.shows = "mapped", call'[c].id = id
               PROVE  Finds(c, id)'
    BY DEF MappedFinds
  <2>1. Finds(c, id)
    BY <1>2, <1>3 DEF MappedFinds
  <2> QED  BY <1>3, <2>1 DEF Finds
<1> QED  BY <1>1, <1>5, <1>6, <1>7

-----------------------------------------------------------------------------
(* A call is carried out *)

LEMMA ExecuteStep ==
    ASSUME Inv, NEW c \in Slot, Execute(c)
    PROVE  Inv'
<1> USE DEF Inv
<1>1. /\ TypeInv'
      /\ screen' = screen /\ shown' = shown /\ loaded' = loaded /\ missing' = missing
      /\ \A d \in Slot \ {c} : call'[d] = call[d]
      /\ c \notin CarriedOut /\ CarriedOut' = CarriedOut \cup {c}
      /\ earlier' = [earlier EXCEPT ![c] = CarriedOut] /\ since' = since \cup {c}
      /\ \A id \in Id : Touches(c, id)' => stored'[id] = Effect(c, id)'
      /\ \A id \in Id : ~Touches(c, id)' => stored'[id] = stored[id]
      /\ Doing(c)' = Doing(c) /\ call'[c].id = call[c].id
      /\ Doing(c).shows = "mapped" => stored[call[c].id] # None
  BY ExecuteFacts
<1>2. /\ earlier \in [Slot -> SUBSET Slot] /\ CarriedOut \subseteq Slot
      /\ since \subseteq CarriedOut /\ c \notin since
  BY <1>1 DEF TypeInv, Recent, CarriedOut
<1>3. earlier'[c] = CarriedOut /\ \A d \in Slot \ {c} : earlier'[d] = earlier[d]
  BY <1>1, <1>2
<1>4. /\ \A d \in Slot : c \notin earlier[d]
      /\ \A d \in Slot : d \notin CarriedOut => earlier[d] = {}
  BY <1>1, <1>2 DEF Ordered
<1>5. Ordered'
  <2>1. \A x \in Slot : earlier'[x] \subseteq CarriedOut' /\ x \notin earlier'[x]
    BY <1>1, <1>3 DEF Ordered
  <2>2. \A x, y \in CarriedOut' : x = y \/ x \in earlier'[y] \/ y \in earlier'[x]
    BY <1>1, <1>2, <1>3 DEF Ordered
  <2>3. \A x, y \in Slot : x \in earlier'[y] => y \in CarriedOut' /\ y \notin earlier'[x]
    BY <1>1, <1>3, <1>4 DEF Ordered
  <2>4. \A b, x, y \in Slot : b \in earlier'[x] /\ x \in earlier'[y] => b \in earlier'[y]
    BY <1>1, <1>3, <1>4 DEF Ordered
  <2> QED  BY <2>1, <2>2, <2>3, <2>4 DEF Ordered
<1>6. Recent'
  BY <1>1, <1>2, <1>3, <1>4 DEF Recent
<1>7. \A d \in since :
        /\ d \in Slot \ {c} /\ call'[d] = call[d] /\ Doing(d)' = Doing(d)
        /\ \A id : Touches(d, id)' = Touches(d, id) /\ Effect(d, id)' = Effect(d, id)
  <2> TAKE d \in since
  <2>1. d \in Slot \ {c} /\ call'[d] = call[d]
    BY <1>1, <1>2
  <2> QED  BY <1>1, <2>1, SameCall
<1>8. \A id \in Id : \A v : Near(v, id) /\ ~Touches(c, id)' => Near(v, id)'
  BY <1>1 DEF Near, PROCESSING
<1>9. LastCounts'
  <2> SUFFICES ASSUME NEW id \in Id, NEW b \in since', Touches(b, id)',
                      \A d \in since' : b \in earlier'[d] => ~Touches(d, id)'
               PROVE  Near(Effect(b, id), id)'
    BY DEF LastCounts
  <2>1. CASE b = c
    BY <1>1, <2>1 DEF Near
  <2>2. CASE b # c
    <3>1. b \in since /\ Touches(b, id) /\ Effect(b, id)' = Effect(b, id)
      BY <1>1, <1>7, <2>2
    <3>2. ~Touches(c, id)'
      BY <1>1, <1>2, <1>3, <3>1
    <3>3. \A d \in since : b \in earlier[d] => ~Touches(d, id)
      BY <1>1, <1>3, <1>7
    <3>4. Near(Effect(b, id), id)
      BY <3>1, <3>3 DEF LastCounts
    <3>5. stored'[id] = stored[id]
      BY <1>1, <3>2
    <3> QED  BY <3>1, <3>4, <3>5 DEF Near, PROCESSING
  <2> QED  BY <2>1, <2>2
<1>10. NothingLacks'
  <2> SUFFICES ASSUME NEW id \in Id, loaded', ~missing', \A d \in since' : ~Touches(d, id)'
               PROVE  Near(shown[id], id)'
    BY DEF NothingLacks
  <2>1. \A d \in since : ~Touches(d, id)
    BY <1>1, <1>7
  <2>2. Near(shown[id], id)
    BY <1>1, <2>1 DEF NothingLacks
  <2>3. stored'[id] = stored[id]
    BY <1>1
  <2> QED  BY <1>1, <2>2, <2>3 DEF Near, PROCESSING
<1>11. MappedFinds'
  <2> SUFFICES ASSUME NEW x \in since', NEW id \in Id,
                      Doing(x)'.shows = "mapped", call'[x].id = id
               PROVE  Finds(x, id)'
    BY DEF MappedFinds
  <2>1. CASE x = c
    <3>1. stored[id] # None
      BY <1>1, <2>1
    <3>2. \A v : Near(v, id) => v # None
      BY <3>1, NoneIsNoValue DEF Near
    <3>3. ASSUME loaded', ~missing', \A d \in since' : d \in earlier'[c] => ~Touches(d, id)'
          PROVE  shown'[id] # None
      <4>1. \A d \in since : ~Touches(d, id)
        BY <1>1, <1>2, <1>3, <1>7, <3>3
      <4>2. Near(shown[id], id)
        BY <1>1, <3>3, <4>1 DEF NothingLacks
      <4> QED  BY <1>1, <3>2, <4>2
    <3>4. ASSUME NEW b \in since', b \in earlier'[c], Touches(b, id)',
                 \A d \in since' : b \in earlier'[d] /\ d \in earlier'[c] => ~Touches(d, id)'
          PROVE  Effect(b, id)' # None
      <4>1. b \in since /\ Touches(b, id) /\ Effect(b, id)' = Effect(b, id)
        BY <1>1, <1>3, <1>7, <3>4
      <4>2. \A d \in since : b \in earlier[d] => ~Touches(d, id)
        BY <1>1, <1>2, <1>3, <1>7, <3>4
      <4>3. Near(Effect(b, id), id)
        BY <4>1, <4>2 DEF LastCounts
      <4> QED  BY <3>2, <4>1, <4>3
    <3> QED  BY <2>1, <3>3, <3>4 DEF Finds
  <2>2. CASE x # c
    <3>1. x \in since /\ earlier'[x] = earlier[x] /\ c \notin earlier[x]
      BY <1>1, <1>2, <1>3, <1>4, <2>2
    <3>2. Finds(x, id)
      BY <1>7, <3>1 DEF MappedFinds
    <3>3. ASSUME loaded', ~missing', \A d \in since' : d \in earlier'[x] => ~Touches(d, id)'
          PROVE  shown'[id] # None
      BY <1>1, <1>7, <3>1, <3>2, <3>3 DEF Finds
    <3>4. ASSUME NEW b \in since', b \in earlier'[x], Touches(b, id)',
                 \A d \in since' : b \in earlier'[d] /\ d \in earlier'[x] => ~Touches(d, id)'
          PROVE  Effect(b, id)' # None
      <4>1. b \in since /\ Touches(b, id) /\ Effect(b, id)' = Effect(b, id)
        BY <1>1, <1>7, <3>1, <3>4
      <4>2. \A d \in since : b \in earlier[d] /\ d \in earlier[x] => ~Touches(d, id)
        BY <1>1, <1>3, <1>7, <3>1, <3>4
      <4> QED  BY <3>1, <3>2, <3>4, <4>1, <4>2 DEF Finds
    <3> QED  BY <3>3, <3>4 DEF Finds
  <2> QED  BY <2>1, <2>2
<1> QED  BY <1>1, <1>5, <1>6, <1>9, <1>10, <1>11

-----------------------------------------------------------------------------
(* A call is answered, or its answer is lost *)

LEMMA GoneOrdered ==
    ASSUME Inv, NEW c \in CarriedOut, CarriedOut' = CarriedOut \ {c}, Answered(c)
    PROVE  /\ Ordered'
           /\ \A x \in Slot \ {c} : earlier'[x] = earlier[x] \ {c}
<1>1. earlier \in [Slot -> SUBSET Slot] /\ Ordered /\ CarriedOut \subseteq Slot
  BY DEF Inv, TypeInv, CarriedOut
<1>2. earlier'[c] = {} /\ \A x \in Slot \ {c} : earlier'[x] = earlier[x] \ {c}
  BY <1>1 DEF Answered
<1>3. \A x \in Slot : earlier'[x] \subseteq CarriedOut' /\ x \notin earlier'[x]
  BY <1>1, <1>2 DEF Ordered
<1>4. \A x, y \in CarriedOut' : x = y \/ x \in earlier'[y] \/ y \in earlier'[x]
  BY <1>1, <1>2 DEF Ordered
<1>5. \A x, y \in Slot : x \in earlier'[y] => y \in CarriedOut' /\ y \notin earlier'[x]
  BY <1>1, <1>2 DEF Ordered
<1>6. \A b, x, y \in Slot : b \in earlier'[x] /\ x \in earlier'[y] => b \in earlier'[y]
  BY <1>1, <1>2 DEF Ordered
<1> QED  BY <1>2, <1>3, <1>4, <1>5, <1>6 DEF Ordered

\* Only the calls after it are relied upon, and for these it makes no difference.
LEMMA MissedStep ==
    ASSUME Inv, TypeInv', screen' = screen, stored' = stored, NEW c \in CarriedOut,
           CarriedOut' = CarriedOut \ {c}, \A d \in Slot \ {c} : call'[d] = call[d],
           Answered(c), Missed(c)
    PROVE  Inv'
<1> USE DEF Inv
<1>1. Ordered' /\ \A x \in Slot \ {c} : earlier'[x] = earlier[x] \ {c}
  BY GoneOrdered
<1>2. /\ since \subseteq CarriedOut /\ CarriedOut \subseteq Slot
      /\ since' = {d \in since : c \in earlier[d]} /\ missing' = TRUE
      /\ \A d \in since' : d # c /\ d \in Slot \ {c}
  BY DEF Recent, Missed, CarriedOut, Ordered
<1>3. \A x \in since', d \in since : x \in earlier[d] => d \in since'
  BY <1>2 DEF Ordered
<1>4. Recent'
  <2>1. \A x \in since', d \in Slot : x \in earlier'[d] => d \in since'
    <3> TAKE x \in since', d \in Slot
    <3> HAVE x \in earlier'[d]
    <3>1. d # c
      BY <1>1, <1>2 DEF Answered
    <3>2. x \in earlier[d] /\ x \in since
      BY <1>1, <1>2, <3>1
    <3>3. d \in since
      BY <3>2 DEF Recent
    <3> QED  BY <1>3, <3>2, <3>3
  <2> QED  BY <1>2, <2>1 DEF Recent
<1>5. \A d \in since' :
        /\ Doing(d)' = Doing(d) /\ call'[d] = call[d]
        /\ \A id : Touches(d, id)' = Touches(d, id) /\ Effect(d, id)' = Effect(d, id)
  <2> TAKE d \in since'
  <2>1. call'[d] = call[d]
    BY <1>2
  <2> QED  BY <2>1, SameCall
<1>6. LastCounts'
  <2> SUFFICES ASSUME NEW id \in Id, NEW b \in since', Touches(b, id)',
                      \A d \in since' : b \in earlier'[d] => ~Touches(d, id)'
               PROVE  Near(Effect(b, id), id)'
    BY DEF LastCounts
  <2>1. \A d \in since : b \in earlier[d] => ~Touches(d, id)
    BY <1>1, <1>2, <1>3, <1>5
  <2>2. Near(Effect(b, id), id)
    BY <1>2, <1>5, <2>1 DEF LastCounts
  <2> QED  BY <1>5, <2>2 DEF Near
<1>7. NothingLacks'
  BY <1>2 DEF NothingLacks
<1>8. MappedFinds'
  <2> SUFFICES ASSUME NEW x \in since', NEW id \in Id,
                      Doing(x)'.shows = "mapped", call'[x].id = id
               PROVE  Finds(x, id)'
    BY DEF MappedFinds
  <2>1. x \in since /\ x \in Slot \ {c} /\ Finds(x, id)
    BY <1>2, <1>5 DEF MappedFinds
  <2>2. ASSUME NEW b \in since', b \in earlier'[x], Touches(b, id)',
               \A d \in since' : b \in earlier'[d] /\ d \in earlier'[x] => ~Touches(d, id)'
        PROVE  Effect(b, id)' # None
    <3>1. b \in since /\ b \in earlier[x] /\ Touches(b, id) /\ Effect(b, id)' = Effect(b, id)
      BY <1>1, <1>2, <1>5, <2>1, <2>2
    <3>2. \A d \in since : b \in earlier[d] /\ d \in earlier[x] => ~Touches(d, id)
      BY <1>1, <1>2, <1>3, <1>5, <2>1, <2>2
    <3> QED  BY <2>1, <3>1, <3>2 DEF Finds
  <2> QED  BY <1>2, <2>2 DEF Finds
<1> QED  BY <1>1, <1>4, <1>6, <1>7, <1>8

\* An answer that comes in its turn puts on the screen what the call has stored, and
\* leaves the other rows.
LEMMA AppliedFacts ==
    ASSUME Inv, NEW c \in since, NEW id \in Id, ~Overtakes(c), ~WritesOldCopy(c),
           ~LeftToLoad(c), loaded \/ Answers(c), ~missing \/ Answers(c)
    PROVE  IF Touches(c, id) THEN Applied(c)[id] = Effect(c, id)
           ELSE Applied(c)[id] = shown[id]
<1> USE DEF Inv
<1>1. /\ c \in Slot /\ call[c].state = "done" /\ CallOK(c) /\ call[c].op \in Op
      /\ screen \in Screens /\ shown \in Rows
  BY DEF TypeInv, Recent, CarriedOut, CallOK
<1>2. CASE Answers(c)
  BY <1>2 DEF Applied, Answers, Touches, Effect
<1>3. CASE ~Answers(c)
  <2>1. /\ call[c].id \in Id /\ loaded /\ ~missing
        /\ Touches(c, id) <=> call[c].id = id
        /\ Effect(c, id) = call[c].answer
    BY <1>1, <1>3, HandlerFacts DEF CallOK, Answers, Doing, Touches, Effect
  <2>2. CASE Doing(c).shows = "saved"
    BY <1>1, <2>1, <2>2 DEF Applied, Saved, Rows
  <2>3. CASE Doing(c).shows = "mapped"
    <3>1. call[c].id = id => shown[id] # None
      <4> SUFFICES ASSUME call[c].id = id
                   PROVE  shown[id] # None
        OBVIOUS
      <4>1. Finds(c, id)
        BY <2>3 DEF MappedFinds
      <4>2. earlier[c] = {}
        BY DEF Overtakes
      <4> QED  BY <2>1, <4>1, <4>2 DEF Finds
    <3> QED  BY <1>1, <2>1, <2>3, <3>1 DEF Applied, Mapped, Rows
  <2>4. CASE Doing(c).shows = "filtered"
    <3>1. call[c].answer = None
      BY <1>1, <2>4, HandlerFacts DEF Doing, CallOK
    <3> QED  BY <1>1, <2>1, <2>4, <3>1 DEF Applied, Filtered, Rows
  <2>5. CASE Doing(c).shows = "copied"
    <3>1. call[c].seen = shown
      BY <1>1, <2>5, HandlerFacts DEF Doing, WritesOldCopy
    <3> QED  BY <1>1, <2>1, <2>5, <3>1 DEF Applied, Rows
  <2>6. Doing(c).shows \in {"saved", "mapped", "filtered", "copied"}
    BY <1>1, <1>3, HandlerFacts DEF Doing, Answers, LeftToLoad
  <2> QED  BY <2>2, <2>3, <2>4, <2>5, <2>6
<1> QED  BY <1>2, <1>3

LEMMA BroughtStep ==
    ASSUME Inv, NEW c \in Slot, Receive(c), ~Overtakes(c), ~WritesOldCopy(c),
           ~LeftToLoad(c)
    PROVE  Inv'
<1> USE DEF Inv
<1>1. /\ TypeInv' /\ screen' = screen /\ stored' = stored
      /\ \A d \in Slot \ {c} : call'[d] = call[d]
      /\ c \in CarriedOut /\ CarriedOut' = CarriedOut \ {c}
  BY ReceiveFacts
<1>2. /\ shown' = Applied(c) /\ Answered(c) /\ loaded' = (loaded \/ Answers(c))
      /\ since' = since \ {c} /\ missing' = (missing /\ ~(Answers(c) /\ c \in since))
  BY DEF Receive, Brought, Answers
<1>3. Ordered' /\ \A x \in Slot \ {c} : earlier'[x] = earlier[x] \ {c}
  BY <1>1, <1>2, GoneOrdered
<1>4. /\ earlier[c] = {} /\ since \subseteq CarriedOut /\ CarriedOut \subseteq Slot
      /\ \A x \in CarriedOut \ {c} : c \in earlier[x]
  BY <1>1 DEF Overtakes, Recent, CarriedOut, Ordered
<1>5. Recent'
  <2>1. ~missing' => CarriedOut' \subseteq since'
    <3> SUFFICES ASSUME ~missing' PROVE CarriedOut' \subseteq since'
      OBVIOUS
    <3>1. CASE ~missing
      BY <1>1, <1>2, <3>1 DEF Recent
    <3>2. CASE c \in since
      <4>1. \A x \in CarriedOut \ {c} : x \in since
        BY <1>4, <3>2 DEF Recent
      <4> QED  BY <1>1, <1>2, <4>1
    <3> QED  BY <1>2, <3>1, <3>2
  <2>2. \A x \in since', d \in Slot : x \in earlier'[d] => d \in since'
    <3> TAKE x \in since', d \in Slot
    <3> HAVE x \in earlier'[d]
    <3>1. d # c
      BY <1>2 DEF Answered
    <3>2. x \in since /\ x \in earlier[d]
      BY <1>2, <1>3, <3>1
    <3> QED  BY <1>2, <3>1, <3>2 DEF Recent
  <2> QED  BY <1>1, <1>2, <1>4, <2>1, <2>2 DEF Recent
<1>6. \A d \in since' :
        /\ d \in since /\ d \in Slot \ {c} /\ Doing(d)' = Doing(d) /\ call'[d] = call[d]
        /\ \A id : Touches(d, id)' = Touches(d, id) /\ Effect(d, id)' = Effect(d, id)
  <2> TAKE d \in since'
  <2>1. d \in since /\ d \in Slot \ {c} /\ call'[d] = call[d]
    BY <1>1, <1>2, <1>4
  <2> QED  BY <1>1, <2>1, SameCall
<1>7. LastCounts'
  <2> SUFFICES ASSUME NEW id \in Id, NEW b \in since', Touches(b, id)',
                      \A d \in since' : b \in earlier'[d] => ~Touches(d, id)'
               PROVE  Near(Effect(b, id), id)'
    BY DEF LastCounts
  <2>1. ASSUME NEW d \in since, b \in earlier[d]
        PROVE  ~Touches(d, id)
    <3>1. d # c /\ b # c
      BY <1>4, <1>6, <2>1
    <3>2. d \in since' /\ b \in earlier'[d]
      BY <1>2, <1>3, <1>4, <2>1, <3>1
    <3> QED  BY <1>6, <3>2
  <2>2. Near(Effect(b, id), id)
    BY <1>6, <2>1 DEF LastCounts
  <2> QED  BY <1>1, <1>6, <2>2 DEF Near
<1>8. ASSUME loaded', ~missing'
      PROVE  /\ c \in since
             /\ \A id \in Id : Touches(c, id) => shown'[id] = Effect(c, id)
             /\ \A id \in Id : ~Touches(c, id) => shown'[id] = shown[id] /\ loaded /\ ~missing
  <2>1. c \in since /\ (loaded \/ Answers(c)) /\ (~missing \/ Answers(c))
    BY <1>1, <1>2, <1>8 DEF Recent
  <2>2. \A id \in Id : ~Touches(c, id) => ~Answers(c)
    BY DEF Touches
  <2> QED  BY <1>2, <2>1, <2>2, AppliedFacts
<1>9. NothingLacks'
  <2> SUFFICES ASSUME NEW id \in Id, loaded', ~missing', \A d \in since' : ~Touches(d, id)'
               PROVE  Near(shown[id], id)'
    BY DEF NothingLacks
  <2>1. CASE Touches(c, id)
    <3>1. \A d \in since : c \in earlier[d] => ~Touches(d, id)
      <4> TAKE d \in since
      <4> HAVE c \in earlier[d]
      <4>1. d \in since'
        BY <1>2, <1>4
      <4> QED  BY <1>6, <4>1
    <3>2. Near(Effect(c, id), id) /\ shown'[id] = Effect(c, id)
      BY <1>8, <2>1, <3>1 DEF LastCounts
    <3> QED  BY <1>1, <3>2 DEF Near
  <2>2. CASE ~Touches(c, id)
    <3>1. \A d \in since : ~Touches(d, id)
      BY <1>2, <1>6, <2>2
    <3>2. Near(shown[id], id) /\ shown'[id] = shown[id]
      BY <1>8, <2>2, <3>1 DEF NothingLacks
    <3> QED  BY <1>1, <3>2 DEF Near
  <2> QED  BY <2>1, <2>2
<1>10. MappedFinds'
  <2> SUFFICES ASSUME NEW x \in since', NEW id \in Id,
                      Doing(x)'.shows = "mapped", call'[x].id = id
               PROVE  Finds(x, id)'
    BY DEF MappedFinds
  <2>1. x \in since /\ x \in Slot \ {c} /\ Finds(x, id) /\ c \in earlier[x]
    BY <1>4, <1>6 DEF MappedFinds
  <2>2. earlier'[x] = earlier[x] \ {c}
    BY <1>3, <2>1
  <2>3. ASSUME loaded', ~missing', \A d \in since' : d \in earlier'[x] => ~Touches(d, id)'
        PROVE  shown'[id] # None
    <3>1. \A d \in since : d # c /\ d \in earlier[x] => ~Touches(d, id)
      <4> TAKE d \in since
      <4> HAVE d # c /\ d \in earlier[x]
      <4>1. d \in since' /\ d \in earlier'[x]
        BY <1>2, <2>2
      <4> QED  BY <1>6, <2>3, <4>1
    <3>2. CASE Touches(c, id)
      <4>1. \A d \in since : c \in earlier[d] /\ d \in earlier[x] => ~Touches(d, id)
        BY <1>4, <3>1
      <4>2. c \in since /\ shown'[id] = Effect(c, id)
        BY <1>8, <2>3, <3>2
      <4> QED  BY <2>1, <3>2, <4>1, <4>2 DEF Finds
    <3>3. CASE ~Touches(c, id)
      <4>1. \A d \in since : d \in earlier[x] => ~Touches(d, id)
        BY <3>1, <3>3
      <4>2. shown'[id] = shown[id] /\ loaded /\ ~missing
        BY <1>8, <2>3, <3>3
      <4> QED  BY <2>1, <4>1, <4>2 DEF Finds
    <3> QED  BY <3>2, <3>3
  <2>4. ASSUME NEW b \in since', b \in earlier'[x], Touches(b, id)',
               \A d \in since' : b \in earlier'[d] /\ d \in earlier'[x] => ~Touches(d, id)'
        PROVE  Effect(b, id)' # None
    <3>1. b \in since /\ b \in earlier[x] /\ Touches(b, id) /\ Effect(b, id)' = Effect(b, id)
      BY <1>6, <2>2, <2>4
    <3>2. ASSUME NEW d \in since, b \in earlier[d], d \in earlier[x]
          PROVE  ~Touches(d, id)
      <4>1. d # c /\ b # c
        BY <1>4, <1>6, <3>2
      <4>2. d \in since' /\ b \in earlier'[d] /\ d \in earlier'[x]
        BY <1>2, <1>3, <1>4, <2>2, <3>2, <4>1
      <4> QED  BY <1>6, <2>4, <4>2
    <3> QED  BY <2>1, <3>1, <3>2 DEF Finds
  <2> QED  BY <2>3, <2>4 DEF Finds
<1> QED  BY <1>1, <1>3, <1>5, <1>7, <1>9, <1>10

-----------------------------------------------------------------------------

LEMMA StartLeaves ==
    ASSUME TypeInv, NEW c \in Slot, call[c].state = "free", NEW op, NEW id, NEW v,
           call' = Start(c, op, id, v)
    PROVE  CarriedOut' = CarriedOut /\ \A d \in CarriedOut : call'[d] = call[d]
<1>1. DOMAIN call = Slot
  BY DEF TypeInv
<1>2. /\ \A d \in Slot \ {c} : call'[d] = call[d]
      /\ call'[c] = [op |-> op, id |-> id, value |-> v, state |-> "sent",
                     answer |-> None, seen |-> IF op = "confirm" THEN shown ELSE None]
  BY <1>1, StartFacts
<1>3. call'[c].state = "sent"
  BY <1>2
<1>4. \A d \in Slot : call'[d].state = "done" <=> call[d].state = "done"
  BY <1>2, <1>3
<1> QED  BY <1>2, <1>4 DEF CarriedOut

LEMMA InitInv == Init => Inv
<1> SUFFICES ASSUME Init PROVE Inv
  OBVIOUS
<1>1. TypeInv
  BY InitType
<1>2. \A c \in Slot : call[c].state # "done"
  <2> TAKE c \in Slot
  <2>1. PICK l \in Load :
          call = [s \in Slot |-> IF s = l THEN [Free EXCEPT !.op = "load", !.state = "sent"]
                                 ELSE Free]
    BY DEF Init
  <2> QED  BY <2>1 DEF Free
<1>3. CarriedOut = {} /\ since = {} /\ ~missing /\ ~loaded /\ \A c \in Slot : earlier[c] = {}
  BY <1>2 DEF CarriedOut, Init
<1> QED  BY <1>1, <1>3 DEF Inv, Ordered, Recent, LastCounts, NothingLacks, MappedFinds

LEMMA NextInv == Inv /\ [Next]_vars => Inv'
<1> SUFFICES ASSUME Inv, [Next]_vars PROVE Inv'
  OBVIOUS
<1>1. TypeInv
  BY DEF Inv
<1>2. ASSUME NEW c \in Write, NEW op \in Ops, NEW id \in Id, NEW v \in Values \cup {None},
             Click(c, op, id, v)
      PROVE  Inv'
  <2>1. /\ TypeInv' /\ screen' = screen /\ shown' = shown /\ loaded' = loaded
        /\ earlier' = earlier /\ missing' = missing /\ since' = since /\ stored' = stored
        /\ call' = Start(c, op, id, v) /\ call[c].state = "free" /\ c \in Slot
    BY <1>1, <1>2, ClickType DEF Click, history, Idle, Slot
  <2>2. CarriedOut' = CarriedOut /\ \A d \in CarriedOut : call'[d] = call[d]
    BY <1>1, <2>1, StartLeaves
  <2> QED  BY <2>1, <2>2, QuietStep
<1>3. ASSUME NEW c \in Load, Poll(c)
      PROVE  Inv'
  <2>1. /\ TypeInv' /\ screen' = screen /\ shown' = shown /\ loaded' = loaded
        /\ earlier' = earlier /\ missing' = missing /\ since' = since /\ stored' = stored
        /\ call' = Start(c, "load", None, None) /\ call[c].state = "free" /\ c \in Slot
    BY <1>1, <1>3, PollType DEF Poll, history, Idle, Slot
  <2>2. CarriedOut' = CarriedOut /\ \A d \in CarriedOut : call'[d] = call[d]
    BY <1>1, <2>1, StartLeaves
  <2> QED  BY <2>1, <2>2, QuietStep
<1>4. ASSUME NEW id \in Id, Process(id)
      PROVE  Inv'
  <2>1. /\ TypeInv' /\ call' = call /\ shown' = shown /\ screen' = screen
        /\ loaded' = loaded /\ earlier' = earlier /\ missing' = missing /\ since' = since
        /\ \A i \in Id : stored'[i] = stored[i] \/ stored[i] \in PROCESSING
    BY <1>1, <1>4, ProcessType DEF Process, history
  <2>2. CarriedOut' = CarriedOut
    BY <2>1 DEF CarriedOut
  <2> QED  BY <2>1, <2>2, QuietStep
<1>5. ASSUME NEW c \in Slot, Execute(c)
      PROVE  Inv'
  BY <1>5, ExecuteStep
<1>6. ASSUME NEW c \in Slot, Receive(c)
      PROVE  Inv'
  <2>1. CASE Overtakes(c) \/ WritesOldCopy(c) \/ LeftToLoad(c)
    <3>1. Answered(c) /\ Missed(c)
      BY <1>6, <2>1 DEF Receive
    <3> QED  BY <1>1, <1>6, <3>1, ReceiveFacts, MissedStep
  <2>2. CASE ~(Overtakes(c) \/ WritesOldCopy(c) \/ LeftToLoad(c))
    BY <1>6, <2>2, BroughtStep
  <2> QED  BY <2>1, <2>2
<1>7. ASSUME NEW c \in Slot, Fail(c)
      PROVE  Inv'
  <2>1. /\ TypeInv'
        /\ screen' = screen /\ stored' = stored /\ shown' = shown /\ loaded' = loaded
        /\ \A d \in Slot \ {c} : call'[d] = call[d]
        /\ CarriedOut' = CarriedOut \ {c}
        /\ IF c \in CarriedOut THEN Answered(c) /\ Missed(c)
           ELSE earlier' = earlier /\ missing' = missing /\ since' = since
    BY <1>1, <1>7, FailFacts
  <2>2. CASE c \in CarriedOut
    BY <2>1, <2>2, MissedStep
  <2>3. CASE c \notin CarriedOut
    <3>1. CarriedOut' = CarriedOut /\ \A d \in CarriedOut : call'[d] = call[d]
      BY <2>1, <2>3 DEF CarriedOut
    <3> QED  BY <2>1, <2>3, <3>1, QuietStep
  <2> QED  BY <2>2, <2>3
<1>8. CASE UNCHANGED vars
  <2>1. /\ screen' = screen /\ stored' = stored /\ shown' = shown /\ loaded' = loaded
        /\ call' = call /\ earlier' = earlier /\ missing' = missing /\ since' = since
    BY <1>8 DEF vars
  <2>2. Rows' = Rows /\ CarriedOut' = CarriedOut /\ \A d \in Slot : CallOK(d)' = CallOK(d)
    BY <2>1, SameCall DEF Rows, Value, Values, CarriedOut
  <2>3. TypeInv'
    BY <1>1, <2>1, <2>2 DEF TypeInv
  <2> QED  BY <2>1, <2>2, <2>3, QuietStep
<1> QED  BY <1>2, <1>3, <1>4, <1>5, <1>6, <1>7, <1>8 DEF Next

\* On every screen, once all answers have come in the order in which the API carried
\* the calls out and none was lost, the changes that the handlers make to the state
\* of the component (handleSaved, handleUploadComplete, prev.map, prev.filter) amount
\* to loading the rows again, in whatever number calls are under way at once.
THEOREM ShowsWhatIsStored == Spec => []ScreenFollowsServer
<1>1. Inv => ScreenFollowsServer
  <2> SUFFICES ASSUME Inv, loaded, ~missing, \A c \in Slot : Idle(c), NEW id \in Id
               PROVE  shown[id] = stored[id] \/ shown[id] \in PROCESSING
    BY DEF ScreenFollowsServer
  <2>1. CarriedOut = {}
    BY DEF CarriedOut, Idle
  <2>2. since = {}
    BY <2>1 DEF Inv, Recent
  <2> QED  BY <2>2 DEF Inv, NothingLacks, Near
<1> QED  BY <1>1, InitInv, NextInv, PTL DEF Spec
=============================================================================
