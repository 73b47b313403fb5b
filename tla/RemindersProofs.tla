--------------------------- MODULE RemindersProofs ---------------------------
(***************************************************************************)
(* Proofs about Reminders, for any number of reminders and handlers, any    *)
(* dates and any failures: type correctness; that the daily scan does not   *)
(* announce the same thing twice for nothing; and that a verification       *)
(* leaves alone what a user has entered.                                    *)
(***************************************************************************)
EXTENDS Reminders, FiniteSetTheorems, TLAPS

-----------------------------------------------------------------------------
(* Inductive invariants *)

News == [stage : Stage \cup {None}, ago : Ago, lost : BOOLEAN]

ScanState == [pc      : {"idle", "due", "notify", "record"},
              todo    : SUBSET (ReminderId \X Stage),
              now     : (ReminderId \X Stage) \cup {None},
              changed : SUBSET ReminderId]

VerificationRow == [exists : BOOLEAN, status : {"ok", "not_found", "error"},
                    source : {"ro", "document"}, dates : [Type -> Days]]

RowsOK == DOMAIN rem \subseteq ReminderId /\ rem \in [DOMAIN rem -> Row]

\* What a handler in progress has at hand.
CallOK(c) ==
    /\ c.pc \in {"find", "write", "upsert", "archive"} => c.type \in Type
    /\ c.pc = "complete" => c.id \in ReminderId
    /\ c.pc = "applyWrite" => c.type \in Type /\ c.type \in c.left

RequestsOK == req \in [Request -> RequestState] /\ \A q \in Request : CallOK(req[q])

ScanOK ==
    /\ scan \in ScanState
    /\ scan.pc = "record" => scan.now \in ReminderId \X Stage
    /\ ~Scanning => scan.todo = {} /\ scan.changed = {}

OthersOK ==
    /\ verif \in VerificationRow /\ papers \subseteq Type
    /\ odometer \in (0 .. MaxOdometer) \cup {None} /\ calls \in Nat
    /\ told \in [ReminderId -> News]

RoomOK == Cardinality(Reserved) <= Cardinality(FreshIds)

TypeInv == RowsOK /\ RequestsOK /\ ScanOK /\ OthersOK /\ RoomOK

\* What stage s of reminder r may be announced for.
MayTell(r, s) ==
    \/ told[r].stage # s
    \/ s = "overdue" /\ told[r].ago >= Renotify
    \/ told[r].lost

Recording(r) == scan.pc = "record" /\ scan.now[1] = r

\* What has been told is what the row says, but for the moment between the
\* announcement and its record.
InStep ==
    \A r \in DOMAIN rem : told[r].stage # None /\ ~told[r].lost /\ ~Recording(r) =>
        rem[r].stage = told[r].stage /\ rem[r].ago = told[r].ago

\* In that moment it is what is about to be recorded, unless the reminder has
\* been changed since the scan began.
ToRecord ==
    \A r \in DOMAIN rem \ scan.changed : Recording(r) =>
        told[r].stage = scan.now[2] /\ told[r].ago = 0

NothingToldOfChanged == \A r \in scan.changed : told[r].stage = None

\* What the scan has still to announce may be announced.
TodoIsDue ==
    \A n \in scan.todo : (scan.pc = "record" /\ n = scan.now) \/ MayTell(n[1], n[2])

TellInv == InStep /\ ToRecord /\ NothingToldOfChanged /\ TodoIsDue

\* A verification that has found a reminder has found one that is not a user's.
FoundOwn ==
    \A q \in Request : At(q, "applyWrite") /\ req[q].id # None /\ req[q].id \in DOMAIN rem =>
        rem[req[q].id].source # "manual"

-----------------------------------------------------------------------------
(* Handlers *)

LEMMA IdleCall ==
    /\ IdleRequest \in RequestState /\ CallOK(IdleRequest)
    /\ IdleRequest.pc = "idle" /\ IdleRequest.id = None /\ IdleRequest.type = None
<1>1. NoData \in [status : {"ok", "not_found", "error"}, dates : [Type -> Days]]
  BY DEF NoData, Days
<1>2. IdleRequest \in RequestState
  BY <1>1 DEF IdleRequest, RequestState, Days
<1>3. IdleRequest.pc = "idle" /\ IdleRequest.id = None /\ IdleRequest.type = None
  BY DEF IdleRequest
<1>4. QED
  BY <1>2, <1>3 DEF CallOK

\* What a step leaves in req.
LEMMA StepEffect ==
    ASSUME req \in [Request -> RequestState], NEW q \in Request, NEW c, Step(q, c)
    PROVE  /\ req'[q] = c
           /\ \A p \in Request \ {q} : req'[p] = req[p]
           /\ c \in RequestState => req' \in [Request -> RequestState]
BY DEF Step

LEMMA RequestsStep ==
    ASSUME RequestsOK, NEW q \in Request, NEW c \in RequestState, CallOK(c), Step(q, c)
    PROVE  RequestsOK'
<1>1. ASSUME NEW p \in Request PROVE CallOK(req[p])'
  <2>1. CallOK(req'[p])
    BY StepEffect DEF RequestsOK
  <2>2. QED
    BY <2>1 DEF CallOK
<1>2. req' \in [Request -> RequestState]
  BY StepEffect DEF RequestsOK
<1>3. QED
  BY <1>1, <1>2 DEF RequestsOK

LEMMA ReturnIsStep ==
    ASSUME NEW q, Return(q) PROVE Step(q, IdleRequest)
BY DEF Return, Step

-----------------------------------------------------------------------------
(* Ids *)

LEMMA IdSets ==
    /\ IsFiniteSet(FreshIds) /\ Cardinality(FreshIds) \in Nat
    /\ IsFiniteSet(Reserved) /\ Cardinality(Reserved) \in Nat
    /\ None \notin ReminderId
<1>1. FreshIds \subseteq 1 .. MaxReminders
  BY DEF FreshIds, ReminderId
<1>2. IsFiniteSet(1 .. MaxReminders)
  BY RemindersAssumption, FS_Interval
<1>3. IsFiniteSet(Request \X Type)
  BY RemindersAssumption, FS_Product
<1>4. Reserved \subseteq Request \X Type
  BY DEF Reserved
<1>5. None \notin ReminderId
  BY RemindersAssumption DEF ReminderId
<1>6. QED
  BY <1>1, <1>2, <1>3, <1>4, <1>5, FS_Subset, FS_CardinalityType

LEMMA IdSetsNext ==
    /\ IsFiniteSet(FreshIds') /\ Cardinality(FreshIds') \in Nat
    /\ IsFiniteSet(Reserved') /\ Cardinality(Reserved') \in Nat
<1>1. FreshIds' \subseteq 1 .. MaxReminders
  BY DEF FreshIds, ReminderId
<1>2. IsFiniteSet(1 .. MaxReminders)
  BY RemindersAssumption, FS_Interval
<1>3. IsFiniteSet(Request \X Type)
  BY RemindersAssumption, FS_Product
<1>4. Reserved' \subseteq Request \X Type
  BY DEF Reserved
<1>5. QED
  BY <1>1, <1>2, <1>3, <1>4, FS_Subset, FS_CardinalityType

\* Of the fresh ids a step uses up those it creates: all the others it may have
\* in its hands are ids of rows.
LEMMA FreshStays ==
    ASSUME NEW new, DOMAIN rem' \subseteq DOMAIN rem \cup new,
           \A n \in scan'.todo : n \in scan.todo \/ n[1] \in DOMAIN rem,
           \A q \in Request : req'[q].id = req[q].id \/ req'[q].id \in DOMAIN rem \cup {None}
    PROVE  FreshIds \ new \subseteq FreshIds'
<1> SUFFICES ASSUME NEW r \in FreshIds, r \notin new PROVE r \in FreshIds'
  OBVIOUS
<1>1. /\ r \in ReminderId /\ r \notin DOMAIN rem /\ r # None
      /\ \A n \in scan.todo : n[1] # r
      /\ \A q \in Request : req[q].id # r
  BY IdSets DEF FreshIds
<1>2. r \notin DOMAIN rem' /\ \A q \in Request : req'[q].id # r
  BY <1>1
<1>3. \A n \in scan'.todo : n[1] # r
  BY <1>1
<1>4. QED
  BY <1>1, <1>2, <1>3 DEF FreshIds

LEMMA NoNewId ==
    ASSUME RoomOK, FreshIds \subseteq FreshIds', Reserved' \subseteq Reserved
    PROVE  RoomOK'
<1>1. Cardinality(FreshIds) <= Cardinality(FreshIds')
  BY IdSetsNext, FS_Subset
<1>2. Cardinality(Reserved') <= Cardinality(Reserved)
  BY IdSets, FS_Subset
<1>3. QED
  BY <1>1, <1>2, IdSets, IdSetsNext DEF RoomOK

LEMMA Reserves ==
    ASSUME NEW n \in Nat, Room(n), FreshIds \subseteq FreshIds',
           NEW S, IsFiniteSet(S), Cardinality(S) <= n, Reserved' \subseteq Reserved \cup S
    PROVE  RoomOK'
<1>1. Cardinality(FreshIds) <= Cardinality(FreshIds')
  BY IdSetsNext, FS_Subset
<1>2. /\ IsFiniteSet(Reserved \cup S) /\ Cardinality(Reserved \cup S) \in Nat
      /\ Cardinality(Reserved \cup S) <= Cardinality(Reserved) + Cardinality(S)
      /\ Cardinality(S) \in Nat
  <2>1. /\ IsFiniteSet(Reserved \cup S)
        /\ Cardinality(Reserved \cup S)
             = Cardinality(Reserved) + Cardinality(S) - Cardinality(Reserved \cap S)
    BY IdSets, FS_Union
  <2>2. IsFiniteSet(Reserved \cap S)
    BY IdSets, FS_Intersection
  <2>3. /\ Cardinality(Reserved \cap S) \in Nat /\ Cardinality(S) \in Nat
        /\ Cardinality(Reserved \cup S) \in Nat
    BY <2>1, <2>2, FS_CardinalityType
  <2>4. QED
    BY <2>1, <2>3, IdSets
<1>3. Cardinality(Reserved') <= Cardinality(Reserved \cup S)
  BY <1>2, FS_Subset
<1>4. QED
  BY <1>1, <1>2, <1>3, IdSets, IdSetsNext DEF RoomOK, Room

\* The id of a new row is a fresh one, and one fewer is needed.
LEMMA Creates ==
    ASSUME RoomOK, NEW p \in Reserved
    PROVE  /\ NewId \in FreshIds /\ NewId \in ReminderId
           /\ FreshIds \ {NewId} \subseteq FreshIds' /\ Reserved' \subseteq Reserved \ {p}
                => RoomOK'
<1>1. /\ IsFiniteSet(Reserved \ {p})
      /\ Cardinality(Reserved \ {p}) = Cardinality(Reserved) - 1
  BY IdSets, FS_RemoveElement
<1>2. Cardinality(Reserved \ {p}) \in Nat
  BY <1>1, FS_CardinalityType
<1>3. Cardinality(FreshIds) # 0
  BY <1>1, <1>2, IdSets DEF RoomOK
<1>4. FreshIds # {}
  BY <1>3, FS_EmptySet
<1>5. NewId \in FreshIds
  BY <1>4 DEF NewId
<1>6. /\ IsFiniteSet(FreshIds \ {NewId})
      /\ Cardinality(FreshIds \ {NewId}) = Cardinality(FreshIds) - 1
  BY <1>5, IdSets, FS_RemoveElement
<1>7. ASSUME FreshIds \ {NewId} \subseteq FreshIds', Reserved' \subseteq Reserved \ {p}
      PROVE  RoomOK'
  <2>1. Cardinality(FreshIds) - 1 <= Cardinality(FreshIds')
    BY <1>6, <1>7, IdSetsNext, FS_Subset
  <2>2. Cardinality(Reserved') <= Cardinality(Reserved) - 1
    BY <1>1, <1>7, FS_Subset
  <2>3. QED
    BY <2>1, <2>2, IdSets, IdSetsNext DEF RoomOK
<1>8. QED
  BY <1>5, <1>7 DEF FreshIds

LEMMA CreatesAtOnce ==
    ASSUME Room(1)
    PROVE  /\ NewId \in FreshIds /\ NewId \in ReminderId
           /\ FreshIds \ {NewId} \subseteq FreshIds' /\ Reserved' \subseteq Reserved => RoomOK'
<1>1. Cardinality(Reserved) + 1 <= Cardinality(FreshIds)
  BY DEF Room
<1>2. Cardinality(FreshIds) # 0
  BY <1>1, IdSets
<1>3. FreshIds # {}
  BY <1>2, FS_EmptySet
<1>4. NewId \in FreshIds
  BY <1>3 DEF NewId
<1>5. /\ IsFiniteSet(FreshIds \ {NewId})
      /\ Cardinality(FreshIds \ {NewId}) = Cardinality(FreshIds) - 1
  BY <1>4, IdSets, FS_RemoveElement
<1>6. ASSUME FreshIds \ {NewId} \subseteq FreshIds', Reserved' \subseteq Reserved
      PROVE  RoomOK'
  <2>1. Cardinality(FreshIds) - 1 <= Cardinality(FreshIds')
    BY <1>5, <1>6, IdSetsNext, FS_Subset
  <2>2. Cardinality(Reserved') <= Cardinality(Reserved)
    BY <1>6, IdSets, FS_Subset
  <2>3. QED
    BY <1>1, <2>1, <2>2, IdSets, IdSetsNext DEF RoomOK
<1>7. QED
  BY <1>4, <1>6 DEF FreshIds

\* That a handler at c may still create a reminder of type t.
Wants(c, t) ==
    \/ c.pc \in {"find", "write"} /\ t = c.type
    \/ c.pc \in {"provider", "store"}
    \/ c.pc \in {"applyFind", "applyWrite"} /\ t \in c.left

LEMMA ReservedStep ==
    ASSUME req \in [Request -> RequestState], NEW q \in Request, NEW c, Step(q, c), NEW S,
           \A t \in Type : Wants(c, t) => Wants(req[q], t) \/ <<q, t>> \in S
    PROVE  Reserved' \subseteq Reserved \cup S
<1> SUFFICES ASSUME NEW p \in Reserved' PROVE p \in Reserved \cup S
  OBVIOUS
<1>1. p \in Request \X Type /\ Wants(req'[p[1]], p[2])
  BY DEF Reserved, MayCreate, Wants
<1>2. CASE p[1] = q
  <2>1. Wants(c, p[2])
    BY <1>1, <1>2, StepEffect
  <2>2. Wants(req[q], p[2]) \/ p \in S
    BY <1>1, <1>2, <2>1
  <2>3. Wants(req[q], p[2]) => p \in Reserved
    BY <1>1, <1>2 DEF Reserved, MayCreate, Wants
  <2>4. QED
    BY <2>2, <2>3
<1>3. CASE p[1] # q
  <2>1. Wants(req[p[1]], p[2])
    BY <1>1, <1>3, StepEffect
  <2>2. QED
    BY <1>1, <2>1 DEF Reserved, MayCreate, Wants
<1>4. QED
  BY <1>2, <1>3

LEMMA ReservedDone ==
    ASSUME req \in [Request -> RequestState], NEW q \in Request, NEW c, Step(q, c), NEW t \in Type,
           \A u \in Type : Wants(c, u) => Wants(req[q], u) /\ u # t,
           Wants(req[q], t)
    PROVE  <<q, t>> \in Reserved /\ Reserved' \subseteq Reserved \ {<<q, t>>}
<1>1. <<q, t>> \in Reserved
  BY DEF Reserved, MayCreate, Wants
<1>2. Reserved' \subseteq Reserved \cup {}
  BY ReservedStep
<1>3. ~Wants(req'[q], t)
  BY StepEffect
<1>4. <<q, t>> \notin Reserved'
  BY <1>3 DEF Reserved, MayCreate, Wants
<1>5. QED
  BY <1>1, <1>2, <1>4

LEMMA SameRequests ==
    ASSUME RequestsOK, UNCHANGED req PROVE RequestsOK' /\ Reserved' = Reserved
BY DEF RequestsOK, CallOK, Reserved, MayCreate

-----------------------------------------------------------------------------
(* Rows, announcements and the scan *)

LEMMA Clipped == \A d \in Int : Clip(d) \in -Past .. Horizon
BY RemindersAssumption DEF Clip

LEMMA GivenNumbers ==
    /\ \A i \in Intervals \cup {Horizon} : i \in Nat
    /\ \A n \in 0 .. MaxOdometer : n \in Nat
    /\ DueDays \subseteq Days
BY RemindersAssumption DEF Days

LEMMA RowSet ==
    ASSUME RowsOK, NEW r \in ReminderId, NEW row \in Row, rem' = With(r, row)
    PROVE  /\ RowsOK' /\ DOMAIN rem' = DOMAIN rem \cup {r} /\ rem'[r] = row
           /\ \A s \in DOMAIN rem \ {r} : rem'[s] = rem[s]
<1>1. DOMAIN rem' = DOMAIN rem \cup {r}
  BY DEF With
<1>2. rem'[r] = row /\ \A s \in DOMAIN rem \ {r} : rem'[s] = rem[s]
  BY DEF With
<1>3. rem' \in [DOMAIN rem' -> Row]
  BY <1>1, <1>2 DEF With, RowsOK
<1>4. QED
  BY <1>1, <1>2, <1>3 DEF RowsOK

LEMMA RowExcept ==
    ASSUME RowsOK, NEW r \in DOMAIN rem, NEW row \in Row, rem' = [rem EXCEPT ![r] = row]
    PROVE  /\ RowsOK' /\ DOMAIN rem' = DOMAIN rem /\ rem'[r] = row
           /\ \A s \in DOMAIN rem \ {r} : rem'[s] = rem[s]
<1>1. DOMAIN rem' = DOMAIN rem /\ rem' \in [DOMAIN rem -> Row]
  BY DEF RowsOK
<1>2. QED
  BY <1>1 DEF RowsOK

LEMMA SameRows == ASSUME RowsOK, UNCHANGED rem PROVE RowsOK'
BY DEF RowsOK

LEMMA NoNewsOK == NoNews \in News
BY DEF NoNews, News, Ago

\* What renewing r leaves in told and scan.
LEMMA RenewEffect ==
    ASSUME ScanOK, told \in [ReminderId -> News], NEW r \in ReminderId,
           told' = Renewed(r), NewsOver(r)
    PROVE  /\ ScanOK' /\ told' \in [ReminderId -> News]
           /\ told'[r] = NoNews /\ \A s \in ReminderId \ {r} : told'[s] = told[s]
           /\ scan'.pc = scan.pc /\ scan'.todo = scan.todo /\ scan'.now = scan.now
           /\ scan'.changed = IF Scanning THEN scan.changed \cup {r} ELSE scan.changed
<1>1. /\ told' \in [ReminderId -> News] /\ told'[r] = NoNews
      /\ \A s \in ReminderId \ {r} : told'[s] = told[s]
  BY NoNewsOK DEF Renewed
<1>2. PICK ch : ch = (IF Scanning THEN scan.changed \cup {r} ELSE scan.changed)
  OBVIOUS
<1>3. ch \subseteq ReminderId
  BY <1>2 DEF ScanOK, ScanState
<1>4. scan' = [scan EXCEPT !.changed = ch]
  BY <1>2 DEF NewsOver
<1>5. /\ scan' \in ScanState /\ scan'.changed = ch
      /\ scan'.pc = scan.pc /\ scan'.todo = scan.todo /\ scan'.now = scan.now
  BY <1>3, <1>4 DEF ScanOK, ScanState
<1>6. ScanOK'
  BY <1>2, <1>5 DEF ScanOK, Scanning
<1>7. QED
  BY <1>1, <1>2, <1>5, <1>6

LEMMA SameScan == ASSUME ScanOK, UNCHANGED scan PROVE ScanOK'
BY DEF ScanOK, Scanning

LEMMA SameOthers ==
    ASSUME OthersOK, UNCHANGED <<verif, papers, odometer>>, calls' \in Nat,
           told' \in [ReminderId -> News]
    PROVE  OthersOK'
BY DEF OthersOK, VerificationRow

LEMMA CallsOK ==
    ASSUME calls \in Nat
    PROVE  /\ \A op : Called(op) => calls' \in Nat
           /\ \A f : Failure(f) => calls' \in Nat
BY DEF Called, Failure

-----------------------------------------------------------------------------
(* The invariant of types, step by step *)

LEMMA TypeInvInit == ASSUME Init PROVE TypeInv
<1>1. RowsOK
  BY DEF Init, RowsOK
<1>2. RequestsOK
  BY IdleCall DEF Init, RequestsOK
<1>3. ScanOK
  BY DEF Init, ScanOK, ScanState, Quiet, Scanning
<1>4. OthersOK
  <2>1. NoData.dates \in [Type -> Days]
    BY DEF NoData, Days
  <2>2. verif \in VerificationRow
    BY <2>1 DEF Init, VerificationRow
  <2>3. told \in [ReminderId -> News]
    BY NoNewsOK DEF Init
  <2>4. odometer \in (0 .. MaxOdometer) \cup {None}
    BY RemindersAssumption DEF Init
  <2>5. QED
    BY <2>2, <2>3, <2>4 DEF Init, OthersOK
<1>5. Reserved = {}
  BY DEF Init, Reserved, MayCreate, IdleRequest
<1>6. RoomOK
  BY <1>5, IdSets, FS_EmptySet DEF RoomOK
<1>7. QED
  BY <1>1, <1>2, <1>3, <1>4, <1>6 DEF TypeInv

\* A step of a user or of the scan that creates nothing.
LEMMA KeepsRoom ==
    ASSUME TypeInv, UNCHANGED req, DOMAIN rem' \subseteq DOMAIN rem,
           \A n \in scan'.todo : n \in scan.todo \/ n[1] \in DOMAIN rem
    PROVE  RequestsOK' /\ RoomOK'
<1>1. FreshIds \ {} \subseteq FreshIds'
  BY FreshStays
<1>2. RequestsOK' /\ Reserved' = Reserved
  BY SameRequests DEF TypeInv
<1>3. QED
  BY <1>1, <1>2, NoNewId DEF TypeInv

LEMMA CreateKeepsTypes == ASSUME TypeInv, Create PROVE TypeInv'
<1>1. NewId \in FreshIds /\ NewId \in ReminderId
  BY CreatesAtOnce DEF Create
<1>2. PICK row \in Row : rem' = With(NewId, row)
  <2>1. PICK t \in Type, k \in Kinds, d \in DueDays \cup {None}, km \in DueKms \cup {None},
          i \in Intervals \cup {None}, ik \in Intervals \cup {None}, a \in BOOLEAN :
          /\ d # None \/ km # None \/ i # None \/ ik # None
          /\ rem' = With(NewId,
                [type |-> t, kind |-> k, source |-> "manual", days |-> d, km |-> km,
                 every |-> i, everyKm |-> ik, active |-> a, stage |-> None, ago |-> None])
    BY Zenon DEF Create
  <2>2. QED
    BY <2>1, RemindersAssumption DEF Row, Days, Ago
<1>3. RowsOK' /\ DOMAIN rem' = DOMAIN rem \cup {NewId}
  BY <1>1, <1>2, RowSet DEF TypeInv
<1>4. /\ ScanOK' /\ told' \in [ReminderId -> News] /\ scan'.todo = scan.todo
  BY <1>1, RenewEffect DEF Create, TypeInv, OthersOK
<1>5. RequestsOK' /\ Reserved' = Reserved
  BY SameRequests DEF Create, TypeInv
<1>6. OthersOK'
  BY <1>4, SameOthers, CallsOK DEF Create, TypeInv, OthersOK
<1>7. FreshIds \ {NewId} \subseteq FreshIds'
  <2>1. \A q \in Request : req'[q].id = req[q].id
    BY DEF Create
  <2>2. \A n \in scan'.todo : n \in scan.todo
    BY <1>4
  <2>3. QED
    BY <1>3, <2>1, <2>2, FreshStays
<1>8. RoomOK'
  BY <1>5, <1>7, CreatesAtOnce DEF Create
<1>9. QED
  BY <1>3, <1>4, <1>5, <1>6, <1>8 DEF TypeInv

\* The rows that update and complete write.
LEMMA ResetOK == ASSUME NEW row \in Row PROVE Reset(row) \in Row
BY DEF Reset, Row, Ago

LEMMA UpdateKeepsTypes ==
    ASSUME TypeInv, NEW r \in ReminderId, Update(r) PROVE TypeInv'
<1>1. r \in DOMAIN rem /\ rem[r] \in Row
  BY DEF Update, TypeInv, RowsOK
<1>2. PICK t \in Type, k \in Kinds \cup {rem[r].kind}, i \in Intervals \cup {None, rem[r].every},
           ik \in Intervals \cup {None, rem[r].everyKm} :
          LET row == [rem[r] EXCEPT !.type = t, !.kind = k, !.every = i, !.everyKm = ik] IN
          \/ /\ \E d \in DueDays \cup {None, row.days}, km \in DueKms \cup {None, row.km},
                   a \in BOOLEAN :
                   rem' = [rem EXCEPT ![r] = Reset([row EXCEPT
                               !.days = d, !.km = km, !.active = a])]
             /\ told' = Renewed(r) /\ NewsOver(r)
          \/ /\ rem' = [rem EXCEPT ![r] = row]
             /\ UNCHANGED <<told, scan>>
  BY DEF Update
<1> DEFINE row == [rem[r] EXCEPT !.type = t, !.kind = k, !.every = i, !.everyKm = ik]
<1>3. row \in Row
  BY <1>1, RemindersAssumption DEF Row
<1>4. PICK new \in Row : rem' = [rem EXCEPT ![r] = new]
  <2>1. ASSUME NEW d \in DueDays \cup {None, row.days}, NEW km \in DueKms \cup {None, row.km},
               NEW a \in BOOLEAN
        PROVE  Reset([row EXCEPT !.days = d, !.km = km, !.active = a]) \in Row
    <3>1. d \in Days /\ km \in DueKms \cup Nat \cup {None}
      BY <1>3, RemindersAssumption DEF Row, Days
    <3>2. [row EXCEPT !.days = d, !.km = km, !.active = a] \in Row
      BY <1>3, <3>1 DEF Row
    <3>3. QED
      BY <3>2, ResetOK
  <2>2. QED
    BY <1>2, <1>3, <2>1
<1>5. RowsOK' /\ DOMAIN rem' = DOMAIN rem
  BY <1>1, <1>4, RowExcept DEF TypeInv
<1>6. (told' = Renewed(r) /\ NewsOver(r)) \/ UNCHANGED <<told, scan>>
  BY <1>2
<1>7. ScanOK' /\ told' \in [ReminderId -> News] /\ scan'.todo = scan.todo
  BY <1>6, RenewEffect, SameScan DEF TypeInv, OthersOK
<1>8. OthersOK'
  BY <1>7, SameOthers, CallsOK DEF Update, TypeInv, OthersOK
<1>9. RequestsOK' /\ RoomOK'
  <2>1. UNCHANGED req
    BY DEF Update
  <2>2. QED
    BY <1>5, <1>7, <2>1, KeepsRoom
<1>10. QED
  BY <1>5, <1>7, <1>8, <1>9 DEF TypeInv

LEMMA RemoveKeepsTypes ==
    ASSUME TypeInv, NEW r \in ReminderId, Remove(r) PROVE TypeInv'
<1>1. RowsOK' /\ DOMAIN rem' \subseteq DOMAIN rem
  BY DEF Remove, Without, TypeInv, RowsOK
<1>2. ScanOK' /\ told' \in [ReminderId -> News] /\ scan'.todo = scan.todo
  BY RenewEffect DEF Remove, TypeInv, OthersOK
<1>3. OthersOK'
  BY <1>2, SameOthers, CallsOK DEF Remove, TypeInv, OthersOK
<1>4. RequestsOK' /\ RoomOK'
  BY <1>1, <1>2, KeepsRoom DEF Remove
<1>5. QED
  BY <1>1, <1>2, <1>3, <1>4 DEF TypeInv

LEMMA DriveKeepsTypes == ASSUME TypeInv, Drive PROVE TypeInv'
<1>1. RowsOK' /\ ScanOK' /\ RequestsOK' /\ RoomOK'
  BY SameRows, SameScan, KeepsRoom DEF Drive, TypeInv
<1>2. OthersOK'
  BY CallsOK DEF Drive, TypeInv, OthersOK, VerificationRow
<1>3. QED
  BY <1>1, <1>2 DEF TypeInv

\* A step of a handler that neither creates a reminder nor is about to create
\* more of them than before.
LEMMA HandlerStepKeepsRoom ==
    ASSUME TypeInv, NEW q \in Request, NEW c \in RequestState, CallOK(c), Step(q, c),
           DOMAIN rem' \subseteq DOMAIN rem, scan'.todo = scan.todo,
           c.id \in DOMAIN rem \cup {None, req[q].id},
           \A t \in Type : Wants(c, t) => Wants(req[q], t)
    PROVE  RequestsOK' /\ RoomOK'
<1>1. RequestsOK'
  BY RequestsStep DEF TypeInv
<1>2. Reserved' \subseteq Reserved \cup {}
  BY ReservedStep DEF TypeInv, RequestsOK
<1>3. FreshIds \ {} \subseteq FreshIds'
  <2>1. \A p \in Request : req'[p].id = req[p].id \/ req'[p].id \in DOMAIN rem \cup {None}
    BY StepEffect DEF TypeInv, RequestsOK
  <2>2. QED
    BY <2>1, FreshStays
<1>4. QED
  BY <1>1, <1>2, <1>3, NoNewId DEF TypeInv

LEMMA ReturnKeepsRoom ==
    ASSUME TypeInv, NEW q \in Request, Return(q), DOMAIN rem' \subseteq DOMAIN rem,
           scan'.todo = scan.todo
    PROVE  RequestsOK' /\ RoomOK'
<1>1. \A t \in Type : ~Wants(IdleRequest, t)
  BY IdleCall DEF Wants
<1>2. QED
  BY <1>1, IdleCall, ReturnIsStep, HandlerStepKeepsRoom

\* What remains to be shown of a step that leaves the rows, the scan and what
\* has been told alone.
LEMMA QuietStep ==
    ASSUME TypeInv, UNCHANGED <<rem, scan, told>>
    PROVE  /\ RowsOK' /\ ScanOK' /\ told' \in [ReminderId -> News]
           /\ DOMAIN rem' \subseteq DOMAIN rem /\ scan'.todo = scan.todo
BY SameRows, SameScan DEF TypeInv, OthersOK

\* What a handler has at hand.
LEMMA AtHand ==
    ASSUME TypeInv, NEW q \in Request
    PROVE  /\ req[q] \in RequestState /\ CallOK(req[q])
           /\ req[q].id \in ReminderId \cup {None} /\ req[q].type \in Type \cup {None}
           /\ req[q].days \in Days /\ req[q].left \subseteq Type
           /\ req[q].data.dates \in [Type -> Days]
           /\ req[q].data.status \in {"ok", "not_found", "error"}
<1>1. req[q] \in RequestState /\ CallOK(req[q])
  BY DEF TypeInv, RequestsOK
<1>2. QED
  BY <1>1 DEF RequestState

LEMMA BeginCompleteKeepsTypes ==
    ASSUME TypeInv, NEW q \in Request, NEW r \in ReminderId, BeginComplete(q, r) PROVE TypeInv'
<1>1. PICK c : c = [IdleRequest EXCEPT !.pc = "complete", !.id = r, !.every = rem[r].every,
                                       !.everyKm = rem[r].everyKm, !.odo = odometer]
  OBVIOUS
<1>2. rem[r] \in Row /\ r \in DOMAIN rem
  BY DEF BeginComplete, TypeInv, RowsOK
<1>3. rem[r].every \in Intervals \cup {Horizon, None} /\ rem[r].everyKm \in Intervals \cup {None}
  BY <1>2 DEF Row
<1>4. c \in RequestState
  BY <1>1, <1>3, IdleCall DEF RequestState, TypeInv, OthersOK
<1>5. c.pc = "complete" /\ c.id = r
  BY <1>1 DEF IdleRequest
<1>6. CallOK(c) /\ \A t \in Type : ~Wants(c, t)
  BY <1>5 DEF CallOK, Wants
<1>7. Step(q, c) /\ UNCHANGED <<rem, scan, told>> /\ Called("complete")
  BY <1>1 DEF BeginComplete
<1>8. RequestsOK' /\ RoomOK'
  BY <1>2, <1>4, <1>5, <1>6, <1>7, QuietStep, HandlerStepKeepsRoom
<1>9. OthersOK'
  BY <1>7, QuietStep, SameOthers, CallsOK DEF BeginComplete, TypeInv, OthersOK
<1>10. QED
  BY <1>7, <1>8, <1>9, QuietStep DEF TypeInv

LEMMA CompleteKeepsTypes ==
    ASSUME TypeInv, NEW q \in Request, Complete(q) PROVE TypeInv'
<1>1. PICK r : r = req[q].id
  OBVIOUS
<1>2. r \in ReminderId /\ Return(q)
  BY <1>1, AtHand DEF Complete, CallOK, At
<1>3. \/ /\ r \in DOMAIN rem /\ \E row \in Row : rem' = [rem EXCEPT ![r] = row]
         /\ told' = Renewed(r) /\ NewsOver(r)
      \/ UNCHANGED <<rem, told, scan>>
  <2>1. CASE r \notin DOMAIN rem
    BY <1>1, <2>1 DEF Complete
  <2>2. CASE r \in DOMAIN rem
    <3>1. PICK doneAt \in {-1, 0}, doneKm \in {0, req[q].odo} :
            rem' = [rem EXCEPT ![r] = Reset([rem[r] EXCEPT
                    !.days = IF req[q].every = None THEN @ ELSE Clip(doneAt + req[q].every),
                    !.km = IF req[q].everyKm = None \/ doneKm = None THEN @
                           ELSE doneKm + req[q].everyKm,
                    !.active = req[q].every # None \/ req[q].everyKm # None])]
      BY <1>1, <2>2 DEF Complete
    <3>2. PICK days : days = IF req[q].every = None THEN rem[r].days
                             ELSE Clip(doneAt + req[q].every)
      OBVIOUS
    <3>3. PICK km : km = IF req[q].everyKm = None \/ doneKm = None THEN rem[r].km
                         ELSE doneKm + req[q].everyKm
      OBVIOUS
    <3>4. PICK on \in BOOLEAN : on = (req[q].every # None \/ req[q].everyKm # None)
      OBVIOUS
    <3>5. /\ req[q].every \in Intervals \cup {Horizon, None}
          /\ req[q].everyKm \in Intervals \cup {None}
          /\ req[q].odo \in (0 .. MaxOdometer) \cup {None}
      BY AtHand DEF RequestState
    <3>6. rem[r] \in Row
      BY <2>2 DEF TypeInv, RowsOK
    <3>7. days \in Days
      <4>1. CASE req[q].every = None
        BY <3>2, <3>6, <4>1 DEF Row
      <4>2. CASE req[q].every # None
        <5>1. req[q].every \in Nat
          BY <3>5, <4>2, GivenNumbers
        <5>2. doneAt \in Int
          OBVIOUS
        <5>3. doneAt + req[q].every \in Int
          BY <5>1, <5>2
        <5>4. QED
          BY <3>2, <4>2, <5>3, Clipped DEF Days
      <4>3. QED
        BY <4>1, <4>2
    <3>8. km \in DueKms \cup Nat \cup {None}
      <4>1. CASE req[q].everyKm = None \/ doneKm = None
        BY <3>3, <3>6, <4>1 DEF Row
      <4>2. CASE ~(req[q].everyKm = None \/ doneKm = None)
        <5>1. req[q].everyKm \in Nat
          BY <3>5, <4>2, GivenNumbers
        <5>2. doneKm \in Nat
          BY <3>5, <4>2, GivenNumbers
        <5>3. doneKm + req[q].everyKm \in Nat
          BY <5>1, <5>2
        <5>4. QED
          BY <3>3, <4>2, <5>3
      <4>3. QED
        BY <4>1, <4>2
    <3>9. [rem[r] EXCEPT !.days = days, !.km = km, !.active = on] \in Row
      BY <3>4, <3>6, <3>7, <3>8 DEF Row
    <3>10. rem' = [rem EXCEPT ![r] = Reset([rem[r] EXCEPT
                      !.days = days, !.km = km, !.active = on])]
      BY <3>1, <3>2, <3>3, <3>4
    <3>11. told' = Renewed(r) /\ NewsOver(r)
      BY <1>1, <2>2 DEF Complete
    <3>12. QED
      BY <2>2, <3>9, <3>10, <3>11, ResetOK
  <2>3. QED
    BY <2>1, <2>2
<1>4. RowsOK' /\ DOMAIN rem' \subseteq DOMAIN rem
  <2>1. CASE UNCHANGED <<rem, told, scan>>
    BY <2>1, QuietStep
  <2>2. ASSUME r \in DOMAIN rem, NEW row \in Row, rem' = [rem EXCEPT ![r] = row]
        PROVE  RowsOK' /\ DOMAIN rem' \subseteq DOMAIN rem
    BY <2>2, RowExcept DEF TypeInv
  <2>3. QED
    BY <1>3, <2>1, <2>2
<1>5. ScanOK' /\ told' \in [ReminderId -> News] /\ scan'.todo = scan.todo
  BY <1>2, <1>3, RenewEffect, SameScan DEF TypeInv, OthersOK
<1>6. RequestsOK' /\ RoomOK'
  BY <1>2, <1>4, <1>5, ReturnKeepsRoom
<1>7. UNCHANGED <<verif, papers, odometer, calls>>
  BY DEF Complete
<1>8. OthersOK'
  BY <1>5, <1>7, SameOthers DEF TypeInv, OthersOK
<1>9. QED
  BY <1>4, <1>5, <1>6, <1>8 DEF TypeInv

\* A handler begins that may create as many reminders as there is room for.
LEMMA HandlerBeginsWithRoom ==
    ASSUME TypeInv, NEW q \in Request, NEW c \in RequestState, CallOK(c), Step(q, c),
           UNCHANGED <<rem, scan, told>>, c.id = None,
           NEW n \in Nat, Room(n), NEW S, IsFiniteSet(S), Cardinality(S) <= n,
           \A t \in Type : Wants(c, t) => <<q, t>> \in S
    PROVE  RequestsOK' /\ RoomOK'
<1>1. RequestsOK'
  BY RequestsStep DEF TypeInv
<1>2. Reserved' \subseteq Reserved \cup S
  BY ReservedStep DEF TypeInv, RequestsOK
<1>3. FreshIds \ {} \subseteq FreshIds'
  <2>1. \A p \in Request : req'[p].id = req[p].id \/ req'[p].id \in DOMAIN rem \cup {None}
    BY StepEffect DEF TypeInv, RequestsOK
  <2>2. QED
    BY <2>1, QuietStep, FreshStays
<1>4. QED
  BY <1>1, <1>2, <1>3, Reserves

LEMMA BeginConfirmKeepsTypes ==
    ASSUME TypeInv, NEW q \in Request, NEW t \in Type, NEW d \in DueDays, BeginConfirm(q, t, d)
    PROVE  TypeInv'
<1>1. PICK c : c = [IdleRequest EXCEPT !.pc = "find", !.type = t, !.days = d]
  OBVIOUS
<1>2. c \in RequestState
  BY <1>1, IdleCall, GivenNumbers DEF RequestState
<1>3. c.pc = "find" /\ c.type = t /\ c.id = None
  BY <1>1 DEF IdleRequest
<1>4. CallOK(c) /\ \A u \in Type : Wants(c, u) => <<q, u>> \in {<<q, t>>}
  BY <1>3 DEF CallOK, Wants
<1>5. Step(q, c) /\ UNCHANGED <<rem, scan, told>> /\ Called("confirm") /\ Room(1)
  BY <1>1 DEF BeginConfirm
<1>6. IsFiniteSet({<<q, t>>}) /\ Cardinality({<<q, t>>}) <= 1
  <2>1. IsFiniteSet({<<q, t>>}) /\ Cardinality({<<q, t>>}) = 1
    BY FS_Singleton, Zenon
  <2>2. QED
    BY <2>1
<1>7. RequestsOK' /\ RoomOK'
  BY <1>2, <1>3, <1>4, <1>5, <1>6, HandlerBeginsWithRoom
<1>8. OthersOK'
  BY <1>5, QuietStep, SameOthers, CallsOK DEF BeginConfirm, TypeInv, OthersOK
<1>9. QED
  BY <1>5, <1>7, <1>8, QuietStep DEF TypeInv

LEMMA BeginVerifyKeepsTypes ==
    ASSUME TypeInv, NEW q \in Request, BeginVerify(q) PROVE TypeInv'
<1>1. PICK c : c = [IdleRequest EXCEPT !.pc = "provider"]
  OBVIOUS
<1>2. c \in RequestState
  BY <1>1, IdleCall DEF RequestState
<1>3. c.pc = "provider" /\ c.id = None
  BY <1>1 DEF IdleRequest
<1>4. CallOK(c) /\ \A u \in Type : Wants(c, u) => <<q, u>> \in {q} \X Type
  BY <1>3 DEF CallOK, Wants
<1>5. Step(q, c) /\ UNCHANGED <<rem, scan, told>> /\ Called("verify") /\ Room(Cardinality(Type))
  BY <1>1 DEF BeginVerify
<1>6. IsFiniteSet({q} \X Type) /\ Cardinality({q} \X Type) <= Cardinality(Type)
  <2>1. IsFiniteSet({q}) /\ Cardinality({q}) = 1
    BY FS_Singleton
  <2>2. /\ IsFiniteSet({q} \X Type)
        /\ Cardinality({q} \X Type) = Cardinality({q}) * Cardinality(Type)
    BY <2>1, RemindersAssumption, FS_Product
  <2>3. Cardinality(Type) \in Nat
    BY RemindersAssumption, FS_CardinalityType
  <2>4. QED
    BY <2>1, <2>2, <2>3
<1>7. Cardinality(Type) \in Nat
  BY RemindersAssumption, FS_CardinalityType
<1>8. RequestsOK' /\ RoomOK'
  BY <1>2, <1>3, <1>4, <1>5, <1>6, <1>7, HandlerBeginsWithRoom
<1>9. OthersOK'
  BY <1>5, QuietStep, SameOthers, CallsOK DEF BeginVerify, TypeInv, OthersOK
<1>10. QED
  BY <1>5, <1>8, <1>9, QuietStep DEF TypeInv

LEMMA FindForDocumentKeepsTypes ==
    ASSUME TypeInv, NEW q \in Request, FindForDocument(q) PROVE TypeInv'
<1>1. PICK r \in DOMAIN rem \cup {None} : Step(q, [req[q] EXCEPT !.pc = "write", !.id = r])
  BY DEF FindForDocument
<1>2. PICK c : c = [req[q] EXCEPT !.pc = "write", !.id = r]
  OBVIOUS
<1>3. r \in ReminderId \cup {None}
  BY <1>1 DEF TypeInv, RowsOK
<1>4. req[q].pc = "find" /\ req[q].type \in Type
  BY AtHand DEF FindForDocument, At, CallOK
<1>5. /\ c \in RequestState /\ c.pc = "write" /\ c.id = r /\ c.type = req[q].type
  BY <1>2, <1>3, AtHand, SMT, ZenonT(40) DEF RequestState
<1>6. CallOK(c) /\ \A t \in Type : Wants(c, t) => Wants(req[q], t)
  BY <1>4, <1>5 DEF CallOK, Wants
<1>7. UNCHANGED <<rem, scan, told>>
  BY DEF FindForDocument
<1>8. RequestsOK' /\ RoomOK'
  BY <1>1, <1>2, <1>5, <1>6, <1>7, QuietStep, HandlerStepKeepsRoom
<1>9. OthersOK'
  BY <1>7, QuietStep, SameOthers DEF FindForDocument, TypeInv, OthersOK
<1>10. QED
  BY <1>7, <1>8, <1>9, QuietStep DEF TypeInv

LEMMA UpsertFieldKeepsTypes ==
    ASSUME TypeInv, NEW q \in Request, UpsertField(q) PROVE TypeInv'
<1>1. PICK c : c = [req[q] EXCEPT !.pc = "archive"]
  OBVIOUS
<1>2. req[q].pc = "upsert" /\ req[q].type \in Type
  BY AtHand DEF UpsertField, At, CallOK
<1>3. /\ c \in RequestState /\ c.pc = "archive" /\ c.id = req[q].id /\ c.type = req[q].type
  BY <1>1, AtHand DEF RequestState
<1>4. CallOK(c) /\ \A t \in Type : ~Wants(c, t)
  BY <1>2, <1>3 DEF CallOK, Wants
<1>5. UNCHANGED <<rem, scan, told>> /\ Step(q, c)
  BY <1>1 DEF UpsertField
<1>6. RequestsOK' /\ RoomOK'
  BY <1>3, <1>4, <1>5, QuietStep, HandlerStepKeepsRoom
<1>7. verif' \in VerificationRow
  <2>1. verif.dates \in [Type -> Days]
    BY DEF TypeInv, OthersOK, VerificationRow
  <2>2. [verif.dates EXCEPT ![req[q].type] = req[q].days] \in [Type -> Days]
    BY <1>2, <2>1, AtHand
  <2>3. QED
    BY <2>2 DEF UpsertField, VerificationRow
<1>8. OthersOK'
  BY <1>5, <1>7, QuietStep DEF UpsertField, TypeInv, OthersOK
<1>9. QED
  BY <1>5, <1>6, <1>8, QuietStep DEF TypeInv

LEMMA ArchiveDocumentKeepsTypes ==
    ASSUME TypeInv, NEW q \in Request, ArchiveDocument(q) PROVE TypeInv'
<1>1. req[q].type \in Type
  BY AtHand DEF ArchiveDocument, At, CallOK
<1>2. UNCHANGED <<rem, scan, told>> /\ Return(q)
  BY DEF ArchiveDocument
<1>3. RequestsOK' /\ RoomOK'
  BY <1>2, QuietStep, ReturnKeepsRoom
<1>4. OthersOK'
  BY <1>1, <1>2, QuietStep DEF ArchiveDocument, TypeInv, OthersOK, VerificationRow
<1>5. QED
  BY <1>2, <1>3, <1>4, QuietStep DEF TypeInv

LEMMA RequestLostKeepsTypes ==
    ASSUME TypeInv, NEW q \in Request, RequestLost(q) PROVE TypeInv'
<1>1. UNCHANGED <<rem, scan, told>> /\ Return(q)
  BY DEF RequestLost
<1>2. RequestsOK' /\ RoomOK'
  BY <1>1, QuietStep, ReturnKeepsRoom
<1>3. OthersOK'
  BY <1>1, QuietStep, SameOthers, CallsOK DEF RequestLost, TypeInv, OthersOK
<1>4. QED
  BY <1>1, <1>2, <1>3, QuietStep DEF TypeInv

LEMMA AskProviderKeepsTypes ==
    ASSUME TypeInv, NEW q \in Request, AskProvider(q) PROVE TypeInv'
<1>1. PICK status \in {"ok", "not_found", "error"}, dates \in [Type -> DueDays \cup {None}] :
        Step(q, [req[q] EXCEPT !.pc = "store", !.data = [status |-> status, dates |-> dates]])
  BY DEF AskProvider
<1>2. PICK c : c = [req[q] EXCEPT !.pc = "store", !.data = [status |-> status, dates |-> dates]]
  OBVIOUS
<1>3. dates \in [Type -> Days]
  BY GivenNumbers DEF Days
<1>4. req[q].pc = "provider"
  BY DEF AskProvider, At
<1>5. c \in RequestState /\ c.pc = "store" /\ c.id = req[q].id
  BY <1>2, <1>3, AtHand, SMT, ZenonT(40) DEF RequestState
<1>6. CallOK(c) /\ \A t \in Type : Wants(c, t) => Wants(req[q], t)
  BY <1>4, <1>5 DEF CallOK, Wants
<1>7. UNCHANGED <<rem, scan, told>> /\ Step(q, c)
  BY <1>1, <1>2 DEF AskProvider
<1>8. RequestsOK' /\ RoomOK'
  BY <1>5, <1>6, <1>7, QuietStep, HandlerStepKeepsRoom
<1>9. OthersOK'
  BY <1>7, QuietStep, SameOthers DEF AskProvider, TypeInv, OthersOK
<1>10. QED
  BY <1>7, <1>8, <1>9, QuietStep DEF TypeInv

LEMMA StoreVerificationKeepsTypes ==
    ASSUME TypeInv, NEW q \in Request, StoreVerification(q) PROVE TypeInv'
<1>1. UNCHANGED <<rem, scan, told>> /\ req[q].pc = "store"
  BY DEF StoreVerification, At
<1>2. RequestsOK' /\ RoomOK'
  <2>1. CASE Return(q)
    BY <1>1, <2>1, QuietStep, ReturnKeepsRoom
  <2>2. CASE Step(q, [req[q] EXCEPT !.pc = "applyFind",
                        !.left = {t \in Type : req[q].data.dates[t] # None}])
    <3>1. PICK c : c = [req[q] EXCEPT !.pc = "applyFind",
                          !.left = {t \in Type : req[q].data.dates[t] # None}]
      OBVIOUS
    <3>2. c \in RequestState /\ c.pc = "applyFind" /\ c.id = req[q].id
      BY <3>1, AtHand, SMT, ZenonT(40) DEF RequestState
    <3>3. CallOK(c) /\ \A t \in Type : Wants(c, t) => Wants(req[q], t)
      BY <1>1, <3>2 DEF CallOK, Wants
    <3>4. Step(q, c)
      BY <2>2, <3>1
    <3>5. QED
      BY <1>1, <3>2, <3>3, <3>4, QuietStep, HandlerStepKeepsRoom
  <2>3. QED
    BY <2>1, <2>2 DEF StoreVerification
<1>3. verif' \in VerificationRow
  BY AtHand DEF StoreVerification, VerificationRow
<1>4. OthersOK'
  BY <1>1, <1>3, QuietStep DEF StoreVerification, TypeInv, OthersOK
<1>5. QED
  BY <1>1, <1>2, <1>4, QuietStep DEF TypeInv

LEMMA ApplyFindKeepsTypes ==
    ASSUME TypeInv, NEW q \in Request, ApplyFind(q) PROVE TypeInv'
<1>1. UNCHANGED <<rem, scan, told>> /\ req[q].pc = "applyFind"
  BY DEF ApplyFind, At
<1>2. RequestsOK' /\ RoomOK'
  <2>1. CASE Return(q)
    BY <1>1, <2>1, QuietStep, ReturnKeepsRoom
  <2>2. ASSUME NEW t \in req[q].left, NEW r \in DOMAIN rem \cup {None},
               Step(q, [req[q] EXCEPT !.pc = "applyWrite", !.type = t, !.id = r])
        PROVE  RequestsOK' /\ RoomOK'
    <3>1. PICK c : c = [req[q] EXCEPT !.pc = "applyWrite", !.type = t, !.id = r]
      OBVIOUS
    <3>2. t \in Type /\ r \in ReminderId \cup {None}
      BY AtHand DEF TypeInv, RowsOK
    <3>3. /\ c \in RequestState /\ c.pc = "applyWrite" /\ c.id = r
          /\ c.type = t /\ c.left = req[q].left
      BY <3>1, <3>2, AtHand, SMT, ZenonT(40) DEF RequestState
    <3>4. CallOK(c) /\ \A u \in Type : Wants(c, u) => Wants(req[q], u)
      BY <1>1, <3>2, <3>3 DEF CallOK, Wants
    <3>5. Step(q, c)
      BY <2>2, <3>1
    <3>6. QED
      BY <1>1, <3>3, <3>4, <3>5, QuietStep, HandlerStepKeepsRoom
  <2>3. QED
    BY <2>1, <2>2 DEF ApplyFind
<1>3. OthersOK'
  BY <1>1, QuietStep, SameOthers DEF ApplyFind, TypeInv, OthersOK
<1>4. QED
  BY <1>1, <1>2, <1>3, QuietStep DEF TypeInv

LEMMA ComplianceRowOK ==
    ASSUME NEW t \in Type, NEW d \in Days, NEW source \in {"document", "verification"}
    PROVE  ComplianceRow(t, d, source) \in Row
BY RemindersAssumption DEF ComplianceRow, Row, Ago

\* The step of a handler that creates the reminder it has wanted.
LEMMA HandlerCreates ==
    ASSUME TypeInv, NEW q \in Request, NEW c \in RequestState, CallOK(c), Step(q, c),
           NEW row \in Row, rem' = With(NewId, row), scan'.todo = scan.todo,
           c.id = None, NEW t \in Type, Wants(req[q], t),
           \A u \in Type : Wants(c, u) => Wants(req[q], u) /\ u # t
    PROVE  NewId \in ReminderId /\ RowsOK' /\ RequestsOK' /\ RoomOK'
<1>1. <<q, t>> \in Reserved /\ Reserved' \subseteq Reserved \ {<<q, t>>}
  BY ReservedDone DEF TypeInv, RequestsOK
<1>2. NewId \in ReminderId
  BY <1>1, Creates DEF TypeInv
<1>3. RowsOK' /\ DOMAIN rem' = DOMAIN rem \cup {NewId}
  BY <1>2, RowSet DEF TypeInv
<1>4. FreshIds \ {NewId} \subseteq FreshIds'
  <2>1. \A p \in Request : req'[p].id = req[p].id \/ req'[p].id \in DOMAIN rem \cup {None}
    BY StepEffect DEF TypeInv, RequestsOK
  <2>2. QED
    BY <1>3, <2>1, FreshStays
<1>5. RoomOK'
  BY <1>1, <1>4, Creates DEF TypeInv
<1>6. RequestsOK'
  BY RequestsStep DEF TypeInv
<1>7. QED
  BY <1>2, <1>3, <1>5, <1>6

LEMMA NoneIsNoRow == ASSUME RowsOK PROVE None \notin DOMAIN rem
BY IdSets DEF RowsOK

LEMMA WantedId ==
    ASSUME TypeInv, NEW q \in Request, NEW t \in Type, Wants(req[q], t)
    PROVE  NewId \in FreshIds /\ NewId \in ReminderId
<1>1. <<q, t>> \in Reserved
  BY DEF Reserved, MayCreate, Wants
<1>2. QED
  BY <1>1, Creates DEF TypeInv

\* A record is lost.
LEMMA LostOK ==
    ASSUME told \in [ReminderId -> News], NEW r \in ReminderId
    PROVE  /\ [told EXCEPT ![r].lost = TRUE] \in [ReminderId -> News]
           /\ [told EXCEPT ![r].lost = TRUE][r].lost
           /\ [told EXCEPT ![r].lost = TRUE][r].stage = told[r].stage
           /\ [told EXCEPT ![r].lost = TRUE][r].ago = told[r].ago
           /\ \A s \in ReminderId \ {r} : [told EXCEPT ![r].lost = TRUE][s] = told[s]
BY DEF News

LEMMA SetFromDocumentKeepsTypes ==
    ASSUME TypeInv, NEW q \in Request, SetFromDocument(q) PROVE TypeInv'
<1>1. PICK c : c = [req[q] EXCEPT !.pc = "upsert", !.id = None]
  OBVIOUS
<1>2. req[q].pc = "write" /\ req[q].type \in Type
  BY AtHand DEF SetFromDocument, At, CallOK
<1>3. /\ c \in RequestState /\ c.pc = "upsert" /\ c.id = None /\ c.type = req[q].type
  BY <1>1, AtHand, SMT, ZenonT(40) DEF RequestState
<1>4. CallOK(c) /\ \A t \in Type : ~Wants(c, t)
  BY <1>2, <1>3 DEF CallOK, Wants
<1>5. Step(q, c) /\ UNCHANGED <<verif, papers, odometer, calls>>
  BY <1>1 DEF SetFromDocument
<1>6. RowsOK' /\ ScanOK' /\ told' \in [ReminderId -> News] /\ RequestsOK' /\ RoomOK'
  <2>1. CASE req[q].id = None
    <3>1. /\ rem' = With(NewId, ComplianceRow(req[q].type, req[q].days, "document"))
          /\ told' = Renewed(NewId) /\ NewsOver(NewId)
      BY <2>1, NoneIsNoRow DEF SetFromDocument, TypeInv
    <3>2. Wants(req[q], req[q].type)
      BY <1>2 DEF Wants
    <3>3. ComplianceRow(req[q].type, req[q].days, "document") \in Row
      BY <1>2, AtHand, ComplianceRowOK
    <3>4. NewId \in ReminderId
      BY <1>2, <3>2, WantedId
    <3>5. /\ ScanOK' /\ told' \in [ReminderId -> News] /\ scan'.todo = scan.todo
      BY <3>1, <3>4, RenewEffect DEF TypeInv, OthersOK
    <3>6. \A u \in Type : Wants(c, u) => Wants(req[q], u) /\ u # req[q].type
      BY <1>4
    <3>7. RowsOK' /\ RequestsOK' /\ RoomOK'
      BY <1>2, <1>3, <1>4, <1>5, <3>1, <3>2, <3>3, <3>5, <3>6, HandlerCreates
    <3>8. QED
      BY <3>5, <3>7
  <2>2. CASE req[q].id # None /\ req[q].id \in DOMAIN rem
    <3>1. PICK r : r = req[q].id
      OBVIOUS
    <3>2. /\ rem' = [rem EXCEPT ![r] = Reset([rem[r] EXCEPT
                        !.days = req[q].days, !.active = TRUE, !.source = "document"])]
          /\ told' = Renewed(r) /\ NewsOver(r)
      BY <2>2, <3>1 DEF SetFromDocument
    <3>3. rem[r] \in Row /\ r \in DOMAIN rem /\ r \in ReminderId
      BY <2>2, <3>1 DEF TypeInv, RowsOK
    <3>4. Reset([rem[r] EXCEPT
              !.days = req[q].days, !.active = TRUE, !.source = "document"]) \in Row
      <4>1. [rem[r] EXCEPT !.days = req[q].days, !.active = TRUE, !.source = "document"] \in Row
        BY <3>3, AtHand DEF Row
      <4>2. QED
        BY <4>1, ResetOK
    <3>5. RowsOK' /\ DOMAIN rem' = DOMAIN rem
      BY <3>2, <3>3, <3>4, RowExcept DEF TypeInv
    <3>6. /\ ScanOK' /\ told' \in [ReminderId -> News] /\ scan'.todo = scan.todo
      BY <3>2, <3>3, RenewEffect DEF TypeInv, OthersOK
    <3>7. RequestsOK' /\ RoomOK'
      BY <1>3, <1>4, <1>5, <3>5, <3>6, HandlerStepKeepsRoom
    <3>8. QED
      BY <3>5, <3>6, <3>7
  <2>3. CASE req[q].id # None /\ req[q].id \notin DOMAIN rem
    <3>1. UNCHANGED <<rem, scan, told>>
      BY <2>3 DEF SetFromDocument
    <3>2. RequestsOK' /\ RoomOK'
      BY <1>3, <1>4, <1>5, <3>1, QuietStep, HandlerStepKeepsRoom
    <3>3. QED
      BY <3>1, <3>2, QuietStep
  <2>4. QED
    BY <2>1, <2>2, <2>3
<1>7. OthersOK'
  BY <1>5, <1>6, SameOthers DEF TypeInv, OthersOK
<1>8. QED
  BY <1>6, <1>7 DEF TypeInv

LEMMA ApplyWriteKeepsTypes ==
    ASSUME TypeInv, NEW q \in Request, ApplyWrite(q) PROVE TypeInv'
<1>1. PICK c : c = [req[q] EXCEPT !.pc = "applyFind", !.id = None, !.type = None,
                                  !.left = @ \ {req[q].type}]
  OBVIOUS
<1>2. req[q].pc = "applyWrite" /\ req[q].type \in Type /\ req[q].type \in req[q].left
  BY AtHand DEF ApplyWrite, At, CallOK
<1>3. /\ c \in RequestState /\ c.pc = "applyFind" /\ c.id = None
      /\ c.left = req[q].left \ {req[q].type}
  BY <1>1, AtHand, SMT, ZenonT(40) DEF RequestState
<1>4. CallOK(c) /\ \A t \in Type : Wants(c, t) => Wants(req[q], t) /\ t # req[q].type
  BY <1>2, <1>3 DEF CallOK, Wants
<1>5. Step(q, c) /\ UNCHANGED <<verif, papers, odometer, calls>>
  BY <1>1 DEF ApplyWrite
<1>6. PICK due \in Days : due = req[q].data.dates[req[q].type]
  BY <1>2, AtHand
<1>7. RowsOK' /\ ScanOK' /\ told' \in [ReminderId -> News] /\ RequestsOK' /\ RoomOK'
  <2>1. CASE req[q].id = None
    <3>1. /\ rem' = With(NewId, ComplianceRow(req[q].type, due, "verification"))
          /\ told' = Renewed(NewId) /\ NewsOver(NewId)
      BY <1>6, <2>1, NoneIsNoRow DEF ApplyWrite, TypeInv
    <3>2. Wants(req[q], req[q].type)
      BY <1>2 DEF Wants
    <3>3. ComplianceRow(req[q].type, due, "verification") \in Row
      BY <1>2, ComplianceRowOK
    <3>4. NewId \in ReminderId
      BY <1>2, <3>2, WantedId
    <3>5. /\ ScanOK' /\ told' \in [ReminderId -> News] /\ scan'.todo = scan.todo
      BY <3>1, <3>4, RenewEffect DEF TypeInv, OthersOK
    <3>6. RowsOK' /\ RequestsOK' /\ RoomOK'
      BY <1>2, <1>3, <1>4, <1>5, <3>1, <3>2, <3>3, <3>5, HandlerCreates
    <3>7. QED
      BY <3>5, <3>6
  <2>2. CASE req[q].id # None /\ req[q].id \in DOMAIN rem
    <3>1. PICK r : r = req[q].id
      OBVIOUS
    <3>2. /\ rem' = [rem EXCEPT ![r] = Reset([rem[r] EXCEPT !.days = due, !.active = TRUE])]
          /\ \/ told' = [told EXCEPT ![r].lost = TRUE] /\ UNCHANGED scan
             \/ told' = Renewed(r) /\ NewsOver(r)
      BY <1>6, <2>2, <3>1 DEF ApplyWrite
    <3>3. rem[r] \in Row /\ r \in DOMAIN rem /\ r \in ReminderId
      BY <2>2, <3>1 DEF TypeInv, RowsOK
    <3>4. Reset([rem[r] EXCEPT !.days = due, !.active = TRUE]) \in Row
      <4>1. [rem[r] EXCEPT !.days = due, !.active = TRUE] \in Row
        BY <3>3 DEF Row
      <4>2. QED
        BY <4>1, ResetOK
    <3>5. RowsOK' /\ DOMAIN rem' = DOMAIN rem
      BY <3>2, <3>3, <3>4, RowExcept DEF TypeInv
    <3>6. /\ ScanOK' /\ told' \in [ReminderId -> News] /\ scan'.todo = scan.todo
      <4>1. CASE told' = [told EXCEPT ![r].lost = TRUE] /\ UNCHANGED scan
        <5>1. told' \in [ReminderId -> News]
          BY <3>3, <4>1, LostOK DEF TypeInv, OthersOK
        <5>2. QED
          BY <4>1, <5>1, SameScan DEF TypeInv
      <4>2. CASE told' = Renewed(r) /\ NewsOver(r)
        BY <3>3, <4>2, RenewEffect DEF TypeInv, OthersOK
      <4>3. QED
        BY <3>2, <4>1, <4>2
    <3>7. RequestsOK' /\ RoomOK'
      BY <1>3, <1>4, <1>5, <3>5, <3>6, HandlerStepKeepsRoom
    <3>8. QED
      BY <3>5, <3>6, <3>7
  <2>3. CASE req[q].id # None /\ req[q].id \notin DOMAIN rem
    <3>1. UNCHANGED <<rem, scan, told>>
      BY <2>3 DEF ApplyWrite
    <3>2. RequestsOK' /\ RoomOK'
      BY <1>3, <1>4, <1>5, <3>1, QuietStep, HandlerStepKeepsRoom
    <3>3. QED
      BY <3>1, <3>2, QuietStep
  <2>4. QED
    BY <2>1, <2>2, <2>3
<1>8. OthersOK'
  BY <1>5, <1>7, SameOthers DEF TypeInv, OthersOK
<1>9. QED
  BY <1>7, <1>8 DEF TypeInv

\* What the scan has found to announce.
LEMMA BeginScanEffect ==
    ASSUME TypeInv, BeginScan
    PROVE  /\ ScanOK' /\ scan'.pc # "record" /\ scan'.changed = {}
           /\ \A n \in scan'.todo :
                /\ n[1] \in DOMAIN rem /\ n[2] = Status(rem[n[1]]) /\ MustNotify(rem[n[1]])
<1> DEFINE todo == {<<r, Status(rem[r])>> : r \in {s \in DOMAIN rem : MustNotify(rem[s])}}
<1>1. \A n \in todo : /\ n[1] \in DOMAIN rem /\ n[2] = Status(rem[n[1]])
                      /\ MustNotify(rem[n[1]]) /\ n = <<n[1], n[2]>>
  OBVIOUS
<1>2. \A r \in DOMAIN rem : MustNotify(rem[r]) => Status(rem[r]) \in Stage
  BY DEF MustNotify, Status, Stage
<1>3. todo \subseteq ReminderId \X Stage
  <2>1. \A r \in DOMAIN rem : r \in ReminderId
    BY DEF TypeInv, RowsOK
  <2>2. ASSUME NEW n \in todo PROVE n \in ReminderId \X Stage
    <3>1. n[1] \in ReminderId /\ n[2] \in Stage /\ n = <<n[1], n[2]>>
      BY <1>1, <1>2, <2>1
    <3>2. QED
      BY <3>1
  <2>3. QED
    BY <2>2
<1>4. scan' = IF todo = {} THEN Quiet
              ELSE [pc |-> "notify", todo |-> todo, now |-> None, changed |-> {}]
  BY DEF BeginScan
<1> HIDE DEF todo
<1>5. scan' \in ScanState /\ scan'.todo = todo /\ scan'.changed = {}
      /\ (scan'.pc = "notify" \/ (scan'.pc = "idle" /\ todo = {}))
  <2>1. CASE todo = {}
    BY <1>4, <2>1 DEF ScanState, Quiet
  <2>2. CASE todo # {}
    <3>1. scan' = [pc |-> "notify", todo |-> todo, now |-> None, changed |-> {}]
      BY <1>4, <2>2
    <3>2. todo \in SUBSET (ReminderId \X Stage) /\ {} \in SUBSET ReminderId
      BY <1>3
    <3>3. QED
      BY <3>1, <3>2 DEF ScanState
  <2>3. QED
    BY <2>1, <2>2
<1>6. ScanOK'
  BY <1>5 DEF ScanOK, Scanning
<1>7. QED
  BY <1>1, <1>5, <1>6

LEMMA BeginScanKeepsTypes == ASSUME TypeInv, BeginScan PROVE TypeInv'
<1>1. UNCHANGED <<rem, verif, papers, odometer, req, calls, told>>
  BY DEF BeginScan
<1>2. RowsOK' /\ OthersOK'
  BY <1>1, SameRows, SameOthers DEF TypeInv, OthersOK
<1>3. RequestsOK' /\ RoomOK'
  BY <1>1, BeginScanEffect, KeepsRoom
<1>4. QED
  BY <1>2, <1>3, BeginScanEffect DEF TypeInv

LEMMA NextReminderEffect ==
    ASSUME ScanOK, Scanning, NEW S \in SUBSET scan.todo, NextReminder(S)
    PROVE  /\ ScanOK' /\ scan'.pc # "record" /\ scan'.todo = S
           /\ scan'.changed \subseteq scan.changed
           /\ S # {} => scan'.changed = scan.changed
<1>1. CASE S = {}
  BY <1>1 DEF NextReminder, Quiet, ScanOK, ScanState, Scanning
<1>2. CASE S # {}
  <2>1. scan' = [scan EXCEPT !.pc = "notify", !.todo = S, !.now = None]
    BY <1>2 DEF NextReminder
  <2>2. /\ scan' \in ScanState /\ scan'.pc = "notify" /\ scan'.todo = S
        /\ scan'.changed = scan.changed
    BY <2>1 DEF ScanOK, ScanState
  <2>3. QED
    BY <2>2 DEF ScanOK, Scanning
<1>3. QED
  BY <1>1, <1>2

LEMMA TellsOK ==
    ASSUME told \in [ReminderId -> News], NEW r \in ReminderId, NEW s \in Stage,
           NEW lost \in BOOLEAN, Tells(r, s, lost)
    PROVE  /\ told' \in [ReminderId -> News]
           /\ \A p \in ReminderId \ {r} : told'[p] = told[p]
           /\ r \in scan.changed \/ r \notin DOMAIN rem => told' = told
           /\ r \notin scan.changed /\ r \in DOMAIN rem =>
                told'[r] = [stage |-> s, ago |-> 0, lost |-> lost]
<1>1. [stage |-> s, ago |-> 0, lost |-> lost] \in News
  BY RemindersAssumption DEF News, Ago
<1>2. QED
  BY <1>1 DEF Tells

LEMMA NotifyKeepsTypes ==
    ASSUME TypeInv, NEW r \in ReminderId, NEW s \in Stage, Notify(r, s) PROVE TypeInv'
<1>1. UNCHANGED <<rem, verif, papers, odometer, req, calls>>
  BY DEF Notify
<1>2. told' \in [ReminderId -> News]
  BY TellsOK DEF Notify, TypeInv, OthersOK
<1>3. ScanOK' /\ scan'.todo = scan.todo
  <2>1. scan' = [scan EXCEPT !.pc = "record", !.now = <<r, s>>] /\ scan \in ScanState
    BY DEF Notify, TypeInv, ScanOK
  <2>2. /\ scan' \in ScanState /\ scan'.pc = "record" /\ scan'.now = <<r, s>>
        /\ scan'.todo = scan.todo
    BY <2>1 DEF ScanState
  <2>3. QED
    BY <2>2 DEF ScanOK, Scanning
<1>4. RowsOK' /\ OthersOK' /\ RequestsOK' /\ RoomOK'
  BY <1>1, <1>2, <1>3, SameRows, SameOthers, KeepsRoom DEF TypeInv, OthersOK
<1>5. QED
  BY <1>3, <1>4 DEF TypeInv

LEMMA NotifyFailsKeepsTypes ==
    ASSUME TypeInv, NEW r \in ReminderId, NEW s \in Stage, NotifyFails(r, s) PROVE TypeInv'
<1>1. UNCHANGED <<rem, verif, papers, odometer, req>> /\ Failure("db")
  BY DEF NotifyFails
<1>2. told' \in [ReminderId -> News]
  <2>1. CASE Tells(r, s, TRUE)
    BY <2>1, TellsOK DEF TypeInv, OthersOK
  <2>2. CASE UNCHANGED told
    BY <2>2 DEF TypeInv, OthersOK
  <2>3. QED
    BY <2>1, <2>2 DEF NotifyFails
<1>3. Scanning /\ NextReminder(scan.todo \ {<<r, s>>})
  BY DEF NotifyFails, Scanning
<1>4. ScanOK' /\ scan'.todo \subseteq scan.todo
  BY <1>3, NextReminderEffect DEF TypeInv
<1>5. RowsOK' /\ OthersOK' /\ RequestsOK' /\ RoomOK'
  BY <1>1, <1>2, <1>4, SameRows, SameOthers, CallsOK, KeepsRoom DEF TypeInv, OthersOK
<1>6. QED
  BY <1>4, <1>5 DEF TypeInv

\* What Record writes, if the reminder is still there.
LEMMA RecordEffect ==
    ASSUME RowsOK, ScanOK, Record
    PROVE  /\ RowsOK' /\ DOMAIN rem' = DOMAIN rem
           /\ scan.now \in ReminderId \X Stage
           /\ \A r \in DOMAIN rem : r # scan.now[1] => rem'[r] = rem[r]
           /\ \A r \in DOMAIN rem : rem'[r].source = rem[r].source
           /\ scan.now[1] \in DOMAIN rem =>
                rem'[scan.now[1]].stage = scan.now[2] /\ rem'[scan.now[1]].ago = 0
<1>1. scan.now \in ReminderId \X Stage
  BY DEF Record, ScanOK
<1>2. PICK r \in ReminderId, s \in Stage : r = scan.now[1] /\ s = scan.now[2]
  BY <1>1
<1>3. rem' = IF r \in DOMAIN rem
             THEN [rem EXCEPT ![r].stage = s, ![r].ago = 0] ELSE rem
  BY <1>2 DEF Record
<1>4. CASE r \notin DOMAIN rem
  BY <1>1, <1>2, <1>3, <1>4, SameRows
<1>5. CASE r \in DOMAIN rem
  <2>1. PICK row : row = [rem[r] EXCEPT !.stage = s, !.ago = 0]
    OBVIOUS
  <2>2. row \in Row /\ row.stage = s /\ row.ago = 0 /\ row.source = rem[r].source
    <3>1. rem[r] \in Row
      BY <1>5 DEF RowsOK
    <3>2. 0 \in Ago /\ s \in Stage \cup {None}
      BY RemindersAssumption DEF Ago
    <3>3. QED
      BY <2>1, <3>1, <3>2 DEF Row
  <2>3. rem' = [rem EXCEPT ![r] = row]
    BY <1>3, <1>5, <2>1
  <2>4. QED
    BY <1>1, <1>2, <1>5, <2>2, <2>3, RowExcept
<1>6. QED
  BY <1>4, <1>5

LEMMA RecordKeepsTypes == ASSUME TypeInv, Record PROVE TypeInv'
<1>1. UNCHANGED <<verif, papers, odometer, req, calls, told>> /\ Scanning
      /\ NextReminder(scan.todo \ {scan.now})
  BY DEF Record, Scanning
<1>2. RowsOK' /\ DOMAIN rem' = DOMAIN rem
  BY RecordEffect DEF TypeInv
<1>3. ScanOK' /\ scan'.todo \subseteq scan.todo
  BY <1>1, NextReminderEffect DEF TypeInv
<1>4. OthersOK' /\ RequestsOK' /\ RoomOK'
  BY <1>1, <1>2, <1>3, SameOthers, KeepsRoom DEF TypeInv, OthersOK
<1>5. QED
  BY <1>2, <1>3, <1>4 DEF TypeInv

LEMMA RecordFailsKeepsTypes == ASSUME TypeInv, RecordFails PROVE TypeInv'
<1>1. UNCHANGED <<rem, verif, papers, odometer, req>> /\ Scanning /\ Failure("db")
      /\ NextReminder(scan.todo \ {scan.now})
  BY DEF RecordFails, Scanning
<1>2. scan.now[1] \in ReminderId
  BY DEF RecordFails, TypeInv, ScanOK
<1>3. told' \in [ReminderId -> News]
  BY <1>2, LostOK DEF RecordFails, RecordLost, TypeInv, OthersOK
<1>4. ScanOK' /\ scan'.todo \subseteq scan.todo
  BY <1>1, NextReminderEffect DEF TypeInv
<1>5. RowsOK' /\ OthersOK' /\ RequestsOK' /\ RoomOK'
  BY <1>1, <1>3, <1>4, SameRows, SameOthers, CallsOK, KeepsRoom DEF TypeInv, OthersOK
<1>6. QED
  BY <1>4, <1>5 DEF TypeInv

LEMMA ScanLostKeepsTypes == ASSUME TypeInv, ScanLost PROVE TypeInv'
<1>1. UNCHANGED <<rem, verif, papers, odometer, req>> /\ Failure("crash")
  BY DEF ScanLost
<1>2. ScanOK' /\ scan'.todo = {}
  BY DEF ScanLost, Quiet, ScanOK, ScanState, Scanning
<1>3. told' \in [ReminderId -> News]
  <2>1. CASE scan.pc = "record"
    <3>1. scan.now[1] \in ReminderId
      BY <2>1 DEF TypeInv, ScanOK
    <3>2. QED
      BY <2>1, <3>1, LostOK DEF ScanLost, RecordLost, TypeInv, OthersOK
  <2>2. CASE scan.pc # "record"
    BY <2>2 DEF ScanLost, TypeInv, OthersOK
  <2>3. QED
    BY <2>1, <2>2
<1>4. RowsOK' /\ OthersOK' /\ RequestsOK' /\ RoomOK'
  BY <1>1, <1>2, <1>3, SameRows, SameOthers, CallsOK, KeepsRoom DEF TypeInv, OthersOK
<1>5. QED
  BY <1>2, <1>4 DEF TypeInv

LEMMA DayOlder ==
    /\ \A d \in Days : Sooner(d) \in Days
    /\ \A a \in Ago : Older(a) \in Ago
<1>1. ASSUME NEW d \in Days PROVE Sooner(d) \in Days
  <2>1. CASE d = None
    BY <2>1 DEF Sooner, Days
  <2>2. CASE d # None
    <3>1. d - 1 \in Int
      BY <2>2, RemindersAssumption DEF Days
    <3>2. QED
      BY <2>2, <3>1, Clipped DEF Sooner, Days
  <2>3. QED
    BY <2>1, <2>2
<1>2. ASSUME NEW a \in Ago PROVE Older(a) \in Ago
  BY RemindersAssumption DEF Older, Ago
<1>3. QED
  BY <1>1, <1>2

\* What a day changes.
LEMMA NextDayEffect ==
    ASSUME TypeInv, NextDay
    PROVE  /\ RowsOK' /\ DOMAIN rem' = DOMAIN rem
           /\ \A r \in DOMAIN rem : /\ rem'[r].stage = rem[r].stage
                                    /\ rem'[r].ago = Older(rem[r].ago)
                                    /\ rem'[r].source = rem[r].source
           /\ told' \in [ReminderId -> News]
           /\ \A r \in ReminderId : /\ told'[r].stage = told[r].stage
                                    /\ told'[r].ago = Older(told[r].ago)
                                    /\ told'[r].lost = told[r].lost
           /\ ScanOK' /\ scan'.todo = {} /\ scan'.changed = {} /\ scan'.pc = "due"
<1>1. rem' = [r \in DOMAIN rem |-> [rem[r] EXCEPT !.days = Sooner(@), !.ago = Older(@)]]
  BY DEF NextDay
<1>2. ASSUME NEW r \in DOMAIN rem
      PROVE  /\ rem'[r] \in Row /\ rem'[r].stage = rem[r].stage
             /\ rem'[r].ago = Older(rem[r].ago) /\ rem'[r].source = rem[r].source
  <2>1. rem'[r] = [rem[r] EXCEPT !.days = Sooner(rem[r].days), !.ago = Older(rem[r].ago)]
    BY <1>1
  <2>2. rem[r] \in Row
    BY DEF TypeInv, RowsOK
  <2>3. Sooner(rem[r].days) \in Days /\ Older(rem[r].ago) \in Ago
    BY <2>2, DayOlder DEF Row
  <2>4. QED
    BY <2>1, <2>2, <2>3 DEF Row
<1>3. RowsOK' /\ DOMAIN rem' = DOMAIN rem
  BY <1>1, <1>2 DEF RowsOK, TypeInv
<1>4. told' = [r \in ReminderId |-> [told[r] EXCEPT !.ago = Older(told[r].ago)]]
  BY DEF NextDay
<1>5. ASSUME NEW r \in ReminderId
      PROVE  /\ told'[r] \in News /\ told'[r].stage = told[r].stage
             /\ told'[r].ago = Older(told[r].ago) /\ told'[r].lost = told[r].lost
  <2>1. told'[r] = [told[r] EXCEPT !.ago = Older(told[r].ago)]
    BY <1>4
  <2>2. told[r] \in News
    BY DEF TypeInv, OthersOK
  <2>3. QED
    BY <2>1, <2>2, DayOlder DEF News
<1>6. told' \in [ReminderId -> News]
  BY <1>4, <1>5
<1>7. scan.todo = {} /\ scan.changed = {} /\ scan' = [scan EXCEPT !.pc = "due"]
  BY DEF NextDay, TypeInv, ScanOK, Scanning
<1>8. ScanOK' /\ scan'.todo = {} /\ scan'.changed = {} /\ scan'.pc = "due"
  BY <1>7 DEF ScanOK, ScanState, Scanning, TypeInv
<1>9. QED
  BY <1>2, <1>3, <1>5, <1>6, <1>8

LEMMA NextDayKeepsTypes == ASSUME TypeInv, NextDay PROVE TypeInv'
<1>1. UNCHANGED <<papers, odometer, req, calls>>
      /\ verif' = [verif EXCEPT !.dates = [t \in Type |-> Sooner(verif.dates[t])]]
  BY DEF NextDay
<1>2. verif' \in VerificationRow
  <2>1. \A t \in Type : verif.dates[t] \in Days
    BY DEF TypeInv, OthersOK, VerificationRow
  <2>2. [t \in Type |-> Sooner(verif.dates[t])] \in [Type -> Days]
    BY <2>1, DayOlder
  <2>3. QED
    BY <1>1, <2>2 DEF TypeInv, OthersOK, VerificationRow
<1>3. OthersOK'
  BY <1>1, <1>2, NextDayEffect DEF TypeInv, OthersOK
<1>4. RequestsOK' /\ RoomOK'
  BY <1>1, NextDayEffect, KeepsRoom
<1>5. QED
  BY <1>3, <1>4, NextDayEffect DEF TypeInv

LEMMA HandlerKeepsTypes ==
    ASSUME TypeInv, NEW q \in Request, HandlerNext(q) PROVE TypeInv'
BY BeginCompleteKeepsTypes, BeginConfirmKeepsTypes, BeginVerifyKeepsTypes, RequestLostKeepsTypes,
   CompleteKeepsTypes, FindForDocumentKeepsTypes, SetFromDocumentKeepsTypes,
   UpsertFieldKeepsTypes, ArchiveDocumentKeepsTypes, AskProviderKeepsTypes,
   StoreVerificationKeepsTypes, ApplyFindKeepsTypes, ApplyWriteKeepsTypes
   DEF HandlerNext, HandlerStep

LEMMA ScanKeepsTypes == ASSUME TypeInv, ScanNext PROVE TypeInv'
BY BeginScanKeepsTypes, NotifyKeepsTypes, NotifyFailsKeepsTypes, RecordKeepsTypes,
   RecordFailsKeepsTypes, ScanLostKeepsTypes DEF ScanNext, ScanStep

LEMMA StutterKeepsTypes == ASSUME TypeInv, UNCHANGED vars PROVE TypeInv'
<1>1. RowsOK' /\ ScanOK' /\ OthersOK' /\ RequestsOK' /\ RoomOK'
  BY SameRows, SameScan, SameOthers, KeepsRoom DEF vars, TypeInv, OthersOK
<1>2. QED
  BY <1>1 DEF TypeInv

LEMMA TypeInvStep == ASSUME TypeInv, [Next]_vars PROVE TypeInv'
<1>1. CASE UserNext
  BY <1>1, CreateKeepsTypes, UpdateKeepsTypes, RemoveKeepsTypes, DriveKeepsTypes DEF UserNext
<1>2. QED
  BY <1>1, HandlerKeepsTypes, ScanKeepsTypes, NextDayKeepsTypes, StutterKeepsTypes DEF Next

\* Nothing the handlers and the scan store is of another kind than the code says.
THEOREM RemindersTyped == Spec => []TypeInv
BY TypeInvInit, TypeInvStep, PTL DEF Spec

-----------------------------------------------------------------------------
(* What may be told, step by step *)

LEMMA TellInvInit == ASSUME Init PROVE TellInv
<1>1. rem = [r \in {} |-> None] /\ scan.todo = {} /\ scan.changed = {}
  BY DEF Init, Quiet
<1>2. DOMAIN rem = {}
  BY <1>1
<1>3. QED
  BY <1>1, <1>2 DEF TellInv, InStep, ToRecord, NothingToldOfChanged, TodoIsDue

\* What is told of a reminder is one of the two stages or nothing.
LEMMA StagesDiffer == None \notin Stage
BY RemindersAssumption DEF Stage

\* The scan and what it has told stay, and so does what is recorded.
LEMMA SameTell ==
    ASSUME TellInv, UNCHANGED <<told, scan>>, DOMAIN rem' \subseteq DOMAIN rem,
           \A s \in DOMAIN rem' : rem'[s].stage = rem[s].stage /\ rem'[s].ago = rem[s].ago
    PROVE  TellInv'
<1>1. InStep' /\ ToRecord'
  BY DEF TellInv, InStep, ToRecord, Recording
<1>2. NothingToldOfChanged' /\ TodoIsDue'
  BY DEF TellInv, NothingToldOfChanged, TodoIsDue, MayTell
<1>3. QED
  BY <1>1, <1>2 DEF TellInv

\* What was told of r no longer counts.
LEMMA RenewStep ==
    ASSUME TypeInv, TellInv, NEW r \in ReminderId, told' = Renewed(r), NewsOver(r), RowsOK',
           DOMAIN rem' \subseteq DOMAIN rem \cup {r},
           \A s \in DOMAIN rem' \ {r} : rem'[s] = rem[s]
    PROVE  TellInv'
<1>1. /\ told'[r].stage = None /\ \A s \in ReminderId \ {r} : told'[s] = told[s]
      /\ scan'.pc = scan.pc /\ scan'.todo = scan.todo /\ scan'.now = scan.now
      /\ scan'.changed = IF Scanning THEN scan.changed \cup {r} ELSE scan.changed
  <2>1. NoNews.stage = None
    BY DEF NoNews
  <2>2. QED
    BY <2>1, RenewEffect DEF TypeInv, OthersOK
<1>2. DOMAIN rem' \subseteq ReminderId
  BY DEF RowsOK
<1>3. InStep'
  BY <1>1, <1>2 DEF TellInv, InStep, Recording
<1>4. ToRecord'
  <2>1. SUFFICES ASSUME NEW s \in DOMAIN rem' \ scan'.changed, Recording(s)'
                 PROVE  told'[s].stage = scan'.now[2] /\ told'[s].ago = 0
    BY DEF ToRecord
  <2>2. scan.pc = "record" /\ Scanning
    BY <1>1, <2>1 DEF Recording, Scanning
  <2>3. s # r /\ s \notin scan.changed /\ s \in DOMAIN rem /\ s \in ReminderId
    BY <1>1, <1>2, <2>2
  <2>4. Recording(s)
    BY <1>1, <2>1 DEF Recording
  <2>5. QED
    BY <1>1, <2>3, <2>4 DEF TellInv, ToRecord
<1>5. NothingToldOfChanged'
  BY <1>1 DEF TellInv, NothingToldOfChanged, TypeInv, ScanOK, ScanState
<1>6. TodoIsDue'
  <2>1. SUFFICES ASSUME NEW n \in scan'.todo, ~(scan'.pc = "record" /\ n = scan'.now)
                 PROVE  MayTell(n[1], n[2])'
    BY DEF TodoIsDue
  <2>2. n \in scan.todo /\ MayTell(n[1], n[2]) /\ n[1] \in ReminderId /\ n[2] \in Stage
    BY <1>1, <2>1 DEF TellInv, TodoIsDue, TypeInv, ScanOK, ScanState
  <2>3. CASE n[1] = r
    BY <1>1, <2>2, <2>3, StagesDiffer DEF MayTell
  <2>4. CASE n[1] # r
    BY <1>1, <2>2, <2>4 DEF MayTell
  <2>5. QED
    BY <2>3, <2>4
<1>7. QED
  BY <1>3, <1>4, <1>5, <1>6 DEF TellInv

\* A record of what was told of r is lost.
LEMMA LostStep ==
    ASSUME TypeInv, TellInv, NEW r \in ReminderId, told' = [told EXCEPT ![r].lost = TRUE],
           UNCHANGED scan, DOMAIN rem' \subseteq DOMAIN rem,
           \A s \in DOMAIN rem' \ {r} : rem'[s] = rem[s]
    PROVE  TellInv'
<1>1. /\ told'[r].lost /\ told'[r].stage = told[r].stage /\ told'[r].ago = told[r].ago
      /\ \A s \in ReminderId \ {r} : told'[s] = told[s]
  BY LostOK DEF TypeInv, OthersOK
<1>2. DOMAIN rem \subseteq ReminderId /\ scan.changed \subseteq ReminderId
  BY DEF TypeInv, RowsOK, ScanOK, ScanState
<1>3. InStep'
  BY <1>1, <1>2 DEF TellInv, InStep, Recording
<1>4. ToRecord' /\ NothingToldOfChanged'
  BY <1>1, <1>2 DEF TellInv, ToRecord, NothingToldOfChanged, Recording
<1>5. TodoIsDue'
  <2>1. SUFFICES ASSUME NEW n \in scan.todo, ~(scan.pc = "record" /\ n = scan.now)
                 PROVE  MayTell(n[1], n[2])'
    BY DEF TodoIsDue
  <2>2. MayTell(n[1], n[2]) /\ n[1] \in ReminderId
    BY <2>1 DEF TellInv, TodoIsDue, TypeInv, ScanOK, ScanState
  <2>3. QED
    BY <1>1, <2>2 DEF MayTell
<1>6. QED
  BY <1>3, <1>4, <1>5 DEF TellInv

LEMMA CreateTells == ASSUME TypeInv, TellInv, Create PROVE TellInv'
<1>1. NewId \in ReminderId /\ told' = Renewed(NewId) /\ NewsOver(NewId) /\ RowsOK'
  BY CreatesAtOnce, CreateKeepsTypes DEF Create, TypeInv
<1>2. /\ DOMAIN rem' \subseteq DOMAIN rem \cup {NewId}
      /\ \A s \in DOMAIN rem' \ {NewId} : rem'[s] = rem[s]
  BY DEF Create, With
<1>3. QED
  BY <1>1, <1>2, RenewStep

LEMMA UpdateTells ==
    ASSUME TypeInv, TellInv, NEW r \in ReminderId, Update(r) PROVE TellInv'
<1>1. RowsOK' /\ r \in DOMAIN rem /\ rem[r] \in Row
  <2>1. RowsOK'
    BY UpdateKeepsTypes DEF TypeInv
  <2>2. r \in DOMAIN rem
    BY DEF Update
  <2>3. QED
    BY <2>1, <2>2 DEF TypeInv, RowsOK
<1>2. \/ /\ \E row : rem' = [rem EXCEPT ![r] = row]
         /\ told' = Renewed(r) /\ NewsOver(r)
      \/ /\ \E t, k, i, ik : rem' = [rem EXCEPT ![r] = [rem[r] EXCEPT
                                    !.type = t, !.kind = k, !.every = i, !.everyKm = ik]]
         /\ UNCHANGED <<told, scan>>
  <2>1. PICK t \in Type, k \in Kinds \cup {rem[r].kind}, i \in Intervals \cup {None, rem[r].every},
             ik \in Intervals \cup {None, rem[r].everyKm} :
          LET row == [rem[r] EXCEPT !.type = t, !.kind = k, !.every = i, !.everyKm = ik] IN
          \/ /\ \E d \in DueDays \cup {None, row.days}, km \in DueKms \cup {None, row.km},
                   a \in BOOLEAN :
                   rem' = [rem EXCEPT ![r] = Reset([row EXCEPT
                               !.days = d, !.km = km, !.active = a])]
             /\ told' = Renewed(r) /\ NewsOver(r)
          \/ /\ rem' = [rem EXCEPT ![r] = row]
             /\ UNCHANGED <<told, scan>>
    BY DEF Update
  <2> DEFINE row == [rem[r] EXCEPT !.type = t, !.kind = k, !.every = i, !.everyKm = ik]
  <2>2. CASE /\ \E d \in DueDays \cup {None, row.days}, km \in DueKms \cup {None, row.km},
                  a \in BOOLEAN :
                  rem' = [rem EXCEPT ![r] = Reset([row EXCEPT
                              !.days = d, !.km = km, !.active = a])]
             /\ told' = Renewed(r) /\ NewsOver(r)
    BY <2>2, Zenon
  <2>3. CASE rem' = [rem EXCEPT ![r] = row] /\ UNCHANGED <<told, scan>>
    BY <2>3, Zenon
  <2>4. QED
    BY <2>1, <2>2, <2>3
<1>3. CASE told' = Renewed(r) /\ NewsOver(r) /\ \E row : rem' = [rem EXCEPT ![r] = row]
  BY <1>1, <1>3, RenewStep
<1>4. ASSUME NEW t, NEW k, NEW i, NEW ik, UNCHANGED <<told, scan>>,
             rem' = [rem EXCEPT ![r] = [rem[r] EXCEPT
                       !.type = t, !.kind = k, !.every = i, !.everyKm = ik]]
      PROVE  TellInv'
  <2>1. PICK row : row = [rem[r] EXCEPT !.type = t, !.kind = k, !.every = i, !.everyKm = ik]
    OBVIOUS
  <2>2. row.stage = rem[r].stage /\ row.ago = rem[r].ago
    BY <1>1, <2>1 DEF Row
  <2>3. rem' = [rem EXCEPT ![r] = row]
    BY <1>4, <2>1
  <2>4. /\ DOMAIN rem' = DOMAIN rem
        /\ \A s \in DOMAIN rem' : rem'[s].stage = rem[s].stage /\ rem'[s].ago = rem[s].ago
    BY <1>1, <2>2, <2>3
  <2>5. QED
    BY <1>4, <2>4, SameTell
<1>5. QED
  BY <1>2, <1>3, <1>4

LEMMA RemoveTells ==
    ASSUME TypeInv, TellInv, NEW r \in ReminderId, Remove(r) PROVE TellInv'
<1>1. RowsOK' /\ told' = Renewed(r) /\ NewsOver(r)
  BY RemoveKeepsTypes DEF Remove, TypeInv
<1>2. DOMAIN rem' \subseteq DOMAIN rem \cup {r} /\ \A s \in DOMAIN rem' \ {r} : rem'[s] = rem[s]
  BY DEF Remove, Without
<1>3. QED
  BY <1>1, <1>2, RenewStep

LEMMA CompleteTells ==
    ASSUME TypeInv, TellInv, NEW q \in Request, Complete(q) PROVE TellInv'
<1>1. PICK r \in ReminderId : r = req[q].id
  BY AtHand DEF Complete, CallOK, At
<1>2. RowsOK'
  BY CompleteKeepsTypes DEF TypeInv
<1>3. CASE r \in DOMAIN rem
  <2>1. told' = Renewed(r) /\ NewsOver(r) /\ \E row : rem' = [rem EXCEPT ![r] = row]
    BY <1>1, <1>3 DEF Complete
  <2>2. QED
    BY <1>2, <2>1, RenewStep
<1>4. CASE r \notin DOMAIN rem
  <2>1. UNCHANGED <<rem, told, scan>>
    BY <1>1, <1>4 DEF Complete
  <2>2. QED
    BY <2>1, SameTell
<1>5. QED
  BY <1>3, <1>4

LEMMA SetFromDocumentTells ==
    ASSUME TypeInv, TellInv, NEW q \in Request, SetFromDocument(q) PROVE TellInv'
<1>1. RowsOK'
  BY SetFromDocumentKeepsTypes DEF TypeInv
<1>2. CASE req[q].id = None
  <2>1. PICK row : rem' = With(NewId, row) /\ told' = Renewed(NewId) /\ NewsOver(NewId)
    BY <1>2, NoneIsNoRow DEF SetFromDocument, TypeInv
  <2>2. NewId \in ReminderId
    <3>1. req[q].type \in Type /\ Wants(req[q], req[q].type)
      BY AtHand DEF SetFromDocument, At, CallOK, Wants
    <3>2. QED
      BY <3>1, WantedId
  <2>3. /\ DOMAIN rem' \subseteq DOMAIN rem \cup {NewId}
        /\ \A s \in DOMAIN rem' \ {NewId} : rem'[s] = rem[s]
    BY <2>1 DEF With
  <2>4. QED
    BY <1>1, <2>1, <2>2, <2>3, RenewStep
<1>3. CASE req[q].id \in DOMAIN rem
  <2>1. PICK r \in ReminderId : r = req[q].id
    BY <1>3 DEF TypeInv, RowsOK
  <2>2. r # None
    BY IdSets
  <2>3. told' = Renewed(r) /\ NewsOver(r) /\ \E row : rem' = [rem EXCEPT ![r] = row]
    BY <1>3, <2>1, <2>2 DEF SetFromDocument
  <2>4. QED
    BY <1>1, <2>1, <2>3, RenewStep
<1>4. CASE req[q].id # None /\ req[q].id \notin DOMAIN rem
  <2>1. UNCHANGED <<rem, told, scan>>
    BY <1>4 DEF SetFromDocument
  <2>2. QED
    BY <2>1, SameTell
<1>5. QED
  BY <1>2, <1>3, <1>4

LEMMA ApplyWriteTells ==
    ASSUME TypeInv, TellInv, NEW q \in Request, ApplyWrite(q) PROVE TellInv'
<1>1. RowsOK'
  BY ApplyWriteKeepsTypes DEF TypeInv
<1>2. CASE req[q].id = None
  <2>1. PICK row : rem' = With(NewId, row) /\ told' = Renewed(NewId) /\ NewsOver(NewId)
    BY <1>2, NoneIsNoRow DEF ApplyWrite, TypeInv
  <2>2. NewId \in ReminderId
    <3>1. req[q].type \in Type /\ Wants(req[q], req[q].type)
      BY AtHand DEF ApplyWrite, At, CallOK, Wants
    <3>2. QED
      BY <3>1, WantedId
  <2>3. /\ DOMAIN rem' \subseteq DOMAIN rem \cup {NewId}
        /\ \A s \in DOMAIN rem' \ {NewId} : rem'[s] = rem[s]
    BY <2>1 DEF With
  <2>4. QED
    BY <1>1, <2>1, <2>2, <2>3, RenewStep
<1>3. CASE req[q].id \in DOMAIN rem
  <2>1. PICK r \in ReminderId : r = req[q].id
    BY <1>3 DEF TypeInv, RowsOK
  <2>2. r # None
    BY IdSets
  <2>3. PICK row : rem' = [rem EXCEPT ![r] = row]
    BY <1>3, <2>1, <2>2 DEF ApplyWrite
  <2>4. \/ told' = [told EXCEPT ![r].lost = TRUE] /\ UNCHANGED scan
        \/ told' = Renewed(r) /\ NewsOver(r)
    BY <1>3, <2>1, <2>2 DEF ApplyWrite
  <2>5. DOMAIN rem' = DOMAIN rem /\ \A s \in DOMAIN rem' \ {r} : rem'[s] = rem[s]
    BY <2>3
  <2>6. QED
    BY <1>1, <2>1, <2>4, <2>5, RenewStep, LostStep
<1>4. CASE req[q].id # None /\ req[q].id \notin DOMAIN rem
  <2>1. UNCHANGED <<rem, told, scan>>
    BY <1>4 DEF ApplyWrite
  <2>2. QED
    BY <2>1, SameTell
<1>5. QED
  BY <1>2, <1>3, <1>4

\* The scan announces what the rows say: of a reminder that is in step with what
\* has been told this is what may be told.
LEMMA BeginScanTells == ASSUME TypeInv, TellInv, BeginScan PROVE TellInv'
<1>1. UNCHANGED <<rem, told>> /\ scan.pc = "due"
  BY DEF BeginScan
<1>2. /\ scan'.pc # "record" /\ scan'.changed = {} /\ ScanOK'
      /\ \A n \in scan'.todo :
           /\ n[1] \in DOMAIN rem /\ n[2] = Status(rem[n[1]]) /\ MustNotify(rem[n[1]])
  BY BeginScanEffect
<1>3. InStep' /\ ToRecord' /\ NothingToldOfChanged'
  BY <1>1, <1>2 DEF TellInv, InStep, ToRecord, NothingToldOfChanged, Recording
<1>4. TodoIsDue'
  <2>1. SUFFICES ASSUME NEW n \in scan'.todo PROVE MayTell(n[1], n[2])'
    BY DEF TodoIsDue
  <2>2. PICK r, s : r = n[1] /\ s = n[2]
    OBVIOUS
  <2>3. r \in DOMAIN rem /\ s = Status(rem[r]) /\ MustNotify(rem[r]) /\ s \in Stage
    BY <1>2, <2>2 DEF ScanOK, ScanState
  <2>4. CASE told[r].stage = None \/ told[r].lost
    BY <1>1, <2>2, <2>3, <2>4, StagesDiffer DEF MayTell
  <2>5. CASE ~(told[r].stage = None \/ told[r].lost)
    <3>1. rem[r].stage = told[r].stage /\ rem[r].ago = told[r].ago
      BY <1>1, <2>3, <2>5 DEF TellInv, InStep, Recording
    <3>2. rem[r].stage # s \/ (s = "overdue" /\ rem[r].ago >= Renotify)
      BY <2>3 DEF MustNotify
    <3>3. QED
      BY <1>1, <2>2, <3>1, <3>2 DEF MayTell
  <2>6. QED
    BY <2>4, <2>5
<1>5. QED
  BY <1>3, <1>4 DEF TellInv

LEMMA NotifyTells ==
    ASSUME TypeInv, TellInv, NEW r \in ReminderId, NEW s \in Stage, Notify(r, s) PROVE TellInv'
<1>1. /\ rem' = rem /\ scan.pc = "notify" /\ Tells(r, s, FALSE)
      /\ scan' = [scan EXCEPT !.pc = "record", !.now = <<r, s>>] /\ scan \in ScanState
  BY DEF Notify, TypeInv, ScanOK
<1>2. /\ scan'.pc = "record" /\ scan'.now = <<r, s>>
      /\ scan'.todo = scan.todo /\ scan'.changed = scan.changed
  BY <1>1 DEF ScanState
<1>3. /\ \A p \in ReminderId \ {r} : told'[p] = told[p]
      /\ r \in scan.changed \/ r \notin DOMAIN rem => told' = told
      /\ r \notin scan.changed /\ r \in DOMAIN rem =>
           told'[r] = [stage |-> s, ago |-> 0, lost |-> FALSE]
  BY <1>1, TellsOK DEF TypeInv, OthersOK
<1>4. DOMAIN rem \subseteq ReminderId /\ scan.changed \subseteq ReminderId
  BY DEF TypeInv, RowsOK, ScanOK, ScanState
<1>5. InStep'
  <2>1. SUFFICES ASSUME NEW p \in DOMAIN rem, told'[p].stage # None /\ ~told'[p].lost,
                        ~Recording(p)'
                 PROVE  rem[p].stage = told'[p].stage /\ rem[p].ago = told'[p].ago
    BY <1>1 DEF InStep
  <2>2. p # r
    BY <1>2, <2>1 DEF Recording
  <2>3. told'[p] = told[p] /\ ~Recording(p)
    BY <1>1, <1>3, <1>4, <2>2 DEF Recording
  <2>4. QED
    BY <2>1, <2>3 DEF TellInv, InStep
<1>6. ToRecord'
  BY <1>1, <1>2, <1>3, <1>4 DEF ToRecord, Recording
<1>7. NothingToldOfChanged'
  BY <1>2, <1>3, <1>4 DEF TellInv, NothingToldOfChanged
<1>8. TodoIsDue'
  <2>1. SUFFICES ASSUME NEW n \in scan.todo, n # <<r, s>> PROVE MayTell(n[1], n[2])'
    BY <1>2 DEF TodoIsDue
  <2>2. MayTell(n[1], n[2]) /\ n[1] \in ReminderId /\ n = <<n[1], n[2]>>
    BY <1>1, <2>1 DEF TellInv, TodoIsDue, ScanState
  <2>3. CASE n[1] # r \/ r \in scan.changed \/ r \notin DOMAIN rem
    <3>1. told'[n[1]] = told[n[1]]
      BY <1>3, <2>2, <2>3
    <3>2. QED
      BY <2>2, <3>1 DEF MayTell
  <2>4. CASE n[1] = r /\ r \notin scan.changed /\ r \in DOMAIN rem
    <3>1. told'[n[1]].stage = s /\ n[2] # s
      BY <1>3, <2>1, <2>2, <2>4
    <3>2. QED
      BY <3>1 DEF MayTell
  <2>5. QED
    BY <2>3, <2>4
<1>9. QED
  BY <1>5, <1>6, <1>7, <1>8 DEF TellInv

\* The scan goes on without a record: of what it told, the record is lost.
LEMMA GoesOnWithoutRecord ==
    ASSUME TypeInv, TellInv, UNCHANGED rem, NEW r \in ReminderId,
           \A p \in ReminderId \ {r} : told'[p] = told[p] /\ ~Recording(p),
           \/ told'[r] = told[r] /\ ~Recording(r)
           \/ told'[r].lost /\ (told'[r].stage = None => told[r].stage = None)
                            /\ (r \in scan.changed => told'[r].stage = told[r].stage),
           scan'.pc # "record", scan'.changed \subseteq scan.changed,
           scan'.todo \subseteq scan.todo, scan.pc = "record" => scan.now \notin scan'.todo
    PROVE  TellInv'
<1>1. DOMAIN rem \subseteq ReminderId /\ scan.changed \subseteq ReminderId
  BY DEF TypeInv, RowsOK, ScanOK, ScanState
<1>2. InStep'
  BY <1>1 DEF TellInv, InStep
<1>3. ToRecord'
  BY DEF ToRecord, Recording
<1>4. NothingToldOfChanged'
  BY <1>1 DEF TellInv, NothingToldOfChanged
<1>5. TodoIsDue'
  <2>1. SUFFICES ASSUME NEW n \in scan'.todo PROVE MayTell(n[1], n[2])'
    BY DEF TodoIsDue
  <2>2. MayTell(n[1], n[2]) /\ n[1] \in ReminderId
    BY <2>1 DEF TellInv, TodoIsDue, TypeInv, ScanOK, ScanState
  <2>3. CASE told'[n[1]] = told[n[1]]
    BY <2>2, <2>3 DEF MayTell
  <2>4. CASE told'[n[1]].lost
    BY <2>4 DEF MayTell
  <2>5. QED
    BY <2>2, <2>3, <2>4
<1>6. QED
  BY <1>2, <1>3, <1>4, <1>5 DEF TellInv

LEMMA NotifyFailsTells ==
    ASSUME TypeInv, TellInv, NEW r \in ReminderId, NEW s \in Stage, NotifyFails(r, s)
    PROVE  TellInv'
<1>1. rem' = rem /\ scan.pc = "notify" /\ Scanning /\ NextReminder(scan.todo \ {<<r, s>>})
  BY DEF NotifyFails, Scanning
<1>2. /\ scan'.pc # "record" /\ scan'.changed \subseteq scan.changed
      /\ scan'.todo \subseteq scan.todo
  BY <1>1, NextReminderEffect DEF TypeInv
<1>3. \A p \in ReminderId : ~Recording(p)
  BY <1>1 DEF Recording
<1>4. /\ \A p \in ReminderId \ {r} : told'[p] = told[p]
      /\ \/ told'[r] = told[r]
         \/ told'[r].lost /\ told'[r].stage # None /\ r \notin scan.changed
  <2>1. CASE Tells(r, s, TRUE)
    <3>1. /\ \A p \in ReminderId \ {r} : told'[p] = told[p]
          /\ r \in scan.changed \/ r \notin DOMAIN rem => told' = told
          /\ r \notin scan.changed /\ r \in DOMAIN rem =>
               told'[r] = [stage |-> s, ago |-> 0, lost |-> TRUE]
      BY <2>1, TellsOK DEF TypeInv, OthersOK
    <3>2. s # None
      BY StagesDiffer
    <3>3. QED
      BY <3>1, <3>2
  <2>2. CASE UNCHANGED told
    BY <2>2
  <2>3. QED
    BY <2>1, <2>2 DEF NotifyFails
<1>5. QED
  BY <1>1, <1>2, <1>3, <1>4, GoesOnWithoutRecord

LEMMA RecordTells == ASSUME TypeInv, TellInv, Record PROVE TellInv'
<1>1. told' = told /\ scan.pc = "record" /\ Scanning /\ NextReminder(scan.todo \ {scan.now})
  BY DEF Record, Scanning
<1>2. /\ scan'.pc # "record" /\ scan'.changed \subseteq scan.changed
      /\ scan'.todo = scan.todo \ {scan.now}
  BY <1>1, NextReminderEffect DEF TypeInv
<1>3. PICK r, s : r = scan.now[1] /\ s = scan.now[2]
  OBVIOUS
<1>4. /\ DOMAIN rem' = DOMAIN rem /\ \A p \in DOMAIN rem : p # r => rem'[p] = rem[p]
      /\ r \in DOMAIN rem => rem'[r].stage = s /\ rem'[r].ago = 0
  BY <1>3, RecordEffect DEF TypeInv
<1>5. InStep'
  <2>1. SUFFICES ASSUME NEW p \in DOMAIN rem, told[p].stage # None /\ ~told[p].lost
                 PROVE  rem'[p].stage = told[p].stage /\ rem'[p].ago = told[p].ago
    BY <1>1, <1>4 DEF InStep
  <2>2. CASE p # r
    BY <1>3, <1>4, <2>1, <2>2 DEF TellInv, InStep, Recording
  <2>3. CASE p = r
    <3>1. p \notin scan.changed
      BY <2>1 DEF TellInv, NothingToldOfChanged
    <3>2. told[p].stage = s /\ told[p].ago = 0
      BY <1>1, <1>3, <2>3, <3>1 DEF TellInv, ToRecord, Recording
    <3>3. QED
      BY <1>4, <2>3, <3>2
  <2>4. QED
    BY <2>2, <2>3
<1>6. ToRecord' /\ NothingToldOfChanged'
  BY <1>1, <1>2 DEF TellInv, ToRecord, NothingToldOfChanged, Recording
<1>7. TodoIsDue'
  BY <1>1, <1>2 DEF TellInv, TodoIsDue, MayTell
<1>8. QED
  BY <1>5, <1>6, <1>7 DEF TellInv

LEMMA RecordFailsTells == ASSUME TypeInv, TellInv, RecordFails PROVE TellInv'
<1>1. /\ rem' = rem /\ scan.pc = "record" /\ Scanning /\ NextReminder(scan.todo \ {scan.now})
      /\ told' = RecordLost
  BY DEF RecordFails, Scanning
<1>2. /\ scan'.pc # "record" /\ scan'.changed \subseteq scan.changed
      /\ scan'.todo = scan.todo \ {scan.now}
  BY <1>1, NextReminderEffect DEF TypeInv
<1>3. PICK r \in ReminderId : r = scan.now[1]
  BY <1>1 DEF TypeInv, ScanOK
<1>4. /\ told'[r].lost /\ told'[r].stage = told[r].stage
      /\ \A p \in ReminderId \ {r} : told'[p] = told[p]
  BY <1>1, <1>3, LostOK DEF RecordLost, TypeInv, OthersOK
<1>5. \A p \in ReminderId \ {r} : ~Recording(p)
  BY <1>3 DEF Recording
<1>6. QED
  BY <1>1, <1>2, <1>4, <1>5, GoesOnWithoutRecord

LEMMA ScanLostTells == ASSUME TypeInv, TellInv, ScanLost PROVE TellInv'
<1>1. rem' = rem /\ scan'.pc # "record" /\ scan'.changed = {} /\ scan'.todo = {}
  BY DEF ScanLost, Quiet
<1>2. CASE scan.pc = "record"
  <2>1. PICK r \in ReminderId : r = scan.now[1]
    BY <1>2 DEF TypeInv, ScanOK
  <2>2. told' = RecordLost
    BY <1>2 DEF ScanLost
  <2>3. /\ told'[r].lost /\ told'[r].stage = told[r].stage
        /\ \A p \in ReminderId \ {r} : told'[p] = told[p]
    BY <2>1, <2>2, LostOK DEF RecordLost, TypeInv, OthersOK
  <2>4. \A p \in ReminderId \ {r} : ~Recording(p)
    BY <2>1 DEF Recording
  <2>5. QED
    BY <1>1, <2>3, <2>4, GoesOnWithoutRecord
<1>3. CASE scan.pc # "record"
  <2>1. told' = told
    BY <1>3 DEF ScanLost
  <2>2. InStep' /\ ToRecord' /\ NothingToldOfChanged' /\ TodoIsDue'
    BY <1>1, <1>3, <2>1
       DEF TellInv, InStep, ToRecord, NothingToldOfChanged, TodoIsDue, Recording
  <2>3. QED
    BY <2>2 DEF TellInv
<1>4. QED
  BY <1>2, <1>3

LEMMA NextDayTells == ASSUME TypeInv, TellInv, NextDay PROVE TellInv'
<1>1. /\ DOMAIN rem' = DOMAIN rem /\ DOMAIN rem \subseteq ReminderId
      /\ \A r \in DOMAIN rem : /\ rem'[r].stage = rem[r].stage
                               /\ rem'[r].ago = Older(rem[r].ago)
      /\ \A r \in ReminderId : /\ told'[r].stage = told[r].stage
                               /\ told'[r].ago = Older(told[r].ago)
                               /\ told'[r].lost = told[r].lost
      /\ scan'.todo = {} /\ scan'.changed = {} /\ scan'.pc = "due"
  BY NextDayEffect DEF TypeInv, RowsOK
<1>2. \A r : ~Recording(r)
  BY DEF NextDay, Recording
<1>3. InStep'
  BY <1>1, <1>2 DEF TellInv, InStep
<1>4. ToRecord' /\ NothingToldOfChanged' /\ TodoIsDue'
  BY <1>1 DEF ToRecord, NothingToldOfChanged, TodoIsDue, Recording
<1>5. QED
  BY <1>3, <1>4 DEF TellInv

\* All but two of the steps of a handler leave the reminders and the scan alone.
LEMMA HandlerSteps ==
    ASSUME NEW q \in Request, HandlerNext(q)
    PROVE  \/ Complete(q) \/ SetFromDocument(q) \/ ApplyWrite(q) \/ UNCHANGED <<rem, scan, told>>
BY DEF HandlerNext, HandlerStep, BeginComplete, BeginConfirm, BeginVerify, RequestLost,
       FindForDocument, UpsertField, ArchiveDocument, AskProvider, StoreVerification, ApplyFind

LEMMA TellInvStep == ASSUME TypeInv, TellInv, [Next]_vars PROVE TellInv'
<1>1. CASE UNCHANGED <<rem, scan, told>>
  BY <1>1, SameTell
<1>2. CASE UserNext
  <2>1. CASE Drive
    <3>1. UNCHANGED <<rem, scan, told>>
      BY <2>1 DEF Drive
    <3>2. QED
      BY <1>1, <3>1
  <2>2. QED
    BY <1>2, <2>1, CreateTells, UpdateTells, RemoveTells DEF UserNext
<1>3. ASSUME NEW q \in Request, HandlerNext(q) PROVE TellInv'
  BY <1>1, <1>3, HandlerSteps, CompleteTells, SetFromDocumentTells, ApplyWriteTells
<1>4. CASE ScanNext
  BY <1>4, BeginScanTells, NotifyTells, NotifyFailsTells, RecordTells, RecordFailsTells,
     ScanLostTells DEF ScanNext, ScanStep
<1>5. CASE UNCHANGED vars
  BY <1>1, <1>5 DEF vars
<1>6. QED
  BY <1>2, <1>3, <1>4, <1>5, NextDayTells DEF Next

-----------------------------------------------------------------------------
(* What a verification has found *)

LEMMA FoundOwnInit == ASSUME Init PROVE FoundOwn
BY DEF Init, FoundOwn, At, IdleRequest

\* The rows stay the user's or not, new ones have ids that nobody has in hand,
\* and no handler comes to hold an id as applyWrite.
LEMMA FoundOwnKept ==
    ASSUME FoundOwn,
           \A q \in Request : At(q, "applyWrite")' => req'[q] = req[q],
           \A r \in DOMAIN rem' :
              \/ r \in DOMAIN rem /\ (rem'[r].source = "manual" => rem[r].source = "manual")
              \/ \A q \in Request : req[q].id # r
    PROVE  FoundOwn'
<1> SUFFICES ASSUME NEW q \in Request, At(q, "applyWrite")', req'[q].id # None,
                    req'[q].id \in DOMAIN rem'
             PROVE  rem'[req'[q].id].source # "manual"
  BY DEF FoundOwn
<1>1. req'[q] = req[q] /\ At(q, "applyWrite")
  BY DEF At
<1>2. PICK r \in DOMAIN rem' : r = req[q].id
  BY <1>1
<1>3. r \in DOMAIN rem /\ (rem'[r].source = "manual" => rem[r].source = "manual")
  BY <1>2
<1>4. rem[r].source # "manual"
  BY <1>1, <1>2, <1>3 DEF FoundOwn
<1>5. QED
  BY <1>1, <1>2, <1>3, <1>4

\* A handler that steps to c is not at applyWrite then, and the others stay.
LEMMA NotFound ==
    ASSUME req \in [Request -> RequestState], NEW q \in Request, NEW c, Step(q, c),
           c.pc # "applyWrite"
    PROVE  \A p \in Request : At(p, "applyWrite")' => req'[p] = req[p]
BY StepEffect DEF At

LEMMA RowReplaced ==
    ASSUME RowsOK, NEW r \in DOMAIN rem, NEW row, rem' = [rem EXCEPT ![r] = row],
           row.source = "manual" => rem[r].source = "manual"
    PROVE  \A s \in DOMAIN rem' :
             s \in DOMAIN rem /\ (rem'[s].source = "manual" => rem[s].source = "manual")
BY DEF RowsOK

LEMMA ResetSource == ASSUME NEW row \in Row PROVE Reset(row).source = row.source
BY DEF Reset, Row

LEMMA CreateKeepsFound == ASSUME TypeInv, FoundOwn, Create PROVE FoundOwn'
<1>1. NewId \in FreshIds
  BY CreatesAtOnce DEF Create
<1>2. \A q \in Request : req[q].id # NewId
  BY <1>1 DEF FreshIds
<1>3. PICK row : rem' = With(NewId, row)
  BY Zenon DEF Create
<1>4. DOMAIN rem' = DOMAIN rem \cup {NewId} /\ \A r \in DOMAIN rem \ {NewId} : rem'[r] = rem[r]
  BY <1>3 DEF With
<1>5. req' = req
  BY DEF Create
<1>6. QED
  BY <1>2, <1>4, <1>5, FoundOwnKept

LEMMA UpdateKeepsFound ==
    ASSUME TypeInv, FoundOwn, NEW r \in ReminderId, Update(r) PROVE FoundOwn'
<1>1. r \in DOMAIN rem /\ rem[r] \in Row /\ req' = req
  <2>1. r \in DOMAIN rem /\ req' = req
    BY DEF Update
  <2>2. QED
    BY <2>1 DEF TypeInv, RowsOK
<1>2. PICK t \in Type, k \in Kinds \cup {rem[r].kind}, i \in Intervals \cup {None, rem[r].every},
           ik \in Intervals \cup {None, rem[r].everyKm} :
        LET row == [rem[r] EXCEPT !.type = t, !.kind = k, !.every = i, !.everyKm = ik] IN
        \/ /\ \E d \in DueDays \cup {None, row.days}, km \in DueKms \cup {None, row.km},
                 a \in BOOLEAN :
                 rem' = [rem EXCEPT ![r] = Reset([row EXCEPT
                             !.days = d, !.km = km, !.active = a])]
           /\ told' = Renewed(r) /\ NewsOver(r)
        \/ /\ rem' = [rem EXCEPT ![r] = row]
           /\ UNCHANGED <<told, scan>>
  BY DEF Update
<1> DEFINE row == [rem[r] EXCEPT !.type = t, !.kind = k, !.every = i, !.everyKm = ik]
<1>3. row \in Row /\ row.source = rem[r].source
  BY <1>1, RemindersAssumption, SMT, ZenonT(40) DEF Row
<1>4. \/ \E d \in DueDays \cup {None, row.days}, km \in DueKms \cup {None, row.km}, a \in BOOLEAN :
           rem' = [rem EXCEPT ![r] = Reset([row EXCEPT !.days = d, !.km = km, !.active = a])]
      \/ rem' = [rem EXCEPT ![r] = row]
  BY <1>2, Zenon
<1> HIDE DEF row
<1>5. \E new : rem' = [rem EXCEPT ![r] = new] /\ new.source = rem[r].source
  <2>1. CASE rem' = [rem EXCEPT ![r] = row]
    BY <1>3, <2>1
  <2>2. CASE \E d \in DueDays \cup {None, row.days}, km \in DueKms \cup {None, row.km}, a \in BOOLEAN :
             rem' = [rem EXCEPT ![r] = Reset([row EXCEPT !.days = d, !.km = km, !.active = a])]
    <3>1. PICK d \in DueDays \cup {None, row.days}, km \in DueKms \cup {None, row.km}, a \in BOOLEAN :
            rem' = [rem EXCEPT ![r] = Reset([row EXCEPT !.days = d, !.km = km, !.active = a])]
      BY <2>2, Zenon
    <3>2. PICK new : new = Reset([row EXCEPT !.days = d, !.km = km, !.active = a])
      OBVIOUS
    <3>3. new.source = rem[r].source
      BY <1>3, <3>2 DEF Reset, Row
    <3>4. rem' = [rem EXCEPT ![r] = new]
      BY <3>1, <3>2
    <3>5. QED
      BY <3>3, <3>4
  <2>3. QED
    BY <1>4, <2>1, <2>2
<1>6. \A s \in DOMAIN rem' :
        s \in DOMAIN rem /\ (rem'[s].source = "manual" => rem[s].source = "manual")
  BY <1>1, <1>5, RowReplaced DEF TypeInv
<1>7. QED
  BY <1>1, <1>6, FoundOwnKept

LEMMA CompleteKeepsFound ==
    ASSUME TypeInv, FoundOwn, NEW q \in Request, Complete(q) PROVE FoundOwn'
<1>1. \A p \in Request : At(p, "applyWrite")' => req'[p] = req[p]
  BY IdleCall, ReturnIsStep, NotFound DEF Complete, TypeInv, RequestsOK
<1>2. PICK r : r = req[q].id
  OBVIOUS
<1>3. CASE r \in DOMAIN rem
  <2>1. rem[r] \in Row
    BY <1>3 DEF TypeInv, RowsOK
  <2>2. \E days, km, on : rem' = [rem EXCEPT ![r] = Reset([rem[r] EXCEPT
                                     !.days = days, !.km = km, !.active = on])]
    <3>1. PICK doneAt \in {-1, 0}, doneKm \in {0, req[q].odo} :
            rem' = [rem EXCEPT ![r] = Reset([rem[r] EXCEPT
                    !.days = IF req[q].every = None THEN @ ELSE Clip(doneAt + req[q].every),
                    !.km = IF req[q].everyKm = None \/ doneKm = None THEN @
                           ELSE doneKm + req[q].everyKm,
                    !.active = req[q].every # None \/ req[q].everyKm # None])]
      BY <1>2, <1>3 DEF Complete
    <3>2. PICK days : days = IF req[q].every = None THEN rem[r].days
                             ELSE Clip(doneAt + req[q].every)
      OBVIOUS
    <3>3. PICK km : km = IF req[q].everyKm = None \/ doneKm = None THEN rem[r].km
                         ELSE doneKm + req[q].everyKm
      OBVIOUS
    <3>4. PICK on : on = (req[q].every # None \/ req[q].everyKm # None)
      OBVIOUS
    <3>5. rem' = [rem EXCEPT ![r] = Reset([rem[r] EXCEPT
                    !.days = days, !.km = km, !.active = on])]
      BY <3>1, <3>2, <3>3, <3>4
    <3>6. QED
      BY <3>5
  <2>3. PICK days, km, on : rem' = [rem EXCEPT ![r] = Reset([rem[r] EXCEPT
                                       !.days = days, !.km = km, !.active = on])]
    BY <2>2, Zenon
  <2>4. Reset([rem[r] EXCEPT !.days = days, !.km = km, !.active = on]).source = rem[r].source
    BY <2>1 DEF Reset, Row
  <2>5. QED
    BY <1>1, <1>3, <2>3, <2>4, RowReplaced, FoundOwnKept DEF TypeInv
<1>4. CASE r \notin DOMAIN rem
  <2>1. rem' = rem
    BY <1>2, <1>4 DEF Complete
  <2>2. QED
    BY <1>1, <2>1, FoundOwnKept
<1>5. QED
  BY <1>3, <1>4

LEMMA SetFromDocumentKeepsFound ==
    ASSUME TypeInv, FoundOwn, NEW q \in Request, SetFromDocument(q) PROVE FoundOwn'
<1>1. \A p \in Request : At(p, "applyWrite")' => req'[p] = req[p]
  <2>1. PICK c : c = [req[q] EXCEPT !.pc = "upsert", !.id = None]
    OBVIOUS
  <2>2. c.pc = "upsert" /\ Step(q, c)
    BY <2>1, AtHand DEF SetFromDocument, RequestState
  <2>3. QED
    BY <2>2, NotFound DEF TypeInv, RequestsOK
<1>2. CASE req[q].id = None
  <2>1. rem' = With(NewId, ComplianceRow(req[q].type, req[q].days, "document"))
    BY <1>2, NoneIsNoRow DEF SetFromDocument, TypeInv
  <2>2. /\ DOMAIN rem' = DOMAIN rem \cup {NewId}
        /\ \A r \in DOMAIN rem \ {NewId} : rem'[r] = rem[r]
    BY <2>1 DEF With
  <2>3. req[q].type \in Type /\ Wants(req[q], req[q].type)
    BY AtHand DEF SetFromDocument, At, CallOK, Wants
  <2>4. \A p \in Request : req[p].id # NewId
    BY <2>3, WantedId DEF FreshIds
  <2>5. QED
    BY <1>1, <2>2, <2>4, FoundOwnKept
<1>3. CASE req[q].id \in DOMAIN rem
  <2>1. PICK r \in DOMAIN rem : r = req[q].id
    BY <1>3
  <2>2. r # None /\ rem[r] \in Row
    BY NoneIsNoRow DEF TypeInv, RowsOK
  <2>3. rem' = [rem EXCEPT ![r] = Reset([rem[r] EXCEPT
                  !.days = req[q].days, !.active = TRUE, !.source = "document"])]
    BY <2>1, <2>2 DEF SetFromDocument
  <2>4. Reset([rem[r] EXCEPT !.days = req[q].days, !.active = TRUE, !.source = "document"]).source
          = "document"
    BY <2>2 DEF Reset, Row
  <2>5. QED
    BY <1>1, <2>3, <2>4, RowReplaced, FoundOwnKept DEF TypeInv
<1>4. CASE req[q].id # None /\ req[q].id \notin DOMAIN rem
  <2>1. rem' = rem
    BY <1>4 DEF SetFromDocument
  <2>2. QED
    BY <1>1, <2>1, FoundOwnKept
<1>5. QED
  BY <1>2, <1>3, <1>4

\* What applyWrite does to the rows: a new one, or one that keeps its source.
LEMMA ApplyWriteRows ==
    ASSUME TypeInv, NEW q \in Request, ApplyWrite(q)
    PROVE  \/ /\ req[q].id = None /\ NewId \in FreshIds
              /\ DOMAIN rem' = DOMAIN rem \cup {NewId}
              /\ \A r \in DOMAIN rem \ {NewId} : rem'[r] = rem[r]
           \/ /\ req[q].id \in DOMAIN rem
              /\ \E row : /\ rem' = [rem EXCEPT ![req[q].id] = row]
                          /\ row.source = rem[req[q].id].source
           \/ rem' = rem
<1>1. CASE req[q].id = None
  <2>1. PICK row : rem' = With(NewId, row)
    BY <1>1, NoneIsNoRow DEF ApplyWrite, TypeInv
  <2>2. /\ DOMAIN rem' = DOMAIN rem \cup {NewId}
        /\ \A r \in DOMAIN rem \ {NewId} : rem'[r] = rem[r]
    BY <2>1 DEF With
  <2>3. req[q].type \in Type /\ Wants(req[q], req[q].type)
    BY AtHand DEF ApplyWrite, At, CallOK, Wants
  <2>4. QED
    BY <1>1, <2>2, <2>3, WantedId
<1>2. CASE req[q].id \in DOMAIN rem
  <2>1. PICK r \in DOMAIN rem : r = req[q].id
    BY <1>2
  <2>2. r # None /\ rem[r] \in Row
    BY NoneIsNoRow DEF TypeInv, RowsOK
  <2>3. \E due : rem' = [rem EXCEPT ![r] = Reset([rem[r] EXCEPT !.days = due, !.active = TRUE])]
    BY <2>1, <2>2 DEF ApplyWrite
  <2>4. \A due : Reset([rem[r] EXCEPT !.days = due, !.active = TRUE]).source = rem[r].source
    BY <2>2 DEF Reset, Row
  <2>5. QED
    BY <2>1, <2>3, <2>4
<1>3. CASE req[q].id # None /\ req[q].id \notin DOMAIN rem
  BY <1>3 DEF ApplyWrite
<1>4. QED
  BY <1>1, <1>2, <1>3

LEMMA ApplyWriteKeepsFound ==
    ASSUME TypeInv, FoundOwn, NEW q \in Request, ApplyWrite(q) PROVE FoundOwn'
<1>1. \A p \in Request : At(p, "applyWrite")' => req'[p] = req[p]
  <2>1. PICK c : c = [req[q] EXCEPT !.pc = "applyFind", !.id = None, !.type = None,
                                    !.left = @ \ {req[q].type}]
    OBVIOUS
  <2>2. c.pc = "applyFind" /\ Step(q, c)
    BY <2>1, AtHand DEF ApplyWrite, RequestState
  <2>3. QED
    BY <2>2, NotFound DEF TypeInv, RequestsOK
<1>2. \A r \in DOMAIN rem' :
        \/ r \in DOMAIN rem /\ (rem'[r].source = "manual" => rem[r].source = "manual")
        \/ \A p \in Request : req[p].id # r
  <2>1. CASE /\ NewId \in FreshIds /\ DOMAIN rem' = DOMAIN rem \cup {NewId}
             /\ \A r \in DOMAIN rem \ {NewId} : rem'[r] = rem[r]
    BY <2>1 DEF FreshIds
  <2>2. CASE /\ req[q].id \in DOMAIN rem
             /\ \E row : /\ rem' = [rem EXCEPT ![req[q].id] = row]
                         /\ row.source = rem[req[q].id].source
    BY <2>2, RowReplaced DEF TypeInv
  <2>3. CASE rem' = rem
    BY <2>3
  <2>4. QED
    BY <2>1, <2>2, <2>3, ApplyWriteRows
<1>3. QED
  BY <1>1, <1>2, FoundOwnKept

\* findFirst returns a row with the source verification.
LEMMA ApplyFindKeepsFound ==
    ASSUME TypeInv, FoundOwn, NEW q \in Request, ApplyFind(q) PROVE FoundOwn'
<1>1. rem' = rem
  BY DEF ApplyFind
<1>2. CASE Return(q)
  <2>1. \A p \in Request : At(p, "applyWrite")' => req'[p] = req[p]
    BY <1>2, IdleCall, ReturnIsStep, NotFound DEF TypeInv, RequestsOK
  <2>2. QED
    BY <1>1, <2>1, FoundOwnKept
<1>3. ASSUME NEW t, NEW r \in DOMAIN rem \cup {None},
             r \in DOMAIN rem => rem[r].source = "verification",
             Step(q, [req[q] EXCEPT !.pc = "applyWrite", !.type = t, !.id = r])
      PROVE  FoundOwn'
  <2>1. PICK c : c = [req[q] EXCEPT !.pc = "applyWrite", !.type = t, !.id = r]
    OBVIOUS
  <2>2. c.id = r
    BY <2>1, AtHand DEF RequestState
  <2>3. req'[q] = c /\ \A p \in Request \ {q} : req'[p] = req[p]
    BY <1>3, <2>1, StepEffect DEF TypeInv, RequestsOK
  <2>4. SUFFICES ASSUME NEW p \in Request, At(p, "applyWrite")', req'[p].id # None,
                        req'[p].id \in DOMAIN rem
                 PROVE  rem[req'[p].id].source # "manual"
    BY <1>1 DEF FoundOwn
  <2>5. CASE p = q
    BY <1>3, <2>2, <2>3, <2>4, <2>5
  <2>6. CASE p # q
    BY <2>3, <2>4, <2>6 DEF FoundOwn, At
  <2>7. QED
    BY <2>5, <2>6
<1>4. ~Return(q) => \E t, r : /\ r \in DOMAIN rem \cup {None}
                              /\ r \in DOMAIN rem => rem[r].source = "verification"
                              /\ Step(q, [req[q] EXCEPT !.pc = "applyWrite", !.type = t, !.id = r])
  BY NoneIsNoRow DEF ApplyFind, TypeInv
<1>5. QED
  BY <1>2, <1>3, <1>4

\* The other steps of a handler leave the rows alone and find nothing.
LEMMA OtherCallKeepsFound ==
    ASSUME TypeInv, FoundOwn, UNCHANGED rem, NEW q \in Request, NEW c, Step(q, c),
           c.pc # "applyWrite"
    PROVE  FoundOwn'
BY NotFound, FoundOwnKept DEF TypeInv, RequestsOK

LEMMA HandlerKeepsFound ==
    ASSUME TypeInv, FoundOwn, NEW q \in Request, HandlerNext(q) PROVE FoundOwn'
<1>1. ASSUME Return(q), UNCHANGED rem PROVE FoundOwn'
  BY <1>1, IdleCall, ReturnIsStep, OtherCallKeepsFound
<1>2. ASSUME NEW r \in ReminderId, BeginComplete(q, r) PROVE FoundOwn'
  <2>1. PICK c : c = [IdleRequest EXCEPT !.pc = "complete", !.id = r, !.every = rem[r].every,
                                         !.everyKm = rem[r].everyKm, !.odo = odometer]
    OBVIOUS
  <2>2. c.pc = "complete"
    BY <2>1 DEF IdleRequest
  <2>3. Step(q, c) /\ rem' = rem
    BY <1>2, <2>1 DEF BeginComplete
  <2>4. QED
    BY <2>2, <2>3, OtherCallKeepsFound
<1>3. ASSUME NEW t \in Type, NEW d \in DueDays, BeginConfirm(q, t, d) PROVE FoundOwn'
  <2>1. PICK c : c = [IdleRequest EXCEPT !.pc = "find", !.type = t, !.days = d]
    OBVIOUS
  <2>2. c.pc = "find"
    BY <2>1 DEF IdleRequest
  <2>3. Step(q, c) /\ rem' = rem
    BY <1>3, <2>1 DEF BeginConfirm
  <2>4. QED
    BY <2>2, <2>3, OtherCallKeepsFound
<1>4. ASSUME BeginVerify(q) PROVE FoundOwn'
  <2>1. PICK c : c = [IdleRequest EXCEPT !.pc = "provider"]
    OBVIOUS
  <2>2. c.pc = "provider"
    BY <2>1 DEF IdleRequest
  <2>3. Step(q, c) /\ rem' = rem
    BY <1>4, <2>1 DEF BeginVerify
  <2>4. QED
    BY <2>2, <2>3, OtherCallKeepsFound
<1>5. ASSUME FindForDocument(q) PROVE FoundOwn'
  <2>1. PICK r : Step(q, [req[q] EXCEPT !.pc = "write", !.id = r]) /\ rem' = rem
    BY <1>5 DEF FindForDocument
  <2>2. PICK c : c = [req[q] EXCEPT !.pc = "write", !.id = r]
    OBVIOUS
  <2>3. c.pc = "write"
    BY <2>2, AtHand DEF RequestState
  <2>4. QED
    BY <2>1, <2>2, <2>3, OtherCallKeepsFound
<1>6. ASSUME UpsertField(q) PROVE FoundOwn'
  <2>1. PICK c : c = [req[q] EXCEPT !.pc = "archive"]
    OBVIOUS
  <2>2. c.pc = "archive"
    BY <2>1, AtHand DEF RequestState
  <2>3. Step(q, c) /\ rem' = rem
    BY <1>6, <2>1 DEF UpsertField
  <2>4. QED
    BY <2>2, <2>3, OtherCallKeepsFound
<1>7. ASSUME AskProvider(q) PROVE FoundOwn'
  <2>1. PICK data : Step(q, [req[q] EXCEPT !.pc = "store", !.data = data]) /\ rem' = rem
    BY <1>7 DEF AskProvider
  <2>2. PICK c : c = [req[q] EXCEPT !.pc = "store", !.data = data]
    OBVIOUS
  <2>3. c.pc = "store"
    BY <2>2, AtHand DEF RequestState
  <2>4. QED
    BY <2>1, <2>2, <2>3, OtherCallKeepsFound
<1>8. ASSUME StoreVerification(q) PROVE FoundOwn'
  <2>1. rem' = rem /\ (Return(q) \/ Step(q, [req[q] EXCEPT !.pc = "applyFind",
                         !.left = {t \in Type : req[q].data.dates[t] # None}]))
    BY <1>8 DEF StoreVerification
  <2>2. PICK c : c = [req[q] EXCEPT !.pc = "applyFind",
                        !.left = {t \in Type : req[q].data.dates[t] # None}]
    OBVIOUS
  <2>3. c.pc = "applyFind"
    BY <2>2, AtHand DEF RequestState
  <2>4. QED
    BY <1>1, <2>1, <2>2, <2>3, OtherCallKeepsFound
<1>9. ASSUME ArchiveDocument(q) \/ RequestLost(q) PROVE FoundOwn'
  <2>1. Return(q) /\ rem' = rem
    BY <1>9 DEF ArchiveDocument, RequestLost
  <2>2. QED
    BY <1>1, <2>1
<1>10. CASE HandlerStep(q)
  BY <1>5, <1>6, <1>7, <1>8, <1>9, <1>10, CompleteKeepsFound, SetFromDocumentKeepsFound,
     ApplyFindKeepsFound, ApplyWriteKeepsFound DEF HandlerStep
<1>11. QED
  BY <1>2, <1>3, <1>4, <1>9, <1>10 DEF HandlerNext

LEMMA FoundOwnStep == ASSUME TypeInv, FoundOwn, [Next]_vars PROVE FoundOwn'
<1>1. ASSUME UNCHANGED req,
             \A r \in DOMAIN rem' : r \in DOMAIN rem /\ rem'[r].source = rem[r].source
      PROVE  FoundOwn'
  BY <1>1, FoundOwnKept
<1>2. CASE UserNext
  <2>1. ASSUME NEW r \in ReminderId, Remove(r) PROVE FoundOwn'
    <3>1. /\ req' = req
          /\ \A s \in DOMAIN rem' : s \in DOMAIN rem /\ rem'[s].source = rem[s].source
      BY <2>1 DEF Remove, Without
    <3>2. QED
      BY <1>1, <3>1
  <2>2. CASE Drive
    <3>1. rem' = rem /\ req' = req
      BY <2>2 DEF Drive
    <3>2. QED
      BY <1>1, <3>1
  <2>3. QED
    BY <1>2, <2>1, <2>2, CreateKeepsFound, UpdateKeepsFound DEF UserNext
<1>3. CASE ScanNext
  <2>1. CASE Record
    <3>1. req' = req
      BY <2>1 DEF Record
    <3>2. QED
      BY <1>1, <2>1, <3>1, RecordEffect DEF TypeInv
  <2>2. CASE ~Record
    <3>1. rem' = rem /\ req' = req
      BY <1>3, <2>2 DEF ScanNext, ScanStep, BeginScan, Notify, NotifyFails, RecordFails, ScanLost
    <3>2. QED
      BY <1>1, <3>1
  <2>3. QED
    BY <2>1, <2>2
<1>4. CASE NextDay
  <2>1. req' = req
    BY <1>4 DEF NextDay
  <2>2. QED
    BY <1>1, <1>4, <2>1, NextDayEffect
<1>5. CASE UNCHANGED vars
  BY <1>1, <1>5 DEF vars
<1>6. QED
  BY <1>2, <1>3, <1>4, <1>5, HandlerKeepsFound DEF Next

-----------------------------------------------------------------------------
(* Theorems *)

LEMMA RemindersInvariant == Spec => [](TypeInv /\ TellInv /\ FoundOwn)
<1>1. Init => TypeInv /\ TellInv /\ FoundOwn
  BY TypeInvInit, TellInvInit, FoundOwnInit
<1>2. TypeInv /\ TellInv /\ FoundOwn /\ [Next]_vars => (TypeInv /\ TellInv /\ FoundOwn)'
  BY TypeInvStep, TellInvStep, FoundOwnStep
<1>3. QED
  BY <1>1, <1>2, PTL DEF Spec

\* The daily scan does not announce the same state of the same due date twice,
\* but for what is overdue and was announced a week ago, or whose record was
\* lost: whatever the handlers do to the reminders while it goes through its list.
THEOREM NothingToldTwice == Spec => Throttled
<1>1. ASSUME TypeInv, TellInv, NEW r \in ReminderId, NEW s \in Stage, Notify(r, s), told' # told
      PROVE  \/ told[r].stage # s
             \/ s = "overdue" /\ told[r].ago >= Renotify
             \/ told[r].lost
  <2>1. <<r, s>> \in scan.todo /\ scan.pc = "notify"
    BY <1>1 DEF Notify
  <2>2. MayTell(<<r, s>>[1], <<r, s>>[2])
    BY <1>1, <2>1 DEF TellInv, TodoIsDue
  <2>3. QED
    BY <2>2 DEF MayTell
<1>2. TypeInv /\ TellInv =>
        [\A r \in ReminderId, stage \in Stage :
            Notify(r, stage) /\ told' # told =>
               \/ told[r].stage # stage
               \/ stage = "overdue" /\ told[r].ago >= Renotify
               \/ told[r].lost]_vars
  BY <1>1
<1>3. QED
  BY <1>2, RemindersInvariant, PTL DEF Throttled

\* When a handler leaves applyReminder nothing has changed in what a user has
\* entered: it has made a reminder of its own, or renewed one of its own, although
\* it looked for it two steps before and anybody may have been at the rows since.
THEOREM VerificationLeavesManual == Spec => ManualIsTheUsers
<1>1. ASSUME TypeInv, FoundOwn, [Next]_vars, NEW q \in Request, At(q, "applyWrite"),
             ~At(q, "applyWrite")', NEW r \in DOMAIN rem, rem[r].source = "manual"
      PROVE  rem'[r] = rem[r]
  <2>1. ApplyWrite(q) \/ RequestLost(q)
    <3>1. req' # req
      BY <1>1 DEF At
    <3>2. PICK p \in Request : HandlerNext(p)
      BY <1>1, <3>1 DEF Next, UserNext, ScanNext, ScanStep, Create, Update, Remove, Drive,
         BeginScan, Notify, Record, NotifyFails, RecordFails, ScanLost, NextDay, vars
    <3>3. p = q
      <4>1. \E c : Step(p, c)
        BY <3>2, ReturnIsStep DEF HandlerNext, HandlerStep, BeginComplete, Complete, BeginConfirm,
           FindForDocument, SetFromDocument, UpsertField, ArchiveDocument, BeginVerify,
           AskProvider, StoreVerification, ApplyFind, ApplyWrite, RequestLost
      <4>2. p # q => req'[q] = req[q]
        BY <1>1, <4>1, StepEffect DEF TypeInv, RequestsOK
      <4>3. QED
        BY <1>1, <4>2 DEF At
    <3>4. req[q].pc = "applyWrite"
      BY <1>1 DEF At
    <3>5. QED
      BY <3>2, <3>3, <3>4 DEF HandlerNext, HandlerStep, BeginComplete, Complete, BeginConfirm,
         FindForDocument, SetFromDocument, UpsertField, ArchiveDocument, BeginVerify,
         AskProvider, StoreVerification, ApplyFind, At
  <2>2. CASE RequestLost(q)
    BY <2>2 DEF RequestLost
  <2>3. CASE ApplyWrite(q)
    <3>1. CASE /\ NewId \in FreshIds
               /\ \A s \in DOMAIN rem \ {NewId} : rem'[s] = rem[s]
      BY <3>1 DEF FreshIds
    <3>2. CASE /\ req[q].id \in DOMAIN rem
               /\ \E row : rem' = [rem EXCEPT ![req[q].id] = row]
      <4>1. req[q].id # None
        BY <1>1, <3>2, NoneIsNoRow DEF TypeInv
      <4>2. req[q].id # r
        BY <1>1, <3>2, <4>1 DEF FoundOwn
      <4>3. QED
        BY <3>2, <4>2
    <3>3. CASE rem' = rem
      BY <3>3
    <3>4. QED
      BY <1>1, <2>3, <3>1, <3>2, <3>3, ApplyWriteRows
  <2>4. QED
    BY <2>1, <2>2, <2>3
<1>2. TypeInv /\ FoundOwn /\ [Next]_vars =>
        [\A q \in Request : At(q, "applyWrite") /\ ~At(q, "applyWrite")' =>
            \A r \in DOMAIN rem : rem[r].source = "manual" => rem'[r] = rem[r]]_vars
  BY <1>1
<1>3. QED
  BY <1>2, RemindersInvariant, PTL DEF Spec, ManualIsTheUsers
=============================================================================
