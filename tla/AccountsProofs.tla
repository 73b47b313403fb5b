--------------------------- MODULE AccountsProofs ---------------------------
(***************************************************************************)
(* Proofs about Accounts, for any number of users, companies, invitations   *)
(* and requests: type correctness, the bound on users beyond the plan, and  *)
(* what is left of a deleted company.                                       *)
(***************************************************************************)
EXTENDS Accounts, FiniteSetTheorems, TLAPS

USE DEF NoJoin, JoinId, Role, Count

-----------------------------------------------------------------------------
(* Inductive invariants *)

TenantPc == {"count", "memberCheck", "createInvitation", "findUser", "createUser", "join",
             "owners", "setRole", "deleteMember", "deleteTenant", "cleanup", "putObject"}
UserPc   == {"count", "memberCheck", "createInvitation", "findUser", "createUser", "join"}
JoinPc   == {"findUser", "createUser", "join"}
RemovePc == {"owners", "setRole", "deleteMember"}

\* An id is reserved for whoever may still create a membership.
JoinCall(c) == c.pc \in JoinPc \/ (c.pc = "count" /\ c.then = "findUser")

\* What a request in progress has found out is of something that existed.
CallOK(c) ==
    /\ c.pc \in TenantPc => c.tenant \in Tenant \cap known
    /\ c.pc \in UserPc => c.user \in User
    /\ c.pc \in {"countOwners", "deleteUser"} => c.user \in User \cap known
    /\ JoinCall(c) \/ c.pc = "revoke" => c.inv \in Invitation
    /\ c.pc = "count" => c.then \in {"memberCheck", "findUser"}
    /\ c.pc = "count" /\ c.counts = Count => c.seen = 0
    /\ c.pc = "owners" => c.then \in {"setRole", "deleteMember"}
    /\ c.pc \in RemovePc => c.id \in 1 .. joins

UsersOK ==
    /\ users \subseteq User \cap known /\ tenants \subseteq Tenant \cap known
    /\ known \subseteq User \cup Tenant

MembersOK ==
    /\ joins \in 0 .. MaxJoins
    /\ IsFiniteSet(member)
    /\ member \subseteq [id : 1 .. joins, tenant : tenants, user : users, role : Role]
    /\ \A m, n \in member : m.id = n.id => m = n
    /\ \A m, n \in member : m.tenant = n.tenant /\ m.user = n.user => m = n

InvitationsOK ==
    /\ inv \in [Invitation -> InvitationRow]
    /\ \A i \in Invitation : InTable(i) => inv[i].tenant \in tenants /\ inv[i].user \in User

ObjectsOK == objects \subseteq Tenant \cap known /\ spilled \subseteq Tenant

RequestsOK == req \in [Request -> RequestState] /\ \A q \in Request : CallOK(req[q])

RoomOK == joins + Cardinality(Joining) <= MaxJoins

TypeInv == UsersOK /\ MembersOK /\ InvitationsOK /\ ObjectsOK /\ RequestsOK /\ RoomOK

\* The requests that have passed the check of the plan, and those in the middle
\* of it, for company t.
Admitted(t) == {q \in Request : req[q].pc \in {"memberCheck", "createInvitation"} \cup JoinPc
                                /\ req[q].tenant = t}
Halfway(t) == {q \in Request : At(q, "count") /\ req[q].tenant = t
                               /\ req[q].counts \in {{"members"}, {"invitations"}}}

Taken(t) == Cardinality(Members(t)) + Cardinality(Pending(t)) + Cardinality(Admitted(t))

\* What request q has counted already.
Counted(q) == IF req[q].counts = {"invitations"} THEN "members" ELSE "invitations"

Missed(q, t) == CountOf(Counted(q), t) - req[q].seen

Places == MaxUsers + Cardinality(Request)

\* A request halfway through the check that could still do harm: k bounds both
\* the places that are left and what has changed since its first count.
Harmful(t, k) ==
    {q \in Halfway(t) : /\ Places - 1 - Taken(t) <= k
                        /\ Cardinality(Request) - Cardinality(Admitted(t)) - Missed(q, t) <= k}

RoomLeft(t) ==
    /\ Taken(t) < Places
    /\ \A k \in Nat : Cardinality(Harmful(t, k)) <= k

OvershootInv == \A t \in tenants : RoomLeft(t)

-----------------------------------------------------------------------------
(* Calls *)

LEMMA IdleCall ==
    /\ IdleRequest \in RequestState
    /\ IdleRequest.pc = "idle" /\ IdleRequest.tenant = None /\ IdleRequest.user = None
    /\ IdleRequest.inv = None /\ IdleRequest.id = NoJoin /\ IdleRequest.then = "idle"
    /\ IdleRequest.seen = 0 /\ IdleRequest.counts = {} /\ IdleRequest.left = {}
    /\ IdleRequest.role = "OTHER"
BY DEF IdleRequest, RequestState, RequestPc

\* What a step leaves in req.
LEMMA BeginEffect ==
    ASSUME req \in [Request -> RequestState], NEW q \in Request, NEW c, Begin(q, c)
    PROVE  /\ req'[q] = c
           /\ \A p \in Request \ {q} : req'[p] = req[p]
           /\ c \in RequestState => req' \in [Request -> RequestState]
BY DEF Begin

LEMMA GotoIsBegin ==
    ASSUME req \in [Request -> RequestState], NEW q \in Request, NEW pc \in RequestPc, Goto(q, pc)
    PROVE  \E c \in RequestState :
              /\ Begin(q, c) /\ c.pc = pc
              /\ c.tenant = req[q].tenant /\ c.user = req[q].user /\ c.inv = req[q].inv
              /\ c.role = req[q].role /\ c.id = req[q].id /\ c.then = req[q].then
              /\ c.seen = req[q].seen /\ c.counts = req[q].counts /\ c.left = req[q].left
<1>1. PICK c : c = [req[q] EXCEPT !.pc = pc]
  OBVIOUS
<1>2. req[q] \in RequestState
  OBVIOUS
<1>3. /\ c \in RequestState /\ c.pc = pc
      /\ c.tenant = req[q].tenant /\ c.user = req[q].user /\ c.inv = req[q].inv
      /\ c.role = req[q].role /\ c.id = req[q].id /\ c.then = req[q].then
      /\ c.seen = req[q].seen /\ c.counts = req[q].counts /\ c.left = req[q].left
  BY <1>1, <1>2 DEF RequestState
<1>4. Begin(q, c)
  BY <1>1 DEF Goto, Begin
<1>5. QED
  BY <1>3, <1>4

LEMMA JoiningFinite ==
    IsFiniteSet(Joining) /\ Cardinality(Joining) \in Nat /\ Cardinality(Request) \in Nat
<1>1. Joining \subseteq Request
  BY DEF Joining
<1>2. QED
  BY <1>1, AccountsAssumption, FS_Subset, FS_CardinalityType

\* A request that will not create a membership gives back the id reserved for it.
LEMMA RoomStep ==
    ASSUME RoomOK, RequestsOK, MembersOK, NEW q \in Request, NEW c, Begin(q, c),
           \/ joins' = joins /\ (JoinCall(c) => q \in Joining \/ RoomToJoin)
           \/ joins' = joins + 1 /\ q \in Joining /\ ~JoinCall(c)
    PROVE  RoomOK'
<1>0. /\ joins \in Nat /\ MaxJoins \in Nat
      /\ joins + Cardinality(Joining) <= MaxJoins
  BY AccountsAssumption DEF RoomOK, MembersOK
<1>1. \A p \in Request : req'[p] = IF p = q THEN c ELSE req[p]
  BY BeginEffect DEF RequestsOK
<1>2. Joining' = IF JoinCall(c) THEN Joining \cup {q} ELSE Joining \ {q}
  BY <1>1 DEF Joining, JoinCall, JoinPc
<1>3. CASE ~JoinCall(c)
  <2>1. /\ Cardinality(Joining') \in Nat
        /\ Cardinality(Joining') = IF q \in Joining THEN Cardinality(Joining) - 1
                                                    ELSE Cardinality(Joining)
    BY <1>2, <1>3, JoiningFinite, FS_RemoveElement, FS_CardinalityType
  <2>2. QED
    BY <1>0, <1>3, <2>1, JoiningFinite DEF RoomOK
<1>4. CASE JoinCall(c)
  <2>1. /\ Cardinality(Joining') \in Nat
        /\ Cardinality(Joining') = IF q \in Joining THEN Cardinality(Joining)
                                                    ELSE Cardinality(Joining) + 1
    BY <1>2, <1>4, JoiningFinite, FS_AddElement, FS_CardinalityType
  <2>2. QED
    BY <1>0, <1>4, <2>1, JoiningFinite DEF RoomOK, RoomToJoin
<1>5. QED
  BY <1>3, <1>4

LEMMA RequestsStep ==
    ASSUME RequestsOK, NEW q \in Request, NEW c \in RequestState, Begin(q, c), CallOK(c)',
           known \subseteq known', joins \in Nat, joins' \in Nat, joins <= joins'
    PROVE  RequestsOK'
<1>1. ASSUME NEW p \in Request PROVE CallOK(req[p])'
  <2>1. CASE p = q
    <3>1. req'[p] = c
      BY <2>1, BeginEffect DEF RequestsOK
    <3>2. QED
      BY <3>1 DEF CallOK, JoinCall
  <2>2. CASE p # q
    <3>1. req'[p] = req[p] /\ CallOK(req[p])
      BY <2>2, BeginEffect DEF RequestsOK
    <3>2. QED
      BY <3>1 DEF CallOK, JoinCall
  <2>3. QED
    BY <2>1, <2>2
<1>2. req' \in [Request -> RequestState]
  BY BeginEffect DEF RequestsOK
<1>3. QED
  BY <1>1, <1>2 DEF RequestsOK

-----------------------------------------------------------------------------
(* Type correctness: steps that change nothing but a request *)

Tables == <<users, tenants, known, member, joins, inv, objects, spilled>>

LEMMA QuietStep ==
    ASSUME TypeInv, NEW q \in Request, NEW c \in RequestState, Begin(q, c),
           CallOK(c), JoinCall(c) => q \in Joining \/ RoomToJoin, UNCHANGED Tables
    PROVE  TypeInv'
<1>1. UsersOK' /\ MembersOK' /\ InvitationsOK' /\ ObjectsOK'
  BY DEF Tables, TypeInv, UsersOK, MembersOK, InvitationsOK, InTable, ObjectsOK
<1>2. CallOK(c)' /\ joins \in Nat
  BY AccountsAssumption DEF Tables, CallOK, JoinCall, TypeInv, MembersOK
<1>3. RequestsOK'
  BY <1>2, RequestsStep DEF TypeInv, Tables
<1>4. RoomOK'
  BY RoomStep DEF TypeInv, Tables
<1>5. QED
  BY <1>1, <1>3, <1>4 DEF TypeInv

LEMMA IdleOK == CallOK(IdleRequest) /\ ~JoinCall(IdleRequest)
BY IdleCall DEF CallOK, JoinCall, TenantPc, UserPc, JoinPc, RemovePc

LEMMA QuietReturn ==
    ASSUME TypeInv, NEW q \in Request, Return(q), UNCHANGED Tables
    PROVE  TypeInv'
BY IdleOK, IdleCall, QuietStep DEF Return

\* What counting users can return is a number.
LEMMA CountType ==
    ASSUME TypeInv, NEW t \in Tenant
    PROVE  /\ IsFiniteSet(Members(t)) /\ Cardinality(Members(t)) \in Nat
           /\ IsFiniteSet(Pending(t)) /\ Cardinality(Pending(t)) \in Nat
           /\ \A what : CountOf(what, t) \in Nat
<1>1. Members(t) \subseteq member /\ IsFiniteSet(member)
  BY DEF Members, TypeInv, MembersOK
<1>2. Pending(t) \subseteq Invitation /\ IsFiniteSet(Invitation)
  BY AccountsAssumption DEF Pending
<1>3. /\ IsFiniteSet(Members(t)) /\ Cardinality(Members(t)) \in Nat
      /\ IsFiniteSet(Pending(t)) /\ Cardinality(Pending(t)) \in Nat
  BY <1>1, <1>2, FS_Subset, FS_CardinalityType
<1>4. QED
  BY <1>3 DEF CountOf

LEMMA BeginInviteType ==
    ASSUME TypeInv, NEW q \in Request, NEW t \in Tenant, NEW u \in User, NEW role \in Role,
           BeginInvite(q, t, u, role)
    PROVE  TypeInv'
<1>1. PICK c : c = [CheckLimit("memberCheck", t) EXCEPT !.user = u, !.role = role]
  OBVIOUS
<1>2. /\ c \in RequestState /\ c.pc = "count" /\ c.then = "memberCheck" /\ c.tenant = t
      /\ c.user = u /\ c.seen = 0
  BY <1>1, IdleCall DEF CheckLimit, RequestState, RequestPc
<1>3. t \in known /\ Begin(q, c) /\ UNCHANGED Tables
  BY <1>1 DEF BeginInvite, TypeInv, UsersOK, Tables
<1>4. CallOK(c) /\ ~JoinCall(c)
  BY <1>2, <1>3 DEF CallOK, JoinCall, JoinPc, RemovePc
<1>5. QED
  BY <1>2, <1>3, <1>4, QuietStep

LEMMA BeginAcceptType ==
    ASSUME TypeInv, NEW q \in Request, NEW i \in Invitation, BeginAccept(q, i)
    PROVE  TypeInv'
<1>1. PICK c : c = [CheckLimit("findUser", inv[i].tenant) EXCEPT
                        !.inv = i, !.user = inv[i].user, !.role = inv[i].role]
  OBVIOUS
<1>2. /\ inv[i].tenant \in Tenant \cap known /\ inv[i].user \in User
      /\ inv[i].role \in Role
  BY DEF BeginAccept, InTable, TypeInv, InvitationsOK, InvitationRow, UsersOK
<1>3. /\ c \in RequestState /\ c.pc = "count" /\ c.then = "findUser" /\ c.tenant = inv[i].tenant
      /\ c.user = inv[i].user /\ c.seen = 0 /\ c.inv = i
  BY <1>1, <1>2, IdleCall DEF CheckLimit, RequestState, RequestPc
<1>4. RoomToJoin /\ Begin(q, c) /\ UNCHANGED Tables
  BY <1>1 DEF BeginAccept, Tables
<1>5. CallOK(c)
  BY <1>2, <1>3 DEF CallOK, JoinCall, JoinPc, RemovePc
<1>6. QED
  BY <1>3, <1>4, <1>5, QuietStep

LEMMA CountUsersType ==
    ASSUME TypeInv, NEW q \in Request, NEW what \in Count, CountUsers(q, what)
    PROVE  TypeInv'
<1>1. /\ req[q] \in RequestState /\ CallOK(req[q]) /\ req[q].pc = "count"
      /\ what \in req[q].counts /\ UNCHANGED Tables
      /\ req[q].seen \in Nat /\ req[q].then \in {"memberCheck", "findUser"}
      /\ req[q].tenant \in Tenant \cap known
  BY DEF CountUsers, At, TypeInv, RequestsOK, Tables, CallOK, RequestState, TenantPc
<1>2. PICK seen, left : /\ seen = req[q].seen + CountOf(what, req[q].tenant)
                        /\ left = req[q].counts \ {what}
  OBVIOUS
<1>3. seen \in Nat
  BY <1>1, <1>2, CountType
<1>4. CASE left # {} /\ Begin(q, [req[q] EXCEPT !.seen = seen, !.counts = left])
  <2>1. PICK c : c = [req[q] EXCEPT !.seen = seen, !.counts = left]
    OBVIOUS
  <2>2. /\ c \in RequestState /\ c.pc = "count" /\ c.then = req[q].then
        /\ c.tenant = req[q].tenant /\ c.user = req[q].user /\ c.inv = req[q].inv
        /\ c.counts = left
    BY <1>1, <1>2, <1>3, <2>1 DEF RequestState
  <2>3. c.counts # Count
    BY <1>1, <1>2, <2>2
  <2>4. CallOK(c) /\ (JoinCall(c) => q \in Joining)
    BY <1>1, <2>2, <2>3 DEF CallOK, JoinCall, JoinPc, RemovePc, Joining, UserPc
  <2>5. QED
    BY <1>1, <1>4, <2>1, <2>2, <2>4, QuietStep
<1>5. CASE Begin(q, [req[q] EXCEPT !.pc = req[q].then, !.seen = 0, !.counts = {}])
  <2>1. PICK c : c = [req[q] EXCEPT !.pc = req[q].then, !.seen = 0, !.counts = {}]
    OBVIOUS
  <2>2. /\ c \in RequestState /\ c.pc = req[q].then
        /\ c.tenant = req[q].tenant /\ c.user = req[q].user /\ c.inv = req[q].inv
    BY <1>1, <2>1 DEF RequestState, RequestPc
  <2>3. CallOK(c) /\ (JoinCall(c) => q \in Joining)
    BY <1>1, <2>2 DEF CallOK, JoinCall, JoinPc, RemovePc, Joining, UserPc
  <2>4. QED
    BY <1>1, <1>5, <2>1, <2>2, <2>3, QuietStep
<1>6. CASE Return(q)
  BY <1>1, <1>6, QuietReturn
<1>7. QED
  BY <1>2, <1>4, <1>5, <1>6 DEF CountUsers

\* A request that goes on in the handler it is in.
LEMMA GoOn ==
    ASSUME TypeInv, NEW q \in Request, NEW pc \in RequestPc, Goto(q, pc), UNCHANGED Tables,
           \/ req[q].pc = "memberCheck" /\ pc = "createInvitation"
           \/ req[q].pc = "findUser" /\ pc \in {"join", "createUser"}
           \/ req[q].pc = "owners" /\ pc = req[q].then
    PROVE  TypeInv'
<1>1. PICK c \in RequestState :
         /\ Begin(q, c) /\ c.pc = pc
         /\ c.tenant = req[q].tenant /\ c.user = req[q].user /\ c.inv = req[q].inv
         /\ c.role = req[q].role /\ c.id = req[q].id /\ c.then = req[q].then
         /\ c.seen = req[q].seen /\ c.counts = req[q].counts
  BY GotoIsBegin DEF TypeInv, RequestsOK
<1>2. CallOK(req[q])
  BY DEF TypeInv, RequestsOK
<1>3. CallOK(c) /\ (JoinCall(c) => q \in Joining)
  BY <1>1, <1>2 DEF CallOK, JoinCall, JoinPc, RemovePc, Joining, UserPc, TenantPc
<1>4. QED
  BY <1>1, <1>3, QuietStep

LEMMA GoOnType ==
    ASSUME TypeInv, NEW q \in Request, CheckMember(q) \/ FindUser(q) \/ AssertNotLastOwner(q)
    PROVE  TypeInv'
<1>1. UNCHANGED Tables
  BY DEF CheckMember, FindUser, AssertNotLastOwner, Tables
<1>2. req[q].pc = "owners" => req[q].then \in RequestPc
  BY DEF TypeInv, RequestsOK, CallOK, RequestPc
<1>3. QED
  BY <1>1, <1>2, GoOn, QuietReturn DEF CheckMember, FindUser, AssertNotLastOwner, At, RequestPc

\* The other handlers begin.
LEMMA BeginType ==
    ASSUME TypeInv, NEW q \in Request,
           \/ \E i \in Invitation : BeginRevoke(q, i)
           \/ \E m \in member, role \in Role : BeginChangeRole(q, m, role)
           \/ \E m \in member : BeginRemoveMember(q, m)
           \/ \E t \in Tenant : BeginDeleteTenant(q, t) \/ BeginUpload(q, t)
    PROVE  TypeInv'
<1>1. ASSUME NEW i \in Invitation, BeginRevoke(q, i) PROVE TypeInv'
  <2>1. PICK c : c = [IdleRequest EXCEPT !.pc = "revoke", !.inv = i]
    OBVIOUS
  <2>2. c \in RequestState /\ c.pc = "revoke" /\ c.inv = i
    BY <2>1, IdleCall DEF RequestState, RequestPc
  <2>3. Begin(q, c) /\ UNCHANGED Tables
    BY <1>1, <2>1 DEF BeginRevoke, Tables
  <2>4. CallOK(c) /\ ~JoinCall(c)
    BY <2>2 DEF CallOK, JoinCall, JoinPc, RemovePc, TenantPc, UserPc
  <2>5. QED
    BY <2>2, <2>3, <2>4, QuietStep
<1>2. ASSUME NEW m \in member
      PROVE  m.id \in 1 .. joins /\ m.id \in JoinId /\ m.tenant \in Tenant \cap known
  <2>1. m.id \in 1 .. joins /\ joins \in 0 .. MaxJoins /\ m.tenant \in Tenant \cap known
    BY <1>2 DEF TypeInv, MembersOK, UsersOK
  <2>2. QED
    BY <2>1, AccountsAssumption
<1>3. ASSUME NEW m \in member, NEW role \in Role, BeginChangeRole(q, m, role) PROVE TypeInv'
  <2>1. PICK pc \in RemovePc :
          Begin(q, [IdleRequest EXCEPT !.pc = pc, !.then = "setRole", !.tenant = m.tenant,
                                       !.id = m.id, !.role = role])
    BY <1>3 DEF BeginChangeRole, RemovePc
  <2>2. PICK c : c = [IdleRequest EXCEPT !.pc = pc, !.then = "setRole", !.tenant = m.tenant,
                                         !.id = m.id, !.role = role]
    OBVIOUS
  <2>3. /\ c \in RequestState /\ c.pc = pc /\ c.tenant = m.tenant /\ c.id = m.id
        /\ c.then = "setRole"
    BY <1>2, <2>2, IdleCall DEF RequestState, RequestPc, RemovePc
  <2>4. CallOK(c) /\ ~JoinCall(c)
    BY <1>2, <2>3 DEF CallOK, JoinCall, JoinPc, RemovePc, TenantPc, UserPc
  <2>5. UNCHANGED Tables
    BY <1>3 DEF BeginChangeRole, Tables
  <2>6. QED
    BY <2>1, <2>2, <2>3, <2>4, <2>5, QuietStep
<1>4. ASSUME NEW m \in member, BeginRemoveMember(q, m) PROVE TypeInv'
  <2>1. PICK pc \in RemovePc :
          Begin(q, [IdleRequest EXCEPT !.pc = pc, !.then = "deleteMember", !.tenant = m.tenant,
                                       !.id = m.id])
    BY <1>4 DEF BeginRemoveMember, RemovePc
  <2>2. PICK c : c = [IdleRequest EXCEPT !.pc = pc, !.then = "deleteMember",
                                         !.tenant = m.tenant, !.id = m.id]
    OBVIOUS
  <2>3. /\ c \in RequestState /\ c.pc = pc /\ c.tenant = m.tenant /\ c.id = m.id
        /\ c.then = "deleteMember"
    BY <1>2, <2>2, IdleCall DEF RequestState, RequestPc, RemovePc
  <2>4. CallOK(c) /\ ~JoinCall(c)
    BY <1>2, <2>3 DEF CallOK, JoinCall, JoinPc, RemovePc, TenantPc, UserPc
  <2>5. UNCHANGED Tables
    BY <1>4 DEF BeginRemoveMember, Tables
  <2>6. QED
    BY <2>1, <2>2, <2>3, <2>4, <2>5, QuietStep
<1>5. ASSUME NEW t \in Tenant, BeginDeleteTenant(q, t) \/ BeginUpload(q, t) PROVE TypeInv'
  <2>1. PICK pc \in {"deleteTenant", "putObject"} :
          Begin(q, [IdleRequest EXCEPT !.pc = pc, !.tenant = t])
    BY <1>5 DEF BeginDeleteTenant, BeginUpload
  <2>2. PICK c : c = [IdleRequest EXCEPT !.pc = pc, !.tenant = t]
    OBVIOUS
  <2>3. c \in RequestState /\ c.pc = pc /\ c.tenant = t
    BY <2>2, IdleCall DEF RequestState, RequestPc
  <2>4. t \in known /\ UNCHANGED Tables
    BY <1>5 DEF BeginDeleteTenant, BeginUpload, Tables, TypeInv, UsersOK
  <2>5. CallOK(c) /\ ~JoinCall(c)
    BY <2>3, <2>4 DEF CallOK, JoinCall, JoinPc, RemovePc, TenantPc, UserPc
  <2>6. QED
    BY <2>1, <2>2, <2>3, <2>4, <2>5, QuietStep
<1>6. QED
  BY <1>1, <1>3, <1>4, <1>5

LEMMA AccountType ==
    ASSUME TypeInv, NEW q \in Request,
           \/ \E u \in User : BeginDeleteAccount(q, u)
           \/ \E t \in Tenant : CountOwners(q, t)
    PROVE  TypeInv'
<1>1. ASSUME NEW u \in User, BeginDeleteAccount(q, u) PROVE TypeInv'
  <2>1. PICK owned : owned = {m.tenant : m \in {n \in member : n.user = u /\ n.role = "OWNER"}}
    OBVIOUS
  <2>2. owned \subseteq Tenant
    BY <2>1 DEF TypeInv, MembersOK, UsersOK
  <2>3. PICK pc \in {"deleteUser", "countOwners"} :
          Begin(q, [IdleRequest EXCEPT !.pc = pc, !.user = u, !.left = owned])
    BY <1>1, <2>1 DEF BeginDeleteAccount
  <2>4. PICK c : c = [IdleRequest EXCEPT !.pc = pc, !.user = u, !.left = owned]
    OBVIOUS
  <2>5. c \in RequestState /\ c.pc = pc /\ c.user = u
    BY <2>2, <2>4, IdleCall DEF RequestState, RequestPc
  <2>6. u \in known /\ UNCHANGED Tables
    BY <1>1 DEF BeginDeleteAccount, Tables, TypeInv, UsersOK
  <2>7. CallOK(c) /\ ~JoinCall(c)
    BY <2>5, <2>6 DEF CallOK, JoinCall, JoinPc, RemovePc, TenantPc, UserPc
  <2>8. QED
    BY <2>3, <2>4, <2>5, <2>6, <2>7, QuietStep
<1>2. ASSUME NEW t \in Tenant, CountOwners(q, t) PROVE TypeInv'
  <2>1. /\ req[q] \in RequestState /\ CallOK(req[q]) /\ req[q].pc = "countOwners"
        /\ req[q].user \in User \cap known /\ UNCHANGED Tables
    BY <1>2 DEF CountOwners, At, TypeInv, RequestsOK, Tables, CallOK
  <2>2. CASE Return(q)
    BY <2>1, <2>2, QuietReturn
  <2>3. CASE ~Return(q)
    <3>1. PICK pc \in {"deleteUser", "countOwners"} :
            Begin(q, [req[q] EXCEPT !.left = @ \ {t}, !.pc = pc])
      BY <1>2, <2>3 DEF CountOwners
    <3>2. PICK c : c = [req[q] EXCEPT !.left = @ \ {t}, !.pc = pc]
      OBVIOUS
    <3>3. c \in RequestState /\ c.pc = pc /\ c.user = req[q].user
      BY <2>1, <3>2 DEF RequestState, RequestPc
    <3>4. CallOK(c) /\ ~JoinCall(c)
      BY <2>1, <3>3 DEF CallOK, JoinCall, JoinPc, RemovePc, TenantPc, UserPc
    <3>5. QED
      BY <2>1, <3>1, <3>2, <3>3, <3>4, QuietStep
  <2>4. QED
    BY <2>2, <2>3
<1>3. QED
  BY <1>1, <1>2

-----------------------------------------------------------------------------
(* Type correctness: steps that change the tables *)

\* A request that ends, whatever it has written.
LEMMA Ends ==
    ASSUME RequestsOK, RoomOK, MembersOK, NEW q \in Request, Return(q), known \subseteq known',
           joins' \in Nat, joins' = joins \/ (joins' = joins + 1 /\ q \in Joining)
    PROVE  RequestsOK' /\ RoomOK'
<1>1. CallOK(IdleRequest)' /\ ~JoinCall(IdleRequest)
  BY IdleCall DEF CallOK, JoinCall, TenantPc, UserPc, JoinPc, RemovePc
<1>2. joins \in Nat /\ joins <= joins'
  BY AccountsAssumption DEF MembersOK
<1>3. QED
  BY <1>1, <1>2, IdleCall, RequestsStep, RoomStep DEF Return

\* A membership is added with an id that nobody has had.
LEMMA NewMember ==
    ASSUME MembersOK, UsersOK, joins < MaxJoins,
           NEW t \in tenants', NEW u \in users', NEW role \in Role,
           tenants \subseteq tenants', users \subseteq users', ~IsMember(t, u),
           member' = member \cup {[id |-> joins + 1, tenant |-> t, user |-> u, role |-> role]},
           joins' = joins + 1
    PROVE  MembersOK'
<1>1. PICK n : n = [id |-> joins + 1, tenant |-> t, user |-> u, role |-> role]
  OBVIOUS
<1>2. joins \in Nat /\ joins' \in 0 .. MaxJoins
  BY AccountsAssumption DEF MembersOK
<1>3. n \in [id : 1 .. joins', tenant : tenants', user : users', role : Role]
  BY <1>1, <1>2
<1>4. \A m \in member : /\ m \in [id : 1 .. joins', tenant : tenants', user : users', role : Role]
                         /\ m.id # n.id
                         /\ ~(m.tenant = n.tenant /\ m.user = n.user)
  BY <1>1, <1>2 DEF MembersOK, IsMember
<1>5. member' = member \cup {n} /\ IsFiniteSet(member')
  BY <1>1, FS_AddElement DEF MembersOK
<1>6. QED
  BY <1>2, <1>3, <1>4, <1>5 DEF MembersOK

\* Memberships are taken away, with the companies or users they belong to.
LEMMA FewerMembers ==
    ASSUME MembersOK, member' \subseteq member, joins' = joins,
           \A m \in member' : m.tenant \in tenants' /\ m.user \in users'
    PROVE  MembersOK'
<1>1. IsFiniteSet(member')
  BY FS_Subset DEF MembersOK
<1>2. QED
  BY <1>1 DEF MembersOK

LEMMA DeletedRowType ==
    DeletedRow \in InvitationRow /\ DeletedRow.state = "gone"
    /\ NoInvitation \in InvitationRow /\ NoInvitation.state = "absent"
BY DEF DeletedRow, NoInvitation, InvitationRow

LEMMA RegisterType ==
    ASSUME TypeInv, NEW u \in User, NEW t \in Tenant, Register(u, t)
    PROVE  TypeInv'
<1>0. /\ users \subseteq User \cap known /\ tenants \subseteq Tenant \cap known
      /\ joins \in Nat
  BY AccountsAssumption DEF TypeInv, UsersOK, MembersOK
<1>1. UsersOK'
  BY DEF Register, TypeInv, UsersOK
<1>2. joins + Cardinality(Joining) < MaxJoins /\ joins < MaxJoins
  BY <1>0, JoiningFinite, AccountsAssumption DEF Register, RoomToJoin
<1>3. ~IsMember(t, u)
  BY <1>0 DEF Register, IsMember, TypeInv, MembersOK
<1>4. MembersOK'
  BY <1>2, <1>3, NewMember DEF Register, TypeInv
<1>5. InvitationsOK' /\ ObjectsOK'
  BY DEF Register, TypeInv, InvitationsOK, InTable, ObjectsOK
<1>6. RequestsOK'
  BY <1>0 DEF Register, TypeInv, RequestsOK, CallOK, JoinCall
<1>7. RoomOK'
  BY <1>0, <1>2, JoiningFinite, AccountsAssumption DEF Register, RoomOK, Joining
<1>8. QED
  BY <1>1, <1>4, <1>5, <1>6, <1>7 DEF TypeInv

LEMMA CreateInvitationType ==
    ASSUME TypeInv, NEW q \in Request, NEW i \in Invitation, CreateInvitation(q, i)
    PROVE  TypeInv'
<1>1. /\ req[q] \in RequestState /\ req[q].tenant \in Tenant /\ req[q].user \in User
      /\ req[q].role \in Role
  BY DEF CreateInvitation, At, TypeInv, RequestsOK, CallOK, TenantPc, UserPc, RequestState
<1>2. InvitationsOK'
  <2>1. CASE req[q].tenant \notin tenants
    BY <2>1 DEF CreateInvitation, TypeInv, InvitationsOK, InTable
  <2>2. CASE req[q].tenant \in tenants
    <3>1. PICK row : row = [state |-> "pending", expired |-> FALSE, tenant |-> req[q].tenant,
                            user |-> req[q].user, role |-> req[q].role]
      OBVIOUS
    <3>2. row \in InvitationRow /\ row.tenant \in tenants /\ row.user \in User
      BY <1>1, <2>2, <3>1 DEF InvitationRow
    <3>3. inv' = [inv EXCEPT ![i] = row]
      BY <2>2, <3>1 DEF CreateInvitation
    <3>4. \A j \in Invitation : inv'[j] = IF j = i THEN row ELSE inv[j]
      BY <3>3 DEF TypeInv, InvitationsOK
    <3>5. inv' \in [Invitation -> InvitationRow]
      BY <3>2, <3>3 DEF TypeInv, InvitationsOK
    <3>6. QED
      BY <3>2, <3>4, <3>5 DEF CreateInvitation, TypeInv, InvitationsOK, InTable
  <2>3. QED
    BY <2>1, <2>2
<1>3. UsersOK' /\ MembersOK' /\ ObjectsOK'
  BY DEF CreateInvitation, TypeInv, UsersOK, MembersOK, ObjectsOK
<1>4. RequestsOK' /\ RoomOK'
  BY AccountsAssumption, Ends DEF CreateInvitation, TypeInv, MembersOK
<1>5. QED
  BY <1>2, <1>3, <1>4 DEF TypeInv

LEMMA CreateUserType ==
    ASSUME TypeInv, NEW q \in Request, CreateUser(q) PROVE TypeInv'
<1>1. /\ req[q].user \in User /\ q \in Joining
      /\ CallOK(req[q]) /\ req[q].pc = "createUser"
  BY DEF CreateUser, At, TypeInv, RequestsOK, CallOK, UserPc, Joining
<1>2. CASE Return(q) /\ UNCHANGED <<users, known>>
  BY <1>2, QuietReturn DEF CreateUser, Tables
<1>3. CASE /\ users' = users \cup {req[q].user} /\ known' = known \cup {req[q].user}
           /\ Goto(q, "join")
  <2>1. UsersOK' /\ ObjectsOK' /\ InvitationsOK'
    BY <1>1, <1>3 DEF CreateUser, TypeInv, UsersOK, ObjectsOK, InvitationsOK, InTable
  <2>2. MembersOK'
    BY <1>3 DEF CreateUser, TypeInv, MembersOK
  <2>3. PICK c \in RequestState :
          /\ Begin(q, c) /\ c.pc = "join"
          /\ c.tenant = req[q].tenant /\ c.user = req[q].user /\ c.inv = req[q].inv
    BY <1>3, GotoIsBegin DEF TypeInv, RequestsOK, RequestPc
  <2>4. CallOK(c)'
    BY <1>1, <1>3, <2>3 DEF CallOK, JoinCall, JoinPc, RemovePc, UserPc, TenantPc
  <2>5. joins \in Nat /\ joins' = joins /\ known \subseteq known'
    BY <1>3, AccountsAssumption DEF CreateUser, TypeInv, MembersOK
  <2>6. RequestsOK' /\ RoomOK'
    BY <1>1, <2>3, <2>4, <2>5, RequestsStep, RoomStep DEF TypeInv
  <2>7. QED
    BY <2>1, <2>2, <2>6 DEF TypeInv
<1>4. QED
  BY <1>2, <1>3 DEF CreateUser

LEMMA JoinType ==
    ASSUME TypeInv, NEW q \in Request, Join(q) PROVE TypeInv'
<1>1. /\ q \in Joining /\ req[q].inv \in Invitation /\ req[q] \in RequestState
      /\ req[q].role \in Role
  BY DEF Join, At, TypeInv, RequestsOK, CallOK, JoinCall, JoinPc, Joining, RequestState
<1>2. joins \in Nat /\ Cardinality(Joining) \in Nat \ {0} /\ joins < MaxJoins
  <2>1. Cardinality(Joining) # 0
    BY <1>1, JoiningFinite, FS_EmptySet
  <2>2. QED
    BY <2>1, JoiningFinite, AccountsAssumption DEF TypeInv, RoomOK, MembersOK
<1>3. UsersOK' /\ ObjectsOK'
  BY DEF Join, TypeInv, UsersOK, ObjectsOK
<1>4. CASE UNCHANGED <<member, joins, inv>>
  <2>1. UNCHANGED Tables /\ Return(q)
    BY <1>4 DEF Join, Tables
  <2>2. QED
    BY <2>1, QuietReturn
<1>5. CASE ~UNCHANGED <<member, joins, inv>>
  <2>1. /\ req[q].tenant \in tenants /\ req[q].user \in users
        /\ ~IsMember(req[q].tenant, req[q].user)
        /\ member' = member \cup {[id |-> joins + 1, tenant |-> req[q].tenant,
                                   user |-> req[q].user, role |-> req[q].role]}
        /\ joins' = joins + 1
        /\ inv' = [inv EXCEPT ![req[q].inv].state = "accepted"]
        /\ InTable(req[q].inv)
        /\ UNCHANGED <<users, tenants, known>> /\ Return(q)
    BY <1>5 DEF Join
  <2>2. MembersOK'
    BY <1>1, <1>2, <2>1, NewMember DEF TypeInv
  <2>3. InvitationsOK'
    <3>1. inv'[req[q].inv] = [inv[req[q].inv] EXCEPT !.state = "accepted"]
          /\ \A j \in Invitation \ {req[q].inv} : inv'[j] = inv[j]
      BY <1>1, <2>1 DEF TypeInv, InvitationsOK
    <3>2. inv[req[q].inv] \in InvitationRow
      BY <1>1 DEF TypeInv, InvitationsOK
    <3>3. /\ inv'[req[q].inv] \in InvitationRow
          /\ inv'[req[q].inv].tenant = inv[req[q].inv].tenant
          /\ inv'[req[q].inv].user = inv[req[q].inv].user
      BY <3>1, <3>2 DEF InvitationRow
    <3>4. inv' \in [Invitation -> InvitationRow]
      BY <2>1, <3>1, <3>3 DEF TypeInv, InvitationsOK
    <3>5. QED
      BY <2>1, <3>1, <3>3, <3>4 DEF TypeInv, InvitationsOK, InTable
  <2>4. RequestsOK' /\ RoomOK'
    BY <1>1, <1>2, <2>1, Ends DEF TypeInv
  <2>5. QED
    BY <1>3, <2>2, <2>3, <2>4 DEF TypeInv
<1>6. QED
  BY <1>4, <1>5

\* A change of role keeps every membership, but for the role of one.
Promoted(m, id, role) == IF m.id = id THEN [m EXCEPT !.role = role] ELSE m

LEMMA SetRoleMembers ==
    ASSUME TypeInv, NEW q \in Request, SetRole(q)
    PROVE  /\ member' = {Promoted(m, req[q].id, req[q].role) : m \in member}
           /\ \A m \in member :
                LET n == Promoted(m, req[q].id, req[q].role) IN
                /\ n.id = m.id /\ n.tenant = m.tenant /\ n.user = m.user
                /\ n.role = IF m.id = req[q].id THEN req[q].role ELSE m.role
                /\ n \in [id : 1 .. joins, tenant : tenants, user : users, role : Role]
<1>1. req[q] \in RequestState /\ req[q].role \in Role
  BY DEF TypeInv, RequestsOK, RequestState
<1>2. member \subseteq [id : 1 .. joins, tenant : tenants, user : users, role : Role]
  BY DEF TypeInv, MembersOK
<1>3. QED
  BY <1>1, <1>2 DEF SetRole, Promoted

LEMMA SetRoleType ==
    ASSUME TypeInv, NEW q \in Request, SetRole(q) PROVE TypeInv'
<1>1. PICK f : f = [m \in member |-> Promoted(m, req[q].id, req[q].role)]
  OBVIOUS
<1>2. f \in Surjection(member, member')
  BY <1>1, SetRoleMembers DEF Surjection
<1>3. IsFiniteSet(member')
  BY <1>2, FS_Surjection DEF TypeInv, MembersOK
<1>4. UNCHANGED <<users, tenants, known, joins, inv, objects, spilled>> /\ Return(q)
  BY DEF SetRole
<1>5. MembersOK'
  <2>1. \A n \in member' : \E m \in member :
          /\ n = Promoted(m, req[q].id, req[q].role)
          /\ n.id = m.id /\ n.tenant = m.tenant /\ n.user = m.user
          /\ n \in [id : 1 .. joins, tenant : tenants, user : users, role : Role]
    BY SetRoleMembers
  <2>2. /\ \A m, n \in member' : m.id = n.id => m = n
        /\ \A m, n \in member' : m.tenant = n.tenant /\ m.user = n.user => m = n
    BY <2>1 DEF TypeInv, MembersOK
  <2>3. member' \subseteq [id : 1 .. joins, tenant : tenants, user : users, role : Role]
    BY <2>1
  <2>4. QED
    BY <1>3, <1>4, <2>2, <2>3 DEF TypeInv, MembersOK
<1>6. UsersOK' /\ InvitationsOK' /\ ObjectsOK'
  BY <1>4 DEF TypeInv, UsersOK, InvitationsOK, InTable, ObjectsOK
<1>7. RequestsOK' /\ RoomOK'
  BY <1>4, AccountsAssumption, Ends DEF TypeInv, MembersOK
<1>8. QED
  BY <1>5, <1>6, <1>7 DEF TypeInv

\* The steps that take rows away and end their request.
LEMMA TakeAwayType ==
    ASSUME TypeInv, NEW q \in Request, Revoke(q) \/ DeleteMember(q) \/ DeleteUser(q)
    PROVE  TypeInv'
<1>1. Return(q) /\ UNCHANGED <<tenants, known, joins, objects, spilled>>
  BY DEF Revoke, DeleteMember, DeleteUser
<1>2. RequestsOK' /\ RoomOK'
  BY <1>1, AccountsAssumption, Ends DEF TypeInv, MembersOK
<1>3. UsersOK' /\ ObjectsOK'
  BY <1>1 DEF Revoke, DeleteMember, DeleteUser, TypeInv, UsersOK, ObjectsOK
<1>4. member' \subseteq member /\ \A m \in member' : m.user \in users' /\ m.tenant \in tenants'
  BY <1>1 DEF Revoke, DeleteMember, DeleteUser, TypeInv, MembersOK
<1>5. MembersOK'
  BY <1>1, <1>4, FewerMembers DEF TypeInv
<1>6. InvitationsOK'
  BY <1>1, DeletedRowType
  DEF Revoke, DeleteMember, DeleteUser, TypeInv, InvitationsOK, InTable
<1>7. QED
  BY <1>2, <1>3, <1>5, <1>6 DEF TypeInv

LEMMA DeleteTenantType ==
    ASSUME TypeInv, NEW q \in Request, DeleteTenant(q) PROVE TypeInv'
<1>1. CASE Return(q) /\ UNCHANGED <<tenants, member, inv>>
  BY <1>1, QuietReturn DEF DeleteTenant, Tables
<1>2. CASE ~(Return(q) /\ UNCHANGED <<tenants, member, inv>>)
  <2>1. PICK t : t = req[q].tenant
    OBVIOUS
  <2>2. /\ t \in tenants /\ tenants' = tenants \ {t}
        /\ member' = member \ Members(t)
        /\ inv' = [i \in Invitation |-> IF InTable(i) /\ inv[i].tenant = t
                                        THEN DeletedRow ELSE inv[i]]
        /\ Goto(q, "cleanup") /\ UNCHANGED <<users, known, joins, objects, spilled>>
    BY <1>2, <2>1 DEF DeleteTenant
  <2>3. UsersOK' /\ ObjectsOK'
    BY <2>2 DEF TypeInv, UsersOK, ObjectsOK
  <2>4. member' \subseteq member /\ \A m \in member' : m.tenant \in tenants' /\ m.user \in users'
    BY <2>2 DEF Members, TypeInv, MembersOK
  <2>5. MembersOK'
    BY <2>2, <2>4, FewerMembers DEF TypeInv
  <2>6. InvitationsOK'
    BY <2>2, DeletedRowType DEF TypeInv, InvitationsOK, InTable
  <2>7. PICK c \in RequestState : Begin(q, c) /\ c.pc = "cleanup" /\ c.tenant = req[q].tenant
    BY <2>2, GotoIsBegin DEF TypeInv, RequestsOK, RequestPc
  <2>8. CallOK(req[q]) /\ req[q].pc = "deleteTenant"
    BY DEF DeleteTenant, At, TypeInv, RequestsOK
  <2>9. CallOK(c)' /\ ~JoinCall(c)
    BY <2>2, <2>7, <2>8 DEF CallOK, JoinCall, JoinPc, RemovePc, UserPc, TenantPc
  <2>10. RequestsOK' /\ RoomOK'
    BY <2>2, <2>7, <2>9, AccountsAssumption, RequestsStep, RoomStep DEF TypeInv, MembersOK
  <2>11. QED
    BY <2>3, <2>5, <2>6, <2>10 DEF TypeInv
<1>3. QED
  BY <1>1, <1>2

LEMMA ObjectType ==
    ASSUME TypeInv, NEW q \in Request, Cleanup(q) \/ PutObject(q) \/ RequestLost(q)
    PROVE  TypeInv'
<1>1. Return(q) /\ UNCHANGED <<users, tenants, known, member, joins, inv>>
  BY DEF Cleanup, PutObject, RequestLost
<1>2. RequestsOK' /\ RoomOK'
  BY <1>1, AccountsAssumption, Ends DEF TypeInv, MembersOK
<1>3. req[q].pc \in {"cleanup", "putObject"} => req[q].tenant \in Tenant \cap known
  BY DEF TypeInv, RequestsOK, CallOK, TenantPc
<1>4. ObjectsOK'
  BY <1>1, <1>3 DEF Cleanup, PutObject, RequestLost, At, TypeInv, ObjectsOK
<1>5. UsersOK' /\ MembersOK' /\ InvitationsOK'
  BY <1>1 DEF TypeInv, UsersOK, MembersOK, InvitationsOK, InTable
<1>6. QED
  BY <1>2, <1>4, <1>5 DEF TypeInv

LEMMA OldInvitationsType ==
    ASSUME TypeInv, DeleteOldInvitations \/ \E i \in Invitation : Expire(i)
    PROVE  TypeInv'
<1>1. UNCHANGED <<users, tenants, known, member, joins, objects, spilled, req>>
  BY DEF DeleteOldInvitations, Expire
<1>2. ASSUME NEW i \in Invitation, Expire(i) PROVE InvitationsOK'
  <2>1. inv'[i] = [inv[i] EXCEPT !.expired = TRUE] /\ \A j \in Invitation \ {i} : inv'[j] = inv[j]
    BY <1>2 DEF Expire, TypeInv, InvitationsOK
  <2>2. inv[i] \in InvitationRow
    BY DEF TypeInv, InvitationsOK
  <2>3. /\ inv'[i] \in InvitationRow /\ inv'[i].state = inv[i].state
        /\ inv'[i].tenant = inv[i].tenant /\ inv'[i].user = inv[i].user
    BY <2>1, <2>2 DEF InvitationRow
  <2>4. inv' \in [Invitation -> InvitationRow]
    BY <1>2, <2>1, <2>3 DEF Expire, TypeInv, InvitationsOK
  <2>5. QED
    BY <1>1, <2>1, <2>3, <2>4 DEF TypeInv, InvitationsOK, InTable
<1>3. ASSUME DeleteOldInvitations PROVE InvitationsOK'
  BY <1>1, <1>3, DeletedRowType DEF DeleteOldInvitations, TypeInv, InvitationsOK, InTable
<1>4. UsersOK' /\ MembersOK' /\ ObjectsOK' /\ RequestsOK' /\ RoomOK'
  BY <1>1 DEF TypeInv, UsersOK, MembersOK, ObjectsOK, RequestsOK, CallOK, JoinCall, RoomOK, Joining
<1>5. QED
  BY <1>2, <1>3, <1>4 DEF TypeInv

LEMMA TypeInvInit == Init => TypeInv
<1> SUFFICES ASSUME Init PROVE TypeInv
  OBVIOUS
<1>1. UsersOK /\ ObjectsOK
  BY DEF Init, UsersOK, ObjectsOK
<1>2. MembersOK
  BY AccountsAssumption, FS_EmptySet DEF Init, MembersOK
<1>3. InvitationsOK
  BY DeletedRowType DEF Init, InvitationsOK, InTable
<1>4. RequestsOK
  BY IdleCall, IdleOK DEF Init, RequestsOK
<1>5. Joining = {} /\ Cardinality({}) = 0
  BY IdleOK, FS_EmptySet DEF Init, Joining, JoinCall, JoinPc
<1>6. RoomOK
  BY <1>5, AccountsAssumption DEF Init, RoomOK
<1>7. QED
  BY <1>1, <1>2, <1>3, <1>4, <1>6 DEF TypeInv

LEMMA TypeInvStep == TypeInv /\ [Next]_vars => TypeInv'
<1> SUFFICES ASSUME TypeInv, [Next]_vars PROVE TypeInv'
  OBVIOUS
<1>1. ASSUME NEW q \in Request, RequestNext(q) PROVE TypeInv'
  BY <1>1, BeginInviteType, BeginAcceptType, CountUsersType, GoOnType, BeginType, AccountType,
     CreateInvitationType, CreateUserType, JoinType, SetRoleType, TakeAwayType, DeleteTenantType,
     ObjectType
  DEF RequestNext
<1>2. CASE PlatformNext
  BY <1>2, RegisterType, OldInvitationsType DEF PlatformNext
<1>3. CASE UNCHANGED vars
  BY <1>3 DEF vars, TypeInv, UsersOK, MembersOK, InvitationsOK, InTable, ObjectsOK, RequestsOK,
              CallOK, JoinCall, RoomOK, Joining
<1>4. QED
  BY <1>1, <1>2, <1>3 DEF Next

\* Every variable keeps its type; no membership and no invitation outlives its
\* company or its user, a user belongs to a company once, and ids are not reused.
THEOREM AccountsTypeCorrect == Spec => []TypeOK
<1>1. TypeInv => TypeOK
  BY DEF TypeInv, TypeOK, UsersOK, MembersOK, InvitationsOK, ObjectsOK, RequestsOK
<1>2. QED
  BY <1>1, TypeInvInit, TypeInvStep, PTL DEF Spec

-----------------------------------------------------------------------------
(* How requests move *)

Removing(q) ==
    \/ \E m \in member, role \in Role : BeginChangeRole(q, m, role)
    \/ \E m \in member : BeginRemoveMember(q, m)
    \/ AssertNotLastOwner(q)
    \/ \E u \in User : BeginDeleteAccount(q, u)
    \/ \E t \in Tenant : CountOwners(q, t)

\* A request changes only its own state.
LEMMA OthersWait ==
    ASSUME TypeInv, NEW q \in Request, RequestNext(q), NEW p \in Request, p # q
    PROVE  req'[p] = req[p]
<1>0. req \in [Request -> RequestState]
  BY DEF TypeInv, RequestsOK
<1>1. ASSUME NEW c, Begin(q, c) PROVE req'[p] = req[p]
  BY <1>0, <1>1 DEF Begin
<1>2. ASSUME NEW pc, Goto(q, pc) PROVE req'[p] = req[p]
  BY <1>0, <1>2 DEF Goto
<1>3. ASSUME Return(q) PROVE req'[p] = req[p]
  BY <1>1, <1>3 DEF Return
<1>4. QED
  BY <1>1, <1>2, <1>3
  DEF RequestNext, BeginInvite, CountUsers, CheckMember, CreateInvitation, BeginAccept, BeginRevoke,
      FindUser, CreateUser, Join, Revoke, BeginChangeRole, BeginRemoveMember, AssertNotLastOwner,
      SetRole, DeleteMember, BeginDeleteAccount, CountOwners, DeleteUser, BeginDeleteTenant,
      BeginUpload, DeleteTenant, Cleanup, PutObject, RequestLost

\* A request on its way to taking a member or a role away changes no row, and
\* does not come to add anybody.
LEMMA RemovingMoves ==
    ASSUME TypeInv, NEW q \in Request, Removing(q)
    PROVE  /\ UNCHANGED Tables
           /\ req'[q].pc \in {"idle", "owners", "setRole", "deleteMember", "countOwners",
                             "deleteUser"}
<1> DEFINE Removal == {"idle", "owners", "setRole", "deleteMember", "countOwners", "deleteUser"}
<1>0. req \in [Request -> RequestState] /\ req[q] \in RequestState
  BY DEF TypeInv, RequestsOK
<1>1. UNCHANGED Tables
  BY DEF Removing, BeginChangeRole, BeginRemoveMember, AssertNotLastOwner, BeginDeleteAccount,
         CountOwners, Tables
<1>2. ASSUME NEW c, Begin(q, c), c.pc \in Removal PROVE req'[q].pc \in Removal
  BY <1>0, <1>2, BeginEffect
<1>3. ASSUME Return(q) PROVE req'[q].pc \in Removal
  BY <1>2, <1>3, IdleCall DEF Return
<1>4. ASSUME NEW m \in member, NEW role \in Role, BeginChangeRole(q, m, role)
      PROVE  req'[q].pc \in Removal
  <2>1. PICK pc \in {"owners", "setRole"} :
          pc = IF m.role = "OWNER" /\ role # "OWNER" THEN "owners" ELSE "setRole"
    OBVIOUS
  <2>2. PICK c : c = [IdleRequest EXCEPT !.pc = pc, !.then = "setRole", !.tenant = m.tenant,
                                         !.id = m.id, !.role = role]
    OBVIOUS
  <2>3. c.pc = pc
    BY <2>2 DEF IdleRequest
  <2>4. Begin(q, c)
    BY <1>4, <2>1, <2>2 DEF BeginChangeRole
  <2>5. QED
    BY <1>2, <2>3, <2>4
<1>5. ASSUME NEW m \in member, BeginRemoveMember(q, m) PROVE req'[q].pc \in Removal
  <2>1. PICK pc \in {"owners", "deleteMember"} :
          pc = IF m.role = "OWNER" THEN "owners" ELSE "deleteMember"
    OBVIOUS
  <2>2. PICK c : c = [IdleRequest EXCEPT !.pc = pc, !.then = "deleteMember", !.tenant = m.tenant,
                                         !.id = m.id]
    OBVIOUS
  <2>3. c.pc = pc
    BY <2>2 DEF IdleRequest
  <2>4. Begin(q, c)
    BY <1>5, <2>1, <2>2 DEF BeginRemoveMember
  <2>5. QED
    BY <1>2, <2>3, <2>4
<1>6. ASSUME AssertNotLastOwner(q) PROVE req'[q].pc \in Removal
  <2>1. \/ Return(q)
        \/ Goto(q, req[q].then) /\ req[q].then \in {"setRole", "deleteMember"}
    BY <1>6 DEF AssertNotLastOwner, At, TypeInv, RequestsOK, CallOK
  <2>2. CASE Goto(q, req[q].then) /\ req[q].then \in {"setRole", "deleteMember"}
    <3>1. req[q].then \in RequestPc
      BY <1>0 DEF RequestState
    <3>2. PICK c \in RequestState : Begin(q, c) /\ c.pc = req[q].then
      BY <1>0, <2>2, <3>1, GotoIsBegin
    <3>3. QED
      BY <1>2, <2>2, <3>2
  <2>3. QED
    BY <1>3, <2>1, <2>2
<1>7. ASSUME NEW u \in User, BeginDeleteAccount(q, u) PROVE req'[q].pc \in Removal
  <2>1. PICK owned : owned = {m.tenant : m \in {n \in member : n.user = u /\ n.role = "OWNER"}}
    OBVIOUS
  <2>2. PICK c : c = [IdleRequest EXCEPT !.pc = IF owned = {} THEN "deleteUser" ELSE "countOwners",
                                         !.user = u, !.left = owned]
    OBVIOUS
  <2>3. c.pc \in Removal
    BY <2>2 DEF IdleRequest
  <2>4. Begin(q, c)
    BY <1>7, <2>1, <2>2 DEF BeginDeleteAccount
  <2>5. QED
    BY <1>2, <2>3, <2>4
<1>8. ASSUME NEW t \in Tenant, CountOwners(q, t) PROVE req'[q].pc \in Removal
  <2>1. PICK pc \in Removal : pc = IF req[q].left = {t} THEN "deleteUser" ELSE "countOwners"
    OBVIOUS
  <2>2. PICK c : c = [req[q] EXCEPT !.left = @ \ {t}, !.pc = pc]
    OBVIOUS
  <2>3. c.pc = pc
    BY <1>0, <2>2 DEF RequestState
  <2>4. Return(q) \/ Begin(q, c)
    BY <1>8, <2>1, <2>2 DEF CountOwners
  <2>5. QED
    BY <1>2, <1>3, <2>3, <2>4
<1>9. QED
  BY <1>1, <1>4, <1>5, <1>6, <1>7, <1>8 DEF Removing

-----------------------------------------------------------------------------
(* What is left of a company *)

\* A request that cleans up goes on until it is done or has given up.
LEMMA CleanupStep ==
    ASSUME TypeInv, [Next]_vars, NEW q \in Request, At(q, "cleanup"), NEW t, t = req[q].tenant
    PROVE  \/ req'[q] = req[q]
           \/ t \notin objects'
           \/ t \in spilled'
<1>1. ASSUME RequestNext(q) PROVE Cleanup(q) \/ RequestLost(q)
  BY <1>1
  DEF At, RequestNext, BeginInvite, CountUsers, CheckMember, CreateInvitation, BeginAccept,
      BeginRevoke, FindUser, CreateUser, Join, Revoke, BeginChangeRole, BeginRemoveMember,
      AssertNotLastOwner, SetRole, DeleteMember, BeginDeleteAccount, CountOwners, DeleteUser,
      BeginDeleteTenant, BeginUpload, DeleteTenant, PutObject
<1>2. Cleanup(q) \/ RequestLost(q) => t \notin objects' \/ t \in spilled'
  BY DEF Cleanup, RequestLost
<1>3. ASSUME NEW p \in Request, RequestNext(p), p # q PROVE req'[q] = req[q]
  BY <1>3, OthersWait
<1>4. PlatformNext \/ UNCHANGED vars => req'[q] = req[q]
  BY DEF PlatformNext, Register, Expire, DeleteOldInvitations, vars
<1>5. QED
  BY <1>1, <1>2, <1>3, <1>4 DEF Next

\* Companies go by DeleteTenant, and objects come by PutObject.
LEMMA ObjectMoves ==
    ASSUME TypeInv, [Next]_vars
    PROVE  /\ spilled \subseteq spilled'
           /\ \A t \in objects' \ objects : t \in tenants \/ t \in spilled'
           /\ \A t \in tenants \ tenants' :
                  \E q \in Request : DeleteTenant(q) /\ t = req[q].tenant
           /\ objects' = objects \/ tenants' = tenants
<1>1. CASE \E q \in Request : DeleteTenant(q)
  BY <1>1 DEF DeleteTenant
<1>2. ASSUME NEW q \in Request, RequestNext(q), ~DeleteTenant(q)
      PROVE  /\ tenants' = tenants /\ spilled \subseteq spilled'
             /\ \A t \in objects' \ objects : t \in tenants \/ t \in spilled'
  <2>1. CASE Cleanup(q) \/ PutObject(q) \/ RequestLost(q)
    BY <2>1 DEF Cleanup, PutObject, RequestLost
  <2>2. CASE ~(Cleanup(q) \/ PutObject(q) \/ RequestLost(q))
    BY <1>2, <2>2
    DEF RequestNext, BeginInvite, CountUsers, CheckMember, CreateInvitation, BeginAccept,
        BeginRevoke, FindUser, CreateUser, Join, Revoke, BeginChangeRole, BeginRemoveMember,
        AssertNotLastOwner, SetRole, DeleteMember, BeginDeleteAccount, CountOwners, DeleteUser,
        BeginDeleteTenant, BeginUpload
  <2>3. QED
    BY <2>1, <2>2
<1>3. CASE PlatformNext
  BY <1>3 DEF PlatformNext, Register, Expire, DeleteOldInvitations
<1>4. CASE UNCHANGED vars
  BY <1>4 DEF vars
<1>5. QED
  BY <1>1, <1>2, <1>3, <1>4 DEF Next

LEMMA NothingLeftStep == TypeInv /\ NothingLeft /\ [Next]_vars => NothingLeft'
<1> SUFFICES ASSUME TypeInv, NothingLeft, [Next]_vars, NEW t \in objects', t \notin tenants',
                    t \notin spilled'
             PROVE  \E q \in Request : req'[q].pc = "cleanup" /\ req'[q].tenant = t
  BY DEF NothingLeft, At
<1>1. CASE t \in tenants
  <2>1. PICK q \in Request : DeleteTenant(q) /\ t = req[q].tenant
    BY <1>1, ObjectMoves
  <2>2. req \in [Request -> RequestState] /\ "cleanup" \in RequestPc
    BY DEF TypeInv, RequestsOK, RequestPc
  <2>3. Goto(q, "cleanup")
    BY <1>1, <2>1 DEF DeleteTenant
  <2>4. PICK c \in RequestState : Begin(q, c) /\ c.pc = "cleanup" /\ c.tenant = req[q].tenant
    BY <2>2, <2>3, GotoIsBegin
  <2>5. QED
    BY <2>1, <2>2, <2>4, BeginEffect
<1>2. CASE t \notin tenants
  <2>1. t \in objects /\ t \notin spilled
    BY <1>2, ObjectMoves
  <2>2. PICK q \in Request : At(q, "cleanup") /\ req[q].tenant = t
    BY <1>2, <2>1 DEF NothingLeft
  <2>3. req'[q] = req[q]
    BY <2>2, CleanupStep
  <2>4. QED
    BY <2>2, <2>3 DEF At
<1>3. QED
  BY <1>1, <1>2

\* Of a deleted company nothing stays in the object store: whatever is there is
\* still to be cleaned up by a deletion in progress, or the store failed, the
\* handler was cut short, or an upload put an object there after the deletion.
THEOREM DeletedCompanyLeavesNothing == Spec => []NothingLeft
<1>1. Init => NothingLeft
  BY DEF Init, NothingLeft
<1>2. QED
  BY <1>1, TypeInvInit, TypeInvStep, NothingLeftStep, PTL DEF Spec

-----------------------------------------------------------------------------
(* How far the plan can be exceeded *)

LEMMA PlacesType ==
    /\ IsFiniteSet(Request) /\ Cardinality(Request) \in Nat
    /\ MaxUsers \in Nat \ {0} /\ Places \in Nat
BY AccountsAssumption, FS_CardinalityType DEF Places

LEMMA TwoParts ==
    ASSUME NEW U, IsFiniteSet(U), NEW S \in SUBSET U, NEW T \in SUBSET U, S \cap T = {}
    PROVE  Cardinality(S) + Cardinality(T) <= Cardinality(U)
<1>1. IsFiniteSet(S) /\ IsFiniteSet(T) /\ S \cup T \in SUBSET U
  BY FS_Subset
<1>2. Cardinality(S \cup T) = Cardinality(S) + Cardinality(T) - Cardinality(S \cap T)
  BY <1>1, FS_Union
<1>3. Cardinality(S \cap T) = 0
  BY FS_EmptySet
<1>4. Cardinality(S \cup T) <= Cardinality(U)
  BY <1>1, FS_Subset
<1>5. Cardinality(S) \in Nat /\ Cardinality(T) \in Nat /\ Cardinality(U) \in Nat
  BY <1>1, FS_CardinalityType
<1>6. QED
  BY <1>2, <1>3, <1>4, <1>5

\* The numbers the invariant is about, before and after a step.
LEMMA Sizes ==
    ASSUME TypeInv, NEW t
    PROVE  /\ Cardinality(Members(t)) \in Nat /\ Cardinality(Pending(t)) \in Nat
           /\ IsFiniteSet(Members(t)) /\ IsFiniteSet(Pending(t))
           /\ Cardinality(Admitted(t)) \in Nat /\ IsFiniteSet(Admitted(t))
           /\ IsFiniteSet(Halfway(t)) /\ Cardinality(Halfway(t)) \in Nat
           /\ Cardinality(Halfway(t)) + Cardinality(Admitted(t)) <= Cardinality(Request)
           /\ \A q \in Halfway(t) : req[q].seen \in Nat
<1>1. IsFiniteSet(Members(t)) /\ IsFiniteSet(Pending(t))
  <2>1. Members(t) \subseteq member /\ Pending(t) \subseteq Invitation
    BY DEF Members, Pending
  <2>2. QED
    BY <2>1, AccountsAssumption, FS_Subset DEF TypeInv, MembersOK
<1>2. /\ Admitted(t) \subseteq Request /\ Halfway(t) \subseteq Request
      /\ Admitted(t) \cap Halfway(t) = {}
  BY DEF Admitted, Halfway, At, JoinPc
<1>3. /\ IsFiniteSet(Admitted(t)) /\ IsFiniteSet(Halfway(t))
  BY <1>2, AccountsAssumption, FS_Subset
<1>4. Cardinality(Halfway(t)) + Cardinality(Admitted(t)) <= Cardinality(Request)
  BY <1>2, AccountsAssumption, TwoParts
<1>5. \A q \in Halfway(t) : req[q].seen \in Nat
  BY DEF Halfway, TypeInv, RequestsOK, RequestState
<1>6. QED
  BY <1>1, <1>3, <1>4, <1>5, FS_CardinalityType

LEMMA SizesNext ==
    ASSUME TypeInv', NEW t
    PROVE  /\ Cardinality(Members(t)') \in Nat /\ Cardinality(Pending(t)') \in Nat
           /\ IsFiniteSet(Members(t)') /\ IsFiniteSet(Pending(t)')
           /\ Cardinality(Admitted(t)') \in Nat /\ IsFiniteSet(Admitted(t)')
           /\ IsFiniteSet(Halfway(t)') /\ Cardinality(Halfway(t)') \in Nat
           /\ Cardinality(Halfway(t)') + Cardinality(Admitted(t)') <= Cardinality(Request)
           /\ \A q \in Halfway(t)' : req'[q].seen \in Nat
<1>1. IsFiniteSet(Members(t)') /\ IsFiniteSet(Pending(t)')
  <2>1. Members(t)' \subseteq member' /\ Pending(t)' \subseteq Invitation
    BY DEF Members, Pending
  <2>2. QED
    BY <2>1, AccountsAssumption, FS_Subset DEF TypeInv, MembersOK
<1>2. /\ Admitted(t)' \subseteq Request /\ Halfway(t)' \subseteq Request
      /\ Admitted(t)' \cap Halfway(t)' = {}
  BY DEF Admitted, Halfway, At, JoinPc
<1>3. /\ IsFiniteSet(Admitted(t)') /\ IsFiniteSet(Halfway(t)')
  BY <1>2, AccountsAssumption, FS_Subset
<1>4. Cardinality(Halfway(t)') + Cardinality(Admitted(t)') <= Cardinality(Request)
  BY <1>2, AccountsAssumption, TwoParts
<1>5. \A q \in Halfway(t)' : req'[q].seen \in Nat
  BY DEF Halfway, TypeInv, RequestsOK, RequestState
<1>6. QED
  BY <1>1, <1>3, <1>4, <1>5, FS_CardinalityType

\* A step that starts no count, and takes no place that was not held already.
LEMMA Release ==
    ASSUME TypeInv, TypeInv', NEW t, RoomLeft(t),
           Halfway(t)' \subseteq Halfway(t),
           \A q \in Halfway(t)' : req'[q].seen = req[q].seen /\ req'[q].counts = req[q].counts,
           Cardinality(Members(t)') + Cardinality(Admitted(t)')
               <= Cardinality(Members(t)) + Cardinality(Admitted(t)),
           Cardinality(Pending(t)') + Cardinality(Admitted(t)')
               <= Cardinality(Pending(t)) + Cardinality(Admitted(t)),
           Taken(t)' <= Taken(t)
    PROVE  RoomLeft(t)'
<1>0. /\ Taken(t) \in Nat /\ Taken(t)' \in Nat
      /\ Cardinality(Admitted(t)) \in Nat /\ Cardinality(Admitted(t)') \in Nat
      /\ Places \in Nat /\ Cardinality(Request) \in Nat
  BY Sizes, SizesNext, PlacesType DEF Taken
<1>1. ASSUME NEW q \in Halfway(t)'
      PROVE  /\ Missed(q, t) \in Int /\ Missed(q, t)' \in Int
             /\ Missed(q, t)' + Cardinality(Admitted(t)') <= Missed(q, t) + Cardinality(Admitted(t))
  <2>1. req[q].seen \in Nat /\ req'[q].seen = req[q].seen /\ Counted(q)' = Counted(q)
    BY <1>1, Sizes DEF Counted
  <2>2. CASE Counted(q) = "members"
    <3>1. /\ Missed(q, t) = Cardinality(Members(t)) - req[q].seen
          /\ Missed(q, t)' = Cardinality(Members(t)') - req[q].seen
      BY <2>1, <2>2 DEF Missed, CountOf
    <3>2. QED
      BY <2>1, <3>1, Sizes, SizesNext
  <2>3. CASE Counted(q) # "members"
    <3>1. /\ Missed(q, t) = Cardinality(Pending(t)) - req[q].seen
          /\ Missed(q, t)' = Cardinality(Pending(t)') - req[q].seen
      BY <2>1, <2>3 DEF Missed, CountOf
    <3>2. QED
      BY <2>1, <3>1, Sizes, SizesNext
  <2>4. QED
    BY <2>2, <2>3
<1>2. ASSUME NEW k \in Nat PROVE Cardinality(Harmful(t, k)') <= k
  <2>1. Harmful(t, k)' \subseteq Harmful(t, k)
    BY <1>0, <1>1 DEF Harmful
  <2>2. Harmful(t, k) \subseteq Halfway(t)
    BY DEF Harmful
  <2>3. /\ Cardinality(Harmful(t, k)') <= Cardinality(Harmful(t, k))
        /\ Cardinality(Harmful(t, k)') \in Nat /\ Cardinality(Harmful(t, k)) \in Nat
    BY <2>1, <2>2, Sizes, FS_Subset, FS_CardinalityType
  <2>4. QED
    BY <2>3 DEF RoomLeft
<1>3. Taken(t)' < Places
  BY <1>0 DEF RoomLeft
<1>4. QED
  BY <1>2, <1>3 DEF RoomLeft, Places

\* A first count: the request has missed nothing yet, so it does no harm unless
\* every request may.
LEMMA FirstCount ==
    ASSUME TypeInv, TypeInv', NEW t, RoomLeft(t), NEW q \in Request,
           UNCHANGED Tables, Admitted(t)' = Admitted(t),
           q \notin Halfway(t), Halfway(t)' = Halfway(t) \cup {q},
           \A p \in Halfway(t) : req'[p] = req[p],
           Missed(q, t)' = 0
    PROVE  RoomLeft(t)'
<1>0. /\ Members(t)' = Members(t) /\ Pending(t)' = Pending(t) /\ Taken(t)' = Taken(t)
      /\ Places' = Places
  BY DEF Tables, Members, Pending, Taken, Places
<1>1. ASSUME NEW p \in Halfway(t) PROVE Missed(p, t)' = Missed(p, t)
  BY <1>0, <1>1 DEF Missed, Counted, CountOf
<1>2. ASSUME NEW k \in Nat PROVE Cardinality(Harmful(t, k)') <= k
  <2>1. CASE q \in Harmful(t, k)'
    <3>1. Cardinality(Request) - Cardinality(Admitted(t)) <= k
      <4>1. Cardinality(Request) - Cardinality(Admitted(t)') - Missed(q, t)' <= k
        BY <2>1 DEF Harmful
      <4>2. Cardinality(Admitted(t)) \in Nat /\ Cardinality(Request) \in Nat
        BY Sizes, PlacesType
      <4>3. QED
        BY <4>1, <4>2
    <3>2. Harmful(t, k)' \subseteq Halfway(t)'
      BY DEF Harmful
    <3>3. /\ Cardinality(Harmful(t, k)') <= Cardinality(Halfway(t)')
          /\ Cardinality(Harmful(t, k)') \in Nat
      BY <3>2, SizesNext, FS_Subset, FS_CardinalityType
    <3>4. /\ Cardinality(Halfway(t)') + Cardinality(Admitted(t)) <= Cardinality(Request)
          /\ Cardinality(Halfway(t)') \in Nat
          /\ Cardinality(Admitted(t)) \in Nat /\ Cardinality(Request) \in Nat
      BY Sizes, SizesNext, PlacesType
    <3>5. QED
      BY <3>1, <3>3, <3>4
  <2>2. CASE q \notin Harmful(t, k)'
    <3>1. Harmful(t, k)' \subseteq Harmful(t, k)
      BY <1>0, <1>1, <2>2 DEF Harmful
    <3>2. Harmful(t, k) \subseteq Halfway(t)
      BY DEF Harmful
    <3>3. /\ Cardinality(Harmful(t, k)') <= Cardinality(Harmful(t, k))
          /\ Cardinality(Harmful(t, k)') \in Nat /\ Cardinality(Harmful(t, k)) \in Nat
      BY <3>1, <3>2, Sizes, FS_Subset, FS_CardinalityType
    <3>4. QED
      BY <3>3 DEF RoomLeft
  <2>3. QED
    BY <2>1, <2>2
<1>3. QED
  BY <1>0, <1>2 DEF RoomLeft

\* A second count that lets the request pass: it was one of the harmful ones,
\* and is so no more.
LEMMA Pass ==
    ASSUME TypeInv, TypeInv', NEW t, RoomLeft(t), NEW q \in Halfway(t),
           UNCHANGED Tables, Admitted(t)' = Admitted(t) \cup {q},
           Halfway(t)' = Halfway(t) \ {q},
           \A p \in Halfway(t)' : req'[p] = req[p],
           Cardinality(Members(t)) + Cardinality(Pending(t)) - Missed(q, t) < MaxUsers
    PROVE  RoomLeft(t)'
<1>0. /\ Members(t)' = Members(t) /\ Pending(t)' = Pending(t) /\ Places' = Places
      /\ Places = MaxUsers + Cardinality(Request)
  BY DEF Tables, Members, Pending, Places
<1>1. ASSUME NEW p \in Halfway(t)
      PROVE  Missed(p, t) \in Int
  <2>1. req[p].seen \in Nat
    BY <1>1, Sizes
  <2>2. CountOf(Counted(p), t) \in Nat
    BY Sizes DEF CountOf
  <2>3. QED
    BY <2>1, <2>2 DEF Missed
<1>2. ASSUME NEW p \in Halfway(t)' PROVE p \in Halfway(t) /\ Missed(p, t)' = Missed(p, t)
  BY <1>0, <1>2 DEF Missed, Counted, CountOf
<1>3. Cardinality(Admitted(t)') = Cardinality(Admitted(t)) + 1
  <2>1. q \notin Admitted(t)
    BY DEF Admitted, Halfway, At, JoinPc
  <2>2. QED
    BY <2>1, Sizes, FS_AddElement
<1>4. Taken(t) \in Nat /\ Taken(t)' = Taken(t) + 1
  BY <1>0, <1>3, Sizes DEF Taken
<1>5. \A k \in Nat : Places - 1 - Taken(t) <= k => q \in Harmful(t, k)
  BY <1>0, <1>1, <1>4, Sizes, PlacesType DEF Harmful, Taken
<1>6. ASSUME NEW k \in Nat
      PROVE  /\ IsFiniteSet(Harmful(t, k)) /\ Cardinality(Harmful(t, k)) \in Nat
  <2>1. Harmful(t, k) \subseteq Halfway(t)
    BY DEF Harmful
  <2>2. QED
    BY <2>1, Sizes, FS_Subset, FS_CardinalityType
<1>7. Taken(t)' < Places
  <2>1. PICK k \in Nat : k = Places - 1 - Taken(t)
    BY <1>4, PlacesType DEF RoomLeft
  <2>2. q \in Harmful(t, k)
    BY <1>5, <2>1
  <2>3. Cardinality(Harmful(t, k)) # 0
    BY <1>6, <2>2, FS_EmptySet
  <2>4. k >= 1
    BY <1>6, <2>3 DEF RoomLeft
  <2>5. QED
    BY <1>4, <2>1, <2>4, PlacesType
<1>8. ASSUME NEW k \in Nat PROVE Cardinality(Harmful(t, k)') <= k
  <2>1. CASE Places - 1 - Taken(t)' <= k
    <3>1. q \in Harmful(t, k + 1)
      BY <1>4, <1>5, <2>1, PlacesType
    <3>2. Harmful(t, k)' \subseteq Harmful(t, k + 1) \ {q}
      <4>1. ASSUME NEW p \in Harmful(t, k)' PROVE p \in Harmful(t, k + 1) \ {q}
        <5>1. /\ p \in Halfway(t)' /\ p \in Halfway(t) /\ p # q
              /\ Missed(p, t)' = Missed(p, t) /\ Missed(p, t) \in Int
          BY <1>1, <1>2, <4>1 DEF Harmful
        <5>2. Cardinality(Request) - Cardinality(Admitted(t)') - Missed(p, t) <= k
          BY <4>1, <5>1 DEF Harmful
        <5>3. Cardinality(Request) - Cardinality(Admitted(t)) - Missed(p, t) <= k + 1
          BY <1>3, <5>1, <5>2, Sizes, PlacesType
        <5>4. Places - 1 - Taken(t) <= k + 1
          BY <1>4, <2>1, PlacesType
        <5>5. QED
          BY <5>1, <5>3, <5>4 DEF Harmful
      <4>2. QED
        BY <4>1
    <3>3. k + 1 \in Nat /\ Cardinality(Harmful(t, k + 1)) <= k + 1
      BY DEF RoomLeft
    <3>4. Cardinality(Harmful(t, k + 1) \ {q}) = Cardinality(Harmful(t, k + 1)) - 1
      BY <1>6, <3>1, <3>3, FS_RemoveElement
    <3>5. /\ Cardinality(Harmful(t, k)') <= Cardinality(Harmful(t, k + 1) \ {q})
          /\ Cardinality(Harmful(t, k)') \in Nat
      <4>1. IsFiniteSet(Harmful(t, k + 1) \ {q})
        BY <1>6, <3>3, FS_RemoveElement
      <4>2. QED
        BY <3>2, <4>1, FS_Subset, FS_CardinalityType
    <3>6. QED
      BY <1>6, <3>3, <3>4, <3>5
  <2>2. CASE ~(Places - 1 - Taken(t)' <= k)
    <3>1. Harmful(t, k)' = {}
      BY <2>2 DEF Harmful
    <3>2. QED
      BY <3>1, FS_EmptySet
  <2>3. QED
    BY <2>1, <2>2
<1>9. QED
  BY <1>0, <1>7, <1>8 DEF RoomLeft

AdmittedPc == {"memberCheck", "createInvitation"} \cup JoinPc

\* Only a count lets a request pass, and a count begins with both numbers open.
LEMMA CheckMoves ==
    ASSUME TypeInv, NEW q \in Request, RequestNext(q), \A what \in Count : ~CountUsers(q, what)
    PROVE  /\ req'[q].pc \in AdmittedPc =>
                 req[q].pc \in AdmittedPc /\ req'[q].tenant = req[q].tenant
           /\ req'[q].pc = "count" => req'[q].counts = Count
<1> USE DEF AdmittedPc, JoinPc
<1>0. req \in [Request -> RequestState] /\ req[q] \in RequestState
  BY DEF TypeInv, RequestsOK
<1>1. ASSUME NEW pc \in RequestPc, Goto(q, pc)
      PROVE  req'[q].pc = pc /\ req'[q].tenant = req[q].tenant
  BY <1>0, <1>1, GotoIsBegin, BeginEffect
<1>2. ASSUME Return(q) PROVE req'[q].pc = "idle"
  BY <1>0, <1>2, BeginEffect, IdleCall DEF Return
<1>3. CASE Removing(q)
  <2>1. req[q].pc = "owners" => req[q].then \in {"setRole", "deleteMember"}
    BY DEF TypeInv, RequestsOK, CallOK
  <2>2. req'[q].pc \in {"idle", "owners", "setRole", "deleteMember", "countOwners", "deleteUser"}
    BY <1>3, <2>1, RemovingMoves DEF At
  <2>3. QED
    BY <2>2
<1>4. ASSUME NEW c, Begin(q, c),
             c.pc \in {"revoke", "deleteTenant", "putObject"} \/ (c.pc = "count" /\ c.counts = Count)
      PROVE  req'[q].pc \notin AdmittedPc /\ (req'[q].pc = "count" => req'[q].counts = Count)
  BY <1>0, <1>4, BeginEffect
<1>5. ASSUME NEW t \in Tenant, NEW u \in User, NEW role \in Role, BeginInvite(q, t, u, role)
      PROVE  req'[q].pc \notin AdmittedPc /\ (req'[q].pc = "count" => req'[q].counts = Count)
  <2>1. PICK c : c = [CheckLimit("memberCheck", t) EXCEPT !.user = u, !.role = role]
    OBVIOUS
  <2>2. c.pc = "count" /\ c.counts = Count
    BY <2>1 DEF CheckLimit, IdleRequest
  <2>3. QED
    BY <1>4, <1>5, <2>1, <2>2 DEF BeginInvite
<1>6. ASSUME NEW i \in Invitation, BeginAccept(q, i)
      PROVE  req'[q].pc \notin AdmittedPc /\ (req'[q].pc = "count" => req'[q].counts = Count)
  <2>1. PICK c : c = [CheckLimit("findUser", inv[i].tenant) EXCEPT
                         !.inv = i, !.user = inv[i].user, !.role = inv[i].role]
    OBVIOUS
  <2>2. c.pc = "count" /\ c.counts = Count
    BY <2>1 DEF CheckLimit, IdleRequest
  <2>3. QED
    BY <1>4, <1>6, <2>1, <2>2 DEF BeginAccept
<1>7. ASSUME NEW i \in Invitation, BeginRevoke(q, i)
      PROVE  req'[q].pc \notin AdmittedPc /\ (req'[q].pc = "count" => req'[q].counts = Count)
  <2>1. PICK c : c = [IdleRequest EXCEPT !.pc = "revoke", !.inv = i]
    OBVIOUS
  <2>2. c.pc = "revoke"
    BY <2>1 DEF IdleRequest
  <2>3. QED
    BY <1>4, <1>7, <2>1, <2>2 DEF BeginRevoke
<1>8. ASSUME NEW t \in Tenant, BeginDeleteTenant(q, t) \/ BeginUpload(q, t)
      PROVE  req'[q].pc \notin AdmittedPc /\ (req'[q].pc = "count" => req'[q].counts = Count)
  <2>1. PICK pc : pc = IF BeginUpload(q, t) THEN "putObject" ELSE "deleteTenant"
    OBVIOUS
  <2>2. PICK c : c = [IdleRequest EXCEPT !.pc = pc, !.tenant = t]
    OBVIOUS
  <2>3. c.pc \in {"deleteTenant", "putObject"}
    BY <2>1, <2>2 DEF IdleRequest
  <2>4. Begin(q, c)
    BY <1>8, <2>1, <2>2 DEF BeginDeleteTenant, BeginUpload
  <2>5. QED
    BY <1>4, <2>3, <2>4
<1>9. CASE \/ CheckMember(q) \/ FindUser(q) \/ CreateUser(q) \/ DeleteTenant(q)
  BY <1>1, <1>2, <1>9 DEF CheckMember, FindUser, CreateUser, DeleteTenant, RequestPc, At
<1>10. CASE \/ \E i \in Invitation : CreateInvitation(q, i)
            \/ Join(q) \/ Revoke(q) \/ SetRole(q) \/ DeleteMember(q) \/ DeleteUser(q)
            \/ Cleanup(q) \/ PutObject(q) \/ RequestLost(q)
  BY <1>2, <1>10 DEF CreateInvitation, Join, Revoke, SetRole, DeleteMember, DeleteUser, Cleanup,
                     PutObject, RequestLost
<1>11. QED
  BY <1>3, <1>5, <1>6, <1>7, <1>8, <1>9, <1>10 DEF RequestNext, Removing

\* The three outcomes of a count.
LEMMA CountMoves ==
    ASSUME TypeInv, NEW q \in Request, NEW what \in Count, CountUsers(q, what)
    PROVE  /\ UNCHANGED Tables /\ At(q, "count")
           /\ \/ req'[q].pc = "idle"
              \/ /\ req[q].counts = Count /\ req[q].seen = 0
                 /\ req'[q].pc = "count" /\ req'[q].tenant = req[q].tenant
                 /\ req'[q].counts = Count \ {what}
                 /\ req'[q].seen = CountOf(what, req[q].tenant)
              \/ /\ req[q].counts = {what}
                 /\ req'[q].pc \in {"memberCheck", "findUser"}
                 /\ req'[q].tenant = req[q].tenant
                 /\ req[q].seen + CountOf(what, req[q].tenant) < MaxUsers
<1>0. /\ req \in [Request -> RequestState] /\ req[q] \in RequestState
      /\ req[q].then \in {"memberCheck", "findUser"}
      /\ req[q].counts \subseteq Count /\ what \in req[q].counts
      /\ req[q].counts = Count => req[q].seen = 0
      /\ req[q].tenant \in Tenant
  BY DEF CountUsers, At, TypeInv, RequestsOK, CallOK, RequestState, TenantPc
<1>1. PICK seen, left : /\ seen = req[q].seen + CountOf(what, req[q].tenant)
                        /\ left = req[q].counts \ {what}
  OBVIOUS
<1>2. UNCHANGED Tables /\ At(q, "count")
  BY DEF CountUsers, Tables
<1>3. CASE left # {} /\ Begin(q, [req[q] EXCEPT !.seen = seen, !.counts = left])
  <2>1. PICK c : c = [req[q] EXCEPT !.seen = seen, !.counts = left]
    OBVIOUS
  <2>2. c.seen = seen /\ c.counts = left /\ c.pc = "count" /\ c.tenant = req[q].tenant
    BY <1>0, <1>2, <2>1 DEF At, RequestState
  <2>3. req'[q] = c
    BY <1>0, <1>3, <2>1, BeginEffect
  <2>4. req[q].counts = Count
    BY <1>0, <1>1, <1>3
  <2>5. seen = CountOf(what, req[q].tenant)
    BY <1>0, <1>1, <2>4, CountType
  <2>6. QED
    BY <1>0, <1>1, <1>2, <2>2, <2>3, <2>4, <2>5
<1>4. CASE /\ left = {} /\ seen < MaxUsers
           /\ Begin(q, [req[q] EXCEPT !.pc = req[q].then, !.seen = 0, !.counts = {}])
  <2>1. PICK c : c = [req[q] EXCEPT !.pc = req[q].then, !.seen = 0, !.counts = {}]
    OBVIOUS
  <2>2. c.pc = req[q].then /\ c.tenant = req[q].tenant
    BY <1>0, <2>1 DEF RequestState
  <2>3. req'[q] = c
    BY <1>0, <1>4, <2>1, BeginEffect
  <2>4. req[q].counts = {what}
    BY <1>0, <1>1, <1>4
  <2>5. QED
    BY <1>0, <1>1, <1>2, <1>4, <2>2, <2>3, <2>4
<1>5. CASE Return(q)
  BY <1>0, <1>2, <1>5, BeginEffect, IdleCall DEF Return
<1>6. QED
  BY <1>1, <1>3, <1>4, <1>5 DEF CountUsers

\* A request that counts nothing moves no other, and is halfway through no check.
LEMMA NoNewCount ==
    ASSUME TypeInv, NEW q \in Request, RequestNext(q), \A what \in Count : ~CountUsers(q, what),
           NEW t
    PROVE  /\ Admitted(t)' \subseteq Admitted(t) /\ Halfway(t)' \subseteq Halfway(t)
           /\ \A p \in Halfway(t)' : req'[p] = req[p]
           /\ Join(q) \/ (\E i \in Invitation : CreateInvitation(q, i)) => q \notin Admitted(t)'
<1>1. ASSUME NEW p \in Request, p # q PROVE req'[p] = req[p]
  BY <1>1, OthersWait
<1>2. ASSUME NEW p \in Admitted(t)' PROVE p \in Admitted(t)
  <2>1. p \in Request /\ req'[p].pc \in AdmittedPc /\ req'[p].tenant = t
    BY <1>2 DEF Admitted, AdmittedPc
  <2>2. req[p].pc \in AdmittedPc /\ req[p].tenant = t
    BY <1>1, <2>1, CheckMoves
  <2>3. QED
    BY <2>1, <2>2 DEF Admitted, AdmittedPc
<1>3. ASSUME NEW p \in Halfway(t)' PROVE p \in Halfway(t) /\ req'[p] = req[p]
  <2>1. /\ p \in Request /\ req'[p].pc = "count" /\ req'[p].tenant = t
        /\ req'[p].counts \in {{"members"}, {"invitations"}}
    BY <1>3 DEF Halfway, At
  <2>2. p # q
    BY <2>1, CheckMoves
  <2>3. req'[p] = req[p]
    BY <1>1, <2>1, <2>2
  <2>4. QED
    BY <2>1, <2>3 DEF Halfway, At
<1>4. ASSUME Return(q) PROVE q \notin Admitted(t)'
  <2>1. req'[q].pc = "idle"
    BY <1>4, BeginEffect, IdleCall DEF Return, TypeInv, RequestsOK
  <2>2. QED
    BY <2>1 DEF Admitted, JoinPc
<1>5. Join(q) \/ (\E i \in Invitation : CreateInvitation(q, i)) => Return(q)
  BY DEF Join, CreateInvitation
<1>6. QED
  BY <1>2, <1>3, <1>4, <1>5

\* Only Join and CreateInvitation add to the users of a company that stays.
LEMMA FewerUsers ==
    ASSUME TypeInv, TypeInv', NEW t \in tenants, t \in tenants',
           \/ PlatformNext
           \/ \E q \in Request : /\ RequestNext(q) /\ ~Join(q)
                                 /\ \A i \in Invitation : ~CreateInvitation(q, i)
    PROVE  /\ Cardinality(Members(t)') <= Cardinality(Members(t))
           /\ Cardinality(Pending(t)') <= Cardinality(Pending(t))
<1>1. ASSUME NEW q \in Request, SetRole(q) PROVE Cardinality(Members(t)') <= Cardinality(Members(t))
  <2>1. PICK f : f = [m \in Members(t) |-> Promoted(m, req[q].id, req[q].role)]
    OBVIOUS
  <2>2. ASSUME NEW m \in Members(t)
        PROVE  Promoted(m, req[q].id, req[q].role) \in Members(t)'
    BY <1>1, SetRoleMembers DEF Members
  <2>3. ASSUME NEW n \in Members(t)' PROVE \E m \in Members(t) : f[m] = n
    <3>1. PICK m \in member : n = Promoted(m, req[q].id, req[q].role)
      BY <1>1, SetRoleMembers DEF Members
    <3>2. m \in Members(t)
      BY <1>1, <3>1, SetRoleMembers DEF Members
    <3>3. QED
      BY <2>1, <3>1, <3>2
  <2>4. f \in Surjection(Members(t), Members(t)')
    BY <2>1, <2>2, <2>3 DEF Surjection
  <2>5. QED
    BY <2>4, Sizes, FS_Surjection
<1>2. ASSUME Members(t)' \subseteq Members(t)
      PROVE  Cardinality(Members(t)') <= Cardinality(Members(t))
  BY <1>2, Sizes, FS_Subset
<1>3. ASSUME Pending(t)' \subseteq Pending(t)
      PROVE  Cardinality(Pending(t)') <= Cardinality(Pending(t))
  BY <1>3, Sizes, FS_Subset
<1>4. ASSUME UNCHANGED <<member, inv>>
      PROVE  Members(t)' = Members(t) /\ Pending(t)' = Pending(t)
  BY <1>4 DEF Members, Pending
<1>5. ASSUME NEW q \in Request, RequestNext(q), ~Join(q),
             \A i \in Invitation : ~CreateInvitation(q, i)
      PROVE  /\ SetRole(q) \/ Members(t)' \subseteq Members(t)
             /\ Pending(t)' \subseteq Pending(t)
  <2>1. CASE SetRole(q) \/ DeleteMember(q) \/ DeleteUser(q)
    BY <2>1 DEF SetRole, DeleteMember, DeleteUser, Members, Pending
  <2>2. CASE Revoke(q)
    <3>1. member' = member /\ inv \in [Invitation -> InvitationRow]
      BY <2>2 DEF Revoke, TypeInv, InvitationsOK
    <3>2. \A i \in Invitation : inv'[i] = inv[i] \/ inv'[i].state = "gone"
      BY <2>2, <3>1, DeletedRowType DEF Revoke
    <3>3. QED
      BY <3>1, <3>2 DEF Members, Pending
  <2>3. CASE DeleteTenant(q)
    <3>1. member' \subseteq member
      BY <2>3 DEF DeleteTenant
    <3>2. \A i \in Invitation : inv'[i] = inv[i] \/ inv'[i].state = "gone"
      BY <2>3, DeletedRowType DEF DeleteTenant
    <3>3. QED
      BY <3>1, <3>2 DEF Members, Pending
  <2>4. CASE ~(SetRole(q) \/ DeleteMember(q) \/ DeleteUser(q) \/ Revoke(q) \/ DeleteTenant(q))
    <3>1. CASE Removing(q) \/ \E what \in Count : CountUsers(q, what)
      BY <1>4, <3>1, RemovingMoves, CountMoves DEF Tables
    <3>2. CASE ~(Removing(q) \/ \E what \in Count : CountUsers(q, what))
      <4>1. \/ \E s \in Tenant, u \in User, role \in Role : BeginInvite(q, s, u, role)
            \/ \E i \in Invitation : BeginAccept(q, i) \/ BeginRevoke(q, i)
            \/ \E s \in Tenant : BeginDeleteTenant(q, s) \/ BeginUpload(q, s)
            \/ CheckMember(q) \/ FindUser(q) \/ CreateUser(q)
            \/ Cleanup(q) \/ PutObject(q) \/ RequestLost(q)
        BY <1>5, <2>4, <3>2 DEF Removing, RequestNext
      <4>2. UNCHANGED <<member, inv>>
        BY <4>1
        DEF BeginInvite, BeginAccept, BeginRevoke, BeginDeleteTenant, BeginUpload, CheckMember,
            FindUser, CreateUser, Cleanup, PutObject, RequestLost
      <4>3. QED
        BY <1>4, <4>2
    <3>3. QED
      BY <3>1, <3>2
  <2>5. QED
    BY <2>1, <2>2, <2>3, <2>4
<1>6. ASSUME PlatformNext
      PROVE  Members(t)' \subseteq Members(t) /\ Pending(t)' \subseteq Pending(t)
  <2>1. ASSUME NEW u \in User, NEW s \in Tenant, Register(u, s)
        PROVE  Members(t)' \subseteq Members(t) /\ Pending(t)' \subseteq Pending(t)
    <3>1. s # t
      BY <2>1 DEF Register, TypeInv, UsersOK
    <3>2. QED
      BY <2>1, <3>1 DEF Register, Members, Pending
  <2>2. ASSUME NEW i \in Invitation, Expire(i)
        PROVE  Members(t)' \subseteq Members(t) /\ Pending(t)' \subseteq Pending(t)
    <3>1. /\ inv \in [Invitation -> InvitationRow] /\ inv[i] \in InvitationRow
          /\ inv' = [inv EXCEPT ![i] = [inv[i] EXCEPT !.expired = TRUE]] /\ member' = member
      BY <2>2 DEF Expire, TypeInv, InvitationsOK
    <3>2. inv'[i].expired /\ \A j \in Invitation \ {i} : inv'[j] = inv[j]
      BY <3>1 DEF InvitationRow
    <3>3. QED
      BY <3>1, <3>2 DEF Members, Pending
  <2>3. CASE DeleteOldInvitations
    <3>1. \A i \in Invitation : inv'[i] = inv[i] \/ inv'[i].state = "gone"
      BY <2>3, DeletedRowType DEF DeleteOldInvitations
    <3>2. QED
      BY <2>3, <3>1 DEF DeleteOldInvitations, Members, Pending
  <2>4. QED
    BY <1>6, <2>1, <2>2, <2>3 DEF PlatformNext
<1>7. QED
  BY <1>1, <1>2, <1>3, <1>5, <1>6

\* A membership, or an invitation, takes the place of the request that creates it.
LEMMA TakesItsPlace ==
    ASSUME TypeInv, TypeInv', NEW q \in Request, RequestNext(q), NEW t \in tenants, t \in tenants',
           Join(q) \/ \E i \in Invitation : CreateInvitation(q, i)
    PROVE  /\ Cardinality(Members(t)') + Cardinality(Admitted(t)')
                <= Cardinality(Members(t)) + Cardinality(Admitted(t))
           /\ Cardinality(Pending(t)') + Cardinality(Admitted(t)')
                <= Cardinality(Pending(t)) + Cardinality(Admitted(t))
           /\ Taken(t)' <= Taken(t)
<1>0. /\ Cardinality(Members(t)) \in Nat /\ Cardinality(Members(t)') \in Nat
      /\ Cardinality(Pending(t)) \in Nat /\ Cardinality(Pending(t)') \in Nat
      /\ Cardinality(Admitted(t)) \in Nat /\ Cardinality(Admitted(t)') \in Nat
      /\ IsFiniteSet(Members(t)) /\ IsFiniteSet(Pending(t)) /\ IsFiniteSet(Admitted(t))
  BY Sizes, SizesNext
<1>1. \A what \in Count : ~CountUsers(q, what)
  BY DEF Join, CreateInvitation, CountUsers, At
<1>2. Admitted(t)' \subseteq Admitted(t) \ {q}
  BY <1>1, NoNewCount
<1>3. req[q].tenant = t => q \in Admitted(t)
  BY DEF Join, CreateInvitation, At, Admitted, JoinPc
<1>4. /\ Cardinality(Admitted(t)') <= Cardinality(Admitted(t))
      /\ req[q].tenant = t => Cardinality(Admitted(t)') <= Cardinality(Admitted(t)) - 1
  <2>1. /\ IsFiniteSet(Admitted(t) \ {q})
        /\ Cardinality(Admitted(t) \ {q}) = IF q \in Admitted(t) THEN Cardinality(Admitted(t)) - 1
                                                                ELSE Cardinality(Admitted(t))
    BY <1>0, FS_RemoveElement
  <2>2. Cardinality(Admitted(t)') <= Cardinality(Admitted(t) \ {q})
    BY <1>2, <2>1, FS_Subset
  <2>3. QED
    BY <1>0, <1>3, <2>1, <2>2
<1>5. ASSUME NEW S, NEW T, IsFiniteSet(S), NEW x, T \subseteq S \cup {x}
      PROVE  Cardinality(T) <= Cardinality(S) + 1
  <2>1. /\ IsFiniteSet(S \cup {x}) /\ Cardinality(S) \in Nat
        /\ Cardinality(S \cup {x}) = IF x \in S THEN Cardinality(S) ELSE Cardinality(S) + 1
    BY <1>5, FS_AddElement, FS_CardinalityType
  <2>2. Cardinality(T) <= Cardinality(S \cup {x}) /\ Cardinality(T) \in Nat
    BY <1>5, <2>1, FS_Subset, FS_CardinalityType
  <2>3. QED
    BY <2>1, <2>2
<1>6. CASE Join(q)
  <2>1. PICK n : n = [id |-> joins + 1, tenant |-> req[q].tenant, user |-> req[q].user,
                      role |-> req[q].role]
    OBVIOUS
  <2>2. member' \subseteq member \cup {n} /\ n.tenant = req[q].tenant
    BY <1>6, <2>1 DEF Join
  <2>3. \A i \in Invitation : inv'[i] = inv[i] \/ inv'[i].state = "accepted"
    <3>1. inv \in [Invitation -> InvitationRow] /\ req[q].inv \in Invitation
      BY <1>6 DEF Join, At, TypeInv, InvitationsOK, RequestsOK, CallOK, JoinCall, JoinPc
    <3>2. /\ inv[req[q].inv] \in InvitationRow
          /\ \/ inv' = inv
             \/ inv' = [inv EXCEPT ![req[q].inv] = [inv[req[q].inv] EXCEPT !.state = "accepted"]]
      BY <1>6, <3>1 DEF Join
    <3>3. QED
      BY <3>1, <3>2 DEF InvitationRow
  <2>4. Pending(t)' \subseteq Pending(t)
    BY <2>3 DEF Pending
  <2>5. Cardinality(Pending(t)') <= Cardinality(Pending(t))
    BY <1>0, <2>4, FS_Subset
  <2>6. CASE req[q].tenant = t
    <3>1. Members(t)' \subseteq Members(t) \cup {n}
      BY <2>2 DEF Members
    <3>2. Cardinality(Members(t)') <= Cardinality(Members(t)) + 1
      BY <1>0, <1>5, <3>1
    <3>3. QED
      BY <1>0, <1>4, <2>5, <2>6, <3>2 DEF Taken
  <2>7. CASE req[q].tenant # t
    <3>1. Members(t)' \subseteq Members(t)
      BY <2>2, <2>7 DEF Members
    <3>2. Cardinality(Members(t)') <= Cardinality(Members(t))
      BY <1>0, <3>1, FS_Subset
    <3>3. QED
      BY <1>0, <1>4, <2>5, <3>2 DEF Taken
  <2>8. QED
    BY <2>6, <2>7
<1>7. ASSUME NEW i \in Invitation, CreateInvitation(q, i)
      PROVE  /\ Cardinality(Members(t)') + Cardinality(Admitted(t)')
                  <= Cardinality(Members(t)) + Cardinality(Admitted(t))
             /\ Cardinality(Pending(t)') + Cardinality(Admitted(t)')
                  <= Cardinality(Pending(t)) + Cardinality(Admitted(t))
             /\ Taken(t)' <= Taken(t)
  <2>1. Members(t)' = Members(t)
    BY <1>7 DEF CreateInvitation, Members
  <2>2. /\ \A j \in Invitation \ {i} : inv'[j] = inv[j]
        /\ inv'[i] = inv[i] \/ inv'[i].tenant = req[q].tenant
    BY <1>7 DEF CreateInvitation, TypeInv, InvitationsOK
  <2>3. CASE req[q].tenant = t
    <3>1. Pending(t)' \subseteq Pending(t) \cup {i}
      BY <2>2 DEF Pending
    <3>2. Cardinality(Pending(t)') <= Cardinality(Pending(t)) + 1
      BY <1>0, <1>5, <3>1
    <3>3. QED
      BY <1>0, <1>4, <2>1, <2>3, <3>2 DEF Taken
  <2>4. CASE req[q].tenant # t
    <3>1. Pending(t)' \subseteq Pending(t)
      BY <2>2, <2>4 DEF Pending
    <3>2. Cardinality(Pending(t)') <= Cardinality(Pending(t))
      BY <1>0, <3>1, FS_Subset
    <3>3. QED
      BY <1>0, <1>4, <2>1, <3>2 DEF Taken
  <2>5. QED
    BY <2>3, <2>4
<1>8. QED
  BY <1>6, <1>7

\* The three outcomes of a count, for the company that is counted.
LEMMA CountStep ==
    ASSUME TypeInv, TypeInv', NEW q \in Request, NEW what \in Count, RequestNext(q),
           CountUsers(q, what), NEW t \in tenants, RoomLeft(t)
    PROVE  RoomLeft(t)'
<1>0. /\ UNCHANGED Tables /\ At(q, "count")
      /\ \A p \in Request : p # q => req'[p] = req[p]
      /\ Members(t)' = Members(t) /\ Pending(t)' = Pending(t)
  BY CountMoves, OthersWait DEF Tables, Members, Pending
<1>1. q \notin Admitted(t)
  BY <1>0 DEF At, Admitted, JoinPc
<1>2. ASSUME Admitted(t)' = Admitted(t), Halfway(t)' \subseteq Halfway(t), q \notin Halfway(t)'
      PROVE  RoomLeft(t)'
  <2>1. \A p \in Halfway(t)' : req'[p] = req[p]
    BY <1>0, <1>2 DEF Halfway
  <2>2. Taken(t)' = Taken(t) /\ Taken(t) \in Nat
    BY <1>0, <1>2, Sizes DEF Taken
  <2>3. /\ Cardinality(Members(t)) \in Nat /\ Cardinality(Pending(t)) \in Nat
        /\ Cardinality(Admitted(t)) \in Nat
    BY Sizes
  <2>4. QED
    BY <1>0, <1>2, <2>1, <2>2, <2>3, Release
<1>3. CASE req'[q].pc = "idle"
  <2>1. Admitted(t)' = Admitted(t)
    BY <1>0, <1>1, <1>3 DEF Admitted, JoinPc
  <2>2. Halfway(t)' \subseteq Halfway(t) /\ q \notin Halfway(t)'
    BY <1>0, <1>3 DEF Halfway, At
  <2>3. QED
    BY <1>2, <2>1, <2>2
<1>4. CASE req[q].tenant # t /\ req'[q].tenant = req[q].tenant
  <2>1. Admitted(t)' = Admitted(t)
    BY <1>0, <1>4 DEF Admitted
  <2>2. Halfway(t)' \subseteq Halfway(t) /\ q \notin Halfway(t)'
    BY <1>0, <1>4 DEF Halfway, At
  <2>3. QED
    BY <1>2, <2>1, <2>2
<1>5. CASE /\ req[q].tenant = t /\ req[q].counts = Count
           /\ req'[q].pc = "count" /\ req'[q].tenant = t
           /\ req'[q].counts = Count \ {what} /\ req'[q].seen = CountOf(what, t)
  <2>1. q \notin Halfway(t) /\ Halfway(t)' = Halfway(t) \cup {q}
    <3>1. Count \ {what} \in {{"members"}, {"invitations"}}
      OBVIOUS
    <3>2. QED
      BY <1>0, <1>5, <3>1 DEF Halfway, At
  <2>2. Admitted(t)' = Admitted(t)
    BY <1>0, <1>1, <1>5 DEF Admitted, JoinPc
  <2>3. Counted(q)' = what
    BY <1>5 DEF Counted
  <2>4. CountOf(what, t)' = CountOf(what, t) /\ CountOf(what, t) \in Nat
    BY <1>0, Sizes DEF CountOf
  <2>5. Missed(q, t)' = 0
    BY <1>5, <2>3, <2>4 DEF Missed
  <2>6. \A p \in Halfway(t) : req'[p] = req[p]
    BY <1>0, <2>1 DEF Halfway
  <2>7. QED
    BY <1>0, <2>1, <2>2, <2>5, <2>6, FirstCount
<1>6. CASE /\ req[q].tenant = t /\ req[q].counts = {what}
           /\ req'[q].pc \in {"memberCheck", "findUser"} /\ req'[q].tenant = t
           /\ req[q].seen + CountOf(what, t) < MaxUsers
  <2>1. q \in Halfway(t) /\ Halfway(t)' = Halfway(t) \ {q}
    BY <1>0, <1>6 DEF Halfway, At
  <2>2. Admitted(t)' = Admitted(t) \cup {q}
    BY <1>0, <1>6 DEF Admitted, JoinPc
  <2>3. \A p \in Halfway(t)' : req'[p] = req[p]
    BY <1>0, <2>1 DEF Halfway
  <2>4. Counted(q) # what /\ Counted(q) \in Count
    BY <1>6 DEF Counted
  <2>5. /\ Cardinality(Members(t)) \in Nat /\ Cardinality(Pending(t)) \in Nat
        /\ req[q].seen \in Nat /\ MaxUsers \in Nat
    BY <2>1, Sizes, PlacesType
  <2>6. Cardinality(Members(t)) + Cardinality(Pending(t)) - Missed(q, t)
            = req[q].seen + CountOf(what, t)
    <3>1. CASE what = "members"
      BY <2>4, <2>5, <3>1 DEF Missed, CountOf
    <3>2. CASE what = "invitations"
      BY <2>4, <2>5, <3>2 DEF Missed, CountOf
    <3>3. QED
      BY <3>1, <3>2
  <2>7. Cardinality(Members(t)) + Cardinality(Pending(t)) - Missed(q, t) < MaxUsers
    BY <1>6, <2>6
  <2>8. QED
    BY <1>0, <2>1, <2>2, <2>3, <2>7, Pass
<1>7. QED
  BY <1>3, <1>4, <1>5, <1>6, CountMoves

LEMMA RoomLeftStep ==
    ASSUME TypeInv, TypeInv', [Next]_vars, NEW t \in tenants, t \in tenants', RoomLeft(t)
    PROVE  RoomLeft(t)'
<1>0. /\ Cardinality(Members(t)) \in Nat /\ Cardinality(Members(t)') \in Nat
      /\ Cardinality(Pending(t)) \in Nat /\ Cardinality(Pending(t)') \in Nat
      /\ Cardinality(Admitted(t)) \in Nat /\ Cardinality(Admitted(t)') \in Nat
      /\ IsFiniteSet(Admitted(t))
  BY Sizes, SizesNext
<1>1. ASSUME NEW q \in Request, NEW what \in Count, RequestNext(q), CountUsers(q, what)
      PROVE  RoomLeft(t)'
  BY <1>1, CountStep
<1>2. ASSUME Admitted(t)' \subseteq Admitted(t),
             Cardinality(Members(t)') <= Cardinality(Members(t)),
             Cardinality(Pending(t)') <= Cardinality(Pending(t))
      PROVE  /\ Cardinality(Members(t)') + Cardinality(Admitted(t)')
                  <= Cardinality(Members(t)) + Cardinality(Admitted(t))
             /\ Cardinality(Pending(t)') + Cardinality(Admitted(t)')
                  <= Cardinality(Pending(t)) + Cardinality(Admitted(t))
             /\ Taken(t)' <= Taken(t)
  <2>1. Cardinality(Admitted(t)') <= Cardinality(Admitted(t))
    BY <1>0, <1>2, FS_Subset
  <2>2. QED
    BY <1>0, <1>2, <2>1 DEF Taken
<1>3. ASSUME NEW q \in Request, RequestNext(q), \A what \in Count : ~CountUsers(q, what)
      PROVE  RoomLeft(t)'
  <2>1. /\ Admitted(t)' \subseteq Admitted(t) /\ Halfway(t)' \subseteq Halfway(t)
        /\ \A p \in Halfway(t)' : req'[p] = req[p]
    BY <1>3, NoNewCount
  <2>2. /\ Cardinality(Members(t)') + Cardinality(Admitted(t)')
             <= Cardinality(Members(t)) + Cardinality(Admitted(t))
        /\ Cardinality(Pending(t)') + Cardinality(Admitted(t)')
             <= Cardinality(Pending(t)) + Cardinality(Admitted(t))
        /\ Taken(t)' <= Taken(t)
    <3>1. CASE Join(q) \/ \E i \in Invitation : CreateInvitation(q, i)
      BY <1>3, <3>1, TakesItsPlace
    <3>2. CASE ~(Join(q) \/ \E i \in Invitation : CreateInvitation(q, i))
      BY <1>2, <1>3, <2>1, <3>2, FewerUsers
    <3>3. QED
      BY <3>1, <3>2
  <2>3. QED
    BY <2>1, <2>2, Release
<1>4. CASE PlatformNext
  <2>1. req' = req
    BY <1>4 DEF PlatformNext, Register, Expire, DeleteOldInvitations
  <2>2. Admitted(t)' = Admitted(t) /\ Halfway(t)' = Halfway(t)
    BY <2>1 DEF Admitted, Halfway, At
  <2>3. /\ Cardinality(Members(t)') <= Cardinality(Members(t))
        /\ Cardinality(Pending(t)') <= Cardinality(Pending(t))
    BY <1>4, FewerUsers
  <2>4. QED
    BY <1>2, <2>1, <2>2, <2>3, Release
<1>5. CASE UNCHANGED vars
  <2>1. Admitted(t)' = Admitted(t) /\ Halfway(t)' = Halfway(t) /\ req' = req
        /\ Members(t)' = Members(t) /\ Pending(t)' = Pending(t)
    BY <1>5 DEF vars, Admitted, Halfway, At, Members, Pending
  <2>2. QED
    BY <1>0, <1>2, <2>1, Release
<1>6. QED
  BY <1>1, <1>3, <1>4, <1>5 DEF Next

\* A new company has its owner, and nobody has begun to count its users.
LEMMA RoomLeftNew ==
    ASSUME Request # {}, TypeInv, TypeInv', [Next]_vars, NEW t \in tenants', t \notin tenants
    PROVE  RoomLeft(t)'
<1>1. PICK u \in User : Register(u, t)
  <2>1. ASSUME NEW q \in Request, RequestNext(q) PROVE tenants' \subseteq tenants
    <3>1. CASE DeleteTenant(q)
      BY <3>1 DEF DeleteTenant
    <3>2. CASE ~DeleteTenant(q)
      BY <2>1, <3>2, ObjectMoves
      DEF RequestNext, BeginInvite, CountUsers, CheckMember, CreateInvitation, BeginAccept,
          BeginRevoke, FindUser, CreateUser, Join, Revoke, BeginChangeRole, BeginRemoveMember,
          AssertNotLastOwner, SetRole, DeleteMember, BeginDeleteAccount, CountOwners, DeleteUser,
          BeginDeleteTenant, BeginUpload, Cleanup, PutObject, RequestLost
    <3>3. QED
      BY <3>1, <3>2
  <2>2. QED
    BY <2>1 DEF Next, PlatformNext, Register, Expire, DeleteOldInvitations, vars
<1>2. req' = req /\ inv' = inv /\ t \notin known
  BY <1>1 DEF Register
<1>3. Admitted(t)' = {} /\ Halfway(t)' = {}
  BY <1>2 DEF Admitted, Halfway, At, TypeInv, RequestsOK, CallOK, TenantPc, JoinPc
<1>4. Pending(t)' = {}
  <2>1. \A i \in Invitation : inv[i].state = "pending" => inv[i].tenant # t
    BY DEF TypeInv, InvitationsOK, InTable
  <2>2. QED
    BY <1>2, <2>1 DEF Pending
<1>5. PICK n : n = [id |-> joins + 1, tenant |-> t, user |-> u, role |-> "OWNER"]
  OBVIOUS
<1>6. Members(t)' \subseteq {n}
  <2>1. member' = member \cup {n}
    BY <1>1, <1>5 DEF Register
  <2>2. \A m \in member : m.tenant # t
    BY <1>2 DEF TypeInv, MembersOK
  <2>3. QED
    BY <2>1, <2>2 DEF Members
<1>7. Cardinality(Members(t)') <= 1
  <2>1. IsFiniteSet({n}) /\ Cardinality({n}) = 1
    BY FS_Singleton
  <2>2. Cardinality(Members(t)') <= Cardinality({n})
    BY <1>6, <2>1, FS_Subset
  <2>3. QED
    BY <2>1, <2>2
<1>8. Taken(t)' <= 1 /\ Taken(t)' \in Nat
  BY <1>3, <1>4, <1>7, SizesNext, FS_EmptySet DEF Taken
<1>9. Cardinality(Request) # 0
  BY PlacesType, FS_EmptySet
<1>10. Taken(t)' < Places
  BY <1>8, <1>9, PlacesType DEF Places
<1>11. ASSUME NEW k \in Nat PROVE Cardinality(Harmful(t, k)') <= k
  <2>1. Harmful(t, k)' = {}
    BY <1>3 DEF Harmful
  <2>2. QED
    BY <2>1, FS_EmptySet
<1>12. QED
  BY <1>10, <1>11 DEF RoomLeft, Places

\* invite counts the members and the pending invitations before it adds one, and
\* accepting counts before it adds a member: however these interleave, a company
\* has fewer members, pending invitations and invitations about to be created
\* than the plan allows plus one for every request in progress.
THEOREM OvershootIsBounded ==
    ASSUME Request # {}
    PROVE  Spec => []UserOvershoot
<1>1. Init => OvershootInv
  BY DEF Init, OvershootInv
<1>2. TypeInv /\ OvershootInv /\ [Next]_vars => (TypeInv /\ OvershootInv)'
  <2> SUFFICES ASSUME TypeInv, OvershootInv, [Next]_vars PROVE TypeInv' /\ OvershootInv'
    OBVIOUS
  <2>1. TypeInv'
    BY TypeInvStep
  <2>2. ASSUME NEW t \in tenants' PROVE RoomLeft(t)'
    <3>1. CASE t \in tenants
      BY <2>1, <2>2, <3>1, RoomLeftStep DEF OvershootInv
    <3>2. CASE t \notin tenants
      BY <2>1, <2>2, <3>2, RoomLeftNew
    <3>3. QED
      BY <3>1, <3>2
  <2>3. QED
    BY <2>1, <2>2 DEF OvershootInv
<1>3. TypeInv /\ OvershootInv => UserOvershoot
  <2> SUFFICES ASSUME TypeInv, OvershootInv, NEW t \in tenants
               PROVE  Cardinality(Members(t)) + Cardinality(Pending(t)) + Cardinality(Inviting(t))
                          < MaxUsers + Cardinality(Request)
    BY DEF UserOvershoot
  <2>1. Inviting(t) \subseteq Admitted(t)
    BY DEF Inviting, Admitted
  <2>2. /\ Cardinality(Inviting(t)) <= Cardinality(Admitted(t))
        /\ Cardinality(Inviting(t)) \in Nat
    BY <2>1, Sizes, FS_Subset, FS_CardinalityType
  <2>3. Taken(t) < MaxUsers + Cardinality(Request)
    BY DEF OvershootInv, RoomLeft, Places
  <2>4. QED
    BY <2>2, <2>3, Sizes, PlacesType DEF Taken
<1>4. QED
  BY <1>1, <1>2, <1>3, TypeInvInit, PTL DEF Spec
=============================================================================
