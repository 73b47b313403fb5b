------------------------------ MODULE Accounts ------------------------------
(***************************************************************************)
(* Who belongs to which company: registration, invitations and members      *)
(* (AuthService.register, UsersService), the deletion of accounts and       *)
(* companies (DsrService) and the clean-up of old invitations               *)
(* (DataRetentionService).                                                  *)
(*                                                                          *)
(* A handler is a request with a program counter, and every await that      *)
(* reads or writes a table is a step of its own.  Abstracted: a user is his *)
(* address, and an address is registered once; of the roles only OWNER      *)
(* matters; every company has the same plan; passwords are right; the objects *)
(* of a company are one object.                                             *)
(***************************************************************************)
EXTENDS Integers, FiniteSets

CONSTANTS
    User,          \* addresses
    Tenant,        \* companies
    Invitation,    \* invitation ids
    Request,       \* handlers that can be in progress at the same time
    None,          \* null
    MaxJoins,      \* bound: memberships ever created
    MaxUsers,      \* maxUsers of the plan
    Ops,           \* the handlers that are called
    Faults         \* the failures that happen

AllOps == {"invite", "accept", "revoke", "role", "remove", "account", "tenant",
           "upload", "retention"}

\* "store": the object store fails; "api": a handler is cut short between awaits.
AllFaults == {"store", "api"}

ASSUME AccountsAssumption ==
    /\ MaxJoins \in Nat /\ MaxUsers \in Nat \ {0}
    /\ IsFiniteSet(Request) /\ IsFiniteSet(User) /\ IsFiniteSet(Invitation)
    /\ Ops \subseteq AllOps /\ Faults \subseteq AllFaults
    /\ None \notin User \cup Tenant \cup Invitation

VARIABLES
    users,     \* the users that exist
    tenants,   \* the companies that exist
    known,     \* history: the users and companies that were ever created
    member,    \* the Membership rows
    joins,     \* the number of memberships created so far
    inv,       \* inv[i]: the Invitation row i
    objects,   \* the companies with objects in the store
    spilled,   \* history: companies whose objects could not be cleaned up
    req        \* req[q]: what request q is doing

vars == <<users, tenants, known, member, joins, inv, objects, spilled, req>>

Role == {"OWNER", "OTHER"}
JoinId == 1 .. MaxJoins
NoJoin == 0

Member == [id : JoinId, tenant : Tenant, user : User, role : Role]

InvitationRow == [state   : {"absent", "pending", "accepted", "gone"},
                  expired : BOOLEAN,
                  tenant  : Tenant \cup {None},
                  user    : User \cup {None},
                  role    : Role]

NoInvitation == [state |-> "absent", expired |-> FALSE, tenant |-> None,
                 user |-> None, role |-> "OTHER"]

\* Deleted: only its id is known to have been used.
DeletedRow == [NoInvitation EXCEPT !.state = "gone"]

InTable(i) == inv[i].state \in {"pending", "accepted"}

Members(t) == {m \in member : m.tenant = t}
Owners(t)  == {m \in Members(t) : m.role = "OWNER"}

\* Neither accepted nor expired.
Pending(t) == {i \in Invitation : /\ inv[i].state = "pending" /\ ~inv[i].expired
                                  /\ inv[i].tenant = t}

IsMember(t, u) == \E m \in member : m.tenant = t /\ m.user = u

-----------------------------------------------------------------------------
RequestPc == {"idle",
              "count", "memberCheck", "createInvitation",        \* invite
              "findUser", "createUser", "join",                  \* acceptInvite
              "revoke",                                          \* revokeInvitation
              "owners", "setRole", "deleteMember",               \* changeMemberRole, removeMember
              "countOwners", "deleteUser",                       \* deleteAccount
              "deleteTenant", "cleanup",                         \* deleteTenant
              "putObject"}                                       \* upload of a document

Count == {"members", "invitations"}

RequestState == [pc     : RequestPc,
                 tenant : Tenant \cup {None},
                 user   : User \cup {None},
                 inv    : Invitation \cup {None},
                 role   : Role,
                 id     : JoinId \cup {NoJoin},   \* the membership
                 then   : RequestPc,              \* what a check guards
                 seen   : Nat,                    \* users counted so far
                 counts : SUBSET Count,           \* counts still to come
                 left   : SUBSET Tenant]          \* companies still to be looked at

IdleRequest == [pc |-> "idle", tenant |-> None, user |-> None, inv |-> None,
                role |-> "OTHER", id |-> NoJoin, then |-> "idle",
                seen |-> 0, counts |-> {}, left |-> {}]

At(q, pc) == req[q].pc = pc
Goto(q, pc) == req' = [req EXCEPT ![q].pc = pc]
Begin(q, call) == req' = [req EXCEPT ![q] = call]
Return(q) == Begin(q, IdleRequest)

\* Bound: whoever may still create a membership has an id reserved for it.
Joining == {q \in Request : req[q].pc \in {"findUser", "createUser", "join"}
                            \/ (req[q].pc = "count" /\ req[q].then = "findUser")}
RoomToJoin == joins + Cardinality(Joining) < MaxJoins

-----------------------------------------------------------------------------
(* register *)

\* The address is unique, and all four rows are one transaction.
Register(u, t) ==
    /\ {u, t} \cap known = {} /\ RoomToJoin
    /\ users' = users \cup {u} /\ tenants' = tenants \cup {t}
    /\ known' = known \cup {u, t}
    /\ member' = member \cup {[id |-> joins + 1, tenant |-> t, user |-> u, role |-> "OWNER"]}
    /\ joins' = joins + 1
    /\ UNCHANGED <<inv, objects, spilled, req>>

-----------------------------------------------------------------------------
(* assertUserLimit: the plan, then two counts at once, in either order *)

CheckLimit(then, t) ==
    [IdleRequest EXCEPT !.pc = "count", !.then = then, !.tenant = t,
                        !.counts = Count]

CountOf(what, t) == IF what = "members" THEN Cardinality(Members(t))
                    ELSE Cardinality(Pending(t))

\* Mutant: the invitations are not counted.
CountMembersOnly(q, what) ==
    /\ At(q, "count") /\ what \in req[q].counts
    /\ LET seen == Cardinality(Members(req[q].tenant)) IN
       \/ /\ seen < MaxUsers
          /\ Begin(q, [req[q] EXCEPT !.pc = req[q].then, !.counts = {}])
       \/ seen >= MaxUsers /\ Return(q)
    /\ UNCHANGED <<users, tenants, known, member, joins, inv, objects, spilled>>

CountUsers(q, what) ==
    /\ At(q, "count") /\ what \in req[q].counts
    /\ LET seen == req[q].seen + CountOf(what, req[q].tenant)
           left == req[q].counts \ {what} IN
       \/ /\ left # {}
          /\ Begin(q, [req[q] EXCEPT !.seen = seen, !.counts = left])
       \/ /\ left = {} /\ seen < MaxUsers
          /\ Begin(q, [req[q] EXCEPT !.pc = req[q].then, !.seen = 0, !.counts = {}])
       \/ /\ left = {} /\ seen >= MaxUsers
          /\ Return(q)
    /\ UNCHANGED <<users, tenants, known, member, joins, inv, objects, spilled>>

-----------------------------------------------------------------------------
(* invite *)

BeginInvite(q, t, u, role) ==
    /\ "invite" \in Ops /\ At(q, "idle") /\ t \in tenants
    /\ Begin(q, [CheckLimit("memberCheck", t) EXCEPT !.user = u, !.role = role])
    /\ UNCHANGED <<users, tenants, known, member, joins, inv, objects, spilled>>

CheckMember(q) ==
    /\ At(q, "memberCheck")
    /\ \/ IsMember(req[q].tenant, req[q].user) /\ Return(q)
       \/ ~IsMember(req[q].tenant, req[q].user) /\ Goto(q, "createInvitation")
    /\ UNCHANGED <<users, tenants, known, member, joins, inv, objects, spilled>>

\* Fails on its foreign key when the company has been deleted.
CreateInvitation(q, i) ==
    /\ At(q, "createInvitation") /\ inv[i].state = "absent"
    /\ inv' = IF req[q].tenant \in tenants
              THEN [inv EXCEPT ![i] = [state |-> "pending", expired |-> FALSE,
                        tenant |-> req[q].tenant, user |-> req[q].user, role |-> req[q].role]]
              ELSE inv
    /\ Return(q)
    /\ UNCHANGED <<users, tenants, known, member, joins, objects, spilled>>

-----------------------------------------------------------------------------
(* acceptInvite *)

BeginAccept(q, i) ==
    /\ "accept" \in Ops /\ At(q, "idle") /\ RoomToJoin
    /\ inv[i].state = "pending" /\ ~inv[i].expired
    /\ Begin(q, [CheckLimit("findUser", inv[i].tenant) EXCEPT
                    !.inv = i, !.user = inv[i].user, !.role = inv[i].role])
    /\ UNCHANGED <<users, tenants, known, member, joins, inv, objects, spilled>>

FindUser(q) ==
    /\ At(q, "findUser")
    /\ Goto(q, IF req[q].user \in users THEN "join" ELSE "createUser")
    /\ UNCHANGED <<users, tenants, known, member, joins, inv, objects, spilled>>

\* A password is needed, and the address must still be free.
CreateUser(q) ==
    /\ At(q, "createUser")
    /\ \/ /\ req[q].user \notin known
          /\ users' = users \cup {req[q].user} /\ known' = known \cup {req[q].user}
          /\ Goto(q, "join")
       \/ Return(q) /\ UNCHANGED <<users, known>>
    /\ UNCHANGED <<tenants, member, joins, inv, objects, spilled>>

\* Mutant: a user may belong to a company twice.
JoinAgain(q) ==
    /\ At(q, "join")
    /\ LET t == req[q].tenant
           u == req[q].user
           can == t \in tenants /\ u \in users /\ InTable(req[q].inv) IN
       \/ /\ can
          /\ member' = member \cup {[id |-> joins + 1, tenant |-> t, user |-> u, role |-> req[q].role]}
          /\ joins' = joins + 1
          /\ inv' = [inv EXCEPT ![req[q].inv].state = "accepted"]
       \/ ~can /\ UNCHANGED <<member, joins, inv>>
    /\ Return(q)
    /\ UNCHANGED <<users, tenants, known, objects, spilled>>

\* One transaction: the membership is unique and needs both its company and its
\* user; the invitation must still be in the table, accepted or not.
Join(q) ==
    /\ At(q, "join")
    /\ LET t == req[q].tenant
           u == req[q].user
           can == /\ t \in tenants /\ u \in users /\ ~IsMember(t, u)
                  /\ InTable(req[q].inv) IN
       \/ /\ can
          /\ member' = member \cup {[id |-> joins + 1, tenant |-> t, user |-> u, role |-> req[q].role]}
          /\ joins' = joins + 1
          /\ inv' = [inv EXCEPT ![req[q].inv].state = "accepted"]
       \/ ~can /\ UNCHANGED <<member, joins, inv>>
    /\ Return(q)
    /\ UNCHANGED <<users, tenants, known, objects, spilled>>

-----------------------------------------------------------------------------
(* revokeInvitation *)

BeginRevoke(q, i) ==
    /\ "revoke" \in Ops /\ At(q, "idle") /\ inv[i].state = "pending"
    /\ Begin(q, [IdleRequest EXCEPT !.pc = "revoke", !.inv = i])
    /\ UNCHANGED <<users, tenants, known, member, joins, inv, objects, spilled>>

Revoke(q) ==
    /\ At(q, "revoke")
    /\ inv' = IF InTable(req[q].inv) THEN [inv EXCEPT ![req[q].inv] = DeletedRow] ELSE inv
    /\ Return(q)
    /\ UNCHANGED <<users, tenants, known, member, joins, objects, spilled>>

-----------------------------------------------------------------------------
(* changeMemberRole, removeMember *)

BeginChangeRole(q, m, role) ==
    /\ "role" \in Ops /\ At(q, "idle") /\ m \in member
    /\ LET demotes == m.role = "OWNER" /\ role # "OWNER" IN
          Begin(q, [IdleRequest EXCEPT !.pc = IF demotes THEN "owners" ELSE "setRole",
                        !.then = "setRole", !.tenant = m.tenant, !.id = m.id, !.role = role])
    /\ UNCHANGED <<users, tenants, known, member, joins, inv, objects, spilled>>

BeginRemoveMember(q, m) ==
    /\ "remove" \in Ops /\ At(q, "idle") /\ m \in member
    /\ Begin(q, [IdleRequest EXCEPT !.pc = IF m.role = "OWNER" THEN "owners" ELSE "deleteMember",
                     !.then = "deleteMember", !.tenant = m.tenant, !.id = m.id])
    /\ UNCHANGED <<users, tenants, known, member, joins, inv, objects, spilled>>

AssertNotLastOwner(q) ==
    /\ At(q, "owners")
    /\ LET others == {m \in Owners(req[q].tenant) : m.id # req[q].id} IN
       \/ others = {} /\ Return(q)
       \/ others # {} /\ Goto(q, req[q].then)
    /\ UNCHANGED <<users, tenants, known, member, joins, inv, objects, spilled>>

\* Fails when the membership is gone.
SetRole(q) ==
    /\ At(q, "setRole")
    /\ member' = {IF m.id = req[q].id THEN [m EXCEPT !.role = req[q].role] ELSE m : m \in member}
    /\ Return(q)
    /\ UNCHANGED <<users, tenants, known, joins, inv, objects, spilled>>

DeleteMember(q) ==
    /\ At(q, "deleteMember")
    /\ member' = {m \in member : m.id # req[q].id}
    /\ Return(q)
    /\ UNCHANGED <<users, tenants, known, joins, inv, objects, spilled>>

-----------------------------------------------------------------------------
(* DsrService.deleteAccount *)

\* The companies the user owns, each of which needs another owner.
BeginDeleteAccount(q, u) ==
    /\ "account" \in Ops /\ At(q, "idle") /\ u \in users
    /\ LET owned == {m.tenant : m \in {n \in member : n.user = u /\ n.role = "OWNER"}} IN
       Begin(q, [IdleRequest EXCEPT !.pc = IF owned = {} THEN "deleteUser" ELSE "countOwners",
                                    !.user = u, !.left = owned])
    /\ UNCHANGED <<users, tenants, known, member, joins, inv, objects, spilled>>

CountOwners(q, t) ==
    /\ At(q, "countOwners") /\ t \in req[q].left
    /\ \/ Cardinality(Owners(t)) <= 1 /\ Return(q)
       \/ /\ Cardinality(Owners(t)) > 1
          /\ Begin(q, [req[q] EXCEPT !.left = @ \ {t},
                           !.pc = IF req[q].left = {t} THEN "deleteUser" ELSE "countOwners"])
    /\ UNCHANGED <<users, tenants, known, member, joins, inv, objects, spilled>>

\* The memberships go with the user (Cascade).
DeleteUser(q) ==
    /\ At(q, "deleteUser")
    /\ users' = users \ {req[q].user}
    /\ member' = {m \in member : m.user # req[q].user}
    /\ Return(q)
    /\ UNCHANGED <<tenants, known, joins, inv, objects, spilled>>

-----------------------------------------------------------------------------
(* DsrService.deleteTenant, and the uploads it runs into *)

BeginDeleteTenant(q, t) ==
    /\ "tenant" \in Ops /\ At(q, "idle") /\ t \in tenants
    /\ Begin(q, [IdleRequest EXCEPT !.pc = "deleteTenant", !.tenant = t])
    /\ UNCHANGED <<users, tenants, known, member, joins, inv, objects, spilled>>

\* Everything that refers to the company goes with it (Cascade).
DeleteTenant(q) ==
    /\ At(q, "deleteTenant")
    /\ LET t == req[q].tenant IN
       \/ /\ t \in tenants
          /\ tenants' = tenants \ {t}
          /\ member' = member \ Members(t)
          /\ inv' = [i \in Invitation |-> IF InTable(i) /\ inv[i].tenant = t
                                          THEN DeletedRow ELSE inv[i]]
          /\ Goto(q, "cleanup")
       \/ t \notin tenants /\ Return(q) /\ UNCHANGED <<tenants, member, inv>>
    /\ UNCHANGED <<users, known, joins, objects, spilled>>

\* Mutant: only the keys found in the tables are deleted, so what an upload put
\* there before its row existed stays.
CleanupKeysOnly(q) ==
    /\ At(q, "cleanup")
    /\ \/ objects' = objects \ {req[q].tenant}
       \/ UNCHANGED objects
    /\ Return(q)
    /\ UNCHANGED <<users, tenants, known, member, joins, inv, spilled>>

\* The keys, then the prefix of the company: best effort.
Cleanup(q) ==
    /\ At(q, "cleanup")
    /\ LET t == req[q].tenant IN
       \/ objects' = objects \ {t} /\ UNCHANGED spilled
       \/ "store" \in Faults /\ spilled' = spilled \cup {t} /\ UNCHANGED objects
    /\ Return(q)
    /\ UNCHANGED <<users, tenants, known, member, joins, inv>>

BeginUpload(q, t) ==
    /\ "upload" \in Ops /\ At(q, "idle") /\ t \in tenants
    /\ Begin(q, [IdleRequest EXCEPT !.pc = "putObject", !.tenant = t])
    /\ UNCHANGED <<users, tenants, known, member, joins, inv, objects, spilled>>

\* The object precedes its row, which a deleted company will refuse.
PutObject(q) ==
    /\ At(q, "putObject")
    /\ objects' = objects \cup {req[q].tenant}
    /\ spilled' = IF req[q].tenant \in tenants THEN spilled ELSE spilled \cup {req[q].tenant}
    /\ Return(q)
    /\ UNCHANGED <<users, tenants, known, member, joins, inv>>

-----------------------------------------------------------------------------
(* The platform *)

\* Seven days have passed.
Expire(i) ==
    /\ inv[i].state = "pending" /\ ~inv[i].expired
    /\ inv' = [inv EXCEPT ![i].expired = TRUE]
    /\ UNCHANGED <<users, tenants, known, member, joins, objects, spilled, req>>

\* runCleanup: expired invitations, and those accepted long ago.
DeleteOldInvitations ==
    /\ "retention" \in Ops
    /\ \E old \in SUBSET {i \in Invitation : inv[i].state = "accepted"} :
          inv' = [i \in Invitation |->
                    IF i \in old \/ (inv[i].state = "pending" /\ inv[i].expired)
                    THEN DeletedRow ELSE inv[i]]
    /\ UNCHANGED <<users, tenants, known, member, joins, objects, spilled, req>>

RequestLost(q) ==
    /\ "api" \in Faults /\ ~At(q, "idle")
    /\ spilled' = IF At(q, "cleanup") THEN spilled \cup {req[q].tenant} ELSE spilled
    /\ Return(q)
    /\ UNCHANGED <<users, tenants, known, member, joins, inv, objects>>

-----------------------------------------------------------------------------
Init ==
    /\ users = {} /\ tenants = {} /\ known = {} /\ member = {} /\ joins = 0
    /\ inv = [i \in Invitation |-> NoInvitation]
    /\ objects = {} /\ spilled = {}
    /\ req = [q \in Request |-> IdleRequest]

RequestNext(q) ==
    \/ \E t \in Tenant, u \in User, role \in Role : BeginInvite(q, t, u, role)
    \/ \E what \in Count : CountUsers(q, what)
    \/ CheckMember(q)
    \/ \E i \in Invitation : CreateInvitation(q, i) \/ BeginAccept(q, i) \/ BeginRevoke(q, i)
    \/ FindUser(q) \/ CreateUser(q) \/ Join(q)
    \/ Revoke(q)
    \/ \E m \in member, role \in Role : BeginChangeRole(q, m, role)
    \/ \E m \in member : BeginRemoveMember(q, m)
    \/ AssertNotLastOwner(q) \/ SetRole(q) \/ DeleteMember(q)
    \/ \E u \in User : BeginDeleteAccount(q, u)
    \/ \E t \in Tenant : CountOwners(q, t)
    \/ DeleteUser(q)
    \/ \E t \in Tenant : BeginDeleteTenant(q, t) \/ BeginUpload(q, t)
    \/ DeleteTenant(q) \/ Cleanup(q) \/ PutObject(q)
    \/ RequestLost(q)

PlatformNext ==
    \/ \E u \in User, t \in Tenant : Register(u, t)
    \/ \E i \in Invitation : Expire(i)
    \/ DeleteOldInvitations

Next == PlatformNext \/ \E q \in Request : RequestNext(q)

Spec == Init /\ [][Next]_vars

-----------------------------------------------------------------------------
(* Properties *)

\* Every variable keeps its type, and no membership or invitation outlives its
\* company or its user; a user belongs to a company once.
TypeOK ==
    /\ users \cup tenants \subseteq known /\ known \subseteq User \cup Tenant
    /\ joins \in 0 .. MaxJoins
    /\ member \subseteq [id : 1 .. joins, tenant : tenants, user : users, role : Role]
    /\ \A m, n \in member : m.id = n.id \/ <<m.tenant, m.user>> = <<n.tenant, n.user>> => m = n
    /\ inv \in [Invitation -> InvitationRow]
    /\ \A i \in Invitation : InTable(i) => inv[i].tenant \in tenants
    /\ objects \cup spilled \subseteq Tenant
    /\ req \in [Request -> RequestState]

\* A company always has an owner: changeMemberRole and removeMember are said to leave
\* the last one alone, deleteAccount the only one.  They do one at a time; of two
\* owners who leave at the same time each still counts the other.
HasOwner == \A t \in tenants : Owners(t) # {}

\* An invitation is good for one membership: acceptInvite is said to refuse one that
\* has been accepted already.  It looks when it begins, and not when it joins.
AcceptedOnce ==
    [][\A q \in Request : At(q, "join") /\ joins' # joins /\ req'[q] # req[q] =>
          inv[req[q].inv].state = "pending"]_vars

\* invite counts members and pending invitations before it adds one: members,
\* pending invitations and those being added exceed the plan by no more than the
\* requests that overlapped.
Inviting(t) == {q \in Request : req[q].pc \in {"memberCheck", "createInvitation"}
                                /\ req[q].tenant = t}

UserOvershoot ==
    \A t \in tenants :
        Cardinality(Members(t)) + Cardinality(Pending(t)) + Cardinality(Inviting(t))
            < MaxUsers + Cardinality(Request)

\* Nothing of a deleted company stays in the object store, unless the store
\* failed or an upload was in progress.
NothingLeft ==
    \A t \in objects \ tenants :
        \/ t \in spilled
        \/ \E q \in Request : At(q, "cleanup") /\ req[q].tenant = t

\* Accepting is refused for the plan only if its places are taken by members.
RefusedOnlyWhenFull ==
    [][\A q \in Request : At(q, "count") /\ req[q].then = "findUser" /\ At(q, "idle")' =>
          Cardinality(Members(req[q].tenant)) >= MaxUsers]_vars
=============================================================================
