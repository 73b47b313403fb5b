------------------------------ MODULE Requests ------------------------------
(***************************************************************************)
(* The way of a call through the system: the web client sends it with the   *)
(* token and the company of the browser's storage and sends it again when   *)
(* the connection fails; the API opens a tenant context, passes the guards   *)
(* of the route, and the handler uses the scoped database client, which      *)
(* takes the company from the context.  The same context serves the monthly  *)
(* reports.  One scoped table, the vehicles, stands for all of them.         *)
(***************************************************************************)
EXTENDS Naturals, FiniteSets, Sequences

CONSTANTS
    User, Tenant, Row,
    Click,          \* what users do: each makes one call
    Handlers,       \* the handlers they call
    Roles, Plans,   \* roles and plans that are given and taken
    MaxAttempts,    \* NETWORK_RETRY_DELAYS_MS.length + 1
    MaxChanges,     \* bound: logins, changes of roles, plans and overrides
    None

Api == INSTANCE ApiRoutes

Calls == {c \in Api!ClientCalls : c.handler \in Handlers}
RouteOf(c) == CHOOSE r \in Api!Resolve(c.method, c.path) : TRUE

ASSUME RequestsAssumption ==
    /\ MaxAttempts \in Nat \ {0} /\ MaxChanges \in Nat
    /\ Roles \subseteq Api!Role /\ Plans \subseteq {"STARTER", "STANDARD"}
    /\ Calls # {} /\ \A c \in Calls : RouteOf(c).access = "member"
    /\ None \notin User \cup Tenant \cup Row

Request == Click \X (1 .. MaxAttempts)
Report  == <<None, 0>>          \* the monthly job, which no click started

\* What has been read of the overrides: nothing, or what there is.
Override == {None} \cup {<<o>> : o \in BOOLEAN \cup {None}}

RequestState ==
    [pc : {"none", "travelling", "member", "feature", "find", "write", "answered"},
     user : User \cup {None}, tenant : Tenant \cup {None}, call : Calls,
     row : Row \cup {None}, plan : Plans \cup {None}, override : Override,
     held : SUBSET (Roles \cup {None}), touched : SUBSET Tenant, wrote : BOOLEAN]

ClickState == [state : {"idle", "waiting", "sleeping", "done"}, attempt : 0 .. MaxAttempts]

ReportState ==
    [pc : {"idle", "next", "features", "owner", "summary", "done"}, left : SUBSET Tenant,
     tenant : Tenant \cup {None}, plan : Plans \cup {None}, override : Override,
     seen : SUBSET Tenant]

VARIABLES
    row,        \* the vehicles: the company of each, None if there is no such row
    member,     \* the role of a user in a company, None if not a member
    plan,       \* the plan of a company
    override,   \* whether REPORTS is switched on or off for it, None if neither
    browser,    \* localStorage: whose token, and which company is active
    click,      \* the calls of the client
    request,    \* the requests at the API: one for each attempt
    holder,     \* the tenant contexts (AsyncLocalStorage)
    report,     \* the monthly job
    changes

serverVars == <<request, holder, row>>
companyVars == <<member, plan, override>>
vars == <<row, member, plan, override, browser, click, request, holder, report, changes>>

NoCall == CHOOSE c \in Calls : TRUE
NewRequest(user, tenant, call, x) ==
    [pc |-> "travelling", user |-> user, tenant |-> tenant, call |-> call, row |-> x,
     plan |-> None, override |-> None,       \* what FeatureGuard has read so far
     held |-> {}, touched |-> {}, wrote |-> FALSE]   \* history
NoRequest == [NewRequest(None, None, NoCall, None) EXCEPT !.pc = "none"]

Init ==
    /\ row \in [Row -> Tenant \cup {None}]
    /\ member \in [Tenant -> [User -> Roles \cup {None}]]
    /\ plan \in [Tenant -> Plans]
    /\ override = [t \in Tenant |-> None]
    /\ browser \in [user : User \cup {None}, tenant : Tenant \cup {None}]
    /\ click = [c \in Click |-> [state |-> "idle", attempt |-> 0]]
    /\ request = [q \in Request |-> NoRequest]
    /\ holder = [s \in Request \cup {Report} |-> None]
    /\ report = [pc |-> "idle", left |-> {}, tenant |-> None,
                 plan |-> None, override |-> None, seen |-> {}]
    /\ changes = 0

-----------------------------------------------------------------------------
(* The browser *)

Change == changes < MaxChanges /\ changes' = changes + 1

\* The stored company stays active if the user is a member of it; otherwise a
\* company of theirs is, if they have one.
ActiveTenant(u) ==
    LET mine == {t \in Tenant : member[t][u] # None}
    IN  IF browser.tenant \in mine \/ mine = {} THEN {browser.tenant} ELSE mine

Login(u) ==
    /\ Change
    /\ \E t \in ActiveTenant(u) : browser' = [user |-> u, tenant |-> t]
    /\ UNCHANGED <<row, companyVars, click, request, holder, report>>

Logout ==
    /\ Change /\ browser.user # None
    /\ browser' = [user |-> None, tenant |-> None]
    /\ UNCHANGED <<row, companyVars, click, request, holder, report>>

\* performRequest: every attempt reads the token and the company anew.
Send(c, n, call, x) ==
    /\ click' = [click EXCEPT ![c] = [state |-> "waiting", attempt |-> n]]
    /\ request' = [request EXCEPT ![<<c, n>>] =
                     NewRequest(browser.user, browser.tenant, call, x)]
    /\ UNCHANGED <<row, companyVars, browser, holder, report, changes>>

Attempt(c) == <<c, click[c].attempt>>

Start(c) ==
    /\ click[c].state = "idle"
    /\ \E call \in Calls, x \in Row : Send(c, 1, call, x)

Answer(c) ==
    /\ click[c].state = "waiting" /\ request[Attempt(c)].pc = "answered"
    /\ click' = [click EXCEPT ![c].state = "done"]
    /\ UNCHANGED <<row, companyVars, browser, request, holder, report, changes>>

\* fetch throws, whether or not the request has reached the API or will.
ConnectionFails(c) ==
    /\ click[c].state = "waiting"
    /\ click' = [click EXCEPT ![c].state =
                   IF click[c].attempt < MaxAttempts THEN "sleeping" ELSE "done"]
    /\ \/ UNCHANGED request
       \/ /\ request[Attempt(c)].pc = "travelling"
          /\ request' = [request EXCEPT ![Attempt(c)].pc = "none"]
    /\ UNCHANGED <<row, companyVars, browser, holder, report, changes>>

Retry(c) ==
    LET last == request[Attempt(c)] IN
    /\ click[c].state = "sleeping"
    /\ Send(c, click[c].attempt + 1, last.call, last.row)

-----------------------------------------------------------------------------
(* The tenant context and the scoped client *)

\* Mutant: one holder for the process.
OneScope(s) == Report

\* The scope that the asynchronous work of a request or of the job runs in.
ScopeOf(s) == s
Context(s) == holder[ScopeOf(s)]

\* run, set and runWith: an empty holder, its company, a holder that has one.
Enter(s, t) == holder' = [holder EXCEPT ![ScopeOf(s)] = t]

\* The rows that a query can find or change: where tenantId.
Scoped(t) == {x \in Row : row[x] = t}

-----------------------------------------------------------------------------
(* The guards *)

At(q, pc) == request[q].pc = pc
Go(q, pc) == request' = [request EXCEPT ![q].pc = pc]
Answered(q) == Go(q, "answered")     \* with a result or an error

\* TenantContextMiddleware and JwtAuthGuard.
Arrive(q) ==
    LET r == request[q] IN
    /\ At(q, "travelling")
    /\ Enter(q, None)
    /\ request' = [request EXCEPT
         ![q].pc = IF r.user = None \/ r.tenant = None THEN "answered" ELSE "member",
         ![q].held = IF r.user = None \/ r.tenant = None THEN {}
                     ELSE {member[r.tenant][r.user]}]
    /\ UNCHANGED <<row, companyVars, browser, click, report, changes>>

\* Mutant: any membership of the user.
MembershipOfUser(user, tenant) == {member[t][user] : t \in Tenant} \ {None}

Membership(user, tenant) == {member[tenant][user]} \ {None}

\* TenantGuard reads the membership and fills the holder; RolesGuard follows.
TenantGuard(q) ==
    LET r == request[q]  route == RouteOf(r.call) IN
    /\ At(q, "member")
    /\ \/ /\ Membership(r.user, r.tenant) = {}
          /\ Answered(q) /\ UNCHANGED holder
       \/ \E role \in Membership(r.user, r.tenant) :
            /\ Enter(q, r.tenant)
            /\ Go(q, IF role \notin route.roles THEN "answered"
                     ELSE IF route.feature # Api!NoFeature THEN "feature" ELSE "find")
    /\ UNCHANGED <<row, companyVars, browser, click, report, changes>>

\* The effective features: those of the plan, with those switched on and
\* without those switched off.  REPORTS is in every plan but the smallest.
HasReports(p, o) == IF o = None THEN p # "STARTER" ELSE o

\* FeatureGuard reads the subscription and the overrides at the same time; a
\* company without a context is an error.
ReadPlan(q) ==
    /\ At(q, "feature") /\ request[q].plan = None
    /\ IF Context(q) = None THEN Answered(q)
       ELSE request' = [request EXCEPT ![q].plan = plan[Context(q)]]
    /\ UNCHANGED <<row, holder, companyVars, browser, click, report, changes>>

ReadOverrides(q) ==
    /\ At(q, "feature") /\ request[q].override = None
    /\ IF Context(q) = None THEN Answered(q)
       ELSE request' = [request EXCEPT ![q].override = <<override[Context(q)]>>]
    /\ UNCHANGED <<row, holder, companyVars, browser, click, report, changes>>

FeatureGuard(q) ==
    LET r == request[q] IN
    /\ At(q, "feature") /\ r.plan # None /\ r.override # None
    /\ Go(q, IF HasReports(r.plan, r.override[1]) THEN "find" ELSE "answered")
    /\ UNCHANGED <<row, holder, companyVars, browser, click, report, changes>>

-----------------------------------------------------------------------------
(* The handlers *)

\* A handler looks first: it lists the rows, counts them, or finds its row.
Find(q) ==
    LET r == request[q]
        t == Context(q)
        found == IF r.call.path[Len(r.call.path)] = Api!Id
                 THEN Scoped(t) \cap {r.row} ELSE Scoped(t)
    IN  /\ At(q, "find")
        /\ \/ t = None /\ Answered(q)
           \/ /\ t # None
              /\ request' = [request EXCEPT
                   ![q].pc = IF r.call.method = "GET" \/ (found = {} /\ r.call.method # "POST")
                             THEN "answered" ELSE "write",
                   ![q].touched = @ \cup {row[x] : x \in found}]
        /\ UNCHANGED <<row, holder, companyVars, browser, click, report, changes>>

\* Then it writes: a new row gets the company of the context; one that is to be
\* changed or deleted has to be there still.
Write(q) ==
    LET r == request[q]
        t == Context(q)
        Touch(x, now) ==
            /\ row' = [row EXCEPT ![x] = now]
            /\ request' = [request EXCEPT ![q].pc = "answered", ![q].wrote = TRUE,
                             ![q].touched = @ \cup ({row[x], now} \ {None})]
    IN  /\ At(q, "write")
        /\ \/ /\ t # None /\ r.call.method = "POST"
              /\ \E x \in {x \in Row : row[x] = None} : Touch(x, t)
           \/ /\ t # None /\ r.call.method # "POST" /\ r.row \in Scoped(t)
              /\ Touch(r.row, IF r.call.method = "DELETE" THEN None ELSE row[r.row])
           \/ /\ \/ t = None
                 \/ r.call.method # "POST" /\ r.row \notin Scoped(t)
                 \/ r.call.method = "POST" /\ \A x \in Row : row[x] # None  \* bound
              /\ Answered(q) /\ UNCHANGED row
        /\ UNCHANGED <<holder, companyVars, browser, click, report, changes>>

-----------------------------------------------------------------------------
(* The monthly job, which runs in the same process *)

SendMonthlyReports ==
    /\ report.pc = "idle"
    /\ report' = [report EXCEPT !.pc = "next", !.left = Tenant]
    /\ UNCHANGED <<row, holder, companyVars, browser, click, request, changes>>

NextTenant ==
    /\ report.pc = "next"
    /\ \/ \E t \in report.left :
            report' = [report EXCEPT !.pc = "features", !.tenant = t, !.left = @ \ {t},
                         !.plan = None, !.override = None, !.seen = {}]
       \/ report.left = {} /\ report' = [report EXCEPT !.pc = "done"]
    /\ UNCHANGED <<row, holder, companyVars, browser, click, request, changes>>

\* tenantHasReports names the company: it uses the unscoped client.
TenantHasReports ==
    LET r == report IN
    /\ r.pc = "features"
    /\ \/ r.plan = None /\ report' = [r EXCEPT !.plan = plan[r.tenant]]
       \/ r.override = None /\ report' = [r EXCEPT !.override = <<override[r.tenant]>>]
       \/ /\ r.plan # None /\ r.override # None
          /\ report' = [r EXCEPT !.pc = IF HasReports(r.plan, r.override[1])
                                        THEN "owner" ELSE "next"]
    /\ UNCHANGED <<row, holder, companyVars, browser, click, request, changes>>

\* The summary is computed in a context of its own, and mailed to an owner.
FindOwner ==
    LET owned == \E u \in User : member[report.tenant][u] = "OWNER" IN
    /\ report.pc = "owner"
    /\ IF owned THEN Enter(Report, report.tenant) ELSE UNCHANGED holder
    /\ report' = [report EXCEPT !.pc = IF owned THEN "summary" ELSE "next"]
    /\ UNCHANGED <<row, companyVars, browser, click, request, changes>>

GetSummary ==
    /\ report.pc = "summary"
    /\ report' = [report EXCEPT !.pc = "next",
                    !.seen = {row[x] : x \in Scoped(Context(Report))}]
    /\ UNCHANGED <<row, holder, companyVars, browser, click, request, changes>>

-----------------------------------------------------------------------------
(* Administrators of the company and of the platform *)

\* changeMemberRole, removeMember: a request in progress does not notice.
SetRole(t, u, role) ==
    /\ Change
    /\ member' = [member EXCEPT ![t][u] = role]
    /\ request' = [q \in Request |->
         IF request[q].user = u /\ request[q].tenant = t
            /\ request[q].pc \notin {"none", "travelling", "answered"}
         THEN [request[q] EXCEPT !.held = @ \cup {role}] ELSE request[q]]
    /\ UNCHANGED <<row, holder, plan, override, browser, click, report>>

SetSubscription(t, p) ==
    /\ Change
    /\ plan' = [plan EXCEPT ![t] = p]
    /\ UNCHANGED <<row, holder, member, override, browser, click, request, report>>

SetFeatureOverride(t, on) ==
    /\ Change
    /\ override' = [override EXCEPT ![t] = on]
    /\ UNCHANGED <<row, holder, member, plan, browser, click, request, report>>

-----------------------------------------------------------------------------
ClientStep ==
    \/ \E u \in User : Login(u)
    \/ Logout
    \/ \E c \in Click : Start(c) \/ Answer(c) \/ ConnectionFails(c) \/ Retry(c)

ServerStep ==
    \E q \in Request : \/ Arrive(q) \/ TenantGuard(q) \/ ReadPlan(q) \/ ReadOverrides(q)
                       \/ FeatureGuard(q) \/ Find(q) \/ Write(q)

JobStep == SendMonthlyReports \/ NextTenant \/ TenantHasReports \/ FindOwner \/ GetSummary

AdminStep ==
    \E t \in Tenant : \/ \E u \in User, role \in Roles \cup {None} : SetRole(t, u, role)
                      \/ \E p \in Plans : SetSubscription(t, p)
                      \/ \E on \in BOOLEAN \cup {None} : SetFeatureOverride(t, on)

Next == ClientStep \/ ServerStep \/ JobStep \/ AdminStep
Spec == Init /\ [][Next]_vars

-----------------------------------------------------------------------------
(* Properties *)

\* Every variable keeps its type; a call that waits has been sent, and one that
\* sleeps may be sent once more.
TypeOK ==
    /\ row \in [Row -> Tenant \cup {None}]
    /\ member \in [Tenant -> [User -> Roles \cup {None}]]
    /\ plan \in [Tenant -> Plans]
    /\ override \in [Tenant -> BOOLEAN \cup {None}]
    /\ browser \in [user : User \cup {None}, tenant : Tenant \cup {None}]
    /\ click \in [Click -> ClickState]
    /\ \A c \in Click : click[c].state = "waiting" => click[c].attempt > 0
    /\ \A c \in Click :
         click[c].state = "sleeping" => click[c].attempt \in 1 .. MaxAttempts - 1
    /\ request \in [Request -> RequestState]
    /\ report \in ReportState
    /\ holder \in [Request \cup {Report} -> Tenant \cup {None}]
    /\ changes \in 0 .. MaxChanges

\* However requests, their repetitions and the monthly job are interleaved, each
\* reads, changes, creates and deletes rows of its own company only: the one
\* that the client named in the request, or whose report is made (PrismaService,
\* TenantContextService).
OwnRowsOnly ==
    /\ \A q \in Request : request[q].touched \subseteq {request[q].tenant}
    /\ report.seen \subseteq {report.tenant}

\* A handler runs only for a role of its route that the user has had in that
\* company since the request arrived, even if it is taken away meanwhile.
RoleWasHeld ==
    \A q \in Request :
       request[q].pc \in {"feature", "find", "write"} \/ request[q].touched # {} =>
         request[q].held \cap RouteOf(request[q].call).roles # {}

\* A user who creates something once gets one of it: the comment on the retries
\* says that a call is repeated only if it did not reach the server.
OneRowPerClick ==
    \A c \in Click : Cardinality({n \in 1 .. MaxAttempts : request[<<c, n>>].wrote}) <= 1

=============================================================================
