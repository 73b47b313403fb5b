--------------------------- MODULE RequestsProofs ---------------------------
(***************************************************************************)
(* Proofs about Requests, for any number of users, companies, rows, clicks  *)
(* and attempts and any choice of handlers: a request touches rows of the   *)
(* company it names only, and only for a role that was held.                *)
(***************************************************************************)
EXTENDS Requests, TLAPS

Roled(q) == request[q].held \cap RouteOf(request[q].call).roles # {}

\* A request that has passed TenantGuard carries its company in its holder; while
\* it waits for it, the role that will be read is on record.
RequestOK(q) ==
    /\ request[q].touched \subseteq {request[q].tenant}
    /\ request[q].touched # {} => Roled(q) /\ request[q].pc # "travelling"
    /\ request[q].pc \in {"feature", "find", "write"} =>
         request[q].tenant \in Tenant /\ holder[q] = request[q].tenant /\ Roled(q)
    /\ request[q].pc = "member" =>
         /\ request[q].tenant \in Tenant /\ request[q].user \in User
         /\ member[request[q].tenant][request[q].user] \in request[q].held

ReportOK ==
    /\ report.seen \subseteq {report.tenant}
    /\ report.pc \in {"features", "owner", "summary"} => report.tenant \in Tenant
    /\ report.pc = "summary" => holder[Report] = report.tenant

Inv == TypeOK /\ (\A q \in Request : RequestOK(q)) /\ ReportOK

LEMMA NoneIsNoTenant == None \notin Tenant /\ None \notin User
BY RequestsAssumption

LEMMA ReportIsNoRequest == Report \notin Request
BY DEF Report, Request

LEMMA NoRequestType ==
    ASSUME NEW u \in User \cup {None}, NEW t \in Tenant \cup {None}, NEW call \in Calls,
           NEW x \in Row \cup {None}
    PROVE  NewRequest(u, t, call, x) \in RequestState
BY DEF NewRequest, RequestState, Override

LEMMA NoCallType == NoCall \in Calls
BY RequestsAssumption DEF NoCall

LEMMA InitInv == Init => Inv
<1> SUFFICES ASSUME Init PROVE Inv
  OBVIOUS
<1> USE RequestsAssumption
<1>1. NoRequest \in RequestState /\ NoRequest.touched = {} /\ NoRequest.pc = "none"
  BY NoCallType, NoRequestType DEF NoRequest, NewRequest, RequestState, Override
<1>2. TypeOK
  BY <1>1 DEF Init, TypeOK, ReportState, ClickState, Override
<1>3. \A q \in Request : RequestOK(q)
  BY <1>1 DEF Init, RequestOK
<1>4. ReportOK
  BY DEF Init, ReportOK
<1>5. QED
  BY <1>2, <1>3, <1>4 DEF Inv

-----------------------------------------------------------------------------
(* Steps of one request *)

\* A step that changes one request, and its own holder at most, is judged by that
\* request.
LEMMA OneRequest ==
    ASSUME Inv, NEW q \in Request, NEW r \in RequestState, NEW t \in Tenant \cup {None},
           request' = [request EXCEPT ![q] = r],
           holder' = holder \/ holder' = [holder EXCEPT ![q] = t],
           row' \in [Row -> Tenant \cup {None}],
           UNCHANGED <<companyVars, browser, click, report, changes>>,
           RequestOK(q)'
    PROVE  Inv'
<1>1. TypeOK'
  BY DEF Inv, TypeOK, companyVars
<1>2. \A p \in Request \ {q} : RequestOK(p)'
  BY DEF Inv, TypeOK, RequestOK, Roled, companyVars
<1>3. ReportOK'
  BY ReportIsNoRequest DEF Inv, TypeOK, ReportOK, ReportState
<1>4. QED
  BY <1>1, <1>2, <1>3 DEF Inv

LEMMA ArriveInv == ASSUME Inv, NEW q \in Request, Arrive(q) PROVE Inv'
<1> DEFINE r == request[q]
           anonymous == r.user = None \/ r.tenant = None
           s == [r EXCEPT !.pc = IF anonymous THEN "answered" ELSE "member",
                          !.held = IF anonymous THEN {} ELSE {member[r.tenant][r.user]}]
<1>1. r \in RequestState /\ RequestOK(q)
  BY DEF Inv, TypeOK
<1>2. ~anonymous => /\ r.tenant \in Tenant /\ r.user \in User
                    /\ member[r.tenant][r.user] \in Roles \cup {None}
  BY <1>1 DEF Inv, TypeOK, RequestState
<1>3. s \in RequestState
  BY <1>1, <1>2 DEF RequestState
<1>4. request' = [request EXCEPT ![q] = s] /\ holder' = [holder EXCEPT ![q] = None]
  BY DEF Arrive, Enter, ScopeOf, Inv, TypeOK
<1>5. request'[q] = s /\ member' = member
  BY <1>4 DEF Arrive, Inv, TypeOK, companyVars
<1>6. RequestOK(q)'
  <2>1. r.touched = {}
    BY <1>1 DEF Arrive, At, RequestOK
  <2>2. s.touched = {} /\ s.tenant = r.tenant /\ s.user = r.user
    BY <1>1, <2>1 DEF RequestState
  <2>3. s.pc \in {"answered", "member"}
    BY <1>1 DEF RequestState
  <2>4. s.pc = "member" => ~anonymous /\ s.held = {member[r.tenant][r.user]}
    BY <1>1 DEF RequestState
  <2>5. QED
    BY <1>2, <1>5, <2>2, <2>3, <2>4 DEF RequestOK
<1>7. QED
  BY <1>3, <1>4, <1>6, OneRequest DEF Arrive, companyVars, Inv, TypeOK

LEMMA TenantGuardInv == ASSUME Inv, NEW q \in Request, TenantGuard(q) PROVE Inv'
<1> DEFINE r == request[q]
<1>1. r \in RequestState /\ RequestOK(q) /\ r.pc = "member"
  BY DEF Inv, TypeOK, TenantGuard, At
<1>2. r.tenant \in Tenant /\ r.user \in User
  BY <1>1 DEF RequestOK
<1>3. CASE Answered(q) /\ UNCHANGED holder
  <2> DEFINE s == [r EXCEPT !.pc = "answered"]
  <2>1. s \in RequestState /\ request' = [request EXCEPT ![q] = s]
    BY <1>1, <1>3 DEF RequestState, Answered, Go, Inv, TypeOK
  <2>2. RequestOK(q)'
    BY <1>1, <2>1 DEF RequestOK, RequestState, Roled, Inv, TypeOK
  <2>3. QED
    BY <1>3, <2>1, <2>2, OneRequest DEF TenantGuard, companyVars, Inv, TypeOK
<1>4. ASSUME NEW role \in Membership(r.user, r.tenant), Enter(q, r.tenant),
             Go(q, IF role \notin RouteOf(r.call).roles THEN "answered"
                   ELSE IF RouteOf(r.call).feature # Api!NoFeature THEN "feature" ELSE "find")
      PROVE  Inv'
  <2> DEFINE pc == IF role \notin RouteOf(r.call).roles THEN "answered"
                   ELSE IF RouteOf(r.call).feature # Api!NoFeature THEN "feature" ELSE "find"
             s == [r EXCEPT !.pc = pc]
  <2>1. s \in RequestState /\ request' = [request EXCEPT ![q] = s]
    BY <1>1, <1>4, SMT, ZenonT(40) DEF RequestState, Go, Inv, TypeOK
  <2>2. holder' = [holder EXCEPT ![q] = r.tenant] /\ holder'[q] = r.tenant
    BY <1>4 DEF Enter, ScopeOf, Inv, TypeOK
  <2>3. role \in r.held
    BY <1>1, <1>4 DEF RequestOK, Membership
  <2>4. RequestOK(q)'
    BY <1>1, <1>2, <2>1, <2>2, <2>3, SMT, ZenonT(40) DEF RequestOK, RequestState, Roled, Inv, TypeOK
  <2>5. QED
    BY <1>2, <2>1, <2>2, <2>4, OneRequest DEF TenantGuard, companyVars, Inv, TypeOK
<1>5. QED
  BY <1>3, <1>4 DEF TenantGuard

\* FeatureGuard and its two reads.
LEMMA FeatureInv ==
    ASSUME Inv, NEW q \in Request, ReadPlan(q) \/ ReadOverrides(q) \/ FeatureGuard(q)
    PROVE  Inv'
<1> DEFINE r == request[q]
<1>1. r \in RequestState /\ RequestOK(q) /\ r.pc = "feature"
  BY DEF Inv, TypeOK, ReadPlan, ReadOverrides, FeatureGuard, At
<1>2. holder[q] = r.tenant /\ r.tenant \in Tenant /\ Context(q) = r.tenant /\ r.tenant # None
  BY <1>1, NoneIsNoTenant DEF RequestOK, Context, ScopeOf
<1>3. ASSUME NEW s \in RequestState, request' = [request EXCEPT ![q] = s],
             s.touched = r.touched, s.tenant = r.tenant, s.held = r.held, s.call = r.call,
             s.pc \in {"feature", "find", "answered"},
             UNCHANGED <<row, holder, companyVars, browser, click, report, changes>>
      PROVE  Inv'
  <2>1. RequestOK(q)'
    BY <1>1, <1>3 DEF RequestOK, Roled, Inv, TypeOK
  <2>2. QED
    BY <1>2, <1>3, <2>1, OneRequest DEF Inv, TypeOK
<1>4. CASE ReadPlan(q)
  <2> DEFINE s == [r EXCEPT !.plan = plan[r.tenant]]
  <2>1. s \in RequestState
    BY <1>1, <1>2 DEF RequestState, Inv, TypeOK
  <2>2. request' = [request EXCEPT ![q] = s]
    BY <1>2, <1>4 DEF ReadPlan, Inv, TypeOK
  <2>3. QED
    BY <1>1, <1>3, <1>4, <2>1, <2>2 DEF ReadPlan, RequestState
<1>5. CASE ReadOverrides(q)
  <2> DEFINE s == [r EXCEPT !.override = <<override[r.tenant]>>]
  <2>1. <<override[r.tenant]>> \in Override
    BY <1>2 DEF Inv, TypeOK, Override
  <2>2. s \in RequestState
    BY <1>1, <2>1 DEF RequestState
  <2>3. request' = [request EXCEPT ![q] = s]
    BY <1>2, <1>5 DEF ReadOverrides, Inv, TypeOK
  <2>4. QED
    BY <1>1, <1>3, <1>5, <2>2, <2>3 DEF ReadOverrides, RequestState
<1>6. CASE FeatureGuard(q)
  <2>1. PICK pc \in {"find", "answered"} : request' = [request EXCEPT ![q].pc = pc]
    BY <1>6 DEF FeatureGuard, Go
  <2> DEFINE s == [r EXCEPT !.pc = pc]
  <2>2. s \in RequestState /\ request' = [request EXCEPT ![q] = s]
    BY <1>1, <2>1 DEF RequestState, Inv, TypeOK
  <2>3. QED
    BY <1>1, <1>3, <1>6, <2>2 DEF FeatureGuard, RequestState
<1>7. QED
  BY <1>4, <1>5, <1>6

-----------------------------------------------------------------------------
(* The handler *)

\* What it finds through the scoped client belongs to the company of the request.
LEMMA FindInv == ASSUME Inv, NEW q \in Request, Find(q) PROVE Inv'
<1> DEFINE r == request[q]
           t == Context(q)
           found == IF r.call.path[Len(r.call.path)] = Api!Id
                    THEN Scoped(t) \cap {r.row} ELSE Scoped(t)
           pc == IF r.call.method = "GET" \/ (found = {} /\ r.call.method # "POST")
                 THEN "answered" ELSE "write"
           seen == r.touched \cup {row[x] : x \in found}
           s == [r EXCEPT !.pc = pc, !.touched = seen]
<1>1. r \in RequestState /\ RequestOK(q) /\ r.pc = "find"
  BY DEF Inv, TypeOK, Find, At
<1>2. r.tenant \in Tenant /\ t = r.tenant /\ t # None /\ Roled(q)
  BY <1>1, NoneIsNoTenant DEF RequestOK, Context, ScopeOf
<1>3. seen \subseteq {r.tenant}
  BY <1>1, <1>2 DEF Scoped, RequestOK
<1>4. request' = [request EXCEPT ![q] = s]
  BY <1>2 DEF Find, Inv, TypeOK
<1>5. s \in RequestState
  BY <1>1, <1>2, <1>3, SMT, ZenonT(40) DEF RequestState
<1>6. s.touched = seen /\ s.tenant = r.tenant /\ s.held = r.held /\ s.call = r.call
      /\ s.pc \in {"answered", "write"}
  BY <1>1 DEF RequestState
<1>7. request'[q] = s /\ holder' = holder /\ row' = row
  BY <1>4 DEF Find, Inv, TypeOK
<1>8. RequestOK(q)'
  BY <1>1, <1>2, <1>3, <1>6, <1>7 DEF RequestOK, Roled
<1>9. QED
  BY <1>2, <1>4, <1>5, <1>7, <1>8, OneRequest, SMT, ZenonT(40) DEF Find, Inv, TypeOK

LEMMA WriteInv == ASSUME Inv, NEW q \in Request, Write(q) PROVE Inv'
<1> DEFINE r == request[q]
           t == Context(q)
<1>1. r \in RequestState /\ RequestOK(q) /\ r.pc = "write"
  BY DEF Inv, TypeOK, Write, At
<1>2. r.tenant \in Tenant /\ t = r.tenant /\ t # None /\ Roled(q)
  BY <1>1, NoneIsNoTenant DEF RequestOK, Context, ScopeOf
<1>3. ASSUME NEW x \in Row, NEW now \in {t, None}, row[x] \in {t, None},
             row' = [row EXCEPT ![x] = now],
             request' = [request EXCEPT ![q].pc = "answered", ![q].wrote = TRUE,
                           ![q].touched = @ \cup ({row[x], now} \ {None})]
      PROVE  Inv'
  <2> DEFINE seen == r.touched \cup ({row[x], now} \ {None})
             s == [r EXCEPT !.pc = "answered", !.wrote = TRUE, !.touched = seen]
  <2>1. seen \subseteq {r.tenant}
    BY <1>1, <1>2, <1>3 DEF RequestOK
  <2>2. s \in RequestState /\ s.touched = seen /\ s.tenant = r.tenant /\ s.held = r.held
        /\ s.call = r.call /\ s.pc = "answered"
    BY <1>1, <1>2, <2>1 DEF RequestState
  <2>3. request' = [request EXCEPT ![q] = s] /\ request'[q] = s
    BY <1>3 DEF Inv, TypeOK
  <2>4. RequestOK(q)'
    BY <1>2, <2>1, <2>2, <2>3 DEF RequestOK, Roled
  <2>5. row' \in [Row -> Tenant \cup {None}]
    BY <1>2, <1>3 DEF Inv, TypeOK
  <2>6. QED
    BY <1>2, <2>2, <2>3, <2>4, <2>5, OneRequest DEF Write
<1>4. CASE Answered(q) /\ UNCHANGED row
  <2> DEFINE s == [r EXCEPT !.pc = "answered"]
  <2>1. s \in RequestState /\ request' = [request EXCEPT ![q] = s]
    BY <1>1, <1>4 DEF RequestState, Answered, Go, Inv, TypeOK
  <2>2. RequestOK(q)'
    BY <1>1, <2>1 DEF RequestOK, RequestState, Roled, Inv, TypeOK
  <2>3. QED
    BY <1>2, <1>4, <2>1, <2>2, OneRequest DEF Write, Inv, TypeOK
<1>5. CASE \E x \in {x \in Row : row[x] = None} :
             /\ row' = [row EXCEPT ![x] = t]
             /\ request' = [request EXCEPT ![q].pc = "answered", ![q].wrote = TRUE,
                              ![q].touched = @ \cup ({row[x], t} \ {None})]
  BY <1>3, <1>5
<1>6. CASE /\ r.row \in Scoped(t)
           /\ row' = [row EXCEPT ![r.row] = IF r.call.method = "DELETE" THEN None ELSE row[r.row]]
           /\ request' = [request EXCEPT ![q].pc = "answered", ![q].wrote = TRUE,
                ![q].touched = @ \cup
                  ({row[r.row], IF r.call.method = "DELETE" THEN None ELSE row[r.row]} \ {None})]
  BY <1>3, <1>6 DEF Scoped
<1>7. QED
  BY <1>4, <1>5, <1>6 DEF Write

-----------------------------------------------------------------------------
(* The client: what it changes at the API is a request that has touched nothing *)

LEMMA SendInv ==
    ASSUME Inv, NEW c \in Click, NEW n \in 1 .. MaxAttempts, NEW call \in Calls,
           NEW x \in Row \cup {None}, Send(c, n, call, x)
    PROVE  Inv'
<1> DEFINE s == NewRequest(browser.user, browser.tenant, call, x)
<1>1. s \in RequestState
  BY NoRequestType DEF Inv, TypeOK
<1>2. s.touched = {} /\ s.pc = "travelling"
  BY DEF NewRequest
<1>3. <<c, n>> \in Request /\ request' = [request EXCEPT ![<<c, n>>] = s]
  BY DEF Request, Send
<1>4. \A q \in Request : request'[q] = IF q = <<c, n>> THEN s ELSE request[q]
  BY <1>3 DEF Inv, TypeOK
<1>5. TypeOK'
  <2>1. n \in 0 .. MaxAttempts /\ n > 0
    BY RequestsAssumption
  <2>2. /\ click' \in [Click -> ClickState]
        /\ \A d \in Click : click'[d].state = "waiting" => click'[d].attempt > 0
        /\ \A d \in Click :
             click'[d].state = "sleeping" => click'[d].attempt \in 1 .. MaxAttempts - 1
    BY <2>1 DEF Send, Inv, TypeOK, ClickState
  <2>3. request' \in [Request -> RequestState]
    BY <1>1, <1>3 DEF Inv, TypeOK
  <2>4. QED
    BY <2>2, <2>3 DEF Send, Inv, TypeOK, companyVars
<1>6. \A q \in Request : RequestOK(q)'
  BY <1>2, <1>4 DEF Send, Inv, RequestOK, Roled, companyVars
<1>7. ReportOK'
  BY DEF Send, Inv, ReportOK
<1>8. QED
  BY <1>5, <1>6, <1>7 DEF Inv

LEMMA ClientInv == ASSUME Inv, ClientStep PROVE Inv'
<1>1. ASSUME NEW u \in User, Login(u) PROVE Inv'
  <2>1. ActiveTenant(u) \subseteq Tenant \cup {None}
    BY DEF ActiveTenant, Inv, TypeOK
  <2>2. browser' \in [user : User \cup {None}, tenant : Tenant \cup {None}]
    BY <1>1, <2>1 DEF Login
  <2>3. TypeOK'
    BY <1>1, <2>2, RequestsAssumption DEF Login, Change, Inv, TypeOK, companyVars
  <2>4. QED
    BY <1>1, <2>3 DEF Login, Inv, RequestOK, Roled, ReportOK, companyVars
<1>2. CASE Logout
  <2>1. TypeOK'
    BY <1>2, RequestsAssumption DEF Logout, Change, Inv, TypeOK, companyVars
  <2>2. QED
    BY <1>2, <2>1 DEF Logout, Inv, RequestOK, Roled, ReportOK, companyVars
<1>3. ASSUME NEW c \in Click, Start(c) PROVE Inv'
  BY <1>3, SendInv, RequestsAssumption DEF Start
<1>4. ASSUME NEW c \in Click, Answer(c) PROVE Inv'
  <2>1. TypeOK'
    BY <1>4 DEF Answer, Inv, TypeOK, ClickState, companyVars
  <2>2. QED
    BY <1>4, <2>1 DEF Answer, Inv, RequestOK, Roled, ReportOK, companyVars
<1>5. ASSUME NEW c \in Click, ConnectionFails(c) PROVE Inv'
  <2>1. click[c] \in ClickState /\ click[c].state = "waiting" /\ click[c].attempt > 0
    <3>1. click[c].state = "waiting"
      BY <1>5 DEF ConnectionFails
    <3>2. TypeOK
      BY DEF Inv
    <3>3. click[c] \in ClickState
      BY <3>2 DEF TypeOK
    <3>4. click[c].state = "waiting" => click[c].attempt > 0
      BY <3>2 DEF TypeOK
    <3>5. QED
      BY <3>1, <3>3, <3>4
  <2>2. Attempt(c) \in Request
    BY <2>1, RequestsAssumption DEF Attempt, Request, ClickState
  <2> DEFINE s == [request[Attempt(c)] EXCEPT !.pc = "none"]
  <2>3. request[Attempt(c)] \in RequestState /\ RequestOK(Attempt(c))
    BY <2>2 DEF Inv, TypeOK
  <2>4. s \in RequestState /\ s.pc = "none" /\ s.touched = request[Attempt(c)].touched
        /\ s.tenant = request[Attempt(c)].tenant /\ s.held = request[Attempt(c)].held
        /\ s.call = request[Attempt(c)].call
    BY <2>3 DEF RequestState
  <2>5. /\ click' \in [Click -> ClickState]
        /\ \A d \in Click : click'[d].state = "waiting" => click'[d].attempt > 0
        /\ \A d \in Click :
             click'[d].state = "sleeping" => click'[d].attempt \in 1 .. MaxAttempts - 1
    BY <1>5, <2>1, RequestsAssumption DEF ConnectionFails, Inv, TypeOK, ClickState
  <2>6. \/ request' = request
        \/ request' = [request EXCEPT ![Attempt(c)] = s]
    BY <1>5, <2>2 DEF ConnectionFails, Inv, TypeOK
  <2>7. request' \in [Request -> RequestState]
    BY <2>2, <2>4, <2>6 DEF Inv, TypeOK
  <2>8. TypeOK'
    <3>1. TypeOK /\ UNCHANGED <<row, companyVars, browser, holder, report, changes>>
      BY <1>5 DEF ConnectionFails, Inv
    <3>2. QED
      BY <2>5, <2>7, <3>1 DEF TypeOK, companyVars
  <2>9. ASSUME NEW q \in Request PROVE RequestOK(q)'
    BY <1>5, <2>2, <2>3, <2>4, <2>6
    DEF ConnectionFails, Inv, TypeOK, RequestOK, Roled, companyVars
  <2>10. QED
    BY <1>5, <2>8, <2>9 DEF ConnectionFails, Inv, ReportOK
<1>6. ASSUME NEW c \in Click, Retry(c) PROVE Inv'
  <2> DEFINE last == request[Attempt(c)]
  <2>1. click[c] \in ClickState /\ click[c].attempt \in 1 .. MaxAttempts - 1
    BY <1>6 DEF Retry, Inv, TypeOK
  <2>2. Attempt(c) \in Request /\ click[c].attempt + 1 \in 1 .. MaxAttempts
    BY <2>1, RequestsAssumption DEF Attempt, Request
  <2>3. last \in RequestState
    BY <2>2 DEF Inv, TypeOK
  <2>4. last.call \in Calls /\ last.row \in Row \cup {None}
    BY <2>3 DEF RequestState
  <2>5. QED
    BY <1>6, <2>2, <2>4, SendInv DEF Retry
<1>7. QED
  BY <1>1, <1>2, <1>3, <1>4, <1>5, <1>6 DEF ClientStep

-----------------------------------------------------------------------------
(* The monthly job, and the administrators *)

\* Its steps change its own record and its own holder.
LEMMA JobInv == ASSUME Inv, JobStep PROVE Inv'
<1>1. report \in ReportState
  BY DEF Inv, TypeOK
<1>2. CASE SendMonthlyReports
  BY <1>1, <1>2, ReportIsNoRequest
  DEF SendMonthlyReports, Inv, TypeOK, RequestOK, Roled, ReportOK, ReportState, companyVars
<1>3. CASE NextTenant
  <2>1. ASSUME report' = [report EXCEPT !.pc = "done"]
        PROVE  report' \in ReportState /\ ReportOK'
    <3>1. report' \in ReportState /\ report'.seen = report.seen
          /\ report'.tenant = report.tenant /\ report'.pc = "done"
      BY <1>1, <2>1 DEF ReportState
    <3>2. report.seen \subseteq {report.tenant}
      BY DEF Inv, ReportOK
    <3>3. QED
      BY <3>1, <3>2 DEF ReportOK
  <2>2. ASSUME NEW t \in report.left,
               report' = [report EXCEPT !.pc = "features", !.tenant = t, !.left = @ \ {t},
                            !.plan = None, !.override = None, !.seen = {}]
        PROVE  report' \in ReportState /\ ReportOK'
    <3>1. t \in Tenant /\ None \in Override
      BY <1>1 DEF ReportState, Override
    <3>2. report' \in ReportState
      BY <1>1, <2>2, <3>1 DEF ReportState
    <3>3. report'.seen = {} /\ report'.tenant = t /\ report'.pc = "features"
      BY <1>1, <2>2 DEF ReportState
    <3>4. QED
      BY <3>1, <3>2, <3>3 DEF ReportOK
  <2>3. report' \in ReportState /\ ReportOK'
    BY <1>3, <2>1, <2>2 DEF NextTenant
  <2>4. QED
    BY <1>3, <2>3 DEF NextTenant, Inv, TypeOK, RequestOK, Roled, companyVars
<1>4. CASE TenantHasReports
  <2>1. report.tenant \in Tenant /\ report.pc = "features"
    BY <1>4 DEF TenantHasReports, Inv, ReportOK
  <2>2. plan[report.tenant] \in Plans /\ <<override[report.tenant]>> \in Override
    BY <2>1 DEF Inv, TypeOK, Override
  <2>3. report' \in ReportState /\ ReportOK'
    BY <1>1, <1>4, <2>1, <2>2 DEF TenantHasReports, ReportState, Inv, ReportOK
  <2>4. QED
    BY <1>4, <2>3 DEF TenantHasReports, Inv, TypeOK, RequestOK, Roled, companyVars
<1>5. CASE FindOwner
  <2>1. report.tenant \in Tenant /\ report.pc = "owner"
    BY <1>5 DEF FindOwner, Inv, ReportOK
  <2>2. PICK pc \in {"summary", "next"} :
          /\ report' = [report EXCEPT !.pc = pc]
          /\ \/ holder' = [holder EXCEPT ![Report] = report.tenant]
             \/ pc = "next" /\ holder' = holder
    BY <1>5 DEF FindOwner, Enter, ScopeOf
  <2>3. report' \in ReportState /\ ReportOK'
    BY <1>1, <2>1, <2>2 DEF ReportState, Inv, TypeOK, ReportOK
  <2>4. holder' \in [Request \cup {Report} -> Tenant \cup {None}]
        /\ \A q \in Request : holder'[q] = holder[q]
    BY <2>1, <2>2, ReportIsNoRequest DEF Inv, TypeOK
  <2>5. QED
    BY <1>5, <2>3, <2>4 DEF FindOwner, Inv, TypeOK, RequestOK, Roled, companyVars
<1>6. CASE GetSummary
  <2>1. report.tenant \in Tenant /\ Context(Report) = report.tenant
    BY <1>6 DEF GetSummary, Inv, ReportOK, Context, ScopeOf
  <2> DEFINE found == {row[x] : x \in Scoped(Context(Report))}
  <2>2. found \subseteq {report.tenant}
    BY <2>1 DEF Scoped
  <2>3. report' \in ReportState /\ ReportOK'
    BY <1>1, <1>6, <2>1, <2>2 DEF GetSummary, ReportState, ReportOK
  <2>4. QED
    BY <1>6, <2>3 DEF GetSummary, Inv, TypeOK, RequestOK, Roled, companyVars
<1>7. QED
  BY <1>2, <1>3, <1>4, <1>5, <1>6 DEF JobStep

\* A role that is taken away has been held; one that is given has not been less.
LEMMA AdminInv == ASSUME Inv, AdminStep PROVE Inv'
<1>1. ASSUME NEW t \in Tenant, NEW u \in User, NEW role \in Roles \cup {None},
             SetRole(t, u, role)
      PROVE  Inv'
  <2> DEFINE Sees(q) == request[q].user = u /\ request[q].tenant = t
                        /\ request[q].pc \notin {"none", "travelling", "answered"}
  <2>1. \A q \in Request : request[q] \in RequestState /\ RequestOK(q)
    BY DEF Inv, TypeOK
  <2>2. request' = [q \in Request |->
          IF Sees(q) THEN [request[q] EXCEPT !.held = @ \cup {role}] ELSE request[q]]
    BY <1>1 DEF SetRole
  <2>3. member' = [member EXCEPT ![t][u] = role]
    BY <1>1 DEF SetRole
  <2>4. TypeOK'
    <3>1. request' \in [Request -> RequestState]
      BY <2>1, <2>2 DEF RequestState
    <3>2. member' \in [Tenant -> [User -> Roles \cup {None}]]
      BY <2>3 DEF Inv, TypeOK
    <3>3. QED
      BY <1>1, <3>1, <3>2, RequestsAssumption DEF SetRole, Change, Inv, TypeOK
  <2>5. ASSUME NEW q \in Request PROVE RequestOK(q)'
    <3> DEFINE r == request[q]
               s == request'[q]
    <3>1. /\ s.touched = r.touched /\ s.tenant = r.tenant /\ s.pc = r.pc
          /\ s.call = r.call /\ s.user = r.user /\ r.held \subseteq s.held
          /\ Sees(q) => role \in s.held
      BY <2>1, <2>2 DEF RequestState
    <3>2. Roled(q) => Roled(q)'
      BY <3>1 DEF Roled
    <3>3. r.pc = "member" => member'[r.tenant][r.user] \in s.held
      BY <2>1, <2>3, <3>1 DEF RequestOK, Inv, TypeOK
    <3>4. QED
      BY <1>1, <2>1, <3>1, <3>2, <3>3 DEF RequestOK, SetRole
  <2>6. QED
    BY <1>1, <2>4, <2>5 DEF SetRole, Inv, ReportOK
<1>2. ASSUME NEW t \in Tenant, NEW p \in Plans, SetSubscription(t, p) PROVE Inv'
  <2>1. TypeOK'
    BY <1>2, RequestsAssumption DEF SetSubscription, Change, Inv, TypeOK
  <2>2. QED
    BY <1>2, <2>1 DEF SetSubscription, Inv, RequestOK, Roled, ReportOK
<1>3. ASSUME NEW t \in Tenant, NEW on \in BOOLEAN \cup {None}, SetFeatureOverride(t, on)
      PROVE  Inv'
  <2>1. TypeOK'
    BY <1>3, RequestsAssumption DEF SetFeatureOverride, Change, Inv, TypeOK
  <2>2. QED
    BY <1>3, <2>1 DEF SetFeatureOverride, Inv, RequestOK, Roled, ReportOK
<1>4. QED
  BY <1>1, <1>2, <1>3 DEF AdminStep

-----------------------------------------------------------------------------
LEMMA NextInv == Inv /\ [Next]_vars => Inv'
<1> SUFFICES ASSUME Inv, [Next]_vars PROVE Inv'
  OBVIOUS
<1>1. CASE ClientStep
  BY <1>1, ClientInv
<1>2. CASE ServerStep
  BY <1>2, ArriveInv, TenantGuardInv, FeatureInv, FindInv, WriteInv DEF ServerStep
<1>3. CASE JobStep
  BY <1>3, JobInv
<1>4. CASE AdminStep
  BY <1>4, AdminInv
<1>5. CASE UNCHANGED vars
  BY <1>5 DEF vars, Inv, TypeOK, RequestOK, Roled, ReportOK
<1>6. QED
  BY <1>1, <1>2, <1>3, <1>4, <1>5 DEF Next

LEMMA InvAlways == Spec => []Inv
<1>1. QED
  BY InitInv, NextInv, PTL DEF Spec

\* Every variable keeps its type.
THEOREM RequestsTypeCorrect == Spec => []TypeOK
<1>1. Inv => TypeOK
  BY DEF Inv
<1>2. QED
  BY <1>1, InvAlways, PTL

\* Whatever the interleaving, no request and no report reads or changes a row of
\* another company.
THEOREM NoForeignRows == Spec => []OwnRowsOnly
<1>1. Inv => OwnRowsOnly
  BY DEF Inv, RequestOK, ReportOK, OwnRowsOnly
<1>2. QED
  BY <1>1, InvAlways, PTL

\* No handler is entered, and no row is touched, without a role of its route that
\* the user has had in the company since the request arrived.
THEOREM NoRoleNoRows == Spec => []RoleWasHeld
<1>1. Inv => RoleWasHeld
  BY DEF Inv, RequestOK, Roled, RoleWasHeld
<1>2. QED
  BY <1>1, InvAlways, PTL
=============================================================================
