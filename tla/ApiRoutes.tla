------------------------------ MODULE ApiRoutes ------------------------------
(***************************************************************************)
(* The routes of the API, controller by controller in the order in which   *)
(* the root module imports them and in the order in which each declares     *)
(* them, and the calls of the web client.  The router takes the first route *)
(* that matches; the path of a route has the word Any in place of a         *)
(* parameter.                                                               *)
(***************************************************************************)
EXTENDS Naturals, Sequences, FiniteSets

Any == "*"
NoFeature == "none"

Role == {"OWNER", "FLEET_MANAGER", "ADMIN", "ACCOUNTANT", "VIEWER"}

Administrators == {"OWNER", "ADMIN"}
Managers   == Administrators \cup {"FLEET_MANAGER"}
Confirmers == Managers \cup {"ACCOUNTANT"}

\* The guards of a route: none (@Public or no guard at all), a valid access
\* token, a platform administrator, or membership in the company of the header
\* with one of the roles, while the company has the feature.
Guarded(access, roles, feature, method, path, handler) ==
    [method |-> method, path |-> path, handler |-> handler,
     access |-> access, roles |-> roles, feature |-> feature]
Public(m, p, h)   == Guarded("public", Role, NoFeature, m, p, h)
SignedIn(m, p, h) == Guarded("user", Role, NoFeature, m, p, h)
Platform(m, p, h) == Guarded("platform", Role, NoFeature, m, p, h)
Member(roles, feature, m, p, h) == Guarded("member", roles, feature, m, p, h)

AuthController == <<
    Public("POST", <<"auth", "register">>, "register"),
    Public("POST", <<"auth", "login">>, "login"),
    Public("POST", <<"auth", "refresh">>, "refresh"),
    Public("POST", <<"auth", "logout">>, "logout"),
    Public("POST", <<"auth", "forgot-password">>, "forgotPassword"),
    Public("POST", <<"auth", "reset-password">>, "resetPassword"),
    SignedIn("GET", <<"auth", "me">>, "me"),
    SignedIn("POST", <<"auth", "2fa", "setup">>, "beginTwoFactorSetup"),
    SignedIn("POST", <<"auth", "2fa", "confirm">>, "confirmTwoFactor"),
    SignedIn("POST", <<"auth", "2fa", "disable">>, "disableTwoFactor"),
    Public("POST", <<"auth", "2fa", "verify-login">>, "verifyTwoFactorLogin") >>

NotificationsController == <<
    SignedIn("GET", <<"notifications", "vapid-key">>, "vapidKey"),
    Member(Role, NoFeature, "POST", <<"notifications", "subscribe">>, "subscribe"),
    SignedIn("POST", <<"notifications", "unsubscribe">>, "unsubscribe") >>

TenantsController == LET Of(roles, m, h) ==
    Member(roles, NoFeature, m, <<"tenants", "current">>, h) IN <<
    Of(Role, "GET", "getCurrent"), Of(Administrators, "PATCH", "updateTenant") >>

UsersController == LET Of(roles, m, p, h) ==
    Member(roles, NoFeature, m, <<"users">> \o p, h) IN <<
    Of(Role, "GET", <<"members">>, "listMembers"),
    Of(Administrators, "POST", <<"invite">>, "invite"),
    Of(Administrators, "GET", <<"invitations">>, "listInvitations"),
    Of(Administrators, "DELETE", <<"invitations", Any>>, "revokeInvitation"),
    Public("POST", <<"users", "accept-invite">>, "acceptInvite"),
    Of(Administrators, "PATCH", <<"members", Any, "role">>, "changeRole"),
    Of(Administrators, "DELETE", <<"members", Any>>, "removeMember") >>

VehiclesController == LET
    Of(roles, m, p, h) == Member(roles, NoFeature, m, <<"vehicles">> \o p, h)
    Scan(m, p, h) == Member(Managers, "AI_PROCESSING", m, <<"vehicles", "scan">> \o p, h) IN <<
    Of(Managers, "POST", <<Any, "verify">>, "verify"),
    Of(Role, "GET", <<Any, "verification">>, "getVerification"),
    Of(Managers, "POST", <<Any, "verify-document">>, "verifyDocument"),
    Of(Managers, "POST", <<Any, "verify-document", "confirm">>, "confirmDocument"),
    Scan("POST", <<>>, "scan"),
    Scan("GET", <<Any>>, "getScan"),
    Scan("POST", <<"confirm">>, "confirmScan"),
    Of(Managers, "POST", <<"import", "preview">>, "importPreview"),
    Of(Managers, "POST", <<"import", "commit">>, "importCommit"),
    Of(Role, "GET", <<Any, "documents">>, "listVehicleDocuments"),
    Of(Role, "GET", <<Any, "documents", Any, "download">>, "downloadVehicleDocument"),
    Of(Role, "GET", <<>>, "listVehicles"),
    Of(Role, "GET", <<Any>>, "getVehicle"),
    Of(Role, "GET", <<Any, "history">>, "history"),
    Of(Managers, "POST", <<>>, "createVehicle"),
    Of(Managers, "PATCH", <<Any>>, "updateVehicle"),
    Of(Managers, "DELETE", <<Any>>, "removeVehicle") >>

DocumentsController == LET Of(roles, m, p, h) ==
    Member(roles, "DOCUMENT_LIBRARY", m, <<"documents">> \o p, h) IN <<
    Of(Managers, "POST", <<>>, "upload"),
    Of(Role, "GET", <<>>, "listDocuments"),
    Of(Role, "GET", <<Any>>, "getDocument"),
    Of(Role, "GET", <<Any, "download">>, "download"),
    Of(Confirmers, "PATCH", <<Any, "confirm">>, "confirm"),
    Of(Managers, "POST", <<Any, "overwrite-duplicate">>, "overwriteDuplicate"),
    Of(Managers, "DELETE", <<Any>>, "removeDocument") >>

InvoicesController == LET Of(roles, m, p, h) ==
    Member(roles, NoFeature, m, <<"invoices">> \o p, h) IN <<
    Of(Role, "GET", <<>>, "getInvoiceOfDocument"),
    Of(Role, "GET", <<Any>>, "getInvoice"),
    Of(Confirmers, "PATCH", <<"items", Any>>, "updateItem") >>

HealthController == << Public("GET", <<"health">>, "health") >>

StatsController == << Member(Role, NoFeature, "GET", <<"stats">>, "dashboardStats") >>

ReportsController == LET Of(p, h) ==
    Member(Role, NoFeature, "GET", <<"reports", p>>, h) IN <<
    Of("summary", "reportSummary"), Of("export", "reportExport") >>

AdminController == LET Of(m, p, h) == Platform(m, <<"admin", "tenants">> \o p, h) IN <<
    Of("GET", <<>>, "listTenants"),
    Of("GET", <<Any>>, "getTenant"),
    Of("PUT", <<Any, "subscription">>, "setSubscription"),
    Of("PUT", <<Any, "features", Any>>, "setFeatureOverride"),
    Of("DELETE", <<Any, "features", Any>>, "removeFeatureOverride") >>

BillingController == LET Of(roles, m, p, h) ==
    Member(roles, NoFeature, m, <<"billing", p>>, h) IN <<
    Of(Role, "GET", "overview", "billingOverview"),
    Of(Administrators, "POST", "request-subscription", "requestSubscription") >>

RemindersController == LET Of(roles, m, p, h) ==
    Member(roles, "REMINDERS", m, <<"reminders">> \o p, h) IN <<
    Of(Role, "GET", <<>>, "listReminders"),
    Of(Role, "GET", <<"upcoming">>, "upcoming"),
    Of(Role, "GET", <<"suggestions", Any>>, "suggestions"),
    Of(Role, "GET", <<Any>>, "getReminder"),
    Of(Managers, "POST", <<>>, "createReminder"),
    Of(Managers, "PATCH", <<Any>>, "updateReminder"),
    Of(Confirmers, "POST", <<Any, "complete">>, "completeReminder"),
    Of(Managers, "DELETE", <<Any>>, "removeReminder") >>

InsightsController == LET Of(p, h) ==
    Member(Role, "REPORTS", "GET", <<"insights">> \o p, h) IN <<
    Of(<<"anomalies">>, "anomalies"),
    Of(<<"anomalies", "summary">>, "anomalySummary"),
    Of(<<"tco">>, "tco") >>

BenchmarkController == LET Of(p, h) ==
    Member(Role, "REPORTS", "GET", <<"benchmark">> \o p, h) IN <<
    Of(<<>>, "comparison"), Of(<<"recalls">>, "recalls") >>

DsrController == LET Of(roles, p, h) ==
    Member(roles, NoFeature, "POST", <<"dsr">> \o p, h) IN <<
    Of(Administrators, <<"export">>, "exportData"),
    SignedIn("POST", <<"dsr", "account", "delete">>, "deleteAccount"),
    Of({"OWNER"}, <<"tenant", "delete">>, "deleteTenant") >>

AuditController == << Member(Administrators, NoFeature, "GET", <<"audit">>, "auditLog") >>
FeatureFlagsController == <<
    Member(Role, NoFeature, "GET", <<"feature-flags">>, "features") >>

Routes ==
    AuditController \o FeatureFlagsController \o NotificationsController
    \o AuthController \o TenantsController \o UsersController
    \o VehiclesController \o DocumentsController \o InvoicesController
    \o HealthController \o StatsController \o ReportsController \o AdminController
    \o BillingController \o RemindersController \o InsightsController
    \o BenchmarkController \o DsrController

\* A segment of the path of a request is a word or, where the client puts an
\* identifier, an identifier, which no word of a route equals.
Matches(route, method, path) ==
    /\ route.method = method /\ Len(route.path) = Len(path)
    /\ \A i \in DOMAIN path : route.path[i] \in {path[i], Any}

Matching(method, path) == {i \in DOMAIN Routes : Matches(Routes[i], method, path)}

\* Mutant: the route declared last wins.
ResolveLast(method, path) ==
    {Routes[i] : i \in {i \in Matching(method, path) :
                          \A j \in Matching(method, path) : j <= i}}

\* The first matching route, in a set: empty if no route matches (404).
Resolve(method, path) ==
    {Routes[i] : i \in {i \in Matching(method, path) :
                          \A j \in Matching(method, path) : i <= j}}

-----------------------------------------------------------------------------
(* The calls of the web client: the name of each is the handler it is for.  *)

Id == "id"

Call(method, path, handler) ==
    [method |-> method, path |-> path, handler |-> handler, anonymous |-> FALSE]
Anonymous(path, handler) ==
    [method |-> "POST", path |-> path, handler |-> handler, anonymous |-> TRUE]
Get(path, h)  == Call("GET", path, h)
Post(path, h) == Call("POST", path, h)

authApi == {
    Anonymous(<<"auth", "login">>, "login"),
    Anonymous(<<"auth", "2fa", "verify-login">>, "verifyTwoFactorLogin"),
    Post(<<"auth", "2fa", "setup">>, "beginTwoFactorSetup"),
    Post(<<"auth", "2fa", "confirm">>, "confirmTwoFactor"),
    Post(<<"auth", "2fa", "disable">>, "disableTwoFactor"),
    Anonymous(<<"auth", "register">>, "register"),
    Get(<<"auth", "me">>, "me"),
    Anonymous(<<"auth", "forgot-password">>, "forgotPassword"),
    Anonymous(<<"auth", "reset-password">>, "resetPassword") }

dsrApi == {
    Post(<<"dsr", "export">>, "exportData"),
    Post(<<"dsr", "account", "delete">>, "deleteAccount"),
    Post(<<"dsr", "tenant", "delete">>, "deleteTenant") }

documentsApi == LET doc == <<"documents", Id>> IN {
    Post(<<"documents">>, "upload"),
    Get(<<"documents">>, "listDocuments"),
    Get(doc, "getDocument"),
    Get(doc \o <<"download">>, "download"),
    Call("PATCH", doc \o <<"confirm">>, "confirm"),
    Post(doc \o <<"overwrite-duplicate">>, "overwriteDuplicate"),
    Call("DELETE", doc, "removeDocument") }

invoicesApi == { Call("PATCH", <<"invoices", "items", Id>>, "updateItem") }

vehiclesApi == LET all == <<"vehicles">>  one == <<"vehicles", Id>> IN {
    Get(all, "listVehicles"),
    Post(all \o <<"scan">>, "scan"),
    Get(all \o <<"scan", Id>>, "getScan"),
    Post(all \o <<"scan", "confirm">>, "confirmScan"),
    Post(all \o <<"import", "preview">>, "importPreview"),
    Post(all \o <<"import", "commit">>, "importCommit"),
    Post(one \o <<"verify">>, "verify"),
    Post(one \o <<"verify-document">>, "verifyDocument"),
    Post(one \o <<"verify-document", "confirm">>, "confirmDocument"),
    Get(one \o <<"verification">>, "getVerification"),
    Get(one \o <<"documents">>, "listVehicleDocuments"),
    Get(one \o <<"documents", Id, "download">>, "downloadVehicleDocument"),
    Get(one, "getVehicle"),
    Get(one \o <<"history">>, "history"),
    Post(all, "createVehicle"),
    Call("PATCH", one, "updateVehicle"),
    Call("DELETE", one, "removeVehicle") }

remindersApi == LET all == <<"reminders">>  one == <<"reminders", Id>> IN {
    Get(all, "listReminders"),
    Get(all \o <<"upcoming">>, "upcoming"),
    Get(all \o <<"suggestions", Id>>, "suggestions"),
    Post(all, "createReminder"),
    Call("PATCH", one, "updateReminder"),
    Post(one \o <<"complete">>, "completeReminder"),
    Call("DELETE", one, "removeReminder") }

usersApi == LET member == <<"users", "members", Id>> IN {
    Get(<<"users", "members">>, "listMembers"),
    Post(<<"users", "invite">>, "invite"),
    Get(<<"users", "invitations">>, "listInvitations"),
    Call("DELETE", <<"users", "invitations", Id>>, "revokeInvitation"),
    Call("PATCH", member \o <<"role">>, "changeRole"),
    Call("DELETE", member, "removeMember") }

adminApi == LET tenant == <<"admin", "tenants", Id>> IN {
    Get(<<"admin", "tenants">>, "listTenants"),
    Get(tenant, "getTenant"),
    Call("PUT", tenant \o <<"subscription">>, "setSubscription"),
    Call("PUT", tenant \o <<"features", Id>>, "setFeatureOverride"),
    Call("DELETE", tenant \o <<"features", Id>>, "removeFeatureOverride") }

statsApi     == { Get(<<"stats">>, "dashboardStats") }
insightsApi  == { Get(<<"insights", "anomalies">>, "anomalies"),
                  Get(<<"insights", "anomalies", "summary">>, "anomalySummary"),
                  Get(<<"insights", "tco">>, "tco") }
benchmarkApi == { Get(<<"benchmark">>, "comparison"),
                  Get(<<"benchmark", "recalls">>, "recalls") }
reportsApi   == { Get(<<"reports", "summary">>, "reportSummary"),
                  Get(<<"reports", "export">>, "reportExport") }
billingApi   == { Get(<<"billing", "overview">>, "billingOverview"),
                  Post(<<"billing", "request-subscription">>, "requestSubscription") }
notificationsApi == {
    Get(<<"notifications", "vapid-key">>, "vapidKey"),
    Post(<<"notifications", "subscribe">>, "subscribe"),
    Post(<<"notifications", "unsubscribe">>, "unsubscribe") }

ClientCalls ==
    authApi \cup dsrApi \cup documentsApi \cup invoicesApi \cup vehiclesApi
    \cup remindersApi \cup usersApi \cup adminApi \cup statsApi \cup insightsApi
    \cup benchmarkApi \cup reportsApi \cup billingApi \cup notificationsApi

=============================================================================
