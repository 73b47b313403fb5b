------------------------------ MODULE UsageRules ------------------------------
(***************************************************************************)
(* What a company uses of its plan: the limits and their checks, the page   *)
(* that shows them (BillingService.getOverview, BillingClient), and the     *)
(* counts of the dashboard (StatsService).                                  *)
(*                                                                          *)
(* db is what the database holds: subscriptions and the sets of vehicles,   *)
(* memberships, invitations and documents, each of a tenant.                *)
(***************************************************************************)
EXTENDS Integers, FiniteSets

CONSTANTS
    None,
    Limits     \* PLAN_LIMITS: the limits of each plan, UNLIMITED being -1

UNLIMITED == -1

isWithinLimit(current, limit) == limit = UNLIMITED \/ current < limit

planTier(db, tenant) ==
    IF db.plan[tenant] = None THEN "STARTER" ELSE db.plan[tenant]

\* The rows of a tenant: the scoped client, or the system client with its id.
Rows(rows, tenant) == {r \in rows : r.tenant = tenant}

Pending(db, tenant, now) ==
    {i \in Rows(db.invitations, tenant) : ~i.accepted /\ i.expiresAt > now}

\* The first moment of the month of now; the months have monthLength moments.
MonthStart(now, monthLength) == now - (now % monthLength)

InMonth(db, tenant, now, monthLength) ==
    {d \in Rows(db.documents, tenant) : d.createdAt >= MonthStart(now, monthLength)}

-----------------------------------------------------------------------------
(* The checks *)

assertVehicleLimit(db, tenant) ==
    isWithinLimit(Cardinality(Rows(db.vehicles, tenant)),
                  Limits[planTier(db, tenant)].vehicles)

assertUserLimit(db, tenant, now) ==
    isWithinLimit(Cardinality(Rows(db.memberships, tenant))
                    + Cardinality(Pending(db, tenant, now)),
                  Limits[planTier(db, tenant)].users)

assertMonthlyDocumentLimit(db, tenant, now, monthLength) ==
    isWithinLimit(Cardinality(InMonth(db, tenant, now, monthLength)),
                  Limits[planTier(db, tenant)].documents)

-----------------------------------------------------------------------------
(* The page *)

\* Mutant: invitations that have expired still count on the page.
getOverviewAllInvitations(db, tenant, now, monthLength) ==
    [limits |-> Limits[planTier(db, tenant)],
     usage  |-> [
       vehicles  |-> Cardinality(Rows(db.vehicles, tenant)),
       users     |-> Cardinality(Rows(db.memberships, tenant))
                       + Cardinality({i \in Rows(db.invitations, tenant) : ~i.accepted}),
       documents |-> Cardinality(InMonth(db, tenant, now, monthLength))]]

getOverview(db, tenant, now, monthLength) ==
    [limits |-> Limits[planTier(db, tenant)],
     usage  |-> [
       vehicles  |-> Cardinality(Rows(db.vehicles, tenant)),
       users     |-> Cardinality(Rows(db.memberships, tenant))
                       + Cardinality(Pending(db, tenant, now)),
       documents |-> Cardinality(InMonth(db, tenant, now, monthLength))]]

\* The part of the bar that is filled, in percent, and its colour.
Percent(used, limit) ==
    IF limit = UNLIMITED THEN 0
    ELSE LET whole == IF limit > 1 THEN limit ELSE 1
             round == (200 * used + whole) \div (2 * whole)
         IN  IF round < 100 THEN round ELSE 100
Colour(percent) ==
    IF percent >= 90 THEN "red" ELSE IF percent >= 70 THEN "yellow" ELSE "blue"

UsageBar(used, limit) ==
    [percent |-> Percent(used, limit), colour |-> Colour(Percent(used, limit)),
     shown |-> limit # UNLIMITED]

usageRows(overview) ==
    [row \in DOMAIN overview.usage |-> UsageBar(overview.usage[row], overview.limits[row])]

-----------------------------------------------------------------------------
(* The dashboard *)

ProcessingStatuses == {"QUEUED", "OCR_RUNNING", "EXTRACTING"}
ConfirmedStatuses  == {"CONFIRMED", "AUTO_OK"}

getDashboardStats(db, tenant, now, monthLength) ==
    LET with(S) == Cardinality({d \in Rows(db.documents, tenant) : d.status \in S})
        autoOk  == with({"AUTO_OK"})
        review  == with({"NEEDS_REVIEW"})
    IN  [vehicles    |-> Cardinality(Rows(db.vehicles, tenant)),
         total       |-> Cardinality(Rows(db.documents, tenant)),
         thisMonth   |-> Cardinality(InMonth(db, tenant, now, monthLength)),
         needsReview |-> review,
         processing  |-> with(ProcessingStatuses),
         confirmed   |-> with(ConfirmedStatuses),
         rate        |-> IF autoOk + review = 0 THEN <<0, 1>>
                         ELSE <<autoOk, autoOk + review>>]
=============================================================================
