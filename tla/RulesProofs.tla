----------------------------- MODULE RulesProofs ----------------------------
(***************************************************************************)
(* Proofs about Rules: what the computations promise, for every input that  *)
(* the assumptions describe and not only for those that a run enumerates.   *)
(*                                                                          *)
(* The arrays the code filters, sorts and sums up are handled by three      *)
(* groups of lemmas: where the elements of a filtered array come from, that *)
(* a sorted array is a permutation that rises, and that a sum over a set of *)
(* indices may be split.  A fold over an array (the rows of an import, the  *)
(* latest service) has an invariant that is shown for every number of       *)
(* elements by taking the smallest for which it would fail.                 *)
(***************************************************************************)
EXTENDS Rules, WellFoundedInduction, FiniteSetTheorems, SequenceTheorems, TLAPS

\* What is computed with an input that a behaviour has chosen.
InputKnown ==
    /\ input.kind = "failure" =>
         input.thrown \in Thrown /\ input.way \in {"api", "proxy", "lost", "cut"}
    /\ input.kind = "usage" =>
         input.db \in Databases /\ input.now \in MonthLength .. 2 * MonthLength
    /\ input.kind = "match" =>
         input.candidates \in CandidateLists /\ input.mappings \in MappingLists
    /\ input.kind = "import" => /\ input.fleet \in Fleets /\ input.rows \in ImportFiles
                                /\ input.limit \in VehicleLimits
    /\ input.kind = "tco" => input.items \in CostLists /\ input.more \in CostLists
    /\ input.kind = "dashboard" =>
         input.reminders \in ReminderLists /\ input.limit \in DashboardLimits
    /\ input.kind = "date" =>
         /\ input.due \in Moments /\ input.due % Rem!Day = 0 /\ input.now \in Moments
    /\ input.kind = "file" =>
         input.raw \in Environments /\ input.of \in {"invoice", "registration", "compliance"}
    /\ input.kind = "feeds" => input.raw \in Environments /\ input.fleet \in RecallFleets
    /\ input.kind = "market" => input.items \in MarketLists /\ input.optedIn \in SUBSET Tenants
    /\ input.kind = "prices" => input.prices \in PriceLists
    /\ input.kind = "invoices" => input.invoices \in InvoiceLists
    /\ input.kind = "report" =>
         /\ input.items \in ItemLists /\ input.from \in Midnights \cup {None}
         /\ input.to \in Midnights \cup {None} /\ input.tz \in TimeZones
    /\ input.kind = "history" => input.items \in Histories
    /\ input.kind = "table" =>
         /\ input.table \in CsvTables
         /\ input.end \in {<<Imp!NewLine>>, <<Imp!Return, Imp!NewLine>>}
    /\ input.kind = "secret" => input.secret \in Secrets
    /\ input.kind = "code" => input.clock \in Clocks /\ input.skew \in Skews

LEMMA InitKnown == Init => InputKnown
  BY DEF Init, InputKnown

LEMMA NextKnown == InputKnown /\ [Next]_input => InputKnown'
<1> SUFFICES ASSUME InputKnown, [Next]_input PROVE InputKnown'
  OBVIOUS
<1> USE DEF InputKnown, Given
<1>1. CASE ShowDashboard
  BY <1>1 DEF ShowDashboard
<1>2. CASE LookAtDate
  BY <1>2 DEF LookAtDate
<1>3. CASE SuggestMaintenance
  BY <1>3 DEF SuggestMaintenance
<1>4. CASE Report
  BY <1>4 DEF Report
<1>5. CASE FindAnomalies
  BY <1>5 DEF FindAnomalies
<1>6. CASE CompareYears
  BY <1>6 DEF CompareYears
<1>7. CASE RecomputeBenchmark
  BY <1>7 DEF RecomputeBenchmark
<1>8. CASE WriteAndRead
  BY <1>8 DEF WriteAndRead
<1>9. CASE EnterCode
  BY <1>9 DEF EnterCode
<1>10. CASE Import
  BY <1>10 DEF Import
<1>11. CASE MatchInvoice
  BY <1>11 DEF MatchInvoice
<1>12. CASE CallApi
  BY <1>12 DEF CallApi
<1>13. CASE ReadFile
  BY <1>13 DEF ReadFile
<1>14. CASE AskFeeds
  BY <1>14 DEF AskFeeds
<1>15. CASE FailRequest
  BY <1>15 DEF FailRequest
<1>16. CASE ShowUsage
  BY <1>16 DEF ShowUsage
<1>17. CASE UNCHANGED input
  BY <1>17
<1> QED  BY <1>1, <1>2, <1>3, <1>4, <1>5, <1>6, <1>7, <1>8, <1>9, <1>10, <1>11, <1>12,
            <1>13, <1>14, <1>15, <1>16, <1>17 DEF Next

-----------------------------------------------------------------------------
(* Failures *)

\* Of every exception of the application: its code is known, it is none of those
\* that are shown as technical, and 401 goes with the codes for signing in again.
SignInCodes == {"AUTH_INVALID_CREDENTIALS", "AUTH_TOKEN_EXPIRED", "AUTH_TOKEN_INVALID",
                "AUTH_UNAUTHORIZED"}

LEMMA ExceptionFacts ==
    ASSUME NEW name \in DOMAIN Err!AppException
    PROVE  /\ Err!AppException[name].code
                \in Err!ErrorCode \ {"INTERNAL_ERROR", "NETWORK_ERROR"}
           /\ Err!AppException[name].status \in 400 .. 499
           /\ Err!AppException[name].status = 401
                <=> Err!AppException[name].code \in SignInCodes
BY SMTT(30) DEF Err!AppException, Err!Error, Err!ErrorCode, SignInCodes

\* What the API has foreseen.
Foreseen(t) == t.kind # "other" /\ (t.kind = "http" => t.status < 500)

LEMMA ResponseFacts ==
    ASSUME NEW t \in Thrown, NEW r, r = Err!toErrorResponse(t)
    PROVE  /\ r.body \in [code : Err!ErrorCode, message : {"given", "own"}]
           /\ r.status \in 400 .. 599
           /\ Foreseen(t) <=> r.body.code # "INTERNAL_ERROR"
           /\ Foreseen(t) => (r.status = 401 <=> r.body.code \in SignInCodes)
           /\ t.kind = "app" => r.body.code = Err!AppException[t.name].code
           /\ t.kind = "app" => r.body.message = "given"
           /\ t.kind = "other" => r.body.message = "own"
<1>1. CASE t \in [kind : {"app"}, name : DOMAIN Err!AppException]
  <2> DEFINE e == Err!AppException[t.name]
  <2> HIDE DEF e
  <2>1. Foreseen(t)
    BY <1>1 DEF Foreseen
  <2> QED  BY <1>1, <2>1, ExceptionFacts DEF e, Err!toErrorResponse
<1>2. CASE t \in [kind : {"http"}, status : 400 .. 599, message : {"text", "list", None}]
  <2>1. /\ t.status \in 400 .. 599 /\ t.kind = "http"
        /\ t.message = "list" => t.status = 400
    BY <1>2, ThrownAssumption DEF ThrownAssumption
  <2>2. /\ r.status = t.status
        /\ r.body.code = IF t.message = "list" THEN "VALIDATION_FAILED"
                         ELSE Err!mapStatusToCode(t.status)
        /\ r.body = [code |-> r.body.code,
                     message |-> IF t.message = "text" THEN "given" ELSE "own"]
    BY <1>2 DEF Err!fromHttpException, Err!toErrorResponse
  <2>3. Foreseen(t) <=> t.status < 500
    BY <2>1 DEF Foreseen
  <2> QED  BY <2>1, <2>2, <2>3 DEF SignInCodes, Err!ErrorCode, Err!mapStatusToCode
<1>3. CASE t \in [kind : {"other"}]
  BY <1>3 DEF Err!ErrorCode, Err!toErrorResponse, Foreseen
<1> QED  BY <1>1, <1>2, <1>3, ThrownAssumption DEF ThrownAssumption

\* An error of the API that the client shows: the two codes for what is technical
\* are shown as such, the others as they are.
Technical(code) == code \in {"NETWORK_ERROR", "INTERNAL_ERROR"}

\* What the other screens show of an error of the API, and of another one.
LEMMA ScreenFacts ==
    ASSUME NEW err
    PROVE  /\ err.api = TRUE => Err!screenError(err) = err.message
           /\ err = Err!OtherError => Err!screenError(err) = "fallback"
BY DEF Err!screenError, Err!OtherError

\* No suffix: named, for the provers do not read an empty text.
NoSuffix == ""

LEMMA Shown ==
    ASSUME NEW err, err.api = TRUE, err.code \in Err!KNOWN_ERROR_KEYS,
           err.message # "errorScan" \/ Technical(err.code)
    PROVE  /\ Err!formError(err).text = err.code
           /\ Err!Retried(err) <=> err.code = "NETWORK_ERROR"
           /\ Err!scanErrorMessage(err).text = "errorScan" <=> Technical(err.code)
           /\ Err!formError(err).suffix # NoSuffix <=> Technical(err.code)
           /\ Technical(err.code) =>
                Err!scanErrorMessage(err).suffix = Err!formError(err).suffix
<1>1. Err!isTechnical(err) <=> Technical(err.code)
  BY DEF Err!isTechnical, Technical
<1>2. Err!formError(err).text = err.code /\ Err!formError(err).suffix = Err!errorDebugSuffix(err)
  BY DEF Err!formError, Err!resolveErrorKey
<1>3. Err!errorDebugSuffix(err) # NoSuffix <=> Technical(err.code)
  BY <1>1 DEF Err!errorDebugSuffix, NoSuffix
<1>4. Err!Retried(err) <=> err.code = "NETWORK_ERROR"
  BY DEF Err!Retried
<1>5. CASE Technical(err.code)
  BY <1>1, <1>2, <1>3, <1>4, <1>5 DEF Err!scanErrorMessage
<1>6. CASE ~Technical(err.code)
  BY <1>1, <1>2, <1>3, <1>4, <1>6 DEF Err!scanErrorMessage, NoSuffix
<1> QED  BY <1>5, <1>6

LEMMA Failures == InputKnown => FailuresAreTold
<1> SUFFICES ASSUME InputKnown, input.kind = "failure" PROVE FailuresAreTold
  BY DEF FailuresAreTold
<1> DEFINE thrown   == input.thrown
           response == Err!toErrorResponse(thrown)
           answer   == CASE input.way = "api"   -> [kind |-> "told", status |-> response.status,
                                                    body |-> response.body]
                         [] input.way = "proxy" -> [kind |-> "told", status |-> 502,
                                                    body |-> None]
                         [] OTHER -> [kind |-> input.way]
           err  == Received(thrown, input.way)
           form == Err!formError(err)
           screen == Err!screenError(err)
           scan == Err!scanErrorMessage(err)
           refused == /\ input.way = "api"
                      /\ thrown.kind = "http" => thrown.status < 500
                      /\ thrown.kind # "other"
           Goal == /\ form.text \in Err!KNOWN_ERROR_KEYS
                   /\ refused <=> form.text \notin {"INTERNAL_ERROR", "NETWORK_ERROR"}
                   /\ refused <=> scan.text # "errorScan"
                   /\ refused => form.suffix = NoSuffix
                   /\ ~refused /\ input.way # "cut" => form.suffix # NoSuffix /\ scan.suffix = form.suffix
                   /\ refused /\ thrown.kind = "app" =>
                        form.text = Err!AppException[thrown.name].code
                   /\ refused => (err.status = 401 <=> form.text \in
                                    {"AUTH_INVALID_CREDENTIALS", "AUTH_TOKEN_EXPIRED",
                                     "AUTH_TOKEN_INVALID", "AUTH_UNAUTHORIZED"})
                   /\ Err!Retried(err) <=> input.way = "lost"
                   /\ screen = "given" => input.way = "api" /\ thrown.kind # "other"
                   /\ input.way = "api" /\ thrown.kind = "app" => screen = "given"
<1>1. thrown \in Thrown /\ input.way \in {"api", "proxy", "lost", "cut"}
  BY DEF InputKnown
<1>2. /\ {"INTERNAL_ERROR", "NETWORK_ERROR"} \subseteq Err!KNOWN_ERROR_KEYS
      /\ Err!ErrorCode \subseteq Err!KNOWN_ERROR_KEYS /\ "NETWORK_ERROR" \notin Err!ErrorCode
  BY DEF Err!KNOWN_ERROR_KEYS, Err!ErrorCode
<1>3. CASE input.way = "api"
  <2>1. /\ response.body # None /\ response.body.code \in Err!ErrorCode
        /\ response.body.message \in {"given", "own"}
        /\ Foreseen(thrown) <=> response.body.code # "INTERNAL_ERROR"
        /\ Foreseen(thrown) => (response.status = 401 <=> response.body.code \in SignInCodes)
        /\ thrown.kind = "app" => response.body.code = Err!AppException[thrown.name].code
        /\ thrown.kind = "app" => response.body.message = "given"
        /\ thrown.kind = "other" => response.body.message = "own"
    BY <1>1, ResponseFacts, ThrownAssumption DEF ThrownAssumption
  <2>2. refused <=> Foreseen(thrown)
    BY <1>3 DEF Foreseen
  <2>3. /\ err.api = TRUE /\ err.code = response.body.code
        /\ err.status = response.status /\ err.message = response.body.message
    <3> DEFINE resp == response
    <3>1. /\ answer = [kind |-> "told", status |-> resp.status, body |-> resp.body]
          /\ err = Err!performRequest(answer)
      BY <1>3 DEF Received
    <3> HIDE DEF resp
    <3>2. answer.kind = "told" /\ answer.status = resp.status /\ answer.body = resp.body
      BY <3>1
    <3> HIDE DEF answer
    <3>3. err = Err!parseError(answer)
      BY <3>1, <3>2 DEF Err!performRequest
    <3> HIDE DEF err
    <3> QED  BY <2>1, <3>2, <3>3 DEF Err!ApiError, resp, Err!parseError
  <2> HIDE DEF thrown, response, err
  <2>4. err.code \in Err!KNOWN_ERROR_KEYS /\ err.message # "errorScan"
    BY <1>2, <2>1, <2>3
  <2>5. /\ form.text = err.code /\ ~Err!Retried(err)
        /\ scan.text = "errorScan" <=> Technical(err.code)
        /\ form.suffix # NoSuffix <=> Technical(err.code)
        /\ Technical(err.code) => scan.suffix = form.suffix
    BY <1>2, <2>1, <2>3, <2>4, Shown, SMT, ZenonT(40)
  <2>6. Technical(err.code) <=> ~Foreseen(thrown)
    BY <1>2, <2>1, <2>3 DEF Technical
  <2>7. screen = response.body.message
    BY <2>3, ScreenFacts
  <2>8. Goal
    <3> HIDE DEF form, scan, screen, refused
    <3> QED  BY <1>3, <2>1, <2>2, <2>3, <2>4, <2>5, <2>6, <2>7 DEF SignInCodes, Technical
  <2> QED  BY <2>8 DEF FailuresAreTold, NoSuffix, thrown, err
<1>4. CASE input.way \in {"proxy", "lost"}
  <2> DEFINE told == IF input.way = "proxy" THEN "INTERNAL_ERROR" ELSE "NETWORK_ERROR"
  <2>1. err.api = TRUE /\ err.code = told /\ screen # "given"
    <3>1. CASE input.way = "proxy"
      BY <3>1 DEF Err!ApiError, Err!performRequest, Err!parseError, Received, Err!screenError
    <3>2. CASE input.way = "lost"
      BY <3>2 DEF Err!ApiError, Err!performRequest, Received, Err!screenError
    <3> QED  BY <1>4, <3>1, <3>2
  <2> HIDE DEF err
  <2>2. err.code \in Err!KNOWN_ERROR_KEYS /\ Technical(err.code)
    BY <1>2, <1>4, <2>1 DEF Technical
  <2>3. /\ form.text = err.code /\ (Err!Retried(err) <=> err.code = "NETWORK_ERROR")
        /\ scan.text = "errorScan" /\ form.suffix # NoSuffix /\ scan.suffix = form.suffix
    BY <2>1, <2>2, Shown
  <2>4. Goal
    <3> HIDE DEF form, scan, screen
    <3> QED  BY <1>4, <2>1, <2>2, <2>3
  <2> QED  BY <2>4 DEF FailuresAreTold, NoSuffix, err
<1>5. CASE input.way = "cut"
  <2>1. err = Err!OtherError
    BY <1>5 DEF Err!performRequest, Received
  <2> HIDE DEF err
  <2>2. Goal
    BY <1>2, <1>5, <2>1, ScreenFacts DEF Err!formError, Err!scanErrorMessage, Err!resolveErrorKey,
       Err!Retried, Err!OtherError
  <2> QED  BY <2>2 DEF FailuresAreTold, NoSuffix, err
<1> QED  BY <1>1, <1>3, <1>4, <1>5

-----------------------------------------------------------------------------
(* Usage of a plan *)

LEMMA FullPercent ==
    ASSUME NEW used \in Nat, NEW limit \in Nat \ {0}, used >= limit
    PROVE  Use!Percent(used, limit) = 100
<1> DEFINE whole == IF limit > 1 THEN limit ELSE 1
           a     == 200 * used + whole
           round == a \div (2 * whole)
<1>1. whole \in Nat \ {0} /\ whole = limit
  OBVIOUS
<1>2. a \in Int /\ a >= 200 * whole
  BY <1>1
<1> HIDE DEF a, whole
<1>3. round \in Int /\ a < (2 * whole) * (round + 1)
  BY <1>1, <1>2
<1>4. round >= 100
  <2> HIDE DEF round
  <2> SUFFICES ASSUME round < 100 PROVE FALSE
    BY <1>3
  <2> QED  BY <1>1, <1>2, <1>3
<1> QED  BY <1>3, <1>4 DEF Use!Percent, whole, a, Use!UNLIMITED

\* A check refuses what the page shows as used up.
LEMMA BarFacts ==
    ASSUME NEW used \in Nat, NEW limit \in {Use!UNLIMITED} \cup (Nat \ {0}),
           NEW bar, bar = Use!UsageBar(used, limit)
    PROVE  /\ Use!isWithinLimit(used, limit) <=> ~bar.shown \/ used < limit
           /\ ~Use!isWithinLimit(used, limit) => bar.percent = 100 /\ bar.colour = "red"
<1>1. /\ bar.percent = Use!Percent(used, limit) /\ bar.shown = (limit # Use!UNLIMITED)
      /\ bar.colour = Use!Colour(bar.percent)
  BY DEF Use!UsageBar
<1>2. ASSUME ~Use!isWithinLimit(used, limit)
      PROVE  bar.percent = 100 /\ bar.colour = "red"
  BY <1>1, <1>2, FullPercent DEF Use!Colour, Use!isWithinLimit
<1> QED  BY <1>1, <1>2 DEF Use!isWithinLimit

\* The same operator, in the module and in the one it instantiates.
LEMMA SameCount == \A S : Use!Cardinality(S) = Cardinality(S)
BY DEF Use!Cardinality, Cardinality

LEMMA Counts ==
    ASSUME NEW S, IsFiniteSet(S), NEW T \in SUBSET S
    PROVE  IsFiniteSet(T) /\ Cardinality(T) \in Nat /\ Cardinality(T) <= Cardinality(S)
BY FS_Subset, FS_CardinalityType

LEMMA ApartCounts ==
    ASSUME NEW S, IsFiniteSet(S), NEW A \in SUBSET S, NEW B \in SUBSET S, A \cap B = {}
    PROVE  /\ Cardinality(A \cup B) = Cardinality(A) + Cardinality(B)
           /\ Cardinality(A) \in Nat /\ Cardinality(B) \in Nat
<1>1. Cardinality(A \cap B) = 0
  BY FS_EmptySet
<1>2. /\ Cardinality(A \cup B) = Cardinality(A) + Cardinality(B) - Cardinality(A \cap B)
      /\ Cardinality(A) \in Nat /\ Cardinality(B) \in Nat
  BY FS_Union, FS_CardinalityType, Counts
<1> QED  BY <1>1, <1>2

LEMMA Usages == InputKnown => UsageTellsTheLimit
<1> SUFFICES ASSUME InputKnown, input.kind = "usage" PROVE UsageTellsTheLimit
  BY DEF UsageTellsTheLimit
<1> DEFINE db    == input.db
           now   == input.now
           page(t)  == Use!getOverview(db, t, now, MonthLength)
           bars(t)  == Use!usageRows(page(t))
           stats(t) == Use!getDashboardStats(db, t, now, MonthLength)
           admitted(t) == [
             vehicles  |-> Use!assertVehicleLimit(db, t),
             users     |-> Use!assertUserLimit(db, t, now),
             documents |-> Use!assertMonthlyDocumentLimit(db, t, now, MonthLength)]
           Tells(t) ==
             /\ \A row \in DOMAIN page(t).usage :
                  /\ admitted(t)[row] <=>
                       ~bars(t)[row].shown \/ page(t).usage[row] < page(t).limits[row]
                  /\ ~admitted(t)[row] =>
                       bars(t)[row].percent = 100 /\ bars(t)[row].colour = "red"
             /\ stats(t).thisMonth = page(t).usage.documents
             /\ stats(t).vehicles = page(t).usage.vehicles
             /\ stats(t).needsReview + stats(t).processing + stats(t).confirmed <= stats(t).total
             /\ stats(t).rate[1] <= stats(t).confirmed /\ stats(t).rate[1] <= stats(t).rate[2]
<1> SUFFICES ASSUME NEW tenant \in DOMAIN input.db.plan PROVE Tells(tenant)
  BY DEF UsageTellsTheLimit
<1> DEFINE limits == Limits[Use!planTier(db, tenant)]
           docs   == Use!Rows(db.documents, tenant)
           used   == page(tenant).usage
<1>1. db \in Databases
  BY DEF InputKnown
<1>2. /\ IsFiniteSet(db.vehicles) /\ IsFiniteSet(db.memberships)
      /\ IsFiniteSet(db.invitations) /\ IsFiniteSet(db.documents)
  BY <1>1, UsageAssumption DEF UsageAssumption
<1>3. limits \in [{"vehicles", "users", "documents"} -> {Use!UNLIMITED} \cup (Nat \ {0})]
  BY <1>1, UsageAssumption DEF UsageAssumption, Use!planTier
<1>4. IsFiniteSet(docs)
  BY <1>2, Counts DEF Use!Rows
<1>5. /\ page(tenant).limits = limits /\ DOMAIN used = {"vehicles", "users", "documents"}
      /\ used.vehicles = Cardinality(Use!Rows(db.vehicles, tenant))
      /\ used.users = Cardinality(Use!Rows(db.memberships, tenant))
                        + Cardinality(Use!Pending(db, tenant, now))
      /\ used.documents = Cardinality(Use!InMonth(db, tenant, now, MonthLength))
  BY SameCount DEF Use!getOverview
<1>6. \A row \in DOMAIN used :
        /\ used[row] \in Nat /\ limits[row] \in {Use!UNLIMITED} \cup (Nat \ {0})
        /\ admitted(tenant)[row] = Use!isWithinLimit(used[row], limits[row])
        /\ bars(tenant)[row] = Use!UsageBar(used[row], limits[row])
  <2> SUFFICES ASSUME NEW row \in DOMAIN used
               PROVE  /\ used[row] \in Nat /\ limits[row] \in {Use!UNLIMITED} \cup (Nat \ {0})
                      /\ admitted(tenant)[row] = Use!isWithinLimit(used[row], limits[row])
                      /\ bars(tenant)[row] = Use!UsageBar(used[row], limits[row])
    OBVIOUS
  <2> HIDE DEF page, limits
  <2>1. bars(tenant)[row] = Use!UsageBar(used[row], limits[row])
    BY <1>5 DEF Use!usageRows
  <2>2. admitted(tenant)[row] = Use!isWithinLimit(used[row], limits[row])
    BY <1>5, SameCount DEF limits, Use!assertVehicleLimit, Use!assertUserLimit,
                Use!assertMonthlyDocumentLimit
  <2> QED  BY <1>2, <1>3, <1>5, <2>1, <2>2, Counts DEF Use!Rows, Use!Pending, Use!InMonth
<1>7. \A row \in DOMAIN used :
        /\ admitted(tenant)[row] <=> ~bars(tenant)[row].shown \/ used[row] < limits[row]
        /\ ~admitted(tenant)[row] =>
             bars(tenant)[row].percent = 100 /\ bars(tenant)[row].colour = "red"
  <2> HIDE DEF bars, admitted, used, limits
  <2> QED  BY <1>6, BarFacts
<1> DEFINE with(S)   == {d \in docs : d.status \in S}
           autoOk    == Cardinality(with({"AUTO_OK"}))
           review    == Cardinality(with({"NEEDS_REVIEW"}))
           processing == Cardinality(with(Use!ProcessingStatuses))
           confirmed == Cardinality(with(Use!ConfirmedStatuses))
           st        == stats(tenant)
<1>8. /\ st.vehicles = used.vehicles /\ st.thisMonth = used.documents
      /\ st.total = Cardinality(docs) /\ st.needsReview = review
      /\ st.processing = processing /\ st.confirmed = confirmed
      /\ st.rate = IF autoOk + review = 0 THEN <<0, 1>> ELSE <<autoOk, autoOk + review>>
  <2> HIDE DEF used
  <2> QED  BY <1>5, SameCount DEF Use!getDashboardStats
<1> HIDE DEF st, used, docs
<1>9. autoOk \in Nat /\ confirmed \in Nat /\ autoOk <= confirmed
  <2>1. with(Use!ConfirmedStatuses) \in SUBSET docs
    OBVIOUS
  <2>2. with({"AUTO_OK"}) \in SUBSET with(Use!ConfirmedStatuses)
    BY DEF Use!ConfirmedStatuses
  <2> HIDE DEF with
  <2> QED  BY <1>4, <2>1, <2>2, Counts
<1>10. /\ review \in Nat /\ processing \in Nat
       /\ review + processing + confirmed <= Cardinality(docs)
  <2> DEFINE R == with({"NEEDS_REVIEW"})
             P == with(Use!ProcessingStatuses)
             C == with(Use!ConfirmedStatuses)
  <2>1. /\ R \in SUBSET docs /\ P \in SUBSET docs /\ C \in SUBSET docs
        /\ R \cup P \in SUBSET docs /\ (R \cup P) \cup C \in SUBSET docs
    OBVIOUS
  <2>2. R \cap P = {} /\ (R \cup P) \cap C = {}
    BY DEF Use!ProcessingStatuses, Use!ConfirmedStatuses
  <2> HIDE DEF R, P, C
  <2>3. /\ Cardinality(R \cup P) = Cardinality(R) + Cardinality(P)
        /\ Cardinality(R) \in Nat /\ Cardinality(P) \in Nat
    BY <1>4, <2>1, <2>2, ApartCounts
  <2>4. /\ Cardinality((R \cup P) \cup C) = Cardinality(R \cup P) + Cardinality(C)
        /\ Cardinality(C) \in Nat
    <3> DEFINE Q == R \cup P
    <3>1. Q \in SUBSET docs /\ C \in SUBSET docs /\ Q \cap C = {}
      BY <2>1, <2>2
    <3> HIDE DEF Q
    <3>2. Cardinality(Q \cup C) = Cardinality(Q) + Cardinality(C) /\ Cardinality(C) \in Nat
      BY <1>4, <3>1, ApartCounts
    <3> QED  BY <3>2 DEF Q
  <2> QED  BY <1>4, <2>1, <2>3, <2>4, Counts, FS_CardinalityType DEF R, P, C
<1>11. /\ st.needsReview + st.processing + st.confirmed <= st.total
       /\ st.rate[1] <= st.confirmed /\ st.rate[1] <= st.rate[2]
  <2> HIDE DEF autoOk, review, processing, confirmed
  <2> QED  BY <1>8, <1>9, <1>10
<1> QED
  <2> HIDE DEF bars, admitted, page, stats, limits
  <2> QED  BY <1>5, <1>7, <1>8, <1>11 DEF used, st

-----------------------------------------------------------------------------
(* Numbers *)

LEMMA Smallest ==
    ASSUME NEW S \in SUBSET Nat, S # {}
    PROVE  \E x \in S : \A y \in S : x <= y
<1> DEFINE R == OpToRel(<, Nat)
<1>1. IsWellFoundedOn(R, Nat)
  BY NatLessThanWellFounded
<1> HIDE DEF R
<1>2. \A x, y \in Nat : <<y, x>> \notin R => x <= y
  BY DEF OpToRel, R
<1> QED  BY <1>1, <1>2, WFMin

LEMMA Largest ==
    ASSUME NEW n \in Nat, NEW S \in SUBSET (1 .. n), S # {}, NEW m, m = Imp!Max(S)
    PROVE  m \in S /\ \A y \in S : y <= m
<1> DEFINE T == {n - y : y \in S}
<1>1. T \in SUBSET Nat /\ T # {}
  <2>1. \A y \in S : n - y \in Nat
    OBVIOUS
  <2> QED  BY <2>1
<1> HIDE DEF T
<1>2. PICK x \in T : \A y \in T : x <= y
  BY <1>1, Smallest
<1>3. PICK z \in S : x = n - z
  BY DEF T
<1>4. \A y \in S : n - y \in T /\ y \in Nat
  BY DEF T
<1>5. \A y \in S : z >= y
  BY <1>2, <1>3, <1>4
<1> QED  BY <1>5 DEF Imp!Max

-----------------------------------------------------------------------------
(* Matching of an invoice *)

\* The candidates that are vehicles of the fleet, and the first of them.
Matching(fleet, cs) ==
    {i \in 1 .. Len(cs) : Imp!CandidateMatch(fleet, cs[i]).vehicle # None}
First(I) == CHOOSE x \in I : \A y \in I : x <= y

Learned(ms) ==
    IF ~Imp!Dominant(ms) THEN Imp!NoMatch
    ELSE [vehicle |-> ms[1].vehicle,
          source |-> IF Len(ms) = 1 THEN "supplier_pattern" ELSE "history"]

LEMMA ResolveFacts ==
    ASSUME NEW fleet, NEW cs, NEW ms,
           NEW I, I = Matching(fleet, cs), NEW match, match = Imp!ResolveVehicle(fleet, cs, ms)
    PROVE  /\ I # {} => /\ First(I) \in I /\ \A y \in I : First(I) <= y
                        /\ match = Imp!CandidateMatch(fleet, cs[First(I)])
           /\ I = {} => match = Learned(ms)
<1> DEFINE n == IF I # {} THEN First(I) ELSE 0
<1>1. I \in SUBSET Nat /\ 0 \notin I
  BY DEF Matching
<1> QED  BY <1>1, Smallest DEF First, Imp!ResolveVehicle, Imp!FindIndex, Imp!Min, Matching,
            Learned

\* An order of the mappings by weight is one with the same weights: the
\* heaviest, and the two heaviest, weigh as much in both.
LEMMA SameWeights ==
    ASSUME NEW ms \in MappingLists, NEW s \in SetToSeqs(ToSet(ms)),
           \A i, j \in DOMAIN s : i < j => s[i].weight >= s[j].weight
    PROVE  /\ Len(ms) \in Nat /\ DOMAIN s = 1 .. Len(ms) /\ DOMAIN ms = 1 .. Len(ms)
           /\ Len(s) = Len(ms)
           /\ \A i \in DOMAIN s : \E j \in DOMAIN ms : s[i] = ms[j]
           /\ 1 \in DOMAIN s => s[1].weight = ms[1].weight
           /\ 2 \in DOMAIN s => s[2].weight = ms[2].weight
<1> DEFINE n == Len(ms)
           D == 1 .. n
           S == ToSet(ms)
<1>1. /\ ms \in Seq(S) /\ \A i \in DOMAIN ms : ms[i].weight \in Nat \ {0}
      /\ \A i, j \in DOMAIN ms : i < j => /\ ms[i].vehicle # ms[j].vehicle
                                        /\ ms[i].weight >= ms[j].weight
  BY MappingAssumption DEF MappingAssumption
<1>2. n \in Nat /\ DOMAIN ms = D /\ ms \in [D -> S]
  BY <1>1
<1>3. \A i, j \in D : ms[i] = ms[j] => i = j
  BY <1>1, <1>2
<1>4. \A x \in S : \E i \in D : x = ms[i]
  BY <1>2 DEF ToSet
<1>5. IsFiniteSet(D) /\ Cardinality(D) = n
  BY <1>2, FS_Interval
<1> HIDE DEF S
<1>6. IsFiniteSet(S) /\ Cardinality(S) = n
  BY <1>2, <1>3, <1>4, <1>5, FS_Surjection DEF Surjection, Injection, IsInjective
<1>7. s \in [D -> S] /\ \A i, j \in D : i # j => s[i] # s[j]
  BY <1>6 DEF SetToSeqs, S
<1>8. s \in Surjection(D, S)
  BY <1>5, <1>6, <1>7, FS_Injection DEF Injection, IsInjective
<1>9. DOMAIN s = D /\ Len(s) = n
  BY <1>2, <1>7
<1>10. /\ \A i \in D : \E j \in D : s[i] = ms[j]
       /\ \A i \in D : \E j \in D : ms[i] = s[j]
  BY <1>2, <1>4, <1>7, <1>8 DEF Surjection
<1> HIDE DEF n
<1>11. \A i \in D : s[i].weight \in Nat \ {0} /\ ms[i].weight \in Nat \ {0}
  BY <1>1, <1>2, <1>10
<1>12. \A i, j \in D : i <= j => s[i].weight >= s[j].weight /\ ms[i].weight >= ms[j].weight
  <2>1. ASSUME NEW i \in D, NEW j \in D, i < j
        PROVE  s[i].weight >= s[j].weight /\ ms[i].weight >= ms[j].weight
    BY <1>1, <1>2, <1>9, <2>1
  <2>2. ASSUME NEW i \in D, NEW j \in D, i <= j
        PROVE  s[i].weight >= s[j].weight /\ ms[i].weight >= ms[j].weight
    <3>1. CASE i = j
      BY <1>11, <3>1
    <3>2. CASE i # j
      BY <1>2, <2>1, <2>2, <3>2
    <3> QED  BY <3>1, <3>2
  <2> QED  BY <2>2
<1>13. ASSUME 1 \in D PROVE s[1].weight = ms[1].weight
  <2>1. PICK j \in D : s[1] = ms[j]
    BY <1>10, <1>13
  <2>2. PICK k \in D : ms[1] = s[k]
    BY <1>10, <1>13
  <2> QED  BY <1>2, <1>11, <1>12, <1>13, <2>1, <2>2
<1>14. ASSUME 2 \in D PROVE s[2].weight = ms[2].weight
  <2>1. 1 \in D
    BY <1>2, <1>14
  <2>2. PICK a \in D, b \in D : s[1] = ms[a] /\ s[2] = ms[b]
    BY <1>10, <1>14, <2>1
  <2>3. PICK c \in D, d \in D : ms[1] = s[c] /\ ms[2] = s[d]
    BY <1>10, <1>14, <2>1
  <2>4. (2 <= a \/ 2 <= b) /\ (2 <= c \/ 2 <= d)
    BY <1>2, <1>3, <1>7, <1>14, <2>1, <2>2, <2>3
  <2> QED  BY <1>11, <1>12, <1>14, <2>1, <2>2, <2>3, <2>4
<1> QED  BY <1>2, <1>9, <1>10, <1>13, <1>14 DEF n

\* The vehicle that dominates does not depend on the order.
LEMMA SameLearned ==
    ASSUME NEW ms \in MappingLists, NEW s \in SetToSeqs(ToSet(ms)),
           \A i, j \in DOMAIN s : i < j => s[i].weight >= s[j].weight
    PROVE  Learned(s).vehicle = Learned(ms).vehicle
<1>1. /\ Len(ms) \in Nat /\ DOMAIN s = 1 .. Len(ms) /\ DOMAIN ms = 1 .. Len(ms)
      /\ Len(s) = Len(ms)
      /\ \A i \in DOMAIN s : \E j \in DOMAIN ms : s[i] = ms[j]
      /\ 1 \in DOMAIN s => s[1].weight = ms[1].weight
      /\ 2 \in DOMAIN s => s[2].weight = ms[2].weight
  BY SameWeights
<1>2. /\ \A i \in DOMAIN ms : ms[i].weight \in Nat \ {0}
      /\ \A i, j \in DOMAIN ms : i < j => ms[i].weight >= ms[j].weight
  BY MappingAssumption DEF MappingAssumption
<1>3. Imp!Dominant(s) <=> Imp!Dominant(ms)
  BY <1>1 DEF Imp!Dominant
<1>4. ASSUME Imp!Dominant(ms) PROVE s[1] = ms[1]
  <2>1. Len(ms) >= 1 /\ 1 \in DOMAIN ms
    BY <1>1, <1>4 DEF Imp!Dominant
  <2>2. PICK j \in DOMAIN ms : s[1] = ms[j]
    BY <1>1, <2>1
  <2>3. CASE Len(ms) = 1
    BY <1>1, <2>2, <2>3
  <2>4. CASE Len(ms) > 1
    <3>1. 2 \in DOMAIN ms /\ ms[1].weight >= 2 * ms[2].weight
      BY <1>1, <1>4, <2>4 DEF Imp!Dominant
    <3>2. s[1].weight = ms[1].weight
      BY <1>1, <2>1
    <3>3. ASSUME j # 1 PROVE FALSE
      <4>1. j = 2 \/ 2 < j
        BY <1>1, <3>3
      <4> QED  BY <1>2, <2>1, <2>2, <3>1, <3>2, <4>1
    <3> QED  BY <2>2, <3>3
  <2> QED  BY <1>1, <2>1, <2>3, <2>4
<1> QED  BY <1>3, <1>4 DEF Learned, Imp!NoMatch

LEMMA Matches == InputKnown => OnlyADominantVehicle
<1> SUFFICES ASSUME InputKnown, input.kind = "match" PROVE OnlyADominantVehicle
  BY DEF OnlyADominantVehicle
<1> DEFINE fleet == input.fleet
           cs    == input.candidates
           ms    == input.mappings
           match == Imp!ResolveVehicle(fleet, cs, ms)
           sorted(s) == \A i, j \in DOMAIN s : i < j => s[i].weight >= s[j].weight
           orders == {s \in SetToSeqs(ToSet(ms)) : sorted(s)}
           I == Matching(fleet, cs)
<1>1. cs \in CandidateLists /\ ms \in MappingLists
  BY DEF InputKnown
<1>2. Len(cs) \in Nat /\ DOMAIN cs = 1 .. Len(cs)
  BY <1>1, CandidateAssumption DEF CandidateAssumption
<1>3. /\ I # {} => /\ First(I) \in I /\ \A y \in I : First(I) <= y
                   /\ match = Imp!CandidateMatch(fleet, cs[First(I)])
      /\ I = {} => match = Learned(ms)
  BY ResolveFacts
<1>4. ASSUME NEW s \in orders
      PROVE  Imp!ResolveVehicle(fleet, cs, s).vehicle = match.vehicle
  BY <1>1, <1>3, ResolveFacts, SameLearned
<1>5. \A c : /\ Imp!CandidateMatch(fleet, c).vehicle # None
                 <=> Imp!ByVin(fleet, c.vin) # None \/ Imp!ByPlate(fleet, c.plate) # None
             /\ Imp!CandidateMatch(fleet, c).source \in {"vin", "plate"}
             /\ Imp!ByVin(fleet, c.vin) # None =>
                  Imp!CandidateMatch(fleet, c).vehicle = Imp!ByVin(fleet, c.vin)
  BY DEF Imp!CandidateMatch
<1>6. ASSUME NEW c \in ToSet(cs),
             Imp!ByVin(fleet, c.vin) # None \/ Imp!ByPlate(fleet, c.plate) # None
      PROVE  match.source \in {"vin", "plate"}
  <2>1. PICK k \in 1 .. Len(cs) : c = cs[k]
    BY <1>2 DEF ToSet
  <2> QED  BY <1>3, <1>5, <1>6, <2>1 DEF Matching
<1>7. ASSUME NEW c \in {cs[i] : i \in DOMAIN cs \cap {1}}, Imp!ByVin(fleet, c.vin) # None
      PROVE  match.vehicle = Imp!ByVin(fleet, c.vin)
  <2>1. 1 \in DOMAIN cs /\ c = cs[1]
    OBVIOUS
  <2>2. 1 \in I
    BY <1>2, <1>5, <1>7, <2>1 DEF Matching
  <2>3. First(I) = 1
    <3>1. \A y \in I : y >= 1 /\ y \in Nat
      BY <1>2 DEF Matching
    <3> QED  BY <1>3, <2>2, <3>1
  <2> QED  BY <1>3, <1>5, <1>7, <2>1, <2>2, <2>3
<1> QED
  <2> HIDE DEF match
  <2> QED  BY <1>4, <1>6, <1>7 DEF OnlyADominantVehicle, match

-----------------------------------------------------------------------------
(* Imports: the fold over the rows, as a function on the sets of their places *)

Folds(f, D, base, rs, limit) ==
    f = [s \in SUBSET D |->
           IF s = {} THEN base
           ELSE Imp!CommitRow(f[s \ {Imp!Max(s)}], rs[Imp!Max(s)], limit)]

LEMMA OneMore ==
    ASSUME NEW base, NEW rs, NEW limit, NEW k \in Nat, NEW f, Folds(f, 1 .. k, base, rs, limit)
    PROVE  \E g : Folds(g, 1 .. k + 1, base, rs, limit)
<1> DEFINE D == 1 .. k
           E == 1 .. k + 1
           g == [s \in SUBSET E |->
                   IF k + 1 \in s THEN Imp!CommitRow(f[s \ {k + 1}], rs[k + 1], limit) ELSE f[s]]
           body(s) == IF s = {} THEN base
                      ELSE Imp!CommitRow(g[s \ {Imp!Max(s)}], rs[Imp!Max(s)], limit)
<1>1. \A s \in SUBSET D : s \in SUBSET E /\ k + 1 \notin s /\ g[s] = f[s]
  OBVIOUS
<1>2. ASSUME NEW s \in SUBSET E PROVE g[s] = body(s)
  <2>1. CASE k + 1 \in s
    <3>1. Imp!Max(s) = k + 1
      <4>1. k + 1 \in Nat /\ s # {}
        BY <2>1
      <4>2. Imp!Max(s) \in s /\ k + 1 <= Imp!Max(s)
        BY <2>1, <4>1, Largest
      <4>3. Imp!Max(s) \in 1 .. k + 1
        BY <4>2
      <4> HIDE DEF body
      <4> QED  BY <4>1, <4>2, <4>3
    <3>2. g[s \ {k + 1}] = f[s \ {k + 1}] /\ g[s] = Imp!CommitRow(f[s \ {k + 1}], rs[k + 1], limit)
      BY <1>1, <2>1
    <3> HIDE DEF g
    <3> QED  BY <2>1, <3>1, <3>2
  <2>2. CASE k + 1 \notin s
    <3>1. s \in SUBSET D
      BY <2>2
    <3>2. s \ {Imp!Max(s)} \in SUBSET D
      BY <3>1
    <3> HIDE DEF g
    <3> QED  BY <1>1, <3>1, <3>2 DEF Folds
  <2> QED  BY <2>1, <2>2
<1>3. g = [s \in SUBSET E |-> body(s)]
  <2>1. g = [s \in SUBSET E |-> g[s]]
    OBVIOUS
  <2> HIDE DEF g
  <2> QED  BY <1>2, <2>1
<1> QED  BY <1>3 DEF Folds

LEMMA FoldExists ==
    ASSUME NEW base, NEW rs, NEW limit, NEW n \in Nat
    PROVE  \E f : Folds(f, 1 .. n, base, rs, limit)
<1> DEFINE P(k) == \E f : Folds(f, 1 .. k, base, rs, limit)
           S == {k \in Nat : ~P(k)}
<1>1. P(0)
  <2> DEFINE f == [s \in {{}} |-> base]
  <2>1. Folds(f, {}, base, rs, limit)
    BY DEF Folds
  <2> QED  BY <2>1
<1>2. \A k \in Nat : P(k) => P(k + 1)
  BY OneMore
<1> HIDE DEF P
<1>3. ASSUME S # {} PROVE FALSE
  <2>1. PICK k \in S : \A y \in S : k <= y
    BY <1>3, Smallest
  <2> QED  BY <1>1, <1>2, <2>1
<1> QED  BY <1>3 DEF P

\* What the rows up to the k-th have made.
LEMMA FirstRow ==
    ASSUME NEW base, NEW rs, NEW limit, NEW D, NEW f, Folds(f, D, base, rs, limit)
    PROVE  f[1 .. 0] = base
BY DEF Folds

LEMMA RowByRow ==
    ASSUME NEW base, NEW rs, NEW limit, NEW n \in Nat,
           NEW f, Folds(f, 1 .. n, base, rs, limit)
    PROVE  \A k \in 1 .. n : f[1 .. k] = Imp!CommitRow(f[1 .. k - 1], rs[k], limit)
<1>1. ASSUME NEW k \in 1 .. n
      PROVE  f[1 .. k] = Imp!CommitRow(f[1 .. k - 1], rs[k], limit)
  <2>1. 1 .. k \in SUBSET (1 .. n) /\ 1 .. k # {} /\ k \in 1 .. k /\ k \in Nat
    OBVIOUS
  <2>2. Imp!Max(1 .. k) = k
    <3>1. Imp!Max(1 .. k) \in 1 .. k /\ k <= Imp!Max(1 .. k)
      BY <2>1, Largest
    <3> QED  BY <3>1
  <2>3. (1 .. k) \ {k} = 1 .. k - 1
    OBVIOUS
  <2> QED  BY <2>1, <2>2, <2>3 DEF Folds
<1> QED  BY <1>1

-----------------------------------------------------------------------------
(* What becomes of a row *)

\* The normal form of a plate or VIN, none if there is none.
Plate(v) == IF v.plate = Imp!Blank THEN Imp!Blank ELSE NormalPlate[v.plate]
Vin(v)   == IF v.vin = Imp!Blank THEN Imp!Blank ELSE NormalVin[v.vin]

\* The last vehicle of the fleet with a key, if there is one.
LEMMA LastFacts ==
    ASSUME NEW fleet \in Fleets, NEW I \in SUBSET (DOMAIN fleet),
           NEW last, last = IF I # {} THEN Imp!Max(I) ELSE 0,
           NEW m, m = IF last = 0 THEN None ELSE fleet[last].id
    PROVE  m \in {None} \cup DOMAIN fleet /\ (m = None <=> I = {})
<1>1. DOMAIN fleet = 1 .. Len(fleet) /\ Len(fleet) \in Nat
  BY ImportAssumption DEF ImportAssumption
<1>2. CASE I # {}
  <2>1. last \in DOMAIN fleet
    BY <1>1, <1>2, Largest
  <2> QED  BY <1>1, <1>2, <2>1, ImportAssumption DEF ImportAssumption
<1>3. CASE I = {}
  BY <1>3
<1> QED  BY <1>2, <1>3

\* The maps of plates and VINs find a vehicle of the fleet if there is one.
LEMMA ByPlateFacts ==
    ASSUME NEW fleet \in Fleets, NEW row, NEW m, m = Imp!ByPlate(fleet, row.plate)
    PROVE  /\ m \in {None} \cup DOMAIN fleet
           /\ m = None /\ Plate(row) # Imp!Blank =>
                \A i \in DOMAIN fleet : Plate(fleet[i]) # Plate(row)
<1> DEFINE I == {i \in 1 .. Len(fleet) : /\ fleet[i].plate # Imp!Blank
                                         /\ NormalPlate[fleet[i].plate] = NormalPlate[row.plate]}
           last == IF I # {} THEN Imp!Max(I) ELSE 0
<1>1. m = IF row.plate = Imp!Blank THEN None ELSE IF last = 0 THEN None ELSE fleet[last].id
  BY Zenon DEF Imp!ByPlate, Imp!IdBy, Imp!FindLastIndex
<1>2. DOMAIN fleet = 1 .. Len(fleet)
  BY ImportAssumption DEF ImportAssumption
<1>3. I \in SUBSET (DOMAIN fleet)
  BY <1>2
<1>4. \A i \in DOMAIN fleet :
        row.plate # Imp!Blank /\ Plate(row) # Imp!Blank /\ Plate(fleet[i]) = Plate(row) => i \in I
  BY <1>2 DEF Plate
<1> HIDE DEF I
<1> QED  BY <1>1, <1>3, <1>4, LastFacts DEF Plate

LEMMA ByVinFacts ==
    ASSUME NEW fleet \in Fleets, NEW row, NEW m, m = Imp!ByVin(fleet, row.vin)
    PROVE  /\ m \in {None} \cup DOMAIN fleet
           /\ m = None /\ Vin(row) # Imp!Blank => \A i \in DOMAIN fleet : Vin(fleet[i]) # Vin(row)
<1> DEFINE I == {i \in 1 .. Len(fleet) : /\ fleet[i].vin # Imp!Blank
                                         /\ NormalVin[fleet[i].vin] = NormalVin[row.vin]}
           last == IF I # {} THEN Imp!Max(I) ELSE 0
<1>1. m = IF row.vin = Imp!Blank THEN None ELSE IF last = 0 THEN None ELSE fleet[last].id
  BY Zenon DEF Imp!ByVin, Imp!IdBy, Imp!FindLastIndex
<1>2. DOMAIN fleet = 1 .. Len(fleet)
  BY ImportAssumption DEF ImportAssumption
<1>3. I \in SUBSET (DOMAIN fleet)
  BY <1>2
<1>4. \A i \in DOMAIN fleet :
        row.vin # Imp!Blank /\ Vin(row) # Imp!Blank /\ Vin(fleet[i]) = Vin(row) => i \in I
  BY <1>2 DEF Vin
<1> HIDE DEF I
<1> QED  BY <1>1, <1>3, <1>4, LastFacts DEF Vin

\* What becomes of a row was decided on the fleet before the import.
LEMMA AnalysisFacts ==
    ASSUME NEW fleet \in Fleets, NEW rows \in ImportFiles,
           NEW rs, rs = Imp!AnalyzeImport(fleet, rows), NEW k \in DOMAIN rs
    PROVE  /\ rs[k] = [row |-> rows[k], action |-> rs[k].action, vehicle |-> rs[k].vehicle]
           /\ rs[k].action \in {"error", "update", "create"}
           /\ rs[k].action = "update" => rs[k].vehicle \in DOMAIN fleet
           /\ rs[k].action = "create" =>
                /\ Plate(rows[k]) # Imp!Blank =>
                     \A i \in DOMAIN fleet : Plate(fleet[i]) # Plate(rows[k])
                /\ Vin(rows[k]) # Imp!Blank =>
                     \A i \in DOMAIN fleet : Vin(fleet[i]) # Vin(rows[k])
<1> DEFINE row == rows[k]
           found == Imp!Matched(fleet, row)
<1>1. /\ found \in {Imp!ByVin(fleet, row.vin), Imp!ByPlate(fleet, row.plate)}
      /\ found = None => Imp!ByVin(fleet, row.vin) = None /\ Imp!ByPlate(fleet, row.plate) = None
  BY DEF Imp!Matched
<1> HIDE DEF row, found
<1> QED  BY <1>1, ByPlateFacts, ByVinFacts DEF row, found, Imp!ActionFor, Imp!AnalyzeImport

-----------------------------------------------------------------------------
(* The plates and VINs of the vehicles *)

\* p gives the plates, or the VINs, of the vehicles: those of the n vehicles
\* there were, and those the file has given, which are taken.
KeysApart(p, old, n, taken) ==
    /\ \A i \in DOMAIN p :
         p[i] \in {Imp!Blank, old[i]} \cup taken /\ (i > n => p[i] \in {Imp!Blank} \cup taken)
    /\ \A i, j \in DOMAIN p : i > n /\ i # j => p[i] = Imp!Blank \/ p[i] # p[j]

LEMMA KeyChanged ==
    ASSUME NEW n \in Nat, NEW l \in Nat, NEW p, NEW old, NEW taken, NEW q, NEW now, DOMAIN p = 1 .. l,
           KeysApart(p, old, n, taken), NEW m \in 1 .. n, NEW x,
           DOMAIN q = 1 .. l, q[m] = x,
           \A i \in 1 .. l : i # m => q[i] = p[i],
           taken \subseteq now,
           x \in {p[m], Imp!Blank} \/ (x \notin taken /\ x \in now)
    PROVE  KeysApart(q, old, n, now)
<1>1. ASSUME NEW i \in DOMAIN q
      PROVE  q[i] \in {Imp!Blank, old[i]} \cup now /\ (i > n => q[i] \in {Imp!Blank} \cup now)
  BY DEF KeysApart
<1>2. ASSUME NEW i \in DOMAIN q, NEW j \in DOMAIN q, i > n, i # j
      PROVE  q[i] = Imp!Blank \/ q[i] # q[j]
  <2>1. i # m /\ q[i] = p[i] /\ p[i] \in {Imp!Blank} \cup taken
    BY <1>2 DEF KeysApart
  <2>2. p[i] = Imp!Blank \/ p[i] # p[j]
    BY <1>2 DEF KeysApart
  <2>3. CASE j = m
    BY <2>1, <2>2, <2>3
  <2>4. CASE j # m
    BY <2>1, <2>2, <2>4
  <2> QED  BY <2>3, <2>4
<1> QED  BY <1>1, <1>2 DEF KeysApart

LEMMA KeyAdded ==
    ASSUME NEW n \in Nat, NEW l \in Nat, n <= l, NEW p, NEW old, NEW taken, NEW q, NEW now,
           DOMAIN p = 1 .. l, KeysApart(p, old, n, taken), NEW x,
           DOMAIN q = 1 .. l + 1, q[l + 1] = x,
           \A i \in 1 .. l : q[i] = p[i],
           taken \subseteq now,
           x = Imp!Blank \/ (x \notin taken /\ x \in now /\ \A i \in 1 .. n : old[i] # x)
    PROVE  KeysApart(q, old, n, now)
<1>1. ASSUME NEW i \in DOMAIN q
      PROVE  q[i] \in {Imp!Blank, old[i]} \cup now /\ (i > n => q[i] \in {Imp!Blank} \cup now)
  <2>1. CASE i = l + 1
    BY <2>1
  <2>2. CASE i # l + 1
    BY <2>2 DEF KeysApart
  <2> QED  BY <2>1, <2>2
<1>2. ASSUME NEW i \in 1 .. l, x # Imp!Blank PROVE p[i] # x
  BY <1>2 DEF KeysApart
<1>3. ASSUME NEW i \in DOMAIN q, NEW j \in DOMAIN q, i > n, i # j
      PROVE  q[i] = Imp!Blank \/ q[i] # q[j]
  <2>1. CASE i = l + 1
    BY <1>2, <1>3, <2>1
  <2>2. CASE j = l + 1
    BY <1>2, <1>3, <2>2
  <2>3. CASE i # l + 1 /\ j # l + 1
    BY <1>3, <2>3 DEF KeysApart
  <2> QED  BY <2>1, <2>2, <2>3
<1> QED  BY <1>1, <1>3 DEF KeysApart

\* A row that is not skipped has a plate and a VIN the file has not given yet,
\* and they are given from then on.
LEMMA UnseenFacts ==
    ASSUME NEW acc, NEW row, ~Imp!Seen(acc, row)
    PROVE  /\ Plate(row) = Imp!Blank \/ Plate(row) \notin acc.plates
           /\ Vin(row) = Imp!Blank \/ Vin(row) \notin acc.vins
  BY DEF Imp!Seen, Plate, Vin

Progress(acc) ==
    [vehicles |-> acc.vehicles, plates |-> acc.plates, vins |-> acc.vins,
     created |-> acc.created, updated |-> acc.updated, skipped |-> acc.skipped]

LEMMA RememberFacts ==
    ASSUME NEW acc, acc = Progress(acc), NEW row, NEW a, a = Imp!Remember(acc, row)
    PROVE  /\ a = [acc EXCEPT !.plates = a.plates, !.vins = a.vins]
           /\ acc.plates \subseteq a.plates /\ acc.vins \subseteq a.vins
           /\ Plate(row) = Imp!Blank \/ Plate(row) \in a.plates
           /\ Vin(row) = Imp!Blank \/ Vin(row) \in a.vins
BY DEF Plate, Vin, Imp!Remember, Progress

\* What a row does.
Skips(a, acc) == a = [acc EXCEPT !.skipped = @ + 1]

Updates(a, acc, id, row) ==
    a = [Imp!Remember(acc, row) EXCEPT !.vehicles = Imp!UpdateRow(@, id, row), !.updated = @ + 1]

NewVehicle(acc, row) == [id |-> Len(acc.vehicles) + 1, plate |-> row.plate, vin |-> row.vin]

Creates(a, acc, row) ==
    a = [Imp!Remember(acc, row) EXCEPT !.vehicles = Append(@, NewVehicle(acc, row)),
                                       !.created = @ + 1]

LEMMA RowFacts ==
    ASSUME NEW acc, NEW r, NEW limit, NEW a, a = Imp!CommitRow(acc, r, limit),
           r.action \in {"error", "update", "create"}
    PROVE  \/ Skips(a, acc)
           \/ /\ r.action = "update" /\ ~Imp!Seen(acc, r.row)
              /\ Updates(a, acc, r.vehicle, r.row)
           \/ /\ r.action = "create" /\ ~Imp!Seen(acc, r.row)
              /\ ~(Len(acc.vehicles) >= limit) /\ Creates(a, acc, r.row)
  BY DEF Imp!CommitRow, Skips, Updates, Creates, NewVehicle

-----------------------------------------------------------------------------
(* The invariant of the rows *)

Plates(vs) == [i \in DOMAIN vs |-> Plate(vs[i])]
Vins(vs)   == [i \in DOMAIN vs |-> Vin(vs[i])]

Of(rs, action, k) == {i \in 1 .. k : rs[i].action = action}

Vehicle(i, v) == v = [id |-> i, plate |-> v.plate, vin |-> v.vin]

\* No more rows are created or updated than were to be.
Tally(rs, k, created, updated, skipped) ==
    /\ created \in Nat /\ updated \in Nat /\ skipped \in Nat
    /\ created + updated + skipped = k
    /\ created <= Cardinality(Of(rs, "create", k))
    /\ updated <= Cardinality(Of(rs, "update", k))

\* What the first k rows have left.
Imported(fleet, rs, limit, k, acc) ==
    /\ acc = Progress(acc)
    /\ Tally(rs, k, acc.created, acc.updated, acc.skipped)
    /\ \E S : acc.vehicles \in Seq(S)
    /\ Len(acc.vehicles) = Len(fleet) + acc.created
    /\ Len(acc.vehicles) <= Len(fleet) \/ Len(acc.vehicles) <= limit
    /\ \A i \in 1 .. Len(acc.vehicles) : Vehicle(i, acc.vehicles[i])
    /\ KeysApart(Plates(acc.vehicles), Plates(fleet), Len(fleet), acc.plates)
    /\ KeysApart(Vins(acc.vehicles), Vins(fleet), Len(fleet), acc.vins)

LEMMA OfFacts ==
    ASSUME NEW rs, NEW k \in Nat, NEW a
    PROVE  /\ IsFiniteSet(Of(rs, a, k)) /\ Cardinality(Of(rs, a, k)) \in Nat
           /\ Cardinality(Of(rs, a, k + 1)) =
                Cardinality(Of(rs, a, k)) + (IF rs[k + 1].action = a THEN 1 ELSE 0)
<1>1. IsFiniteSet(1 .. k) /\ Of(rs, a, k) \in SUBSET (1 .. k)
  BY FS_Interval DEF Of
<1>2. IsFiniteSet(Of(rs, a, k)) /\ Cardinality(Of(rs, a, k)) \in Nat
  BY <1>1, FS_Subset, FS_CardinalityType
<1>3. k + 1 \notin Of(rs, a, k)
  BY DEF Of
<1>4. Of(rs, a, k + 1) =
        IF rs[k + 1].action = a THEN Of(rs, a, k) \cup {k + 1} ELSE Of(rs, a, k)
  BY DEF Of
<1>5. Cardinality(Of(rs, a, k) \cup {k + 1}) = Cardinality(Of(rs, a, k)) + 1
  BY <1>2, <1>3, FS_AddElement
<1> QED  BY <1>2, <1>4, <1>5

LEMMA TallyFacts ==
    ASSUME NEW rs, NEW k \in Nat, NEW c, NEW u, NEW s, Tally(rs, k, c, u, s)
    PROVE  /\ Tally(rs, k + 1, c, u, s + 1)
           /\ rs[k + 1].action = "update" => Tally(rs, k + 1, c, u + 1, s)
           /\ rs[k + 1].action = "create" => Tally(rs, k + 1, c + 1, u, s)
<1> DEFINE C == Cardinality(Of(rs, "create", k))
           D == Cardinality(Of(rs, "create", k + 1))
           U == Cardinality(Of(rs, "update", k))
           V == Cardinality(Of(rs, "update", k + 1))
<1>1. c \in Nat /\ u \in Nat /\ s \in Nat /\ c + u + s = k /\ c <= C /\ u <= U
  BY DEF Tally
<1> HIDE DEF C, D, U, V
<1> QED  BY <1>1, OfFacts DEF Tally, D, V

LEMMA Rows ==
    ASSUME NEW l \in Nat, NEW S, NEW s \in [1 .. l -> S]
    PROVE  s \in Seq(S) /\ Len(s) = l
  OBVIOUS

LEMMA SkippedRow ==
    ASSUME NEW fleet, NEW rs, NEW limit, NEW k \in Nat, NEW acc, Imported(fleet, rs, limit, k, acc),
           NEW a, Skips(a, acc)
    PROVE  Imported(fleet, rs, limit, k + 1, a)
BY TallyFacts DEF Imported, Progress, Skips

Redone(v, plate, vin) == [v EXCEPT !.plate = plate, !.vin = vin]

LEMMA VehicleFacts ==
    ASSUME NEW i, NEW v, Vehicle(i, v)
    PROVE  /\ v.id = i
           /\ \A p, q : Redone(v, p, q) = [id |-> i, plate |-> p, vin |-> q]
<1>1. v = [id |-> i, plate |-> v.plate, vin |-> v.vin]
  BY DEF Vehicle
<1>2. PICK x, y : v = [id |-> i, plate |-> x, vin |-> y]
  BY <1>1
<1>3. ASSUME NEW p, NEW q PROVE Redone(v, p, q) = [id |-> i, plate |-> p, vin |-> q]
  <2>1. PICK w : w = [v EXCEPT !.plate = p]
    OBVIOUS
  <2>2. PICK z : z = [w EXCEPT !.vin = q]
    OBVIOUS
  <2>3. z = Redone(v, p, q)
    BY <2>1, <2>2, Zenon DEF Redone
  <2> QED  BY <1>2, <2>1, <2>2, <2>3
<1> QED  BY <1>1, <1>3

LEMMA UpdatedRow ==
    ASSUME NEW fleet, Len(fleet) \in Nat, NEW rs, NEW limit, NEW k \in Nat, NEW acc,
           Imported(fleet, rs, limit, k, acc),
           NEW row, NEW m \in 1 .. Len(fleet), ~Imp!Seen(acc, row),
           rs[k + 1].action = "update",
           NEW a, Updates(a, acc, m, row)
    PROVE  Imported(fleet, rs, limit, k + 1, a)
<1> DEFINE told == Imp!Remember(acc, row)
           vs == acc.vehicles
           ws == Imp!UpdateRow(vs, m, row)
           l  == Len(vs)
<1>1. /\ told = [acc EXCEPT !.plates = told.plates, !.vins = told.vins]
      /\ acc.plates \subseteq told.plates /\ acc.vins \subseteq told.vins
      /\ Plate(row) = Imp!Blank \/ Plate(row) \in told.plates
      /\ Vin(row) = Imp!Blank \/ Vin(row) \in told.vins
  BY RememberFacts DEF Imported
<1>2. /\ Plate(row) = Imp!Blank \/ Plate(row) \notin acc.plates
      /\ Vin(row) = Imp!Blank \/ Vin(row) \notin acc.vins
  BY UnseenFacts
<1>3. /\ a = Progress(a) /\ a.vehicles = ws /\ a.plates = told.plates /\ a.vins = told.vins
      /\ a.created = acc.created /\ a.updated = acc.updated + 1 /\ a.skipped = acc.skipped
  <2>1. told = Progress(told) /\ told.vehicles = vs /\ told.created = acc.created
        /\ told.updated = acc.updated /\ told.skipped = acc.skipped
    BY <1>1 DEF Progress, Imported
  <2> HIDE DEF told, vs
  <2>2. a = [told EXCEPT !.vehicles = Imp!UpdateRow(told.vehicles, m, row),
                         !.updated = told.updated + 1]
    BY Zenon DEF told, Updates
  <2> HIDE DEF ws
  <2> QED  BY <2>1, <2>2 DEF Progress, ws
<1>4. l \in Nat /\ DOMAIN vs = 1 .. l /\ Len(fleet) <= l
  BY SMTT(30) DEF Imported, Tally
<1>5. /\ DOMAIN ws = 1 .. l
      /\ \A i \in 1 .. l : i # m => ws[i] = vs[i]
      /\ \A i \in 1 .. l : Vehicle(i, ws[i])
      /\ Plate(ws[m]) \in {Plate(vs[m]), Plate(row)}
      /\ Vin(ws[m]) \in {Vin(vs[m]), Vin(row)}
  <2>1. \A i \in 1 .. l : Vehicle(i, vs[i])
    BY DEF Imported
  <2> DEFINE new(v) == Redone(v, Imp!Given(row.plate, v.plate), Imp!Given(row.vin, v.vin))
  <2>2. ws = [i \in 1 .. l |-> IF vs[i].id = m THEN new(vs[i]) ELSE vs[i]]
    BY <1>4 DEF Imp!UpdateRow, Redone
  <2> HIDE DEF ws, vs, l, new
  <2>3. \A i \in 1 .. l : ws[i] = IF i = m THEN new(vs[i]) ELSE vs[i]
    BY <2>1, <2>2, VehicleFacts
  <2>4. ws[m] = [id |-> m, plate |-> Imp!Given(row.plate, vs[m].plate),
                           vin |-> Imp!Given(row.vin, vs[m].vin)]
    BY <1>4, <2>1, <2>3, VehicleFacts DEF new
  <2> QED  BY <2>1, <2>2, <2>3, <2>4 DEF Vehicle, Plate, Vin, Imp!Given
<1>6. Len(ws) = l /\ \E S : ws \in Seq(S)
  <2> HIDE DEF ws
  <2> DEFINE S == {ws[i] : i \in 1 .. l}
  <2>1. ws \in [1 .. l -> S]
    BY <1>4 DEF ws, Imp!UpdateRow
  <2> QED  BY <1>4, <2>1, Rows
<1> HIDE DEF ws, told
<1>7. KeysApart(Plates(ws), Plates(fleet), Len(fleet), told.plates)
  <2>1. /\ DOMAIN Plates(ws) = 1 .. l /\ DOMAIN Plates(vs) = 1 .. l
        /\ \A i \in 1 .. l : i # m => Plates(ws)[i] = Plates(vs)[i]
        /\ Plates(ws)[m] = Plate(ws[m]) /\ Plates(vs)[m] = Plate(vs[m])
    BY <1>4, <1>5 DEF Plates
  <2>2. KeysApart(Plates(vs), Plates(fleet), Len(fleet), acc.plates)
    BY DEF Imported
  <2> HIDE DEF vs, l
  <2> QED  BY <1>1, <1>2, <1>4, <1>5, <2>1, <2>2, KeyChanged
<1>8. KeysApart(Vins(ws), Vins(fleet), Len(fleet), told.vins)
  <2>1. KeysApart(Vins(vs), Vins(fleet), Len(fleet), acc.vins)
    BY DEF Imported
  <2> HIDE DEF vs, l
  <2> QED  BY <1>1, <1>2, <1>4, <1>5, <2>1, KeyChanged DEF Vins
<1> QED  BY <1>3, <1>5, <1>6, <1>7, <1>8, TallyFacts DEF Imported

LEMMA OneVehicleMore ==
    ASSUME NEW n \in Nat, NEW l \in Nat, NEW c \in Nat, NEW limit \in Nat, l = n + c, ~(l >= limit)
    PROVE  l + 1 = n + (c + 1) /\ l + 1 <= limit
  OBVIOUS

LEMMA CreatedRow ==
    ASSUME NEW fleet, Len(fleet) \in Nat, NEW rs, NEW limit \in Nat, NEW k \in Nat, NEW acc,
           Imported(fleet, rs, limit, k, acc),
           NEW row, ~Imp!Seen(acc, row), rs[k + 1].action = "create",
           ~(Len(acc.vehicles) >= limit),
           Plate(row) # Imp!Blank => \A i \in DOMAIN fleet : Plate(fleet[i]) # Plate(row),
           Vin(row) # Imp!Blank => \A i \in DOMAIN fleet : Vin(fleet[i]) # Vin(row),
           DOMAIN fleet = 1 .. Len(fleet),
           NEW a, Creates(a, acc, row)
    PROVE  Imported(fleet, rs, limit, k + 1, a)
<1> DEFINE told == Imp!Remember(acc, row)
           vs == acc.vehicles
           v  == NewVehicle(acc, row)
           ws == Append(vs, v)
           l  == Len(vs)
<1>1. /\ told = [acc EXCEPT !.plates = told.plates, !.vins = told.vins]
      /\ acc.plates \subseteq told.plates /\ acc.vins \subseteq told.vins
      /\ Plate(row) = Imp!Blank \/ Plate(row) \in told.plates
      /\ Vin(row) = Imp!Blank \/ Vin(row) \in told.vins
  BY RememberFacts DEF Imported
<1>2. /\ Plate(row) = Imp!Blank \/ Plate(row) \notin acc.plates
      /\ Vin(row) = Imp!Blank \/ Vin(row) \notin acc.vins
  BY UnseenFacts
<1>3. /\ a = Progress(a) /\ a.vehicles = ws /\ a.plates = told.plates /\ a.vins = told.vins
      /\ a.created = acc.created + 1 /\ a.updated = acc.updated /\ a.skipped = acc.skipped
  <2>1. acc = Progress(acc)
    BY DEF Imported
  <2>2. told = Progress(told) /\ told.vehicles = vs /\ told.created = acc.created
        /\ told.updated = acc.updated /\ told.skipped = acc.skipped
    BY <1>1, <2>1 DEF Progress
  <2> HIDE DEF told, vs
  <2>3. a = [told EXCEPT !.vehicles = Append(told.vehicles, v), !.created = told.created + 1]
    BY Zenon DEF told, Creates
  <2> HIDE DEF ws
  <2>4. ws = Append(told.vehicles, v)
    BY <2>2 DEF ws
  <2> QED  BY <2>2, <2>3, <2>4 DEF Progress
<1>4. l \in Nat /\ DOMAIN vs = 1 .. l /\ Len(fleet) <= l
  BY SMTT(30) DEF Imported, Tally
<1>5. /\ DOMAIN ws = 1 .. l + 1 /\ Len(ws) = l + 1 /\ \E S : ws \in Seq(S)
      /\ \A i \in 1 .. l : ws[i] = vs[i]
      /\ ws[l + 1] = v
  <2>1. PICK S : vs \in Seq(S)
    BY DEF Imported
  <2> DEFINE T == S \cup {v}
  <2>2. vs \in Seq(T) /\ v \in T
    BY <2>1
  <2> HIDE DEF T, vs, v
  <2> QED  BY <2>2
<1>6. \A i \in 1 .. l + 1 : Vehicle(i, ws[i])
  <2>1. Vehicle(l + 1, v)
    BY DEF Vehicle, NewVehicle
  <2>2. \A i \in 1 .. l : Vehicle(i, vs[i])
    BY DEF Imported
  <2> HIDE DEF ws, vs, l, v
  <2> QED  BY <1>4, <1>5, <2>1, <2>2
<1>7. Plate(v) = Plate(row) /\ Vin(v) = Vin(row)
  BY DEF Plate, Vin, NewVehicle
<1> HIDE DEF ws, told
<1>8. KeysApart(Plates(ws), Plates(fleet), Len(fleet), told.plates)
  <2>1. /\ DOMAIN Plates(ws) = 1 .. l + 1 /\ DOMAIN Plates(vs) = 1 .. l
        /\ \A i \in 1 .. l : Plates(ws)[i] = Plates(vs)[i]
        /\ Plates(ws)[l + 1] = Plate(row)
    BY <1>4, <1>5, <1>7 DEF Plates
  <2>2. KeysApart(Plates(vs), Plates(fleet), Len(fleet), acc.plates)
    BY DEF Imported
  <2>3. Plate(row) # Imp!Blank => \A i \in 1 .. Len(fleet) : Plates(fleet)[i] # Plate(row)
    BY DEF Plates
  <2> HIDE DEF vs, l
  <2> QED  BY <1>1, <1>2, <1>4, <2>1, <2>2, <2>3, KeyAdded, SMTT(30)
<1>9. KeysApart(Vins(ws), Vins(fleet), Len(fleet), told.vins)
  <2>1. /\ DOMAIN Vins(ws) = 1 .. l + 1 /\ DOMAIN Vins(vs) = 1 .. l
        /\ \A i \in 1 .. l : Vins(ws)[i] = Vins(vs)[i]
        /\ Vins(ws)[l + 1] = Vin(row)
    BY <1>4, <1>5, <1>7 DEF Vins
  <2>2. KeysApart(Vins(vs), Vins(fleet), Len(fleet), acc.vins)
    BY DEF Imported
  <2>3. Vin(row) # Imp!Blank => \A i \in 1 .. Len(fleet) : Vins(fleet)[i] # Vin(row)
    BY DEF Vins
  <2> HIDE DEF vs, l
  <2> QED  BY <1>1, <1>2, <1>4, <2>1, <2>2, <2>3, KeyAdded, SMTT(30)
<1>10. Tally(rs, k + 1, a.created, a.updated, a.skipped)
  BY <1>3, TallyFacts DEF Imported
<1>11. Len(ws) = Len(fleet) + a.created /\ (Len(ws) <= Len(fleet) \/ Len(ws) <= limit)
  <2>1. l = Len(fleet) + acc.created /\ acc.created \in Nat
    BY DEF Imported, Tally
  <2>2. ~(l >= limit)
    OBVIOUS
  <2>3. l + 1 = Len(fleet) + (acc.created + 1) /\ l + 1 <= limit
    BY <1>4, <2>1, <2>2, OneVehicleMore
  <2> HIDE DEF l
  <2> QED  BY <1>3, <1>5, <2>3
<1> QED  BY <1>3, <1>5, <1>6, <1>8, <1>9, <1>10, <1>11 DEF Imported

-----------------------------------------------------------------------------
Before(fleet) == [vehicles |-> fleet, plates |-> {}, vins |-> {},
                  created |-> 0, updated |-> 0, skipped |-> 0]

LEMMA BeforeFacts ==
    ASSUME NEW fleet \in Fleets, NEW rs, NEW limit
    PROVE  Imported(fleet, rs, limit, 0, Before(fleet))
<1> DEFINE b == Before(fleet)
<1>1. /\ b = Progress(b) /\ b.vehicles = fleet /\ b.plates = {} /\ b.vins = {}
      /\ b.created = 0 /\ b.updated = 0 /\ b.skipped = 0
  BY DEF Before, Progress
<1> HIDE DEF b
<1>2. Imported(fleet, rs, limit, 0, b)
  BY <1>1, ImportAssumption, FS_EmptySet DEF Imported, KeysApart, Plates, Vins,
     ImportAssumption, Vehicle, Tally, Of
<1> QED  BY <1>2 DEF b

LEMMA NextRow ==
    ASSUME NEW fleet \in Fleets, NEW rows \in ImportFiles, NEW limit \in Nat,
           NEW rs, rs = Imp!AnalyzeImport(fleet, rows), NEW k \in Nat, k + 1 \in DOMAIN rs,
           NEW acc, Imported(fleet, rs, limit, k, acc)
    PROVE  Imported(fleet, rs, limit, k + 1, Imp!CommitRow(acc, rs[k + 1], limit))
<1> DEFINE r == rs[k + 1]
           row == r.row
<1>1. DOMAIN fleet = 1 .. Len(fleet) /\ Len(fleet) \in Nat
  BY ImportAssumption DEF ImportAssumption
<1>2. /\ row = rows[k + 1] /\ r.action \in {"error", "update", "create"}
      /\ r.action = "update" => r.vehicle \in 1 .. Len(fleet)
      /\ r.action = "create" =>
           /\ Plate(row) # Imp!Blank => \A i \in DOMAIN fleet : Plate(fleet[i]) # Plate(row)
           /\ Vin(row) # Imp!Blank => \A i \in DOMAIN fleet : Vin(fleet[i]) # Vin(row)
  <2>1. PICK x : x = k + 1 /\ x \in DOMAIN rs
    OBVIOUS
  <2> QED  BY <1>1, <2>1, AnalysisFacts
<1>3. PICK a : a = Imp!CommitRow(acc, r, limit)
  OBVIOUS
<1>4. CASE Skips(a, acc)
  BY <1>3, <1>4, SkippedRow
<1>5. CASE r.action = "update" /\ ~Imp!Seen(acc, row) /\ Updates(a, acc, r.vehicle, row)
  BY <1>1, <1>2, <1>3, <1>5, UpdatedRow
<1>6. CASE /\ r.action = "create" /\ ~Imp!Seen(acc, row)
           /\ ~(Len(acc.vehicles) >= limit) /\ Creates(a, acc, row)
  BY <1>1, <1>2, <1>3, <1>6, CreatedRow
<1> QED  BY <1>2, <1>3, <1>4, <1>5, <1>6, RowFacts


LEMMA CommitFold ==
    ASSUME NEW fleet, NEW rows, NEW limit, NEW rs, rs = Imp!AnalyzeImport(fleet, rows),
           NEW D, D = DOMAIN rs
    PROVE  Imp!CommitImport(fleet, rows, limit) =
             (CHOOSE f : Folds(f, D, Before(fleet), rs, limit))[D]
  BY Zenon DEF Imp!CommitImport, Imp!Reduce, Imp!MapThenFoldSet, Folds, Before

LEMMA CommitFacts ==
    ASSUME NEW fleet \in Fleets, NEW rows \in ImportFiles, NEW limit \in Nat,
           NEW rs, rs = Imp!AnalyzeImport(fleet, rows)
    PROVE  Imported(fleet, rs, limit, Len(rows), Imp!CommitImport(fleet, rows, limit))
<1> DEFINE n == Len(rows)
<1>1. n \in Nat /\ DOMAIN rs = 1 .. n
  BY ImportAssumption DEF ImportAssumption, Imp!AnalyzeImport
<1>2. PICK f : f = CHOOSE g : Folds(g, 1 .. n, Before(fleet), rs, limit)
  OBVIOUS
<1>3. Folds(f, 1 .. n, Before(fleet), rs, limit)
  BY <1>1, <1>2, FoldExists
<1> DEFINE P(k) == Imported(fleet, rs, limit, k, f[1 .. k])
<1> HIDE DEF n
<1>4. P(0)
  BY <1>3, BeforeFacts, FirstRow
<1>5. ASSUME NEW k \in 1 .. n, P(k - 1) PROVE P(k)
  <2>1. PICK j \in Nat : k = j + 1 /\ k - 1 = j
    OBVIOUS
  <2>2. j + 1 \in DOMAIN rs
    BY <1>1, <2>1
  <2> QED  BY <1>1, <1>3, <1>5, <2>1, <2>2, NextRow, RowByRow
<1> HIDE DEF P
<1> DEFINE S == {k \in 0 .. n : ~P(k)}
<1>6. ASSUME S # {} PROVE FALSE
  <2>1. S \in SUBSET Nat
    BY <1>1
  <2>2. PICK k \in S : \A y \in S : k <= y
    BY <1>6, <2>1, Smallest
  <2> QED  BY <1>1, <1>4, <1>5, <2>2
<1> QED  BY <1>1, <1>2, <1>6, CommitFold DEF P, n

LEMMA Imports == InputKnown => ImportAddsNoTwin
<1> SUFFICES ASSUME InputKnown, input.kind = "import" PROVE ImportAddsNoTwin
  BY DEF ImportAddsNoTwin
<1> DEFINE fleet  == input.fleet
           rows   == input.rows
           limit  == input.limit
           rs     == Imp!AnalyzeImport(fleet, rows)
           before == Len(fleet)
           result == Imp!CommitImport(fleet, rows, limit)
           after  == result.vehicles
           said   == Imp!PreviewImport(fleet, rows)
           same(v, w) == \/ Plate(v) # Imp!Blank /\ Plate(v) = Plate(w)
                         \/ Vin(v) # Imp!Blank /\ Vin(v) = Vin(w)
<1>1. fleet \in Fleets /\ rows \in ImportFiles /\ limit \in Nat
  BY RulesAssumption DEF RulesAssumption, InputKnown
<1>2. /\ Len(rows) \in Nat /\ before \in Nat /\ DOMAIN rs = 1 .. Len(rows)
  BY <1>1, ImportAssumption DEF ImportAssumption, Imp!AnalyzeImport
<1>3. /\ said.total = Len(rows)
      /\ said.create = Imp!Cardinality({i \in DOMAIN rs : rs[i].action = "create"})
      /\ said.update = Imp!Cardinality({i \in DOMAIN rs : rs[i].action = "update"})
  BY DEF Imp!PreviewImport
<1>4. \A S : Imp!Cardinality(S) = Cardinality(S)
  BY DEF Imp!Cardinality, Cardinality, Imp!IsFiniteSet, IsFiniteSet
<1>5. Imported(fleet, rs, limit, Len(rows), result)
  BY <1>1, CommitFacts
<1> HIDE DEF result, said, rs, before, fleet, rows, limit
<1>6. /\ result.created + result.updated + result.skipped = said.total
      /\ result.created <= said.create /\ result.updated <= said.update
      /\ Len(after) = before + result.created
      /\ Len(after) <= before \/ Len(after) <= limit
  BY <1>2, <1>3, <1>4, <1>5 DEF Imported, Tally, before, Of
<1>7. ASSUME NEW i \in before + 1 .. Len(after), NEW j \in DOMAIN after, i # j
      PROVE  ~same(after[i], after[j])
  <2>1. i \in DOMAIN after /\ i > before
    BY <1>2, <1>5 DEF Imported
  <2> QED  BY <1>5, <1>7, <2>1 DEF KeysApart, Plates, Vins, Imported, before
<1> QED  BY <1>6, <1>7, Zenon DEF ImportAddsNoTwin, result, said, before, fleet, rows, limit, Plate, Vin

-----------------------------------------------------------------------------
(* Induction on numbers and on finite sets, the property being a set *)

LEMMA EveryNumber ==
    ASSUME NEW N \in SUBSET Nat, 0 \in N, \A n \in N : n + 1 \in N
    PROVE  N = Nat
<1>1. ASSUME Nat \ N # {} PROVE FALSE
  <2>1. PICK n \in Nat \ N : \A m \in Nat \ N : n <= m
    BY <1>1, Smallest
  <2> QED  BY <2>1
<1> QED  BY <1>1

LEMMA EveryPart ==
    ASSUME NEW S, IsFiniteSet(S), NEW Good \in SUBSET (SUBSET S),
           \A T \in SUBSET S : (\A x \in T : T \ {x} \in Good) => T \in Good
    PROVE  Good = SUBSET S
<1> DEFINE N == {n \in Nat : \A T \in SUBSET S : Cardinality(T) = n => T \in Good}
<1>1. \A T \in SUBSET S : IsFiniteSet(T) /\ Cardinality(T) \in Nat
  BY FS_Subset, FS_CardinalityType
<1>2. 0 \in N
  BY <1>1, FS_EmptySet
<1>3. \A n \in N : n + 1 \in N
  BY <1>1, FS_RemoveElement
<1>4. N = Nat
  <2> HIDE DEF N
  <2> QED  BY <1>2, <1>3, EveryNumber DEF N
<1> QED  BY <1>1, <1>4

\* Places of a list.
LEMMA PartFacts ==
    ASSUME NEW n \in Nat, NEW S \in SUBSET (1 .. n)
    PROVE  /\ IsFiniteSet(S) /\ S \in SUBSET Int /\ Cardinality(S) \in Nat
           /\ Cardinality(S) <= n
<1>1. IsFiniteSet(1 .. n) /\ Cardinality(1 .. n) = n
  BY FS_Interval
<1>2. S \in SUBSET Int
  OBVIOUS
<1> QED  BY <1>1, <1>2, FS_CardinalityType, FS_Subset

-----------------------------------------------------------------------------
(* Arrays: the places of a filter or a sort *)

\* up[i] holds the places up to i, in some order of the places D.
Ordered(D, up) ==
    /\ IsFiniteSet(D) /\ up \in [D -> SUBSET D]
    /\ \A i \in D : i \in up[i]
    /\ \A i, j \in D : i \in up[j] \/ j \in up[i]
    /\ \A i, j \in D : i \in up[j] /\ j \in up[i] => i = j
    /\ \A i, j, k \in D : i \in up[j] /\ j \in up[k] => i \in up[k]

LEMMA RankFacts ==
    ASSUME NEW D, NEW up, Ordered(D, up)
    PROVE  /\ Cardinality(D) \in Nat
           /\ \A i \in D : Cardinality(up[i]) \in 1 .. Cardinality(D)
           /\ \A i, j \in D : i \in up[j] <=> Cardinality(up[i]) <= Cardinality(up[j])
           /\ \A k \in 1 .. Cardinality(D) : \E i \in D : Cardinality(up[i]) = k
<1> DEFINE n == Cardinality(D)
           c(i) == Cardinality(up[i])
<1>1. n \in Nat /\ \A i \in D : IsFiniteSet(up[i]) /\ c(i) \in Nat /\ c(i) <= n
  BY FS_Subset, FS_CardinalityType DEF Ordered
<1>2. \A i \in D : c(i) # 0
  BY <1>1, FS_EmptySet DEF Ordered
<1>3. \A i, j \in D : i \in up[j] => c(i) <= c(j)
  <2> SUFFICES ASSUME NEW i \in D, NEW j \in D, i \in up[j] PROVE c(i) <= c(j)
    OBVIOUS
  <2> QED  BY <1>1, FS_Subset DEF Ordered
<1>4. \A i, j \in D : i \in up[j] /\ i # j => c(i) # c(j)
  <2> SUFFICES ASSUME NEW i \in D, NEW j \in D, i \in up[j], i # j, c(i) = c(j) PROVE FALSE
    OBVIOUS
  <2> QED  BY <1>1, FS_Subset DEF Ordered
<1>5. \A i, j \in D : i \in up[j] <=> c(i) <= c(j)
  <2> SUFFICES ASSUME NEW i \in D, NEW j \in D, i \notin up[j] PROVE ~(c(i) <= c(j))
    BY <1>3
  <2> HIDE DEF c
  <2> QED  BY <1>1, <1>3, <1>4 DEF Ordered
<1>6. \A i, j \in D : c(i) = c(j) => i = j
  <2> SUFFICES ASSUME NEW i \in D, NEW j \in D, c(i) = c(j) PROVE i = j
    OBVIOUS
  <2> HIDE DEF c
  <2> QED  BY <1>1, <1>5 DEF Ordered
<1>7. \A k \in 1 .. n : \E i \in D : c(i) = k
  <2> DEFINE f == [i \in D |-> c(i)]
  <2> HIDE DEF n, c
  <2>1. f \in Injection(D, 1 .. n)
    BY <1>1, <1>2, <1>6 DEF Injection, IsInjective
  <2> HIDE DEF f
  <2>2. f \in Surjection(D, 1 .. n)
    BY <1>1, <2>1, FS_Injection, FS_Interval DEF n
  <2> QED  BY <2>2 DEF f, Surjection
<1> HIDE DEF c, n
<1> QED  BY <1>1, <1>2, <1>5, <1>7 DEF c, n

\* p lists the elements of D without repetition.
Lists(p, D) ==
    /\ p \in [1 .. Cardinality(D) -> D]
    /\ \A i \in D : \E k \in 1 .. Cardinality(D) : p[k] = i
    /\ \A k, l \in 1 .. Cardinality(D) : p[k] = p[l] => k = l

LEMMA ArrangedFacts ==
    ASSUME NEW D, NEW up, Ordered(D, up)
    PROVE  /\ Lists(Arranged(up), D)
           /\ \A k, l \in 1 .. Cardinality(D) :
                Arranged(up)[k] \in up[Arranged(up)[l]] <=> k <= l
<1> DEFINE n == Cardinality(D)
           c(i) == Cardinality(up[i])
           p == [k \in 1 .. n |-> CHOOSE i \in D : c(i) = k]
<1>1. Arranged(up) = p
  BY DEF Arranged, Ordered
<1>2. /\ n \in Nat /\ \A i \in D : c(i) \in 1 .. n
      /\ \A i, j \in D : i \in up[j] <=> c(i) <= c(j)
      /\ \A k \in 1 .. n : \E i \in D : c(i) = k
  BY RankFacts
<1> HIDE DEF c, n
<1>3. \A k \in 1 .. n : p[k] \in D /\ c(p[k]) = k
  BY <1>2
<1>4. \A i, j \in D : c(i) = c(j) => i = j
  <2> SUFFICES ASSUME NEW i \in D, NEW j \in D, c(i) = c(j) PROVE i = j
    OBVIOUS
  <2> QED  BY <1>2 DEF Ordered
<1> SUFFICES Lists(p, D) /\ \A k, l \in 1 .. n : p[k] \in up[p[l]] <=> k <= l
  BY <1>1 DEF n
<1>5. p \in [1 .. n -> D]
  BY <1>3
<1> HIDE DEF p
<1>6. \A i \in D : \E k \in 1 .. n : p[k] = i
  <2> SUFFICES ASSUME NEW i \in D PROVE \E k \in 1 .. n : p[k] = i
    OBVIOUS
  <2> QED  BY <1>2, <1>3, <1>4
<1>7. \A k, l \in 1 .. n : p[k] = p[l] => k = l
  BY <1>3, Zenon
<1> QED  BY <1>2, <1>3, <1>5, <1>6, <1>7 DEF Lists, n

\* The places S, in their order.
Places(S) == Arranged([i \in S |-> {j \in S : j <= i}])

LEMMA PlacesFacts ==
    ASSUME NEW S \in SUBSET Int, IsFiniteSet(S)
    PROVE  /\ Cardinality(S) \in Nat
           /\ Lists(Places(S), S)
           /\ \A k, l \in 1 .. Cardinality(S) : Places(S)[k] <= Places(S)[l] <=> k <= l
<1> DEFINE up == [i \in S |-> {j \in S : j <= i}]
           p == Arranged(up)
           n == Cardinality(S)
<1>1. Ordered(S, up)
  <2>1. up \in [S -> SUBSET S]
    OBVIOUS
  <2>2. \A i, j \in S : i \in up[j] <=> i <= j
    OBVIOUS
  <2> HIDE DEF up
  <2> QED  BY <2>1, <2>2 DEF Ordered
<1> HIDE DEF up
<1>2. n \in Nat
  BY FS_CardinalityType
<1>3. /\ Lists(p, S)
      /\ \A k, l \in 1 .. n : p[k] \in up[p[l]] <=> k <= l
  BY <1>1, ArrangedFacts
<1>4. Places(S) = p
  BY DEF Places, up
<1> HIDE DEF p
<1> QED  BY <1>2, <1>3, <1>4 DEF up, Lists

\* The elements of s at the places S.
LEMMA PickedFacts ==
    ASSUME NEW s, NEW S \in SUBSET Int, IsFiniteSet(S)
    PROVE  Picked(s, S) = [k \in 1 .. Cardinality(S) |-> s[Places(S)[k]]]
BY PlacesFacts DEF Along, Lists, Picked, Places

\* Only one list of a set of numbers is ascending.
Ascending(p, n) == \A k, l \in 1 .. n : p[k] <= p[l] <=> k <= l

LEMMA OneList ==
    ASSUME NEW S \in SUBSET Int, IsFiniteSet(S), NEW a, Lists(a, S), Ascending(a, Cardinality(S)),
           NEW b, Lists(b, S), Ascending(b, Cardinality(S))
    PROVE  a = b
<1> DEFINE n == Cardinality(S)
           Bad == {k \in 1 .. n : a[k] # b[k]}
<1>1. n \in Nat /\ a \in [1 .. n -> S] /\ b \in [1 .. n -> S]
  BY FS_CardinalityType DEF Lists
<1>2. \A k, l \in 1 .. n : (a[k] <= a[l] <=> k <= l) /\ (b[k] <= b[l] <=> k <= l)
  BY DEF Ascending
<1>3. \A i \in S : (\E k \in 1 .. n : a[k] = i) /\ \E k \in 1 .. n : b[k] = i
  BY DEF Lists
<1> HIDE DEF n
<1>4. ASSUME Bad # {} PROVE FALSE
  <2>1. Bad \in SUBSET Nat
    BY <1>1
  <2>2. PICK k \in Bad : \A m \in Bad : k <= m
    BY <1>4, <2>1, Smallest
  <2>3. k \in 1 .. n /\ a[k] # b[k] /\ \A m \in 1 .. n : m < k => a[m] = b[m]
    BY <1>1, <2>2
  <2>4. PICK l \in 1 .. n : b[l] = a[k]
    BY <1>1, <1>3, <2>3
  <2>5. PICK m \in 1 .. n : a[m] = b[k]
    BY <1>1, <1>3, <2>3
  <2>6. \A i \in 1 .. n : a[i] \in Int /\ b[i] \in Int
    BY <1>1
  <2> QED  BY <1>1, <1>2, <2>3, <2>4, <2>5, <2>6
<1> QED  BY <1>1, <1>4

\* What passes two filters, one after the other.
LEMMA PickedTwice ==
    ASSUME NEW s, NEW S \in SUBSET Int, IsFiniteSet(S), NEW T \in SUBSET S,
           NEW K \in SUBSET (1 .. Cardinality(S)),
           \A k \in 1 .. Cardinality(S) : k \in K <=> Places(S)[k] \in T
    PROVE  Picked(Picked(s, S), K) = Picked(s, T)
<1> DEFINE n == Cardinality(S)
           p == Places(S)
           m == Cardinality(K)
           q == Places(K)
           r == [k \in 1 .. m |-> p[q[k]]]
<1>1. /\ n \in Nat /\ p \in [1 .. n -> S] /\ Ascending(p, n)
      /\ \A i \in S : \E k \in 1 .. n : p[k] = i
      /\ \A k, l \in 1 .. n : p[k] = p[l] => k = l
  BY PlacesFacts DEF Lists, Ascending
<1>2. K \in SUBSET Int /\ IsFiniteSet(K) /\ IsFiniteSet(T) /\ T \in SUBSET Int
  <2>1. IsFiniteSet(1 .. n)
    BY <1>1, FS_Interval
  <2>2. IsFiniteSet(K) /\ IsFiniteSet(T)
    BY <2>1, FS_Subset
  <2> QED  BY <2>2
<1>3. /\ m \in Nat /\ q \in [1 .. m -> K] /\ Ascending(q, m)
      /\ \A i \in K : \E k \in 1 .. m : q[k] = i
      /\ \A k, l \in 1 .. m : q[k] = q[l] => k = l
  BY <1>2, PlacesFacts DEF Lists, Ascending
<1>4. Picked(s, S) = [k \in 1 .. n |-> s[p[k]]]
  BY PickedFacts
<1>5. Picked(Picked(s, S), K) = [k \in 1 .. m |-> Picked(s, S)[q[k]]]
  BY <1>2, PickedFacts
<1>6. \A k \in 1 .. n : k \in K <=> p[k] \in T
  OBVIOUS
<1> HIDE DEF n, p, m, q
<1>7. Picked(Picked(s, S), K) = [k \in 1 .. m |-> s[r[k]]]
  <2>1. \A k \in 1 .. m : Picked(s, S)[q[k]] = s[r[k]]
    BY <1>3, <1>4 DEF n
  <2> HIDE DEF r
  <2> QED  BY <1>5, <2>1
<1>8. r \in [1 .. m -> T]
  BY <1>1, <1>3, <1>6 DEF n
<1>9. \A i \in T : \E k \in 1 .. m : r[k] = i
  <2> TAKE i \in T
  <2>1. PICK l \in 1 .. n : p[l] = i
    BY <1>1
  <2>2. PICK k \in 1 .. m : q[k] = l
    BY <1>3, <1>6, <2>1
  <2> QED  BY <2>1, <2>2
<1>10. \A k, l \in 1 .. m : r[k] = r[l] => k = l
  <2>1. \A k \in 1 .. m : q[k] \in 1 .. n /\ r[k] = p[q[k]]
    BY <1>3 DEF n
  <2> HIDE DEF r
  <2> QED  BY <1>1, <1>3, <2>1
<1>11. Ascending(r, m)
  <2>1. \A k \in 1 .. m : q[k] \in 1 .. n /\ r[k] = p[q[k]]
    BY <1>3 DEF n
  <2> HIDE DEF r
  <2> QED  BY <1>1, <1>3, <2>1 DEF Ascending
<1> HIDE DEF r
<1>12. Cardinality(T) = m
  <2>1. r \in Injection(1 .. m, T) /\ r \in Surjection(1 .. m, T)
    BY <1>8, <1>9, <1>10 DEF Injection, IsInjective, Surjection
  <2> QED  BY <1>2, <1>3, <2>1, FS_Injection, FS_Interval
<1>13. Lists(r, T)
  BY <1>8, <1>9, <1>10, <1>12 DEF Lists
<1>14. r = Places(T)
  BY <1>2, <1>11, <1>12, <1>13, OneList, PlacesFacts DEF Ascending
<1> QED  BY <1>2, <1>7, <1>12, <1>14, PickedFacts

\* A stable sort by a strict weak order, given by what comes before each element.
\* An order of n elements, some of which may be equal.
Precedes(before, n) ==
    /\ before \in [1 .. n -> SUBSET (1 .. n)]
    /\ \A i, j \in 1 .. n : i \in before[j] => j \notin before[i]
    /\ \A i, j, k \in 1 .. n : i \in before[j] => i \in before[k] \/ k \in before[j]

SortsBy(t, s, before, n) ==
    t = Along(s, Arranged([i \in 1 .. n |->
          {j \in 1 .. n : j \in before[i] \/ (i \notin before[j] /\ j <= i)}]))

\* t has the elements of s at the places p, those that precede first.
InOrder(t, s, p, before, n) ==
    /\ Lists(p, 1 .. n) /\ p \in [1 .. n -> 1 .. n]
    /\ \A k, l \in 1 .. n : k < l => p[l] \notin before[p[k]]
    /\ t = [k \in 1 .. n |-> s[p[k]]]

LEMMA SortFacts ==
    ASSUME NEW s, NEW n \in Nat, DOMAIN s = 1 .. n, NEW before, Precedes(before, n),
           NEW t, SortsBy(t, s, before, n)
    PROVE  \E p : InOrder(t, s, p, before, n)
<1> DEFINE D == 1 .. n
           up == [i \in D |-> {j \in D : j \in before[i] \/ (i \notin before[j] /\ j <= i)}]
           p == Arranged(up)
<1>1. IsFiniteSet(D) /\ Cardinality(D) = n
  BY FS_Interval
<1>a. /\ before \in [1 .. n -> SUBSET (1 .. n)]
      /\ \A i, j \in 1 .. n : i \in before[j] => j \notin before[i]
      /\ \A i, j, k \in 1 .. n : i \in before[j] => i \in before[k] \/ k \in before[j]
  BY DEF Precedes
<1>2. /\ up \in [D -> SUBSET D]
      /\ \A i, j \in D : j \in up[i] <=> j \in before[i] \/ (i \notin before[j] /\ j <= i)
  OBVIOUS
<1>3. t = Along(s, p)
  BY DEF SortsBy
<1> HIDE DEF up
<1>4. Ordered(D, up)
  <2>1. \A i, j \in D : i \in up[j] \/ j \in up[i]
    BY <1>2, <1>a
  <2>2. \A i, j \in D : i \in up[j] /\ j \in up[i] => i = j
    BY <1>2, <1>a
  <2>3. ASSUME NEW i \in D, NEW j \in D, NEW k \in D, i \in up[j], j \in up[k] PROVE i \in up[k]
    <3>1. CASE i \in before[j]
      BY <1>2, <1>a, <2>3, <3>1
    <3>2. CASE j \in before[k]
      BY <1>2, <1>a, <2>3, <3>2
    <3>3. CASE i \notin before[j] /\ j \notin before[k]
      BY <1>2, <1>a, <2>3, <3>3
    <3> QED  BY <3>1, <3>2, <3>3
  <2> HIDE DEF D
  <2> QED  BY <1>a, <1>1, <1>2, <2>1, <2>2, <2>3 DEF Ordered
<1>5. /\ Lists(p, D)
      /\ \A k, l \in 1 .. n : p[k] \in up[p[l]] <=> k <= l
  BY <1>1, <1>4, ArrangedFacts
<1> HIDE DEF p
<1>6. DOMAIN p = D /\ \A k \in D : p[k] \in D
  BY <1>1, <1>5 DEF Lists
<1>7. \A k, l \in D : k < l => p[l] \notin before[p[k]]
  <2> SUFFICES ASSUME NEW k \in D, NEW l \in D, k < l PROVE p[l] \notin before[p[k]]
    OBVIOUS
  <2>1. p[l] \notin up[p[k]]
    BY <1>5
  <2> QED  BY <1>2, <1>6, <2>1
<1> QED  BY <1>1, <1>3, <1>5, <1>6, <1>7 DEF InOrder, Lists, Along

-----------------------------------------------------------------------------
(* Sums *)

\* g gives the sum of f over each part of S.
Sums(g, f, S) ==
    g = [T \in SUBSET S |->
           IF T = {} THEN 0
           ELSE f[CHOOSE x \in T : TRUE] + g[T \ {CHOOSE x \in T : TRUE}]]

LEMMA SumsExist ==
    ASSUME NEW f, NEW S, IsFiniteSet(S)
    PROVE  \E g : Sums(g, f, S)
<1> DEFINE c(T) == CHOOSE x \in T : TRUE
           Up(n) == {T \in SUBSET S : Cardinality(T) <= n}
           Is(g, n) == g = [T \in Up(n) |-> IF T = {} THEN 0 ELSE f[c(T)] + g[T \ {c(T)}]]
           N == {n \in Nat : \E g : Is(g, n)}
<1>1. \A T \in SUBSET S : IsFiniteSet(T) /\ Cardinality(T) \in Nat
  BY FS_Subset, FS_CardinalityType
<1>2. \A T \in SUBSET S : T # {} => /\ c(T) \in T /\ T \ {c(T)} \in SUBSET S
                                    /\ Cardinality(T \ {c(T)}) = Cardinality(T) - 1
  BY <1>1, FS_RemoveElement
<1> HIDE DEF c
<1>3. 0 \in N
  <2> DEFINE g == [T \in {{}} |-> 0]
  <2>1. Up(0) = {{}}
    BY <1>1, FS_EmptySet
  <2>2. \E h : Is(h, 0)
    BY <2>1
  <2> HIDE DEF Is
  <2> QED  BY <2>2
<1>4. \A n \in N : n + 1 \in N
  <2> SUFFICES ASSUME NEW n \in Nat, \E g : Is(g, n) PROVE \E h : Is(h, n + 1)
    <3> HIDE DEF Is
    <3> QED  OBVIOUS
  <2>1. PICK g : Is(g, n)
    OBVIOUS
  <2> DEFINE h == [T \in Up(n + 1) |-> IF T = {} THEN 0 ELSE f[c(T)] + g[T \ {c(T)}]]
  <2>2. \A T \in Up(n) : T \in Up(n + 1) /\ g[T] = IF T = {} THEN 0 ELSE f[c(T)] + g[T \ {c(T)}]
    <3>1. \A T \in Up(n) : T \in Up(n + 1)
      BY <1>1, SMT
    <3> HIDE DEF Up
    <3>2. \A T \in Up(n) : g[T] = IF T = {} THEN 0 ELSE f[c(T)] + g[T \ {c(T)}]
      BY <2>1, Zenon
    <3> QED  BY <3>1, <3>2
  <2>3. \A T \in Up(n) : h[T] = g[T]
    BY <2>2
  <2>4. \A T \in Up(n + 1) : T # {} => T \ {c(T)} \in Up(n)
    BY <1>1, <1>2
  <2>5. h = [T \in Up(n + 1) |-> IF T = {} THEN 0 ELSE f[c(T)] + h[T \ {c(T)}]]
    <3>1. \A T \in Up(n + 1) : (IF T = {} THEN 0 ELSE f[c(T)] + g[T \ {c(T)}])
                                 = IF T = {} THEN 0 ELSE f[c(T)] + h[T \ {c(T)}]
      <4> HIDE DEF h, Up
      <4> QED  BY <2>3, <2>4
    <3>2. \A T \in Up(n + 1) : h[T] = IF T = {} THEN 0 ELSE f[c(T)] + g[T \ {c(T)}]
      OBVIOUS
    <3>3. h = [T \in Up(n + 1) |-> h[T]]
      OBVIOUS
    <3> HIDE DEF h, Up
    <3> QED  BY <3>1, <3>2, <3>3
  <2> QED  BY <2>5
<1>5. N = Nat
  <2>1. N \in SUBSET Nat
    OBVIOUS
  <2> HIDE DEF N
  <2> QED  BY <1>3, <1>4, <2>1, EveryNumber
<1>6. PICK g : Is(g, Cardinality(S))
  BY <1>1, <1>5
<1>7. Sums(g, f, S)
  BY <1>6, FS_Subset DEF Sums, c
<1> QED  BY <1>7

LEMMA SumsAgree ==
    ASSUME NEW f, NEW S, IsFiniteSet(S), NEW g, Sums(g, f, S),
           NEW R \in SUBSET S, NEW h, Sums(h, f, R)
    PROVE  \A T \in SUBSET R : g[T] = h[T]
<1> DEFINE c(T) == CHOOSE x \in T : TRUE
           Good == {T \in SUBSET R : g[T] = h[T]}
<1>1. \A T \in SUBSET R : T # {} => c(T) \in T
  OBVIOUS
<1>2. \A T \in SUBSET S : g[T] = IF T = {} THEN 0 ELSE f[c(T)] + g[T \ {c(T)}]
  BY DEF Sums
<1>3. \A T \in SUBSET R : h[T] = IF T = {} THEN 0 ELSE f[c(T)] + h[T \ {c(T)}]
  BY DEF Sums
<1> HIDE DEF c
<1>4. \A T \in SUBSET R : (\A x \in T : T \ {x} \in Good) => T \in Good
  <2> SUFFICES ASSUME NEW T \in SUBSET R, \A x \in T : T \ {x} \in Good PROVE g[T] = h[T]
    OBVIOUS
  <2>1. T \in SUBSET S
    OBVIOUS
  <2>2. T # {} => g[T \ {c(T)}] = h[T \ {c(T)}]
    BY <1>1
  <2> QED  BY <1>2, <1>3, <2>1, <2>2
<1>5. IsFiniteSet(R) /\ Good \in SUBSET (SUBSET R)
  BY FS_Subset
<1> HIDE DEF Good
<1>6. Good = SUBSET R
  BY <1>4, <1>5, EveryPart
<1> QED  BY <1>6 DEF Good

\* The sum of f over S, as the fold of the community modules computes it.
LEMMA SumUnfold ==
    ASSUME NEW f, NEW S, IsFiniteSet(S)
    PROVE  \E g : Sums(g, f, S) /\ SumFunctionOnSet(f, S) = g[S]
<1> DEFINE h == CHOOSE g : g = [T \in SUBSET S |->
           IF T = {} THEN 0
           ELSE f[CHOOSE x \in T : TRUE] + g[T \ {CHOOSE x \in T : TRUE}]]
<1>1. \E g : g = [T \in SUBSET S |->
           IF T = {} THEN 0
           ELSE f[CHOOSE x \in T : TRUE] + g[T \ {CHOOSE x \in T : TRUE}]]
  <2>1. PICK g : Sums(g, f, S)
    BY SumsExist
  <2> QED  BY <2>1, Zenon DEF Sums
<1>2. h = [T \in SUBSET S |->
           IF T = {} THEN 0
           ELSE f[CHOOSE x \in T : TRUE] + h[T \ {CHOOSE x \in T : TRUE}]]
  BY <1>1, Zenon
<1>3. SumFunctionOnSet(f, S) = h[S]
  BY Zenon DEF SumFunctionOnSet, FoldFunctionOnSet, MapThenFoldSet
<1> QED  BY <1>2, <1>3 DEF Sums

LEMMA SumStep ==
    ASSUME NEW f, NEW S, IsFiniteSet(S)
    PROVE  SumFunctionOnSet(f, S) =
             IF S = {} THEN 0
             ELSE f[CHOOSE x \in S : TRUE] + SumFunctionOnSet(f, S \ {CHOOSE x \in S : TRUE})
<1> DEFINE c == CHOOSE x \in S : TRUE
<1>1. PICK g : Sums(g, f, S) /\ SumFunctionOnSet(f, S) = g[S]
  BY SumUnfold
<1> HIDE DEF c
<1>2. IsFiniteSet(S \ {c}) /\ S \ {c} \in SUBSET S
  BY FS_Subset
<1>3. PICK h : Sums(h, f, S \ {c}) /\ SumFunctionOnSet(f, S \ {c}) = h[S \ {c}]
  BY <1>2, SumUnfold
<1> QED  BY <1>1, <1>2, <1>3, SumsAgree DEF c, Sums

LEMMA SumType ==
    ASSUME NEW D, NEW f \in [D -> Int], NEW S \in SUBSET D, IsFiniteSet(S)
    PROVE  SumFunctionOnSet(f, S) \in Int
<1> DEFINE c(T) == CHOOSE x \in T : TRUE
           sum(T) == SumFunctionOnSet(f, T)
           Good == {T \in SUBSET S : sum(T) \in Int}
<1>1. \A T \in SUBSET S : T # {} => c(T) \in T
  OBVIOUS
<1>2. \A T \in SUBSET S : sum(T) = IF T = {} THEN 0 ELSE f[c(T)] + sum(T \ {c(T)})
  <2> TAKE T \in SUBSET S
  <2> QED  BY SumStep, FS_Subset
<1> HIDE DEF c, sum
<1>3. \A T \in SUBSET S : (\A x \in T : T \ {x} \in Good) => T \in Good
  <2> SUFFICES ASSUME NEW T \in SUBSET S, \A x \in T : T \ {x} \in Good PROVE sum(T) \in Int
    OBVIOUS
  <2>1. sum(T) = IF T = {} THEN 0 ELSE f[c(T)] + sum(T \ {c(T)})
    BY <1>2
  <2> QED  BY <1>1, <2>1
<1>4. Good \in SUBSET (SUBSET S)
  OBVIOUS
<1> HIDE DEF Good
<1>5. Good = SUBSET S
  BY <1>3, <1>4, EveryPart
<1> QED  BY <1>5 DEF Good, sum

LEMMA SumEmpty ==
    ASSUME NEW f
    PROVE  SumFunctionOnSet(f, {}) = 0
BY SumStep, FS_EmptySet

LEMMA SumRemove ==
    ASSUME NEW D, NEW f \in [D -> Int], NEW S \in SUBSET D, IsFiniteSet(S), NEW e \in S
    PROVE  SumFunctionOnSet(f, S) = f[e] + SumFunctionOnSet(f, S \ {e})
<1> DEFINE c(T) == CHOOSE x \in T : TRUE
           sum(T) == SumFunctionOnSet(f, T)
           Good == {T \in SUBSET S : \A x \in T : sum(T) = f[x] + sum(T \ {x})}
<1>1. \A T \in SUBSET S : T # {} => c(T) \in T
  OBVIOUS
<1>2. \A T \in SUBSET S : /\ sum(T) \in Int
                          /\ T # {} => sum(T) = f[c(T)] + sum(T \ {c(T)})
  <2> TAKE T \in SUBSET S
  <2> QED  BY SumStep, SumType, FS_Subset
<1> HIDE DEF c, sum
<1>3. \A T \in SUBSET S : (\A x \in T : T \ {x} \in Good) => T \in Good
  <2> SUFFICES ASSUME NEW T \in SUBSET S, \A x \in T : T \ {x} \in Good, NEW y \in T
               PROVE  sum(T) = f[y] + sum(T \ {y})
    OBVIOUS
  <2>1. sum(T) = f[c(T)] + sum(T \ {c(T)}) /\ c(T) \in T
    BY <1>1, <1>2
  <2>2. CASE y = c(T)
    BY <2>1, <2>2
  <2>3. CASE y # c(T)
    <3>1. (T \ {c(T)}) \ {y} = (T \ {y}) \ {c(T)}
      OBVIOUS
    <3>2. f[y] \in Int /\ f[c(T)] \in Int /\ sum((T \ {y}) \ {c(T)}) \in Int
      BY <1>2, <2>1
    <3> QED  BY <2>1, <2>3, <3>1, <3>2
  <2> QED  BY <2>2, <2>3
<1>4. Good \in SUBSET (SUBSET S)
  OBVIOUS
<1> HIDE DEF Good
<1>5. Good = SUBSET S
  BY <1>3, <1>4, EveryPart
<1> QED  BY <1>5 DEF Good, sum

LEMMA SumParts ==
    ASSUME NEW D, NEW f \in [D -> Int], NEW S \in SUBSET D, IsFiniteSet(S)
    PROVE  \A T \in SUBSET S :
             /\ IsFiniteSet(T) /\ SumFunctionOnSet(f, T) \in Int
             /\ \A x \in T : SumFunctionOnSet(f, T) = f[x] + SumFunctionOnSet(f, T \ {x})
<1> TAKE T \in SUBSET S
<1>1. IsFiniteSet(T) /\ T \in SUBSET D
  BY FS_Subset
<1>2. ASSUME NEW x \in T
      PROVE  SumFunctionOnSet(f, T) = f[x] + SumFunctionOnSet(f, T \ {x})
  BY <1>1, SumRemove
<1> QED  BY <1>1, <1>2, SumType

LEMMA SumUnion ==
    ASSUME NEW D, NEW f \in [D -> Int], NEW A \in SUBSET D, NEW B \in SUBSET D,
           IsFiniteSet(A), IsFiniteSet(B), A \cap B = {}
    PROVE  SumFunctionOnSet(f, A \cup B) = SumFunctionOnSet(f, A) + SumFunctionOnSet(f, B)
<1> DEFINE sum(T) == SumFunctionOnSet(f, T)
           Good == {T \in SUBSET A : sum(T \cup B) = sum(T) + sum(B)}
<1>1. \A T \in SUBSET A : IsFiniteSet(T) /\ IsFiniteSet(T \cup B) /\ T \cup B \in SUBSET D
  <2> TAKE T \in SUBSET A
  <2> QED  BY FS_Union, FS_Subset
<1>2. \A T \in SUBSET A : sum(T) \in Int /\ \A x \in T : sum(T) = f[x] + sum(T \ {x})
  BY SumParts
<1>3. \A T \in SUBSET A : \A x \in T : sum(T \cup B) = f[x] + sum((T \ {x}) \cup B)
  <2> SUFFICES ASSUME NEW T \in SUBSET A, NEW x \in T
               PROVE  sum(T \cup B) = f[x] + sum((T \ {x}) \cup B)
    OBVIOUS
  <2>1. PICK U : U = T \cup B
    OBVIOUS
  <2>2. IsFiniteSet(U) /\ U \in SUBSET D /\ x \in U
    BY <1>1, <2>1
  <2> QED  BY <2>1, <2>2, SumRemove
<1>4. sum({}) = 0 /\ sum(B) \in Int
  BY SumEmpty, SumType
<1> HIDE DEF sum
<1>5. \A T \in SUBSET A : (\A x \in T : T \ {x} \in Good) => T \in Good
  <2> SUFFICES ASSUME NEW T \in SUBSET A, \A x \in T : T \ {x} \in Good
               PROVE  sum(T \cup B) = sum(T) + sum(B)
    OBVIOUS
  <2>1. CASE T = {}
    BY <1>4, <2>1
  <2>2. CASE T # {}
    <3>1. PICK x \in T : TRUE
      BY <2>2
    <3>2. /\ sum((T \ {x}) \cup B) = sum(T \ {x}) + sum(B)
          /\ sum(T \ {x}) \in Int /\ f[x] \in Int
      BY <1>2
    <3>3. sum(T) = f[x] + sum(T \ {x}) /\ sum(T \cup B) = f[x] + sum((T \ {x}) \cup B)
      BY <1>2, <1>3
    <3> QED  BY <1>4, <3>2, <3>3
  <2> QED  BY <2>1, <2>2
<1>6. Good \in SUBSET (SUBSET A)
  OBVIOUS
<1> HIDE DEF Good
<1>7. Good = SUBSET A
  BY <1>5, <1>6, EveryPart
<1> QED  BY <1>7 DEF Good, sum

\* A sum of smaller terms is smaller; of equal terms, equal.
LEMMA SumBelow ==
    ASSUME NEW D, NEW f \in [D -> Int], NEW E, NEW g \in [E -> Int],
           NEW S \in SUBSET (D \cap E), IsFiniteSet(S), \A x \in S : f[x] <= g[x]
    PROVE  SumFunctionOnSet(f, S) <= SumFunctionOnSet(g, S)
<1> DEFINE sum(T) == SumFunctionOnSet(f, T)
           sam(T) == SumFunctionOnSet(g, T)
           Good == {T \in SUBSET S : sum(T) <= sam(T)}
<1>1. S \in SUBSET D /\ S \in SUBSET E
  OBVIOUS
<1>2. \A T \in SUBSET S : sum(T) \in Int /\ \A x \in T : sum(T) = f[x] + sum(T \ {x})
  BY <1>1, SumParts
<1>3. \A T \in SUBSET S : sam(T) \in Int /\ \A x \in T : sam(T) = g[x] + sam(T \ {x})
  BY <1>1, SumParts
<1>4. sum({}) = 0 /\ sam({}) = 0
  BY SumEmpty
<1> HIDE DEF sum, sam
<1>5. \A T \in SUBSET S : (\A x \in T : T \ {x} \in Good) => T \in Good
  <2> SUFFICES ASSUME NEW T \in SUBSET S, \A x \in T : T \ {x} \in Good
               PROVE  sum(T) <= sam(T)
    OBVIOUS
  <2>1. CASE T = {}
    BY <1>4, <2>1
  <2>2. CASE T # {}
    <3>1. PICK x \in T : TRUE
      BY <2>2
    <3>2. sum(T) = f[x] + sum(T \ {x}) /\ sam(T) = g[x] + sam(T \ {x})
      BY <1>2, <1>3
    <3> QED  BY <1>2, <1>3, <3>2
  <2> QED  BY <2>1, <2>2
<1>6. Good \in SUBSET (SUBSET S)
  OBVIOUS
<1> HIDE DEF Good
<1>7. Good = SUBSET S
  BY <1>5, <1>6, EveryPart
<1> QED  BY <1>7 DEF Good, sum, sam

LEMMA SumSame ==
    ASSUME NEW D, NEW f \in [D -> Int], NEW E, NEW g \in [E -> Int],
           NEW S \in SUBSET (D \cap E), IsFiniteSet(S), \A x \in S : f[x] = g[x]
    PROVE  SumFunctionOnSet(f, S) = SumFunctionOnSet(g, S)
BY SumBelow, SumType

LEMMA SumNatural ==
    ASSUME NEW D, NEW f \in [D -> Int], NEW S \in SUBSET D, IsFiniteSet(S),
           \A x \in S : f[x] >= 0
    PROVE  SumFunctionOnSet(f, S) \in Nat
<1> DEFINE sum(T) == SumFunctionOnSet(f, T)
           Good == {T \in SUBSET S : sum(T) \in Nat}
<1>1. \A T \in SUBSET S : /\ IsFiniteSet(T) /\ sum(T) \in Int
                          /\ \A x \in T : sum(T) = f[x] + sum(T \ {x})
  BY SumParts
<1>2. \A T \in SUBSET S : \A x \in T : sum(T) = f[x] + sum(T \ {x})
  BY <1>1, Zenon
<1>3. sum({}) = 0
  BY SumEmpty
<1> HIDE DEF sum
<1>4. \A T \in SUBSET S : (\A x \in T : T \ {x} \in Good) => T \in Good
  <2> SUFFICES ASSUME NEW T \in SUBSET S, \A x \in T : T \ {x} \in Good
               PROVE  sum(T) \in Nat
    OBVIOUS
  <2>1. CASE T = {}
    BY <1>3, <2>1
  <2>2. CASE T # {}
    <3>1. PICK x \in T : TRUE
      BY <2>2
    <3>2. sum(T) = f[x] + sum(T \ {x})
      BY <1>2
    <3> QED  BY <3>2
  <2> QED  BY <2>1, <2>2
<1>5. Good \in SUBSET (SUBSET S)
  OBVIOUS
<1> HIDE DEF Good
<1>6. Good = SUBSET S
  BY <1>4, <1>5, EveryPart
<1> QED  BY <1>6 DEF Good, sum

\* What is counted more makes a sum no smaller.
LEMMA SumGrows ==
    ASSUME NEW D, NEW f \in [D -> Int], NEW S \in SUBSET D, IsFiniteSet(S),
           NEW R \in SUBSET S, \A x \in S \ R : f[x] >= 0
    PROVE  SumFunctionOnSet(f, R) <= SumFunctionOnSet(f, S)
<1>1. /\ IsFiniteSet(R) /\ IsFiniteSet(S \ R) /\ R \cap (S \ R) = {}
      /\ R \in SUBSET D /\ S \ R \in SUBSET D
  BY FS_Subset
<1>2. R \cup (S \ R) = S
  OBVIOUS
<1> QED  BY <1>1, <1>2, SumNatural, SumType, SumUnion

Through(f, p, P) == [k \in P |-> f[p[k]]]
\* p has each element of S once.
Orders(p, P, S) ==
    /\ IsFiniteSet(P) /\ p \in [P -> S]
    /\ \A i \in S : \E k \in P : p[k] = i
    /\ \A k, l \in P : p[k] = p[l] => k = l

\* The order of the terms does not matter.
LEMMA SumListed ==
    ASSUME NEW D, NEW f \in [D -> Int], NEW S \in SUBSET D, IsFiniteSet(S),
           NEW P, NEW p, Orders(p, P, S)
    PROVE  SumFunctionOnSet(Through(f, p, P), P) = SumFunctionOnSet(f, S)
<1> DEFINE g == Through(f, p, P)
           im(K) == {p[k] : k \in K}
           Good == {K \in SUBSET P : SumFunctionOnSet(g, K) = SumFunctionOnSet(f, im(K))}
<1>1. g \in [P -> Int]
  BY DEF Through, Orders
<1>2. \A K \in SUBSET P : IsFiniteSet(K) /\ im(K) \in SUBSET S /\ IsFiniteSet(im(K))
  <2> TAKE K \in SUBSET P
  <2> QED  BY FS_Subset DEF Orders
<1>3. \A K \in SUBSET P : \A k \in K : /\ p[k] \in im(K) /\ im(K) \ {p[k]} = im(K \ {k})
                                       /\ g[k] = f[p[k]]
  BY DEF Through, Orders
<1>4. im({}) = {} /\ im(P) = S
  BY DEF Orders
<1> HIDE DEF g, im
<1>5. \A K \in SUBSET P : (\A x \in K : K \ {x} \in Good) => K \in Good
  <2> SUFFICES ASSUME NEW K \in SUBSET P, \A x \in K : K \ {x} \in Good
               PROVE  SumFunctionOnSet(g, K) = SumFunctionOnSet(f, im(K))
    OBVIOUS
  <2>1. CASE K = {}
    BY <1>4, <2>1, SumEmpty
  <2>2. CASE K # {}
    <3>1. PICK x \in K : TRUE
      BY <2>2
    <3>2. PICK I : I = im(K)
      OBVIOUS
    <3>3. /\ I \in SUBSET S /\ IsFiniteSet(I) /\ p[x] \in I
          /\ I \ {p[x]} = im(K \ {x}) /\ g[x] = f[p[x]] /\ IsFiniteSet(K)
      BY <1>2, <1>3, <3>2
    <3>4. SumFunctionOnSet(g, K) = g[x] + SumFunctionOnSet(g, K \ {x})
      BY <1>1, <3>3, SumRemove
    <3>5. SumFunctionOnSet(f, I) = f[p[x]] + SumFunctionOnSet(f, I \ {p[x]})
      BY <3>3, SumRemove
    <3>6. SumFunctionOnSet(g, K \ {x}) = SumFunctionOnSet(f, im(K \ {x}))
      OBVIOUS
    <3> QED  BY <3>2, <3>3, <3>4, <3>5, <3>6
  <2> QED  BY <2>1, <2>2
<1>6. Good \in SUBSET (SUBSET P)
  OBVIOUS
<1> HIDE DEF Good
<1>7. Good = SUBSET P
  BY <1>5, <1>6, EveryPart DEF Orders
<1> QED  BY <1>4, <1>7 DEF g, Good

Amounts(f, D) == f \in [D -> Int]
Part(S, D) == S \in SUBSET D /\ IsFiniteSet(S)

TermsOf(h, f, p, P) == h = [k \in P |-> f[p[k]]]

LEMMA SumInOrder ==
    ASSUME NEW D, NEW f, Amounts(f, D), NEW S, Part(S, D), NEW P, NEW p, Orders(p, P, S),
           NEW h, TermsOf(h, f, p, P)
    PROVE  SumFunctionOnSet(h, P) = SumFunctionOnSet(f, S)
BY SumListed DEF TermsOf, Through, Amounts, Part

\* The terms at the places S of f.
LEMMA SumPicked ==
    ASSUME NEW D, NEW f \in [D -> Int], NEW S \in SUBSET D, S \subseteq Int, IsFiniteSet(S)
    PROVE  SumFunction(Picked(f, S)) = SumFunctionOnSet(f, S)
<1>1. Cardinality(S) \in Nat
  BY FS_CardinalityType
<1>2. PICK P : P = 1 .. Cardinality(S)
  OBVIOUS
<1>3. PICK p, h : Lists(p, S) /\ h = Picked(f, S) /\ TermsOf(h, f, p, P)
  BY <1>2, PlacesFacts, PickedFacts DEF TermsOf
<1>4. Amounts(f, D) /\ Part(S, D)
  BY DEF Amounts, Part
<1>5. Orders(p, P, S)
  BY <1>1, <1>2, <1>3, FS_Interval DEF Lists, Orders
<1>6. SumFunctionOnSet(h, P) = SumFunctionOnSet(f, S)
  BY ONLY <1>3, <1>4, <1>5, SumInOrder
<1>7. DOMAIN h = P
  BY <1>3 DEF TermsOf
<1> QED  BY <1>3, <1>6, <1>7 DEF SumFunction

-----------------------------------------------------------------------------
(* The rules have the operators of Arrays under their own names *)

LEMMA CostCount == \A S : Cost!Cardinality(S) = Cardinality(S)
BY DEF Cost!Cardinality, Cardinality

LEMMA CostPicked == \A s, S : Cost!Picked(s, S) = Picked(s, S)
BY Zenon DEF Cost!Picked, Picked, Cost!Along, Along, Cost!Arranged, Arranged,
   Cost!Cardinality, Cardinality

LEMMA CostAlong ==
    ASSUME NEW s, NEW up
    PROVE  Cost!Along(s, Cost!Arranged(up)) = Along(s, Arranged(up))
BY Zenon DEF Cost!Along, Along, Cost!Arranged, Arranged, Cost!Cardinality, Cardinality

LEMMA CostSum == \A f : Cost!SumFunction(f) = SumFunction(f)
BY Zenon DEF Cost!SumFunction, Cost!SumFunctionOnSet, Cost!FoldFunctionOnSet, Cost!MapThenFoldSet,
   SumFunction, SumFunctionOnSet, FoldFunctionOnSet, MapThenFoldSet

LEMMA PricesPicked ==
    ASSUME NEW n \in Nat, NEW items, DOMAIN items = 1 .. n, NEW S \in SUBSET (1 .. n)
    PROVE  Cost!Prices(Picked(items, S)) = Picked(Cost!Prices(items), S)
<1>1. S \in SUBSET Int /\ IsFiniteSet(S)
  BY PartFacts
<1> DEFINE m == Cardinality(S)
           p == Places(S)
<1>2. p \in [1 .. m -> S]
  BY <1>1, PlacesFacts DEF Lists
<1>3. Picked(items, S) = [k \in 1 .. m |-> items[p[k]]]
  BY <1>1, PickedFacts
<1>4. Picked(Cost!Prices(items), S) = [k \in 1 .. m |-> Cost!Prices(items)[p[k]]]
  BY <1>1, PickedFacts
<1> HIDE DEF m, p
<1>5. Cost!Prices([k \in 1 .. m |-> items[p[k]]]) = [k \in 1 .. m |-> items[p[k]].price]
  BY DEF Cost!Prices
<1> QED  BY <1>2, <1>3, <1>4, <1>5 DEF Cost!Prices

LEMMA PaidOnce ==
    ASSUME NEW n \in Nat, NEW items, DOMAIN items = 1 .. n, NEW p \in [1 .. n -> Int],
           p = Cost!Prices(items), NEW S \in SUBSET (1 .. n)
    PROVE  SumFunction(Cost!Prices(Picked(items, S))) = SumFunctionOnSet(p, S)
BY SumPicked, PricesPicked, PartFacts

LEMMA SumInt ==
    ASSUME NEW D, NEW f, Amounts(f, D), NEW S, Part(S, D)
    PROVE  SumFunctionOnSet(f, S) \in Int
BY SumType DEF Amounts, Part

LEMMA SumOfUnion ==
    ASSUME NEW D, NEW f, Amounts(f, D), NEW A, NEW B, Part(A, D), Part(B, D), A \cap B = {}
    PROVE  SumFunctionOnSet(f, A \cup B) = SumFunctionOnSet(f, A) + SumFunctionOnSet(f, B)
BY SumUnion DEF Amounts, Part

LEMMA SumOfSame ==
    ASSUME NEW D, NEW f, Amounts(f, D), NEW E, NEW g, Amounts(g, E),
           NEW S, Part(S, D), Part(S, E), \A x \in S : f[x] = g[x]
    PROVE  SumFunctionOnSet(f, S) = SumFunctionOnSet(g, S)
BY SumSame DEF Amounts, Part

LEMMA SumOfMore ==
    ASSUME NEW D, NEW f, Amounts(f, D), NEW S, Part(S, D), NEW R, R \subseteq S,
           \A x \in S \ R : f[x] >= 0
    PROVE  SumFunctionOnSet(f, R) <= SumFunctionOnSet(f, S)
BY SumGrows DEF Amounts, Part

LEMMA PartOf ==
    ASSUME NEW n \in Nat, NEW S, S \subseteq 1 .. n
    PROVE  Part(S, 1 .. n)
BY PartFacts DEF Part

\* K is where the elements of the places T have come among those of the places S.
Left(K, S, T) == K = {k \in 1 .. Cardinality(S) : Places(S)[k] \in T}

\* What is paid for the items at the places T, which two filters have left.
LEMMA PaidTwice ==
    ASSUME NEW n \in Nat, NEW items, DOMAIN items = 1 .. n, NEW p \in [1 .. n -> Int],
           p = Cost!Prices(items), NEW S \in SUBSET (1 .. n), NEW T \in SUBSET S,
           NEW K, Left(K, S, T)
    PROVE  SumFunction(Cost!Prices(Picked(Picked(items, S), K))) = SumFunctionOnSet(p, T)
BY PaidOnce, PickedTwice, PartFacts DEF Left

CostItem == [price : Int, date : {None} \cup Int]

\* The items with a price, those of the last year and those of the year before.
PricedItems(S, R, Q, items, n, now, year) ==
    /\ S = {i \in 1 .. n : items[i].price > 0}
    /\ R = {i \in S : Cost!InRecentYear(items[i], now, year)}
    /\ Q = {i \in S : Cost!InPriorYear(items[i], now, year)}

CostsOf(v, p, S, R, Q) ==
    /\ v.total = SumFunctionOnSet(p, S)
    /\ v.recent = SumFunctionOnSet(p, R)
    /\ v.prior = SumFunctionOnSet(p, Q)
    /\ v.recommendation = Cost!Recommendation(
         IF v.prior > 0 THEN Cost!DeltaPct(v.recent, 2 * v.prior) ELSE None)

LEMMA TcoFacts ==
    ASSUME NEW n \in Nat, NEW items \in [1 .. n -> CostItem], NEW now \in Int, NEW year \in Int,
           NEW S, NEW R, NEW Q, PricedItems(S, R, Q, items, n, now, year)
    PROVE  CostsOf(Cost!VehicleTco(items, now, year), Cost!Prices(items), S, R, Q)
<1>1. /\ S = {i \in 1 .. n : items[i].price > 0}
      /\ R = {i \in S : Cost!InRecentYear(items[i], now, year)}
      /\ Q = {i \in S : Cost!InPriorYear(items[i], now, year)}
  BY DEF PricedItems
<1>a. PICK v : v = Cost!VehicleTco(items, now, year)
  OBVIOUS
<1>b. PICK p : p = Cost!Prices(items)
  OBVIOUS
<1> DEFINE priced == Picked(items, S)
           KR == {k \in DOMAIN priced : Cost!InRecentYear(priced[k], now, year)}
           KQ == {k \in DOMAIN priced : Cost!InPriorYear(priced[k], now, year)}
<1>2. /\ DOMAIN items = 1 .. n
      /\ p \in [1 .. n -> Int]
  BY <1>b DEF CostItem, Cost!Prices
<1>3. S \in SUBSET (1 .. n) /\ S \in SUBSET Int /\ IsFiniteSet(S)
  BY <1>1, PartFacts
<1>4. priced = [k \in 1 .. Cardinality(S) |-> items[Places(S)[k]]]
      /\ \A k \in 1 .. Cardinality(S) : Places(S)[k] \in S
  BY <1>3, PickedFacts, PlacesFacts DEF Lists
<1>5. Cost!Where(items, LAMBDA it : it.price > 0) = priced
  BY <1>1, <1>2, CostPicked DEF Cost!Where
<1> HIDE DEF priced
<1>6. Left(KR, S, R)
  BY <1>1, <1>4 DEF Left
<1>7. Left(KQ, S, Q)
  BY <1>1, <1>4 DEF Left
<1>8. /\ Cost!Where(priced, LAMBDA it : Cost!InRecentYear(it, now, year)) = Picked(priced, KR)
      /\ Cost!Where(priced, LAMBDA it : Cost!InPriorYear(it, now, year)) = Picked(priced, KQ)
  BY CostPicked DEF Cost!Where
<1>9. R \in SUBSET S /\ Q \in SUBSET S
  BY <1>1
<1> HIDE DEF KR, KQ
<1>10. SumFunction(Cost!Prices(priced)) = SumFunctionOnSet(p, S)
  BY <1>b, <1>2, <1>3, PaidOnce DEF priced
<1>11. SumFunction(Cost!Prices(Picked(priced, KR))) = SumFunctionOnSet(p, R)
  BY <1>b, <1>2, <1>3, <1>6, <1>9, PaidTwice DEF priced
<1>12. SumFunction(Cost!Prices(Picked(priced, KQ))) = SumFunctionOnSet(p, Q)
  BY <1>b, <1>2, <1>3, <1>7, <1>9, PaidTwice DEF priced
<1> QED  BY <1>a, <1>b, <1>5, <1>8, <1>10, <1>11, <1>12, CostSum DEF CostsOf,
            Cost!VehicleTco, Cost!Total

LEMMA Quotient ==
    ASSUME NEW a \in Int, NEW b \in Int, NEW d \in Int, d > 0, a <= b
    PROVE  a \div d <= b \div d
<1>1. PICK q \in Int : q = a \div d
  OBVIOUS
<1>2. PICK r \in Int : r = b \div d
  OBVIOUS
<1>3. ASSUME q >= r + 1 PROVE FALSE
  <2>1. d * q >= d * (r + 1)
    BY <1>3
  <2> QED  BY <1>1, <1>2, <2>1
<1> QED  BY <1>1, <1>2, <1>3

LEMMA DeltaGrows ==
    ASSUME NEW a \in Int, NEW b \in Int, NEW base \in Int, base > 0, a <= b
    PROVE  /\ Cost!DeltaPct(a, base) \in Int /\ Cost!DeltaPct(b, base) \in Int
           /\ Cost!DeltaPct(a, base) <= Cost!DeltaPct(b, base)
<1>1. PICK x \in Int : x = 400 * a + base
  OBVIOUS
<1>2. PICK y \in Int : y = 400 * b + base
  OBVIOUS
<1>3. PICK d \in Int : d = 2 * base /\ d > 0
  OBVIOUS
<1> QED  BY <1>1, <1>2, <1>3, Quotient DEF Cost!DeltaPct

LEMMA MilderNever ==
    ASSUME NEW a \in Int, NEW b \in Int, a <= b, NEW prior \in Int,
           NEW s, s = Cost!Recommendation(IF prior > 0 THEN Cost!DeltaPct(a, 2 * prior) ELSE None),
           NEW t, t = Cost!Recommendation(IF prior > 0 THEN Cost!DeltaPct(b, 2 * prior) ELSE None)
    PROVE  /\ s \in DOMAIN Cost!TcoRank /\ t \in DOMAIN Cost!TcoRank
           /\ Cost!TcoRank[t] <= Cost!TcoRank[s]
<1>1. CASE prior > 0
  <2>1. PICK x : x = Cost!DeltaPct(a, 2 * prior)
    OBVIOUS
  <2>2. PICK y : y = Cost!DeltaPct(b, 2 * prior)
    OBVIOUS
  <2>3. x \in Int /\ y \in Int /\ x <= y
    BY <1>1, <2>1, <2>2, DeltaGrows
  <2> QED  BY <1>1, <2>1, <2>2, <2>3, RulesAssumption DEF Cost!Recommendation, Cost!TcoRank,
              Cost!TcoWatchPct, Cost!TcoReplacePct
<1>2. CASE ~(prior > 0)
  BY <1>2 DEF Cost!Recommendation, Cost!TcoRank
<1> QED  BY <1>1, <1>2

LEMMA TcoAddsUp ==
    ASSUME NEW n \in Nat, NEW items \in [1 .. n -> CostItem], NEW now \in Int, NEW year \in Nat,
           NEW v, v = Cost!VehicleTco(items, now, year)
    PROVE  /\ v.total \in Int /\ v.recent \in Int /\ v.prior \in Int
           /\ v.recent + v.prior <= v.total
           /\ v.recommendation \in DOMAIN Cost!TcoRank
<1>1. PICK p : p = Cost!Prices(items)
  OBVIOUS
<1>2. PICK S, R, Q : PricedItems(S, R, Q, items, n, now, year)
  BY DEF PricedItems
<1>3. CostsOf(v, p, S, R, Q)
  BY <1>1, <1>2, TcoFacts
<1>4. Amounts(p, 1 .. n) /\ \A i \in S : p[i] >= 0
  BY <1>1, <1>2 DEF CostItem, Cost!Prices, Amounts, PricedItems
<1>5. R \subseteq S /\ Q \subseteq S /\ S \subseteq 1 .. n /\ R \cup Q \subseteq S
      /\ R \subseteq 1 .. n /\ Q \subseteq 1 .. n
  BY <1>2 DEF PricedItems
<1>6. Part(R, 1 .. n) /\ Part(Q, 1 .. n) /\ Part(S, 1 .. n)
  BY <1>5, PartOf
<1>7. R \cap Q = {}
  BY <1>2, RulesAssumption DEF PricedItems, Cost!InRecentYear, Cost!InPriorYear, CostItem
<1>8. SumFunctionOnSet(p, R \cup Q) <= SumFunctionOnSet(p, S)
  BY <1>4, <1>5, <1>6, SumOfMore
<1> QED  BY <1>3, <1>4, <1>6, <1>7, <1>8, SumOfUnion, MilderNever, SumInt DEF CostsOf

Joins(both, s, n, t, m) ==
    /\ \A i \in 1 .. n : both[i] = s[i]
    /\ \A i \in 1 .. m : both[n + i] = t[i]

LEMMA BothLists ==
    ASSUME NEW T, NEW n \in Nat, NEW s \in [1 .. n -> T], NEW m \in Nat, NEW t \in [1 .. m -> T]
    PROVE  s \o t \in [1 .. n + m -> T] /\ Joins(s \o t, s, n, t, m)
<1>1. s \in Seq(T) /\ t \in Seq(T) /\ Len(s) = n /\ Len(t) = m
  OBVIOUS
<1>2. PICK c : c = s \o t
  OBVIOUS
<1>3. /\ c \in Seq(T) /\ Len(c) = n + m
      /\ \A i \in 1 .. n + m : c[i] = IF i <= n THEN s[i] ELSE t[i - n]
  BY <1>1, <1>2, ConcatProperties
<1>4. c \in [1 .. n + m -> T]
  BY <1>3, LenProperties
<1>5. \A i \in 1 .. m : c[n + i] = t[i]
  <2> TAKE i \in 1 .. m
  <2> QED  BY <1>3
<1> QED  BY <1>2, <1>3, <1>4, <1>5 DEF Joins

\* What is bought in the last year makes the recommendation no milder.
LEMMA TcoGrows ==
    ASSUME NEW n \in Nat, NEW items \in [1 .. n -> CostItem],
           NEW m \in Nat, NEW more \in [1 .. m -> CostItem],
           NEW now \in Int, NEW year \in Nat,
           \A i \in 1 .. m : Cost!InRecentYear(more[i], now, year),
           NEW both \in [1 .. n + m -> CostItem], Joins(both, items, n, more, m),
           NEW v, v = Cost!VehicleTco(items, now, year),
           NEW w, w = Cost!VehicleTco(both, now, year)
    PROVE  Cost!TcoRank[w.recommendation] <= Cost!TcoRank[v.recommendation]
<1>1. PICK p, pp, k : p = Cost!Prices(items) /\ pp = Cost!Prices(both) /\ k = n + m
  OBVIOUS
<1>2. PICK S, R, Q : PricedItems(S, R, Q, items, n, now, year)
  BY DEF PricedItems
<1>3. PICK SS, RR, QQ : PricedItems(SS, RR, QQ, both, k, now, year)
  BY DEF PricedItems
<1>4. CostsOf(v, p, S, R, Q)
  BY <1>1, <1>2, TcoFacts
<1>5. CostsOf(w, pp, SS, RR, QQ)
  <2>1. k \in Nat /\ both \in [1 .. k -> CostItem]
    BY <1>1
  <2> QED  BY <1>1, <1>3, <2>1, TcoFacts
<1>6. /\ Amounts(p, 1 .. n) /\ Amounts(pp, 1 .. k) /\ \A i \in SS : pp[i] >= 0
      /\ \A i \in 1 .. n : i \in 1 .. k /\ p[i] = pp[i]
  BY <1>1, <1>3 DEF CostItem, Cost!Prices, Amounts, PricedItems, Joins
<1>7. \A i \in 1 .. k : i \notin 1 .. n =>
                 /\ Cost!InRecentYear(both[i], now, year)
                 /\ ~Cost!InPriorYear(both[i], now, year)
  <2> SUFFICES ASSUME NEW i \in 1 .. k, i \notin 1 .. n
               PROVE  Cost!InRecentYear(both[i], now, year) /\ ~Cost!InPriorYear(both[i], now, year)
    OBVIOUS
  <2>1. PICK l \in 1 .. m : i = n + l
    <3>1. i - n \in 1 .. m /\ i = n + (i - n)
      BY <1>1
    <3> QED  BY <3>1
  <2>2. both[i] = more[l] /\ Cost!InRecentYear(more[l], now, year)
    BY <2>1 DEF Joins
  <2>3. both[i].date \in {None} \cup Int
    BY <1>1 DEF CostItem
  <2> QED  BY <2>2, <2>3, RulesAssumption DEF Cost!InRecentYear, Cost!InPriorYear
<1>a. /\ \A i : i \in R <=> /\ i \in 1 .. n /\ items[i].price > 0
                            /\ Cost!InRecentYear(items[i], now, year)
      /\ \A i : i \in Q <=> /\ i \in 1 .. n /\ items[i].price > 0
                            /\ Cost!InPriorYear(items[i], now, year)
  BY <1>2 DEF PricedItems
<1>b. /\ \A i : i \in RR <=> /\ i \in 1 .. k /\ both[i].price > 0
                             /\ Cost!InRecentYear(both[i], now, year)
      /\ \A i : i \in QQ <=> /\ i \in 1 .. k /\ both[i].price > 0
                             /\ Cost!InPriorYear(both[i], now, year)
      /\ RR \subseteq SS
  BY <1>3 DEF PricedItems
<1>c. \A i \in 1 .. n : both[i] = items[i]
  BY DEF Joins
<1>8. QQ = Q
  <2>1. \A i : i \in QQ <=> i \in Q
    BY <1>6, <1>7, <1>a, <1>b, <1>c
  <2> QED  BY <2>1
<1>9. R \subseteq RR /\ RR \subseteq SS
  BY <1>6, <1>a, <1>b, <1>c
<1>10. R \subseteq 1 .. n /\ Q \subseteq 1 .. n /\ RR \subseteq 1 .. k
       /\ R \subseteq 1 .. k /\ Q \subseteq 1 .. k
  BY <1>2, <1>3, <1>6 DEF PricedItems
<1>11. k \in Nat
  BY <1>1
<1>12. Part(R, 1 .. n) /\ Part(Q, 1 .. n) /\ Part(R, 1 .. k) /\ Part(Q, 1 .. k)
       /\ Part(RR, 1 .. k)
  BY <1>10, <1>11, PartOf
<1>13. SumFunctionOnSet(p, Q) = SumFunctionOnSet(pp, Q)
  <2>1. \A i \in Q : p[i] = pp[i]
    BY <1>6, <1>10
  <2> QED  BY <1>6, <1>12, <2>1, SumOfSame
<1>14. SumFunctionOnSet(p, R) = SumFunctionOnSet(pp, R)
  <2>1. \A i \in R : p[i] = pp[i]
    BY <1>6, <1>10
  <2> QED  BY <1>6, <1>12, <2>1, SumOfSame
<1>15. SumFunctionOnSet(pp, R) <= SumFunctionOnSet(pp, RR)
  <2>1. \A i \in RR \ R : pp[i] >= 0
    BY <1>6, <1>9
  <2> QED  BY <1>6, <1>9, <1>12, <2>1, SumOfMore
<1>16. SumFunctionOnSet(p, R) \in Int /\ SumFunctionOnSet(p, Q) \in Int
       /\ SumFunctionOnSet(pp, RR) \in Int
  BY <1>6, <1>12, SumInt
<1>17. PICK a, b, prior, s, t :
          /\ a = SumFunctionOnSet(p, R) /\ b = SumFunctionOnSet(pp, RR)
          /\ prior = SumFunctionOnSet(p, Q)
          /\ s = v.recommendation /\ t = w.recommendation
  OBVIOUS
<1>18. a \in Int /\ b \in Int /\ a <= b /\ prior \in Int
  BY <1>14, <1>15, <1>16, <1>17
<1>19. s = Cost!Recommendation(IF prior > 0 THEN Cost!DeltaPct(a, 2 * prior) ELSE None)
  BY <1>4, <1>17 DEF CostsOf
<1>20. t = Cost!Recommendation(IF prior > 0 THEN Cost!DeltaPct(b, 2 * prior) ELSE None)
  BY <1>5, <1>8, <1>13, <1>17 DEF CostsOf
<1>21. Cost!TcoRank[t] <= Cost!TcoRank[s]
  BY <1>18, <1>19, <1>20, MilderNever
<1> QED  BY <1>17, <1>21

LEMMA ListOf ==
    ASSUME NEW T, NEW s \in Seq(T)
    PROVE  \E n \in Nat : s \in [1 .. n -> T]
BY DEF Seq

Tco == [total : Int, recommendation : DOMAIN Cost!TcoRank]

Worse(x, y) == \/ Cost!TcoRank[x.recommendation] < Cost!TcoRank[y.recommendation]
               \/ /\ x.recommendation = y.recommendation
                  /\ x.total > y.total

\* The worst recommendations come first.
LEMMA WorstFirst ==
    ASSUME NEW n \in Nat, NEW s, DOMAIN s = 1 .. n,
           \A i \in 1 .. n : s[i].total \in Int /\ s[i].recommendation \in DOMAIN Cost!TcoRank,
           NEW t, t = Along(s, Arranged([i \in 1 .. n |->
                        {j \in 1 .. n : \/ Worse(s[j], s[i])
                                        \/ ~Worse(s[i], s[j]) /\ j <= i}]))
    PROVE  \A i, j \in DOMAIN t : i < j =>
             Cost!TcoRank[t[i].recommendation] <= Cost!TcoRank[t[j].recommendation]
<1> DEFINE r(i) == Cost!TcoRank[s[i].recommendation]
<1>1. PICK b : b = [i \in 1 .. n |-> {j \in 1 .. n : Worse(s[j], s[i])}]
  OBVIOUS
<1>2. b \in [1 .. n -> SUBSET (1 .. n)] /\ \A i, j \in 1 .. n : i \in b[j] <=> Worse(s[i], s[j])
  BY <1>1
<1>3. \A i, j \in 1 .. n : /\ r(i) \in Int
                           /\ s[i].total \in Int
                           /\ s[i].recommendation = s[j].recommendation <=> r(i) = r(j)
  BY DEF Cost!TcoRank
<1>4. \A i, j \in 1 .. n : Worse(s[i], s[j])
                            <=> r(i) < r(j) \/ (r(i) = r(j) /\ s[i].total > s[j].total)
  BY <1>3 DEF Worse
<1> HIDE DEF r
<1>5. \A i, j \in 1 .. n : i \in b[j] => j \notin b[i]
  BY <1>2, <1>3, <1>4
<1>6. ASSUME NEW i \in 1 .. n, NEW j \in 1 .. n, NEW k \in 1 .. n, i \in b[j]
      PROVE  i \in b[k] \/ k \in b[j]
  <2>1. PICK x \in Int, y \in Int, z \in Int : x = r(i) /\ y = r(j) /\ z = r(k)
    BY <1>3
  <2>2. x < y \/ (x = y /\ s[i].total > s[j].total)
    BY <1>2, <1>4, <1>6, <2>1
  <2>3. /\ i \in b[k] <=> x < z \/ (x = z /\ s[i].total > s[k].total)
        /\ k \in b[j] <=> z < y \/ (z = y /\ s[k].total > s[j].total)
    BY <1>2, <1>4, <2>1
  <2>4. s[i].total \in Int /\ s[j].total \in Int /\ s[k].total \in Int
    BY <1>3
  <2> QED  BY <2>2, <2>3, <2>4
<1>7. t = Along(s, Arranged([i \in 1 .. n |->
                      {j \in 1 .. n : j \in b[i] \/ (i \notin b[j] /\ j <= i)}]))
  <2>1. [i \in 1 .. n |-> {j \in 1 .. n : j \in b[i] \/ (i \notin b[j] /\ j <= i)}]
      = [i \in 1 .. n |-> {j \in 1 .. n : Worse(s[j], s[i]) \/ (~Worse(s[i], s[j]) /\ j <= i)}]
    BY <1>2
  <2> QED  BY <2>1
<1>8. PICK p : InOrder(t, s, p, b, n)
  <2>1. Precedes(b, n)
    BY <1>2, <1>5, <1>6 DEF Precedes
  <2>2. SortsBy(t, s, b, n)
    BY <1>7 DEF SortsBy
  <2> QED  BY <2>1, <2>2, SortFacts
<1>9. /\ \A k \in 1 .. n : p[k] \in 1 .. n
      /\ \A k, l \in 1 .. n : k < l => p[l] \notin b[p[k]]
      /\ t = [k \in 1 .. n |-> s[p[k]]]
  BY <1>8 DEF InOrder
<1> SUFFICES ASSUME NEW k \in DOMAIN t, NEW l \in DOMAIN t, k < l
             PROVE  Cost!TcoRank[t[k].recommendation] <= Cost!TcoRank[t[l].recommendation]
  OBVIOUS
<1>10. k \in 1 .. n /\ l \in 1 .. n /\ t[k] = s[p[k]] /\ t[l] = s[p[l]]
  BY <1>9
<1>11. r(p[k]) <= r(p[l])
  BY <1>2, <1>3, <1>4, <1>9, <1>10
<1> QED  BY <1>10, <1>11 DEF r

LEMMA FleetInOrder ==
    ASSUME NEW m \in Nat, NEW vehicles, DOMAIN vehicles = 1 .. m,
           NEW now \in Int, NEW year \in Nat,
           \A i \in 1 .. m : \E n \in Nat : vehicles[i] \in [1 .. n -> CostItem],
           NEW fleet, fleet = Cost!FleetTco(vehicles, now, year)
    PROVE  \A i, j \in DOMAIN fleet : i < j =>
             Cost!TcoRank[fleet[i].recommendation] <= Cost!TcoRank[fleet[j].recommendation]
<1>1. PICK tco : tco = [i \in 1 .. m |-> Cost!VehicleTco(vehicles[i], now, year)]
  OBVIOUS
<1>2. \A i \in 1 .. m : tco[i].total \in Int /\ tco[i].recommendation \in DOMAIN Cost!TcoRank
  BY <1>1, TcoAddsUp
<1>3. PICK S : S = {i \in 1 .. m : tco[i].total > 0}
  OBVIOUS
<1>4. S \in SUBSET Int /\ IsFiniteSet(S) /\ Cardinality(S) \in Nat /\ S \subseteq 1 .. m
  BY <1>3, PartFacts
<1>5. PICK s, n : s = Picked(tco, S) /\ n = Cardinality(S)
  OBVIOUS
<1>6. s = [k \in 1 .. n |-> tco[Places(S)[k]]]
  BY <1>4, <1>5, PickedFacts
<1>7. \A k \in 1 .. n : Places(S)[k] \in 1 .. m
  <2>1. Places(S) \in [1 .. n -> S]
    BY <1>4, <1>5, PlacesFacts DEF Lists
  <2> QED  BY <1>4, <2>1
<1>8. DOMAIN s = 1 .. n /\ n \in Nat
      /\ \A i \in 1 .. n : s[i].total \in Int /\ s[i].recommendation \in DOMAIN Cost!TcoRank
  BY <1>2, <1>4, <1>5, <1>6, <1>7
<1>9. PICK up : up = [i \in 1 .. n |->
                        {j \in 1 .. n : \/ Worse(s[j], s[i])
                                        \/ ~Worse(s[i], s[j]) /\ j <= i}]
  OBVIOUS
<1>10. fleet = Along(s, Arranged(up))
  <2>1. Cost!Where(tco, LAMBDA v : v.total > 0) = s
    BY <1>1, <1>3, <1>5, CostPicked DEF Cost!Where
  <2>2. fleet = Cost!Along(s, Cost!Arranged(up))
    BY <1>1, <1>8, <1>9, <2>1 DEF Cost!SortedBy, Worse, Cost!FleetTco
  <2> QED  BY <2>2, CostAlong
<1> QED  BY <1>8, <1>9, <1>10, WorstFirst

\* What the input of the two years is.
LEMMA Trends ==
    ASSUME NEW items \in CostLists, NEW more \in CostLists,
           NEW recent, recent = Where(more, LAMBDA it : Cost!InRecentYear(it, 2 * Year, Year)),
           NEW v, v = Cost!VehicleTco(items, 2 * Year, Year),
           NEW w, w = Cost!VehicleTco(items \o recent, 2 * Year, Year),
           NEW fleet, fleet = Cost!FleetTco(<<items, more>>, 2 * Year, Year)
    PROVE  /\ v.recent + v.prior <= v.total
           /\ Cost!TcoRank[w.recommendation] <= Cost!TcoRank[v.recommendation]
           /\ \A i, j \in DOMAIN fleet : i < j =>
                Cost!TcoRank[fleet[i].recommendation] <= Cost!TcoRank[fleet[j].recommendation]
<1>1. PICK n \in Nat : items \in [1 .. n -> CostItem]
  BY ListOf, CostAssumption DEF CostItem
<1>2. PICK m \in Nat : more \in [1 .. m -> CostItem]
  BY ListOf, CostAssumption DEF CostItem
<1>3. PICK year, now : year = Year /\ now = 2 * Year
  OBVIOUS
<1>4. year \in Nat /\ now \in Int
  BY <1>3, RulesAssumption
<1>5. PICK S : S = {i \in 1 .. m : Cost!InRecentYear(more[i], now, year)}
  OBVIOUS
<1>6. S \in SUBSET Int /\ IsFiniteSet(S) /\ Cardinality(S) \in Nat /\ S \subseteq 1 .. m
  BY <1>5, PartFacts
<1>7. PICK k : k = Cardinality(S)
  OBVIOUS
<1>8. recent = [l \in 1 .. k |-> more[Places(S)[l]]]
  <2>1. recent = Picked(more, S)
    BY <1>2, <1>3, <1>5 DEF Where
  <2> QED  BY <1>6, <1>7, <2>1, PickedFacts
<1>9. \A l \in 1 .. k : Places(S)[l] \in S
  BY <1>6, <1>7, PlacesFacts DEF Lists
<1>10. k \in Nat /\ recent \in [1 .. k -> CostItem]
       /\ \A l \in 1 .. k : Cost!InRecentYear(recent[l], now, year)
  BY <1>2, <1>5, <1>6, <1>7, <1>8, <1>9
<1>11. PICK both : both = items \o recent
  OBVIOUS
<1>12. both \in [1 .. n + k -> CostItem] /\ Joins(both, items, n, recent, k)
  <2>1. PICK T : T = CostItem
    OBVIOUS
  <2> QED  BY <1>1, <1>10, <1>11, <2>1, BothLists
<1>13. Cost!TcoRank[w.recommendation] <= Cost!TcoRank[v.recommendation]
  <2>1. PICK x : x = Cost!VehicleTco(items, now, year)
    OBVIOUS
  <2>2. PICK y : y = Cost!VehicleTco(both, now, year)
    OBVIOUS
  <2>3. Cost!TcoRank[y.recommendation] <= Cost!TcoRank[x.recommendation]
    BY <1>1, <1>4, <1>10, <1>12, <2>1, <2>2, TcoGrows
  <2> QED  BY <1>3, <1>11, <2>1, <2>2, <2>3
<1>14. \A i, j \in DOMAIN fleet : i < j =>
         Cost!TcoRank[fleet[i].recommendation] <= Cost!TcoRank[fleet[j].recommendation]
  <2>1. PICK vs : vs = <<items, more>>
    OBVIOUS
  <2>2. DOMAIN vs = 1 .. 2 /\ \A i \in 1 .. 2 : \E l \in Nat : vs[i] \in [1 .. l -> CostItem]
    BY <1>1, <1>2, <2>1
  <2> QED  BY <1>3, <1>4, <2>1, <2>2, FleetInOrder
<1> QED  BY <1>1, <1>3, <1>4, <1>13, <1>14, TcoAddsUp

LEMMA RemPicked == \A s, S : Rem!Picked(s, S) = Picked(s, S)
BY Zenon DEF Rem!Picked, Picked, Rem!Along, Along, Rem!Arranged, Arranged,
   Rem!Cardinality, Cardinality

LEMMA RemAlong ==
    ASSUME NEW s, NEW up
    PROVE  Rem!Along(s, Rem!Arranged(up)) = Along(s, Arranged(up))
BY Zenon DEF Rem!Along, Along, Rem!Arranged, Arranged, Rem!Cardinality, Cardinality

LEMMA RemSum == \A f : Rem!SumFunction(f) = SumFunction(f)
BY Zenon DEF Rem!SumFunction, Rem!SumFunctionOnSet, Rem!FoldFunctionOnSet, Rem!MapThenFoldSet,
   SumFunction, SumFunctionOnSet, FoldFunctionOnSet, MapThenFoldSet

\* t has the elements of s at the m places S, which q lists in their order.
TakenAt(t, s, S, q, m) ==
    /\ m \in Nat /\ m = Cardinality(S) /\ q \in [1 .. m -> S]
    /\ \A i \in S : \E k \in 1 .. m : q[k] = i
    /\ \A k, l \in 1 .. m : q[k] = q[l] => k = l
    /\ \A k, l \in 1 .. m : q[k] <= q[l] <=> k <= l
    /\ t = [k \in 1 .. m |-> s[q[k]]]

LEMMA PickedList ==
    ASSUME NEW n \in Nat, NEW s, NEW S, S \subseteq 1 .. n, NEW t, t = Picked(s, S)
    PROVE  \E q, m : TakenAt(t, s, S, q, m)
<1>1. S \in SUBSET Int /\ IsFiniteSet(S) /\ Cardinality(S) \in Nat
  BY PartFacts
<1>2. PICK q, m : q = Places(S) /\ m = Cardinality(S)
  OBVIOUS
<1>3. t = [k \in 1 .. m |-> s[q[k]]]
  <2>1. Picked(s, S) = [k \in 1 .. Cardinality(S) |-> s[Places(S)[k]]]
    BY <1>1, PickedFacts
  <2> QED  BY <1>2, <2>1
<1> QED  BY <1>1, <1>2, <1>3, PlacesFacts DEF TakenAt, Lists

LEMMA CountListed ==
    ASSUME NEW m \in Nat, NEW D, NEW f \in [1 .. m -> D],
           \A d \in D : \E k \in 1 .. m : f[k] = d,
           \A k, l \in 1 .. m : f[k] = f[l] => k = l
    PROVE  IsFiniteSet(D) /\ Cardinality(D) = m
<1>1. ExistsBijection(1 .. m, D)
  BY DEF Bijection, ExistsBijection, Surjection, Injection, IsInjective
<1> QED  BY <1>1, FS_Bijection, FS_Interval

-----------------------------------------------------------------------------
(* The dashboard *)

Reminder == [id : Nat, active : BOOLEAN, days : {None} \cup Int, km : {None} \cup Int]
Viewed == [id : Nat, active : BOOLEAN, days : {None} \cup Int, status : DOMAIN Rem!Urgency]

LEMMA ViewFacts ==
    ASSUME NEW r \in Reminder, r.days = None \/ r.days < Rem!RankStep, NEW v, v = Rem!View(r)
    PROVE  /\ v.id = r.id /\ v.active \in BOOLEAN /\ v.status \in {"overdue", "due_soon", "ok"}
           /\ Rem!SortKey(v) \in Int
           /\ v.status = "overdue" => Rem!SortKey(v) < Rem!RankStep
           /\ v.status = "due_soon" => Rem!SortKey(v) >= Rem!RankStep
<1>1. /\ v.id = r.id /\ v.active = r.active /\ v.days = r.days
      /\ v.status = Rem!Evaluate(r.days, r.km)
  BY DEF Rem!View
<1>2. v.status \in {"overdue", "due_soon", "ok"}
  BY <1>1 DEF Rem!Evaluate
<1>3. r.days \in {None} \cup Int /\ r.active \in BOOLEAN
  BY DEF Reminder
<1>4. r.days = None \/ r.days < 1000000
  BY DEF Rem!RankStep
<1> QED  BY <1>1, <1>2, <1>3, <1>4, RulesAssumption DEF Rem!RankStep, Rem!SortKey,
            Rem!Urgency, Rem!Evaluate, Rem!Below

\* list has the views at the places p, in the order of their keys.
ByKey(list, views, p, n) ==
    /\ p \in [1 .. n -> 1 .. n]
    /\ \A i \in 1 .. n : \E k \in 1 .. n : p[k] = i
    /\ \A k, l \in 1 .. n : p[k] = p[l] => k = l
    /\ \A k, l \in 1 .. n : k < l => Rem!SortKey(list[k]) <= Rem!SortKey(list[l])
    /\ list = [k \in 1 .. n |-> views[p[k]]]

LEMMA ListFacts ==
    ASSUME NEW n \in Nat, NEW rs \in [1 .. n -> Reminder],
           \A i \in 1 .. n : rs[i].days = None \/ rs[i].days < Rem!RankStep,
           NEW views, views = [i \in 1 .. n |-> Rem!View(rs[i])],
           NEW list, list = Rem!List(rs)
    PROVE  \E p : ByKey(list, views, p, n)
<1>1. \A i \in 1 .. n : Rem!SortKey(views[i]) \in Int
  BY ViewFacts
<1>2. PICK b : b = [i \in 1 .. n |-> {j \in 1 .. n : Rem!SortKey(views[j]) < Rem!SortKey(views[i])}]
  OBVIOUS
<1>3. b \in [1 .. n -> SUBSET (1 .. n)]
      /\ \A i, j \in 1 .. n : j \in b[i] <=> Rem!SortKey(views[j]) < Rem!SortKey(views[i])
  BY <1>2
<1>4. Precedes(b, n)
  BY <1>1, <1>3 DEF Precedes
<1>5. SortsBy(list, views, b, n)
  <2>1. PICK up : up = [i \in 1 .. n |-> {j \in 1 .. n :
              \/ Rem!SortKey(views[j]) < Rem!SortKey(views[i])
              \/ ~(Rem!SortKey(views[i]) < Rem!SortKey(views[j])) /\ j <= i}]
    OBVIOUS
  <2> QED  BY <1>3, <2>1, RemAlong DEF SortsBy, Rem!SortedBy, Rem!List
<1>6. PICK p : InOrder(list, views, p, b, n)
  BY <1>4, <1>5, SortFacts
<1>7. /\ p \in [1 .. n -> 1 .. n]
      /\ \A k, l \in 1 .. n : k < l => p[l] \notin b[p[k]]
      /\ list = [k \in 1 .. n |-> views[p[k]]]
  BY <1>6 DEF InOrder
<1>8. /\ \A i \in 1 .. n : \E k \in 1 .. n : p[k] = i
      /\ \A k, l \in 1 .. n : p[k] = p[l] => k = l
  <2>1. Cardinality(1 .. n) = n
    BY FS_Interval
  <2> QED  BY <1>6, <2>1 DEF Lists, InOrder
<1>9. \A k, l \in 1 .. n : k < l => Rem!SortKey(list[k]) <= Rem!SortKey(list[l])
  <2> SUFFICES ASSUME NEW k \in 1 .. n, NEW l \in 1 .. n, k < l
               PROVE  Rem!SortKey(list[k]) <= Rem!SortKey(list[l])
    OBVIOUS
  <2> QED  BY <1>1, <1>3, <1>7
<1> QED  BY <1>7, <1>8, <1>9 DEF ByKey

\* The first limit elements of d, which has m.
FirstOf(shown, d, m, limit) ==
    \E h \in Nat : /\ h <= m /\ h <= limit /\ (h = m \/ h = limit)
                   /\ shown = [a \in 1 .. h |-> d[a]]

LEMMA FirstFacts ==
    ASSUME NEW m \in Nat, NEW d, DOMAIN d = 1 .. m, d \in Seq(ToSet(d)), NEW limit \in Nat,
           NEW shown, shown = IF Len(d) <= limit THEN d ELSE SubSeq(d, 1, limit)
    PROVE  FirstOf(shown, d, m, limit)
<1>1. Len(d) = m
  OBVIOUS
<1>2. CASE m <= limit
  BY <1>1, <1>2 DEF FirstOf
<1>3. CASE ~(m <= limit)
  <2>1. limit \in Nat /\ limit <= m /\ limit <= limit
    BY <1>3
  <2> QED  BY <1>1, <1>3, <2>1 DEF FirstOf
<1> QED  BY <1>2, <1>3

NearDates(rs) == \A r \in ToSet(rs) : r.days = None \/ r.days < Rem!RankStep
DueOf(rs) == {v \in {Rem!View(r) : r \in ToSet(rs)} : v.active /\ v.status # "ok"}

\* What holds of the views of the reminders.
Views(views, n) ==
    /\ \A i, j \in 1 .. n : views[i].id = views[j].id => i = j
    /\ \A i \in 1 .. n :
         /\ views[i].active \in BOOLEAN /\ views[i].status \in {"overdue", "due_soon", "ok"}
         /\ Rem!SortKey(views[i]) \in Int
         /\ views[i].status = "overdue" => Rem!SortKey(views[i]) < Rem!RankStep
         /\ views[i].status = "due_soon" => Rem!SortKey(views[i]) >= Rem!RankStep

DueViews(due, views, n) ==
    \A w : w \in due <=> \E i \in 1 .. n : /\ w = views[i]
                                          /\ views[i].active /\ views[i].status # "ok"

LEMMA DashboardViews ==
    ASSUME NEW rs \in ReminderLists, NearDates(rs), NEW list, list = Rem!List(rs)
    PROVE  \E n, views, p : /\ n \in Nat /\ Views(views, n) /\ DueViews(DueOf(rs), views, n)
                            /\ ByKey(list, views, p, n)
<1>1. PICK n \in Nat : rs \in [1 .. n -> Reminder]
  BY ListOf, ReminderAssumption DEF Reminder
<1>2. /\ \A i, j \in 1 .. n : rs[i].id = rs[j].id => i = j
      /\ \A i \in 1 .. n : rs[i].days = None \/ rs[i].days < Rem!RankStep
  BY <1>1, ReminderAssumption DEF ToSet, NearDates
<1>3. PICK views : views = [i \in 1 .. n |-> Rem!View(rs[i])]
  OBVIOUS
<1>4. Views(views, n)
  <2>1. \A i \in 1 .. n :
         /\ views[i].id = rs[i].id
         /\ views[i].active \in BOOLEAN /\ views[i].status \in {"overdue", "due_soon", "ok"}
         /\ Rem!SortKey(views[i]) \in Int
         /\ views[i].status = "overdue" => Rem!SortKey(views[i]) < Rem!RankStep
         /\ views[i].status = "due_soon" => Rem!SortKey(views[i]) >= Rem!RankStep
    <3> TAKE i \in 1 .. n
    <3>1. PICK v : v = Rem!View(rs[i])
      OBVIOUS
    <3> QED  BY <1>1, <1>2, <1>3, <3>1, ViewFacts
  <2> QED  BY <1>2, <2>1 DEF Views
<1>5. DueViews(DueOf(rs), views, n)
  BY <1>1, <1>3 DEF DueViews, DueOf, ToSet
<1> QED  BY <1>1, <1>2, <1>3, <1>4, <1>5, ListFacts

\* What comes before an element of the list is no less urgent.
LEMMA UrgentOrder ==
    ASSUME NEW n \in Nat, NEW views, Views(views, n), NEW list, NEW p, ByKey(list, views, p, n),
           NEW k \in 1 .. n, NEW l \in 1 .. n, k < l,
           list[k].status # "ok", list[l].status # "ok"
    PROVE  Rem!Urgency[list[k].status] <= Rem!Urgency[list[l].status]
<1>1. PICK v, w : v = list[k] /\ w = list[l]
  OBVIOUS
<1>2. p[k] \in 1 .. n /\ p[l] \in 1 .. n /\ v = views[p[k]] /\ w = views[p[l]]
  BY <1>1 DEF ByKey
<1>3. Rem!SortKey(v) <= Rem!SortKey(w)
  BY <1>1 DEF ByKey
<1> QED  BY <1>1, <1>2, <1>3 DEF Rem!Urgency, Rem!RankStep, Views

\* The places of a list that the dashboard shows.
ShownPlaces(S, list, n) == S = {k \in 1 .. n : Rem!Shown(list[k])}

\* d has those of the list that are due, as often as there are reminders due.
LEMMA DueListed ==
    ASSUME NEW n \in Nat, NEW views, Views(views, n), NEW list, NEW p, ByKey(list, views, p, n),
           NEW due, DueViews(due, views, n),
           NEW S, ShownPlaces(S, list, n), NEW d, NEW q, NEW m, TakenAt(d, list, S, q, m)
    PROVE  /\ \A w \in due : \E c \in 1 .. m : w = d[c]
           /\ \A c \in 1 .. m : d[c] \in due
           /\ \A a, c \in 1 .. m : d[a].id = d[c].id => a = c
           /\ Cardinality(due) = m
<1>1. \A k \in 1 .. n : p[k] \in 1 .. n /\ list[k] = views[p[k]]
  BY DEF ByKey
<1>2. \A k \in 1 .. n : k \in S <=> list[k].active /\ list[k].status # "ok"
  BY <1>1 DEF ShownPlaces, Rem!Shown, Views
<1>3. \A c \in 1 .. m : q[c] \in S /\ q[c] \in 1 .. n /\ d[c] = list[q[c]]
  BY DEF ShownPlaces, TakenAt
<1>4. ASSUME NEW w \in due PROVE \E c \in 1 .. m : w = d[c]
  <2>1. PICK i \in 1 .. n : w = views[i] /\ views[i].active /\ views[i].status # "ok"
    BY <1>4 DEF DueViews
  <2>2. PICK k \in 1 .. n : p[k] = i
    BY DEF ByKey
  <2>3. k \in S /\ list[k] = w
    BY <1>1, <1>2, <2>1, <2>2
  <2>4. PICK c \in 1 .. m : q[c] = k
    BY <2>3 DEF TakenAt
  <2> QED  BY <1>3, <2>3, <2>4
<1>5. ASSUME NEW c \in 1 .. m PROVE d[c] \in due
  <2>1. q[c] \in S /\ q[c] \in 1 .. n /\ d[c] = list[q[c]]
    BY <1>3
  <2>2. p[q[c]] \in 1 .. n /\ d[c] = views[p[q[c]]]
    BY <1>1, <2>1
  <2>3. views[p[q[c]]].active /\ views[p[q[c]]].status # "ok"
    BY <1>2, <2>1, <2>2
  <2> QED  BY <2>2, <2>3 DEF DueViews
<1>6. ASSUME NEW a \in 1 .. m, NEW c \in 1 .. m, d[a].id = d[c].id PROVE a = c
  <2>1. q[a] \in 1 .. n /\ q[c] \in 1 .. n /\ d[a] = list[q[a]] /\ d[c] = list[q[c]]
    BY <1>3
  <2>2. p[q[a]] = p[q[c]]
    BY <1>1, <1>6, <2>1 DEF Views
  <2>3. q[a] = q[c]
    BY <2>1, <2>2 DEF ByKey
  <2> QED  BY <2>3 DEF TakenAt
<1>7. m \in Nat /\ d \in [1 .. m -> due]
  BY <1>5 DEF TakenAt
<1>8. Cardinality(due) = m
  BY <1>4, <1>6, <1>7, CountListed
<1> QED  BY <1>4, <1>5, <1>6, <1>8

IdsOf(shown) == {v.id : v \in ToSet(shown)}

LEMMA Dashboard ==
    ASSUME NEW rs \in ReminderLists, NearDates(rs), NEW limit \in Nat,
           NEW shown, shown = Rem!Upcoming(rs, limit)
    PROVE  /\ Len(shown) = IF Cardinality(DueOf(rs)) < limit THEN Cardinality(DueOf(rs)) ELSE limit
           /\ \A v \in ToSet(shown), w \in DueOf(rs) : w.id \notin IdsOf(shown) =>
                  Rem!Urgency[v.status] <= Rem!Urgency[w.status]
<1>1. PICK list, due : list = Rem!List(rs) /\ due = DueOf(rs)
  OBVIOUS
<1>2. PICK n, views, p : /\ n \in Nat /\ Views(views, n) /\ DueViews(due, views, n)
                         /\ ByKey(list, views, p, n)
  BY <1>1, DashboardViews
<1>3. PICK S : S = {k \in 1 .. n : Rem!Shown(list[k])}
  OBVIOUS
<1>4. PICK d : d = Picked(list, S)
  OBVIOUS
<1>5. PICK q, m : TakenAt(d, list, S, q, m)
  <2>1. S \subseteq 1 .. n
    BY <1>3
  <2> QED  BY <1>2, <1>4, <2>1, PickedList
<1>6. Rem!Where(list, Rem!Shown) = d
  <2>1. DOMAIN list = 1 .. n
    BY <1>2 DEF ByKey
  <2> QED  BY <1>3, <1>4, <2>1, RemPicked DEF Rem!Where
<1>7. m \in Nat /\ DOMAIN d = 1 .. m /\ d \in Seq(ToSet(d))
  BY <1>5 DEF TakenAt, ToSet
<1>8. FirstOf(shown, d, m, limit)
  <2>1. shown = IF Len(d) <= limit THEN d ELSE SubSeq(d, 1, limit)
    BY <1>1, <1>6 DEF Rem!Upcoming
  <2> QED  BY <1>7, <2>1, FirstFacts
<1>9. PICK h \in Nat : /\ h <= m /\ h <= limit /\ (h = m \/ h = limit)
                       /\ shown = [a \in 1 .. h |-> d[a]]
  BY <1>8 DEF FirstOf
<1>10. /\ \A w \in due : \E c \in 1 .. m : w = d[c]
       /\ \A c \in 1 .. m : d[c] \in due
       /\ Cardinality(due) = m
  <2>1. ShownPlaces(S, list, n)
    BY <1>3 DEF ShownPlaces
  <2> QED  BY <1>2, <1>5, <2>1, DueListed
<1>11. Len(shown) = IF Cardinality(due) < limit THEN Cardinality(due) ELSE limit
  <2>1. Len(shown) = h
    BY <1>9
  <2> QED  BY <1>7, <1>9, <1>10, <2>1
<1>12. \A a \in 1 .. h : shown[a] = d[a] /\ shown[a] \in ToSet(shown)
  BY <1>9 DEF ToSet
<1>13. \A v \in ToSet(shown) : \E a \in 1 .. h : v = d[a]
  BY <1>9 DEF ToSet
<1>14. ASSUME NEW v \in ToSet(shown), NEW w \in due, w.id \notin IdsOf(shown)
       PROVE  Rem!Urgency[v.status] <= Rem!Urgency[w.status]
  <2>1. PICK a \in 1 .. h : v = d[a]
    BY <1>13
  <2>2. PICK c \in 1 .. m : w = d[c]
    BY <1>10
  <2>3. c \notin 1 .. h
    BY <1>12, <1>14, <2>2 DEF IdsOf
  <2>4. a \in 1 .. m /\ a < c
    BY <1>7, <1>9, <2>3
  <2>5. q[a] \in 1 .. n /\ q[c] \in 1 .. n /\ v = list[q[a]] /\ w = list[q[c]]
        /\ Rem!Shown(v) /\ Rem!Shown(w)
    <3>1. q[a] \in S /\ q[c] \in S /\ v = list[q[a]] /\ w = list[q[c]]
      BY <1>5, <2>1, <2>2, <2>4 DEF TakenAt
    <3> QED  BY <1>3, <3>1
  <2>6. q[a] < q[c]
    <3>1. ~(q[c] <= q[a])
      BY <1>5, <2>4 DEF TakenAt
    <3> QED  BY <1>2, <2>5, <3>1
  <2>7. v.status # "ok" /\ w.status # "ok"
    BY <2>5 DEF Rem!Shown
  <2> QED  BY <1>2, <2>5, <2>6, <2>7, UrgentOrder
<1> QED  BY <1>1, <1>11, <1>14

\* A date is overdue from the day after it.
LEMMA DueDate ==
    ASSUME NEW due \in Int, due % Rem!Day = 0, NEW now \in Int,
           NEW days, days = Rem!DaysRemaining(due, now)
    PROVE  Rem!Evaluate(days, None) = "overdue" <=> now \div Rem!Day - due \div Rem!Day > 0
<1>1. PICK k \in Int : due = 4 * k
  BY DEF Rem!Day
<1>2. PICK d : d = (now - due) \div 4
  OBVIOUS
<1>3. days = -d
  BY <1>2, RulesAssumption DEF Rem!DaysRemaining, Rem!CeilDiv, Rem!Day
<1> QED  BY <1>1, <1>2, <1>3, RulesAssumption DEF Rem!Day, Rem!Evaluate, Rem!Below

LEMMA ProvPicked == \A s, S : Prov!Picked(s, S) = Picked(s, S)
BY Zenon DEF Prov!Picked, Picked, Prov!Along, Along, Prov!Arranged, Arranged,
   Prov!Cardinality, Cardinality

LEMMA ProvToSet == \A s : Prov!Range(s) = ToSet(s)
BY DEF Prov!Range, ToSet

\* t has, in some number, what s has at the places S.
Keeps(t, s, S, m) ==
    /\ m \in Nat /\ DOMAIN t = 1 .. m /\ t = [k \in 1 .. m |-> t[k]]
    /\ \A k \in 1 .. m : \E i \in S : t[k] = s[i]
    /\ \A i \in S : \E k \in 1 .. m : t[k] = s[i]

\* t is what s of length n has at the places S.
Chosen(t, s, S, n) ==
    n \in Nat /\ DOMAIN s = 1 .. n /\ S \subseteq 1 .. n /\ t = Picked(s, S)

LEMMA WhereKeeps ==
    ASSUME NEW n, NEW s, NEW S, NEW t, Chosen(t, s, S, n)
    PROVE  \E m : Keeps(t, s, S, m)
<1>1. PICK q, m : TakenAt(t, s, S, q, m)
  BY PickedList DEF Chosen
<1>2. /\ m \in Nat /\ t = [k \in 1 .. m |-> s[q[k]]]
      /\ \A k \in 1 .. m : q[k] \in S
      /\ \A i \in S : \E k \in 1 .. m : q[k] = i
  BY <1>1 DEF TakenAt
<1>3. Keeps(t, s, S, m)
  BY <1>2 DEF Keeps
<1> QED  BY <1>3

IsList(s, n) == n \in Nat /\ DOMAIN s = 1 .. n /\ s = [k \in 1 .. n |-> s[k]]

LEMMA EveryList ==
    ASSUME NEW s, s \in Seq(ToSet(s))
    PROVE  \E n : IsList(s, n)
<1>1. PICK n \in Nat : s \in [1 .. n -> ToSet(s)]
  BY ListOf
<1> QED  BY <1>1 DEF IsList

LEMMA ListedFacts ==
    ASSUME NEW list, NEW n, IsList(list, n), NEW t, t = Prov!Listed(list)
    PROVE  \E m : /\ IsList(t, m)
                  /\ \A k \in 1 .. m : t[k] # Prov!Blank
<1>1. PICK S : S = {i \in DOMAIN list : list[i] # Prov!Blank}
  OBVIOUS
<1>2. PICK m : Keeps(t, list, S, m)
  BY <1>1, WhereKeeps, ProvPicked DEF Chosen, IsList, Prov!Listed, Prov!Where
<1>3. IsList(t, m)
  BY <1>2 DEF Keeps, IsList
<1> QED  BY <1>1, <1>2, <1>3 DEF Keeps

\* The variables as the API has them.
Parsed(env, raw) == env = [name \in Prov!Variables |-> Prov!envSchema(name, raw[name])]

LEMMA ParsedFacts ==
    ASSUME NEW raw \in Environments, NEW env \in Prov!ValidateEnv(raw)
    PROVE  /\ Parsed(env, raw)
           /\ \A name \in DOMAIN Prov!Lists : \E n : IsList(env[name], n)
<1>1. Parsed(env, raw)
  BY DEF Parsed, Prov!ValidateEnv
<1>2. ASSUME NEW name \in DOMAIN Prov!Lists PROVE \E n : IsList(env[name], n)
  <2>1. name \in {"CORS_ORIGINS", "GEMINI_MODELS"}
    BY DEF Prov!Lists
  <2>2. env[name] = IF raw[name] = None THEN Prov!Default(name) ELSE raw[name]
    BY <1>1, <1>2, <2>1 DEF Parsed, Prov!envSchema, Prov!Variables
  <2>3. CASE raw[name] = None
    <3>1. env[name] = Prov!Lists[name]
      BY <1>2, <2>1, <2>2, <2>3 DEF Prov!Default, Prov!Enumerated
    <3> QED  BY <2>1, <3>1 DEF Prov!Lists, IsList
  <2>4. CASE raw[name] # None
    BY <1>2, <2>2, <2>4, EveryList, ServiceAssumption
  <2> QED  BY <2>3, <2>4
<1> QED  BY <1>1, <1>2

-----------------------------------------------------------------------------
(* The models in turn *)

\* The models that are asked, in their order: all of those known, the first of
\* them the preferred one.
ChainOf(chain, k, known, first) ==
    /\ IsList(chain, k) /\ known = {chain[i] : i \in 1 .. k}
    /\ first # Prov!Blank => k >= 1 /\ chain[1] = first

LEMMA ChainFacts ==
    ASSUME NEW raw \in Environments, NEW env \in Prov!ValidateEnv(raw),
           NEW listed, listed = ToSet(Prov!Listed(env.GEMINI_MODELS)),
           NEW known, known = (IF listed = {} THEN ToSet(DefaultChain) ELSE listed)
                                \cup ({env.GEMINI_MODEL} \ {Prov!Blank})
    PROVE  \E k : ChainOf(Prov!GeminiModels(env), k, known, env.GEMINI_MODEL)
<1>1. PICK n : IsList(env.GEMINI_MODELS, n)
  BY ParsedFacts DEF Prov!Lists
<1>2. PICK list, first : list = Prov!Listed(env.GEMINI_MODELS) /\ first = env.GEMINI_MODEL
  OBVIOUS
<1>3. PICK m : IsList(list, m)
  BY <1>1, <1>2, ListedFacts
<1>4. listed = {list[i] : i \in 1 .. m} /\ (list # <<>> <=> listed # {})
  BY <1>2, <1>3 DEF IsList, ToSet
<1>5. PICK d : IsList(DefaultChain, d)
  BY ServiceAssumption, EveryList
<1>6. PICK models : models = IF list # <<>> THEN list ELSE DefaultChain
  OBVIOUS
<1>7. PICK l : IsList(models, l)
  BY <1>3, <1>5, <1>6
<1>8. known = {models[i] : i \in 1 .. l} \cup ({first} \ {Prov!Blank})
  BY <1>2, <1>4, <1>6, <1>7 DEF IsList, ToSet
<1>9. CASE first = Prov!Blank
  BY <1>2, <1>6, <1>7, <1>8, <1>9 DEF Prov!GeminiModels, ChainOf
<1>10. CASE first # Prov!Blank
  <2>1. PICK S : S = {i \in DOMAIN models : models[i] # first}
    OBVIOUS
  <2>2. PICK rest : rest = Picked(models, S)
    OBVIOUS
  <2>3. PICK r : Keeps(rest, models, S, r)
    BY <1>7, <2>1, <2>2, WhereKeeps DEF IsList, Chosen
  <2>4. Prov!GeminiModels(env) = <<first>> \o rest
    BY <1>2, <1>6, <1>10, <2>1, <2>2, ProvPicked DEF Prov!GeminiModels, Prov!Where
  <2>5. PICK T : T = known
    OBVIOUS
  <2>6. rest \in [1 .. r -> T] /\ r \in Nat
    BY <1>7, <1>8, <2>1, <2>3, <2>5 DEF Keeps, IsList
  <2>7. <<first>> \in [1 .. 1 -> T]
    BY <1>8, <1>10, <2>5
  <2>8. PICK chain : chain = <<first>> \o rest
    OBVIOUS
  <2>9. chain \in [1 .. 1 + r -> T] /\ Joins(chain, <<first>>, 1, rest, r)
    BY <2>6, <2>7, <2>8, BothLists
  <2>10. IsList(chain, 1 + r) /\ chain[1] = first /\ 1 + r >= 1
    BY <2>6, <2>9 DEF IsList, Joins
  <2>11. \A x \in T : \E i \in 1 .. 1 + r : chain[i] = x
    <3> TAKE x \in T
    <3>1. CASE x = first
      BY <2>6, <2>10, <3>1
    <3>2. CASE x # first
      <4>1. PICK i \in 1 .. l : x = models[i]
        BY <1>8, <2>5, <3>2
      <4>2. PICK j \in 1 .. r : rest[j] = x
        BY <1>7, <2>1, <2>3, <3>2, <4>1 DEF Keeps, IsList
      <4> QED  BY <2>6, <2>9, <4>2 DEF Joins
    <3> QED  BY <3>1, <3>2
  <2>12. T = {chain[i] : i \in 1 .. 1 + r}
    BY <2>9, <2>11
  <2> QED  BY <1>2, <2>4, <2>5, <2>8, <2>10, <2>12 DEF ChainOf
<1> QED  BY <1>9, <1>10

\* What asking the k models of a chain comes to, where res is what each of them
\* would answer and the first place in stop ends it.
Turn(r, chain, k, res, stop) ==
    \/ stop = {} /\ r = [asked |-> chain, result |-> Prov!Exhausted]
    \/ \E l \in stop : /\ \A j \in stop : l <= j
                       /\ r = [asked |-> SubSeq(chain, 1, l), result |-> res[l]]

\* The places where the answer res is not one that lets the next model try.
Stops(res, k) == {i \in 1 .. k : res[i].ok \/ res[i].status \notin Prov!FALLBACK_STATUSES}

\* What the models answer, on one and on the other of the two questions.
OcrAnswers(chain, k, answers, file) ==
    [i \in 1 .. k |-> Prov!CallOcrModel(answers[chain[i]], file)]
DataAnswers(chain, k, answers, text) ==
    [i \in 1 .. k |-> Prov!CallModel(answers[chain[i]], text)]

LEMMA LeastStop ==
    ASSUME NEW k \in Nat, NEW stop, stop \subseteq 1 .. k, stop # {}
    PROVE  LET last == CHOOSE i \in stop : \A j \in stop : i <= j
           IN  last \in stop /\ \A j \in stop : last <= j
<1>1. PICK i \in stop : \A j \in stop : i <= j
  BY Smallest
<1> QED  BY <1>1

LEMMA RecognizeTurn ==
    ASSUME NEW env, NEW answers, NEW file, NEW chain, NEW k, IsList(chain, k),
           chain = Prov!GeminiModels(env), Prov!OcrProvider(env) # "stub",
           NEW res, res = OcrAnswers(chain, k, answers, file)
    PROVE  Turn(Prov!Recognize(env, file, answers), chain, k, res, Stops(res, k))
<1>1. k \in Nat /\ DOMAIN chain = 1 .. k
  BY DEF IsList
<1>2. PICK stop : stop = {i \in DOMAIN chain :
                     \/ Prov!CallOcrModel(answers[chain[i]], file).ok
                     \/ Prov!CallOcrModel(answers[chain[i]], file).status
                          \notin Prov!FALLBACK_STATUSES}
  OBVIOUS
<1>3. stop = Stops(res, k) /\ stop \subseteq 1 .. k
  BY <1>1, <1>2 DEF Stops, OcrAnswers
<1>4. PICK last : last = CHOOSE i \in stop : \A j \in stop : i <= j
  OBVIOUS
<1> QED  BY <1>1, <1>2, <1>3, <1>4, LeastStop DEF Turn, Prov!Recognize, Prov!AskInTurn,
            OcrAnswers

LEMMA ExtractTurn ==
    ASSUME NEW env, NEW answers, NEW text, NEW chain, NEW k, IsList(chain, k),
           chain = Prov!GeminiModels(env), Prov!ExtractionProvider(env) # "stub",
           NEW res, res = DataAnswers(chain, k, answers, text)
    PROVE  /\ Turn(Prov!Extract(env, text, answers), chain, k, res, Stops(res, k))
           /\ Turn(Prov!ExtractVehicle(env, text, answers), chain, k, res, Stops(res, k))
           /\ Turn(Prov!ExtractCompliance(env, text, answers), chain, k, res, Stops(res, k))
<1>1. k \in Nat /\ DOMAIN chain = 1 .. k
  BY DEF IsList
<1>2. PICK stop : stop = {i \in DOMAIN chain :
                     \/ Prov!CallModel(answers[chain[i]], text).ok
                     \/ Prov!CallModel(answers[chain[i]], text).status
                          \notin Prov!FALLBACK_STATUSES}
  OBVIOUS
<1>3. PICK last : last = CHOOSE i \in stop : \A j \in stop : i <= j
  OBVIOUS
<1>4. PICK r : r = IF stop = {} THEN [asked |-> chain, result |-> Prov!Exhausted]
                   ELSE [asked |-> SubSeq(chain, 1, last),
                         result |-> Prov!CallModel(answers[chain[last]], text)]
  OBVIOUS
<1>5. Turn(r, chain, k, res, Stops(res, k))
  BY <1>1, <1>2, <1>3, <1>4, LeastStop DEF Turn, DataAnswers, Stops
<1>6. Prov!VehicleExtractionProvider(env) # "stub" /\ Prov!ComplianceExtractionProvider(env) # "stub"
  BY DEF Prov!ExtractionProvider, Prov!VehicleExtractionProvider,
         Prov!ComplianceExtractionProvider
<1> QED  BY <1>2, <1>3, <1>4, <1>5, <1>6 DEF Prov!Extract, Prov!AskInTurn,
            Prov!ExtractCompliance, Prov!ExtractVehicle

\* What a question comes to: it fails for want of a model when all are limited,
\* and is answered when a model that is good comes after limited ones only.
Outcome(r, chain, k, limited, good, of) ==
    /\ r.result.ok \in BOOLEAN
    /\ r.result = Prov!Exhausted => limited = 1 .. k
    /\ r.result.ok <=> \E i \in good : \A j \in 1 .. i - 1 : j \in limited
    /\ r.result.ok => r.result.of = of
    /\ r.asked = <<>> \/ \E l : /\ IsList(r.asked, l) /\ l >= 1 /\ k >= 1
                                /\ r.asked[1] = chain[1]

\* Each answer is a success, a refusal for the moment, or a refusal for good.
Answers(res, k, limited, good, of) ==
    /\ limited \subseteq 1 .. k /\ good \subseteq 1 .. k
    /\ \A i \in 1 .. k :
         \/ i \in good /\ i \notin limited /\ res[i] = Prov!Success(of)
         \/ i \notin good /\ i \in limited
            /\ \E s \in Prov!FALLBACK_STATUSES : res[i] = Prov!Failure(s)
         \/ i \notin good /\ i \notin limited
            /\ \E s : s \notin Prov!FALLBACK_STATUSES /\ res[i] = Prov!Failure(s)

LEMMA ResultKinds ==
    /\ \A s : Prov!Failure(s) # Prov!Exhausted /\ Prov!Failure(s).ok = FALSE
              /\ Prov!Failure(s).status = s
    /\ \A of : Prov!Success(of) # Prov!Exhausted /\ Prov!Success(of).ok = TRUE
               /\ Prov!Success(of).of = of
    /\ Prov!Exhausted.ok = FALSE
<1>1. DOMAIN Prov!Exhausted = {"ok", "exhausted"}
  BY DEF Prov!Exhausted
<1>2. "exhausted" \notin {"ok", "status"} /\ "exhausted" \notin {"ok", "of"}
  OBVIOUS
<1>3. Prov!Exhausted.ok = FALSE
  BY DEF Prov!Exhausted
<1>4. \A s : Prov!Failure(s) # Prov!Exhausted
  BY <1>1, <1>2 DEF Prov!Failure
<1> QED  BY <1>1, <1>2, <1>3, <1>4 DEF Prov!Failure, Prov!Success

LEMMA TurnOutcome ==
    ASSUME NEW r, NEW chain, NEW k, IsList(chain, k), NEW res, NEW limited, NEW good, NEW of,
           Answers(res, k, limited, good, of), Turn(r, chain, k, res, Stops(res, k))
    PROVE  Outcome(r, chain, k, limited, good, of)
<1>1. k \in Nat
  BY DEF IsList
<1>2. \A i \in 1 .. k : i \in Stops(res, k) <=> i \notin limited
  BY ResultKinds DEF Answers, Stops
<1>3. limited \subseteq 1 .. k /\ good \subseteq 1 .. k /\ Stops(res, k) \subseteq 1 .. k
  BY DEF Answers, Stops
<1>4. \A i \in good : i \notin limited
  BY <1>3 DEF Answers
<1>5. CASE Stops(res, k) = {} /\ r = [asked |-> chain, result |-> Prov!Exhausted]
  <2>1. limited = 1 .. k
    BY <1>2, <1>3, <1>5
  <2>2. r.asked = <<>> \/ \E l : /\ IsList(r.asked, l) /\ l >= 1 /\ k >= 1
                                 /\ r.asked[1] = chain[1]
    BY <1>1, <1>5 DEF IsList
  <2> QED  BY <1>3, <1>4, <1>5, <2>1, <2>2, ResultKinds DEF Outcome
<1>6. ASSUME NEW l \in Stops(res, k), \A j \in Stops(res, k) : l <= j,
             r = [asked |-> SubSeq(chain, 1, l), result |-> res[l]]
      PROVE  Outcome(r, chain, k, limited, good, of)
  <2>1. l \in 1 .. k /\ l \notin limited
    BY <1>2, <1>3
  <2>2. /\ res[l].ok \in BOOLEAN /\ res[l] # Prov!Exhausted /\ (res[l].ok <=> l \in good)
        /\ res[l].ok => res[l].of = of
    <3>1. CASE l \in good
      BY <2>1, <3>1, ResultKinds DEF Answers
    <3>2. CASE l \notin good
      <4>1. PICK s : res[l] = Prov!Failure(s)
        BY <2>1, <3>2 DEF Answers
      <4> QED  BY <3>2, <4>1, ResultKinds
    <3> QED  BY <3>1, <3>2
  <2>3. (\E i \in good : \A j \in 1 .. i - 1 : j \in limited) <=> l \in good
    <3>1. ASSUME NEW i \in good, \A j \in 1 .. i - 1 : j \in limited PROVE i = l
      BY <1>1, <1>2, <1>3, <1>4, <1>6, <2>1, <3>1
    <3> QED  BY <1>1, <1>2, <1>6, <2>1, <3>1
  <2>4. PICK part : part = SubSeq(chain, 1, l)
    OBVIOUS
  <2>5. PICK S : S = {chain[i] : i \in 1 .. k}
    OBVIOUS
  <2>6. /\ part \in Seq(S) /\ Len(part) = l
        /\ \A i \in 1 .. l : part[i] = chain[i]
    BY <1>1, <2>1, <2>4, <2>5, SubSeqProperties
  <2>7. part \in [1 .. l -> S] /\ l \in Nat /\ 1 \in 1 .. l
    BY <2>1, <2>6, LenProperties
  <2> QED  BY <1>1, <1>6, <2>1, <2>2, <2>3, <2>4, <2>6, <2>7 DEF Outcome, IsList
<1> QED  BY <1>5, <1>6 DEF Turn

\* The models of a chain that are limited, and those whose answer serves.
LimitedOf(chain, k, answers) ==
    {i \in 1 .. k : answers[chain[i]].status \in Prov!FALLBACK_STATUSES}
ReadsOf(chain, k, ocr) ==
    {i \in 1 .. k : ocr[chain[i]].status = 200 /\ ocr[chain[i]].body # Prov!Blank}
FitsOf(chain, k, answers) ==
    {i \in 1 .. k : answers[chain[i]].status = 200 /\ answers[chain[i]].body = "data"}

LEMMA Statuses == 200 \notin Prov!FALLBACK_STATUSES /\ None \notin Prov!FALLBACK_STATUSES
BY RulesAssumption DEF Prov!FALLBACK_STATUSES

LEMMA OcrKinds ==
    ASSUME NEW answer, NEW file
    PROVE  \/ /\ answer.status = 200 /\ answer.body # Prov!Blank
              /\ Prov!CallOcrModel(answer, file) = Prov!Success(file)
           \/ /\ ~(answer.status = 200 /\ answer.body # Prov!Blank)
              /\ answer.status \in Prov!FALLBACK_STATUSES
              /\ Prov!CallOcrModel(answer, file) = Prov!Failure(answer.status)
           \/ /\ ~(answer.status = 200 /\ answer.body # Prov!Blank)
              /\ answer.status \notin Prov!FALLBACK_STATUSES
              /\ \E s : /\ s \notin Prov!FALLBACK_STATUSES
                        /\ Prov!CallOcrModel(answer, file) = Prov!Failure(s)
BY Statuses, Zenon DEF Prov!CallOcrModel

LEMMA DataKinds ==
    ASSUME NEW answer, NEW text
    PROVE  \/ /\ answer.status = 200 /\ answer.body = "data"
              /\ Prov!CallModel(answer, text) = Prov!Success(text)
           \/ /\ ~(answer.status = 200 /\ answer.body = "data")
              /\ answer.status \in Prov!FALLBACK_STATUSES
              /\ Prov!CallModel(answer, text) = Prov!Failure(answer.status)
           \/ /\ ~(answer.status = 200 /\ answer.body = "data")
              /\ answer.status \notin Prov!FALLBACK_STATUSES
              /\ \E s : /\ s \notin Prov!FALLBACK_STATUSES
                        /\ Prov!CallModel(answer, text) = Prov!Failure(s)
BY Statuses, Zenon DEF Prov!CallModel

LEMMA OcrOutcome ==
    ASSUME NEW chain, NEW k, NEW ocr, NEW file, NEW res, res = OcrAnswers(chain, k, ocr, file)
    PROVE  Answers(res, k, LimitedOf(chain, k, ocr), ReadsOf(chain, k, ocr), file)
<1>1. PICK limited, good : limited = LimitedOf(chain, k, ocr) /\ good = ReadsOf(chain, k, ocr)
  OBVIOUS
<1>2. ASSUME NEW i \in 1 .. k
      PROVE  \/ i \in good /\ i \notin limited /\ res[i] = Prov!Success(file)
             \/ i \notin good /\ i \in limited
                /\ \E s \in Prov!FALLBACK_STATUSES : res[i] = Prov!Failure(s)
             \/ i \notin good /\ i \notin limited
                /\ \E s : s \notin Prov!FALLBACK_STATUSES /\ res[i] = Prov!Failure(s)
  <2>1. PICK answer : answer = ocr[chain[i]]
    OBVIOUS
  <2>2. res[i] = Prov!CallOcrModel(answer, file)
    BY <2>1 DEF OcrAnswers
  <2>3. i \in limited <=> answer.status \in Prov!FALLBACK_STATUSES
    BY <1>1, <2>1 DEF LimitedOf
  <2> QED  BY <1>1, <2>1, <2>2, <2>3, OcrKinds, Statuses DEF ReadsOf
<1> QED  BY <1>1, <1>2 DEF Answers, LimitedOf, ReadsOf

LEMMA DataOutcome ==
    ASSUME NEW chain, NEW k, NEW answers, NEW text,
           NEW res, res = DataAnswers(chain, k, answers, text)
    PROVE  Answers(res, k, LimitedOf(chain, k, answers), FitsOf(chain, k, answers), text)
<1>1. PICK limited, good : limited = LimitedOf(chain, k, answers) /\ good = FitsOf(chain, k, answers)
  OBVIOUS
<1>2. ASSUME NEW i \in 1 .. k
      PROVE  \/ i \in good /\ i \notin limited /\ res[i] = Prov!Success(text)
             \/ i \notin good /\ i \in limited
                /\ \E s \in Prov!FALLBACK_STATUSES : res[i] = Prov!Failure(s)
             \/ i \notin good /\ i \notin limited
                /\ \E s : s \notin Prov!FALLBACK_STATUSES /\ res[i] = Prov!Failure(s)
  <2>1. PICK answer : answer = answers[chain[i]]
    OBVIOUS
  <2>2. res[i] = Prov!CallModel(answer, text)
    BY <2>1 DEF DataAnswers
  <2>3. i \in limited <=> answer.status \in Prov!FALLBACK_STATUSES
    BY <1>1, <2>1 DEF LimitedOf
  <2> QED  BY <1>1, <2>1, <2>2, <2>3, DataKinds, Statuses DEF FitsOf
<1> QED  BY <1>1, <1>2 DEF Answers, LimitedOf, FitsOf

\* A model answers before one refuses for good.
Answered(limited, good) == \E i \in good : \A j \in 1 .. i - 1 : j \in limited

\* The text and then the data of a file, the first with the chain if seen, the
\* second with it if parsed, and otherwise those of a stub.
Reading(text, r, chain, k, seen, parsed, ocr, answers) ==
    /\ ~seen => text = Prov!NotAsked(Prov!Success("sample"))
    /\ seen => Outcome(text, chain, k, LimitedOf(chain, k, ocr), ReadsOf(chain, k, ocr), "file")
    /\ ~text.result.ok => r = Prov!NotAsked(text.result)
    /\ text.result.ok /\ ~parsed => r = Prov!NotAsked(Prov!Success("sample"))
    /\ text.result.ok /\ parsed =>
         Outcome(r, chain, k, LimitedOf(chain, k, answers), FitsOf(chain, k, answers),
                 text.result.of)

LEMMA ReadTurns ==
    ASSUME NEW env, NEW kind \in {"invoice", "registration", "compliance"}, NEW ocr, NEW answers,
           NEW chain, NEW k, IsList(chain, k), chain = Prov!GeminiModels(env),
           NEW text, text = Prov!Recognize(env, "file", ocr),
           NEW r, r = Prov!Read(kind, env, "file", ocr, answers)
    PROVE  Reading(text, r, chain, k, env.OCR_PROVIDER = "gemini" /\ Prov!HasKey(env),
                   env.EXTRACTION_PROVIDER = "gemini" /\ Prov!HasKey(env), ocr, answers)
<1>1. PICK seen, parsed : /\ seen = (env.OCR_PROVIDER = "gemini" /\ Prov!HasKey(env))
                          /\ parsed = (env.EXTRACTION_PROVIDER = "gemini" /\ Prov!HasKey(env))
  OBVIOUS
<1>2. Prov!OcrProvider(env) = "stub" <=> ~seen
  BY <1>1 DEF Prov!OcrProvider
<1>3. /\ Prov!ExtractionProvider(env) = "stub" <=> ~parsed
      /\ Prov!VehicleExtractionProvider(env) = "stub" <=> ~parsed
      /\ Prov!ComplianceExtractionProvider(env) = "stub" <=> ~parsed
  BY <1>1 DEF Prov!ExtractionProvider, Prov!VehicleExtractionProvider,
              Prov!ComplianceExtractionProvider
<1>4. seen => Outcome(text, chain, k, LimitedOf(chain, k, ocr), ReadsOf(chain, k, ocr), "file")
  <2> HAVE seen
  <2>1. PICK res : res = OcrAnswers(chain, k, ocr, "file")
    OBVIOUS
  <2> QED  BY <1>2, <2>1, TurnOutcome, OcrOutcome, RecognizeTurn
<1>5. PICK of : of = text.result.of
  OBVIOUS
<1>6. text.result.ok => \/ r = Prov!Extract(env, of, answers)
                        \/ r = Prov!ExtractVehicle(env, of, answers)
                        \/ r = Prov!ExtractCompliance(env, of, answers)
  BY <1>5, Zenon DEF Prov!Read
<1>7. text.result.ok /\ parsed =>
         Outcome(r, chain, k, LimitedOf(chain, k, answers), FitsOf(chain, k, answers), of)
  <2> HAVE text.result.ok /\ parsed
  <2>1. PICK res : res = DataAnswers(chain, k, answers, of)
    OBVIOUS
  <2> QED  BY <1>3, <1>6, <2>1, TurnOutcome, DataOutcome, ExtractTurn
<1>8. Reading(text, r, chain, k, seen, parsed, ocr, answers)
  BY <1>2, <1>3, <1>4, <1>5, <1>6, <1>7 DEF Reading, Prov!Extract, Prov!ExtractVehicle,
     Prov!ExtractCompliance, Prov!Recognize, Prov!Read
<1> QED  BY <1>1, <1>8

\* What is asked begins with the first model of the chain.
Begins(asked, chain, k) ==
    asked = <<>> \/ \E l : IsList(asked, l) /\ l >= 1 /\ k >= 1 /\ asked[1] = chain[1]

LEMMA BeginBoth ==
    ASSUME NEW chain, NEW k, NEW s, NEW t, Begins(s, chain, k), Begins(t, chain, k)
    PROVE  Begins(s \o t, chain, k)
<1>1. PICK l : IsList(s, l) /\ (l # 0 => l >= 1 /\ k >= 1 /\ s[1] = chain[1])
  <2>1. CASE s = <<>>
    BY <2>1 DEF IsList
  <2>2. CASE s # <<>>
    <3>1. PICK j : IsList(s, j) /\ j >= 1 /\ k >= 1 /\ s[1] = chain[1]
      BY <2>2 DEF Begins
    <3> QED  BY <3>1
  <2> QED  BY <2>1, <2>2
<1>2. PICK m : IsList(t, m) /\ (m # 0 => m >= 1 /\ k >= 1 /\ t[1] = chain[1])
  <2>1. CASE t = <<>>
    BY <2>1 DEF IsList
  <2>2. CASE t # <<>>
    <3>1. PICK j : IsList(t, j) /\ j >= 1 /\ k >= 1 /\ t[1] = chain[1]
      BY <2>2 DEF Begins
    <3> QED  BY <3>1
  <2> QED  BY <2>1, <2>2
<1>3. PICK T : T = {s[i] : i \in 1 .. l} \cup {t[i] : i \in 1 .. m}
  OBVIOUS
<1>4. l \in Nat /\ m \in Nat /\ s \in [1 .. l -> T] /\ t \in [1 .. m -> T]
  BY <1>1, <1>2, <1>3 DEF IsList
<1>5. PICK c : c = s \o t
  OBVIOUS
<1>6. c \in [1 .. l + m -> T] /\ Joins(c, s, l, t, m)
  BY <1>4, <1>5, BothLists
<1>7. IsList(c, l + m)
  BY <1>4, <1>6 DEF IsList
<1>8. CASE l + m = 0
  BY <1>5, <1>6, <1>8 DEF Begins
<1>9. CASE l >= 1
  BY <1>1, <1>4, <1>5, <1>6, <1>7, <1>9 DEF Begins, Joins
<1>10. CASE l = 0 /\ m >= 1
  BY <1>2, <1>4, <1>5, <1>6, <1>7, <1>10 DEF Begins, Joins
<1> QED  BY <1>4, <1>8, <1>9, <1>10

LEMMA BeginHead ==
    ASSUME NEW chain, NEW k, NEW s, Begins(s, chain, k), s # <<>>
    PROVE  k >= 1 /\ Head(s) = chain[1]
<1>1. PICK l : IsList(s, l) /\ l >= 1 /\ k >= 1 /\ s[1] = chain[1]
  BY DEF Begins
<1>2. PICK T : T = {s[i] : i \in 1 .. l}
  OBVIOUS
<1> QED  BY <1>1, <1>2 DEF IsList

LEMMA NotAskedFacts ==
    \A x : Prov!NotAsked(x).asked = <<>> /\ Prov!NotAsked(x).result = x
BY DEF Prov!NotAsked

\* What reading a file comes to.
LEMMA ReadingFacts ==
    ASSUME NEW chain, NEW k, NEW text, NEW r, NEW seen \in BOOLEAN, NEW parsed \in BOOLEAN,
           NEW ocr, NEW answers, Reading(text, r, chain, k, seen, parsed, ocr, answers),
           NEW lo, lo = LimitedOf(chain, k, ocr), NEW go, go = ReadsOf(chain, k, ocr),
           NEW la, la = LimitedOf(chain, k, answers), NEW ga, ga = FitsOf(chain, k, answers)
    PROVE  /\ r.result = Prov!Exhausted => lo = 1 .. k \/ la = 1 .. k
           /\ r.result.ok <=> (seen => Answered(lo, go)) /\ (parsed => Answered(la, ga))
           /\ r.result.ok => r.result.of = IF seen /\ parsed THEN "file" ELSE "sample"
           /\ Begins(text.asked, chain, k) /\ Begins(r.asked, chain, k)
           /\ ~seen /\ ~parsed => text.asked = <<>> /\ r.asked = <<>>
<1>1. /\ ~seen => text = Prov!NotAsked(Prov!Success("sample"))
      /\ seen => Outcome(text, chain, k, lo, go, "file")
      /\ ~text.result.ok => r = Prov!NotAsked(text.result)
      /\ text.result.ok /\ ~parsed => r = Prov!NotAsked(Prov!Success("sample"))
      /\ text.result.ok /\ parsed => Outcome(r, chain, k, la, ga, text.result.of)
  BY DEF Reading
<1>2. PICK sample : sample = Prov!Success("sample")
  OBVIOUS
<1>3. sample # Prov!Exhausted /\ sample.ok = TRUE /\ sample.of = "sample"
  BY <1>2, ResultKinds
<1>4. /\ text.result.ok <=> (seen => Answered(lo, go))
      /\ text.result = Prov!Exhausted => lo = 1 .. k
      /\ text.result.ok => text.result.of = IF seen THEN "file" ELSE "sample"
      /\ Begins(text.asked, chain, k) /\ (~seen => text.asked = <<>>)
  <2>1. CASE seen
    BY <1>1, <2>1 DEF Outcome, Answered, Begins
  <2>2. CASE ~seen
    BY <1>1, <1>2, <1>3, <2>2, NotAskedFacts DEF Begins
  <2> QED  BY <2>1, <2>2
<1>5. CASE ~text.result.ok
  BY <1>1, <1>4, <1>5, NotAskedFacts DEF Begins
<1>6. CASE text.result.ok /\ ~parsed
  BY <1>1, <1>2, <1>3, <1>4, <1>6, NotAskedFacts DEF Begins
<1>7. CASE text.result.ok /\ parsed
  <2>1. PICK of : of = text.result.of
    OBVIOUS
  <2> QED  BY <1>1, <1>4, <1>7, <2>1 DEF Outcome, Answered, Begins
<1> QED  BY <1>5, <1>6, <1>7

\* The models of a text that stand for one, and those of an answer.
KnownModels(env) ==
    LET listed == ToSet(Prov!Listed(env.GEMINI_MODELS))
    IN  (IF listed = {} THEN ToSet(DefaultChain) ELSE listed) \cup ({env.GEMINI_MODEL} \ {Prov!Blank})

LimitedIn(known, as) == {m \in known : as[m].status \in Prov!FALLBACK_STATUSES}
ReadsIn(known, ocr)  == {m \in known : ocr[m].status = 200 /\ ocr[m].body # Prov!Blank}
FitsIn(known, as)    == {m \in known : as[m].status = 200 /\ as[m].body = "data"}

\* A model of those that serve comes after limited ones only.
Reached(chain, limited, models) ==
    \E i \in DOMAIN chain : chain[i] \in models /\ \A j \in 1 .. i - 1 : chain[j] \in limited

\* What the property says of a file, of what each name stands for.
FileReads(chain, known, result, asked, Lo, La, reads, fits, env) ==
    LET seen   == env.OCR_PROVIDER = "gemini" /\ Prov!HasKey(env)
        parsed == env.EXTRACTION_PROVIDER = "gemini" /\ Prov!HasKey(env)
    IN  /\ asked # <<>> /\ env.GEMINI_MODEL # Prov!Blank => Head(asked) = env.GEMINI_MODEL
        /\ result = Prov!Exhausted => known \in {Lo, La}
        /\ result.ok <=> /\ seen => Reached(chain, Lo, reads)
                         /\ parsed => Reached(chain, La, fits)
        /\ result.ok => result.of = IF seen /\ parsed THEN "file" ELSE "sample"
        /\ ~Prov!HasKey(env) => asked = <<>>

FileRead(env, kind, ocr, answers) ==
    FileReads(Prov!GeminiModels(env), KnownModels(env),
              Prov!Read(kind, env, "file", ocr, answers).result,
              Prov!Recognize(env, "file", ocr).asked
                \o Prov!Read(kind, env, "file", ocr, answers).asked,
              LimitedIn(KnownModels(env), ocr), LimitedIn(KnownModels(env), answers),
              ReadsIn(KnownModels(env), ocr), FitsIn(KnownModels(env), answers), env)

LEMMA AllLimited ==
    ASSUME NEW chain, NEW k, NEW known, known = {chain[i] : i \in 1 .. k}, NEW as,
           LimitedOf(chain, k, as) = 1 .. k
    PROVE  LimitedIn(known, as) = known
BY DEF LimitedIn, LimitedOf

\* The same by place and by model.
ByPlace(chain, k, known, as, L, good, models) ==
    /\ IsList(chain, k) /\ known = {chain[i] : i \in 1 .. k}
    /\ L = LimitedIn(known, as)
    /\ good = {i \in 1 .. k : chain[i] \in models}

LEMMA AnsweredSame ==
    ASSUME NEW chain, NEW k, NEW known, NEW as, NEW L, NEW good, NEW models,
           ByPlace(chain, k, known, as, L, good, models)
    PROVE  Answered(LimitedOf(chain, k, as), good) <=> Reached(chain, L, models)
<1> USE DEF ByPlace, LimitedIn
<1>1. k \in Nat /\ DOMAIN chain = 1 .. k
  BY DEF IsList
<1>2. ASSUME NEW i \in 1 .. k, NEW j \in 1 .. i - 1
      PROVE  j \in LimitedOf(chain, k, as) <=> chain[j] \in L
  <2>1. j \in 1 .. k
    BY <1>1
  <2> QED  BY <2>1 DEF LimitedOf
<1>3. ASSUME NEW i \in 1 .. k PROVE i \in good <=> chain[i] \in models
  OBVIOUS
<1>4. \A i \in 1 .. k : i \in good /\ (\A j \in 1 .. i - 1 : j \in LimitedOf(chain, k, as))
                         <=> chain[i] \in models /\ \A j \in 1 .. i - 1 : chain[j] \in L
  BY <1>2, <1>3, Zenon
<1>5. Answered(LimitedOf(chain, k, as), good)
        <=> \E i \in 1 .. k : chain[i] \in models /\ \A j \in 1 .. i - 1 : chain[j] \in L
  BY <1>4, Zenon DEF Answered
<1> QED  BY <1>1, <1>5 DEF Reached

LEMMA FileFacts ==
    ASSUME NEW raw \in Environments, NEW env \in Prov!ValidateEnv(raw),
           NEW kind \in {"invoice", "registration", "compliance"}, NEW ocr, NEW answers
    PROVE  FileRead(env, kind, ocr, answers)
<1>1. PICK chain : chain = Prov!GeminiModels(env)
  OBVIOUS
<1>2. PICK known : known = KnownModels(env)
  OBVIOUS
<1>3. PICK k : ChainOf(chain, k, known, env.GEMINI_MODEL)
  <2>1. PICK listed : listed = ToSet(Prov!Listed(env.GEMINI_MODELS))
    OBVIOUS
  <2>2. known = (IF listed = {} THEN ToSet(DefaultChain) ELSE listed)
                  \cup ({env.GEMINI_MODEL} \ {Prov!Blank})
    BY <1>2, <2>1 DEF KnownModels
  <2> QED  BY <1>1, <2>1, <2>2, ChainFacts
<1>5. IsList(chain, k)
  BY <1>3 DEF ChainOf
<1>6. known = {chain[i] : i \in 1 .. k}
  BY <1>3 DEF ChainOf
<1>7. PICK seen \in BOOLEAN : seen = (env.OCR_PROVIDER = "gemini" /\ Prov!HasKey(env))
  OBVIOUS
<1>8. PICK parsed \in BOOLEAN : parsed = (env.EXTRACTION_PROVIDER = "gemini" /\ Prov!HasKey(env))
  OBVIOUS
<1>9. PICK text : text = Prov!Recognize(env, "file", ocr)
  OBVIOUS
<1>10. PICK r : r = Prov!Read(kind, env, "file", ocr, answers)
  OBVIOUS
<1>11. Reading(text, r, chain, k, seen, parsed, ocr, answers)
  <2>1. Reading(text, r, chain, k, env.OCR_PROVIDER = "gemini" /\ Prov!HasKey(env),
                env.EXTRACTION_PROVIDER = "gemini" /\ Prov!HasKey(env), ocr, answers)
    BY <1>1, <1>5, <1>9, <1>10, ReadTurns
  <2> QED  BY <1>7, <1>8, <2>1
<1>12. PICK lo, go : lo = LimitedOf(chain, k, ocr) /\ go = ReadsOf(chain, k, ocr)
  OBVIOUS
<1>13. PICK la, ga : la = LimitedOf(chain, k, answers) /\ ga = FitsOf(chain, k, answers)
  OBVIOUS
<1>14. /\ r.result = Prov!Exhausted => lo = 1 .. k \/ la = 1 .. k
       /\ r.result.ok <=> (seen => Answered(lo, go)) /\ (parsed => Answered(la, ga))
       /\ r.result.ok => r.result.of = IF seen /\ parsed THEN "file" ELSE "sample"
       /\ Begins(text.asked, chain, k) /\ Begins(r.asked, chain, k)
       /\ ~seen /\ ~parsed => text.asked = <<>> /\ r.asked = <<>>
  BY <1>11, <1>12, <1>13, ReadingFacts
<1>15. PICK asked : asked = text.asked \o r.asked
  OBVIOUS
<1>16. asked # <<>> /\ env.GEMINI_MODEL # Prov!Blank => Head(asked) = env.GEMINI_MODEL
  <2>1. Begins(asked, chain, k)
    BY <1>14, <1>15, BeginBoth
  <2>2. asked # <<>> => Head(asked) = chain[1]
    BY <2>1, BeginHead
  <2>3. env.GEMINI_MODEL # Prov!Blank => chain[1] = env.GEMINI_MODEL
    BY <1>3 DEF ChainOf
  <2> QED  BY <2>2, <2>3
<1>17. PICK Lo, La : Lo = LimitedIn(known, ocr) /\ La = LimitedIn(known, answers)
  OBVIOUS
<1>18. r.result = Prov!Exhausted => known \in {Lo, La}
  <2>1. lo = 1 .. k => Lo = known
    BY <1>6, <1>12, <1>17, AllLimited
  <2>2. la = 1 .. k => La = known
    BY <1>6, <1>13, <1>17, AllLimited
  <2> QED  BY <1>14, <2>1, <2>2
<1>19. PICK reads, fits : reads = ReadsIn(known, ocr) /\ fits = FitsIn(known, answers)
  OBVIOUS
<1>20. Answered(lo, go) <=> Reached(chain, Lo, reads)
  <2>1. go = {i \in 1 .. k : chain[i] \in reads}
    BY <1>6, <1>12, <1>19 DEF ReadsIn, ReadsOf
  <2>2. ByPlace(chain, k, known, ocr, Lo, go, reads)
    BY <1>5, <1>6, <1>17, <2>1 DEF ByPlace
  <2>3. Answered(LimitedOf(chain, k, ocr), go) <=> Reached(chain, Lo, reads)
    BY <2>2, AnsweredSame
  <2> QED  BY <1>12, <2>3
<1>21. Answered(la, ga) <=> Reached(chain, La, fits)
  <2>1. ga = {i \in 1 .. k : chain[i] \in fits}
    BY <1>6, <1>13, <1>19 DEF FitsIn, FitsOf
  <2>2. ByPlace(chain, k, known, answers, La, ga, fits)
    BY <1>5, <1>6, <1>17, <2>1 DEF ByPlace
  <2>3. Answered(LimitedOf(chain, k, answers), ga) <=> Reached(chain, La, fits)
    BY <2>2, AnsweredSame
  <2> QED  BY <1>13, <2>3
<1>22. ~Prov!HasKey(env) => asked = <<>>
  <2> HAVE ~Prov!HasKey(env)
  <2>1. text.asked = <<>> /\ r.asked = <<>>
    BY <1>7, <1>8, <1>14
  <2>2. <<>> \o <<>> = <<>>
    OBVIOUS
  <2> QED  BY <1>15, <2>1, <2>2
<1>23. /\ asked = Prov!Recognize(env, "file", ocr).asked
                    \o Prov!Read(kind, env, "file", ocr, answers).asked
       /\ r.result = Prov!Read(kind, env, "file", ocr, answers).result
  BY <1>9, <1>10, <1>15
<1>24. r.result.ok <=> (seen => Reached(chain, Lo, reads)) /\ (parsed => Reached(chain, La, fits))
  BY <1>14, <1>20, <1>21, Zenon
<1>25. r.result.ok => r.result.of = IF seen /\ parsed THEN "file" ELSE "sample"
  BY <1>14
<1>26. FileReads(chain, known, r.result, asked, Lo, La, reads, fits, env)
  BY <1>7, <1>8, <1>16, <1>18, <1>22, <1>24, <1>25 DEF FileReads
<1> QED  BY <1>1, <1>2, <1>17, <1>19, <1>23, <1>26 DEF FileRead

\* What the property says of the feeds, with its names.
FeedsFail(env, fleet, answers) ==
    LET own(v) == {r.reference : r \in Prov!QueryRecalls(env, v, answers[v.id])}
        shown  == Prov!GetRecalls(env, fleet, answers)
        same(v, w) == v.make = w.make /\ v.model = w.model /\ v.year = w.year
    IN  /\ shown \subseteq UNION {own(v) : v \in fleet}
        /\ \A v \in fleet :
             /\ \E w \in fleet : same(v, w) /\ own(w) \subseteq shown
             /\ LET check == Prov!Verify(env, [plate |-> v.make, vin |-> v.model],
                                         answers[v.id])
                IN  /\ check.called => env.RO_VERIFY_API_URL # Prov!Blank
                    /\ check.status = "error" /\ check.called =>
                         answers[v.id].status # 200 \/ answers[v.id].body = "words"
        /\ Prov!WebAppUrl(env) # Prov!Blank

LEMMA LeastOf ==
    ASSUME NEW V, NEW v0 \in V, \A v \in V : v.id \in Nat
    PROVE  \E w \in V : \A u \in V : w.id <= u.id
<1>1. PICK S : S = {v.id : v \in V}
  OBVIOUS
<1>2. PICK n \in S : \A m \in S : n <= m
  BY <1>1, Smallest
<1> QED  BY <1>1, <1>2

LEMMA RecallFacts ==
    ASSUME NEW env, NEW fleet, \A v \in fleet : v.id \in Nat, NEW answers,
           NEW shown, shown = Prov!GetRecalls(env, fleet, answers)
    PROVE  /\ shown \subseteq UNION {{r.reference : r \in Prov!QueryRecalls(env, v, answers[v.id])} :
                                       v \in fleet}
           /\ \A v \in fleet : \E w \in fleet :
                /\ v.make = w.make /\ v.model = w.model /\ v.year = w.year
                /\ {r.reference : r \in Prov!QueryRecalls(env, w, answers[w.id])} \subseteq shown
<1>1. PICK own : own = [v \in fleet |->
                          {r.reference : r \in Prov!QueryRecalls(env, v, answers[v.id])}]
  OBVIOUS
<1>2. PICK queries : queries = {v \in fleet : \A w \in fleet :
                         v.make = w.make /\ v.model = w.model /\ v.year = w.year => v.id <= w.id}
  OBVIOUS
<1>3. shown = UNION {own[v] : v \in queries}
  BY <1>1, <1>2 DEF Prov!GetRecalls
<1>4. ASSUME NEW v \in fleet
      PROVE  \E w \in fleet : /\ v.make = w.make /\ v.model = w.model /\ v.year = w.year
                              /\ own[w] \subseteq shown
  <2>1. PICK V : V = {w \in fleet : v.make = w.make /\ v.model = w.model /\ v.year = w.year}
    OBVIOUS
  <2>2. PICK w \in V : \A u \in V : w.id <= u.id
    BY <2>1, LeastOf
  <2> QED  BY <1>2, <1>3, <2>1, <2>2
<1>5. \A v \in fleet : \E w \in fleet :
        /\ v.make = w.make /\ v.model = w.model /\ v.year = w.year
        /\ {r.reference : r \in Prov!QueryRecalls(env, w, answers[w.id])} \subseteq shown
  <2> TAKE v \in fleet
  <2>1. PICK w \in fleet : /\ v.make = w.make /\ v.model = w.model /\ v.year = w.year
                           /\ own[w] \subseteq shown
    BY <1>4
  <2> QED  BY <1>1, <2>1
<1> QED  BY <1>1, <1>2, <1>3, <1>5

LEMMA VerifyFacts ==
    ASSUME NEW env, NEW vehicle, NEW answer, NEW check, check = Prov!Verify(env, vehicle, answer)
    PROVE  /\ check.called => env.RO_VERIFY_API_URL # Prov!Blank
           /\ check.status = "error" /\ check.called =>
                answer.status # 200 \/ answer.body = "words"
<1>1. \/ check = [status |-> "not_found", called |-> FALSE]
      \/ check = [status |-> "ok", called |-> FALSE]
      \/ check = [status |-> "error", called |-> FALSE]
      \/ /\ env.RO_VERIFY_API_URL # Prov!Blank
         /\ answer.status # 200 \/ answer.body = "words"
         /\ check = [status |-> "error", called |-> TRUE]
      \/ /\ env.RO_VERIFY_API_URL # Prov!Blank
         /\ check = [status |-> IF answer.body = "not_found" THEN "not_found" ELSE "ok",
                     called |-> TRUE]
  BY Zenon DEF Prov!Verify
<1> QED  BY <1>1

LEMMA UrlFacts ==
    ASSUME NEW raw \in Environments, NEW env \in Prov!ValidateEnv(raw)
    PROVE  Prov!WebAppUrl(env) # Prov!Blank
<1>1. PICK n : IsList(env.CORS_ORIGINS, n)
  BY ParsedFacts DEF Prov!Lists
<1>2. PICK origins, cors : cors = env.CORS_ORIGINS /\ origins = Prov!Listed(cors)
  OBVIOUS
<1>3. PICK m : IsList(origins, m) /\ \A k \in 1 .. m : origins[k] # Prov!Blank
  BY <1>1, <1>2, ListedFacts
<1>4. origins # <<>> => Head(origins) # Prov!Blank
  <2> HAVE origins # <<>>
  <2>1. PICK T : T = {origins[k] : k \in 1 .. m}
    OBVIOUS
  <2> QED  BY <1>3, <2>1 DEF IsList
<1>5. "http://localhost:3000" # Prov!Blank
  BY Zenon DEF Prov!Blank
<1> QED  BY <1>2, <1>4, <1>5 DEF Prov!WebAppUrl

LEMMA FeedsFacts ==
    ASSUME NEW raw \in Environments, NEW env \in Prov!ValidateEnv(raw), NEW fleet \in RecallFleets,
           NEW answers
    PROVE  FeedsFail(env, fleet, answers)
<1>1. PICK shown : shown = Prov!GetRecalls(env, fleet, answers)
  OBVIOUS
<1>2. /\ shown \subseteq UNION {{r.reference : r \in Prov!QueryRecalls(env, v, answers[v.id])} :
                                  v \in fleet}
      /\ \A v \in fleet : \E w \in fleet :
           /\ v.make = w.make /\ v.model = w.model /\ v.year = w.year
           /\ {r.reference : r \in Prov!QueryRecalls(env, w, answers[w.id])} \subseteq shown
  BY <1>1, RecallFacts, ServiceAssumption
<1>3. ASSUME NEW v \in fleet, NEW check,
             check = Prov!Verify(env, [plate |-> v.make, vin |-> v.model], answers[v.id])
      PROVE  /\ check.called => env.RO_VERIFY_API_URL # Prov!Blank
             /\ check.status = "error" /\ check.called =>
                  answers[v.id].status # 200 \/ answers[v.id].body = "words"
  BY <1>3, VerifyFacts
<1> QED  BY <1>1, <1>2, <1>3, UrlFacts, Zenon DEF FeedsFail

-----------------------------------------------------------------------------
(* Sorted numbers *)

\* o lists the n numbers of s in order, the k-th of them from the place p[k].
Ranked(o, s, p, n) ==
    /\ n \in Nat /\ Lists(p, 1 .. n) /\ p \in [1 .. n -> 1 .. n]
    /\ o \in [1 .. n -> Int] /\ o = [k \in 1 .. n |-> s[p[k]]]
    /\ \A k, l \in 1 .. n : k <= l => o[k] <= o[l]

Numbers(s, n) == n \in Nat /\ s \in [1 .. n -> Int]

LEMMA SortedNumbers ==
    ASSUME NEW s, NEW n, Numbers(s, n), NEW before,
           before = [i \in 1 .. n |-> {j \in 1 .. n : s[j] < s[i]}],
           NEW o, o = Along(s, Arranged([i \in 1 .. n |->
                        {j \in 1 .. n : s[j] < s[i] \/ (~(s[i] < s[j]) /\ j <= i)}]))
    PROVE  \E p : Ranked(o, s, p, n)
<1>1. n \in Nat /\ s \in [1 .. n -> Int] /\ DOMAIN s = 1 .. n
  BY DEF Numbers
<1>2. \A i, j \in 1 .. n : i \in before[j] <=> s[i] < s[j]
  OBVIOUS
<1>3. Precedes(before, n)
  BY <1>1, <1>2 DEF Precedes
<1>4. PICK p : InOrder(o, s, p, before, n)
  BY <1>1, <1>2, <1>3, SortFacts DEF SortsBy
<1>5. /\ Lists(p, 1 .. n) /\ p \in [1 .. n -> 1 .. n]
      /\ \A k, l \in 1 .. n : k < l => p[l] \notin before[p[k]]
      /\ o = [k \in 1 .. n |-> s[p[k]]]
  BY <1>4 DEF InOrder
<1>6. \A k \in 1 .. n : p[k] \in 1 .. n /\ o[k] = s[p[k]] /\ o[k] \in Int
  BY <1>1, <1>5
<1>7. ASSUME NEW k \in 1 .. n, NEW l \in 1 .. n, k <= l PROVE o[k] <= o[l]
  <2>1. CASE k = l
    BY <1>6, <2>1
  <2>2. CASE k < l
    <3>1. ~(s[p[l]] < s[p[k]])
      BY <1>2, <1>5, <1>6, <2>2
    <3> QED  BY <1>6, <3>1
  <2> QED  BY <1>1, <1>7, <2>1, <2>2
<1> QED  BY <1>1, <1>5, <1>6, <1>7 DEF Ranked

LEMMA CostSorted ==
    ASSUME NEW s, NEW n, Numbers(s, n)
    PROVE  \E p : Ranked(Cost!Sorted(s), s, p, n)
<1>1. PICK up : up = [i \in 1 .. n |->
                        {j \in 1 .. n : s[j] < s[i] \/ (~(s[i] < s[j]) /\ j <= i)}]
  OBVIOUS
<1>2. PICK before, o : /\ before = [i \in 1 .. n |-> {j \in 1 .. n : s[j] < s[i]}]
                       /\ o = Cost!Sorted(s)
  OBVIOUS
<1> QED  BY <1>1, <1>2, SortedNumbers, CostAlong DEF Cost!Sorted, Cost!SortedBy, Numbers

-----------------------------------------------------------------------------
(* Percentiles *)

\* A product of two that vary.
Times(x, y) == x * y

LEMMA TimesInt == \A x, y \in Int : Times(x, y) \in Int
BY DEF Times

LEMMA TimesHundred == \A x \in Int : Times(x, 100) = 100 * x
BY DEF Times

LEMMA NotNegative ==
    ASSUME NEW x \in Int, NEW y \in Int, x >= 0, y >= 0
    PROVE  Times(x, y) >= 0
BY DEF Times

LEMMA TimesGrow ==
    ASSUME NEW d \in Int, d >= 0, NEW x \in Int, NEW y \in Int, x <= y
    PROVE  Times(d, x) <= Times(d, y)
<1>1. PICK e \in Int : e = y - x /\ e >= 0
  OBVIOUS
<1>2. Times(d, e) >= 0
  BY <1>1, NotNegative
<1>3. Times(d, e) = Times(d, y) - Times(d, x)
  BY <1>1 DEF Times
<1> QED  BY <1>2, <1>3, TimesInt

\* Between a and b, r hundredths of the way.
Mixed(a, b, r) == a * (100 - r) + b * r

Apart(a, b, d) == a \in Int /\ b \in Int /\ d \in Int /\ d = b - a

LEMMA MixedFrom ==
    ASSUME NEW a, NEW b, NEW d, Apart(a, b, d), NEW r \in 0 .. 100
    PROVE  Mixed(a, b, r) = 100 * a + Times(d, r)
<1> USE DEF Apart
<1>1. a * (100 - r) = 100 * a - a * r
  OBVIOUS
<1>2. d * r = b * r - a * r
  OBVIOUS
<1>3. a * r \in Int /\ b * r \in Int /\ d * r \in Int /\ a * (100 - r) \in Int
  OBVIOUS
<1> QED  BY <1>1, <1>2, <1>3 DEF Mixed, Times

Between(a, b, m) == m \in Int /\ 100 * a <= m /\ m <= 100 * b

LEMMA MixedFacts ==
    ASSUME NEW a \in Int, NEW b \in Int, a <= b, NEW r \in 0 .. 100
    PROVE  Between(a, b, Mixed(a, b, r))
<1>1. PICK d \in Int : d = b - a /\ Apart(a, b, d)
  BY DEF Apart
<1>2. PICK q \in Int : q = r
  OBVIOUS
<1>3. d >= 0 /\ 0 <= q /\ q <= 100
  BY <1>1, <1>2
<1>4. PICK x \in Int : x = Times(d, q)
  BY TimesInt
<1>5. 0 <= x
  BY <1>3, <1>4, NotNegative
<1>6. x <= 100 * d
  <2>1. PICK h \in Int : h = 100 /\ q <= h
    BY <1>3
  <2>2. Times(d, q) <= Times(d, h)
    BY <1>3, <2>1, TimesGrow
  <2>3. Times(d, h) = 100 * d
    BY <2>1, TimesHundred
  <2> QED  BY <1>4, <2>2, <2>3
<1>7. Mixed(a, b, r) = 100 * a + x
  BY <1>1, <1>2, <1>4, MixedFrom
<1> QED  BY <1>1, <1>5, <1>6, <1>7 DEF Between

LEMMA MixedGrows ==
    ASSUME NEW a \in Int, NEW b \in Int, a <= b, NEW r \in 0 .. 100, NEW q \in 0 .. 100, r <= q
    PROVE  Mixed(a, b, r) <= Mixed(a, b, q)
<1>1. PICK d \in Int : d = b - a /\ Apart(a, b, d)
  BY DEF Apart
<1>2. PICK v \in Int, w \in Int : v = r /\ w = q
  OBVIOUS
<1>3. d >= 0 /\ v <= w
  BY <1>1, <1>2
<1>4. PICK x \in Int, y \in Int : x = Times(d, v) /\ y = Times(d, w)
  BY TimesInt
<1>5. x <= y
  BY <1>3, <1>4, TimesGrow
<1>6. Mixed(a, b, r) = 100 * a + x
  BY <1>1, <1>2, <1>4, MixedFrom
<1>7. Mixed(a, b, q) = 100 * a + y
  BY <1>1, <1>2, <1>4, MixedFrom
<1> QED  BY <1>5, <1>6, <1>7

\* The place and the way to the next that a percentile of n numbers falls on.
PlaceOf(p, n) == (p * (n - 1)) \div 100
WayOf(p, n)   == (p * (n - 1)) % 100

\* What the percentile p of the n ordered numbers o is.
At(o, n, p) ==
    IF WayOf(p, n) = 0 THEN 100 * o[PlaceOf(p, n) + 1]
    ELSE Mixed(o[PlaceOf(p, n) + 1], o[PlaceOf(p, n) + 2], WayOf(p, n))

Placed(p, n, l, w) ==
    /\ l = PlaceOf(p, n) /\ w = WayOf(p, n)
    /\ l \in 0 .. n - 1 /\ w \in 0 .. 99 /\ (w # 0 => l + 2 \in 1 .. n)
    /\ Times(n - 1, p) = 100 * l + w

LEMMA PlaceFacts ==
    ASSUME NEW n \in Nat, n >= 1, NEW p \in 0 .. 100
    PROVE  Placed(p, n, PlaceOf(p, n), WayOf(p, n))
<1>1. PICK m \in Nat : m = n - 1
  OBVIOUS
<1>2. PICK x \in Int : x = Times(m, p) /\ x = p * m
  BY DEF Times
<1>3. 0 <= x /\ x <= 100 * m
  <2>1. PICK q \in Int, h \in Int : q = p /\ h = 100 /\ 0 <= q /\ q <= h
    OBVIOUS
  <2>2. 0 <= Times(m, q)
    BY <2>1, NotNegative
  <2>3. Times(m, q) <= Times(m, h)
    BY <2>1, TimesGrow
  <2>4. Times(m, h) = 100 * m
    BY <2>1, TimesHundred
  <2> QED  BY <1>2, <2>1, <2>2, <2>3, <2>4
<1>4. PICK l \in Int, w \in Int : l = x \div 100 /\ w = x % 100
  OBVIOUS
<1>5. x = 100 * l + w /\ 0 <= w /\ w < 100
  BY <1>4
<1>6. l \in 0 .. n - 1 /\ w \in 0 .. 99 /\ (w # 0 => l + 2 \in 1 .. n)
  BY <1>1, <1>3, <1>5
<1>7. l = PlaceOf(p, n) /\ w = WayOf(p, n) /\ Times(n - 1, p) = x
  BY <1>1, <1>2, <1>4 DEF PlaceOf, WayOf
<1> QED  BY <1>1, <1>5, <1>6, <1>7 DEF Placed

OrderOf(o, s, n) ==
    Numbers(s, n) /\ n >= 1 /\ o = Cost!Sorted(s) /\ o \in [1 .. n -> Int]

LEMMA PercentileAt ==
    ASSUME NEW s, NEW n, NEW o, OrderOf(o, s, n), NEW p \in 0 .. 100
    PROVE  Cost!Percentile100(s, p) = At(o, n, p)
<1>1. /\ n \in Nat /\ s \in [1 .. n -> Int] /\ s \in Seq(Int) /\ Len(s) = n /\ s # <<>>
      /\ n >= 1 /\ o = Cost!Sorted(s) /\ o \in [1 .. n -> Int]
  BY DEF Numbers, OrderOf
<1>2. PICK l, w : Placed(p, n, l, w)
  BY <1>1, PlaceFacts
<1>3. /\ l = PlaceOf(p, n) /\ w = WayOf(p, n)
      /\ l \in 0 .. n - 1 /\ w \in 0 .. 99 /\ (w # 0 => l + 2 \in 1 .. n)
  BY <1>2 DEF Placed
<1>4. Cost!Percentile100(s, p)
        = o[l + 1] * (100 - w) + o[(IF w = 0 THEN l ELSE l + 1) + 1] * w
  BY <1>1, <1>3 DEF Cost!Percentile100, PlaceOf, WayOf
<1>5. CASE w = 0
  BY <1>1, <1>3, <1>4, <1>5 DEF At
<1>6. CASE w # 0
  BY <1>3, <1>4, <1>6 DEF At, Mixed
<1> QED  BY <1>5, <1>6

Rising(o, n) ==
    /\ n \in Nat /\ n >= 1 /\ o \in [1 .. n -> Int]
    /\ \A k, l \in 1 .. n : k <= l => o[k] <= o[l]

LEMMA RisingSteps ==
    ASSUME NEW o, NEW n, Rising(o, n), NEW i \in 1 .. n, NEW j \in 1 .. n, i <= j
    PROVE  o[i] <= o[j] /\ o[i] \in Int /\ o[j] \in Int
BY DEF Rising

AtBetween(o, n, l, x) ==
    /\ x \in Int /\ l \in 0 .. n - 1 /\ 100 * o[l + 1] <= x
    /\ \A k \in l + 2 .. n : x <= 100 * o[k]
    /\ x <= 100 * o[n]

LEMMA AtBounds ==
    ASSUME NEW o, NEW n, Rising(o, n), NEW p \in 0 .. 100, NEW l, NEW w, Placed(p, n, l, w)
    PROVE  AtBetween(o, n, l, At(o, n, p))
<1>1. n \in Nat /\ n >= 1 /\ o \in [1 .. n -> Int]
  BY DEF Rising
<1>2. l = PlaceOf(p, n) /\ w = WayOf(p, n)
  BY DEF Placed
<1>3. l \in 0 .. n - 1 /\ w \in 0 .. 99 /\ (w # 0 => l + 2 \in 1 .. n)
  BY DEF Placed
<1>4. PICK a \in Int : a = o[l + 1]
  BY <1>1, <1>3
<1>5. ASSUME NEW k \in l + 1 .. n PROVE 100 * a <= 100 * o[k]
  <2>1. PICK i \in 1 .. n : i = l + 1 /\ i <= k /\ k \in 1 .. n
    BY <1>1, <1>3
  <2>2. o[i] <= o[k] /\ o[k] \in Int
    BY <2>1, RisingSteps
  <2> QED  BY <1>4, <2>1, <2>2
<1>6. CASE w = 0
  <2>1. At(o, n, p) = 100 * a
    BY <1>2, <1>4, <1>6 DEF At
  <2>2. \A k \in l + 1 .. n : 100 * a <= 100 * o[k]
    BY <1>5
  <2>3. n \in l + 1 .. n /\ \A k \in l + 2 .. n : k \in l + 1 .. n
    BY <1>1, <1>3
  <2> QED  BY <1>3, <1>4, <2>1, <2>2, <2>3 DEF AtBetween
<1>7. CASE w # 0
  <2>1. PICK b \in Int : b = o[l + 2] /\ a <= b
    <3>1. PICK i \in 1 .. n, j \in 1 .. n : i = l + 1 /\ j = l + 2 /\ i <= j
      BY <1>1, <1>3, <1>7
    <3>2. o[i] <= o[j] /\ o[j] \in Int
      BY <3>1, RisingSteps
    <3> QED  BY <1>4, <3>1, <3>2
  <2>2. At(o, n, p) = Mixed(a, b, w)
    BY <1>2, <1>4, <1>7, <2>1 DEF At
  <2>3. Mixed(a, b, w) \in Int /\ 100 * a <= Mixed(a, b, w) /\ Mixed(a, b, w) <= 100 * b
    <3>1. w \in 0 .. 100
      BY <1>3
    <3>2. Between(a, b, Mixed(a, b, w))
      BY <2>1, <3>1, MixedFacts
    <3> QED  BY <3>2 DEF Between
  <2>4. ASSUME NEW k \in l + 2 .. n PROVE 100 * b <= 100 * o[k] /\ o[k] \in Int
    <3>1. PICK i \in 1 .. n : i = l + 2 /\ i <= k /\ k \in 1 .. n
      BY <1>1, <1>3, <1>7
    <3>2. o[i] <= o[k] /\ o[k] \in Int
      BY <3>1, RisingSteps
    <3> QED  BY <2>1, <3>1, <3>2
  <2>5. n \in l + 2 .. n
    BY <1>1, <1>3, <1>7
  <2>6. \A k \in l + 2 .. n : Mixed(a, b, w) <= 100 * o[k]
    BY <2>1, <2>3, <2>4
  <2> QED  BY <1>3, <1>4, <2>2, <2>3, <2>5, <2>6 DEF AtBetween
<1> QED  BY <1>6, <1>7

LEMMA AtGrows ==
    ASSUME NEW o, NEW n, Rising(o, n), NEW p \in 0 .. 100, NEW q \in 0 .. 100, p <= q
    PROVE  At(o, n, p) <= At(o, n, q)
<1>1. n \in Nat /\ n >= 1 /\ o \in [1 .. n -> Int]
  BY DEF Rising
<1>2. PICK l, w : Placed(p, n, l, w)
  BY <1>1, PlaceFacts
<1>3. PICK m, v : Placed(q, n, m, v)
  BY <1>1, PlaceFacts
<1>4. /\ l \in 0 .. n - 1 /\ w \in 0 .. 99 /\ (w # 0 => l + 2 \in 1 .. n)
      /\ Times(n - 1, p) = 100 * l + w
  BY <1>2 DEF Placed
<1>5. /\ m \in 0 .. n - 1 /\ v \in 0 .. 99 /\ (v # 0 => m + 2 \in 1 .. n)
      /\ Times(n - 1, q) = 100 * m + v
  BY <1>3 DEF Placed
<1>6. 100 * l + w <= 100 * m + v
  <2>1. PICK g \in Int : g = n - 1 /\ g >= 0
    BY <1>1
  <2>2. p \in Int /\ q \in Int
    OBVIOUS
  <2>3. Times(g, p) <= Times(g, q)
    BY <2>1, <2>2, TimesGrow
  <2> QED  BY <1>4, <1>5, <2>1, <2>3
<1>7. PICK x, y : x = At(o, n, p) /\ y = At(o, n, q)
  OBVIOUS
<1>8. AtBetween(o, n, l, x) /\ AtBetween(o, n, m, y)
  BY <1>2, <1>3, <1>7, AtBounds
<1>9. x \in Int /\ y \in Int
  BY <1>8 DEF AtBetween
<1>10. /\ x = IF w = 0 THEN 100 * o[l + 1] ELSE Mixed(o[l + 1], o[l + 2], w)
       /\ y = IF v = 0 THEN 100 * o[m + 1] ELSE Mixed(o[m + 1], o[m + 2], v)
  <2>1. l = PlaceOf(p, n) /\ w = WayOf(p, n) /\ m = PlaceOf(q, n) /\ v = WayOf(q, n)
    BY <1>2, <1>3 DEF Placed
  <2> QED  BY <1>7, <2>1 DEF At
<1>11. CASE l = m
  <2>1. w <= v
    BY <1>4, <1>5, <1>6, <1>11
  <2>2. PICK a \in Int : a = o[l + 1]
    BY <1>1, <1>4
  <2>3. CASE v = 0
    <3>1. w = 0
      BY <1>4, <2>1, <2>3
    <3>2. x = y
      BY <1>10, <1>11, <2>3, <3>1
    <3> QED  BY <1>7, <1>9, <3>2
  <2>4. CASE v # 0
    <3>1. PICK b \in Int : b = o[l + 2] /\ a <= b
      <4>1. PICK i \in 1 .. n, j \in 1 .. n : i = l + 1 /\ j = l + 2 /\ i <= j
        BY <1>1, <1>4, <1>5, <1>11, <2>4
      <4>2. o[i] <= o[j] /\ o[j] \in Int
        BY <4>1, RisingSteps
      <4> QED  BY <2>2, <4>1, <4>2
    <3>2. y = Mixed(a, b, v)
      BY <1>10, <1>11, <2>2, <2>4, <3>1
    <3>3. w \in 0 .. 100 /\ v \in 0 .. 100
      BY <1>4, <1>5
    <3>4. Mixed(a, b, w) \in Int /\ 100 * a <= Mixed(a, b, w) /\ Mixed(a, b, v) \in Int
      <4>1. Between(a, b, Mixed(a, b, w)) /\ Between(a, b, Mixed(a, b, v))
        BY <3>1, <3>3, MixedFacts
      <4> QED  BY <4>1 DEF Between
    <3>5. Mixed(a, b, w) <= Mixed(a, b, v)
      BY <2>1, <3>1, <3>3, MixedGrows
    <3>6. x = 100 * a \/ x = Mixed(a, b, w)
      BY <1>10, <2>2, <3>1
    <3> QED  BY <1>7, <1>9, <2>2, <3>2, <3>4, <3>5, <3>6
  <2> QED  BY <2>3, <2>4
<1>12. CASE l # m
  <2>1. l + 1 <= m
    BY <1>4, <1>5, <1>6, <1>12
  <2>2. m + 1 \in l + 2 .. n
    BY <1>1, <1>4, <1>5, <2>1
  <2>3. x <= 100 * o[m + 1]
    <3>1. \A k \in l + 2 .. n : x <= 100 * o[k]
      BY <1>8 DEF AtBetween
    <3> QED  BY <2>2, <3>1
  <2>4. 100 * o[m + 1] <= y
    BY <1>8 DEF AtBetween
  <2>5. o[m + 1] \in Int
    BY <1>1, <1>5
  <2> QED  BY <1>7, <1>9, <2>3, <2>4, <2>5
<1> QED  BY <1>11, <1>12

\* The three percentiles of a cell, between prices of it.
Quartiles(s, n, p25, p50, p75) ==
    /\ p25 <= p50 /\ p50 <= p75
    /\ \E i, j \in 1 .. n : 100 * s[i] <= p25 /\ p75 <= 100 * s[j]

LEMMA QuartileFacts ==
    ASSUME NEW s, NEW n, Numbers(s, n), n >= 1
    PROVE  Quartiles(s, n, Cost!Percentile100(s, 25), Cost!Percentile100(s, 50),
                     Cost!Percentile100(s, 75))
<1>1. PICK o : o = Cost!Sorted(s)
  OBVIOUS
<1>2. PICK p : Ranked(o, s, p, n)
  BY <1>1, CostSorted
<1>3. /\ n \in Nat /\ p \in [1 .. n -> 1 .. n] /\ o \in [1 .. n -> Int]
      /\ o = [k \in 1 .. n |-> s[p[k]]]
  BY <1>2 DEF Ranked
<1>4. Rising(o, n)
  BY <1>2 DEF Ranked, Rising
<1>5. ASSUME NEW q \in 0 .. 100 PROVE Cost!Percentile100(s, q) = At(o, n, q)
  <2>1. OrderOf(o, s, n)
    BY <1>1, <1>3 DEF OrderOf
  <2> QED  BY <2>1, PercentileAt
<1>6. 25 \in 0 .. 100 /\ 50 \in 0 .. 100 /\ 75 \in 0 .. 100
  OBVIOUS
<1>7. PICK a, b, c : a = At(o, n, 25) /\ b = At(o, n, 50) /\ c = At(o, n, 75)
  OBVIOUS
<1>8. a <= b
  <2>1. PICK x, y \in 0 .. 100 : x = 25 /\ y = 50 /\ x <= y
    BY <1>6
  <2>2. At(o, n, x) <= At(o, n, y)
    BY <1>4, <2>1, AtGrows
  <2> QED  BY <1>7, <2>1, <2>2
<1>9. b <= c
  <2>1. PICK x, y \in 0 .. 100 : x = 50 /\ y = 75 /\ x <= y
    BY <1>6
  <2>2. At(o, n, x) <= At(o, n, y)
    BY <1>4, <2>1, AtGrows
  <2> QED  BY <1>7, <2>1, <2>2
<1>10. 100 * o[1] <= a
  <2>1. PICK l, w : Placed(25, n, l, w)
    BY <1>3, <1>6, PlaceFacts
  <2>2. AtBetween(o, n, l, a)
    BY <1>4, <1>6, <1>7, <2>1, AtBounds
  <2>3. l \in 0 .. n - 1 /\ 100 * o[l + 1] <= a /\ a \in Int
    BY <2>2 DEF AtBetween
  <2>4. PICK i \in 1 .. n, k \in 1 .. n : i = 1 /\ k = l + 1 /\ i <= k
    BY <1>3, <2>3
  <2>5. o[i] <= o[k] /\ o[i] \in Int /\ o[k] \in Int
    BY <1>4, <2>4, RisingSteps
  <2> QED  BY <2>3, <2>4, <2>5
<1>11. c <= 100 * o[n]
  <2>1. PICK l, w : Placed(75, n, l, w)
    BY <1>3, <1>6, PlaceFacts
  <2>2. AtBetween(o, n, l, c)
    BY <1>4, <1>6, <1>7, <2>1, AtBounds
  <2> QED  BY <2>2 DEF AtBetween
<1>12. p[1] \in 1 .. n /\ p[n] \in 1 .. n /\ o[1] = s[p[1]] /\ o[n] = s[p[n]]
  BY <1>3
<1>13. Quartiles(s, n, a, b, c)
  BY <1>8, <1>9, <1>10, <1>11, <1>12 DEF Quartiles
<1> QED  BY <1>5, <1>6, <1>7, <1>13

-----------------------------------------------------------------------------
(* The market *)

LEMMA CostToSet == \A s : Cost!Range(s) = ToSet(s)
BY DEF Cost!Range, ToSet

\* The places and the items behind a cell.
InCell(it, optedIn, k) == it.tenant \in optedIn /\ Cost!Usable(it) /\ Cost!CellOf(it) = k
CellPlaces(items, optedIn, k) == {i \in DOMAIN items : InCell(items[i], optedIn, k)}
CellItems(items, optedIn, k) == {it \in ToSet(items) : InCell(it, optedIn, k)}
CellRows(items, optedIn, k) == Picked(items, CellPlaces(items, optedIn, k))

TenantsOf(S) == {it.tenant : it \in S}
VehiclesOf(S) == {it.vehicle : it \in S}

CellKeys(items) == {Cost!CellOf(it) : it \in {it \in ToSet(items) : Cost!Usable(it)}}

Enough(S) == Cardinality(TenantsOf(S)) >= MinTenants /\ Cardinality(VehiclesOf(S)) >= MinVehicles

Cell(rows, S) ==
    [median100 |-> Cost!Percentile100(Cost!Prices(rows), 50),
     p25 |-> Cost!Percentile100(Cost!Prices(rows), 25),
     p75 |-> Cost!Percentile100(Cost!Prices(rows), 75),
     sampleTenants |-> Cardinality(TenantsOf(S)), sampleVehicles |-> Cardinality(VehiclesOf(S))]

LEMMA RowsKept ==
    ASSUME NEW items, NEW n, IsList(items, n), NEW optedIn, NEW k
    PROVE  ToSet(CellRows(items, optedIn, k)) = CellItems(items, optedIn, k)
<1>1. n \in Nat /\ DOMAIN items = 1 .. n
  BY DEF IsList
<1>2. PICK S, t : S = CellPlaces(items, optedIn, k) /\ t = CellRows(items, optedIn, k)
  OBVIOUS
<1>3. PICK m : Keeps(t, items, S, m)
  BY <1>1, <1>2, WhereKeeps DEF Chosen, CellRows, CellPlaces
<1>4. ToSet(t) = {items[i] : i \in S}
  BY <1>3 DEF ToSet, Keeps
<1> QED  BY <1>1, <1>2, <1>4 DEF CellPlaces, CellItems, ToSet

LEMMA WhereRows ==
    ASSUME NEW items, NEW optedIn, NEW k
    PROVE  Cost!Where(items, LAMBDA it :
              it.tenant \in optedIn /\ Cost!Usable(it) /\ Cost!CellOf(it) = k)
             = CellRows(items, optedIn, k)
BY CostPicked DEF Cost!Where, CellRows, CellPlaces, InCell

\* As recompute has it, and by the items behind each cell.
RawCell(items, optedIn, k) ==
    LET mine(c) == Cost!Where(items, LAMBDA it :
                      it.tenant \in optedIn /\ Cost!Usable(it) /\ Cost!CellOf(it) = c)
        tenants(c)  == {it.tenant : it \in Cost!Range(mine(c))}
        vehicles(c) == {it.vehicle : it \in Cost!Range(mine(c))}
    IN  [median100 |-> Cost!Percentile100(Cost!Prices(mine(k)), 50),
         p25 |-> Cost!Percentile100(Cost!Prices(mine(k)), 25),
         p75 |-> Cost!Percentile100(Cost!Prices(mine(k)), 75),
         sampleTenants |-> Cost!Cardinality(tenants(k)),
         sampleVehicles |-> Cost!Cardinality(vehicles(k))]

RawEnough(items, optedIn, k) ==
    LET mine(c) == Cost!Where(items, LAMBDA it :
                      it.tenant \in optedIn /\ Cost!Usable(it) /\ Cost!CellOf(it) = c)
        tenants(c)  == {it.tenant : it \in Cost!Range(mine(c))}
        vehicles(c) == {it.vehicle : it \in Cost!Range(mine(c))}
    IN  Cost!Cardinality(tenants(k)) >= MinTenants /\ Cost!Cardinality(vehicles(k)) >= MinVehicles

LEMMA RawFacts ==
    ASSUME NEW items, NEW n, IsList(items, n), NEW optedIn, NEW k
    PROVE  /\ RawCell(items, optedIn, k)
                = Cell(CellRows(items, optedIn, k), CellItems(items, optedIn, k))
           /\ RawEnough(items, optedIn, k) <=> Enough(CellItems(items, optedIn, k))
<1>1. PICK rows : rows = CellRows(items, optedIn, k)
  OBVIOUS
<1>2. Cost!Where(items, LAMBDA it :
         it.tenant \in optedIn /\ Cost!Usable(it) /\ Cost!CellOf(it) = k) = rows
  BY <1>1, WhereRows
<1>3. RawCell(items, optedIn, k)
        = [median100 |-> Cost!Percentile100(Cost!Prices(rows), 50),
           p25 |-> Cost!Percentile100(Cost!Prices(rows), 25),
           p75 |-> Cost!Percentile100(Cost!Prices(rows), 75),
           sampleTenants |-> Cost!Cardinality({it.tenant : it \in Cost!Range(rows)}),
           sampleVehicles |-> Cost!Cardinality({it.vehicle : it \in Cost!Range(rows)})]
  BY <1>2, Zenon DEF RawCell
<1>4. RawEnough(items, optedIn, k) <=>
        /\ Cost!Cardinality({it.tenant : it \in Cost!Range(rows)}) >= MinTenants
        /\ Cost!Cardinality({it.vehicle : it \in Cost!Range(rows)}) >= MinVehicles
  BY <1>2, Zenon DEF RawEnough
<1> QED  BY <1>1, <1>3, <1>4, CostCount, CostToSet, RowsKept DEF Cell, Enough, TenantsOf,
            VehiclesOf

Published(cells, items, optedIn) ==
    cells = [k \in {k \in CellKeys(items) : Enough(CellItems(items, optedIn, k))} |->
               Cell(CellRows(items, optedIn, k), CellItems(items, optedIn, k))]

LEMMA RecomputeFacts ==
    ASSUME NEW items, NEW n, IsList(items, n), NEW optedIn
    PROVE  Published(Cost!Recompute(items, optedIn), items, optedIn)
<1>1. PICK cells : cells = Cost!Recompute(items, optedIn)
  OBVIOUS
<1>2. cells = [k \in {k \in {Cost!CellOf(it) : it \in {it \in Cost!Range(items) : Cost!Usable(it)}} :
                        RawEnough(items, optedIn, k)} |-> RawCell(items, optedIn, k)]
  BY <1>1, Zenon DEF Cost!Recompute, RawEnough, RawCell
<1> QED  BY <1>1, <1>2, RawFacts, CostToSet DEF Published, CellKeys

Market(items, n) == IsList(items, n) /\ \A i \in 1 .. n : items[i].price \in Int

Backed(cell, S) ==
    /\ cell.p25 <= cell.median100 /\ cell.median100 <= cell.p75
    /\ \E lo, hi \in S : 100 * lo.price <= cell.p25 /\ 100 * hi.price >= cell.p75

LEMMA PricesOfRows ==
    ASSUME NEW items, NEW n, Market(items, n), NEW optedIn, NEW k,
           NEW S, S = CellItems(items, optedIn, k), Enough(S),
           NEW rows, rows = CellRows(items, optedIn, k)
    PROVE  \E m : Numbers(Cost!Prices(rows), m) /\ m >= 1 /\ DOMAIN rows = 1 .. m
<1>1. n \in Nat /\ DOMAIN items = 1 .. n /\ IsList(items, n)
  BY DEF IsList, Market
<1>2. PICK P : P = CellPlaces(items, optedIn, k)
  OBVIOUS
<1>3. PICK m : Keeps(rows, items, P, m)
  BY <1>1, <1>2, WhereKeeps DEF Chosen, CellRows, CellPlaces
<1>4. /\ m \in Nat /\ DOMAIN rows = 1 .. m
      /\ \A j \in 1 .. m : \E i \in P : rows[j] = items[i]
  BY <1>3 DEF Keeps
<1>5. m # 0
  <2>1. ASSUME m = 0 PROVE FALSE
    <3>1. TenantsOf(S) = {}
      BY <1>1, <1>4, <2>1, RowsKept DEF TenantsOf, ToSet
    <3> QED  BY <3>1, RulesAssumption, FS_EmptySet DEF Enough
  <2> QED  BY <2>1
<1> QED  BY <1>1, <1>2, <1>4, <1>5 DEF Numbers, Cost!Prices, Market, CellPlaces

LEMMA CellBacked ==
    ASSUME NEW items, NEW n, Market(items, n), NEW optedIn, NEW k,
           NEW S, S = CellItems(items, optedIn, k), Enough(S),
           NEW rows, rows = CellRows(items, optedIn, k)
    PROVE  Backed(Cell(rows, S), S)
<1>1. PICK s : s = Cost!Prices(rows)
  OBVIOUS
<1>2. PICK m : Numbers(s, m) /\ m >= 1 /\ DOMAIN rows = 1 .. m
  BY <1>1, PricesOfRows
<1>3. PICK a, b, c : /\ a = Cost!Percentile100(s, 25) /\ b = Cost!Percentile100(s, 50)
                     /\ c = Cost!Percentile100(s, 75)
  OBVIOUS
<1>4. Quartiles(s, m, a, b, c)
  BY <1>2, <1>3, QuartileFacts
<1>5. PICK i \in 1 .. m, j \in 1 .. m : 100 * s[i] <= a /\ c <= 100 * s[j]
  BY <1>4 DEF Quartiles
<1>6. a <= b /\ b <= c
  BY <1>4 DEF Quartiles
<1>7. rows[i] \in S /\ rows[j] \in S
  <2>1. S = ToSet(rows)
    BY RowsKept DEF Market
  <2> QED  BY <1>2, <2>1 DEF ToSet
<1> QED  BY <1>1, <1>2, <1>3, <1>5, <1>6, <1>7 DEF Backed, Cell, Cost!Prices, Numbers

\* The items of the companies that take part.
TheirPlaces(items, optedIn) == {i \in DOMAIN items : items[i].tenant \in optedIn}

LEMMA TheirRows ==
    ASSUME NEW items, NEW n, IsList(items, n), NEW optedIn, NEW all, optedIn \subseteq all, NEW k,
           NEW theirs, theirs = Picked(items, TheirPlaces(items, optedIn))
    PROVE  CellRows(theirs, all, k) = CellRows(items, optedIn, k)
<1>1. PICK S, T : S = TheirPlaces(items, optedIn) /\ T = CellPlaces(items, optedIn, k)
  OBVIOUS
<1>2. S \in SUBSET Int /\ IsFiniteSet(S) /\ T \in SUBSET S
  BY <1>1, PartFacts DEF TheirPlaces, CellPlaces, InCell, IsList
<1>3. PICK p, m : p = Places(S) /\ m = Cardinality(S)
  OBVIOUS
<1>4. theirs = [j \in 1 .. m |-> items[p[j]]]
  BY <1>1, <1>2, <1>3, PickedFacts
<1>5. PICK K : K = CellPlaces(theirs, all, k)
  OBVIOUS
<1>6. \A j \in 1 .. m : j \in K <=> p[j] \in T
  <2> TAKE j \in 1 .. m
  <2>1. theirs[j] = items[p[j]] /\ j \in DOMAIN theirs
    BY <1>4
  <2>2. j \in K <=> InCell(theirs[j], all, k)
    BY <1>5, <2>1 DEF CellPlaces
  <2> QED  BY <1>1, <1>2, <1>3, <2>1, <2>2, PlacesFacts DEF InCell, CellPlaces, TheirPlaces,
              Lists
<1>7. K \in SUBSET (1 .. m)
  BY <1>4, <1>5 DEF CellPlaces
<1> QED  BY <1>1, <1>2, <1>3, <1>5, <1>6, <1>7, PickedTwice DEF CellRows

LEMMA TheirCells ==
    ASSUME NEW items, NEW n, IsList(items, n), NEW optedIn, NEW all, optedIn \subseteq all,
           NEW theirs, theirs = Picked(items, TheirPlaces(items, optedIn))
    PROVE  Cost!Recompute(theirs, all) = Cost!Recompute(items, optedIn)
<1>1. n \in Nat /\ DOMAIN items = 1 .. n
  BY DEF IsList
<1>2. PICK S : S = TheirPlaces(items, optedIn)
  OBVIOUS
<1>3. PICK m : Keeps(theirs, items, S, m)
  BY <1>1, <1>2, WhereKeeps DEF Chosen, TheirPlaces
<1>4. IsList(theirs, m) /\ ToSet(theirs) = {items[i] : i \in S}
  <2>1. ToSet(theirs) = {items[i] : i \in S}
    BY <1>3 DEF ToSet, Keeps
  <2> QED  BY <1>3, <2>1 DEF Keeps, IsList
<1>5. ToSet(theirs) = {it \in ToSet(items) : it.tenant \in optedIn}
  BY <1>1, <1>2, <1>4 DEF ToSet, TheirPlaces
<1>6. ASSUME NEW k PROVE CellItems(theirs, all, k) = CellItems(items, optedIn, k)
  BY <1>5 DEF CellItems, InCell
<1>7. ASSUME NEW k PROVE CellRows(theirs, all, k) = CellRows(items, optedIn, k)
  BY TheirRows
<1>8. PICK A, B : /\ A = {k \in CellKeys(items) : Enough(CellItems(items, optedIn, k))}
                  /\ B = {k \in CellKeys(theirs) : Enough(CellItems(theirs, all, k))}
  OBVIOUS
<1>9. A = B
  <2>1. ASSUME NEW k \in A PROVE k \in B
    <3>1. CellItems(items, optedIn, k) # {}
      <4>1. ASSUME CellItems(items, optedIn, k) = {} PROVE FALSE
        BY <1>8, <4>1, RulesAssumption, FS_EmptySet DEF Enough, TenantsOf
      <4> QED  BY <4>1
    <3>2. PICK it \in ToSet(items) : InCell(it, optedIn, k)
      BY <3>1 DEF CellItems
    <3> QED  BY <1>5, <1>6, <1>8, <3>2 DEF CellKeys, InCell
  <2> QED  BY <1>5, <1>6, <1>8, <2>1 DEF CellKeys
<1>10. Cost!Recompute(theirs, all)
         = [k \in B |-> Cell(CellRows(theirs, all, k), CellItems(theirs, all, k))]
  <2>1. Published(Cost!Recompute(theirs, all), theirs, all)
    BY <1>4, RecomputeFacts
  <2> QED  BY <1>8, <2>1 DEF Published
<1> QED  BY <1>6, <1>7, <1>8, <1>9, <1>10, RecomputeFacts DEF Published

LEMMA CellsFacts ==
    ASSUME NEW items, NEW n, Market(items, n), NEW optedIn, optedIn \subseteq Tenants,
           NEW cells, cells = Cost!Recompute(items, optedIn)
    PROVE  /\ \A k \in DOMAIN cells :
                /\ Enough(CellItems(items, optedIn, k))
                /\ Backed(cells[k], CellItems(items, optedIn, k))
           /\ cells = Cost!Recompute(Where(items, LAMBDA it : it.tenant \in optedIn), Tenants)
           /\ \A t : DOMAIN Cost!GetComparison(items, t, cells) \subseteq DOMAIN cells
<1>1. IsList(items, n)
  BY DEF Market
<1>2. PICK K : K = {k \in CellKeys(items) : Enough(CellItems(items, optedIn, k))}
  OBVIOUS
<1>3. cells = [k \in K |-> Cell(CellRows(items, optedIn, k), CellItems(items, optedIn, k))]
  BY <1>1, <1>2, RecomputeFacts DEF Published
<1>4. ASSUME NEW k \in DOMAIN cells
      PROVE  Enough(CellItems(items, optedIn, k)) /\ Backed(cells[k], CellItems(items, optedIn, k))
  <2>1. PICK S, rows : S = CellItems(items, optedIn, k) /\ rows = CellRows(items, optedIn, k)
    OBVIOUS
  <2> QED  BY <1>2, <1>3, <2>1, CellBacked
<1>5. cells = Cost!Recompute(Where(items, LAMBDA it : it.tenant \in optedIn), Tenants)
  <2>1. PICK theirs : theirs = Picked(items, TheirPlaces(items, optedIn))
    OBVIOUS
  <2> QED  BY <1>1, <2>1, TheirCells DEF Where, TheirPlaces
<1> QED  BY <1>4, <1>5 DEF Cost!GetComparison

-----------------------------------------------------------------------------
(* Counting *)

LEMMA ImageCount ==
    ASSUME NEW S, IsFiniteSet(S), NEW T, NEW f \in [S -> T], \A y \in T : \E x \in S : f[x] = y
    PROVE  IsFiniteSet(T) /\ Cardinality(T) <= Cardinality(S)
<1>1. f \in Surjection(S, T)
  BY DEF Surjection
<1> QED  BY <1>1, FS_Surjection

\* T has at least the places that p has from a to b.
LEMMA CountFrom ==
    ASSUME NEW n \in Nat, NEW p, Lists(p, 1 .. n), p \in [1 .. n -> 1 .. n],
           NEW a \in Nat, NEW b \in Nat, 1 <= a, a <= b + 1, b <= n,
           NEW T \in SUBSET (1 .. n), \A k \in a .. b : p[k] \in T
    PROVE  Cardinality(T) \in Nat /\ Cardinality(T) >= b - a + 1
<1>1. IsFiniteSet(T) /\ Cardinality(T) \in Nat
  BY PartFacts
<1>2. \A k, l \in 1 .. n : p[k] = p[l] => k = l
  BY FS_Interval DEF Lists
<1>3. PICK f : f = [k \in a .. b |-> p[k]]
  OBVIOUS
<1>4. f \in Injection(a .. b, T)
  <2>1. f \in [a .. b -> T]
    BY <1>3
  <2> QED  BY <1>2, <1>3, <2>1 DEF Injection, IsInjective
<1>5. Cardinality(a .. b) = IF a > b THEN 0 ELSE b - a + 1
  BY FS_Interval
<1> QED  BY <1>1, <1>4, <1>5, FS_Injection

LEMMA Halves ==
    ASSUME NEW n \in Nat, NEW A \in SUBSET (1 .. n), NEW B \in SUBSET (1 .. n), A \cap B = {},
           2 * Cardinality(A) >= n
    PROVE  Cardinality(B) \in Nat /\ 2 * Cardinality(B) <= n
<1>1. /\ IsFiniteSet(A) /\ Cardinality(A) \in Nat /\ IsFiniteSet(B) /\ Cardinality(B) \in Nat
  BY PartFacts
<1>2. Cardinality(A \cup B) = Cardinality(A) + Cardinality(B)
  <2>1. Cardinality(A \cap B) = 0
    BY FS_EmptySet
  <2>2. Cardinality(A \cup B) = Cardinality(A) + Cardinality(B) - Cardinality(A \cap B)
    BY <1>1, FS_Union
  <2> QED  BY <1>1, <2>1, <2>2
<1>3. Cardinality(A \cup B) <= n
  <2>1. IsFiniteSet(1 .. n) /\ Cardinality(1 .. n) = n
    BY FS_Interval
  <2> QED  BY <2>1, FS_Subset
<1> QED  BY <1>1, <1>2, <1>3

-----------------------------------------------------------------------------
(* The median *)

Lower(p, n, m2) == {i \in 1 .. n : 2 * p[i] <= m2}
Upper(p, n, m2) == {i \in 1 .. n : 2 * p[i] >= m2}

LEMMA MedianOf ==
    ASSUME NEW p, NEW n, Numbers(p, n), n # 0, NEW o, NEW q, Ranked(o, p, q, n),
           o = Cost!Sorted(p), NEW h, h = n \div 2
    PROVE  /\ h \in Nat /\ (n = 2 * h \/ n = 2 * h + 1)
           /\ Cost!Median2(p) = IF n = 2 * h THEN o[h] + o[h + 1] ELSE 2 * o[h + 1]
<1>1. n \in Nat /\ p \in [1 .. n -> Int] /\ p \in Seq(Int) /\ Len(p) = n
  BY DEF Numbers
<1> QED  BY <1>1 DEF Cost!Median2

LEMMA MedianHalves ==
    ASSUME NEW p, NEW n, Numbers(p, n), NEW m2, m2 = Cost!Median2(p)
    PROVE  /\ m2 \in Int
           /\ 2 * Cardinality(Lower(p, n, m2)) >= n
           /\ 2 * Cardinality(Upper(p, n, m2)) >= n
           /\ (n # 0 /\ \A i \in 1 .. n : p[i] > 0) => m2 > 0
<1>1. n \in Nat /\ p \in [1 .. n -> Int] /\ p \in Seq(Int) /\ Len(p) = n
  BY DEF Numbers
<1>2. PICK L, U : L = Lower(p, n, m2) /\ U = Upper(p, n, m2)
  OBVIOUS
<1>3. L \in SUBSET (1 .. n) /\ U \in SUBSET (1 .. n)
  BY <1>2 DEF Lower, Upper
<1>4. CASE n = 0
  BY <1>1, <1>2, <1>3, <1>4, PartFacts DEF Cost!Median2
<1>5. CASE n # 0
  <2>1. PICK o : o = Cost!Sorted(p)
    OBVIOUS
  <2>2. PICK q : Ranked(o, p, q, n)
    BY <2>1, CostSorted
  <2>3. PICK h : h = n \div 2
    OBVIOUS
  <2>4. /\ h \in Nat /\ (n = 2 * h \/ n = 2 * h + 1)
        /\ m2 = IF n = 2 * h THEN o[h] + o[h + 1] ELSE 2 * o[h + 1]
    BY <1>5, <2>1, <2>2, <2>3, MedianOf
  <2>5. /\ Lists(q, 1 .. n) /\ q \in [1 .. n -> 1 .. n] /\ o \in [1 .. n -> Int]
        /\ o = [k \in 1 .. n |-> p[q[k]]]
        /\ \A k, l \in 1 .. n : k <= l => o[k] <= o[l]
    BY <2>2 DEF Ranked
  <2>6. \A k \in 1 .. n : q[k] \in 1 .. n /\ o[k] = p[q[k]] /\ o[k] \in Int
    BY <2>5
  <2>7. ASSUME NEW k \in 1 .. n, NEW l \in 1 .. n, k <= l PROVE o[k] <= o[l]
    BY <2>5, <2>7
  <2>8. PICK c \in Nat : c = IF n = 2 * h THEN h ELSE h + 1
    BY <2>4
  <2>9. /\ h + 1 \in 1 .. n /\ c \in 1 .. n /\ c <= h + 1 /\ h + 1 <= c + 1
        /\ m2 = o[c] + o[h + 1]
    <3>1. h + 1 \in 1 .. n /\ c \in 1 .. n /\ c <= h + 1 /\ h + 1 <= c + 1
      BY <1>1, <1>5, <2>4, <2>8
    <3> QED  BY <2>4, <2>5, <2>8, <3>1
  <2>10. PICK x \in Int, y \in Int : x = o[c] /\ y = o[h + 1] /\ x <= y /\ m2 = x + y
    BY <2>5, <2>9
  <2>11. \A k \in 1 .. c : q[k] \in L
    <3> TAKE k \in 1 .. c
    <3>1. k \in 1 .. n /\ q[k] \in 1 .. n /\ o[k] = p[q[k]] /\ o[k] <= o[c] /\ o[k] \in Int
      BY <1>1, <2>6, <2>7, <2>9
    <3> QED  BY <1>2, <2>10, <3>1 DEF Lower
  <2>12. \A k \in h + 1 .. n : q[k] \in U
    <3> TAKE k \in h + 1 .. n
    <3>1. k \in 1 .. n /\ q[k] \in 1 .. n /\ o[k] = p[q[k]] /\ o[h + 1] <= o[k] /\ o[k] \in Int
      BY <1>1, <2>4, <2>6, <2>7, <2>9
    <3> QED  BY <1>2, <2>10, <3>1 DEF Upper
  <2>13. Cardinality(L) \in Nat /\ Cardinality(L) >= c
    <3>1. c <= n /\ 1 <= c + 1 /\ 1 <= 1 /\ 1 \in Nat /\ c - 1 + 1 = c
      BY <2>8, <2>9
    <3>2. Cardinality(L) \in Nat /\ Cardinality(L) >= c - 1 + 1
      BY <1>1, <1>3, <2>5, <2>11, <3>1, CountFrom
    <3> QED  BY <3>1, <3>2
  <2>14. Cardinality(U) \in Nat /\ Cardinality(U) >= n - h
    <3>1. h + 1 \in Nat /\ 1 <= h + 1 /\ h + 1 <= n + 1 /\ n <= n /\ n - (h + 1) + 1 = n - h
      BY <1>1, <2>4, <2>9
    <3> QED  BY <1>1, <1>3, <2>5, <2>12, <3>1, CountFrom
  <2>15. 2 * Cardinality(L) >= n /\ 2 * Cardinality(U) >= n
    BY <1>1, <2>4, <2>8, <2>13, <2>14
  <2>16. (\A i \in 1 .. n : p[i] > 0) => m2 > 0
    <3> HAVE \A i \in 1 .. n : p[i] > 0
    <3> QED  BY <2>6, <2>9, <2>10
  <2> QED  BY <1>2, <2>10, <2>15, <2>16
<1> QED  BY <1>4, <1>5

-----------------------------------------------------------------------------
(* What stands out *)

Severity(p, m2, i) == Cost!PriceSeverity(Cost!DeltaPct(p[i], m2))
Spike(p, m2, i) == [index |-> i, delta |-> Cost!DeltaPct(p[i], m2), severity |-> Severity(p, m2, i)]
Dear(p, n, m2) == {i \in 1 .. n : 4 * p[i] >= 3 * m2}

LEMMA SpikesAre ==
    ASSUME NEW p, NEW n, Numbers(p, n), NEW m2, m2 = Cost!Median2(p),
           NEW spikes, spikes = Cost!PriceSpikes(p)
    PROVE  \/ spikes = {}
           \/ /\ n >= 3 /\ m2 # 0
              /\ spikes = {Spike(p, m2, i) : i \in Dear(p, n, m2)}
<1>1. n \in Nat /\ p \in [1 .. n -> Int] /\ p \in Seq(Int) /\ Len(p) = n /\ DOMAIN p = 1 .. n
  BY DEF Numbers
<1>2. spikes = IF n < 3 \/ m2 = 0 THEN {} ELSE {Spike(p, m2, i) : i \in Dear(p, n, m2)}
  BY <1>1 DEF Cost!PriceSpikes, Spike, Severity, Dear
<1> QED  BY <1>1, <1>2

LEMMA MoreSevere ==
    ASSUME NEW d \in Int, NEW e \in Int, d <= e
    PROVE  Cost!SeverityRank[Cost!PriceSeverity(e)] <= Cost!SeverityRank[Cost!PriceSeverity(d)]
BY DEF Cost!SeverityRank, Cost!PriceSeverity

LEMMA SpikeFacts ==
    ASSUME NEW p, NEW n, Numbers(p, n), \A i \in 1 .. n : p[i] > 0,
           NEW m2, m2 = Cost!Median2(p), NEW spikes, spikes = Cost!PriceSpikes(p)
    PROVE  /\ 2 * Cardinality(spikes) <= n
           /\ \A a \in spikes, i \in 1 .. n : p[i] >= p[a.index] =>
                \E b \in spikes : /\ b.index = i
                                  /\ Cost!SeverityRank[b.severity] <= Cost!SeverityRank[a.severity]
<1>1. n \in Nat /\ p \in [1 .. n -> Int]
  BY DEF Numbers
<1>2. /\ m2 \in Int /\ 2 * Cardinality(Lower(p, n, m2)) >= n
      /\ n # 0 => m2 > 0
  BY MedianHalves
<1>3. CASE spikes = {}
  BY <1>1, <1>3, FS_EmptySet
<1>4. CASE n >= 3 /\ m2 # 0 /\ spikes = {Spike(p, m2, i) : i \in Dear(p, n, m2)}
  <2>1. m2 > 0
    BY <1>1, <1>2, <1>4
  <2>2. PICK L, D : L = Lower(p, n, m2) /\ D = Dear(p, n, m2)
    OBVIOUS
  <2>3. L \in SUBSET (1 .. n) /\ D \in SUBSET (1 .. n) /\ L \cap D = {}
    BY <1>1, <1>2, <2>1, <2>2 DEF Lower, Dear
  <2>4. Cardinality(D) \in Nat /\ 2 * Cardinality(D) <= n
    BY <1>1, <1>2, <2>2, <2>3, Halves
  <2>5. IsFiniteSet(spikes) /\ Cardinality(spikes) <= Cardinality(D)
    <3>1. PICK f : f = [i \in D |-> Spike(p, m2, i)]
      OBVIOUS
    <3>2. IsFiniteSet(D)
      BY <1>1, <2>3, PartFacts
    <3> QED  BY <1>4, <2>2, <3>1, <3>2, ImageCount
  <2>6. ASSUME NEW a \in spikes, NEW i \in 1 .. n, p[i] >= p[a.index]
        PROVE  \E b \in spikes :
                 b.index = i /\ Cost!SeverityRank[b.severity] <= Cost!SeverityRank[a.severity]
    <3>1. PICK j \in D : a = Spike(p, m2, j)
      BY <1>4, <2>2
    <3>2. a.index = j /\ a.severity = Severity(p, m2, j)
      BY <3>1 DEF Spike
    <3>3. PICK x \in Int, y \in Int : x = p[j] /\ y = p[i] /\ x <= y
      BY <1>1, <2>3, <2>6, <3>2
    <3>4. PICK b : b = Spike(p, m2, i)
      OBVIOUS
    <3>5. b \in spikes /\ b.index = i /\ b.severity = Severity(p, m2, i)
      BY <1>2, <1>4, <2>2, <3>3, <3>4 DEF Spike, Dear
    <3>6. PICK d, e : d = Cost!DeltaPct(x, m2) /\ e = Cost!DeltaPct(y, m2)
      OBVIOUS
    <3> QED  BY <1>2, <2>1, <3>2, <3>3, <3>5, <3>6, MoreSevere, DeltaGrows DEF Severity
  <2> QED  BY <1>1, <2>4, <2>5, <2>6, FS_CardinalityType
<1> QED  BY <1>3, <1>4, SpikesAre

\* The invoices of some total, whose totals are p.
Positive(prices) == {i \in DOMAIN prices : prices[i] # None /\ prices[i] > 0}
Unusual(prices, m2) == {i \in Positive(prices) : 2 * prices[i] >= 3 * m2}
Amount(prices, m2, i) == [index |-> i, delta |-> Cost!DeltaPct(prices[i], m2),
                          severity |-> IF 2 * prices[i] >= 5 * m2 THEN "high" ELSE "medium"]

LEMMA UnusualAre ==
    ASSUME NEW prices, NEW p, p = Picked(prices, Positive(prices)), NEW n, Numbers(p, n),
           NEW m2, m2 = Cost!Median2(p), NEW unusual, unusual = Cost!UnusualAmounts(prices)
    PROVE  unusual = {} \/ (n >= 5 /\ unusual = {Amount(prices, m2, i) : i \in Unusual(prices, m2)})
<1>1. n \in Nat /\ p \in Seq(Int) /\ Len(p) = n
  BY DEF Numbers
<1>2. Cost!Where(prices, LAMBDA g : g # None /\ g > 0) = p
  BY CostPicked DEF Cost!Where, Positive
<1>3. unusual = IF n < 5 THEN {} ELSE {Amount(prices, m2, i) : i \in Unusual(prices, m2)}
  BY <1>1, <1>2 DEF Amount, Cost!UnusualAmounts, Unusual, Positive
<1> QED  BY <1>1, <1>3

PricesOf(prices, N) ==
    IsList(prices, N) /\ \A i \in 1 .. N : prices[i] = None \/ prices[i] \in Int

\* p has the n positive prices, the k-th of them from the place q[k].
PositivePart(p, n, q, prices) ==
    /\ Numbers(p, n) /\ \A k \in 1 .. n : p[k] > 0
    /\ q \in [1 .. n -> Positive(prices)]
    /\ \A i \in Positive(prices) : \E k \in 1 .. n : q[k] = i
    /\ \A k \in 1 .. n : p[k] = prices[q[k]]

LEMMA PositiveList ==
    ASSUME NEW prices, NEW N, PricesOf(prices, N), NEW p, p = Picked(prices, Positive(prices))
    PROVE  \E n, q : PositivePart(p, n, q, prices)
<1>1. N \in Nat /\ DOMAIN prices = 1 .. N
  BY DEF PricesOf, IsList
<1>2. PICK S : S = Positive(prices)
  OBVIOUS
<1>3. S \subseteq 1 .. N
  BY <1>1, <1>2 DEF Positive
<1>4. PICK q, n : TakenAt(p, prices, S, q, n)
  BY <1>1, <1>2, <1>3, PickedList
<1>5. \A i \in S : prices[i] \in Int /\ prices[i] > 0
  BY <1>1, <1>2, <1>3 DEF Positive, PricesOf
<1>6. PositivePart(p, n, q, prices)
  BY <1>2, <1>4, <1>5 DEF PositivePart, Numbers, TakenAt
<1> QED  BY <1>6

LEMMA UnusualFew ==
    ASSUME NEW prices, NEW N, PricesOf(prices, N), NEW p, p = Picked(prices, Positive(prices)),
           NEW n, Numbers(p, n), NEW unusual, unusual = Cost!UnusualAmounts(prices)
    PROVE  2 * Cardinality(unusual) <= n
<1>1. n \in Nat /\ p \in [1 .. n -> Int] /\ DOMAIN p = 1 .. n
  BY DEF Numbers
<1>2. PICK m2 : m2 = Cost!Median2(p)
  OBVIOUS
<1>3. PICK l, q : PositivePart(p, l, q, prices)
  BY PositiveList
<1>4. /\ Numbers(p, l) /\ \A k \in 1 .. l : p[k] > 0
      /\ q \in [1 .. l -> Positive(prices)]
      /\ \A i \in Positive(prices) : \E k \in 1 .. l : q[k] = i
      /\ \A k \in 1 .. l : p[k] = prices[q[k]]
  BY <1>3 DEF PositivePart
<1>5. l = n
  BY <1>1, <1>4 DEF Numbers
<1>6. m2 \in Int /\ 2 * Cardinality(Lower(p, n, m2)) >= n /\ (n # 0 => m2 > 0)
  BY <1>2, <1>4, <1>5, MedianHalves
<1>7. CASE unusual = {}
  BY <1>1, <1>7, FS_EmptySet
<1>8. CASE n >= 5 /\ unusual = {Amount(prices, m2, i) : i \in Unusual(prices, m2)}
  <2>1. PICK L, D : L = Lower(p, n, m2) /\ D = {k \in 1 .. n : 2 * p[k] >= 3 * m2}
    OBVIOUS
  <2>2. L \in SUBSET (1 .. n) /\ D \in SUBSET (1 .. n) /\ L \cap D = {}
    BY <1>1, <1>6, <1>8, <2>1 DEF Lower
  <2>3. Cardinality(D) \in Nat /\ 2 * Cardinality(D) <= n
    BY <1>1, <1>6, <2>1, <2>2, Halves
  <2>4. IsFiniteSet(D)
    BY <1>1, <2>2, PartFacts
  <2>5. IsFiniteSet(unusual) /\ Cardinality(unusual) <= Cardinality(D)
    <3>1. PICK f : f = [k \in D |-> Amount(prices, m2, q[k])]
      OBVIOUS
    <3>2. \A k \in D : q[k] \in Unusual(prices, m2)
      BY <1>4, <1>5, <2>1 DEF Unusual
    <3>3. \A i \in Unusual(prices, m2) : \E k \in D : q[k] = i
      BY <1>4, <1>5, <2>1 DEF Unusual
    <3> QED  BY <1>8, <2>4, <3>1, <3>2, <3>3, ImageCount
  <2> QED  BY <1>1, <2>3, <2>5, FS_CardinalityType
<1> QED  BY <1>2, <1>7, <1>8, UnusualAre

-----------------------------------------------------------------------------
(* Duplicates *)

Twin(invoices, i, j) ==
    /\ invoices[i].number # None
    /\ invoices[i].number = invoices[j].number
    /\ invoices[i].supplier = invoices[j].supplier

Key(inv) == <<inv.supplier, inv.number>>
SameKey(invoices, k) == {i \in DOMAIN invoices : Key(invoices[i]) = k}
FirstKey(invoices, k) == CHOOSE i \in SameKey(invoices, k) : \A j \in SameKey(invoices, k) : i <= j

LEMMA DuplicatesAre ==
    ASSUME NEW invoices
    PROVE  Cost!DuplicateInvoices(invoices)
             = {[first |-> FirstKey(invoices, k), count |-> Cardinality(SameKey(invoices, k))] :
                  k \in {k \in {Key(inv) : inv \in {inv \in ToSet(invoices) : inv.number # None}} :
                           Cardinality(SameKey(invoices, k)) >= 2}}
<1>1. PICK keys : keys = {Key(inv) : inv \in {inv \in ToSet(invoices) : inv.number # None}}
  OBVIOUS
<1>2. Cost!DuplicateInvoices(invoices)
        = {[first |-> FirstKey(invoices, k), count |-> Cost!Cardinality(SameKey(invoices, k))] :
             k \in {k \in {Key(inv) : inv \in {inv \in Cost!Range(invoices) : inv.number # None}} :
                      Cost!Cardinality(SameKey(invoices, k)) >= 2}}
  BY Zenon DEF Cost!DuplicateInvoices, FirstKey, SameKey, Key
<1> QED  BY <1>2, CostCount, CostToSet

LEMMA DuplicateFacts ==
    ASSUME NEW invoices, NEW n, IsList(invoices, n),
           NEW groups, groups = Cost!DuplicateInvoices(invoices)
    PROVE  /\ \A g \in groups :
                g.count = Cardinality({i \in DOMAIN invoices : Twin(invoices, i, g.first)})
           /\ \A i, j \in DOMAIN invoices : i # j /\ Twin(invoices, i, j) =>
                \E g \in groups : Twin(invoices, i, g.first)
<1>1. n \in Nat /\ DOMAIN invoices = 1 .. n
  BY DEF IsList
<1>2. PICK keys : keys = {Key(inv) : inv \in {inv \in ToSet(invoices) : inv.number # None}}
  OBVIOUS
<1>3. groups = {[first |-> FirstKey(invoices, k), count |-> Cardinality(SameKey(invoices, k))] :
                  k \in {k \in keys : Cardinality(SameKey(invoices, k)) >= 2}}
  BY <1>2, DuplicatesAre
<1>4. ASSUME NEW k \in keys, NEW f, f = FirstKey(invoices, k), NEW S, S = SameKey(invoices, k)
      PROVE  f \in S /\ S = {i \in DOMAIN invoices : Twin(invoices, i, f)}
  <2>1. PICK i0 \in 1 .. n : Key(invoices[i0]) = k /\ invoices[i0].number # None
    BY <1>1, <1>2 DEF ToSet
  <2>2. f \in S
    <3>1. PICK least \in S : \A j \in S : least <= j
      BY <1>1, <1>4, <2>1, Smallest DEF SameKey
    <3> QED  BY <1>4, <3>1 DEF FirstKey
  <2>3. \A i \in DOMAIN invoices : Key(invoices[i]) = k <=> Twin(invoices, i, f)
    <3> TAKE i \in DOMAIN invoices
    <3> QED  BY <1>1, <1>4, <2>1, <2>2 DEF Twin, Key, SameKey
  <2> QED  BY <1>4, <2>2, <2>3 DEF SameKey
<1>5. ASSUME NEW g \in groups
      PROVE  g.count = Cardinality({i \in DOMAIN invoices : Twin(invoices, i, g.first)})
  <2>1. PICK k \in keys : g = [first |-> FirstKey(invoices, k),
                               count |-> Cardinality(SameKey(invoices, k))]
    BY <1>3
  <2>2. PICK f, S : f = FirstKey(invoices, k) /\ S = SameKey(invoices, k)
    OBVIOUS
  <2> QED  BY <1>4, <2>1, <2>2
<1>6. ASSUME NEW i \in DOMAIN invoices, NEW j \in DOMAIN invoices, i # j, Twin(invoices, i, j)
      PROVE  \E g \in groups : Twin(invoices, i, g.first)
  <2>1. PICK k, S : k = Key(invoices[i]) /\ S = SameKey(invoices, k)
    OBVIOUS
  <2>2. k \in keys
    BY <1>2, <1>6, <2>1 DEF Twin, ToSet
  <2>3. i \in S /\ j \in S
    BY <1>6, <2>1 DEF SameKey, Key, Twin
  <2>4. Cardinality(S) >= 2
    <3>1. IsFiniteSet(S) /\ Cardinality(S) \in Nat
      BY <1>1, <2>1, PartFacts DEF SameKey
    <3>2. Cardinality(S) # 1
      <4>1. ASSUME Cardinality(S) = 1 PROVE FALSE
        <5>1. PICK x : S = {x}
          BY <3>1, <4>1, FS_Singleton
        <5> QED  BY <1>6, <2>3, <5>1
      <4> QED  BY <4>1
    <3> QED  BY <2>3, <3>1, <3>2, FS_EmptySet
  <2>5. PICK f : f = FirstKey(invoices, k)
    OBVIOUS
  <2>6. PICK g : g = [first |-> f, count |-> Cardinality(S)]
    OBVIOUS
  <2> QED  BY <1>3, <1>4, <2>1, <2>2, <2>3, <2>4, <2>5, <2>6
<1> QED  BY <1>5, <1>6

-----------------------------------------------------------------------------
(* Reports *)

LEMMA SumNone == \A f : SumFunctionOnSet(f, {}) = 0
BY SumEmpty

LEMMA SumOfOneLess ==
    ASSUME NEW D, NEW f, Amounts(f, D), NEW S, Part(S, D), NEW x, x \in S
    PROVE  SumFunctionOnSet(f, S) = f[x] + SumFunctionOnSet(f, S \ {x})
BY SumRemove DEF Amounts, Part

\* g has for every key the sum of its terms.
KeySums(g, K, f, D, key) ==
    /\ key \in [D -> K]
    /\ g = [k \in K |-> SumFunctionOnSet(f, {i \in D : key[i] = k})]

\* Every term belongs to one key.
LEMMA SumByKey ==
    ASSUME NEW D, IsFiniteSet(D), NEW f, Amounts(f, D), NEW K, IsFiniteSet(K),
           NEW key, NEW g, KeySums(g, K, f, D, key)
    PROVE  Amounts(g, K) /\ SumFunctionOnSet(g, K) = SumFunctionOnSet(f, D)
<1>1. /\ key \in [D -> K]
      /\ g = [k \in K |-> SumFunctionOnSet(f, {i \in D : key[i] = k})]
  BY DEF KeySums
<1> DEFINE of(T) == {i \in D : key[i] \in T}
           Good == {T \in SUBSET K : SumFunctionOnSet(g, T) = SumFunctionOnSet(f, of(T))}
<1>2. \A T : Part(of(T), D)
  <2> TAKE T
  <2> QED  BY FS_Subset DEF Part
<1>3. \A k \in K : of({k}) = {i \in D : key[i] = k}
  BY <1>1
<1>4. \A T \in SUBSET K : \A k \in T : /\ of({k}) \cup of(T \ {k}) = of(T)
                                       /\ of({k}) \cap of(T \ {k}) = {}
  BY <1>1
<1>5. of({}) = {} /\ of(K) = D
  BY <1>1
<1> HIDE DEF of
<1>6. \A k \in K : g[k] = SumFunctionOnSet(f, of({k}))
  BY <1>1, <1>3
<1>7. Amounts(g, K)
  BY <1>1, <1>2, <1>6, SumInt DEF Amounts
<1>8. \A T \in SUBSET K : (\A x \in T : T \ {x} \in Good) => T \in Good
  <2> SUFFICES ASSUME NEW T \in SUBSET K, \A x \in T : T \ {x} \in Good
               PROVE  SumFunctionOnSet(g, T) = SumFunctionOnSet(f, of(T))
    OBVIOUS
  <2>1. CASE T = {}
    BY <1>5, <2>1, SumNone
  <2>2. CASE T # {}
    <3>1. PICK x \in T : TRUE
      BY <2>2
    <3>2. SumFunctionOnSet(g, T) = g[x] + SumFunctionOnSet(g, T \ {x})
      BY <1>7, SumOfOneLess, FS_Subset DEF Part
    <3>3. SumFunctionOnSet(g, T \ {x}) = SumFunctionOnSet(f, of(T \ {x}))
      OBVIOUS
    <3>4. PICK A, B : A = of({x}) /\ B = of(T \ {x})
      OBVIOUS
    <3>5. Part(A, D) /\ Part(B, D) /\ A \cap B = {} /\ A \cup B = of(T)
      BY <1>2, <1>4, <3>4
    <3> QED  BY <1>6, <3>2, <3>3, <3>4, <3>5, SumOfUnion
  <2> QED  BY <2>1, <2>2
<1>9. Good \in SUBSET (SUBSET K)
  OBVIOUS
<1> HIDE DEF Good
<1>10. Good = SUBSET K
  BY <1>8, <1>9, EveryPart
<1> QED  BY <1>5, <1>7, <1>10 DEF Good

\* A finite set as a list has each of its elements once.
LEMMA ListOfSet ==
    ASSUME NEW S, IsFiniteSet(S), NEW n, n = Cardinality(S), NEW p, p = SetToSeq(S)
    PROVE  /\ n \in Nat /\ p \in [1 .. n -> S]
           /\ \A i \in S : \E k \in 1 .. n : p[k] = i
           /\ \A k, l \in 1 .. n : p[k] = p[l] => k = l
<1>1. n \in Nat /\ IsFiniteSet(1 .. n) /\ Cardinality(1 .. n) = n
  BY FS_CardinalityType, FS_Interval
<1>2. ExistsBijection(1 .. n, S)
  BY <1>1, FS_SameCardinalityBij
<1>3. PICK f \in [1 .. n -> S] : \A k, l \in 1 .. n : f[k] = f[l] => k = l
  <2>1. PICK f : f \in Bijection(1 .. n, S)
    BY <1>2 DEF ExistsBijection
  <2>2. f \in Injection(1 .. n, S)
    BY <2>1 DEF Bijection
  <2> QED  BY <2>2 DEF Injection, IsInjective
<1>4. IsInjective(f)
  BY <1>3 DEF IsInjective
<1>5. p \in [1 .. n -> S] /\ IsInjective(p)
  <2>1. p = CHOOSE h \in [1 .. n -> S] : IsInjective(h)
    BY DEF SetToSeq
  <2> QED  BY <1>3, <1>4, <2>1
<1>6. p \in Injection(1 .. n, S)
  BY <1>5 DEF Injection, IsInjective
<1>7. p \in Surjection(1 .. n, S)
  BY <1>1, <1>6, FS_Injection
<1> QED  BY <1>1, <1>5, <1>7 DEF IsInjective, Surjection

\* As a report totals its rows.
RowTotals(rows) ==
    Cost!Total([i \in 1 .. Cardinality(DOMAIN rows) |-> rows[SetToSeq(DOMAIN rows)[i]].total])

LEMMA TotalOfRows ==
    ASSUME NEW rows, NEW K, IsFiniteSet(K), DOMAIN rows = K,
           NEW g, Amounts(g, K), \A k \in K : rows[k].total = g[k]
    PROVE  RowTotals(rows) = SumFunctionOnSet(g, K)
<1>1. PICK n, p : n = Cardinality(K) /\ p = SetToSeq(K)
  OBVIOUS
<1>2. /\ n \in Nat /\ p \in [1 .. n -> K]
      /\ \A i \in K : \E k \in 1 .. n : p[k] = i
      /\ \A k, l \in 1 .. n : p[k] = p[l] => k = l
  BY <1>1, ListOfSet
<1>3. PICK h : h = [k \in 1 .. n |-> g[p[k]]]
  OBVIOUS
<1>4. RowTotals(rows) = SumFunction(h)
  <2>1. RowTotals(rows) = Cost!Total([i \in 1 .. n |-> rows[p[i]].total])
    BY <1>1, Zenon DEF RowTotals
  <2> QED  BY <1>2, <1>3, <2>1, CostSum DEF Cost!Total
<1>5. Orders(p, 1 .. n, K) /\ Part(K, K)
  BY <1>2, FS_Interval DEF Orders, Part
<1>6. SumFunctionOnSet(h, 1 .. n) = SumFunctionOnSet(g, K)
  <2>1. TermsOf(h, g, p, 1 .. n)
    BY <1>3 DEF TermsOf
  <2> QED  BY <1>5, <2>1, SumInOrder
<1> QED  BY <1>3, <1>4, <1>6 DEF SumFunction

PaidItems(t, m) == IsList(t, m) /\ \A i \in 1 .. m : t[i].price \in Int

\* The rows of a list t of m items, whose keys are given.
KeyRows(rows, t, m, key) ==
    /\ key \in [1 .. m -> DOMAIN rows]
    /\ \A k \in DOMAIN rows :
         /\ \E i \in 1 .. m : key[i] = k
         /\ rows[k].total = SumFunction(Cost!Prices(Picked(t, {i \in 1 .. m : key[i] = k})))

LEMMA RowsAddUp ==
    ASSUME NEW t, NEW m, PaidItems(t, m), NEW rows, NEW key, KeyRows(rows, t, m, key)
    PROVE  RowTotals(rows) = SumFunction(Cost!Prices(t))
<1>1. m \in Nat /\ DOMAIN t = 1 .. m
  BY DEF PaidItems, IsList
<1>2. PICK p : p = Cost!Prices(t)
  OBVIOUS
<1>3. p \in [1 .. m -> Int]
  BY <1>1, <1>2 DEF PaidItems, Cost!Prices
<1>4. PICK K : K = DOMAIN rows
  OBVIOUS
<1>5. key \in [1 .. m -> K] /\ \A k \in K : \E i \in 1 .. m : key[i] = k
  BY <1>4 DEF KeyRows
<1>6. IsFiniteSet(1 .. m)
  BY <1>1, FS_Interval
<1>7. IsFiniteSet(K)
  BY <1>5, <1>6, ImageCount
<1>8. PICK g : g = [k \in K |-> SumFunctionOnSet(p, {i \in 1 .. m : key[i] = k})]
  OBVIOUS
<1>9. Amounts(p, 1 .. m)
  BY <1>3 DEF Amounts
<1>10. Amounts(g, K) /\ SumFunctionOnSet(g, K) = SumFunctionOnSet(p, 1 .. m)
  <2>1. KeySums(g, K, p, 1 .. m, key)
    BY <1>5, <1>8 DEF KeySums
  <2> QED  BY <1>6, <1>7, <1>9, <2>1, SumByKey
<1>11. \A k \in K : rows[k].total = g[k]
  <2> SUFFICES ASSUME NEW k \in K PROVE rows[k].total = g[k]
    OBVIOUS
  <2>1. PICK S : S = {i \in 1 .. m : key[i] = k}
    OBVIOUS
  <2> QED  BY <1>1, <1>2, <1>3, <1>4, <1>8, <2>1, PaidOnce DEF KeyRows
<1> QED  BY <1>2, <1>3, <1>4, <1>7, <1>10, <1>11, TotalOfRows DEF SumFunction

LEMMA VehicleRows ==
    ASSUME NEW t, NEW m, PaidItems(t, m), NEW rows,
           rows = Cost!RowsBy(t, LAMBDA it : it.vehicle),
           NEW key, key = [i \in 1 .. m |-> t[i].vehicle]
    PROVE  KeyRows(rows, t, m, key)
<1>1. DOMAIN t = 1 .. m
  BY DEF PaidItems, IsList
<1>2. rows = [k \in {it.vehicle : it \in ToSet(t)} |->
                [total |-> SumFunction(Cost!Prices(Picked(t, {i \in DOMAIN t : t[i].vehicle = k}))),
                 count |-> Cost!Len(Picked(t, {i \in DOMAIN t : t[i].vehicle = k}))]]
  BY CostToSet, CostSum, CostPicked, Zenon DEF Cost!RowsBy, Cost!Total, Cost!Where
<1>3. DOMAIN rows = {it.vehicle : it \in ToSet(t)}
  BY <1>2
<1>4. /\ key \in [1 .. m -> DOMAIN rows]
      /\ \A k \in DOMAIN rows : \E i \in 1 .. m : key[i] = k
  <2>1. \A x \in ToSet(t) : \E i \in 1 .. m : x = t[i]
    BY <1>1 DEF ToSet
  <2>2. \A i \in 1 .. m : t[i] \in ToSet(t)
    BY <1>1 DEF ToSet
  <2> QED  BY <1>3, <2>1, <2>2
<1>5. ASSUME NEW k \in DOMAIN rows
      PROVE  rows[k].total = SumFunction(Cost!Prices(Picked(t, {i \in 1 .. m : key[i] = k})))
  BY <1>1, <1>2, <1>3
<1> QED  BY <1>4, <1>5 DEF KeyRows

LEMMA CategoryRows ==
    ASSUME NEW t, NEW m, PaidItems(t, m), NEW rows,
           rows = Cost!RowsBy(t, LAMBDA it : it.category),
           NEW key, key = [i \in 1 .. m |-> t[i].category]
    PROVE  KeyRows(rows, t, m, key)
<1>1. DOMAIN t = 1 .. m
  BY DEF PaidItems, IsList
<1>2. rows = [k \in {it.category : it \in ToSet(t)} |->
                [total |-> SumFunction(Cost!Prices(Picked(t, {i \in DOMAIN t : t[i].category = k}))),
                 count |-> Cost!Len(Picked(t, {i \in DOMAIN t : t[i].category = k}))]]
  BY CostToSet, CostSum, CostPicked, Zenon DEF Cost!RowsBy, Cost!Total, Cost!Where
<1>3. DOMAIN rows = {it.category : it \in ToSet(t)}
  BY <1>2
<1>4. /\ key \in [1 .. m -> DOMAIN rows]
      /\ \A k \in DOMAIN rows : \E i \in 1 .. m : key[i] = k
  <2>1. \A x \in ToSet(t) : \E i \in 1 .. m : x = t[i]
    BY <1>1 DEF ToSet
  <2>2. \A i \in 1 .. m : t[i] \in ToSet(t)
    BY <1>1 DEF ToSet
  <2> QED  BY <1>3, <2>1, <2>2
<1>5. ASSUME NEW k \in DOMAIN rows
      PROVE  rows[k].total = SumFunction(Cost!Prices(Picked(t, {i \in 1 .. m : key[i] = k})))
  <2>1. {i \in DOMAIN t : t[i].category = k} = {i \in 1 .. m : key[i] = k}
    BY <1>1
  <2> QED  BY <1>2, <1>3, <2>1
<1> QED  BY <1>4, <1>5 DEF KeyRows

LEMMA MonthRows ==
    ASSUME NEW t, NEW m, PaidItems(t, m), NEW tz, NEW rows,
           rows = Cost!RowsBy(t, LAMBDA it : Cost!MonthOf(it.date, tz)),
           NEW key, key = [i \in 1 .. m |-> Cost!MonthOf(t[i].date, tz)]
    PROVE  KeyRows(rows, t, m, key)
<1>1. DOMAIN t = 1 .. m
  BY DEF PaidItems, IsList
<1>2. rows = [k \in {Cost!MonthOf(it.date, tz) : it \in ToSet(t)} |->
                [total |-> SumFunction(Cost!Prices(Picked(t, {i \in DOMAIN t : Cost!MonthOf(t[i].date, tz) = k}))),
                 count |-> Cost!Len(Picked(t, {i \in DOMAIN t : Cost!MonthOf(t[i].date, tz) = k}))]]
  BY CostToSet, CostSum, CostPicked, Zenon DEF Cost!RowsBy, Cost!Total, Cost!Where
<1>3. DOMAIN rows = {Cost!MonthOf(it.date, tz) : it \in ToSet(t)}
  BY <1>2
<1>4. /\ key \in [1 .. m -> DOMAIN rows]
      /\ \A k \in DOMAIN rows : \E i \in 1 .. m : key[i] = k
  <2>1. \A i \in 1 .. m : key[i] = Cost!MonthOf(t[i].date, tz)
    OBVIOUS
  <2>2. \A i \in 1 .. m : key[i] \in DOMAIN rows
    <3> SUFFICES ASSUME NEW i \in 1 .. m  PROVE key[i] \in DOMAIN rows
      OBVIOUS
    <3>1. PICK it : it = t[i] /\ it \in ToSet(t)
      BY <1>1 DEF ToSet
    <3>2. Cost!MonthOf(it.date, tz) \in DOMAIN rows
      BY <1>3, <3>1, Zenon
    <3> QED  BY <2>1, <3>1, <3>2
  <2>3. ASSUME NEW k \in DOMAIN rows  PROVE \E i \in 1 .. m : key[i] = k
    <3>1. PICK it \in ToSet(t) : k = Cost!MonthOf(it.date, tz)
      BY <1>3, <2>3, Zenon
    <3>2. PICK i \in 1 .. m : it = t[i]
      BY <1>1, <3>1 DEF ToSet
    <3> QED  BY <2>1, <3>1, <3>2
  <2> QED  BY <2>2, <2>3
<1>5. ASSUME NEW k \in DOMAIN rows
      PROVE  rows[k].total = SumFunction(Cost!Prices(Picked(t, {i \in 1 .. m : key[i] = k})))
  <2>1. PICK r : r = Picked(t, {i \in DOMAIN t : Cost!MonthOf(t[i].date, tz) = k})
    OBVIOUS
  <2>2. PICK total, count : total = SumFunction(Cost!Prices(r)) /\ count = Cost!Len(r)
    OBVIOUS
  <2>3. rows[k] = [total |-> total, count |-> count]
    BY <1>2, <1>3, <2>1, <2>2, Zenon
  <2>4. rows[k].total = total
    BY <2>3
  <2> QED  BY <1>1, <2>1, <2>2, <2>4, Zenon
<1> QED  BY <1>4, <1>5 DEF KeyRows

\* The day of the invoice lies between the days asked for.
DayWithin(date, from, to) ==
    /\ (from # None \/ to # None) => date # None
    /\ from # None => date >= from
    /\ to # None => date <= to

LEMMA LastHour ==
    ASSUME NEW date \in Int, date % 24 = 0, NEW to \in Int, to % 24 = 0, NEW tz \in -12 .. 14
    PROVE  date <= Cost!EndOfLocalDay(to, tz) <=> date <= to
<1>1. PICK a \in Int, b \in Int : date = 24 * a /\ to = 24 * b
  OBVIOUS
<1>2. PICK e : e = (to + tz) \div 24
  OBVIOUS
<1>3. e \in Int /\ 24 * e <= to + tz /\ to + tz < 24 * e + 24
  BY <1>2
<1> QED  BY <1>1, <1>2, <1>3 DEF Cost!EndOfLocalDay, Cost!Hours

LEMMA PeriodFacts ==
    ASSUME NEW date, date # None => Cost!Midnight(date),
           NEW from, from # None => Cost!Midnight(from),
           NEW to, to # None => Cost!Midnight(to), NEW tz \in -12 .. 14
    PROVE  Cost!InPeriod(date, from, to, tz) <=> DayWithin(date, from, to)
<1>1. CASE date = None
  BY <1>1 DEF Cost!InPeriod, DayWithin
<1>2. CASE to = None
  BY <1>2 DEF Cost!InPeriod, DayWithin
<1>3. CASE date # None /\ to # None
  BY <1>3, LastHour DEF Cost!InPeriod, DayWithin, Cost!Midnight, Cost!Hours
<1> QED  BY <1>1, <1>2, <1>3

\* A number lies in the step of d that its quotient tells.
LEMMA InStep ==
    ASSUME NEW e \in Int, NEW d \in Int, d > 0, NEW m \in Int
    PROVE  m * d <= e /\ e < (m + 1) * d <=> e \div d = m
<1>1. PICK q \in Int : q = e \div d
  OBVIOUS
<1>2. d * q <= e /\ e < d * q + d
  BY <1>1
<1>3. m * d = d * m /\ (m + 1) * d = d * m + d
  OBVIOUS
<1>4. CASE q = m
  BY <1>1, <1>2, <1>3, <1>4
<1>5. CASE q >= m + 1
  BY <1>1, <1>2, <1>3, <1>5
<1>6. CASE q <= m - 1
  BY <1>1, <1>2, <1>3, <1>6
<1> QED  BY <1>4, <1>5, <1>6

LEMMA PreviousMonth ==
    ASSUME NEW now, Cost!Midnight(now), NEW d, Cost!Midnight(d),
           NEW month, month = Cost!PreviousMonthRange(now, 0)
    PROVE  Cost!InPeriod(d, month.from, month.to, 0)
             <=> Cost!MonthOf(d, 0) = Cost!MonthOf(now, 0) - 1
<1>1. PICK a \in Int, b \in Int : now = 24 * a /\ d = 24 * b
  BY DEF Cost!Midnight, Cost!Hours
<1>2. MonthDays \in Int /\ MonthDays > 0 /\ None \notin Int
  BY RulesAssumption
<1>3. PICK m : m = a \div MonthDays - 1
  OBVIOUS
<1>4. m \in Int
  BY <1>2, <1>3
<1>5. /\ Cost!MonthOf(now, 0) = m + 1
      /\ Cost!MonthOf(d, 0) = b \div MonthDays
  <2>1. now + 0 = now /\ d + 0 = d
    BY <1>1
  <2> QED  BY <1>1, <1>2, <1>3, <2>1 DEF Cost!MonthOf, Cost!Hours
<1>6. PICK x, y : x = m * MonthDays /\ y = (m + 1) * MonthDays
  OBVIOUS
<1>7. x \in Int /\ y \in Int
  BY <1>2, <1>4, <1>6
<1>8. month.from = 24 * x /\ month.to = 24 * y - 24
  BY <1>4, <1>5, <1>6, <1>7 DEF Cost!PreviousMonthRange, Cost!Hours
<1>9. /\ d # None /\ month.from # None /\ month.to # None
       /\ Cost!Midnight(month.from) /\ Cost!Midnight(month.to)
  BY <1>1, <1>2, <1>7, <1>8 DEF Cost!Midnight, Cost!Hours
<1>10. x <= b /\ b < y <=> b \div MonthDays = m
  BY <1>2, <1>4, <1>6, InStep
<1> QED  BY <1>1, <1>4, <1>5, <1>7, <1>8, <1>9, <1>10, PeriodFacts DEF DayWithin

\* The items a report counts and those of them that have a date.
Counted(items, n, from, to) ==
    Picked(items, {i \in 1 .. n : DayWithin(items[i].date, from, to)})
Dated(items) == Picked(items, {i \in DOMAIN items : items[i].date # None})

DatedByDay(items, n) == \A i \in 1 .. n : items[i].date # None => Cost!Midnight(items[i].date)

LEMMA StillPaid ==
    ASSUME NEW items, NEW n, PaidItems(items, n), NEW S, S \subseteq 1 .. n,
           NEW t, t = Picked(items, S)
    PROVE  \E m : PaidItems(t, m)
<1>1. PICK m : Keeps(t, items, S, m)
  BY WhereKeeps DEF Chosen, PaidItems, IsList
<1>2. \A k \in 1 .. m : t[k].price \in Int
  BY <1>1 DEF PaidItems, Keeps
<1> QED  BY <1>1, <1>2 DEF PaidItems, IsList, Keeps

\* What a report tells of the items it counts.
Tells(sum, counted, dated, tz) ==
    /\ sum.itemTotal = Cost!Total(Cost!Prices(counted))
    /\ sum.itemCount = Len(counted)
    /\ sum.byVehicle = Cost!RowsBy(counted, LAMBDA it : it.vehicle)
    /\ sum.byCategory = Cost!RowsBy(counted, LAMBDA it : it.category)
    /\ sum.byMonth = Cost!RowsBy(dated, LAMBDA it : Cost!MonthOf(it.date, tz))

LEMMA SummaryFacts ==
    ASSUME NEW items, NEW n, PaidItems(items, n), DatedByDay(items, n),
           NEW from, from # None => Cost!Midnight(from),
           NEW to, to # None => Cost!Midnight(to), NEW tz \in -12 .. 14,
           NEW counted, counted = Counted(items, n, from, to), NEW dated, dated = Dated(counted),
           NEW sum, sum = Cost!Summary(items, from, to, tz)
    PROVE  Tells(sum, counted, dated, tz)
<1>1. PICK S : S = {i \in 1 .. n : DayWithin(items[i].date, from, to)}
  OBVIOUS
<1>2. {i \in DOMAIN items : Cost!InPeriod(items[i].date, from, to, tz)} = S
  <2>1. \A i \in 1 .. n : Cost!InPeriod(items[i].date, from, to, tz)
                            <=> DayWithin(items[i].date, from, to)
    <3> TAKE i \in 1 .. n
    <3>1. PICK date : date = items[i].date
      OBVIOUS
    <3> QED  BY <3>1, PeriodFacts DEF DatedByDay
  <2> QED  BY <1>1, <2>1 DEF PaidItems, IsList
<1> QED  BY <1>1, <1>2, CostPicked DEF Tells, Cost!Summary, Cost!Where, Dated, Counted,
            Cost!LoadItems

LEMMA ReportFacts ==
    ASSUME NEW items, NEW n, PaidItems(items, n), NEW from, NEW to,
           NEW counted, counted = Counted(items, n, from, to), NEW dated, dated = Dated(counted),
           NEW tz, NEW sum, Tells(sum, counted, dated, tz)
    PROVE  /\ RowTotals(sum.byVehicle) = sum.itemTotal
           /\ RowTotals(sum.byCategory) = sum.itemTotal
           /\ RowTotals(sum.byMonth) = Cost!Total(Cost!Prices(dated))
<1>1. PICK m : PaidItems(counted, m)
  <2>1. PICK S : S = {i \in 1 .. n : DayWithin(items[i].date, from, to)}
    OBVIOUS
  <2> QED  BY <2>1, StillPaid DEF Counted
<1>2. PICK l : PaidItems(dated, l)
  <2>1. PICK S : S = {i \in DOMAIN counted : counted[i].date # None}
    OBVIOUS
  <2>2. S \subseteq 1 .. m /\ dated = Picked(counted, S)
    BY <1>1, <2>1 DEF Dated, PaidItems, IsList
  <2> QED  BY <1>1, <2>2, StillPaid
<1>3. /\ Cost!Total(Cost!Prices(counted)) = SumFunction(Cost!Prices(counted))
      /\ Cost!Total(Cost!Prices(dated)) = SumFunction(Cost!Prices(dated))
  BY CostSum DEF Cost!Total
<1>4. RowTotals(sum.byVehicle) = sum.itemTotal
  <2>1. PICK rows, key : rows = sum.byVehicle /\ key = [i \in 1 .. m |-> counted[i].vehicle]
    OBVIOUS
  <2> QED  BY <1>1, <1>3, <2>1, RowsAddUp, VehicleRows DEF Tells
<1>5. RowTotals(sum.byCategory) = sum.itemTotal
  <2>1. PICK rows, key : rows = sum.byCategory /\ key = [i \in 1 .. m |-> counted[i].category]
    OBVIOUS
  <2> QED  BY <1>1, <1>3, <2>1, RowsAddUp, CategoryRows DEF Tells
<1>6. RowTotals(sum.byMonth) = Cost!Total(Cost!Prices(dated))
  <2>1. PICK rows, key : /\ rows = sum.byMonth
                         /\ key = [i \in 1 .. l |-> Cost!MonthOf(dated[i].date, tz)]
    OBVIOUS
  <2>2. KeyRows(rows, dated, l, key)
    BY <1>2, <2>1, MonthRows DEF Tells
  <2> QED  BY <1>2, <1>3, <2>1, <2>2, RowsAddUp
<1> QED  BY <1>4, <1>5, <1>6

-----------------------------------------------------------------------------
(* The latest service: a fold, as a function on the sets of places *)

LEMMA RemLargest ==
    ASSUME NEW n \in Nat, NEW S \in SUBSET (1 .. n), S # {}, NEW m, m = Rem!Max(S)
    PROVE  m \in S /\ \A y \in S : y <= m
BY Largest DEF Rem!Max, Imp!Max

LaterFolds(f, D, base, list) ==
    f = [s \in SUBSET D |->
           IF s = {} THEN base
           ELSE Rem!Later(f[s \ {Rem!Max(s)}], list[Rem!Max(s)])]

LEMMA LaterOneMore ==
    ASSUME NEW base, NEW list, NEW k \in Nat, NEW f, LaterFolds(f, 1 .. k, base, list)
    PROVE  \E g : LaterFolds(g, 1 .. k + 1, base, list)
<1> DEFINE D == 1 .. k
           E == 1 .. k + 1
           g == [s \in SUBSET E |->
                   IF k + 1 \in s THEN Rem!Later(f[s \ {k + 1}], list[k + 1]) ELSE f[s]]
           body(s) == IF s = {} THEN base
                      ELSE Rem!Later(g[s \ {Rem!Max(s)}], list[Rem!Max(s)])
<1>1. \A s \in SUBSET D : s \in SUBSET E /\ k + 1 \notin s /\ g[s] = f[s]
  OBVIOUS
<1>2. ASSUME NEW s \in SUBSET E PROVE g[s] = body(s)
  <2>1. CASE k + 1 \in s
    <3>1. Rem!Max(s) = k + 1
      <4>1. k + 1 \in Nat /\ s # {}
        BY <2>1
      <4>2. Rem!Max(s) \in s /\ k + 1 <= Rem!Max(s)
        BY <2>1, <4>1, RemLargest
      <4>3. Rem!Max(s) \in 1 .. k + 1
        BY <4>2
      <4> HIDE DEF body
      <4> QED  BY <4>1, <4>2, <4>3
    <3>2. g[s \ {k + 1}] = f[s \ {k + 1}] /\ g[s] = Rem!Later(f[s \ {k + 1}], list[k + 1])
      BY <1>1, <2>1
    <3> HIDE DEF g
    <3> QED  BY <2>1, <3>1, <3>2
  <2>2. CASE k + 1 \notin s
    <3>1. s \in SUBSET D
      BY <2>2
    <3>2. s \ {Rem!Max(s)} \in SUBSET D
      BY <3>1
    <3> HIDE DEF g
    <3> QED  BY <1>1, <3>1, <3>2 DEF LaterFolds
  <2> QED  BY <2>1, <2>2
<1>3. g = [s \in SUBSET E |-> body(s)]
  <2>1. g = [s \in SUBSET E |-> g[s]]
    OBVIOUS
  <2> HIDE DEF g
  <2> QED  BY <1>2, <2>1
<1> QED  BY <1>3 DEF LaterFolds

LEMMA LaterExists ==
    ASSUME NEW base, NEW list, NEW n \in Nat
    PROVE  \E f : LaterFolds(f, 1 .. n, base, list)
<1> DEFINE P(k) == \E f : LaterFolds(f, 1 .. k, base, list)
           S == {k \in Nat : ~P(k)}
<1>1. P(0)
  <2> DEFINE f == [s \in {{}} |-> base]
  <2>1. LaterFolds(f, {}, base, list)
    BY DEF LaterFolds
  <2> QED  BY <2>1
<1>2. \A k \in Nat : P(k) => P(k + 1)
  BY LaterOneMore
<1> HIDE DEF P
<1>3. ASSUME S # {} PROVE FALSE
  <2>1. PICK k \in S : \A y \in S : k <= y
    BY <1>3, Smallest
  <2> QED  BY <1>1, <1>2, <2>1
<1> QED  BY <1>3 DEF P

\* The latest of the services up to the k-th.
LEMMA LaterFirst ==
    ASSUME NEW base, NEW list, NEW D, NEW f, LaterFolds(f, D, base, list)
    PROVE  f[1 .. 0] = base
BY DEF LaterFolds

LEMMA LaterNext ==
    ASSUME NEW base, NEW list, NEW n \in Nat,
           NEW f, LaterFolds(f, 1 .. n, base, list)
    PROVE  \A k \in 1 .. n : f[1 .. k] = Rem!Later(f[1 .. k - 1], list[k])
<1>1. ASSUME NEW k \in 1 .. n
      PROVE  f[1 .. k] = Rem!Later(f[1 .. k - 1], list[k])
  <2>1. 1 .. k \in SUBSET (1 .. n) /\ 1 .. k # {} /\ k \in 1 .. k /\ k \in Nat
    OBVIOUS
  <2>2. Rem!Max(1 .. k) = k
    <3>1. Rem!Max(1 .. k) \in 1 .. k /\ k <= Rem!Max(1 .. k)
      BY <2>1, RemLargest
    <3> QED  BY <3>1
  <2>3. (1 .. k) \ {k} = 1 .. k - 1
    OBVIOUS
  <2> QED  BY <2>1, <2>2, <2>3 DEF LaterFolds
<1> QED  BY <1>1

\* A list of n services with their dates and mileages.
ServiceList(list, n) ==
    /\ IsList(list, n)
    /\ \A i \in 1 .. n : /\ list[i].date = None \/ list[i].date \in Int
                         /\ list[i].km = None \/ list[i].km \in Int

\* best is the latest of the first k services, or the farthest if none has a date.
LatestByDate(best, list, k) ==
    /\ best.date = None => \A i \in 1 .. k : list[i].date = None
    /\ best.date # None => /\ \E i \in 1 .. k : list[i].date = best.date
                           /\ \A i \in 1 .. k : list[i].date = None \/ list[i].date <= best.date

FarthestIfNone(best, list, k) ==
    best.date = None =>
      /\ best.km = None => \A i \in 1 .. k : list[i].km = None
      /\ best.km # None => /\ \E i \in 1 .. k : list[i].km = best.km
                           /\ \A i \in 1 .. k : list[i].km = None \/ list[i].km <= best.km

LatestSoFar(best, list, k) ==
    LatestByDate(best, list, k) /\ FarthestIfNone(best, list, k)

NoService == [date |-> None, km |-> None]

LEMMA LatestStep ==
    ASSUME NEW list, NEW n, ServiceList(list, n), NEW k \in Nat, k + 1 <= n,
           NEW best, LatestSoFar(best, list, k), NEW next, next = Rem!Later(best, list[k + 1])
    PROVE  LatestSoFar(next, list, k + 1)
<1>1. n \in Nat /\ k + 1 \in 1 .. n
  BY DEF ServiceList, IsList
<1>2. \A i \in 1 .. n : /\ list[i].date = None \/ list[i].date \in Int
                        /\ list[i].km = None \/ list[i].km \in Int
  BY DEF ServiceList
<1>3. \A i \in 1 .. k : i \in 1 .. n
  BY <1>1
<1>4. \A i \in 1 .. k + 1 : i \in 1 .. k \/ i = k + 1
  BY <1>1
<1>5. \A i \in 1 .. k : i \in 1 .. k + 1
  BY <1>1
<1>6. k + 1 \in 1 .. k + 1
  BY <1>1
<1>7. PICK o : o = list[k + 1]
  OBVIOUS
<1>8. /\ o.date = None \/ o.date \in Int
      /\ o.km = None \/ o.km \in Int
  BY <1>1, <1>2, <1>7
<1>9. LatestByDate(best, list, k) /\ FarthestIfNone(best, list, k)
  BY DEF LatestSoFar
<1>10. best.date = None \/ best.date \in Int
  BY <1>2, <1>3, <1>9 DEF LatestByDate
<1>11. best.date = None => best.km = None \/ best.km \in Int
  BY <1>2, <1>3, <1>9 DEF FarthestIfNone
<1>12. next = IF o.date # None
              THEN IF best.date = None \/ o.date > best.date THEN o ELSE best
              ELSE IF best.date = None /\ o.km # None /\ (best.km = None \/ o.km > best.km)
                   THEN o ELSE best
  BY <1>7 DEF Rem!Later
<1>13. CASE o.date # None /\ (best.date = None \/ o.date > best.date)
  <2>1. \A i \in 1 .. k : list[i].date = None \/ list[i].date <= o.date
    BY <1>2, <1>3, <1>8, <1>9, <1>10, <1>13 DEF LatestByDate
  <2> QED  BY <1>4, <1>6, <1>7, <1>8, <1>12, <1>13, <2>1 DEF LatestSoFar, FarthestIfNone,
              LatestByDate
<1>14. CASE o.date # None /\ ~(best.date = None \/ o.date > best.date)
  <2>1. next = best
    BY <1>12, <1>14
  <2> QED  BY <1>4, <1>5, <1>7, <1>8, <1>9, <1>10, <1>14, <2>1 DEF LatestSoFar,
              FarthestIfNone, LatestByDate
<1>15. CASE o.date = None /\ best.date # None
  BY <1>4, <1>5, <1>7, <1>9, <1>12, <1>15 DEF LatestSoFar, FarthestIfNone, LatestByDate
<1>16. CASE /\ o.date = None /\ best.date = None
            /\ o.km # None /\ (best.km = None \/ o.km > best.km)
  <2>1. \A i \in 1 .. k : list[i].km = None \/ list[i].km <= o.km
    BY <1>2, <1>3, <1>8, <1>9, <1>11, <1>16 DEF FarthestIfNone
  <2> QED  BY <1>4, <1>6, <1>7, <1>8, <1>9, <1>12, <1>16, <2>1 DEF LatestSoFar,
              LatestByDate, FarthestIfNone
<1>17. CASE /\ o.date = None /\ best.date = None
            /\ ~(o.km # None /\ (best.km = None \/ o.km > best.km))
  BY <1>4, <1>5, <1>7, <1>8, <1>9, <1>11, <1>12, <1>17 DEF LatestSoFar, LatestByDate,
     FarthestIfNone
<1> QED  BY <1>13, <1>14, <1>15, <1>16, <1>17

LEMMA LatestFold ==
    ASSUME NEW list, NEW D, D = DOMAIN list
    PROVE  Rem!LatestOccurrence(list) = (CHOOSE f : LaterFolds(f, D, NoService, list))[D]
BY Zenon DEF Rem!LatestOccurrence, Rem!Reduce, Rem!MapThenFoldSet, LaterFolds, NoService

LEMMA LatestFacts ==
    ASSUME NEW list, NEW n, ServiceList(list, n)
    PROVE  LatestSoFar(Rem!LatestOccurrence(list), list, n)
<1>1. n \in Nat /\ DOMAIN list = 1 .. n
  BY DEF ServiceList, IsList
<1>2. PICK f : f = CHOOSE g : LaterFolds(g, 1 .. n, NoService, list)
  OBVIOUS
<1>3. LaterFolds(f, 1 .. n, NoService, list)
  BY <1>1, <1>2, LaterExists
<1> DEFINE N == {k \in Nat : k <= n => LatestSoFar(f[1 .. k], list, k)}
<1>4. 0 \in N
  BY <1>3, LaterFirst DEF LatestSoFar, LatestByDate, FarthestIfNone, NoService
<1>5. \A k \in N : k + 1 \in N
  <2> SUFFICES ASSUME NEW k \in N, k + 1 <= n PROVE LatestSoFar(f[1 .. k + 1], list, k + 1)
    OBVIOUS
  <2>1. k \in Nat /\ LatestSoFar(f[1 .. k], list, k)
    BY <1>1
  <2>2. PICK best, next : best = f[1 .. k] /\ next = f[1 .. k + 1]
    OBVIOUS
  <2> QED  BY <1>1, <1>3, <2>1, <2>2, LatestStep, LaterNext
<1> HIDE DEF N
<1>6. N = Nat
  BY <1>4, <1>5, EveryNumber DEF N
<1> QED  BY <1>1, <1>2, <1>6, LatestFold DEF N

-----------------------------------------------------------------------------
(* The distances between numbers in order *)

LEMMA SumOfZeros ==
    ASSUME NEW D, NEW f, Amounts(f, D), NEW S, Part(S, D), \A x \in S : f[x] = 0
    PROVE  SumFunctionOnSet(f, S) = 0
<1> DEFINE Good == {T \in SUBSET S : SumFunctionOnSet(f, T) = 0}
<1>1. \A T \in SUBSET S : (\A x \in T : T \ {x} \in Good) => T \in Good
  <2> SUFFICES ASSUME NEW T \in SUBSET S, \A x \in T : T \ {x} \in Good
               PROVE  SumFunctionOnSet(f, T) = 0
    OBVIOUS
  <2>1. CASE T = {}
    BY <2>1, SumNone
  <2>2. CASE T # {}
    <3>1. PICK x \in T : TRUE
      BY <2>2
    <3>2. SumFunctionOnSet(f, T) = f[x] + SumFunctionOnSet(f, T \ {x})
      BY SumOfOneLess, FS_Subset DEF Part
    <3> QED  BY <3>2
  <2> QED  BY <2>1, <2>2
<1>2. Good \in SUBSET (SUBSET S)
  OBVIOUS
<1> HIDE DEF Good
<1>3. Good = SUBSET S
  BY <1>1, <1>2, EveryPart DEF Part
<1> QED  BY <1>3 DEF Good

LEMMA SumAtLeast ==
    ASSUME NEW D, NEW f, Amounts(f, D), NEW S, Part(S, D), \A x \in S : f[x] >= 1
    PROVE  SumFunctionOnSet(f, S) \in Int /\ SumFunctionOnSet(f, S) >= Cardinality(S)
<1> DEFINE Good == {T \in SUBSET S : SumFunctionOnSet(f, T) >= Cardinality(T)}
<1>1. \A T \in SUBSET S : /\ Part(T, D) /\ IsFiniteSet(T) /\ Cardinality(T) \in Nat
                          /\ \A x \in T : Cardinality(T \ {x}) = Cardinality(T) - 1
  <2> TAKE T \in SUBSET S
  <2> QED  BY FS_RemoveElement, FS_CardinalityType, FS_Subset DEF Part
<1>2. \A T \in SUBSET S : SumFunctionOnSet(f, T) \in Int
  BY <1>1, SumInt
<1>3. \A x \in S : f[x] \in Int
  BY DEF Amounts, Part
<1>4. \A T \in SUBSET S : (\A x \in T : T \ {x} \in Good) => T \in Good
  <2> SUFFICES ASSUME NEW T \in SUBSET S, \A x \in T : T \ {x} \in Good
               PROVE  SumFunctionOnSet(f, T) >= Cardinality(T)
    OBVIOUS
  <2>1. CASE T = {}
    BY <2>1, SumNone, FS_EmptySet
  <2>2. CASE T # {}
    <3>1. PICK x \in T : TRUE
      BY <2>2
    <3>2. SumFunctionOnSet(f, T) = f[x] + SumFunctionOnSet(f, T \ {x})
      BY <1>1, SumOfOneLess
    <3>3. Cardinality(T \ {x}) = Cardinality(T) - 1 /\ Cardinality(T) \in Nat
      BY <1>1, <3>1
    <3> QED  BY <1>2, <1>3, <3>2, <3>3
  <2> QED  BY <2>1, <2>2
<1>5. Good \in SUBSET (SUBSET S)
  OBVIOUS
<1> HIDE DEF Good
<1>6. Good = SUBSET S
  BY <1>4, <1>5, EveryPart DEF Part
<1> QED  BY <1>2, <1>6 DEF Good

Steps(h, o, M) ==
    /\ M \in Nat /\ o \in [1 .. M + 1 -> Int]
    /\ h = [i \in 1 .. M |-> o[i + 1] - o[i]]

\* The distances between neighbours add up to the distance of the ends.
LEMMA Telescope ==
    ASSUME NEW M, NEW o, NEW h, Steps(h, o, M)
    PROVE  Amounts(h, 1 .. M) /\ SumFunctionOnSet(h, 1 .. M) = o[M + 1] - o[1]
<1>1. /\ M \in Nat /\ o \in [1 .. M + 1 -> Int]
      /\ h = [i \in 1 .. M |-> o[i + 1] - o[i]]
  BY DEF Steps
<1>2. \A i \in 1 .. M + 1 : o[i] \in Int
  BY <1>1
<1>3. Amounts(h, 1 .. M)
  BY <1>1, <1>2 DEF Amounts
<1> DEFINE N == {k \in Nat : k <= M => SumFunctionOnSet(h, 1 .. k) = o[k + 1] - o[1]}
<1>4. 0 \in N
  BY <1>1, <1>2, SumNone
<1>5. \A k \in N : k + 1 \in N
  <2> SUFFICES ASSUME NEW k \in N, k + 1 <= M
               PROVE  SumFunctionOnSet(h, 1 .. k + 1) = o[(k + 1) + 1] - o[1]
    OBVIOUS
  <2>1. k \in Nat /\ SumFunctionOnSet(h, 1 .. k) = o[k + 1] - o[1]
    BY <1>1
  <2>2. PICK K : K = 1 .. k + 1
    OBVIOUS
  <2>3. k + 1 \in K /\ K \ {k + 1} = 1 .. k /\ K \subseteq 1 .. M
    <3>1. k \in Nat /\ M \in Nat
      BY <1>1, <2>1
    <3> QED  BY <2>2, <3>1
  <2>4. Part(K, 1 .. M)
    BY <1>1, <2>3, PartOf
  <2>5. SumFunctionOnSet(h, K) = h[k + 1] + SumFunctionOnSet(h, 1 .. k)
    BY <1>3, <2>3, <2>4, SumOfOneLess
  <2> QED  BY <1>1, <1>2, <2>1, <2>2, <2>5
<1> HIDE DEF N
<1>6. SumFunctionOnSet(h, 1 .. M) = o[M + 1] - o[1]
  <2>1. M \in Nat /\ M <= M
    BY <1>1
  <2> QED  BY <1>4, <1>5, <2>1, EveryNumber DEF N
<1> QED  BY <1>3, <1>6

\* Only those that are not zero count.
LEMMA TelescopeUp ==
    ASSUME NEW M, NEW o, NEW h, Steps(h, o, M), NEW P, P = {i \in 1 .. M : h[i] > 0},
           \A i \in 1 .. M : h[i] >= 0
    PROVE  SumFunctionOnSet(h, P) = o[M + 1] - o[1]
<1>1. Amounts(h, 1 .. M) /\ SumFunctionOnSet(h, 1 .. M) = o[M + 1] - o[1]
  BY Telescope
<1>2. PICK Q : Q = {i \in 1 .. M : h[i] = 0}
  OBVIOUS
<1>3. P \cup Q = 1 .. M /\ P \cap Q = {}
  BY <1>1, <1>2 DEF Amounts
<1>4. Part(P, 1 .. M) /\ Part(Q, 1 .. M)
  BY <1>2, PartOf DEF Steps
<1>5. SumFunctionOnSet(h, P \cup Q) = SumFunctionOnSet(h, P) + SumFunctionOnSet(h, Q)
  BY <1>1, <1>3, <1>4, SumOfUnion
<1>6. SumFunctionOnSet(h, Q) = 0
  BY <1>1, <1>2, <1>4, SumOfZeros
<1>7. SumFunctionOnSet(h, P \cup Q) = SumFunctionOnSet(h, P)
  BY <1>1, <1>4, <1>5, <1>6, SumInt
<1> QED  BY <1>1, <1>3, <1>7

LEMMA RemSorted ==
    ASSUME NEW s, NEW n, Numbers(s, n), NEW o, o = Rem!SortedBy(s, <)
    PROVE  \E p : Ranked(o, s, p, n)
<1>1. PICK up : up = [i \in 1 .. n |->
                        {j \in 1 .. n : s[j] < s[i] \/ (~(s[i] < s[j]) /\ j <= i)}]
  OBVIOUS
<1>2. PICK before : before = [i \in 1 .. n |-> {j \in 1 .. n : s[j] < s[i]}]
  OBVIOUS
<1> QED  BY <1>1, <1>2, SortedNumbers, RemAlong DEF Rem!SortedBy, Numbers

\* The numbers that occur among the n of s.
Occurring(s, n) == {s[i] : i \in 1 .. n}

\* P holds the places of o, which does not fall, before which it rises.
Climbing(o, P, M) ==
    /\ o \in [1 .. M + 1 -> Int]
    /\ \A k, l \in 1 .. M + 1 : k <= l => o[k] <= o[l]
    /\ P = {i \in 1 .. M : o[i] < o[i + 1]}

\* Rising neighbours are one fewer than the different numbers.
LEMMA DifferentNumbers ==
    ASSUME NEW M \in Nat, NEW o, NEW P, Climbing(o, P, M), NEW V, V = Occurring(o, M + 1)
    PROVE  /\ IsFiniteSet(P) /\ Cardinality(P) \in Nat
           /\ Cardinality(V) = Cardinality(P) + 1
<1>1. /\ o \in [1 .. M + 1 -> Int]
      /\ \A k, l \in 1 .. M + 1 : k <= l => o[k] <= o[l]
      /\ P = {i \in 1 .. M : o[i] < o[i + 1]}
  BY DEF Climbing
<1>2. PICK N : N = M + 1
  OBVIOUS
<1>3. N \in Nat /\ N \in 1 .. N /\ N \notin P
  BY <1>1, <1>2
<1>4. P \subseteq 1 .. N /\ P \subseteq 1 .. M
  BY <1>1, <1>2
<1>5. \A k \in 1 .. N : o[k] \in Int
  BY <1>1, <1>2
<1>6. \A k, l \in 1 .. N : k <= l => o[k] <= o[l]
  BY <1>1, <1>2
<1>7. IsFiniteSet(P) /\ Cardinality(P) \in Nat
  BY <1>4, PartFacts
<1>8. PICK S : S = P \cup {N}
  OBVIOUS
<1>9. IsFiniteSet(S) /\ Cardinality(S) = Cardinality(P) + 1
  BY <1>3, <1>7, <1>8, FS_AddElement
<1>10. PICK f : f = [i \in S |-> o[i]]
  OBVIOUS
<1>11. f \in [S -> V]
  BY <1>2, <1>3, <1>4, <1>8, <1>10 DEF Occurring
<1>12. \A i, j \in S : f[i] = f[j] => i = j
  <2>1. ASSUME NEW i \in S, NEW j \in S, i < j PROVE f[i] # f[j]
    <3>1. i \in 1 .. N /\ j \in 1 .. N
      BY <1>3, <1>4, <1>8
    <3> QED  BY <1>1, <1>2, <1>5, <1>6, <1>8, <1>10, <2>1, <3>1
  <2> SUFFICES ASSUME NEW i \in S, NEW j \in S, i # j PROVE f[i] # f[j]
    OBVIOUS
  <2>2. CASE i < j
    BY <2>1, <2>2
  <2>3. CASE j < i
    BY <2>1, <2>3
  <2> QED  BY <1>3, <1>4, <1>8, <2>2, <2>3
<1>13. \A x \in V : \E i \in S : f[i] = x
  <2> SUFFICES ASSUME NEW x \in V PROVE \E i \in S : f[i] = x
    OBVIOUS
  <2>1. PICK A : A = {k \in 1 .. N : o[k] = x}
    OBVIOUS
  <2>2. A \in SUBSET (1 .. N) /\ A # {}
    BY <1>2, <2>1 DEF Occurring
  <2>3. PICK m : m = Rem!Max(A)
    OBVIOUS
  <2>4. m \in A /\ \A k \in A : k <= m
    BY <1>3, <2>2, <2>3, RemLargest
  <2>5. m \in 1 .. N /\ o[m] = x
    BY <2>1, <2>4
  <2>6. CASE m = N
    BY <1>8, <1>10, <2>5, <2>6
  <2>7. CASE m # N
    <3>1. m \in P
      BY <1>1, <1>2, <1>5, <1>6, <2>1, <2>4, <2>5, <2>7
    <3> QED  BY <1>8, <1>10, <2>5, <3>1
  <2> QED  BY <2>6, <2>7
<1>14. Cardinality(V) = Cardinality(S)
  <2>1. ExistsBijection(S, V)
    BY <1>11, <1>12, <1>13 DEF Bijection, ExistsBijection, Surjection, Injection,
       IsInjective
  <2> QED  BY <1>9, <2>1, FS_Bijection
<1> QED  BY <1>7, <1>9, <1>14

\* gaps has the positive ones of the M distances h between neighbours in o.
Gapped(gaps, h, P, o, M, unit) ==
    /\ h = [i \in 1 .. M |-> Rem!RoundDiv(o[i + 1] - o[i], unit)]
    /\ P = {i \in 1 .. M : h[i] > 0}
    /\ gaps = Picked(h, P)

LEMMA GapsOf ==
    ASSUME NEW s, NEW M \in Nat, Numbers(s, M + 1), NEW unit, NEW gaps, gaps = Rem!Gaps(s, unit)
    PROVE  \E h, P, o, p : Gapped(gaps, h, P, o, M, unit) /\ Ranked(o, s, p, M + 1)
<1>1. PICK o : o = Rem!SortedBy(s, <)
  OBVIOUS
<1>2. PICK p : Ranked(o, s, p, M + 1)
  BY <1>1, RemSorted
<1>3. Len(s) - 1 = M
  BY DEF Numbers
<1>4. PICK h : h = [i \in 1 .. M |-> Rem!RoundDiv(o[i + 1] - o[i], unit)]
  OBVIOUS
<1>5. PICK P : P = {i \in 1 .. M : h[i] > 0}
  OBVIOUS
<1> QED  BY <1>1, <1>2, <1>3, <1>4, <1>5, RemPicked DEF Gapped, Rem!Gaps, Rem!Where

LEMMA EmptyList ==
    ASSUME NEW n \in Nat, NEW g, DOMAIN g = 1 .. n, g = [k \in 1 .. n |-> g[k]]
    PROVE  Len(g) = n /\ (g = <<>> <=> n = 0)
<1>1. PICK S : S = {g[k] : k \in 1 .. n}
  OBVIOUS
<1> QED  BY <1>1, EmptySeq

LEMMA NoGaps ==
    ASSUME NEW s, Numbers(s, 0), NEW unit
    PROVE  Rem!Gaps(s, unit) = <<>>
<1>1. 1 .. -1 = {}
  OBVIOUS
<1>2. PICK h : h = [i \in {} |-> Rem!RoundDiv(Rem!SortedBy(s, <)[i + 1] - Rem!SortedBy(s, <)[i], unit)]
  OBVIOUS
<1>3. Rem!Gaps(s, unit) = Picked(h, {})
  BY <1>1, <1>2, RemPicked DEF Rem!Gaps, Rem!Where, Numbers
<1>4. PICK g : g = Rem!Gaps(s, unit)
  OBVIOUS
<1> QED  BY <1>3, <1>4, EmptyList, PickedFacts, FS_EmptySet

\* gaps are n numbers whose sum is given.
Summed(gaps, n, sum) ==
    /\ n \in Nat /\ Len(gaps) = n /\ (gaps = <<>> <=> n = 0)
    /\ Rem!SumFunction(gaps) = sum /\ sum \in Int /\ sum >= n

LEMMA GapsSummed ==
    ASSUME NEW gaps, NEW h, NEW P, NEW o, NEW M \in Nat, NEW unit, unit \in {1, 4},
           Gapped(gaps, h, P, o, M, unit), o \in [1 .. M + 1 -> Int]
    PROVE  Summed(gaps, Cardinality(P), SumFunctionOnSet(h, P))
<1>1. /\ h = [i \in 1 .. M |-> Rem!RoundDiv(o[i + 1] - o[i], unit)]
      /\ P = {i \in 1 .. M : h[i] > 0}
      /\ gaps = Picked(h, P)
  BY DEF Gapped
<1>2. \A i \in 1 .. M : h[i] \in Int
  <2> SUFFICES ASSUME NEW i \in 1 .. M PROVE h[i] \in Int
    OBVIOUS
  <2>1. o[i] \in Int /\ o[i + 1] \in Int
    OBVIOUS
  <2>2. PICK d \in Int : d = o[i + 1] - o[i]
    BY <2>1
  <2>3. h[i] = Rem!RoundDiv(d, unit)
    BY <1>1, <2>2
  <2>4. Rem!RoundDiv(d, 1) \in Int /\ Rem!RoundDiv(d, 4) \in Int
    BY DEF Rem!RoundDiv
  <2> QED  BY <2>3, <2>4
<1>3. h \in [1 .. M -> Int] /\ Amounts(h, 1 .. M)
  BY <1>1, <1>2 DEF Amounts
<1>4. P \subseteq 1 .. M /\ P \in SUBSET (1 .. M)
  BY <1>1
<1>5. IsFiniteSet(P) /\ P \subseteq Int /\ Cardinality(P) \in Nat
  BY <1>4, PartFacts
<1>6. Part(P, 1 .. M)
  BY <1>4, PartOf
<1>7. \A i \in P : h[i] >= 1
  BY <1>1, <1>2
<1>8. SumFunctionOnSet(h, P) \in Int /\ SumFunctionOnSet(h, P) >= Cardinality(P)
  BY <1>3, <1>6, <1>7, SumAtLeast
<1>9. SumFunction(Picked(h, P)) = SumFunctionOnSet(h, P)
  BY <1>3, <1>4, <1>5, SumPicked
<1>10. Rem!SumFunction(gaps) = SumFunctionOnSet(h, P)
  BY <1>1, <1>9, RemSum
<1>11. PICK n : n = Cardinality(P)
  OBVIOUS
<1>12. gaps = [k \in 1 .. n |-> h[Places(P)[k]]] /\ n \in Nat
  <2>1. P \in SUBSET Int /\ IsFiniteSet(P)
    BY <1>5
  <2>2. Picked(h, P) = [k \in 1 .. Cardinality(P) |-> h[Places(P)[k]]]
    BY <2>1, PickedFacts
  <2> QED  BY <1>1, <1>5, <1>11, <2>2
<1>13. DOMAIN gaps = 1 .. n /\ gaps = [k \in 1 .. n |-> gaps[k]]
  BY <1>12
<1>14. Len(gaps) = n /\ (gaps = <<>> <=> n = 0)
  BY <1>12, <1>13, EmptyList
<1> QED  BY <1>5, <1>8, <1>10, <1>11, <1>14 DEF Summed

\* The mean of n numbers, rounded.
LEMMA MeanOf ==
    ASSUME NEW n \in Nat, n > 0, NEW sum \in Int, sum >= n,
           NEW mean, mean = Rem!RoundDiv(sum, n)
    PROVE  /\ mean \in Int /\ mean > 0
           /\ -n <= 2 * (mean * n - sum) /\ 2 * (mean * n - sum) <= n
<1>1. PICK d \in Int : d = 2 * n
  OBVIOUS
<1>2. PICK a \in Int : a = 2 * sum + n
  OBVIOUS
<1>3. d > 0 /\ a >= d
  BY <1>1, <1>2
<1>4. mean \in Int /\ d * mean <= a /\ a < d * mean + d
  BY <1>1, <1>2, <1>3 DEF Rem!RoundDiv
<1>5. mean > 0
  <2>1. ASSUME mean <= 0 PROVE FALSE
    BY <1>3, <1>4, <2>1
  <2> QED  BY <1>4, <2>1
<1>6. PICK q \in Int : q = mean * n
  BY <1>4
<1> QED  BY <1>1, <1>2, <1>4, <1>5, <1>6

-----------------------------------------------------------------------------
(* What is learned from the services of a vehicle *)

\* n readings, some of which may be missing.
Readings(values, n) == IsList(values, n) /\ \A i \in 1 .. n : values[i] = None \/ values[i] \in Int

KnownOf(values, n) == {values[i] : i \in 1 .. n} \ {None}

\* The readings that are known, the k-th of them in p.
LEMMA KnownFacts ==
    ASSUME NEW values, NEW n, Readings(values, n), NEW p, p = Rem!Known(values)
    PROVE  \E N : Numbers(p, N) /\ Occurring(p, N) = KnownOf(values, n)
<1>1. PICK S : S = {i \in 1 .. n : values[i] # None}
  OBVIOUS
<1>2. PICK N : Keeps(p, values, S, N)
  BY <1>1, WhereKeeps, RemPicked DEF Chosen, Rem!Known, Rem!Where, Readings, IsList
<1>3. /\ N \in Nat /\ DOMAIN p = 1 .. N /\ p = [k \in 1 .. N |-> p[k]]
      /\ \A k \in 1 .. N : \E i \in S : p[k] = values[i]
      /\ \A i \in S : \E k \in 1 .. N : p[k] = values[i]
  BY <1>2 DEF Keeps
<1>4. Occurring(p, N) = KnownOf(values, n)
  <2>1. \A x : x \in KnownOf(values, n) <=> \E i \in S : x = values[i]
    BY <1>1 DEF KnownOf
  <2> QED  BY <1>3, <2>1 DEF Occurring
<1> QED  BY <1>1, <1>3, <1>4 DEF Numbers, Readings

\* lo and hi are the least and the greatest of V.
Ends(lo, hi, V) == lo \in V /\ hi \in V /\ \A x \in V : x \in Int /\ lo <= x /\ x <= hi

\* The interval learned from readings that take the values V: nothing from fewer
\* than two, else a positive number that is nearly the mean distance.
LearnedFrom(learned, V) ==
    /\ IsFiniteSet(V) /\ Cardinality(V) \in Nat
    /\ Cardinality(V) <= 1 => learned = None
    /\ Cardinality(V) > 1 =>
         /\ learned \in Int
         /\ \E lo, hi : /\ Ends(lo, hi, V)
                        /\ -(Cardinality(V) - 1) <= 2 * (learned * (Cardinality(V) - 1) - (hi - lo))
                        /\ 2 * (learned * (Cardinality(V) - 1) - (hi - lo)) <= Cardinality(V) - 1

LEMMA LearnedPositive ==
    ASSUME NEW values, NEW n, Readings(values, n), NEW unit, unit \in {1, 4},
           NEW learned, learned = Rem!LearnInterval(values, unit)
    PROVE  learned = None \/ (learned \in Int /\ learned > 0)
<1>1. PICK s : s = Rem!Known(values)
  OBVIOUS
<1>2. PICK N : Numbers(s, N)
  BY <1>1, KnownFacts
<1>3. PICK gaps : gaps = Rem!Gaps(s, unit)
  OBVIOUS
<1>4. learned = IF gaps = <<>> THEN None ELSE Rem!RoundDiv(Rem!SumFunction(gaps), Len(gaps))
  BY <1>1, <1>3 DEF Rem!LearnInterval, Rem!Average
<1>5. CASE N = 0
  BY <1>2, <1>3, <1>4, <1>5, NoGaps
<1>6. CASE N # 0
  <2>1. PICK M \in Nat : N = M + 1
    BY <1>2, <1>6 DEF Numbers
  <2>2. PICK h, P, o, p : Gapped(gaps, h, P, o, M, unit) /\ Ranked(o, s, p, M + 1)
    BY <1>2, <1>3, <2>1, GapsOf
  <2>3. PICK c, sum : c = Cardinality(P) /\ sum = SumFunctionOnSet(h, P)
    OBVIOUS
  <2>4. c \in Nat /\ Len(gaps) = c /\ (gaps = <<>> <=> c = 0)
        /\ Rem!SumFunction(gaps) = sum /\ sum \in Int /\ sum >= c
    BY <2>2, <2>3, GapsSummed DEF Summed, Ranked
  <2>5. CASE c = 0
    BY <1>4, <2>4, <2>5
  <2>6. CASE c # 0
    BY <1>4, <2>4, <2>6, MeanOf
  <2> QED  BY <2>5, <2>6
<1> QED  BY <1>5, <1>6

LEMMA LearnedFacts ==
    ASSUME NEW values, NEW n, Readings(values, n), NEW V, V = KnownOf(values, n),
           NEW learned, learned = Rem!LearnInterval(values, 1)
    PROVE  LearnedFrom(learned, V)
<1>1. PICK s : s = Rem!Known(values)
  OBVIOUS
<1>2. PICK N : Numbers(s, N) /\ Occurring(s, N) = V
  BY <1>1, KnownFacts
<1>3. PICK gaps : gaps = Rem!Gaps(s, 1)
  OBVIOUS
<1>4. learned = IF gaps = <<>> THEN None ELSE Rem!RoundDiv(Rem!SumFunction(gaps), Len(gaps))
  BY <1>1, <1>3 DEF Rem!LearnInterval, Rem!Average
<1>5. CASE N = 0
  BY <1>2, <1>3, <1>4, <1>5, FS_EmptySet, NoGaps DEF LearnedFrom, Occurring
<1>6. CASE N # 0
  <2>1. PICK M \in Nat : N = M + 1
    BY <1>2, <1>6 DEF Numbers
  <2>2. PICK h, P, o, p : Gapped(gaps, h, P, o, M, 1) /\ Ranked(o, s, p, M + 1)
    BY <1>2, <1>3, <2>1, GapsOf
  <2>3. /\ o \in [1 .. M + 1 -> Int]
        /\ \A k, l \in 1 .. M + 1 : k <= l => o[k] <= o[l]
    BY <2>2 DEF Ranked
  <2>4. PICK c, sum : c = Cardinality(P) /\ sum = SumFunctionOnSet(h, P)
    OBVIOUS
  <2>5. c \in Nat /\ Len(gaps) = c /\ (gaps = <<>> <=> c = 0)
        /\ Rem!SumFunction(gaps) = sum /\ sum \in Int /\ sum >= c
    BY <2>2, <2>3, <2>4, GapsSummed DEF Summed
  <2>6. \A i \in 1 .. M : o[i] \in Int /\ o[i + 1] \in Int /\ o[i] <= o[i + 1]
    <3> TAKE i \in 1 .. M
    <3> QED  BY <2>3
  <2>7. h = [i \in 1 .. M |-> o[i + 1] - o[i]]
    <3>1. \A d \in Int : Rem!RoundDiv(d, 1) = d
      BY DEF Rem!RoundDiv
    <3> QED  BY <2>2, <2>6, <3>1 DEF Gapped
  <2>8. Steps(h, o, M)
    BY <2>3, <2>7 DEF Steps
  <2>9. \A i \in 1 .. M : h[i] >= 0 /\ (h[i] > 0 <=> o[i] < o[i + 1])
    BY <2>6, <2>7
  <2>10. P = {i \in 1 .. M : h[i] > 0}
    BY <2>2 DEF Gapped
  <2>11. sum = o[M + 1] - o[1]
    BY <2>4, <2>8, <2>9, <2>10, TelescopeUp
  <2>12. V = Occurring(o, M + 1)
    <3>1. /\ p \in [1 .. M + 1 -> 1 .. M + 1] /\ o = [k \in 1 .. M + 1 |-> s[p[k]]]
          /\ \A i \in 1 .. M + 1 : \E k \in 1 .. M + 1 : p[k] = i
      BY <2>2, FS_Interval DEF Lists, Ranked
    <3>2. \A k \in 1 .. M + 1 : p[k] \in 1 .. M + 1 /\ o[k] = s[p[k]]
      BY <3>1
    <3>3. \A x : x \in V <=> \E i \in 1 .. M + 1 : x = s[i]
      BY <1>2, <2>1 DEF Occurring
    <3>4. \A x : x \in Occurring(o, M + 1) <=> \E k \in 1 .. M + 1 : x = o[k]
      BY DEF Occurring
    <3>5. \A x \in V : x \in Occurring(o, M + 1)
      <4>1. \A i \in 1 .. M + 1 : \E k \in 1 .. M + 1 : o[k] = s[i]
        BY <3>1, <3>2
      <4> QED  BY <3>3, <3>4, <4>1
    <3> QED  BY <3>2, <3>3, <3>4, <3>5
  <2>13. IsFiniteSet(V) /\ Cardinality(V) = c + 1
    <3>1. PICK D : D = 1 .. M + 1
      OBVIOUS
    <3>2. IsFiniteSet(D)
      BY <3>1, FS_Interval
    <3>3. IsFiniteSet(V)
      BY <2>3, <2>12, <3>1, <3>2, ImageCount DEF Occurring
    <3> QED  BY <2>3, <2>4, <2>9, <2>10, <2>12, <3>3, DifferentNumbers DEF Climbing
  <2>14. CASE c = 0
    BY <1>4, <2>5, <2>13, <2>14 DEF LearnedFrom
  <2>15. CASE c # 0
    <3>1. learned = Rem!RoundDiv(sum, c) /\ c > 0
      BY <1>4, <2>5, <2>15
    <3>2. learned \in Int
      BY <2>5, <3>1, MeanOf
    <3>3. Ends(o[1], o[M + 1], V)
      BY <2>3, <2>12 DEF Ends, Occurring
    <3> QED  BY <2>5, <2>11, <2>13, <3>1, <3>2, <3>3, MeanOf DEF LearnedFrom
  <2> QED  BY <2>14, <2>15
<1> QED  BY <1>5, <1>6

-----------------------------------------------------------------------------
(* The maintenance that is suggested *)

\* What is recognised is one of the types that have intervals of their own.
LEMMA DetectedType ==
    ASSUME NEW it, NEW t, t = Rem!DetectMaintenanceType(it), t # None
    PROVE  t \in DOMAIN Rem!DefaultIntervals
<1>1. PICK I : I = {i \in 1 .. Rem!Len(Rem!MaintenanceTypes) :
                      \/ it.part \in Rem!Part[Rem!MaintenanceTypes[i]]
                      \/ it.words \cap Rem!Words[Rem!MaintenanceTypes[i]] # {}}
  OBVIOUS
<1>2. PICK k : k = IF I # {} THEN Rem!Min(I) ELSE 0
  OBVIOUS
<1>3. t = IF k = 0 THEN None ELSE Rem!MaintenanceTypes[k]
  BY <1>1, <1>2, Zenon DEF Rem!DetectMaintenanceType, Rem!FindIndex
<1>4. I \subseteq 1 .. 4
  BY <1>1 DEF Rem!MaintenanceTypes
<1>5. k # 0 /\ I # {}
  BY <1>2, <1>3
<1>6. k \in 1 .. 4
  <2>1. k \in I
    BY <1>2, <1>4, <1>5, Smallest DEF Rem!Min
  <2> QED  BY <1>4, <2>1
<1> QED  BY <1>3, <1>5, <1>6 DEF Rem!MaintenanceTypes, Rem!DefaultIntervals

LEMMA DefaultDays ==
    ASSUME NEW t \in DOMAIN Rem!DefaultIntervals
    PROVE  Rem!DefaultIntervals[t].days \in Int /\ Rem!DefaultIntervals[t].days > 0
BY DEF Rem!DefaultIntervals

ServicesOf(items, t) == {it \in ToSet(items) : Rem!DetectMaintenanceType(it) = t}
DatesOf(mine) == {it.date : it \in mine} \ {None}
KmsOf(mine) == {it.km : it \in mine} \ {None}

LEMMA OccurrenceFacts ==
    ASSUME NEW items, NEW n, ServiceList(items, n), NEW t,
           NEW list, list = Rem!Occurrences(items, t)
    PROVE  \E m : ServiceList(list, m) /\ Occurring(list, m) = ServicesOf(items, t)
<1>1. n \in Nat /\ DOMAIN items = 1 .. n
  BY DEF ServiceList, IsList
<1>2. PICK S : S = {i \in 1 .. n : Rem!DetectMaintenanceType(items[i]) = t}
  OBVIOUS
<1>3. list = Picked(items, S) /\ S \subseteq 1 .. n
  BY <1>1, <1>2, RemPicked DEF Rem!Occurrences, Rem!Where
<1>4. Chosen(list, items, S, n)
  BY <1>1, <1>3 DEF Chosen
<1>5. PICK m : Keeps(list, items, S, m)
  BY <1>4, WhereKeeps
<1>6. /\ m \in Nat /\ DOMAIN list = 1 .. m /\ list = [k \in 1 .. m |-> list[k]]
      /\ \A k \in 1 .. m : \E i \in S : list[k] = items[i]
      /\ \A i \in S : \E k \in 1 .. m : list[k] = items[i]
  BY <1>5 DEF Keeps
<1>7. \A i \in S : /\ items[i].date = None \/ items[i].date \in Int
                   /\ items[i].km = None \/ items[i].km \in Int
  BY <1>2 DEF ServiceList
<1>8. ServiceList(list, m)
  <2>1. IsList(list, m)
    BY <1>6 DEF IsList
  <2>2. \A k \in 1 .. m : /\ list[k].date = None \/ list[k].date \in Int
                          /\ list[k].km = None \/ list[k].km \in Int
    BY <1>6, <1>7
  <2> QED  BY <2>1, <2>2 DEF ServiceList
<1>9. Occurring(list, m) = ServicesOf(items, t)
  <2>1. \A x : x \in Occurring(list, m) <=> \E k \in 1 .. m : x = list[k]
    BY DEF Occurring
  <2>2. \A x : x \in ServicesOf(items, t) <=> \E i \in S : x = items[i]
    BY <1>1, <1>2 DEF ServicesOf, ToSet
  <2>3. \A x \in Occurring(list, m) : x \in ServicesOf(items, t)
    BY <1>6, <2>1, <2>2
  <2>4. \A x \in ServicesOf(items, t) : x \in Occurring(list, m)
    BY <1>6, <2>1, <2>2
  <2> QED  BY <2>3, <2>4
<1> QED  BY <1>8, <1>9

LEMMA DateReadings ==
    ASSUME NEW list, NEW m, ServiceList(list, m), NEW mine, mine = Occurring(list, m),
           NEW v, v = [i \in DOMAIN list |-> list[i].date]
    PROVE  Readings(v, m) /\ KnownOf(v, m) = DatesOf(mine)
<1>1. m \in Nat /\ DOMAIN list = 1 .. m
  BY DEF ServiceList, IsList
<1> QED  BY <1>1 DEF KnownOf, DatesOf, Occurring, Readings, IsList, ServiceList

LEMMA KmReadings ==
    ASSUME NEW list, NEW m, ServiceList(list, m), NEW mine, mine = Occurring(list, m),
           NEW v, v = [i \in DOMAIN list |-> list[i].km]
    PROVE  Readings(v, m) /\ KnownOf(v, m) = KmsOf(mine)
<1>1. m \in Nat /\ DOMAIN list = 1 .. m
  BY DEF ServiceList, IsList
<1> QED  BY <1>1 DEF KnownOf, KmsOf, Occurring, Readings, IsList, ServiceList

\* The whole distance between the numbers of S.
SpanOf(S) == Max(S) - Min(S)

LEMMA SpanOfEnds ==
    ASSUME NEW S, NEW lo, NEW hi, Ends(lo, hi, S)
    PROVE  SpanOf(S) = hi - lo
<1>1. /\ lo \in S /\ hi \in S /\ lo \in Int /\ hi \in Int
      /\ \A x \in S : x \in Int /\ lo <= x /\ x <= hi
  BY DEF Ends
<1>2. Max(S) \in S /\ \A x \in S : x <= Max(S)
  BY <1>1 DEF Max
<1>3. Min(S) \in S /\ \A x \in S : Min(S) <= x
  BY <1>1 DEF Min
<1>4. \A x, y \in Int : x <= y /\ y <= x => x = y
  OBVIOUS
<1>5. Max(S) = hi
  <2>1. PICK x \in Int : x = Max(S)
    BY <1>1, <1>2
  <2> QED  BY <1>1, <1>2, <1>4, <2>1
<1>6. Min(S) = lo
  <2>1. PICK x \in Int : x = Min(S)
    BY <1>1, <1>3
  <2> QED  BY <1>1, <1>3, <1>4, <2>1
<1> QED  BY <1>5, <1>6 DEF SpanOf

\* What one type is suggested with, from the dates and the mileages known of it.
MeanKm(sg, kms) ==
    LET n == Cardinality(kms) - 1
    IN  /\ n > 0 => LET gap == 2 * (sg.km * n - SpanOf(kms))
                    IN  -n <= gap /\ gap <= n
        /\ n <= 0 => sg.km = Rem!DefaultIntervals[sg.type].km

FromLastDate(sg, dates) ==
    dates # {} => /\ sg.lastDate \in dates
                  /\ \A d \in dates : d <= sg.lastDate /\ d < sg.dueDate

FromLastKm(sg, dates, kms) ==
    dates = {} /\ kms # {} => sg.lastKm \in kms /\ \A k \in kms : k <= sg.lastKm

LEMMA MeanFromLearned ==
    ASSUME NEW sg, NEW kms, NEW learned, LearnedFrom(learned, kms),
           sg.km = IF learned = None THEN Rem!DefaultIntervals[sg.type].km ELSE learned
    PROVE  MeanKm(sg, kms)
<1>1. PICK c : c = Cardinality(kms)
  OBVIOUS
<1>2. /\ c \in Nat /\ (c <= 1 => learned = None)
      /\ c > 1 => /\ learned \in Int
                  /\ \E lo, hi : /\ Ends(lo, hi, kms)
                                 /\ -(c - 1) <= 2 * (learned * (c - 1) - (hi - lo))
                                 /\ 2 * (learned * (c - 1) - (hi - lo)) <= c - 1
  BY <1>1 DEF LearnedFrom
<1>3. CASE c <= 1
  BY <1>1, <1>2, <1>3 DEF MeanKm
<1>4. CASE c > 1
  <2>1. PICK lo, hi : /\ Ends(lo, hi, kms)
                      /\ -(c - 1) <= 2 * (learned * (c - 1) - (hi - lo))
                      /\ 2 * (learned * (c - 1) - (hi - lo)) <= c - 1
    BY <1>2, <1>4
  <2> QED  BY <1>1, <1>2, <1>4, <2>1, SpanOfEnds, RulesAssumption DEF MeanKm
<1> QED  BY <1>2, <1>3, <1>4

Suggested(sg, t, mine) ==
    /\ sg.type = t /\ MeanKm(sg, KmsOf(mine)) /\ FromLastDate(sg, DatesOf(mine))
    /\ FromLastKm(sg, DatesOf(mine), KmsOf(mine))

LEMMA SuggestionFacts ==
    ASSUME NEW t \in DOMAIN Rem!DefaultIntervals, NEW list, NEW m, ServiceList(list, m),
           NEW mine, mine = Occurring(list, m), NEW sg, sg = Rem!Suggestion(t, list)
    PROVE  Suggested(sg, t, mine)
<1>1. PICK dates : dates = [i \in DOMAIN list |-> list[i].date]
  OBVIOUS
<1>2. PICK kms : kms = [i \in DOMAIN list |-> list[i].km]
  OBVIOUS
<1>3. PICK last : last = Rem!LatestOccurrence(list)
  OBVIOUS
<1>4. PICK inDays : inDays = Rem!LearnInterval(dates, 4)
  OBVIOUS
<1>5. PICK inKm : inKm = Rem!LearnInterval(kms, 1)
  OBVIOUS
<1>6. PICK days : days = IF inDays = None THEN Rem!DefaultIntervals[t].days ELSE inDays
  OBVIOUS
<1>7. PICK km : km = IF inKm = None THEN Rem!DefaultIntervals[t].km ELSE inKm
  OBVIOUS
<1>8. sg = [type |-> t, days |-> days, km |-> km,
            lastDate |-> last.date, lastKm |-> last.km,
            dueDate |-> IF None \in {last.date, days} THEN None ELSE last.date + days * 4,
            dueKm |-> IF None \in {last.km, km} THEN None ELSE last.km + km]
  BY <1>1, <1>2, <1>3, <1>4, <1>5, <1>6, <1>7, Zenon
     DEF Rem!Suggestion, Rem!Else, Rem!Day
<1>9. /\ sg.type = t /\ sg.km = km /\ sg.lastDate = last.date /\ sg.lastKm = last.km
      /\ sg.dueDate = IF None \in {last.date, days} THEN None ELSE last.date + days * 4
  BY <1>8
<1>10. days \in Int /\ days > 0
  BY <1>1, <1>4, <1>6, DefaultDays, LearnedPositive, DateReadings
<1>11. MeanKm(sg, KmsOf(mine))
  BY <1>2, <1>5, <1>7, <1>9, MeanFromLearned, LearnedFacts, KmReadings
<1>12. LatestByDate(last, list, m) /\ FarthestIfNone(last, list, m)
  BY <1>3, LatestFacts DEF LatestSoFar
<1>13. \A d : d \in DatesOf(mine) <=> d # None /\ \E i \in 1 .. m : d = list[i].date
  BY DEF DatesOf, Occurring
<1>14. \A k : k \in KmsOf(mine) <=> k # None /\ \E i \in 1 .. m : k = list[i].km
  BY DEF KmsOf, Occurring
<1>15. FromLastDate(sg, DatesOf(mine))
  <2>1. CASE last.date = None
    BY <1>12, <1>13, <2>1 DEF FromLastDate, LatestByDate
  <2>2. CASE last.date # None
    <3>1. /\ \E i \in 1 .. m : list[i].date = last.date
          /\ \A i \in 1 .. m : list[i].date = None \/ list[i].date <= last.date
      BY <1>12, <2>2 DEF LatestByDate
    <3>2. last.date \in DatesOf(mine)
      BY <1>13, <2>2, <3>1
    <3>3. \A d \in DatesOf(mine) : d \in Int
      BY <1>13 DEF ServiceList
    <3> QED  BY <1>9, <1>10, <1>13, <2>2, <3>1, <3>2, <3>3, RulesAssumption DEF FromLastDate
  <2> QED  BY <2>1, <2>2
<1>16. FromLastKm(sg, DatesOf(mine), KmsOf(mine))
  <2>1. CASE last.date # None
    BY <1>12, <1>13, <2>1 DEF FromLastKm, LatestByDate
  <2>2. CASE last.date = None /\ last.km = None
    BY <1>12, <1>14, <2>2 DEF FromLastKm, FarthestIfNone
  <2>3. CASE last.date = None /\ last.km # None
    BY <1>9, <1>12, <1>14, <2>3 DEF FromLastKm, FarthestIfNone
  <2> QED  BY <2>1, <2>2, <2>3
<1> QED  BY <1>9, <1>11, <1>15, <1>16 DEF Suggested

\* The whole of what is suggested for a vehicle.
Follows(items, active) ==
    \A sg \in Rem!SuggestFromHistory(items, active) :
        sg.type \notin active /\ Suggested(sg, sg.type, ServicesOf(items, sg.type))

LEMMA HistoryFollowed ==
    ASSUME NEW items, NEW n, ServiceList(items, n), NEW active
    PROVE  Follows(items, active)
<1> SUFFICES ASSUME NEW sg \in Rem!SuggestFromHistory(items, active)
             PROVE  sg.type \notin active /\ Suggested(sg, sg.type, ServicesOf(items, sg.type))
  BY DEF Follows
<1>1. PICK t : /\ sg = Rem!Suggestion(t, Rem!Occurrences(items, t))
               /\ t \in {Rem!DetectMaintenanceType(it) : it \in Rem!Range(items)}
               /\ t # None /\ t \notin active
  BY Zenon DEF Rem!SuggestFromHistory
<1>2. PICK it : t = Rem!DetectMaintenanceType(it)
  BY <1>1
<1>3. PICK list : list = Rem!Occurrences(items, t)
  OBVIOUS
<1>4. PICK m : ServiceList(list, m) /\ Occurring(list, m) = ServicesOf(items, t)
  BY <1>3, OccurrenceFacts
<1>5. PICK mine : mine = ServicesOf(items, t)
  OBVIOUS
<1> QED  BY <1>1, <1>2, <1>3, <1>4, <1>5, SuggestionFacts, DetectedType DEF Suggested

-----------------------------------------------------------------------------
(* What the inputs are, so that the above applies to them *)

LEMMA Years == InputKnown => TrendFollowsCost
<1> SUFFICES ASSUME input.items \in CostLists, input.more \in CostLists, input.kind = "tco"
             PROVE  TrendFollowsCost
  BY DEF InputKnown, TrendFollowsCost
<1> QED  BY Trends DEF TrendFollowsCost

LEMMA Urgents == InputKnown => UrgentFirst
<1>1. ASSUME input.kind = "dashboard", InputKnown, NearDates(input.reminders)
      PROVE  LET rs    == input.reminders
                 shown == Rem!Upcoming(rs, input.limit)
                 ids   == {v.id : v \in ToSet(shown)}
                 due   == {v \in {Rem!View(r) : r \in ToSet(rs)} : v.active /\ v.status # "ok"}
             IN  /\ Len(shown) = IF Cardinality(due) < input.limit
                                 THEN Cardinality(due) ELSE input.limit
                 /\ \A v \in ToSet(shown), w \in {w \in due : w.id \notin ids} :
                      Rem!Urgency[v.status] <= Rem!Urgency[w.status]
  <2>1. input.reminders \in ReminderLists /\ input.limit \in Nat
    BY <1>1, RulesAssumption DEF InputKnown
  <2>2. PICK rs, limit : rs = input.reminders /\ limit = input.limit
    OBVIOUS
  <2>3. PICK shown : shown = Rem!Upcoming(rs, limit)
    OBVIOUS
  <2> QED  BY <1>1, <2>1, <2>2, <2>3, Dashboard DEF DueOf, IdsOf
<1>2. ASSUME input.kind = "date", InputKnown
      PROVE  LET days == Rem!DaysRemaining(input.due, input.now)
                 late == input.now \div Rem!Day - input.due \div Rem!Day
             IN  (Rem!Evaluate(days, None) = "overdue") <=> late > 0
  BY <1>2, DueDate, RulesAssumption DEF InputKnown
<1> QED  BY <1>1, <1>2 DEF UrgentFirst, NearDates

LEMMA Services == InputKnown => ServicesStandIn
<1> SUFFICES ASSUME InputKnown PROVE ServicesStandIn
  OBVIOUS
<1>1. ASSUME input.kind = "file", NEW env \in Prov!ValidateEnv(input.raw)
      PROVE  FileRead(env, input.of, input.ocr, input.answers)
  BY <1>1, FileFacts DEF InputKnown
<1>2. ASSUME input.kind = "feeds", NEW env \in Prov!ValidateEnv(input.raw)
      PROVE  FeedsFail(env, input.fleet, input.answers)
  BY <1>2, FeedsFacts DEF InputKnown
<1> QED  BY <1>1, <1>2, ZenonT(60) DEF ServicesStandIn, FileRead, FileReads, KnownModels,
        LimitedIn, ReadsIn, FitsIn, Reached, FeedsFail

LEMMA Markets == InputKnown => CellsAreBacked
<1> SUFFICES ASSUME InputKnown, input.kind = "market" PROVE CellsAreBacked
  BY DEF CellsAreBacked
<1>1. PICK items, optedIn : items = input.items /\ optedIn = input.optedIn
  OBVIOUS
<1>2. items \in MarketLists /\ optedIn \subseteq Tenants
  BY <1>1 DEF InputKnown
<1>3. items \in Seq(ToSet(items)) /\ \A it \in ToSet(items) : it.price \in Int
  BY <1>2, CostAssumption
<1>4. PICK n : IsList(items, n)
  BY <1>3, EveryList
<1>5. Market(items, n)
  BY <1>3, <1>4 DEF Market, IsList, ToSet
<1>6. PICK cells : cells = Cost!Recompute(items, optedIn)
  OBVIOUS
<1>7. /\ \A k \in DOMAIN cells :
           /\ Enough(CellItems(items, optedIn, k))
           /\ Backed(cells[k], CellItems(items, optedIn, k))
      /\ cells = Cost!Recompute(Where(items, LAMBDA it : it.tenant \in optedIn), Tenants)
      /\ \A t : DOMAIN Cost!GetComparison(items, t, cells) \subseteq DOMAIN cells
  BY <1>2, <1>5, <1>6, CellsFacts
<1> QED  BY <1>1, <1>6, <1>7, ZenonT(60) DEF CellsAreBacked, Enough, Backed, CellItems, InCell,
            TenantsOf, VehiclesOf, Where

LEMMA Outliers == InputKnown => OutliersAreFew
<1> SUFFICES ASSUME InputKnown PROVE OutliersAreFew
  OBVIOUS
<1>1. ASSUME input.kind = "prices"
      PROVE  LET p  == Where(input.prices, LAMBDA x : x # None /\ x > 0)
                 n  == Len(p)
                 m2 == Cost!Median2(p)
                 spikes  == Cost!PriceSpikes(p)
                 unusual == Cost!UnusualAmounts(input.prices)
             IN  /\ 2 * Cardinality({i \in 1 .. n : 2 * p[i] <= m2}) >= n
                 /\ 2 * Cardinality({i \in 1 .. n : 2 * p[i] >= m2}) >= n
                 /\ 2 * Cardinality(spikes) <= n /\ 2 * Cardinality(unusual) <= n
                 /\ \A a \in spikes, i \in 1 .. n :
                      p[i] >= p[a.index] =>
                        \E b \in spikes : /\ b.index = i
                                          /\ Cost!SeverityRank[b.severity]
                                               <= Cost!SeverityRank[a.severity]
  <2>1. PICK prices : prices = input.prices
    OBVIOUS
  <2>2. PICK N \in Nat : prices \in [1 .. N -> {None} \cup Int]
    BY <1>1, <2>1, ListOf, CostAssumption DEF InputKnown
  <2>3. PricesOf(prices, N)
    BY <2>2 DEF PricesOf, IsList
  <2>4. PICK p : p = Picked(prices, Positive(prices))
    OBVIOUS
  <2>5. PICK n, q : PositivePart(p, n, q, prices)
    BY <2>3, <2>4, PositiveList
  <2>6. Numbers(p, n) /\ \A i \in 1 .. n : p[i] > 0
    BY <2>5 DEF PositivePart
  <2>7. Where(input.prices, LAMBDA x : x # None /\ x > 0) = p
    BY <2>1, <2>4 DEF Where, Positive
  <2>8. Len(p) = n
    BY <2>6 DEF Numbers
  <2>9. PICK m2, spikes, unusual :
           /\ m2 = Cost!Median2(p) /\ spikes = Cost!PriceSpikes(p)
           /\ unusual = Cost!UnusualAmounts(prices)
    OBVIOUS
  <2>10. 2 * Cardinality(Lower(p, n, m2)) >= n /\ 2 * Cardinality(Upper(p, n, m2)) >= n
    BY <2>6, <2>9, MedianHalves
  <2>11. /\ 2 * Cardinality(spikes) <= n
         /\ \A a \in spikes, i \in 1 .. n : p[i] >= p[a.index] =>
              \E b \in spikes : /\ b.index = i
                                /\ Cost!SeverityRank[b.severity]
                                     <= Cost!SeverityRank[a.severity]
    BY <2>6, <2>9, SpikeFacts
  <2>12. 2 * Cardinality(unusual) <= n
    BY <2>3, <2>4, <2>6, <2>9, UnusualFew
  <2> QED  BY <2>1, <2>7, <2>8, <2>9, <2>10, <2>11, <2>12, Zenon DEF Lower, Upper
<1>2. ASSUME input.kind = "invoices"
      PROVE  LET groups == Cost!DuplicateInvoices(input.invoices)
             IN  /\ \A g \in groups : g.count =
                      Cardinality({i \in DOMAIN input.invoices :
                                     Twin(input.invoices, i, g.first)})
                 /\ \A i, j \in DOMAIN input.invoices :
                      i # j /\ Twin(input.invoices, i, j) =>
                        \E g \in groups : Twin(input.invoices, i, g.first)
  <2>1. PICK invoices : invoices = input.invoices
    OBVIOUS
  <2>2. PICK n : IsList(invoices, n)
    BY <1>2, <2>1, EveryList, CostAssumption DEF InputKnown
  <2>3. PICK groups : groups = Cost!DuplicateInvoices(invoices)
    OBVIOUS
  <2> QED  BY <2>1, <2>2, <2>3, DuplicateFacts
<1> QED  BY <1>1, <1>2, Zenon DEF OutliersAreFew, Twin

\* A report sum of the items counted, those of them that have a date being dated.
AddsUpTo(sum, counted, dated, tz) ==
    /\ sum.itemCount = Len(counted)
    /\ sum.itemTotal = Cost!Total(Cost!Prices(counted))
    /\ RowTotals(sum.byVehicle) = sum.itemTotal
    /\ RowTotals(sum.byCategory) = sum.itemTotal
    /\ RowTotals(sum.byMonth) = Cost!Total(Cost!Prices(dated))
    /\ tz = 0 =>
         \A now, d \in Midnights :
            Cost!InPeriod(d, Cost!PreviousMonthRange(now, tz).from,
                          Cost!PreviousMonthRange(now, tz).to, 0)
               <=> Cost!MonthOf(d, 0) = Cost!MonthOf(now, 0) - 1

WithinDays(items, from, to) ==
    Where(items, LAMBDA it : /\ (from # None \/ to # None) => it.date # None
                             /\ from # None => it.date >= from
                             /\ to # None => it.date <= to)
WithDate(items) == Where(items, LAMBDA it : it.date # None)

LEMMA ReportAdds ==
    ASSUME input.kind = "report",
           AddsUpTo(Cost!Summary(input.items, input.from, input.to, input.tz),
                    WithinDays(input.items, input.from, input.to),
                    WithDate(WithinDays(input.items, input.from, input.to)), input.tz)
    PROVE  ReportsAddUp
BY Zenon DEF ReportsAddUp, AddsUpTo, RowTotals, WithinDays, WithDate, Where

LEMMA Totals == InputKnown => ReportsAddUp
<1> SUFFICES ASSUME InputKnown, input.kind = "report" PROVE ReportsAddUp
  BY DEF ReportsAddUp
<1>1. PICK items, from, to, tz :
        items = input.items /\ from = input.from /\ to = input.to /\ tz = input.tz
  OBVIOUS
<1>2. /\ items \in ItemLists /\ from \in Midnights \cup {None} /\ to \in Midnights \cup {None}
      /\ tz \in TimeZones
  BY <1>1 DEF InputKnown
<1>3. \A d \in Midnights : Cost!Midnight(d)
  BY CostAssumption
<1>4. /\ items \in Seq(ToSet(items))
      /\ \A it \in ToSet(items) : it.price \in Int /\ (it.date # None => Cost!Midnight(it.date))
  BY <1>2, CostAssumption
<1>5. PICK n : IsList(items, n)
  BY <1>4, EveryList
<1>6. PaidItems(items, n) /\ DatedByDay(items, n)
  BY <1>4, <1>5 DEF PaidItems, DatedByDay, IsList, ToSet
<1>7. PICK counted : counted = Counted(items, n, from, to)
  OBVIOUS
<1>8. PICK dated : dated = Dated(counted)
  OBVIOUS
<1>9. PICK sum : sum = Cost!Summary(items, from, to, tz)
  OBVIOUS
<1>10. Tells(sum, counted, dated, tz)
  BY <1>2, <1>3, <1>6, <1>7, <1>8, <1>9, SummaryFacts, RulesAssumption
<1>11. /\ RowTotals(sum.byVehicle) = sum.itemTotal
       /\ RowTotals(sum.byCategory) = sum.itemTotal
       /\ RowTotals(sum.byMonth) = Cost!Total(Cost!Prices(dated))
  BY <1>6, <1>7, <1>8, <1>10, ReportFacts
<1>12. tz = 0 => \A now, d \in Midnights :
         Cost!InPeriod(d, Cost!PreviousMonthRange(now, tz).from,
                       Cost!PreviousMonthRange(now, tz).to, 0)
            <=> Cost!MonthOf(d, 0) = Cost!MonthOf(now, 0) - 1
  <2> SUFFICES ASSUME tz = 0, NEW now \in Midnights, NEW d \in Midnights
               PROVE  Cost!InPeriod(d, Cost!PreviousMonthRange(now, tz).from,
                                    Cost!PreviousMonthRange(now, tz).to, 0)
                        <=> Cost!MonthOf(d, 0) = Cost!MonthOf(now, 0) - 1
    OBVIOUS
  <2>1. PICK month : month = Cost!PreviousMonthRange(now, 0)
    OBVIOUS
  <2> QED  BY <1>3, <2>1, PreviousMonth
<1>13. counted = WithinDays(items, from, to)
  BY <1>5, <1>7, Zenon DEF Counted, WithinDays, Where, DayWithin, IsList
<1>14. dated = WithDate(counted)
  BY <1>8, Zenon DEF Dated, WithDate, Where
<1>15. AddsUpTo(sum, counted, dated, tz)
  BY <1>10, <1>11, <1>12, Zenon DEF AddsUpTo, Tells
<1> QED  BY <1>1, <1>9, <1>13, <1>14, <1>15, ReportAdds

LEMMA HistoryFollows ==
    ASSUME Follows(input.items, input.active)
    PROVE  SuggestionFollowsHistory
BY Zenon DEF SuggestionFollowsHistory, Follows, Suggested, MeanKm, FromLastDate, FromLastKm,
   SpanOf, ServicesOf, DatesOf, KmsOf

LEMMA Suggestions == InputKnown => SuggestionFollowsHistory
<1> SUFFICES ASSUME InputKnown, input.kind = "history"
             PROVE  SuggestionFollowsHistory
  BY DEF SuggestionFollowsHistory
<1>1. PICK items, active : items = input.items /\ active = input.active
  OBVIOUS
<1>2. /\ items \in Seq(ToSet(items))
      /\ \A it \in ToSet(items) : it.date \in {None} \cup Int /\ it.km \in {None} \cup Int
  BY <1>1, HistoryAssumption DEF InputKnown
<1>3. PICK n : IsList(items, n)
  BY <1>2, EveryList
<1>4. ServiceList(items, n)
  BY <1>2, <1>3 DEF ServiceList, IsList, ToSet
<1> QED  BY <1>1, <1>4, HistoryFollows, HistoryFollowed

-----------------------------------------------------------------------------
(* The folds over characters, bytes and letters, as functions on the sets of places *)

\* One step of a fold: a byte written, a letter read, a character of a text read.
Step(how, acc, x) ==
    IF how.op = "encode" THEN Totp!EncodeByte(acc, x)
    ELSE IF how.op = "decode" THEN Totp!DecodeLetter(acc, x)
    ELSE Imp!ReadAt(how.text, acc, x)

StepFolds(f, D, how, base, list) ==
    f = [s \in SUBSET D |->
           IF s = {} THEN base
           ELSE Step(how, f[s \ {Imp!Max(s)}], list[Imp!Max(s)])]

LEMMA StepOneMore ==
    ASSUME NEW how, NEW base, NEW list, NEW k \in Nat, NEW f, StepFolds(f, 1 .. k, how, base, list)
    PROVE  \E g : StepFolds(g, 1 .. k + 1, how, base, list)
<1> DEFINE D == 1 .. k
           E == 1 .. k + 1
           g == [s \in SUBSET E |->
                   IF k + 1 \in s THEN Step(how, f[s \ {k + 1}], list[k + 1]) ELSE f[s]]
           body(s) == IF s = {} THEN base
                      ELSE Step(how, g[s \ {Imp!Max(s)}], list[Imp!Max(s)])
<1>1. \A s \in SUBSET D : s \in SUBSET E /\ k + 1 \notin s /\ g[s] = f[s]
  OBVIOUS
<1>2. ASSUME NEW s \in SUBSET E PROVE g[s] = body(s)
  <2>1. CASE k + 1 \in s
    <3>1. Imp!Max(s) = k + 1
      <4>1. k + 1 \in Nat /\ s # {}
        BY <2>1
      <4>2. Imp!Max(s) \in s /\ k + 1 <= Imp!Max(s)
        BY <2>1, <4>1, Largest
      <4>3. Imp!Max(s) \in 1 .. k + 1
        BY <4>2
      <4> HIDE DEF body
      <4> QED  BY <4>1, <4>2, <4>3
    <3>2. g[s \ {k + 1}] = f[s \ {k + 1}] /\ g[s] = Step(how, f[s \ {k + 1}], list[k + 1])
      BY <1>1, <2>1
    <3> HIDE DEF g
    <3> QED  BY <2>1, <3>1, <3>2
  <2>2. CASE k + 1 \notin s
    <3>1. s \in SUBSET D
      BY <2>2
    <3>2. s \ {Imp!Max(s)} \in SUBSET D
      BY <3>1
    <3> HIDE DEF g
    <3> QED  BY <1>1, <3>1, <3>2 DEF StepFolds
  <2> QED  BY <2>1, <2>2
<1>3. g = [s \in SUBSET E |-> body(s)]
  <2>1. g = [s \in SUBSET E |-> g[s]]
    OBVIOUS
  <2> HIDE DEF g
  <2> QED  BY <1>2, <2>1
<1> QED  BY <1>3 DEF StepFolds

LEMMA StepExists ==
    ASSUME NEW how, NEW base, NEW list, NEW n \in Nat
    PROVE  \E f : StepFolds(f, 1 .. n, how, base, list)
<1> DEFINE P(k) == \E f : StepFolds(f, 1 .. k, how, base, list)
           S == {k \in Nat : ~P(k)}
<1>1. P(0)
  <2> DEFINE f == [s \in {{}} |-> base]
  <2>1. StepFolds(f, {}, how, base, list)
    BY DEF StepFolds
  <2> QED  BY <2>1
<1>2. \A k \in Nat : P(k) => P(k + 1)
  BY StepOneMore
<1> HIDE DEF P
<1>3. ASSUME S # {} PROVE FALSE
  <2>1. PICK k \in S : \A y \in S : k <= y
    BY <1>3, Smallest
  <2> QED  BY <1>1, <1>2, <2>1
<1> QED  BY <1>3 DEF P

\* What the fold has come to at the k-th element.
LEMMA StepFirst ==
    ASSUME NEW how, NEW base, NEW list, NEW D, NEW f, StepFolds(f, D, how, base, list)
    PROVE  f[1 .. 0] = base
BY DEF StepFolds

StepsOn(f, how, list, n) ==
    \A k \in 1 .. n : f[1 .. k] = Step(how, f[1 .. k - 1], list[k])

LEMMA StepNext ==
    ASSUME NEW how, NEW base, NEW list, NEW n \in Nat,
           NEW f, StepFolds(f, 1 .. n, how, base, list)
    PROVE  StepsOn(f, how, list, n)
<1>1. ASSUME NEW k \in 1 .. n
      PROVE  f[1 .. k] = Step(how, f[1 .. k - 1], list[k])
  <2>1. 1 .. k \in SUBSET (1 .. n) /\ 1 .. k # {} /\ k \in 1 .. k /\ k \in Nat
    OBVIOUS
  <2>2. Imp!Max(1 .. k) = k
    <3>1. Imp!Max(1 .. k) \in 1 .. k /\ k <= Imp!Max(1 .. k)
      BY <2>1, Largest
    <3> QED  BY <3>1
  <2>3. (1 .. k) \ {k} = 1 .. k - 1
    OBVIOUS
  <2> QED  BY <2>1, <2>2, <2>3 DEF StepFolds
<1> QED  BY <1>1 DEF StepsOn

\* r[k] is what the fold over the n elements of list has come to after k of them.
Runs(r, how, base, list, n) ==
    /\ n \in Nat /\ r = [k \in 0 .. n |-> r[k]] /\ r[0] = base
    /\ \A k \in 1 .. n : r[k] = Step(how, r[k - 1], list[k])

LEMMA StepRuns ==
    ASSUME NEW how, NEW base, NEW list, NEW n \in Nat,
           NEW f, StepFolds(f, 1 .. n, how, base, list)
    PROVE  \E r : Runs(r, how, base, list, n) /\ r[n] = f[1 .. n]
<1>1. PICK r : r = [k \in 0 .. n |-> f[1 .. k]]
  OBVIOUS
<1>2. \A k \in 1 .. n : f[1 .. k] = Step(how, f[1 .. k - 1], list[k])
  BY StepNext DEF StepsOn
<1>3. /\ \A k \in 0 .. n : r[k] = f[1 .. k]
      /\ r = [k \in 0 .. n |-> r[k]]
  BY <1>1
<1>4. r[0] = base /\ r[n] = f[1 .. n]
  BY <1>3, StepFirst
<1>5. Runs(r, how, base, list, n)
  BY <1>2, <1>3, <1>4 DEF Runs
<1> QED  BY <1>4, <1>5

Encoding == [op |-> "encode"]
Decoding == [op |-> "decode"]
Parsing(text) == [op |-> "read", text |-> text]
NoBits == [value |-> 0, bits |-> 0, out |-> <<>>]

EncodeFolds(f, D, list) ==
    f = [s \in SUBSET D |->
           IF s = {} THEN NoBits
           ELSE Totp!EncodeByte(f[s \ {Totp!Max(s)}], list[Totp!Max(s)])]

DecodeFolds(f, D, list) ==
    f = [s \in SUBSET D |->
           IF s = {} THEN NoBits
           ELSE Totp!DecodeLetter(f[s \ {Totp!Max(s)}], list[Totp!Max(s)])]

ReadFolds(f, D, text, list) ==
    f = [s \in SUBSET D |->
           IF s = {} THEN Imp!CsvStart
           ELSE Imp!ReadAt(text, f[s \ {Imp!Max(s)}], list[Imp!Max(s)])]

LEMMA TotpMax == \A S : Totp!Max(S) = Imp!Max(S)
BY DEF Totp!Max, Imp!Max

LEMMA EncodeSteps ==
    ASSUME NEW f, NEW D, NEW list
    PROVE  EncodeFolds(f, D, list) <=> StepFolds(f, D, Encoding, NoBits, list)
BY TotpMax DEF EncodeFolds, StepFolds, Step, Encoding

LEMMA DecodeSteps ==
    ASSUME NEW f, NEW D, NEW list
    PROVE  DecodeFolds(f, D, list) <=> StepFolds(f, D, Decoding, NoBits, list)
BY TotpMax DEF DecodeFolds, StepFolds, Step, Decoding

LEMMA ReadSteps ==
    ASSUME NEW f, NEW D, NEW text, NEW list
    PROVE  ReadFolds(f, D, text, list) <=> StepFolds(f, D, Parsing(text), Imp!CsvStart, list)
BY DEF ReadFolds, StepFolds, Step, Parsing

\* The letters of a secret, once all bytes are taken.
Padding(e) == (e.value * 2 ^ (5 - e.bits)) % 32
Finished(e) == IF e.bits = 0 THEN e.out ELSE Append(e.out, Padding(e))

LEMMA EncodeRuns ==
    ASSUME NEW bytes, NEW n, IsList(bytes, n), NEW letters, letters = Totp!Base32Encode(bytes)
    PROVE  \E r : Runs(r, Encoding, NoBits, bytes, n) /\ letters = Finished(r[n])
<1>1. n \in Nat /\ DOMAIN bytes = 1 .. n
  BY DEF IsList
<1>2. PICK f : f = CHOOSE g : EncodeFolds(g, 1 .. n, bytes)
  OBVIOUS
<1>3. letters = Finished((CHOOSE g : EncodeFolds(g, DOMAIN bytes, bytes))[DOMAIN bytes])
  BY Zenon DEF Totp!Base32Encode, Finished, Padding, Totp!Reduce, Totp!MapThenFoldSet,
               EncodeFolds, NoBits
<1>4. EncodeFolds(f, 1 .. n, bytes)
  BY <1>1, <1>2, EncodeSteps, StepExists
<1>5. PICK r : Runs(r, Encoding, NoBits, bytes, n) /\ r[n] = f[1 .. n]
  BY <1>1, <1>4, StepRuns, EncodeSteps
<1> QED  BY <1>1, <1>2, <1>3, <1>5

LEMMA DecodeRuns ==
    ASSUME NEW letters, NEW n, IsList(letters, n), NEW read, read = Totp!Base32Decode(letters)
    PROVE  \E r : Runs(r, Decoding, NoBits, letters, n) /\ read = r[n].out
<1>1. n \in Nat /\ DOMAIN letters = 1 .. n
  BY DEF IsList
<1>2. PICK f : f = CHOOSE g : DecodeFolds(g, 1 .. n, letters)
  OBVIOUS
<1>3. read = (CHOOSE g : DecodeFolds(g, DOMAIN letters, letters))[DOMAIN letters].out
  BY Zenon DEF Totp!Base32Decode, Totp!Reduce, Totp!MapThenFoldSet, DecodeFolds, NoBits
<1>4. DecodeFolds(f, 1 .. n, letters)
  BY <1>1, <1>2, DecodeSteps, StepExists
<1>5. PICK r : Runs(r, Decoding, NoBits, letters, n) /\ r[n] = f[1 .. n]
  BY <1>1, <1>4, StepRuns, DecodeSteps
<1> QED  BY <1>1, <1>2, <1>3, <1>5

\* The rows once all characters are read.
Closed(end) == IF end.field # <<>> \/ end.row # <<>> THEN Imp!EndRow(end).rows ELSE end.rows

Indices(text) == [i \in DOMAIN text |-> i]

LEMMA ReadRuns ==
    ASSUME NEW text, NEW n, IsList(text, n), NEW rows, rows = Imp!ParseCsv(text)
    PROVE  \E r : Runs(r, Parsing(text), Imp!CsvStart, Indices(text), n) /\ rows = Closed(r[n])
<1>1. n \in Nat /\ DOMAIN text = 1 .. n
  BY DEF IsList
<1>2. PICK list : list = Indices(text)
  OBVIOUS
<1>3. PICK f : f = CHOOSE g : ReadFolds(g, 1 .. n, text, list)
  OBVIOUS
<1>4. rows = Closed((CHOOSE g : ReadFolds(g, DOMAIN Indices(text), text, Indices(text)))[DOMAIN Indices(text)])
  BY Zenon DEF Imp!ParseCsv, Closed, Imp!Reduce, Imp!MapThenFoldSet,
               ReadFolds, Indices
<1>5. ReadFolds(f, 1 .. n, text, list)
  BY <1>1, <1>3, ReadSteps, StepExists
<1>6. PICK r : Runs(r, Parsing(text), Imp!CsvStart, list, n) /\ r[n] = f[1 .. n]
  BY <1>1, <1>5, StepRuns, ReadSteps
<1> QED  BY <1>1, <1>2, <1>3, <1>4, <1>6 DEF Indices

-----------------------------------------------------------------------------
(* A secret in base32: a byte written and read again *)

\* What is left of a byte between two letters: its low bits in the encoder, with
\* value ev, and its high bits in the decoder, with value dv.
Carried(ev, dv, low, high, a) ==
    \E h, g \in Int, x \in 0 .. low - 1, y \in 0 .. high - 1 :
        ev = low * h + x /\ dv = high * g + y /\ a = low * y + x

\* A byte comes in, a letter comes in, a letter goes out.
NextByte(v, ev, b) == v = (ev * 256 + b) % 4096
NextLetter(w, dv, p) == w = (dv * 32 + p) % 4096
LetterAt(p, v, k) == p = (v \div k) % 32

\* What an accumulator, a byte and a letter hold.
Word  == 0 .. 4095
Byte  == 0 .. 255
Digit == 0 .. 31

\* A number above its lowest bits, in the accumulator of 12 bits.
Tops(z, c, h, r) == z = c * h + r
Fits(c) == c \in Int /\ \E m \in Int : c * m = 4096

LEMMA Fitting ==
    \A c \in {32, 64, 128, 256, 512, 1024, 2048, 4096} : Fits(c)
BY DEF Fits

LEMMA Wrapped ==
    ASSUME NEW c, Fits(c), NEW z \in Int, NEW h \in Int, NEW r \in Int, Tops(z, c, h, r)
    PROVE  z % 4096 \in Word /\ \E t \in Int : Tops(z % 4096, c, t, r)
<1>1. PICK m \in Int : c \in Int /\ c * m = 4096
  BY DEF Fits
<1>2. PICK t \in Int : z % 4096 = z - 4096 * t /\ z % 4096 \in 0 .. 4095
  OBVIOUS
<1>3. PICK s \in Int : s = h - m * t
  OBVIOUS
<1>4. z % 4096 = c * s + r
  BY <1>1, <1>2, <1>3 DEF Tops
<1> QED  BY <1>2, <1>4 DEF Tops, Word

\* 3 bits of a byte are left when the next one is written.
LEMMA FirstLetters ==
    ASSUME NEW ev \in Word, NEW dv \in Word, NEW a \in Byte, NEW b \in Byte,
           Carried(ev, dv, 8, 32, a), NEW v, NextByte(v, ev, b),
           NEW p, LetterAt(p, v, 64), NEW w, NextLetter(w, dv, p),
           NEW q, LetterAt(q, v, 2), NEW u, NextLetter(u, w, q)
    PROVE  /\ v \in Word /\ w \in Word /\ p \in Digit /\ u \in Word /\ q \in Digit
           /\ (w \div 4) % 256 = a
           /\ Carried(v, u, 2, 128, b)
<1>1. PICK h \in Int, g \in Int, x \in 0 .. 7, y \in 0 .. 31 :
        ev = 8 * h + x /\ dv = 32 * g + y /\ a = 8 * y + x
  BY DEF Carried
<1>2. PICK b1 \in 0 .. 3, b2 \in 0 .. 31, b3 \in 0 .. 1 :
        b = 64 * b1 + 2 * b2 + b3
  <2>1. PICK c1 \in 0 .. 3, r1 \in 0 .. 63 : b = 64 * c1 + r1
    BY DEF Byte
  <2>2. PICK c2 \in 0 .. 31, c3 \in 0 .. 1 : r1 = 2 * c2 + c3
    OBVIOUS
  <2> QED  BY <2>1, <2>2
<1>v. v \in Word /\ \E t1 \in Int : Tops(v, 2048, t1, 256 * x + b)
  <2>1. PICK z1 \in Int, h1 \in Int, r1 \in Int : z1 = ev * 256 + b /\ h1 = h /\ r1 = 256 * x + b
    BY DEF Word, Byte
  <2>2. Tops(z1, 2048, h1, r1)
    BY <1>1, <2>1 DEF Tops
  <2> QED  BY <2>1, <2>2, Fitting, Wrapped DEF NextByte
<1>3. PICK t \in Int : Tops(v, 2048, t, 256 * x + b)
  BY <1>v
<1>4. PICK m \in Int : m = 4 * x + b1 /\ m \in 0 .. 31
  OBVIOUS
<1>5. p = m
  <2>1. PICK q1 \in Int, r1 \in 0 .. 63 : q1 = 32 * t + m /\ r1 = 2 * b2 + b3
    OBVIOUS
  <2>2. v \div 64 = q1
    BY <1>2, <1>3, <1>4, <2>1 DEF Tops
  <2> QED  BY <1>4, <2>1, <2>2 DEF LetterAt

<1>w. w \in Word /\ \E t1 \in Int : Tops(w, 1024, t1, 32 * y + m)
  <2>1. PICK z1 \in Int, h1 \in Int, r1 \in Int : z1 = dv * 32 + m /\ h1 = g /\ r1 = 32 * y + m
    BY DEF Word, Byte
  <2>2. Tops(z1, 1024, h1, r1)
    BY <1>1, <2>1 DEF Tops
  <2> QED  BY <1>5, <2>1, <2>2, Fitting, Wrapped DEF NextLetter
<1>6. PICK c \in Int : Tops(w, 1024, c, 32 * y + m)
  BY <1>w
<1>7. (w \div 4) % 256 = a
  <2>1. PICK q1 \in Int : q1 = 256 * c + a
    BY DEF Byte
  <2> QED  BY <1>1, <1>2, <1>4, <1>6, <2>1 DEF LetterAt, Byte, Tops
<1>8. q = b2
  <2>1. PICK q1 \in Int, r1 \in Int : q1 = 32 * r1 + b2 /\ r1 = 32 * t + 4 * x + b1
    OBVIOUS
  <2>2. v \div 2 = q1
    BY <1>2, <1>3, <2>1 DEF Tops
  <2> QED  BY <2>1, <2>2 DEF LetterAt

<1>u. u \in Word /\ \E t1 \in Int : Tops(u, 128, t1, 32 * b1 + b2)
  <2>1. PICK z1 \in Int, h1 \in Int, r1 \in Int : z1 = w * 32 + b2 /\ h1 = 256 * c + 8 * y + 1 * x /\ r1 = 32 * b1 + b2
    BY <1>w DEF Word, Byte
  <2>2. Tops(z1, 128, h1, r1)
    BY <1>4, <1>6, <2>1 DEF Tops
  <2> QED  BY <1>8, <2>1, <2>2, Fitting, Wrapped DEF NextLetter
<1>9. PICK d \in Int : Tops(u, 128, d, 32 * b1 + b2)
  BY <1>u

<1>10. Carried(v, u, 2, 128, b)
  <2>1. PICK h1 \in Int, y1 \in 0 .. 127 :
          h1 = 1024 * t + 128 * x + y1 /\ y1 = 32 * b1 + b2
    OBVIOUS
  <2>2. v = 2 * h1 + b3 /\ u = 128 * d + y1 /\ b = 2 * y1 + b3
    BY <1>2, <1>3, <1>9, <2>1 DEF Tops
  <2> QED  BY <2>2 DEF Carried
<1> QED  BY <1>u, <1>v, <1>w, <1>4, <1>5, <1>7, <1>8, <1>10 DEF Digit

LEMMA FirstLast ==
    ASSUME NEW ev \in Word, NEW dv \in Word, NEW a \in Byte,
           Carried(ev, dv, 8, 32, a), NEW p, LetterAt(p, ev * 4, 1),
           NEW w, NextLetter(w, dv, p)
    PROVE  (w \div 4) % 256 = a /\ p \in Digit
<1>1. PICK h \in Int, g \in Int, x \in 0 .. 7, y \in 0 .. 31 :
        ev = 8 * h + x /\ dv = 32 * g + y /\ a = 8 * y + x
  BY DEF Carried
<1>2. PICK m \in 0 .. 31 : m = 4 * x
  OBVIOUS
<1>3. p = m
  BY <1>1, <1>2 DEF LetterAt
<1>w. w \in Word /\ \E t1 \in Int : Tops(w, 1024, t1, 32 * y + m)
  <2>1. PICK z1 \in Int, h1 \in Int, r1 \in Int : z1 = dv * 32 + m /\ h1 = g /\ r1 = 32 * y + m
    BY DEF Word, Byte
  <2>2. Tops(z1, 1024, h1, r1)
    BY <1>1, <2>1 DEF Tops
  <2> QED  BY <1>3, <2>1, <2>2, Fitting, Wrapped DEF NextLetter
<1>4. PICK c \in Int : Tops(w, 1024, c, 32 * y + m)
  BY <1>w
<1>5. (w \div 4) % 256 = a
  <2>1. PICK q1 \in Int : q1 = 256 * c + a
    BY DEF Byte
  <2> QED  BY <1>1, <1>2, <1>4, <2>1 DEF LetterAt, Byte, Tops
<1> QED  BY <1>3, <1>5 DEF Digit

\* 1 bits of a byte are left when the next one is written.
LEMMA SecondLetters ==
    ASSUME NEW ev \in Word, NEW dv \in Word, NEW a \in Byte, NEW b \in Byte,
           Carried(ev, dv, 2, 128, a), NEW v, NextByte(v, ev, b),
           NEW p, LetterAt(p, v, 16), NEW w, NextLetter(w, dv, p)
    PROVE  /\ v \in Word /\ w \in Word /\ p \in Digit
           /\ (w \div 16) % 256 = a
           /\ Carried(v, w, 16, 16, b)
<1>1. PICK h \in Int, g \in Int, x \in 0 .. 1, y \in 0 .. 127 :
        ev = 2 * h + x /\ dv = 128 * g + y /\ a = 2 * y + x
  BY DEF Carried
<1>2. PICK b1 \in 0 .. 15, b3 \in 0 .. 15 : b = 16 * b1 + b3
  BY DEF Byte
<1>v. v \in Word /\ \E t1 \in Int : Tops(v, 512, t1, 256 * x + b)
  <2>1. PICK z1 \in Int, h1 \in Int, r1 \in Int : z1 = ev * 256 + b /\ h1 = h /\ r1 = 256 * x + b
    BY DEF Word, Byte
  <2>2. Tops(z1, 512, h1, r1)
    BY <1>1, <2>1 DEF Tops
  <2> QED  BY <2>1, <2>2, Fitting, Wrapped DEF NextByte
<1>3. PICK t \in Int : Tops(v, 512, t, 256 * x + b)
  BY <1>v
<1>4. PICK m \in Int : m = 16 * x + b1 /\ m \in 0 .. 31
  OBVIOUS
<1>5. p = m
  <2>1. PICK q1 \in Int, r1 \in 0 .. 15 : q1 = 32 * t + m /\ r1 = b3
    OBVIOUS
  <2>2. v \div 16 = q1
    BY <1>2, <1>3, <1>4, <2>1 DEF Tops
  <2> QED  BY <1>4, <2>1, <2>2 DEF LetterAt

<1>w. w \in Word /\ \E t1 \in Int : Tops(w, 4096, t1, 32 * y + m)
  <2>1. PICK z1 \in Int, h1 \in Int, r1 \in Int : z1 = dv * 32 + m /\ h1 = g /\ r1 = 32 * y + m
    BY DEF Word, Byte
  <2>2. Tops(z1, 4096, h1, r1)
    BY <1>1, <2>1 DEF Tops
  <2> QED  BY <1>5, <2>1, <2>2, Fitting, Wrapped DEF NextLetter
<1>6. PICK c \in Int : Tops(w, 4096, c, 32 * y + m)
  BY <1>w
<1>7. (w \div 16) % 256 = a
  <2>1. PICK q1 \in Int : q1 = 256 * c + a
    BY DEF Byte
  <2>2. w \div 16 = q1
    BY <1>1, <1>2, <1>4, <1>6, <2>1 DEF Tops
  <2> QED  BY <2>1, <2>2 DEF LetterAt, Byte
<1>8. Carried(v, w, 16, 16, b)
  <2>1. PICK h1 \in Int, g1 \in Int :
          /\ h1 = 32 * t + 16 * x + b1
          /\ g1 = 256 * c + 2 * y + x
    OBVIOUS
  <2>2. v = 16 * h1 + b3 /\ w = 16 * g1 + b1 /\ b = 16 * b1 + b3
    BY <1>2, <1>3, <1>4, <1>6, <2>1 DEF Tops
  <2> QED  BY <2>2 DEF Carried
<1> QED  BY <1>v, <1>w, <1>4, <1>5, <1>7, <1>8 DEF Digit

LEMMA SecondLast ==
    ASSUME NEW ev \in Word, NEW dv \in Word, NEW a \in Byte,
           Carried(ev, dv, 2, 128, a), NEW p, LetterAt(p, ev * 16, 1),
           NEW w, NextLetter(w, dv, p)
    PROVE  (w \div 16) % 256 = a /\ p \in Digit
<1>1. PICK h \in Int, g \in Int, x \in 0 .. 1, y \in 0 .. 127 :
        ev = 2 * h + x /\ dv = 128 * g + y /\ a = 2 * y + x
  BY DEF Carried
<1>2. PICK m \in 0 .. 31 : m = 16 * x
  OBVIOUS
<1>3. p = m
  BY <1>1, <1>2 DEF LetterAt
<1>w. w \in Word /\ \E t1 \in Int : Tops(w, 4096, t1, 32 * y + m)
  <2>1. PICK z1 \in Int, h1 \in Int, r1 \in Int : z1 = dv * 32 + m /\ h1 = g /\ r1 = 32 * y + m
    BY DEF Word, Byte
  <2>2. Tops(z1, 4096, h1, r1)
    BY <1>1, <2>1 DEF Tops
  <2> QED  BY <1>3, <2>1, <2>2, Fitting, Wrapped DEF NextLetter
<1>4. PICK c \in Int : Tops(w, 4096, c, 32 * y + m)
  BY <1>w
<1>5. (w \div 16) % 256 = a
  <2>1. PICK q1 \in Int : q1 = 256 * c + a
    BY DEF Byte
  <2> QED  BY <1>1, <1>2, <1>4, <2>1 DEF LetterAt, Byte, Tops
<1> QED  BY <1>3, <1>5 DEF Digit

\* 4 bits of a byte are left when the next one is written.
LEMMA ThirdLetters ==
    ASSUME NEW ev \in Word, NEW dv \in Word, NEW a \in Byte, NEW b \in Byte,
           Carried(ev, dv, 16, 16, a), NEW v, NextByte(v, ev, b),
           NEW p, LetterAt(p, v, 128), NEW w, NextLetter(w, dv, p),
           NEW q, LetterAt(q, v, 4), NEW u, NextLetter(u, w, q)
    PROVE  /\ v \in Word /\ w \in Word /\ p \in Digit /\ u \in Word /\ q \in Digit
           /\ (w \div 2) % 256 = a
           /\ Carried(v, u, 4, 64, b)
<1>1. PICK h \in Int, g \in Int, x \in 0 .. 15, y \in 0 .. 15 :
        ev = 16 * h + x /\ dv = 16 * g + y /\ a = 16 * y + x
  BY DEF Carried
<1>2. PICK b1 \in 0 .. 1, b2 \in 0 .. 31, b3 \in 0 .. 3 :
        b = 128 * b1 + 4 * b2 + b3
  <2>1. PICK c1 \in 0 .. 1, r1 \in 0 .. 127 : b = 128 * c1 + r1
    BY DEF Byte
  <2>2. PICK c2 \in 0 .. 31, c3 \in 0 .. 3 : r1 = 4 * c2 + c3
    OBVIOUS
  <2> QED  BY <2>1, <2>2
<1>v. v \in Word /\ \E t1 \in Int : Tops(v, 4096, t1, 256 * x + b)
  <2>1. PICK z1 \in Int, h1 \in Int, r1 \in Int : z1 = ev * 256 + b /\ h1 = h /\ r1 = 256 * x + b
    BY DEF Word, Byte
  <2>2. Tops(z1, 4096, h1, r1)
    BY <1>1, <2>1 DEF Tops
  <2> QED  BY <2>1, <2>2, Fitting, Wrapped DEF NextByte
<1>3. PICK t \in Int : Tops(v, 4096, t, 256 * x + b)
  BY <1>v
<1>4. PICK m \in Int : m = 2 * x + b1 /\ m \in 0 .. 31
  OBVIOUS
<1>5. p = m
  <2>1. PICK q1 \in Int, r1 \in 0 .. 127 : q1 = 32 * t + m /\ r1 = 4 * b2 + b3
    OBVIOUS
  <2>2. v \div 128 = q1
    BY <1>2, <1>3, <1>4, <2>1 DEF Tops
  <2> QED  BY <1>4, <2>1, <2>2 DEF LetterAt

<1>w. w \in Word /\ \E t1 \in Int : Tops(w, 512, t1, 32 * y + m)
  <2>1. PICK z1 \in Int, h1 \in Int, r1 \in Int : z1 = dv * 32 + m /\ h1 = g /\ r1 = 32 * y + m
    BY DEF Word, Byte
  <2>2. Tops(z1, 512, h1, r1)
    BY <1>1, <2>1 DEF Tops
  <2> QED  BY <1>5, <2>1, <2>2, Fitting, Wrapped DEF NextLetter
<1>6. PICK c \in Int : Tops(w, 512, c, 32 * y + m)
  BY <1>w
<1>7. (w \div 2) % 256 = a
  <2>1. PICK q1 \in Int : q1 = 256 * c + a
    BY DEF Byte
  <2> QED  BY <1>1, <1>2, <1>4, <1>6, <2>1 DEF LetterAt, Byte, Tops
<1>8. q = b2
  <2>1. PICK q1 \in Int, r1 \in Int : q1 = 32 * r1 + b2 /\ r1 = 32 * t + 2 * x + b1
    OBVIOUS
  <2>2. v \div 4 = q1
    BY <1>2, <1>3, <2>1 DEF Tops
  <2> QED  BY <2>1, <2>2 DEF LetterAt

<1>u. u \in Word /\ \E t1 \in Int : Tops(u, 64, t1, 32 * b1 + b2)
  <2>1. PICK z1 \in Int, h1 \in Int, r1 \in Int : z1 = w * 32 + b2 /\ h1 = 256 * c + 16 * y + 1 * x /\ r1 = 32 * b1 + b2
    BY <1>w DEF Word, Byte
  <2>2. Tops(z1, 64, h1, r1)
    BY <1>4, <1>6, <2>1 DEF Tops
  <2> QED  BY <1>8, <2>1, <2>2, Fitting, Wrapped DEF NextLetter
<1>9. PICK d \in Int : Tops(u, 64, d, 32 * b1 + b2)
  BY <1>u

<1>10. Carried(v, u, 4, 64, b)
  <2>1. PICK h1 \in Int, y1 \in 0 .. 63 :
          h1 = 1024 * t + 64 * x + y1 /\ y1 = 32 * b1 + b2
    OBVIOUS
  <2>2. v = 4 * h1 + b3 /\ u = 64 * d + y1 /\ b = 4 * y1 + b3
    BY <1>2, <1>3, <1>9, <2>1 DEF Tops
  <2> QED  BY <2>2 DEF Carried
<1> QED  BY <1>u, <1>v, <1>w, <1>4, <1>5, <1>7, <1>8, <1>10 DEF Digit

LEMMA ThirdLast ==
    ASSUME NEW ev \in Word, NEW dv \in Word, NEW a \in Byte,
           Carried(ev, dv, 16, 16, a), NEW p, LetterAt(p, ev * 2, 1),
           NEW w, NextLetter(w, dv, p)
    PROVE  (w \div 2) % 256 = a /\ p \in Digit
<1>1. PICK h \in Int, g \in Int, x \in 0 .. 15, y \in 0 .. 15 :
        ev = 16 * h + x /\ dv = 16 * g + y /\ a = 16 * y + x
  BY DEF Carried
<1>2. PICK m \in 0 .. 31 : m = 2 * x
  OBVIOUS
<1>3. p = m
  BY <1>1, <1>2 DEF LetterAt
<1>w. w \in Word /\ \E t1 \in Int : Tops(w, 512, t1, 32 * y + m)
  <2>1. PICK z1 \in Int, h1 \in Int, r1 \in Int : z1 = dv * 32 + m /\ h1 = g /\ r1 = 32 * y + m
    BY DEF Word, Byte
  <2>2. Tops(z1, 512, h1, r1)
    BY <1>1, <2>1 DEF Tops
  <2> QED  BY <1>3, <2>1, <2>2, Fitting, Wrapped DEF NextLetter
<1>4. PICK c \in Int : Tops(w, 512, c, 32 * y + m)
  BY <1>w
<1>5. (w \div 2) % 256 = a
  <2>1. PICK q1 \in Int : q1 = 256 * c + a
    BY DEF Byte
  <2> QED  BY <1>1, <1>2, <1>4, <2>1 DEF LetterAt, Byte, Tops
<1> QED  BY <1>3, <1>5 DEF Digit

\* 2 bits of a byte are left when the next one is written.
LEMMA FourthLetters ==
    ASSUME NEW ev \in Word, NEW dv \in Word, NEW a \in Byte, NEW b \in Byte,
           Carried(ev, dv, 4, 64, a), NEW v, NextByte(v, ev, b),
           NEW p, LetterAt(p, v, 32), NEW w, NextLetter(w, dv, p),
           NEW q, LetterAt(q, v, 1), NEW u, NextLetter(u, w, q)
    PROVE  /\ v \in Word /\ w \in Word /\ p \in Digit /\ u \in Word /\ q \in Digit
           /\ (w \div 8) % 256 = a
           /\ (u \div 1) % 256 = b
<1>1. PICK h \in Int, g \in Int, x \in 0 .. 3, y \in 0 .. 63 :
        ev = 4 * h + x /\ dv = 64 * g + y /\ a = 4 * y + x
  BY DEF Carried
<1>2. PICK b1 \in 0 .. 7, b2 \in 0 .. 31 : b = 32 * b1 + b2
  BY DEF Byte
<1>v. v \in Word /\ \E t1 \in Int : Tops(v, 1024, t1, 256 * x + b)
  <2>1. PICK z1 \in Int, h1 \in Int, r1 \in Int : z1 = ev * 256 + b /\ h1 = h /\ r1 = 256 * x + b
    BY DEF Word, Byte
  <2>2. Tops(z1, 1024, h1, r1)
    BY <1>1, <2>1 DEF Tops
  <2> QED  BY <2>1, <2>2, Fitting, Wrapped DEF NextByte
<1>3. PICK t \in Int : Tops(v, 1024, t, 256 * x + b)
  BY <1>v
<1>4. PICK m \in Int : m = 8 * x + b1 /\ m \in 0 .. 31
  OBVIOUS
<1>5. p = m
  <2>1. PICK q1 \in Int, r1 \in 0 .. 31 : q1 = 32 * t + m /\ r1 = b2
    OBVIOUS
  <2>2. v \div 32 = q1
    BY <1>2, <1>3, <1>4, <2>1 DEF Tops
  <2> QED  BY <1>4, <2>1, <2>2 DEF LetterAt

<1>w. w \in Word /\ \E t1 \in Int : Tops(w, 2048, t1, 32 * y + m)
  <2>1. PICK z1 \in Int, h1 \in Int, r1 \in Int : z1 = dv * 32 + m /\ h1 = g /\ r1 = 32 * y + m
    BY DEF Word, Byte
  <2>2. Tops(z1, 2048, h1, r1)
    BY <1>1, <2>1 DEF Tops
  <2> QED  BY <1>5, <2>1, <2>2, Fitting, Wrapped DEF NextLetter
<1>6. PICK c \in Int : Tops(w, 2048, c, 32 * y + m)
  BY <1>w
<1>7. (w \div 8) % 256 = a
  <2>1. PICK q1 \in Int : q1 = 256 * c + a
    BY DEF Byte
  <2>2. w \div 8 = q1
    BY <1>1, <1>2, <1>4, <1>6, <2>1 DEF Tops
  <2> QED  BY <2>1, <2>2 DEF LetterAt, Byte
<1>8. q = b2
  <2>1. PICK q1 \in Int, r1 \in Int : q1 = 32 * r1 + b2 /\ r1 = 32 * t + 8 * x + b1
    OBVIOUS
  <2> QED  BY <1>2, <1>3, <2>1 DEF LetterAt, Tops

<1>u. u \in Word /\ \E t1 \in Int : Tops(u, 256, t1, 32 * b1 + b2)
  <2>1. PICK z1 \in Int, h1 \in Int, r1 \in Int : z1 = w * 32 + b2 /\ h1 = 256 * c + 4 * y + 1 * x /\ r1 = 32 * b1 + b2
    BY <1>w DEF Word, Byte
  <2>2. Tops(z1, 256, h1, r1)
    BY <1>4, <1>6, <2>1 DEF Tops
  <2> QED  BY <1>8, <2>1, <2>2, Fitting, Wrapped DEF NextLetter
<1>9. PICK d \in Int : Tops(u, 256, d, 32 * b1 + b2)
  BY <1>u

<1>10. p \in Digit
  BY <1>4, <1>5 DEF Digit
<1> QED  BY <1>u, <1>v, <1>w, <1>2, <1>7, <1>8, <1>9, <1>10 DEF Tops, Byte, Digit

LEMMA FourthLast ==
    ASSUME NEW ev \in Word, NEW dv \in Word, NEW a \in Byte,
           Carried(ev, dv, 4, 64, a), NEW p, LetterAt(p, ev * 8, 1),
           NEW w, NextLetter(w, dv, p)
    PROVE  (w \div 8) % 256 = a /\ p \in Digit
<1>1. PICK h \in Int, g \in Int, x \in 0 .. 3, y \in 0 .. 63 :
        ev = 4 * h + x /\ dv = 64 * g + y /\ a = 4 * y + x
  BY DEF Carried
<1>2. PICK m \in 0 .. 31 : m = 8 * x
  OBVIOUS
<1>3. p = m
  BY <1>1, <1>2 DEF LetterAt
<1>w. w \in Word /\ \E t1 \in Int : Tops(w, 2048, t1, 32 * y + m)
  <2>1. PICK z1 \in Int, h1 \in Int, r1 \in Int : z1 = dv * 32 + m /\ h1 = g /\ r1 = 32 * y + m
    BY DEF Word, Byte
  <2>2. Tops(z1, 2048, h1, r1)
    BY <1>1, <2>1 DEF Tops
  <2> QED  BY <1>3, <2>1, <2>2, Fitting, Wrapped DEF NextLetter
<1>4. PICK c \in Int : Tops(w, 2048, c, 32 * y + m)
  BY <1>w
<1>5. (w \div 8) % 256 = a
  <2>1. PICK q1 \in Int : q1 = 256 * c + a
    BY DEF Byte
  <2> QED  BY <1>1, <1>2, <1>4, <2>1 DEF LetterAt, Byte, Tops
<1> QED  BY <1>3, <1>5 DEF Digit

\* Nothing is left when the next byte is written.
LEMMA FreshLetters ==
    ASSUME NEW ev \in Word, NEW dv \in Word, NEW b \in Byte,
           NEW v, NextByte(v, ev, b), NEW p, LetterAt(p, v, 8),
           NEW w, NextLetter(w, dv, p)
    PROVE  v \in Word /\ w \in Word /\ p \in Digit /\ Carried(v, w, 8, 32, b)
<1>1. PICK b1 \in 0 .. 31, b3 \in 0 .. 7 : b = 8 * b1 + b3
  BY DEF Byte
<1>v. v \in Word /\ \E t1 \in Int : Tops(v, 256, t1, b)
  <2>1. PICK z1 \in Int, h1 \in Int, r1 \in Int : z1 = ev * 256 + b /\ h1 = ev /\ r1 = b
    BY DEF Word, Byte
  <2>2. Tops(z1, 256, h1, r1)
    BY <2>1 DEF Tops
  <2> QED  BY <2>1, <2>2, Fitting, Wrapped DEF NextByte
<1>2. PICK t \in Int : Tops(v, 256, t, b)
  BY <1>v
<1>3. p = b1
  <2>1. PICK q1 \in Int : q1 = 32 * t + b1
    OBVIOUS
  <2>2. v \div 8 = q1
    BY <1>1, <1>2, <2>1 DEF Tops
  <2> QED  BY <2>1, <2>2 DEF LetterAt
<1>w. w \in Word /\ \E t1 \in Int : Tops(w, 32, t1, b1)
  <2>1. PICK z1 \in Int, h1 \in Int, r1 \in Int : z1 = dv * 32 + b1 /\ h1 = dv /\ r1 = b1
    BY DEF Word, Byte
  <2>2. Tops(z1, 32, h1, r1)
    BY <1>1, <2>1 DEF Tops
  <2> QED  BY <1>3, <2>1, <2>2, Fitting, Wrapped DEF NextLetter
<1>4. PICK c \in Int : Tops(w, 32, c, b1)
  BY <1>w
<1>5. Carried(v, w, 8, 32, b)
  <2>1. PICK h1 \in Int : h1 = 32 * t + b1
    OBVIOUS
  <2>2. v = 8 * h1 + b3 /\ w = 32 * c + b1
    BY <1>1, <1>2, <1>4, <2>1 DEF Tops
  <2> QED  BY <1>1, <2>2 DEF Carried
<1> QED  BY <1>v, <1>w, <1>3, <1>5 DEF Digit

-----------------------------------------------------------------------------
(* The letters of a secret and what is read of them *)

\* A letter, or two, at the end of those written.
WithOne(s, s1, p) ==
    /\ s1 \in Seq(Digit) /\ Len(s1) = Len(s) + 1 /\ s1[Len(s) + 1] = p
    /\ \A j \in 1 .. Len(s) : s1[j] = s[j]
WithTwo(s, s1, p, q) ==
    /\ s1 \in Seq(Digit) /\ Len(s1) = Len(s) + 2
    /\ s1[Len(s) + 1] = p /\ s1[Len(s) + 2] = q
    /\ \A j \in 1 .. Len(s) : s1[j] = s[j]

LEMMA OneLetter ==
    ASSUME NEW s \in Seq(Digit), NEW p \in Digit
    PROVE  WithOne(s, Append(s, p), p)
BY AppendProperties DEF WithOne

LEMMA TwoLetters ==
    ASSUME NEW s \in Seq(Digit), NEW p \in Digit, NEW q \in Digit
    PROVE  WithTwo(s, s \o <<p, q>>, p, q)
<1>1. PICK t : t = <<p, q>>
  OBVIOUS
<1>2. t \in Seq(Digit) /\ Len(t) = 2 /\ t[1] = p /\ t[2] = q
  BY <1>1
<1>3. PICK u : u = s \o t
  OBVIOUS
<1>4. Len(s) \in Nat
  BY LenProperties
<1>5. /\ u \in Seq(Digit) /\ Len(u) = Len(s) + Len(t)
      /\ \A i \in 1 .. Len(s) + Len(t) : u[i] = IF i <= Len(s) THEN s[i] ELSE t[i - Len(s)]
  BY <1>2, <1>3, ConcatProperties
<1> QED  BY <1>1, <1>2, <1>3, <1>4, <1>5 DEF WithTwo

LEMMA AByteIsAWord ==
    ASSUME NEW v, NEW ev \in Word, NEW b \in Byte, NextByte(v, ev, b)
    PROVE  v \in Word
<1>1. PICK z \in Int : z = ev * 256 + b
  BY DEF Word, Byte
<1>2. z % 4096 \in 0 .. 4095
  OBVIOUS
<1> QED  BY <1>1, <1>2 DEF NextByte, Word

Powers == {1, 2, 4, 8, 16, 32, 64, 128}

LEMMA ALetterIsADigit ==
    ASSUME NEW v \in Word, NEW k \in Powers, NEW p, LetterAt(p, v, k)
    PROVE  p \in Digit
<1>1. PICK z \in Int : z = v \div k
  BY DEF Word, Powers
<1> QED  BY <1>1 DEF LetterAt, Digit

\* A byte gives one letter or two; bits of it are left.
Writing(e) == e.value \in Word /\ e.out \in Seq(Digit)
WroteOne(e, b, e1, bits, k) ==
    \E v \in Word, p \in Digit :
        /\ NextByte(v, e.value, b) /\ e1.value = v /\ e1.bits = bits
        /\ LetterAt(p, v, k) /\ WithOne(e.out, e1.out, p)
WroteTwo(e, b, e1, bits, k, l) ==
    \E v \in Word, p \in Digit, q \in Digit :
        /\ NextByte(v, e.value, b) /\ e1.value = v /\ e1.bits = bits
        /\ LetterAt(p, v, k) /\ LetterAt(q, v, l) /\ WithTwo(e.out, e1.out, p, q)

LEMMA WriteOne ==
    ASSUME NEW e, Writing(e), NEW b \in Byte, NEW e1, e1 = Totp!EncodeByte(e, b),
           NEW n, n = e.bits + 8, ~(n >= 10), NEW k \in Powers, 2 ^ (n - 5) = k
    PROVE  WroteOne(e, b, e1, n - 5, k)
<1>1. PICK v : v = (e.value * 256 + b) % Totp!Width
  OBVIOUS
<1>2. NextByte(v, e.value, b)
  BY <1>1 DEF NextByte, Totp!Width
<1>3. v \in Word
  BY <1>2, AByteIsAWord DEF Writing
<1>4. PICK p : p = (v \div k) % 32
  OBVIOUS
<1>5. LetterAt(p, v, k)
  BY <1>4 DEF LetterAt
<1>6. e1 = [value |-> v, bits |-> n - 5, out |-> Append(e.out, p)]
  BY <1>1, <1>4, Zenon DEF Totp!EncodeByte
<1> QED  BY <1>2, <1>3, <1>5, <1>6, OneLetter, ALetterIsADigit DEF WroteOne, Writing

LEMMA WriteTwo ==
    ASSUME NEW e, Writing(e), NEW b \in Byte, NEW e1, e1 = Totp!EncodeByte(e, b),
           NEW n, n = e.bits + 8, n >= 10,
           NEW k \in Powers, 2 ^ (n - 5) = k, NEW l \in Powers, 2 ^ (n - 10) = l
    PROVE  WroteTwo(e, b, e1, n - 10, k, l)
<1>1. PICK v : v = (e.value * 256 + b) % Totp!Width
  OBVIOUS
<1>2. NextByte(v, e.value, b)
  BY <1>1 DEF NextByte, Totp!Width
<1>3. v \in Word
  BY <1>2, AByteIsAWord DEF Writing
<1>4. PICK p : p = (v \div k) % 32
  OBVIOUS
<1>5. LetterAt(p, v, k)
  BY <1>4 DEF LetterAt
<1>6. PICK q : q = (v \div l) % 32
  OBVIOUS
<1>7. LetterAt(q, v, l)
  BY <1>6 DEF LetterAt
<1>8. p \in Digit /\ q \in Digit
  BY <1>3, <1>5, <1>7, ALetterIsADigit
<1>9. e1 = [value |-> v, bits |-> n - 10, out |-> e.out \o <<p, q>>]
  BY <1>1, <1>4, <1>6, ZenonT(30) DEF Totp!EncodeByte
<1>10. WithTwo(e.out, e1.out, p, q) /\ e1.value = v /\ e1.bits = n - 10
  BY <1>8, <1>9, TwoLetters DEF Writing
<1> QED  BY <1>2, <1>3, <1>5, <1>7, <1>8, <1>10 DEF WroteTwo

LEMMA ByteWritten ==
    ASSUME NEW e, Writing(e), NEW b \in Byte, NEW e1, e1 = Totp!EncodeByte(e, b)
    PROVE  /\ e.bits = 0 => WroteOne(e, b, e1, 3, 8)
           /\ e.bits = 1 => WroteOne(e, b, e1, 4, 16)
           /\ e.bits = 2 => WroteTwo(e, b, e1, 0, 32, 1)
           /\ e.bits = 3 => WroteTwo(e, b, e1, 1, 64, 2)
           /\ e.bits = 4 => WroteTwo(e, b, e1, 2, 128, 4)
<1>1. /\ 2 ^ 0 = 1 /\ 2 ^ 1 = 2 /\ 2 ^ 2 = 4 /\ 2 ^ 3 = 8
      /\ 2 ^ 4 = 16 /\ 2 ^ 5 = 32 /\ 2 ^ 6 = 64 /\ 2 ^ 7 = 128
  OBVIOUS
<1>2. {1, 2, 4, 8, 16, 32, 64, 128} = Powers
  BY DEF Powers
<1>3. ASSUME e.bits = 0 PROVE WroteOne(e, b, e1, 3, 8)
  <2>1. PICK n : n = 8
    OBVIOUS
  <2>2. PICK k \in Powers : k = 8
    BY <1>2
  <2>3. n = e.bits + 8 /\ ~(n >= 10)
    BY <1>3, <2>1
  <2>4. n - 5 = 3
    BY <2>1
  <2>5. 2 ^ (n - 5) = k
    BY <1>1, <2>2, <2>4
  <2> QED  BY <2>2, <2>3, <2>4, <2>5, WriteOne
<1>4. ASSUME e.bits = 1 PROVE WroteOne(e, b, e1, 4, 16)
  <2>1. PICK n : n = 9
    OBVIOUS
  <2>2. PICK k \in Powers : k = 16
    BY <1>2
  <2>3. n = e.bits + 8 /\ ~(n >= 10)
    BY <1>4, <2>1
  <2>4. n - 5 = 4
    BY <2>1
  <2>5. 2 ^ (n - 5) = k
    BY <1>1, <2>2, <2>4
  <2> QED  BY <2>2, <2>3, <2>4, <2>5, WriteOne
<1>5. ASSUME e.bits = 2 PROVE WroteTwo(e, b, e1, 0, 32, 1)
  <2>1. PICK n : n = 10
    OBVIOUS
  <2>2. PICK k \in Powers, l \in Powers : k = 32 /\ l = 1
    BY <1>2
  <2>3. n = e.bits + 8 /\ n >= 10
    BY <1>5, <2>1
  <2>4. n - 5 = 5 /\ n - 10 = 0
    BY <2>1
  <2>5. 2 ^ (n - 5) = k /\ 2 ^ (n - 10) = l
    BY <1>1, <2>2, <2>4
  <2> QED  BY <2>2, <2>3, <2>4, <2>5, WriteTwo
<1>6. ASSUME e.bits = 3 PROVE WroteTwo(e, b, e1, 1, 64, 2)
  <2>1. PICK n : n = 11
    OBVIOUS
  <2>2. PICK k \in Powers, l \in Powers : k = 64 /\ l = 2
    BY <1>2
  <2>3. n = e.bits + 8 /\ n >= 10
    BY <1>6, <2>1
  <2>4. n - 5 = 6 /\ n - 10 = 1
    BY <2>1
  <2>5. 2 ^ (n - 5) = k /\ 2 ^ (n - 10) = l
    BY <1>1, <2>2, <2>4
  <2> QED  BY <2>2, <2>3, <2>4, <2>5, WriteTwo
<1>7. ASSUME e.bits = 4 PROVE WroteTwo(e, b, e1, 2, 128, 4)
  <2>1. PICK n : n = 12
    OBVIOUS
  <2>2. PICK k \in Powers, l \in Powers : k = 128 /\ l = 4
    BY <1>2
  <2>3. n = e.bits + 8 /\ n >= 10
    BY <1>7, <2>1
  <2>4. n - 5 = 7 /\ n - 10 = 2
    BY <2>1
  <2>5. 2 ^ (n - 5) = k /\ 2 ^ (n - 10) = l
    BY <1>1, <2>2, <2>4
  <2> QED  BY <2>2, <2>3, <2>4, <2>5, WriteTwo
<1> QED  BY <1>3, <1>4, <1>5, <1>6, <1>7

\* A letter read without a byte coming out, and one that completes a byte.
Waits(d, p, d1, bits) ==
    NextLetter(d1.value, d.value, p) /\ d1.bits = bits /\ d1.out = d.out
Completes(d, p, d1, bits, k) ==
    /\ NextLetter(d1.value, d.value, p) /\ d1.bits = bits
    /\ d1.out = Append(d.out, (d1.value \div k) % 256)

LEMMA LetterWaits ==
    ASSUME NEW d, NEW p, NEW d1, d1 = Totp!DecodeLetter(d, p), NEW n, n = d.bits + 5, ~(n >= 8)
    PROVE  Waits(d, p, d1, n)
<1>1. PICK v : v = (d.value * 32 + p) % Totp!Width
  OBVIOUS
<1>2. d1 = [value |-> v, bits |-> n, out |-> d.out]
  BY <1>1, Zenon DEF Totp!DecodeLetter
<1> QED  BY <1>1, <1>2 DEF Waits, NextLetter, Totp!Width

LEMMA LetterCompletes ==
    ASSUME NEW d, NEW p, NEW d1, d1 = Totp!DecodeLetter(d, p),
           NEW n, n = d.bits + 5, n >= 8, NEW k, k = 2 ^ (n - 8)
    PROVE  Completes(d, p, d1, n - 8, k)
<1>1. PICK v : v = (d.value * 32 + p) % Totp!Width
  OBVIOUS
<1>2. d1 = [value |-> v, bits |-> n - 8, out |-> Append(d.out, (v \div k) % 256)]
  BY <1>1, Zenon DEF Totp!DecodeLetter
<1> QED  BY <1>1, <1>2 DEF Completes, NextLetter, Totp!Width

LEMMA LetterRead ==
    ASSUME NEW d, NEW p, NEW d1, d1 = Totp!DecodeLetter(d, p)
    PROVE  /\ d.bits = 0 => Waits(d, p, d1, 5)
           /\ d.bits = 1 => Waits(d, p, d1, 6)
           /\ d.bits = 2 => Waits(d, p, d1, 7)
           /\ d.bits = 3 => Completes(d, p, d1, 0, 1)
           /\ d.bits = 4 => Completes(d, p, d1, 1, 2)
           /\ d.bits = 5 => Completes(d, p, d1, 2, 4)
           /\ d.bits = 6 => Completes(d, p, d1, 3, 8)
           /\ d.bits = 7 => Completes(d, p, d1, 4, 16)
<1>1. ASSUME d.bits \in {0, 1, 2} PROVE Waits(d, p, d1, d.bits + 5)
  <2>1. PICK n : n = d.bits + 5 /\ ~(n >= 8)
    BY <1>1
  <2> QED  BY <2>1, LetterWaits
<1>2. ASSUME NEW m \in 0 .. 4, d.bits = m + 3 PROVE Completes(d, p, d1, m, 2 ^ m)
  <2>1. PICK n : n = d.bits + 5 /\ n >= 8 /\ n - 8 = m
    BY <1>2
  <2> QED  BY <2>1, LetterCompletes
<1> QED  BY <1>1, <1>2

Firsts(bytes, k) == [i \in 1 .. k |-> bytes[i]]

LEMMA FirstsMore ==
    ASSUME NEW D, NEW k \in Nat, NEW bytes, \A i \in 1 .. k + 1 : bytes[i] \in D,
           NEW a, a = bytes[k + 1]
    PROVE  Append(Firsts(bytes, k), a) = Firsts(bytes, k + 1)
<1>1. PICK s, t : s = Firsts(bytes, k) /\ t = Append(s, a)
  OBVIOUS
<1>2. s \in Seq(D) /\ Len(s) = k /\ \A i \in 1 .. k : s[i] = bytes[i]
  BY <1>1 DEF Firsts
<1>3. /\ t \in Seq(D) /\ Len(t) = k + 1 /\ t[k + 1] = a
      /\ \A i \in 1 .. k : t[i] = s[i]
  BY <1>1, <1>2, AppendProperties
<1>4. t = [i \in 1 .. k + 1 |-> t[i]]
  BY <1>3, LenProperties
<1> QED  BY <1>1, <1>2, <1>3, <1>4 DEF Firsts

\* Writing has come to e after k bytes, reading to d after the letters of them:
\* what has been read is what was written, but for the byte that is divided.
Divided(e, d, a) ==
    \/ e.bits = 3 /\ d.bits = 5 /\ Carried(e.value, d.value, 8, 32, a)
    \/ e.bits = 1 /\ d.bits = 7 /\ Carried(e.value, d.value, 2, 128, a)
    \/ e.bits = 4 /\ d.bits = 4 /\ Carried(e.value, d.value, 16, 16, a)
    \/ e.bits = 2 /\ d.bits = 6 /\ Carried(e.value, d.value, 4, 64, a)
Paired(e, d, bytes, k) ==
    /\ Writing(e) /\ d.value \in Word
    /\ \/ e.bits = 0 /\ d.bits = 0 /\ d.out = Firsts(bytes, k)
       \/ k > 0 /\ d.out = Firsts(bytes, k - 1) /\ Divided(e, d, bytes[k])

\* The letters that one more byte gives take the reader to where the writer is.
Reads(e, e1, d, bytes, k) ==
    \/ \E p : /\ WithOne(e.out, e1.out, p)
              /\ Paired(e1, Totp!DecodeLetter(d, p), bytes, k)
    \/ \E p, q : /\ WithTwo(e.out, e1.out, p, q)
                 /\ Paired(e1, Totp!DecodeLetter(Totp!DecodeLetter(d, p), q), bytes, k)

Bytes(bytes, n) == n \in Nat /\ \A i \in 1 .. n : bytes[i] \in Byte

LEMMA FreshRead ==
    ASSUME NEW bytes, NEW n, Bytes(bytes, n), NEW k \in Nat, k + 1 <= n,
           NEW e, Writing(e), NEW d, d.value \in Word,
           e.bits = 0, d.bits = 0, d.out = Firsts(bytes, k),
           NEW e1, e1 = Totp!EncodeByte(e, bytes[k + 1])
    PROVE  Reads(e, e1, d, bytes, k + 1)
<1>1. PICK b : b = bytes[k + 1] /\ b \in Byte
  BY DEF Bytes
<1>2. PICK v \in Word, p \in Digit :
        /\ NextByte(v, e.value, b) /\ e1.value = v /\ e1.bits = 3
        /\ LetterAt(p, v, 8) /\ WithOne(e.out, e1.out, p)
  BY <1>1, ByteWritten DEF WroteOne
<1>3. PICK d1 : d1 = Totp!DecodeLetter(d, p)
  OBVIOUS
<1>4. Writing(e1)
  BY <1>2 DEF Writing, WithOne
<1>5. k + 1 > 0 /\ k + 1 - 1 = k
  OBVIOUS
<1>6. Paired(e1, d1, bytes, k + 1)
  BY <1>1, <1>2, <1>3, <1>4, <1>5, FreshLetters, LetterRead DEF Paired, Divided, Writing,
     Waits
<1> QED  BY <1>2, <1>3, <1>6 DEF Reads

LEMMA FirstRead ==
    ASSUME NEW bytes, NEW n, Bytes(bytes, n), NEW k \in Nat \ {0}, k + 1 <= n,
           NEW e, Writing(e), NEW d, d.value \in Word,
           e.bits = 3, d.bits = 5, d.out = Firsts(bytes, k - 1),
           Carried(e.value, d.value, 8, 32, bytes[k]),
           NEW e1, e1 = Totp!EncodeByte(e, bytes[k + 1])
    PROVE  Reads(e, e1, d, bytes, k + 1)
<1>1. PICK a, b : a = bytes[k] /\ a \in Byte /\ b = bytes[k + 1] /\ b \in Byte
  BY DEF Bytes
<1>2. WroteTwo(e, b, e1, 1, 64, 2)
  BY <1>1, ByteWritten
<1>3. PICK v \in Word, p \in Digit, q \in Digit :
        /\ NextByte(v, e.value, b) /\ e1.value = v /\ e1.bits = 1
        /\ LetterAt(p, v, 64) /\ LetterAt(q, v, 2) /\ WithTwo(e.out, e1.out, p, q)
  BY <1>2 DEF WroteTwo
<1>4. PICK d1, d2 : d1 = Totp!DecodeLetter(d, p) /\ d2 = Totp!DecodeLetter(d1, q)
  OBVIOUS
<1>5. Completes(d, p, d1, 2, 4)
  BY <1>4, LetterRead
<1>6. /\ NextLetter(d1.value, d.value, p) /\ d1.bits = 2
      /\ d1.out = Append(d.out, (d1.value \div 4) % 256)
  BY <1>5 DEF Completes
<1>7. e.value \in Word /\ Carried(e.value, d.value, 8, 32, a)
  BY <1>1 DEF Writing
<1>8. Waits(d1, q, d2, 7)
  BY <1>4, <1>6, LetterRead
<1>9. NextLetter(d2.value, d1.value, q) /\ d2.bits = 7 /\ d2.out = d1.out
  BY <1>8 DEF Waits
<1>10. /\ d2.value \in Word /\ (d1.value \div 4) % 256 = a
       /\ Carried(v, d2.value, 2, 128, b)
  <2>1. PICK ev, dv, w, u : ev = e.value /\ dv = d.value /\ w = d1.value /\ u = d2.value
    OBVIOUS
  <2>2. /\ ev \in Word /\ dv \in Word /\ Carried(ev, dv, 8, 32, a)
        /\ NextByte(v, ev, b) /\ NextLetter(w, dv, p) /\ NextLetter(u, w, q)
    BY <1>3, <1>6, <1>7, <1>9, <2>1
  <2>3. u \in Word /\ (w \div 4) % 256 = a /\ Carried(v, u, 2, 128, b)
    BY <1>1, <1>3, <2>2, FirstLetters
  <2> QED  BY <2>1, <2>3
<1>11. d1.out = Firsts(bytes, k)
  <2>1. PICK j \in Nat : j = k - 1 /\ j + 1 = k
    OBVIOUS
  <2>2. \A i \in 1 .. j + 1 : bytes[i] \in Byte
    BY <2>1 DEF Bytes
  <2>3. Append(Firsts(bytes, j), a) = Firsts(bytes, j + 1)
    BY <1>1, <2>1, <2>2, FirstsMore
  <2> QED  BY <1>6, <1>10, <2>1, <2>3
<1>12. Writing(e1)
  BY <1>3 DEF Writing, WithTwo
<1>13. Divided(e1, d2, b)
  BY <1>3, <1>6, <1>9, <1>10 DEF Divided
<1>14. k + 1 > 0 /\ k + 1 - 1 = k
  OBVIOUS
<1>15. Paired(e1, d2, bytes, k + 1)
  BY <1>1, <1>9, <1>10, <1>11, <1>12, <1>13, <1>14 DEF Paired
<1> QED  BY <1>3, <1>4, <1>15 DEF Reads

LEMMA SecondRead ==
    ASSUME NEW bytes, NEW n, Bytes(bytes, n), NEW k \in Nat \ {0}, k + 1 <= n,
           NEW e, Writing(e), NEW d, d.value \in Word,
           e.bits = 1, d.bits = 7, d.out = Firsts(bytes, k - 1),
           Carried(e.value, d.value, 2, 128, bytes[k]),
           NEW e1, e1 = Totp!EncodeByte(e, bytes[k + 1])
    PROVE  Reads(e, e1, d, bytes, k + 1)
<1>1. PICK a, b : a = bytes[k] /\ a \in Byte /\ b = bytes[k + 1] /\ b \in Byte
  BY DEF Bytes
<1>2. PICK v \in Word, p \in Digit :
        /\ NextByte(v, e.value, b) /\ e1.value = v /\ e1.bits = 4
        /\ LetterAt(p, v, 16) /\ WithOne(e.out, e1.out, p)
  BY <1>1, ByteWritten DEF WroteOne
<1>3. PICK d1 : d1 = Totp!DecodeLetter(d, p)
  OBVIOUS
<1>4. Completes(d, p, d1, 4, 16)
  BY <1>3, LetterRead
<1>5. /\ NextLetter(d1.value, d.value, p) /\ d1.bits = 4
      /\ d1.out = Append(d.out, (d1.value \div 16) % 256)
  BY <1>4 DEF Completes
<1>6. /\ d1.value \in Word /\ (d1.value \div 16) % 256 = a
       /\ Carried(v, d1.value, 16, 16, b)
  BY <1>1, <1>2, <1>5, SecondLetters DEF Writing
<1>7. d1.out = Firsts(bytes, k)
  <2>1. PICK j \in Nat : j = k - 1 /\ j + 1 = k
    OBVIOUS
  <2>2. \A i \in 1 .. j + 1 : bytes[i] \in Byte
    BY <2>1 DEF Bytes
  <2>3. Append(Firsts(bytes, j), a) = Firsts(bytes, j + 1)
    BY <1>1, <2>1, <2>2, FirstsMore
  <2> QED  BY <1>5, <1>6, <2>1, <2>3
<1>8. Writing(e1)
  BY <1>2 DEF Writing, WithOne
<1> QED  BY <1>1, <1>2, <1>3, <1>5, <1>6, <1>7, <1>8 DEF Reads, Paired, Divided

LEMMA ThirdRead ==
    ASSUME NEW bytes, NEW n, Bytes(bytes, n), NEW k \in Nat \ {0}, k + 1 <= n,
           NEW e, Writing(e), NEW d, d.value \in Word,
           e.bits = 4, d.bits = 4, d.out = Firsts(bytes, k - 1),
           Carried(e.value, d.value, 16, 16, bytes[k]),
           NEW e1, e1 = Totp!EncodeByte(e, bytes[k + 1])
    PROVE  Reads(e, e1, d, bytes, k + 1)
<1>1. PICK a, b : a = bytes[k] /\ a \in Byte /\ b = bytes[k + 1] /\ b \in Byte
  BY DEF Bytes
<1>2. WroteTwo(e, b, e1, 2, 128, 4)
  BY <1>1, ByteWritten
<1>3. PICK v \in Word, p \in Digit, q \in Digit :
        /\ NextByte(v, e.value, b) /\ e1.value = v /\ e1.bits = 2
        /\ LetterAt(p, v, 128) /\ LetterAt(q, v, 4) /\ WithTwo(e.out, e1.out, p, q)
  BY <1>2 DEF WroteTwo
<1>4. PICK d1, d2 : d1 = Totp!DecodeLetter(d, p) /\ d2 = Totp!DecodeLetter(d1, q)
  OBVIOUS
<1>5. Completes(d, p, d1, 1, 2)
  BY <1>4, LetterRead
<1>6. /\ NextLetter(d1.value, d.value, p) /\ d1.bits = 1
      /\ d1.out = Append(d.out, (d1.value \div 2) % 256)
  BY <1>5 DEF Completes
<1>7. e.value \in Word /\ Carried(e.value, d.value, 16, 16, a)
  BY <1>1 DEF Writing
<1>8. Waits(d1, q, d2, 6)
  BY <1>4, <1>6, LetterRead
<1>9. NextLetter(d2.value, d1.value, q) /\ d2.bits = 6 /\ d2.out = d1.out
  BY <1>8 DEF Waits
<1>10. /\ d2.value \in Word /\ (d1.value \div 2) % 256 = a
       /\ Carried(v, d2.value, 4, 64, b)
  BY <1>1, <1>3, <1>6, <1>7, <1>9, ThirdLetters
<1>11. d1.out = Firsts(bytes, k)
  <2>1. PICK j \in Nat : j = k - 1 /\ j + 1 = k
    OBVIOUS
  <2>2. \A i \in 1 .. j + 1 : bytes[i] \in Byte
    BY <2>1 DEF Bytes
  <2>3. Append(Firsts(bytes, j), a) = Firsts(bytes, j + 1)
    BY <1>1, <2>1, <2>2, FirstsMore
  <2> QED  BY <1>6, <1>10, <2>1, <2>3
<1>12. Writing(e1)
  BY <1>3 DEF Writing, WithTwo
<1>13. Divided(e1, d2, b)
  BY <1>3, <1>6, <1>9, <1>10 DEF Divided
<1>14. k + 1 > 0 /\ k + 1 - 1 = k
  OBVIOUS
<1>15. Paired(e1, d2, bytes, k + 1)
  BY <1>1, <1>9, <1>10, <1>11, <1>12, <1>13, <1>14 DEF Paired
<1> QED  BY <1>3, <1>4, <1>15 DEF Reads

LEMMA FourthRead ==
    ASSUME NEW bytes, NEW n, Bytes(bytes, n), NEW k \in Nat \ {0}, k + 1 <= n,
           NEW e, Writing(e), NEW d, d.value \in Word,
           e.bits = 2, d.bits = 6, d.out = Firsts(bytes, k - 1),
           Carried(e.value, d.value, 4, 64, bytes[k]),
           NEW e1, e1 = Totp!EncodeByte(e, bytes[k + 1])
    PROVE  Reads(e, e1, d, bytes, k + 1)
<1>1. PICK a, b : a = bytes[k] /\ a \in Byte /\ b = bytes[k + 1] /\ b \in Byte
  BY DEF Bytes
<1>2. WroteTwo(e, b, e1, 0, 32, 1)
  BY <1>1, ByteWritten
<1>3. PICK v \in Word, p \in Digit, q \in Digit :
        /\ NextByte(v, e.value, b) /\ e1.value = v /\ e1.bits = 0
        /\ LetterAt(p, v, 32) /\ LetterAt(q, v, 1) /\ WithTwo(e.out, e1.out, p, q)
  BY <1>2 DEF WroteTwo
<1>4. PICK d1, d2 : d1 = Totp!DecodeLetter(d, p) /\ d2 = Totp!DecodeLetter(d1, q)
  OBVIOUS
<1>5. Completes(d, p, d1, 3, 8)
  BY <1>4, LetterRead
<1>6. /\ NextLetter(d1.value, d.value, p) /\ d1.bits = 3
      /\ d1.out = Append(d.out, (d1.value \div 8) % 256)
  BY <1>5 DEF Completes
<1>7. e.value \in Word /\ Carried(e.value, d.value, 4, 64, a)
  BY <1>1 DEF Writing
<1>8. Completes(d1, q, d2, 0, 1)
  BY <1>4, <1>6, LetterRead
<1>9. /\ NextLetter(d2.value, d1.value, q) /\ d2.bits = 0
      /\ d2.out = Append(d1.out, (d2.value \div 1) % 256)
  BY <1>8 DEF Completes
<1>10. /\ d2.value \in Word /\ (d1.value \div 8) % 256 = a
       /\ (d2.value \div 1) % 256 = b
  BY <1>1, <1>3, <1>6, <1>7, <1>9, FourthLetters
<1>11. d1.out = Firsts(bytes, k)
  <2>1. PICK j \in Nat : j = k - 1 /\ j + 1 = k
    OBVIOUS
  <2>2. \A i \in 1 .. j + 1 : bytes[i] \in Byte
    BY <2>1 DEF Bytes
  <2>3. Append(Firsts(bytes, j), a) = Firsts(bytes, j + 1)
    BY <1>1, <2>1, <2>2, FirstsMore
  <2> QED  BY <1>6, <1>10, <2>1, <2>3
<1>12. Writing(e1)
  BY <1>3 DEF Writing, WithTwo
<1>13. d2.out = Firsts(bytes, k + 1)
  <2>1. \A i \in 1 .. k + 1 : bytes[i] \in Byte
    BY DEF Bytes
  <2>2. Append(Firsts(bytes, k), b) = Firsts(bytes, k + 1)
    BY <1>1, <2>1, FirstsMore
  <2> QED  BY <1>9, <1>10, <1>11, <2>2
<1>14. Paired(e1, d2, bytes, k + 1)
  BY <1>3, <1>9, <1>10, <1>12, <1>13 DEF Paired
<1> QED  BY <1>3, <1>4, <1>14 DEF Reads

LEMMA ByteRead ==
    ASSUME NEW bytes, NEW n, Bytes(bytes, n), NEW k \in Nat, k + 1 <= n,
           NEW e, NEW d, Paired(e, d, bytes, k),
           NEW e1, e1 = Totp!EncodeByte(e, bytes[k + 1])
    PROVE  Reads(e, e1, d, bytes, k + 1)
<1>1. Writing(e) /\ d.value \in Word
  BY DEF Paired
<1>2. CASE e.bits = 0 /\ d.bits = 0 /\ d.out = Firsts(bytes, k)
  BY <1>1, <1>2, FreshRead
<1>3. CASE k > 0 /\ d.out = Firsts(bytes, k - 1) /\ Divided(e, d, bytes[k])
  <2>1. k \in Nat \ {0}
    BY <1>3
  <2>2. CASE e.bits = 3 /\ d.bits = 5 /\ Carried(e.value, d.value, 8, 32, bytes[k])
    BY <1>1, <1>3, <2>1, <2>2, FirstRead
  <2>3. CASE e.bits = 1 /\ d.bits = 7 /\ Carried(e.value, d.value, 2, 128, bytes[k])
    BY <1>1, <1>3, <2>1, <2>3, SecondRead
  <2>4. CASE e.bits = 4 /\ d.bits = 4 /\ Carried(e.value, d.value, 16, 16, bytes[k])
    BY <1>1, <1>3, <2>1, <2>4, ThirdRead
  <2>5. CASE e.bits = 2 /\ d.bits = 6 /\ Carried(e.value, d.value, 4, 64, bytes[k])
    BY <1>1, <1>3, <2>1, <2>5, FourthRead
  <2> QED  BY <1>3, <2>2, <2>3, <2>4, <2>5 DEF Divided
<1> QED  BY <1>2, <1>3 DEF Paired

\* The letter that takes the bits left over completes the last byte.
LEMMA LastRead ==
    ASSUME NEW bytes, NEW n, Bytes(bytes, n), n > 0,
           NEW e, NEW d, Writing(e), d.value \in Word, d.out = Firsts(bytes, n - 1),
           Divided(e, d, bytes[n]), NEW p, p = Padding(e)
    PROVE  p \in Digit /\ Totp!DecodeLetter(d, p).out = Firsts(bytes, n)
<1>1. PICK a : a = bytes[n] /\ a \in Byte
  BY DEF Bytes
<1>2. PICK d1 : d1 = Totp!DecodeLetter(d, p)
  OBVIOUS
<1>3. PICK ev \in Word : ev = e.value
  BY DEF Writing
<1>4. 2 ^ 1 = 2 /\ 2 ^ 2 = 4 /\ 2 ^ 3 = 8 /\ 2 ^ 4 = 16
  OBVIOUS
<1>5. \A x \in Int : x \div 1 = x
  OBVIOUS
<1>6. ASSUME e.bits = 3, d.bits = 5, Carried(e.value, d.value, 8, 32, a)
      PROVE  p \in Digit /\ d1.out = Append(d.out, a)
  <2>1. p = (e.value * 4) % 32
    <3>1. PICK z : z = 2 ^ (5 - e.bits)
      OBVIOUS
    <3>2. p = (e.value * z) % 32
      BY <3>1, Zenon DEF Padding
    <3> QED  BY <1>4, <1>6, <3>1, <3>2
  <2>2. PICK x \in Int : x = ev * 4
    BY DEF Word
  <2>3. LetterAt(p, ev * 4, 1)
    BY <1>3, <1>5, <2>1, <2>2 DEF LetterAt
  <2> QED  BY <1>1, <1>2, <1>3, <1>6, <2>3, FirstLast, LetterRead DEF Completes
<1>7. ASSUME e.bits = 1, d.bits = 7, Carried(e.value, d.value, 2, 128, a)
      PROVE  p \in Digit /\ d1.out = Append(d.out, a)
  <2>1. p = (e.value * 16) % 32
    <3>1. PICK z : z = 2 ^ (5 - e.bits)
      OBVIOUS
    <3>2. p = (e.value * z) % 32
      BY <3>1, Zenon DEF Padding
    <3> QED  BY <1>4, <1>7, <3>1, <3>2
  <2>2. PICK x \in Int : x = ev * 16
    BY DEF Word
  <2>3. LetterAt(p, ev * 16, 1)
    BY <1>3, <1>5, <2>1, <2>2 DEF LetterAt
  <2> QED  BY <1>1, <1>2, <1>3, <1>7, <2>3, SecondLast, LetterRead DEF Completes
<1>8. ASSUME e.bits = 4, d.bits = 4, Carried(e.value, d.value, 16, 16, a)
      PROVE  p \in Digit /\ d1.out = Append(d.out, a)
  <2>1. p = (e.value * 2) % 32
    <3>1. PICK z : z = 2 ^ (5 - e.bits)
      OBVIOUS
    <3>2. p = (e.value * z) % 32
      BY <3>1, Zenon DEF Padding
    <3> QED  BY <1>4, <1>8, <3>1, <3>2
  <2>2. PICK x \in Int : x = ev * 2
    BY DEF Word
  <2>3. LetterAt(p, ev * 2, 1)
    BY <1>3, <1>5, <2>1, <2>2 DEF LetterAt
  <2> QED  BY <1>1, <1>2, <1>3, <1>8, <2>3, ThirdLast, LetterRead DEF Completes
<1>9. ASSUME e.bits = 2, d.bits = 6, Carried(e.value, d.value, 4, 64, a)
      PROVE  p \in Digit /\ d1.out = Append(d.out, a)
  <2>1. p = (e.value * 8) % 32
    <3>1. PICK z : z = 2 ^ (5 - e.bits)
      OBVIOUS
    <3>2. p = (e.value * z) % 32
      BY <3>1, Zenon DEF Padding
    <3> QED  BY <1>4, <1>9, <3>1, <3>2
  <2>2. PICK x \in Int : x = ev * 8
    BY DEF Word
  <2>3. LetterAt(p, ev * 8, 1)
    BY <1>3, <1>5, <2>1, <2>2 DEF LetterAt
  <2>4. Completes(d, p, d1, 3, 8)
    BY <1>2, <1>9, LetterRead
  <2> QED  BY <1>1, <1>3, <1>9, <2>3, <2>4, FourthLast DEF Completes
<1>10. PICK j \in Nat : j = n - 1 /\ j + 1 = n
  BY DEF Bytes
<1> QED  BY <1>1, <1>2, <1>6, <1>7, <1>8, <1>9, <1>10, FirstsMore DEF Bytes, Divided

\* The letters begin with s.
StartsWith(s, letters, m) ==
    /\ s \in Seq(Digit) /\ Len(s) \in 0 .. m
    /\ \A j \in 1 .. Len(s) : s[j] = letters[j]

Left0To4(e) == Writing(e) /\ e.bits \in 0 .. 4

\* After a byte the writer has one letter more, or two.
LEMMA WrittenOn ==
    ASSUME NEW e, Left0To4(e), NEW b \in Byte, NEW e1, e1 = Totp!EncodeByte(e, b)
    PROVE  /\ Left0To4(e1)
           /\ (\E p \in Digit : WithOne(e.out, e1.out, p))
                \/ \E p, q \in Digit : WithTwo(e.out, e1.out, p, q)
<1>1. Writing(e) /\ e.bits \in {0, 1, 2, 3, 4}
  BY DEF Left0To4
<1>2. ASSUME NEW bits \in 0 .. 4, NEW k, WroteOne(e, b, e1, bits, k)
      PROVE  Left0To4(e1) /\ \E p \in Digit : WithOne(e.out, e1.out, p)
  BY <1>2 DEF WroteOne, WithOne, Left0To4, Writing
<1>3. ASSUME NEW bits \in 0 .. 4, NEW k, NEW l, WroteTwo(e, b, e1, bits, k, l)
      PROVE  Left0To4(e1) /\ \E p, q \in Digit : WithTwo(e.out, e1.out, p, q)
  BY <1>3 DEF WroteTwo, WithTwo, Left0To4, Writing
<1> QED  BY <1>1, <1>2, <1>3, ByteWritten

\* The writer has come to e, the reader of letters to r at the end of e's letters.
ReaderFollows(e, r, letters, m, bytes, k) ==
    Left0To4(e) /\ (StartsWith(e.out, letters, m) => Paired(e, r[Len(e.out)], bytes, k))

LEMMA FollowsOne ==
    ASSUME NEW m, NEW letters, NEW r, Runs(r, Decoding, NoBits, letters, m),
           NEW s, s \in Seq(Digit), NEW s1, NEW p, WithOne(s, s1, p), StartsWith(s1, letters, m)
    PROVE  StartsWith(s, letters, m) /\ r[Len(s1)] = Totp!DecodeLetter(r[Len(s)], p)
<1>1. PICK l : l = Len(s) /\ l \in Nat
  BY LenProperties
<1>2. /\ Len(s1) = l + 1 /\ s1[l + 1] = p
      /\ \A j \in 1 .. l : s1[j] = s[j]
  BY <1>1 DEF WithOne
<1>3. l + 1 \in 0 .. m /\ \A j \in 1 .. l + 1 : s1[j] = letters[j]
  BY <1>2 DEF StartsWith
<1>4. m \in Nat /\ \A k \in 1 .. m : r[k] = Step(Decoding, r[k - 1], letters[k])
  BY DEF Runs
<1>5. l + 1 \in 1 .. m /\ l + 1 - 1 = l /\ letters[l + 1] = p
  BY <1>1, <1>2, <1>3, <1>4
<1>6. r[l + 1] = Step(Decoding, r[l], p)
  <2>1. PICK i \in 1 .. m : i = l + 1 /\ i - 1 = l
    BY <1>1, <1>5
  <2>2. r[i] = Step(Decoding, r[i - 1], letters[i])
    BY <1>4
  <2> QED  BY <1>5, <2>1, <2>2
<1>7. r[l + 1] = Totp!DecodeLetter(r[l], p)
  BY <1>6 DEF Step, Decoding
<1>8. StartsWith(s, letters, m)
  BY <1>1, <1>2, <1>3, <1>4 DEF StartsWith
<1> QED  BY <1>1, <1>2, <1>7, <1>8

LEMMA FollowsTwo ==
    ASSUME NEW m, NEW letters, NEW r, Runs(r, Decoding, NoBits, letters, m),
           NEW s, s \in Seq(Digit), NEW s1, NEW p, NEW q, WithTwo(s, s1, p, q),
           StartsWith(s1, letters, m)
    PROVE  /\ StartsWith(s, letters, m)
           /\ r[Len(s1)] = Totp!DecodeLetter(Totp!DecodeLetter(r[Len(s)], p), q)
<1>1. PICK l : l = Len(s) /\ l \in Nat
  BY LenProperties
<1>2. /\ Len(s1) = l + 2 /\ s1[l + 1] = p /\ s1[l + 2] = q
      /\ \A j \in 1 .. l : s1[j] = s[j]
  BY <1>1 DEF WithTwo
<1>3. l + 2 \in 0 .. m /\ \A j \in 1 .. l + 2 : s1[j] = letters[j]
  BY <1>2 DEF StartsWith
<1>4. m \in Nat /\ \A k \in 1 .. m : r[k] = Step(Decoding, r[k - 1], letters[k])
  BY DEF Runs
<1>5. /\ l + 1 \in 1 .. m /\ l + 1 - 1 = l /\ letters[l + 1] = p
      /\ l + 2 \in 1 .. m /\ l + 2 - 1 = l + 1 /\ letters[l + 2] = q
  BY <1>1, <1>2, <1>3, <1>4
<1>6. r[l + 1] = Step(Decoding, r[l], p) /\ r[l + 2] = Step(Decoding, r[l + 1], q)
  <2>1. PICK i \in 1 .. m, j \in 1 .. m :
          i = l + 1 /\ i - 1 = l /\ j = l + 2 /\ j - 1 = l + 1
    BY <1>1, <1>5
  <2> QED  BY <1>4, <1>5, <2>1
<1> QED  BY <1>1, <1>2, <1>3, <1>4, <1>6 DEF Step, Decoding, StartsWith

LEMMA FollowsOn ==
    ASSUME NEW bytes, NEW n, Bytes(bytes, n), NEW k \in Nat, k + 1 <= n,
           NEW m, NEW letters, NEW r, Runs(r, Decoding, NoBits, letters, m),
           NEW e, ReaderFollows(e, r, letters, m, bytes, k),
           NEW e1, e1 = Totp!EncodeByte(e, bytes[k + 1])
    PROVE  ReaderFollows(e1, r, letters, m, bytes, k + 1)
<1>1. bytes[k + 1] \in Byte
  BY DEF Bytes
<1>2. Left0To4(e) /\ e.out \in Seq(Digit)
  BY DEF ReaderFollows, Left0To4, Writing
<1>3. ASSUME StartsWith(e1.out, letters, m)
      PROVE  Paired(e1, r[Len(e1.out)], bytes, k + 1)
  <2>1. PICK d : d = r[Len(e.out)]
    OBVIOUS
  <2>2. Paired(e, d, bytes, k)
    BY <1>1, <1>2, <1>3, <2>1, FollowsOne, FollowsTwo, WrittenOn DEF ReaderFollows
  <2>3. ASSUME NEW p, WithOne(e.out, e1.out, p),
               Paired(e1, Totp!DecodeLetter(d, p), bytes, k + 1)
        PROVE  Paired(e1, r[Len(e1.out)], bytes, k + 1)
    BY <1>2, <1>3, <2>1, <2>3, FollowsOne
  <2>4. ASSUME NEW p, NEW q, WithTwo(e.out, e1.out, p, q),
               Paired(e1, Totp!DecodeLetter(Totp!DecodeLetter(d, p), q), bytes, k + 1)
        PROVE  Paired(e1, r[Len(e1.out)], bytes, k + 1)
    BY <1>2, <1>3, <2>1, <2>4, FollowsTwo
  <2> QED  BY <2>2, <2>3, <2>4, ByteRead DEF Reads
<1> QED  BY <1>1, <1>2, <1>3, WrittenOn DEF ReaderFollows

LEMMA FollowsAlong ==
    ASSUME NEW bytes, NEW n, Bytes(bytes, n), NEW w, Runs(w, Encoding, NoBits, bytes, n),
           NEW m, NEW letters, NEW r, Runs(r, Decoding, NoBits, letters, m)
    PROVE  ReaderFollows(w[n], r, letters, m, bytes, n)
<1> DEFINE P(k) == ReaderFollows(w[k], r, letters, m, bytes, k)
           S == {k \in 0 .. n : ~P(k)}
<1>1. P(0)
  <2>1. PICK e : e = NoBits
    OBVIOUS
  <2>2. e.value = 0 /\ e.bits = 0 /\ e.out = <<>>
    BY <2>1 DEF NoBits
  <2>3. e.out \in Seq(Digit) /\ Len(e.out) = 0
    BY <2>2
  <2>4. 0 \in Word
    BY DEF Word
  <2>5. Writing(e) /\ Left0To4(e)
    BY <2>2, <2>3, <2>4 DEF Writing, Left0To4
  <2> QED  BY <2>1, <2>2, <2>3, <2>4, <2>5 DEF ReaderFollows, Runs, Paired, Firsts
<1>2. ASSUME NEW k \in Nat, k + 1 <= n, P(k) PROVE P(k + 1)
  <2>1. n \in Nat /\ \A j \in 1 .. n : w[j] = Step(Encoding, w[j - 1], bytes[j])
    BY DEF Runs
  <2> QED  BY <1>2, <2>1, FollowsOn DEF Step, Encoding
<1> HIDE DEF P
<1>3. n \in Nat
  BY DEF Runs
<1>4. ASSUME S # {} PROVE FALSE
  <2>1. S \in SUBSET Nat
    OBVIOUS
  <2>2. PICK k \in S : \A y \in S : k <= y
    BY <1>4, <2>1, Smallest
  <2> QED  BY <1>1, <1>2, <1>3, <2>2
<1> QED  BY <1>3, <1>4 DEF P

LEMMA PaddingIsADigit ==
    ASSUME NEW e, Left0To4(e), e.bits # 0
    PROVE  Padding(e) \in Digit
<1>1. 2 ^ 1 = 2 /\ 2 ^ 2 = 4 /\ 2 ^ 3 = 8 /\ 2 ^ 4 = 16
  OBVIOUS
<1>2. 5 - e.bits \in {1, 2, 3, 4}
  BY DEF Left0To4
<1>3. PICK z \in {2, 4, 8, 16} : z = 2 ^ (5 - e.bits)
  BY <1>1, <1>2
<1>4. PICK x \in Int : x = e.value * z
  <2>1. PICK v \in Word : v = e.value
    BY DEF Left0To4, Writing
  <2> QED  BY <2>1 DEF Word
<1>5. Padding(e) = x % 32
  BY <1>3, <1>4, Zenon DEF Padding
<1> QED  BY <1>5 DEF Digit

LEMMA FirstsAreAll ==
    ASSUME NEW bytes, NEW n, IsList(bytes, n)
    PROVE  Firsts(bytes, n) = bytes
BY DEF Firsts, IsList

\* A secret is read as it was generated.
LEMMA SecretIsRead ==
    ASSUME NEW bytes, NEW n, IsList(bytes, n), Bytes(bytes, n)
    PROVE  Totp!Base32Decode(Totp!Base32Encode(bytes)) = bytes
<1>1. PICK letters : letters = Totp!Base32Encode(bytes)
  OBVIOUS
<1>2. PICK w : Runs(w, Encoding, NoBits, bytes, n) /\ letters = Finished(w[n])
  BY <1>1, EncodeRuns
<1>3. PICK e : e = w[n]
  OBVIOUS
<1>4. ASSUME NEW m, NEW r, Runs(r, Decoding, NoBits, letters, m)
      PROVE  ReaderFollows(e, r, letters, m, bytes, n)
  BY <1>2, <1>3, <1>4, FollowsAlong
<1>5. Left0To4(e) /\ n \in Nat
  <2>1. PICK r : r = [k \in 0 .. 0 |-> NoBits]
    OBVIOUS
  <2>2. Runs(r, Decoding, NoBits, letters, 0)
    BY <2>1 DEF Runs
  <2> QED  BY <1>4, <2>2 DEF ReaderFollows, Bytes
<1>6. e.out \in Seq(Digit)
  BY <1>5 DEF Left0To4, Writing
<1>7. PICK l : l = Len(e.out) /\ l \in Nat
  BY <1>6, LenProperties
<1>8. PICK read : read = Totp!Base32Decode(letters)
  OBVIOUS
<1>9. CASE e.bits = 0
  <2>1. letters = e.out
    BY <1>2, <1>3, <1>9 DEF Finished
  <2>2. PICK r : Runs(r, Decoding, NoBits, letters, l) /\ read = r[l].out
    BY <1>6, <1>7, <1>8, <2>1, DecodeRuns, LenProperties DEF IsList
  <2>3. r[l].out = Firsts(bytes, n)
    BY <1>4, <1>6, <1>7, <1>9, <2>1, <2>2 DEF Paired, Divided, ReaderFollows, StartsWith
  <2> QED  BY <1>1, <1>8, <2>2, <2>3, FirstsAreAll
<1>10. CASE e.bits # 0
  <2>1. PICK p : p = Padding(e) /\ p \in Digit
    BY <1>5, <1>10, PaddingIsADigit
  <2>2. WithOne(e.out, letters, p)
    BY <1>2, <1>3, <1>6, <1>10, <2>1, OneLetter DEF Finished
  <2>3. letters \in Seq(Digit) /\ Len(letters) = l + 1 /\ l + 1 \in Nat
    BY <1>7, <2>2 DEF WithOne
  <2>4. PICK r : Runs(r, Decoding, NoBits, letters, l + 1) /\ read = r[l + 1].out
    BY <1>8, <2>3, DecodeRuns DEF IsList
  <2>5. StartsWith(e.out, letters, l + 1) /\ r[l + 1] = Totp!DecodeLetter(r[l], p)
    BY <1>6, <1>7, <2>2, <2>3, <2>4, FollowsOne DEF StartsWith
  <2>6. Totp!DecodeLetter(r[l], p).out = Firsts(bytes, n)
    BY <1>4, <1>7, <1>10, <2>1, <2>4, <2>5, LastRead DEF Paired, ReaderFollows
  <2> QED  BY <1>1, <1>8, <2>4, <2>5, <2>6, FirstsAreAll
<1> QED  BY <1>9, <1>10

\* The window of a code: a period on either side.
LEMMA CodeIsAccepted ==
    ASSUME NEW clock \in Int, NEW skew \in Int,
           NEW accepted, accepted = Totp!VerifyCode(Totp!CodeAt(clock + skew), clock)
    PROVE  /\ -30 <= skew /\ skew <= 30 => accepted
           /\ skew <= -60 \/ skew >= 60 => ~accepted
<1>1. PICK later \in Int, now \in Int : later = (clock + skew) \div 30 /\ now = clock \div 30
  OBVIOUS
<1>2. 30 * now <= clock /\ clock < 30 * now + 30
  BY <1>1
<1>3. 30 * later <= clock + skew /\ clock + skew < 30 * later + 30
  BY <1>1
<1>4. ASSUME -30 <= skew, skew <= 30 PROVE later - now \in -1 .. 1
  BY <1>2, <1>3, <1>4
<1>5. ASSUME skew <= -60 \/ skew >= 60 PROVE later - now \notin -1 .. 1
  BY <1>2, <1>3, <1>5
<1> QED  BY <1>1, <1>4, <1>5 DEF Totp!VerifyCode, Totp!CodeAt, Totp!Period

-----------------------------------------------------------------------------
(* What is written: pieces one after the other *)

Piece(at, text, parts, k, D) ==
    /\ parts[k] \in Seq(D) /\ at[k] = at[k - 1] + Len(parts[k])
    /\ \A j \in 1 .. Len(parts[k]) : text[at[k - 1] + j] = parts[k][j]

\* The k-th piece begins after the at[k - 1]-th character of the text.
Laid(at, text, parts, n, D) ==
    /\ n \in Nat /\ text \in Seq(D) /\ at[0] = 0 /\ at[n] = Len(text)
    /\ \A k \in 0 .. n : at[k] \in Nat /\ at[k] <= Len(text)
    /\ \A k \in 1 .. n : Piece(at, text, parts, k, D)

Flattens(f, parts, n) ==
    f = [i \in 1 .. n |-> IF i = 1 THEN parts[i] ELSE f[i - 1] \o parts[i]]

LEMMA FlattensMore ==
    ASSUME NEW parts, NEW k \in Nat, NEW f, Flattens(f, parts, k)
    PROVE  \E g : Flattens(g, parts, k + 1)
<1> DEFINE last == IF k + 1 = 1 THEN parts[k + 1] ELSE f[k] \o parts[k + 1]
           g == [i \in 1 .. k + 1 |-> IF i = k + 1 THEN last ELSE f[i]]
           body(i) == IF i = 1 THEN parts[i] ELSE g[i - 1] \o parts[i]
<1>1. \A i \in 1 .. k : f[i] = IF i = 1 THEN parts[i] ELSE f[i - 1] \o parts[i]
  BY DEF Flattens
<1>2. ASSUME NEW i \in 1 .. k + 1 PROVE g[i] = body(i)
  <2>1. CASE i = k + 1
    <3>1. g[i] = last
      BY <2>1
    <3>2. CASE i = 1
      BY <2>1, <3>1, <3>2
    <3>3. CASE i # 1
      <4>1. g[i - 1] = f[k]
        BY <2>1, <3>3
      <4> HIDE DEF g
      <4> QED  BY <2>1, <3>1, <3>3, <4>1
    <3> QED  BY <3>2, <3>3
  <2>2. CASE i # k + 1
    <3>1. i \in 1 .. k /\ g[i] = f[i]
      BY <2>2
    <3>2. CASE i = 1
      BY <1>1, <3>1, <3>2
    <3>3. CASE i # 1
      <4>1. g[i - 1] = f[i - 1]
        BY <3>1, <3>3
      <4> HIDE DEF g
      <4> QED  BY <1>1, <3>1, <3>3, <4>1
    <3> QED  BY <3>2, <3>3
  <2> QED  BY <2>1, <2>2
<1>3. g = [i \in 1 .. k + 1 |-> g[i]]
  OBVIOUS
<1>4. g = [i \in 1 .. k + 1 |-> body(i)]
  <2> HIDE DEF g, body
  <2> QED  BY <1>2, <1>3
<1> QED  BY <1>4 DEF Flattens

LEMMA FlattensExists ==
    ASSUME NEW parts, NEW n \in Nat
    PROVE  \E f : Flattens(f, parts, n)
<1> DEFINE P(k) == \E f : Flattens(f, parts, k)
           S == {k \in Nat : ~P(k)}
<1>1. P(0)
  <2> DEFINE f == [i \in {} |-> <<>>]
  <2> QED  BY DEF Flattens
<1>2. \A k \in Nat : P(k) => P(k + 1)
  BY FlattensMore
<1> HIDE DEF P
<1>3. ASSUME S # {} PROVE FALSE
  <2>1. PICK k \in S : \A y \in S : k <= y
    BY <1>3, Smallest
  <2> QED  BY <1>1, <1>2, <2>1
<1> QED  BY <1>3 DEF P

LEMMA LaidMore ==
    ASSUME NEW D, NEW at, NEW text, NEW parts, NEW k \in Nat, Laid(at, text, parts, k, D),
           parts[k + 1] \in Seq(D), NEW t, t = text \o parts[k + 1], at[k + 1] = Len(t)
    PROVE  Laid(at, t, parts, k + 1, D)
<1>1. PICK p, l, m : p = parts[k + 1] /\ l = Len(text) /\ m = Len(p)
  OBVIOUS
<1>2. text \in Seq(D) /\ p \in Seq(D)
  BY <1>1 DEF Laid
<1>3. l \in Nat /\ m \in Nat
  BY <1>1, <1>2, LenProperties
<1>4. /\ t \in Seq(D) /\ Len(t) = l + m
      /\ \A i \in 1 .. l + m : t[i] = IF i <= l THEN text[i] ELSE p[i - l]
  BY <1>1, <1>2, ConcatProperties
<1>5. /\ at[0] = 0 /\ at[k] = l
      /\ \A j \in 0 .. k : at[j] \in Nat /\ at[j] <= l
      /\ \A j \in 1 .. k : Piece(at, text, parts, j, D)
  BY <1>1 DEF Laid
<1>6. at[k + 1] = l + m
  BY <1>4
<1>7. \A j \in 0 .. k + 1 : at[j] \in Nat /\ at[j] <= l + m
  <2>1. ASSUME NEW j \in 0 .. k + 1, j # k + 1 PROVE at[j] \in Nat /\ at[j] <= l + m
    <3>1. j \in 0 .. k
      BY <2>1
    <3>2. at[j] \in Nat /\ at[j] <= l
      BY <1>5, <3>1
    <3> QED  BY <1>3, <3>2
  <2>2. at[k + 1] \in Nat /\ at[k + 1] <= l + m
    BY <1>3, <1>6
  <2> QED  BY <2>1, <2>2
<1>8. ASSUME NEW j \in 1 .. k + 1
      PROVE  Piece(at, t, parts, j, D)
  <2>1. ASSUME j # k + 1
        PROVE  Piece(at, t, parts, j, D)
    <3>1. j \in 1 .. k /\ j - 1 \in 0 .. k /\ j \in 0 .. k
      BY <2>1
    <3>2. PICK a, c : a = at[j - 1] /\ c = Len(parts[j])
      OBVIOUS
    <3>3. /\ parts[j] \in Seq(D) /\ at[j] = a + c
          /\ \A i \in 1 .. c : text[a + i] = parts[j][i]
      BY <1>5, <3>1, <3>2 DEF Piece
    <3>4. a \in Nat /\ a + c <= l /\ c \in Nat
      <4>1. at[j - 1] \in Nat
        BY <1>5, <3>1
      <4>2. at[j] <= l
        BY <1>5, <3>1
      <4>3. Len(parts[j]) \in Nat
        BY <3>3, LenProperties
      <4> QED  BY <3>2, <3>3, <4>1, <4>2, <4>3
    <3>5. \A i \in 1 .. c : a + i \in 1 .. l + m /\ a + i <= l
      BY <1>3, <3>4
    <3>6. \A i \in 1 .. c : t[a + i] = parts[j][i]
      BY <1>4, <3>3, <3>5
    <3> QED  BY <3>2, <3>3, <3>6 DEF Piece
  <2>2. ASSUME j = k + 1
        PROVE  Piece(at, t, parts, j, D)
    <3>1. j - 1 = k /\ parts[j] = p /\ at[j] = l + m /\ at[j - 1] = l
      BY <1>1, <1>5, <1>6, <2>2
    <3>3. ASSUME NEW i \in 1 .. m PROVE t[l + i] = p[i]
      <4>1. PICK y \in 1 .. l + m : y = l + i /\ ~(y <= l) /\ y - l = i
        BY <1>3
      <4>2. t[y] = p[y - l]
        BY <1>4, <4>1
      <4> QED  BY <4>1, <4>2
    <3> QED  BY <1>1, <1>2, <3>1, <3>3 DEF Piece
  <2> QED  BY <2>1, <2>2
<1> QED  BY <1>4, <1>5, <1>6, <1>7, <1>8 DEF Laid

LEMMA FlatLaid ==
    ASSUME NEW D, NEW n, NEW parts, IsList(parts, n), \A k \in 1 .. n : parts[k] \in Seq(D),
           NEW text, text = FlattenSeq(parts)
    PROVE  \E at : Laid(at, text, parts, n, D)
<1>1. n \in Nat /\ DOMAIN parts = 1 .. n /\ parts \in Seq(Seq(D)) /\ Len(parts) = n
  <2>1. n \in Nat /\ parts = [k \in 1 .. n |-> parts[k]]
    BY DEF IsList
  <2> QED  BY <2>1
<1>2. PICK f : f = CHOOSE g : Flattens(g, parts, n)
  OBVIOUS
<1>3. Flattens(f, parts, n)
  BY <1>1, <1>2, FlattensExists
<1>4. n = 0 => text = <<>>
  BY <1>1 DEF FlattenSeq
<1>5. n # 0 => text = f[n]
  <2>1. n # 0 => text = (CHOOSE g : Flattens(g, parts, Len(parts)))[Len(parts)]
    BY <1>1, Zenon DEF FlattenSeq, Flattens
  <2> QED  BY <1>1, <1>2, <2>1
<1>6. PICK h : h = [k \in 0 .. n |-> IF k = 0 THEN <<>> ELSE f[k]]
  OBVIOUS
<1>7. PICK at : at = [k \in 0 .. n |-> Len(h[k])]
  OBVIOUS
<1>8. \A k \in 1 .. n : f[k] = IF k = 1 THEN parts[k] ELSE f[k - 1] \o parts[k]
  BY <1>3 DEF Flattens
<1>9. text = h[n]
  BY <1>1, <1>4, <1>5, <1>6
<1>10. ASSUME NEW k \in Nat, k + 1 \in 1 .. n
       PROVE  h[k + 1] = h[k] \o parts[k + 1]
  <2>1. h[k + 1] = f[k + 1]
    BY <1>1, <1>6, <1>10
  <2>2. CASE k = 0
    <3>1. h[k] = <<>> /\ f[k + 1] = parts[k + 1]
      <4>1. k + 1 = 1 /\ 1 \in 1 .. n /\ 0 \in 0 .. n
        BY <1>1, <1>10, <2>2
      <4>2. f[1] = parts[1] /\ h[0] = <<>>
        BY <1>6, <1>8, <4>1
      <4> QED  BY <2>2, <4>1, <4>2
    <3>2. parts[k + 1] \in Seq(D)
      BY <1>10
    <3> QED  BY <2>1, <3>1, <3>2, ConcatEmptySeq
  <2>3. CASE k # 0
    <3>1. k + 1 # 1 /\ k + 1 - 1 = k /\ k \in 0 .. n
      BY <1>1, <1>10, <2>3
    <3>2. h[k] = f[k]
      BY <1>6, <2>3, <3>1
    <3>3. PICK i \in 1 .. n : i = k + 1 /\ i # 1 /\ i - 1 = k
      BY <1>10, <3>1
    <3>4. f[i] = f[i - 1] \o parts[i]
      BY <1>8, <3>3
    <3> QED  BY <2>1, <3>2, <3>3, <3>4
  <2> QED  BY <2>2, <2>3
<1> DEFINE P(k) == Laid(at, h[k], parts, k, D)
           S == {k \in 0 .. n : ~P(k)}
<1>11. P(0)
  <2>1. h[0] = <<>> /\ at[0] = 0
    BY <1>1, <1>6, <1>7
  <2>2. h[0] \in Seq(D) /\ Len(h[0]) = 0
    BY <2>1
  <2>3. \A k \in 0 .. 0 : k = 0
    OBVIOUS
  <2>4. 1 .. 0 = {}
    OBVIOUS
  <2> QED  BY <2>1, <2>2, <2>3, <2>4 DEF Laid
<1>12. ASSUME NEW k \in Nat, k + 1 \in 1 .. n, P(k) PROVE P(k + 1)
  <2>1. PICK t : t = h[k + 1]
    OBVIOUS
  <2>2. t = h[k] \o parts[k + 1] /\ parts[k + 1] \in Seq(D)
    BY <1>10, <1>12, <2>1
  <2>3. at[k + 1] = Len(t)
    BY <1>7, <1>12, <2>1
  <2> QED  BY <1>12, <2>1, <2>2, <2>3, LaidMore
<1> HIDE DEF P
<1>13. ASSUME S # {} PROVE FALSE
  <2>1. S \in SUBSET Nat
    BY <1>1
  <2>2. PICK k \in S : \A y \in S : k <= y
    BY <1>13, <2>1, Smallest
  <2>3. k \in 0 .. n /\ ~P(k)
    BY <2>2
  <2>4. k # 0
    BY <1>11, <2>3
  <2>5. k - 1 \in Nat /\ k - 1 + 1 = k /\ k - 1 \in 0 .. n /\ ~(k <= k - 1) /\ k \in 1 .. n
    BY <1>1, <2>3, <2>4
  <2>6. P(k - 1)
    BY <2>2, <2>5
  <2> QED  BY <1>12, <2>3, <2>5, <2>6
<1>14. P(n)
  BY <1>1, <1>13
<1> QED  BY <1>9, <1>14 DEF P

\* The text holds s after its o-th character.
Holds(T, N, o, s, D) ==
    /\ N \in Nat /\ o \in Nat /\ s \in Seq(D) /\ o + Len(s) <= N
    /\ \A j \in 1 .. Len(s) : T[o + j] = s[j]

LEMMA HoldsPart ==
    ASSUME NEW D, NEW T, NEW N, NEW o, NEW s, Holds(T, N, o, s, D),
           NEW at, NEW parts, NEW n, Laid(at, s, parts, n, D), NEW k \in 1 .. n
    PROVE  Holds(T, N, o + at[k - 1], parts[k], D)
<1>1. PICK a, c, p : a = at[k - 1] /\ p = parts[k] /\ c = Len(p)
  OBVIOUS
<1>2. /\ a \in Nat /\ at[k] <= Len(s) /\ p \in Seq(D) /\ at[k] = a + c
      /\ \A j \in 1 .. c : s[a + j] = p[j]
  <2>1. a \in Nat /\ at[k] <= Len(s)
    BY <1>1 DEF Laid
  <2> QED  BY <1>1, <2>1 DEF Laid, Piece
<1>3. PICK l : l = Len(s) /\ l \in Nat
  BY LenProperties DEF Holds
<1>4. c \in Nat
  BY <1>1, <1>2, LenProperties
<1>5. /\ N \in Nat /\ o \in Nat /\ o + l <= N
      /\ \A j \in 1 .. l : T[o + j] = s[j]
  BY <1>3 DEF Holds
<1>6. o + a \in Nat /\ (o + a) + c <= N
  BY <1>2, <1>3, <1>4, <1>5
<1>7. ASSUME NEW j \in 1 .. c PROVE T[(o + a) + j] = p[j]
  <2>1. PICK i \in 1 .. l : i = a + j
    BY <1>2, <1>3, <1>4
  <2> QED  BY <1>2, <1>5, <2>1
<1> QED  BY <1>1, <1>2, <1>5, <1>6, <1>7 DEF Holds

IsConcat(u, s, t) == u = s \o t

Shifted(o, s) == o + Len(s)

AddsUp(u, s, t) == Len(u) = Len(s) + Len(t)

LEMMA ConcatLength ==
    ASSUME NEW D, NEW s \in Seq(D), NEW t \in Seq(D), NEW u, IsConcat(u, s, t)
    PROVE  u \in Seq(D) /\ AddsUp(u, s, t)
BY ConcatProperties DEF IsConcat, AddsUp

LEMMA HoldsBoth ==
    ASSUME NEW D, NEW T, NEW N, NEW o, NEW s \in Seq(D), NEW t \in Seq(D),
           NEW u, IsConcat(u, s, t), Holds(T, N, o, u, D)
    PROVE  Holds(T, N, o, s, D) /\ Holds(T, N, Shifted(o, s), t, D)
<1>1. PICK l, m : l = Len(s) /\ m = Len(t)
  OBVIOUS
<1>2. l \in Nat /\ m \in Nat
  BY <1>1, LenProperties
<1>3. /\ Len(u) = l + m
      /\ \A i \in 1 .. l + m : u[i] = IF i <= l THEN s[i] ELSE t[i - l]
  BY <1>1, ConcatProperties DEF IsConcat
<1>4. /\ N \in Nat /\ o \in Nat /\ o + (l + m) <= N
      /\ \A j \in 1 .. l + m : T[o + j] = u[j]
  BY <1>1, <1>3 DEF Holds
<1>5. \A j \in 1 .. l : T[o + j] = s[j]
  BY <1>2, <1>3, <1>4
<1>6. ASSUME NEW j \in 1 .. m PROVE T[(o + l) + j] = t[j]
  <2>1. PICK i \in 1 .. l + m : i = l + j /\ ~(i <= l) /\ i - l = j
    BY <1>2
  <2>2. o + i = (o + l) + j
    BY <1>2, <1>4, <2>1
  <2> QED  BY <1>3, <1>4, <2>1, <2>2
<1> QED  BY <1>1, <1>2, <1>3, <1>4, <1>5, <1>6 DEF Shifted, Holds

\* The n characters of the text are Indices(T) read one after the other.
TextRead(T, N, r) == IsList(T, N) /\ Runs(r, Parsing(T), Imp!CsvStart, Indices(T), N)

LEMMA ReadOne ==
    ASSUME NEW T, NEW N, NEW r, TextRead(T, N, r), NEW i \in 1 .. N
    PROVE  r[i] = Imp!ReadAt(T, r[i - 1], i)
BY DEF Step, Parsing, TextRead, Runs, IsList, Indices

-----------------------------------------------------------------------------
(* parseCsv, one character after the other *)

\* What has been read, in or out of quotes, and with a second quote to be passed.
Read(a, rows, row, field, quoted) ==
    a = [rows |-> rows, row |-> row, field |-> field, inQuotes |-> quoted, skip |-> FALSE]
Passing(a, rows, row, field) ==
    a = [rows |-> rows, row |-> row, field |-> field, inQuotes |-> TRUE, skip |-> TRUE]

LEMMA ReadsOrdinary ==
    ASSUME NEW T, NEW i, NEW c, c = T[i], c \notin SpecialCharacters,
           NEW a, NEW rows, NEW row, NEW field, Read(a, rows, row, field, FALSE)
    PROVE  Read(Imp!ReadAt(T, a, i), rows, row, Append(field, c), FALSE)
<1>1. Imp!Unquoted(a, c) = Imp!Keep(a, c)
  BY Zenon DEF Imp!Unquoted, SpecialCharacters
<1> QED  BY <1>1 DEF Read, Imp!Keep, Imp!ReadAt

LEMMA ReadsOpening ==
    ASSUME NEW T, NEW i, T[i] = Imp!Quote,
           NEW a, NEW rows, NEW row, NEW field, Read(a, rows, row, field, FALSE)
    PROVE  Read(Imp!ReadAt(T, a, i), rows, row, field, TRUE)
<1>1. Imp!Unquoted(a, Imp!Quote) = [a EXCEPT !.inQuotes = TRUE]
  BY Zenon DEF Imp!Unquoted, Imp!Quote, Imp!Delimiter, Imp!Return, Imp!NewLine
<1> QED  BY <1>1 DEF Read, Imp!ReadAt

LEMMA ReadsDelimiter ==
    ASSUME NEW T, NEW i, T[i] = Imp!Delimiter,
           NEW a, NEW rows, NEW row, NEW field, Read(a, rows, row, field, FALSE)
    PROVE  Read(Imp!ReadAt(T, a, i), rows, Append(row, field), <<>>, FALSE)
<1>1. Imp!Unquoted(a, Imp!Delimiter) = Imp!EndField(a)
  BY Zenon DEF Imp!Unquoted, Imp!Quote, Imp!Delimiter, Imp!Return, Imp!NewLine
<1> QED  BY <1>1 DEF Read, Imp!EndField, Imp!ReadAt

LEMMA ReadsReturn ==
    ASSUME NEW T, NEW i, T[i] = Imp!Return,
           NEW a, NEW rows, NEW row, NEW field, Read(a, rows, row, field, FALSE)
    PROVE  Read(Imp!ReadAt(T, a, i), rows, row, field, FALSE)
<1>1. Imp!Unquoted(a, Imp!Return) = a
  BY Zenon DEF Imp!Unquoted, Imp!Quote, Imp!Delimiter, Imp!Return, Imp!NewLine
<1> QED  BY <1>1 DEF Imp!ReadAt, Read

LEMMA ReadsNewLine ==
    ASSUME NEW T, NEW i, T[i] = Imp!NewLine,
           NEW a, NEW rows, NEW row, NEW field, Read(a, rows, row, field, FALSE)
    PROVE  Read(Imp!ReadAt(T, a, i), Append(rows, Append(row, field)), <<>>, <<>>, FALSE)
<1>1. Imp!Unquoted(a, Imp!NewLine) = Imp!EndRow(a)
  BY Zenon DEF Imp!Unquoted, Imp!Quote, Imp!Delimiter, Imp!Return, Imp!NewLine
<1> QED  BY <1>1 DEF Read, Imp!EndRow, Imp!EndField, Imp!ReadAt

LEMMA ReadsQuoted ==
    ASSUME NEW T, NEW i, NEW c, c = T[i], c # Imp!Quote,
           NEW a, NEW rows, NEW row, NEW field, Read(a, rows, row, field, TRUE)
    PROVE  Read(Imp!ReadAt(T, a, i), rows, row, Append(field, c), TRUE)
BY DEF Read, Imp!Keep, Imp!ReadAt, Imp!Quoted

LEMMA ReadsDoubled ==
    ASSUME NEW T, NEW N, Len(T) = N, NEW i, i < N, T[i] = Imp!Quote, T[i + 1] = Imp!Quote,
           NEW a, NEW rows, NEW row, NEW field, Read(a, rows, row, field, TRUE)
    PROVE  Passing(Imp!ReadAt(T, a, i), rows, row, Append(field, Imp!Quote))
BY DEF Read, Passing, Imp!Keep, Imp!ReadAt, Imp!Quoted, Imp!After

LEMMA ReadsSecond ==
    ASSUME NEW T, NEW i, NEW a, NEW rows, NEW row, NEW field, Passing(a, rows, row, field)
    PROVE  Read(Imp!ReadAt(T, a, i), rows, row, field, TRUE)
BY DEF Read, Passing, Imp!ReadAt

LEMMA ReadsClosing ==
    ASSUME NEW T, NEW N, Len(T) = N, NEW i, i < N, T[i] = Imp!Quote, T[i + 1] # Imp!Quote,
           NEW a, NEW rows, NEW row, NEW field, Read(a, rows, row, field, TRUE)
    PROVE  Read(Imp!ReadAt(T, a, i), rows, row, field, FALSE)
BY DEF Read, Imp!ReadAt, Imp!Quoted, Imp!After

-----------------------------------------------------------------------------
(* A field *)

LEMMA FirstsNext ==
    ASSUME NEW D, NEW s \in Seq(D), NEW k \in Nat, k + 1 <= Len(s)
    PROVE  Append(Firsts(s, k), s[k + 1]) = Firsts(s, k + 1)
<1>1. \A i \in 1 .. k + 1 : s[i] \in D
  BY LenProperties
<1> QED  BY <1>1, FirstsMore

LEMMA FirstsWhole ==
    ASSUME NEW D, NEW s \in Seq(D)
    PROVE  Firsts(s, Len(s)) = s
BY LenProperties DEF Firsts

LEMMA FirstsNone ==
    ASSUME NEW s
    PROVE  Firsts(s, 0) = <<>>
BY DEF Firsts

\* What holds of 0, and of k + 1 when it holds of k < n, holds of n: a set of
\* places without a least one is empty.
LEMMA UpTo ==
    ASSUME NEW n \in Nat, NEW S, 0 \in S, \A k \in 0 .. n : k \in S /\ k < n => k + 1 \in S
    PROVE  n \in S
<1> DEFINE B == {k \in 0 .. n : k \notin S}
<1>1. ASSUME B # {} PROVE FALSE
  <2>1. B \in SUBSET Nat
    OBVIOUS
  <2>2. PICK k \in B : \A y \in B : k <= y
    BY <1>1, <2>1, Smallest
  <2>3. k \in 0 .. n /\ k \notin S /\ k # 0
    BY <2>2
  <2> QED  BY <2>2, <2>3
<1> QED  BY <1>1

LEMMA PlainField ==
    ASSUME NEW T, NEW N, NEW r, TextRead(T, N, r),
           NEW D, NEW o, NEW f, Holds(T, N, o, f, D), ToSet(f) \cap SpecialCharacters = {},
           NEW rows, NEW row, Read(r[o], rows, row, <<>>, FALSE)
    PROVE  Read(r[o + Len(f)], rows, row, f, FALSE)
<1>1. PICK l : l = Len(f) /\ l \in Nat
  BY LenProperties DEF Holds
<1>2. /\ N \in Nat /\ o \in Nat /\ f \in Seq(D) /\ o + l <= N
      /\ \A j \in 1 .. l : T[o + j] = f[j]
  BY <1>1 DEF Holds
<1>3. \A j \in 1 .. l : f[j] \in ToSet(f)
  BY <1>1, <1>2, LenProperties DEF ToSet
<1> DEFINE P(k) == Read(r[o + k], rows, row, Firsts(f, k), FALSE)
           S == {k \in 0 .. l : P(k)}
<1>4. P(0)
  <2>1. o + 0 = o
    BY <1>2
  <2> QED  BY <2>1, FirstsNone, Zenon
<1>5. ASSUME NEW k \in 0 .. l, P(k), k < l PROVE P(k + 1)
  <2>1. PICK j, i : j = k + 1 /\ i = o + j
    OBVIOUS
  <2>2. j \in 1 .. l /\ i \in 1 .. N /\ i - 1 = o + k
    BY <1>1, <1>2, <1>5, <2>1
  <2>3. T[i] = f[j] /\ f[j] \notin SpecialCharacters
    BY <1>2, <1>3, <2>1, <2>2
  <2>4. r[i] = Imp!ReadAt(T, r[i - 1], i)
    BY <2>2, ReadOne
  <2>5. Read(r[i - 1], rows, row, Firsts(f, k), FALSE)
    BY <1>5, <2>2
  <2>6. Read(r[i], rows, row, Append(Firsts(f, k), f[j]), FALSE)
    BY <2>3, <2>4, <2>5, ReadsOrdinary
  <2>7. Append(Firsts(f, k), f[j]) = Firsts(f, j)
    <3>1. k \in Nat /\ k + 1 <= Len(f)
      BY <1>1, <1>5
    <3> QED  BY <1>2, <2>1, <3>1, FirstsNext
  <2>8. Read(r[i], rows, row, Firsts(f, j), FALSE)
    BY <2>6, <2>7
  <2> QED  BY <2>1, <2>8
<1> HIDE DEF P
<1>6. 0 \in S
  BY <1>1, <1>4
<1>7. \A k \in 0 .. l : k \in S /\ k < l => k + 1 \in S
  BY <1>1, <1>5
<1> HIDE DEF S
<1>8. l \in S
  BY <1>1, <1>6, <1>7, UpTo
<1>9. P(l)
  BY <1>8 DEF S
<1>10. Read(r[o + l], rows, row, Firsts(f, l), FALSE)
  BY <1>9 DEF P
<1> QED  BY <1>1, <1>2, <1>10, FirstsWhole

LEMMA HoldsOne ==
    ASSUME NEW T, NEW N, NEW o, NEW c, NEW D, c \in D, Holds(T, N, o, <<c>>, D)
    PROVE  o \in Nat /\ o + 1 \in 1 .. N /\ T[o + 1] = c
<1>1. PICK s : s = <<c>>
  OBVIOUS
<1> QED  BY <1>1 DEF Holds

LEMMA HoldsTwo ==
    ASSUME NEW T, NEW N, NEW o, NEW c, NEW D, c \in D, Holds(T, N, o, <<c, c>>, D)
    PROVE  o \in Nat /\ o + 2 \in 1 .. N /\ T[o + 1] = c /\ T[o + 2] = c
<1>1. PICK s : s = <<c, c>>
  OBVIOUS
<1> QED  BY <1>1 DEF Holds

LEMMA TextLength ==
    ASSUME NEW T, NEW N, NEW r, TextRead(T, N, r)
    PROVE  Len(T) = N /\ N \in Nat
BY DEF TextRead, IsList

\* The state after the place i, which comes after the place o.
LEMMA ReadNext ==
    ASSUME NEW T, NEW N, NEW r, TextRead(T, N, r), NEW o \in Nat, o + 1 \in 1 .. N
    PROVE  r[o + 1] = Imp!ReadAt(T, r[o], o + 1)
<1>1. PICK i \in 1 .. N : i = o + 1 /\ i - 1 = o
  OBVIOUS
<1> QED  BY <1>1, ReadOne

Pairs(f) == [i \in DOMAIN f |-> IF f[i] = Imp!Quote THEN <<f[i], f[i]>> ELSE <<f[i]>>]

LEMMA InQuotesOne ==
    ASSUME NEW T, NEW N, NEW r, TextRead(T, N, r),
           NEW D, NEW c \in D, c # Imp!Quote, NEW o, Holds(T, N, o, <<c>>, D),
           NEW rows, NEW row, NEW field, Read(r[o], rows, row, field, TRUE)
    PROVE  Read(r[o + 1], rows, row, Append(field, c), TRUE)
<1>1. o \in Nat /\ o + 1 \in 1 .. N /\ T[o + 1] = c
  BY HoldsOne
<1>2. PICK i : i = o + 1
  OBVIOUS
<1>3. r[i] = Imp!ReadAt(T, r[o], i)
  BY <1>1, <1>2, ReadNext
<1> QED  BY <1>1, <1>2, <1>3, ReadsQuoted

LEMMA InQuotesTwo ==
    ASSUME NEW T, NEW N, NEW r, TextRead(T, N, r),
           NEW D, Imp!Quote \in D, NEW o, Holds(T, N, o, <<Imp!Quote, Imp!Quote>>, D),
           NEW rows, NEW row, NEW field, Read(r[o], rows, row, field, TRUE)
    PROVE  Read(r[o + 2], rows, row, Append(field, Imp!Quote), TRUE)
<1>1. o \in Nat /\ o + 2 \in 1 .. N /\ T[o + 1] = Imp!Quote /\ T[o + 2] = Imp!Quote
  BY HoldsTwo
<1>2. PICK i, j : i = o + 1 /\ j = o + 2
  OBVIOUS
<1>3. Len(T) = N /\ N \in Nat
  BY TextLength
<1>4. i \in Nat /\ i \in 1 .. N /\ i < N /\ i + 1 = j /\ j \in 1 .. N /\ T[i] = Imp!Quote /\ T[j] = Imp!Quote
  BY <1>1, <1>2, <1>3
<1>5. r[i] = Imp!ReadAt(T, r[o], i)
  BY <1>1, <1>2, <1>4, ReadNext
<1>6. r[j] = Imp!ReadAt(T, r[i], j)
  BY <1>4, ReadNext
<1> QED  BY <1>2, <1>3, <1>4, <1>5, <1>6, ReadsSecond, ReadsDoubled

\* The text within the quotes.
LEMMA InQuotes ==
    ASSUME NEW T, NEW N, NEW r, TextRead(T, N, r),
           NEW D, NEW f \in Seq(D), Imp!Quote \in D,
           NEW b, b = FlattenSeq(Pairs(f)), NEW o, Holds(T, N, o, b, D),
           NEW rows, NEW row, Read(r[o], rows, row, <<>>, TRUE)
    PROVE  Read(r[o + Len(b)], rows, row, f, TRUE)
<1>1. PICK l : l = Len(f) /\ l \in Nat /\ DOMAIN f = 1 .. l
  BY LenProperties
<1>2. PICK parts : parts = Pairs(f)
  OBVIOUS
<1>3. \A k \in 1 .. l : f[k] \in D
  BY <1>1, LenProperties
<1>4. \A k \in 1 .. l : parts[k] = IF f[k] = Imp!Quote THEN <<f[k], f[k]>> ELSE <<f[k]>>
  BY <1>1, <1>2 DEF Pairs
<1>5. \A k \in 1 .. l : parts[k] \in Seq(D)
  <2>1. \A c \in D : <<c>> \in Seq(D) /\ <<c, c>> \in Seq(D)
    OBVIOUS
  <2> QED  BY <1>3, <1>4, <2>1
<1>6. PICK at : Laid(at, b, parts, l, D)
  BY <1>1, <1>2, <1>5, FlatLaid DEF IsList, Pairs
<1>7. o \in Nat
  BY DEF Holds
<1>8. at[0] = 0 /\ at[l] = Len(b)
  BY <1>6 DEF Laid
<1> DEFINE P(k) == Read(r[o + at[k]], rows, row, Firsts(f, k), TRUE)
           S == {k \in 0 .. l : P(k)}
<1>9. P(0)
  <2>1. o + at[0] = o
    BY <1>7, <1>8
  <2> QED  BY <2>1, FirstsNone, Zenon
<1>10. ASSUME NEW k \in 0 .. l, P(k), k < l PROVE P(k + 1)
  <2>1. PICK j : j = k + 1
    OBVIOUS
  <2>2. j \in 1 .. l /\ j - 1 = k /\ j \in 0 .. l
    BY <1>1, <1>10, <2>1
  <2>3. PICK p : p = o + at[k]
    OBVIOUS
  <2>4. Holds(T, N, p, parts[j], D)
    BY <1>6, <2>2, <2>3, HoldsPart
  <2>5. Read(r[p], rows, row, Firsts(f, k), TRUE)
    BY <1>10, <2>3
  <2>6. Append(Firsts(f, k), f[j]) = Firsts(f, j)
    BY <1>1, <1>10, <2>1, FirstsNext
  <2>7. at[j] = at[k] + Len(parts[j]) /\ at[k] \in Nat
    BY <1>6, <1>10, <2>2 DEF Laid, Piece
  <2>8. CASE f[j] = Imp!Quote
    <3>1. parts[j] = <<Imp!Quote, Imp!Quote>>
      BY <1>4, <2>2, <2>8
    <3>2. p + 2 = o + at[j]
      BY <1>7, <2>3, <2>7, <3>1
    <3> QED  BY <2>1, <2>4, <2>5, <2>6, <2>8, <3>1, <3>2, InQuotesTwo
  <2>9. CASE f[j] # Imp!Quote
    <3>1. PICK c : c = f[j] /\ c \in D /\ c # Imp!Quote
      BY <1>3, <2>2, <2>9
    <3>2. parts[j] = <<c>>
      BY <1>4, <2>2, <2>9, <3>1
    <3>3. p + 1 = o + at[j]
      BY <1>7, <2>3, <2>7, <3>2
    <3> QED  BY <2>1, <2>4, <2>5, <2>6, <3>1, <3>2, <3>3, InQuotesOne
  <2> QED  BY <2>8, <2>9
<1> HIDE DEF P
<1>11. 0 \in S
  BY <1>1, <1>9
<1>12. \A k \in 0 .. l : k \in S /\ k < l => k + 1 \in S
  BY <1>1, <1>10
<1> HIDE DEF S
<1>13. l \in S
  BY <1>1, <1>11, <1>12, UpTo
<1> QED  BY <1>1, <1>8, <1>13, FirstsWhole DEF P, S

\* A character that is not a quote comes after the i-th.
NoQuoteAfter(T, N, i) == i + 1 \in 1 .. N /\ T[i + 1] # Imp!Quote

Quotation(f) == <<Imp!Quote>> \o FlattenSeq(Pairs(f)) \o <<Imp!Quote>>

\* A field in quotes, before a character that is not a quote.
LEMMA QuotedField ==
    ASSUME NEW T, NEW N, NEW r, TextRead(T, N, r),
           NEW D, NEW f \in Seq(D), Imp!Quote \in D,
           NEW w, w = Quotation(f),
           NEW o, Holds(T, N, o, w, D),
           NEW z, z = Shifted(o, w), NoQuoteAfter(T, N, z),
           NEW rows, NEW row, Read(r[o], rows, row, <<>>, FALSE)
    PROVE  Read(r[z], rows, row, f, FALSE)
<1>1. PICK q, b : q = <<Imp!Quote>> /\ b = FlattenSeq(Pairs(f))
  OBVIOUS
<1>2. q \in Seq(D) /\ Len(q) = 1
  BY <1>1
<1>3. b \in Seq(D)
  <2>1. PICK l : l = Len(f) /\ l \in Nat /\ DOMAIN f = 1 .. l
    BY LenProperties
  <2>2. IsList(Pairs(f), l)
    BY <2>1 DEF IsList, Pairs
  <2>3. \A k \in 1 .. l : Pairs(f)[k] \in Seq(D)
    BY <2>1, LenProperties DEF Pairs
  <2> QED  BY <1>1, <2>1, <2>2, <2>3, FlatLaid DEF Laid
<1>4. PICK qb : IsConcat(qb, q, b)
  BY DEF IsConcat
<1>5. qb \in Seq(D)
  BY <1>2, <1>3, <1>4, ConcatLength
<1>6. IsConcat(w, qb, q)
  BY <1>1, <1>4 DEF Quotation, IsConcat
<1>7. Holds(T, N, o, qb, D) /\ Holds(T, N, Shifted(o, qb), q, D)
  BY <1>2, <1>5, <1>6, HoldsBoth
<1>8. Holds(T, N, o, q, D) /\ Holds(T, N, Shifted(o, q), b, D)
  BY <1>2, <1>3, <1>4, <1>7, HoldsBoth
<1>9. PICK m : m = Len(b) /\ m \in Nat
  BY <1>3, LenProperties
<1>10. o \in Nat /\ o + 1 \in 1 .. N /\ T[o + 1] = Imp!Quote
  BY <1>1, <1>8, HoldsOne
<1>11. PICK u, v : u = o + 1 /\ v = u + m
  OBVIOUS
<1>12. u \in Nat /\ v \in Nat /\ o + Len(qb) = v /\ v + 1 = z
  <2>1. PICK lw, lqb : lw = Len(w) /\ lqb = Len(qb) /\ z = o + lw
    BY DEF Shifted
  <2>2. Len(w) = Len(qb) + Len(q) /\ Len(qb) = Len(q) + Len(b)
    <3>1. AddsUp(w, qb, q) /\ AddsUp(qb, q, b)
      BY <1>2, <1>3, <1>4, <1>5, <1>6, ConcatLength
    <3> QED  BY <3>1 DEF AddsUp
  <2> QED  BY <1>2, <1>9, <1>10, <1>11, <2>1, <2>2
<1>13. Holds(T, N, u, b, D) /\ Holds(T, N, v, q, D)
  BY <1>2, <1>7, <1>8, <1>11, <1>12 DEF Shifted
<1>14. v + 1 \in 1 .. N /\ T[v + 1] = Imp!Quote
  BY <1>1, <1>13, HoldsOne
<1>15. Read(r[u], rows, row, <<>>, TRUE)
  <2>1. r[u] = Imp!ReadAt(T, r[o], u)
    BY <1>10, <1>11, ReadNext
  <2> QED  BY <1>10, <1>11, <2>1, ReadsOpening
<1>16. Read(r[v], rows, row, f, TRUE)
  BY <1>1, <1>9, <1>11, <1>13, <1>15, InQuotes
<1>17. PICK i : i = v + 1
  OBVIOUS
<1>18. r[i] = Imp!ReadAt(T, r[v], i)
  BY <1>12, <1>14, <1>17, ReadNext
<1>19. i < N /\ T[i] = Imp!Quote /\ T[i + 1] # Imp!Quote /\ Len(T) = N
  BY <1>12, <1>14, <1>17, TextLength DEF NoQuoteAfter
<1> QED  BY <1>12, <1>16, <1>17, <1>18, <1>19, ReadsClosing

\* A set of characters with those that have a meaning.
Alphabet(D) == SpecialCharacters \subseteq D

LEMMA SpecialOnes ==
    ASSUME NEW D, Alphabet(D)
    PROVE  /\ Imp!Quote \in D /\ Imp!Delimiter \in D /\ Imp!Return \in D /\ Imp!NewLine \in D
           /\ Imp!Delimiter # Imp!Quote /\ Imp!Return # Imp!Quote /\ Imp!NewLine # Imp!Quote
BY DEF Alphabet, SpecialCharacters, Imp!Quote, Imp!Delimiter, Imp!Return, Imp!NewLine

LEMMA WrittenQuoted ==
    ASSUME NEW f
    PROVE  WrittenField(f) = IF ToSet(f) \cap SpecialCharacters = {} THEN f ELSE Quotation(f)
BY Zenon DEF WrittenField, Quotation, Pairs

LEMMA FieldRead ==
    ASSUME NEW T, NEW N, NEW r, TextRead(T, N, r), NEW D, Alphabet(D),
           NEW f \in Seq(D), NEW w, w = WrittenField(f), NEW o, Holds(T, N, o, w, D),
           NEW z, z = Shifted(o, w), NoQuoteAfter(T, N, z),
           NEW rows, NEW row, Read(r[o], rows, row, <<>>, FALSE)
    PROVE  Read(r[z], rows, row, f, FALSE)
<1>1. CASE ToSet(f) \cap SpecialCharacters = {}
  BY <1>1, PlainField, WrittenQuoted DEF Shifted
<1>2. CASE ToSet(f) \cap SpecialCharacters # {}
  BY <1>2, QuotedField, WrittenQuoted, SpecialOnes
<1> QED  BY <1>1, <1>2

-----------------------------------------------------------------------------
(* A row *)

RowParts(row) ==
    [i \in DOMAIN row |->
        IF i = 1 THEN WrittenField(row[i]) ELSE <<Imp!Delimiter>> \o WrittenField(row[i])]

\* The fields are written, the first one as it is, the others after a delimiter.
RowWritten(at, w, parts, row, n, D) ==
    /\ n \in Nat \ {0} /\ row \in Seq(Seq(D)) /\ Len(row) = n /\ Laid(at, w, parts, n, D)
    /\ \A k \in 1 .. n : WrittenField(row[k]) \in Seq(D)
    /\ parts[1] = WrittenField(row[1])
    /\ \A k \in 2 .. n : IsConcat(parts[k], <<Imp!Delimiter>>, WrittenField(row[k]))

LEMMA QuotationIsText ==
    ASSUME NEW D, NEW f \in Seq(D), Imp!Quote \in D
    PROVE  Quotation(f) \in Seq(D)
<1>1. PICK q, b : q = <<Imp!Quote>> /\ b = FlattenSeq(Pairs(f))
  OBVIOUS
<1>2. b \in Seq(D)
  <2>1. PICK l : l = Len(f) /\ l \in Nat /\ DOMAIN f = 1 .. l
    BY LenProperties
  <2>2. IsList(Pairs(f), l)
    BY <2>1 DEF IsList, Pairs
  <2>3. \A k \in 1 .. l : Pairs(f)[k] \in Seq(D)
    BY <2>1, LenProperties DEF Pairs
  <2> QED  BY <1>1, <2>1, <2>2, <2>3, FlatLaid DEF Laid
<1>3. PICK qb : IsConcat(qb, q, b)
  BY DEF IsConcat
<1> QED  BY <1>1, <1>2, <1>3, ConcatLength DEF Quotation, IsConcat

LEMMA FieldIsText ==
    ASSUME NEW D, Alphabet(D), NEW f \in Seq(D)
    PROVE  WrittenField(f) \in Seq(D)
BY SpecialOnes, QuotationIsText, WrittenQuoted

LEMMA RowIsWritten ==
    ASSUME NEW D, Alphabet(D), NEW row \in Seq(Seq(D)), NEW n, n = Len(row), n # 0
    PROVE  /\ WrittenRow(row) \in Seq(D)
           /\ \E at : RowWritten(at, WrittenRow(row), RowParts(row), row, n, D)
<1>1. n \in Nat \ {0} /\ DOMAIN row = 1 .. n
  BY LenProperties
<1>2. PICK parts, w : parts = RowParts(row) /\ w = WrittenRow(row)
  OBVIOUS
<1>3. \A k \in 1 .. n : row[k] \in Seq(D) /\ WrittenField(row[k]) \in Seq(D)
  BY <1>1, FieldIsText, LenProperties
<1>4. parts[1] = WrittenField(row[1])
  BY <1>1, <1>2 DEF RowParts
<1>5. \A k \in 2 .. n : IsConcat(parts[k], <<Imp!Delimiter>>, WrittenField(row[k]))
  BY <1>1, <1>2 DEF IsConcat, RowParts
<1>6. \A k \in 1 .. n : parts[k] \in Seq(D)
  <2>1. <<Imp!Delimiter>> \in Seq(D)
    BY SpecialOnes
  <2>2. ASSUME NEW k \in 1 .. n PROVE parts[k] \in Seq(D)
    <3>1. CASE k = 1
      BY <1>3, <1>4, <3>1
    <3>2. CASE k # 1
      <4>1. k \in 2 .. n
        BY <1>1, <3>2
      <4> QED  BY <1>3, <1>5, <2>1, <4>1, ConcatLength
    <3> QED  BY <3>1, <3>2
  <2> QED  BY <2>2
<1>7. w = FlattenSeq(parts)
  BY <1>2, Zenon DEF WrittenRow, RowParts
<1>8. PICK at : Laid(at, w, parts, n, D)
  BY <1>1, <1>2, <1>6, <1>7, FlatLaid DEF RowParts, IsList
<1> QED  BY <1>1, <1>2, <1>3, <1>4, <1>5, <1>8 DEF RowWritten, Laid

LEMMA AfterField ==
    ASSUME NEW T, NEW N, NEW D, Alphabet(D), NEW o, NEW w, Holds(T, N, o, w, D),
           NEW z, z = Shifted(o, w), NoQuoteAfter(T, N, z),
           NEW at, NEW parts, NEW row, NEW n, RowWritten(at, w, parts, row, n, D),
           NEW k \in 1 .. n, NEW x, x = o + at[k]
    PROVE  NoQuoteAfter(T, N, x)
<1>1. n \in Nat \ {0} /\ at[n] = Len(w) /\ Laid(at, w, parts, n, D)
  BY DEF RowWritten, Laid
<1>2. CASE k = n
  BY <1>1, <1>2 DEF Shifted
<1>3. CASE k # n
  <2>1. PICK j : j = k + 1
    OBVIOUS
  <2>2. j \in 1 .. n /\ j \in 2 .. n /\ j - 1 = k
    BY <1>1, <1>3, <2>1
  <2>3. <<Imp!Delimiter>> \in Seq(D) /\ Imp!Delimiter \in D /\ Imp!Delimiter # Imp!Quote
    BY SpecialOnes
  <2>4. Holds(T, N, x, <<Imp!Delimiter>>, D)
    BY <1>1, <2>2, <2>3, HoldsBoth, HoldsPart DEF RowWritten
  <2> QED  BY <2>3, <2>4, HoldsOne DEF NoQuoteAfter
<1> QED  BY <1>2, <1>3

\* A delimiter and the field after it.
LEMMA NextField ==
    ASSUME NEW T, NEW N, NEW r, TextRead(T, N, r), NEW D, Alphabet(D),
           NEW f \in Seq(D), NEW w, IsConcat(w, <<Imp!Delimiter>>, WrittenField(f)),
           NEW o, Holds(T, N, o, w, D), NEW z, z = Shifted(o, w), NoQuoteAfter(T, N, z),
           NEW rows, NEW row, NEW field, Read(r[o], rows, row, field, FALSE)
    PROVE  Read(r[z], rows, Append(row, field), f, FALSE)
<1>1. PICK d, v : d = <<Imp!Delimiter>> /\ v = WrittenField(f)
  OBVIOUS
<1>2. Imp!Delimiter \in D /\ d \in Seq(D) /\ Len(d) = 1
  BY <1>1, SpecialOnes
<1>3. v \in Seq(D)
  BY <1>1, FieldIsText
<1>4. IsConcat(w, d, v)
  BY <1>1
<1>5. Holds(T, N, o, d, D) /\ Holds(T, N, Shifted(o, d), v, D)
  BY <1>2, <1>3, <1>4, HoldsBoth
<1>6. o \in Nat /\ o + 1 \in 1 .. N /\ T[o + 1] = Imp!Delimiter
  BY <1>1, <1>2, <1>5, HoldsOne
<1>7. PICK i : i = o + 1
  OBVIOUS
<1>8. r[i] = Imp!ReadAt(T, r[o], i)
  BY <1>6, <1>7, ReadNext
<1>9. Read(r[i], rows, Append(row, field), <<>>, FALSE)
  BY <1>6, <1>7, <1>8, ReadsDelimiter
<1>10. z = Shifted(i, v)
  <2>1. Len(w) = Len(d) + Len(v)
    <3>1. AddsUp(w, d, v)
      BY <1>2, <1>3, <1>4, ConcatLength
    <3> QED  BY <3>1 DEF AddsUp
  <2>2. PICK l, m : l = Len(w) /\ m = Len(v) /\ m \in Nat
    BY <1>3, LenProperties
  <2> QED  BY <1>2, <1>6, <1>7, <2>1, <2>2 DEF Shifted
<1> QED  BY <1>1, <1>2, <1>5, <1>7, <1>9, <1>10, FieldRead DEF Shifted

LEMMA RowRead ==
    ASSUME NEW T, NEW N, NEW r, TextRead(T, N, r), NEW D, Alphabet(D),
           NEW at, NEW w, NEW parts, NEW row, NEW n, RowWritten(at, w, parts, row, n, D),
           NEW o, Holds(T, N, o, w, D), NEW z, z = Shifted(o, w), NoQuoteAfter(T, N, z),
           NEW rows, Read(r[o], rows, <<>>, <<>>, FALSE)
    PROVE  Read(r[z], rows, Firsts(row, n - 1), row[n], FALSE)
<1>1. /\ n \in Nat \ {0} /\ row \in Seq(Seq(D)) /\ Len(row) = n /\ Laid(at, w, parts, n, D)
      /\ parts[1] = WrittenField(row[1])
      /\ \A k \in 2 .. n : IsConcat(parts[k], <<Imp!Delimiter>>, WrittenField(row[k]))
  BY DEF RowWritten
<1>2. /\ at[0] = 0 /\ at[n] = Len(w) /\ \A k \in 0 .. n : at[k] \in Nat
      /\ \A k \in 1 .. n : at[k] = at[k - 1] + Len(parts[k])
  BY <1>1 DEF Laid, Piece
<1>3. o \in Nat
  BY DEF Holds
<1>4. \A k \in 1 .. n : row[k] \in Seq(D)
  BY <1>1, LenProperties
<1> DEFINE P(k) == Read(r[o + at[k + 1]], rows, Firsts(row, k), row[k + 1], FALSE)
           S == {k \in 0 .. n - 1 : P(k)}
<1>5. ASSUME NEW k \in 1 .. n, NEW x, x = o + at[k - 1], NEW y, y = o + at[k]
      PROVE  Holds(T, N, x, parts[k], D) /\ y = Shifted(x, parts[k]) /\ NoQuoteAfter(T, N, y)
  <2>1. Holds(T, N, x, parts[k], D)
    BY <1>1, <1>5, HoldsPart
  <2>2. NoQuoteAfter(T, N, y)
    BY <1>5, AfterField
  <2>3. y = Shifted(x, parts[k])
    <3>1. PICK a, l : a = at[k - 1] /\ l = Len(parts[k])
      OBVIOUS
    <3>2. a \in Nat
      BY <1>1, <1>2, <3>1
    <3>3. parts[k] \in Seq(D)
      BY <2>1 DEF Holds
    <3>4. l \in Nat
      BY <3>1, <3>3, LenProperties
    <3>5. x = o + a /\ y = o + (a + l)
      BY <1>2, <1>5, <3>1
    <3>6. y = x + l
      BY <1>3, <3>2, <3>4, <3>5
    <3> QED  BY <3>1, <3>6 DEF Shifted
  <2> QED  BY <2>1, <2>2, <2>3
<1>6. P(0)
  <2>1. PICK k \in 1 .. n : k = 1 /\ k - 1 = 0 /\ k = 0 + 1
    BY <1>1
  <2>2. PICK x, y : x = o + at[k - 1] /\ y = o + at[k]
    OBVIOUS
  <2>3. x = o
    BY <1>2, <1>3, <2>1, <2>2
  <2>4. Holds(T, N, x, parts[k], D) /\ y = Shifted(x, parts[k]) /\ NoQuoteAfter(T, N, y)
    BY <1>5, <2>2
  <2>5. parts[k] = WrittenField(row[k]) /\ row[k] \in Seq(D)
    BY <1>1, <1>4, <2>1
  <2>6. Read(r[y], rows, <<>>, row[k], FALSE)
    BY <2>3, <2>4, <2>5, FieldRead
  <2> QED  BY <2>1, <2>2, <2>6, FirstsNone
<1>7. ASSUME NEW k \in 0 .. n - 1, P(k), k < n - 1 PROVE P(k + 1)
  <2>1. PICK j, i : j = k + 2 /\ i = k + 1
    OBVIOUS
  <2>2. j \in 1 .. n /\ j \in 2 .. n /\ j - 1 = i /\ j = i + 1 /\ i \in Nat /\ i <= Len(row)
    BY <1>1, <1>7, <2>1
  <2>3. PICK x, y : x = o + at[j - 1] /\ y = o + at[j]
    OBVIOUS
  <2>4. Holds(T, N, x, parts[j], D) /\ y = Shifted(x, parts[j]) /\ NoQuoteAfter(T, N, y)
    BY <1>5, <2>2, <2>3
  <2>5. IsConcat(parts[j], <<Imp!Delimiter>>, WrittenField(row[j])) /\ row[j] \in Seq(D)
    BY <1>1, <1>4, <2>2
  <2>6. Read(r[x], rows, Firsts(row, k), row[i], FALSE)
    BY <1>7, <2>1, <2>2, <2>3
  <2>7. Read(r[y], rows, Append(Firsts(row, k), row[i]), row[j], FALSE)
    BY <2>4, <2>5, <2>6, NextField
  <2>8. Append(Firsts(row, k), row[i]) = Firsts(row, i)
    <3>1. k \in Nat /\ k + 1 <= Len(row) /\ i = k + 1
      BY <1>7, <2>1, <2>2
    <3> QED  BY <1>1, <3>1, FirstsNext
  <2>9. Read(r[o + at[j]], rows, Firsts(row, i), row[j], FALSE)
    BY <2>3, <2>7, <2>8
  <2> QED  BY <2>1, <2>2, <2>9
<1> HIDE DEF P
<1>8. 0 \in S
  BY <1>1, <1>6
<1>9. \A k \in 0 .. n - 1 : k \in S /\ k < n - 1 => k + 1 \in S
  BY <1>1, <1>7
<1> HIDE DEF S
<1>10. n - 1 \in S
  <2>1. PICK m \in Nat : m = n - 1
    BY <1>1
  <2>2. \A k \in 0 .. m : k \in S /\ k < m => k + 1 \in S
    BY <1>9, <2>1
  <2>3. m \in S
    BY <1>8, <2>2, UpTo
  <2> QED  BY <2>1, <2>3
<1>11. P(n - 1)
  BY <1>10 DEF S
<1>12. n - 1 + 1 = n
  BY <1>1
<1>13. Read(r[o + at[n]], rows, Firsts(row, n - 1), row[n], FALSE)
  BY <1>11, <1>12 DEF P
<1> QED  BY <1>2, <1>13 DEF Shifted

-----------------------------------------------------------------------------
(* A table *)

LineEnds == {<<Imp!NewLine>>, <<Imp!Return, Imp!NewLine>>}

LEMMA EndIsText ==
    ASSUME NEW D, Alphabet(D), NEW end \in LineEnds
    PROVE  end \in Seq(D)
<1>1. <<Imp!NewLine>> \in Seq(D) /\ <<Imp!Return, Imp!NewLine>> \in Seq(D)
  BY SpecialOnes
<1> QED  BY <1>1 DEF LineEnds

LEMMA HoldsEnd ==
    ASSUME NEW T, NEW N, NEW o, NEW a, NEW b, NEW D, a \in D, b \in D, Holds(T, N, o, <<a, b>>, D)
    PROVE  o \in Nat /\ o + 1 \in 1 .. N /\ T[o + 1] = a /\ o + 2 \in 1 .. N /\ T[o + 2] = b
<1>1. PICK s : s = <<a, b>>
  OBVIOUS
<1> QED  BY <1>1 DEF Holds

\* The end of a row, after which no quote comes at once.
LEMMA EndRead ==
    ASSUME NEW T, NEW N, NEW r, TextRead(T, N, r), NEW D, Alphabet(D),
           NEW end \in LineEnds, NEW o, Holds(T, N, o, end, D), NEW z, z = Shifted(o, end)
    PROVE  /\ NoQuoteAfter(T, N, o)
           /\ \A rows, row, field :
                Read(r[o], rows, row, field, FALSE)
                  => Read(r[z], Append(rows, Append(row, field)), <<>>, <<>>, FALSE)
<1>1. /\ Imp!NewLine \in D /\ Imp!Return \in D
      /\ Imp!NewLine # Imp!Quote /\ Imp!Return # Imp!Quote
  BY SpecialOnes
<1>2. ASSUME end = <<Imp!NewLine>>
      PROVE  /\ NoQuoteAfter(T, N, o)
             /\ \A rows, row, field :
                  Read(r[o], rows, row, field, FALSE)
                    => Read(r[z], Append(rows, Append(row, field)), <<>>, <<>>, FALSE)
  <2>1. o \in Nat /\ o + 1 \in 1 .. N /\ T[o + 1] = Imp!NewLine
    BY <1>1, <1>2, HoldsOne
  <2>2. z = o + 1
    BY <1>2 DEF Shifted
  <2>3. r[z] = Imp!ReadAt(T, r[o], z)
    BY <2>1, <2>2, ReadNext
  <2>4. ASSUME NEW rows, NEW row, NEW field, Read(r[o], rows, row, field, FALSE)
        PROVE  Read(r[z], Append(rows, Append(row, field)), <<>>, <<>>, FALSE)
    BY <2>1, <2>2, <2>3, <2>4, ReadsNewLine
  <2> QED  BY <1>1, <2>1, <2>4 DEF NoQuoteAfter
<1>3. ASSUME end = <<Imp!Return, Imp!NewLine>>
      PROVE  /\ NoQuoteAfter(T, N, o)
             /\ \A rows, row, field :
                  Read(r[o], rows, row, field, FALSE)
                    => Read(r[z], Append(rows, Append(row, field)), <<>>, <<>>, FALSE)
  <2>1. /\ o \in Nat /\ o + 1 \in 1 .. N /\ T[o + 1] = Imp!Return
        /\ o + 2 \in 1 .. N /\ T[o + 2] = Imp!NewLine
    BY <1>1, <1>3, HoldsEnd
  <2>2. PICK i : i = o + 1
    OBVIOUS
  <2>3. z = i + 1 /\ z = o + 2 /\ i \in Nat
    BY <1>3, <2>1, <2>2 DEF Shifted
  <2>4. r[i] = Imp!ReadAt(T, r[o], i)
    BY <2>1, <2>2, ReadNext
  <2>5. r[z] = Imp!ReadAt(T, r[i], z)
    BY <2>1, <2>3, ReadNext
  <2>6. ASSUME NEW rows, NEW row, NEW field, Read(r[o], rows, row, field, FALSE)
        PROVE  Read(r[z], Append(rows, Append(row, field)), <<>>, <<>>, FALSE)
    BY <2>1, <2>2, <2>3, <2>4, <2>5, <2>6, ReadsNewLine, ReadsReturn
  <2> QED  BY <1>1, <2>1, <2>6 DEF NoQuoteAfter
<1> QED  BY <1>2, <1>3 DEF LineEnds

LEMMA LineRead ==
    ASSUME NEW T, NEW N, NEW r, TextRead(T, N, r), NEW D, Alphabet(D),
           NEW row \in Seq(Seq(D)), NEW n, n = Len(row), n # 0,
           NEW end \in LineEnds, NEW u, IsConcat(u, WrittenRow(row), end),
           NEW o, Holds(T, N, o, u, D), NEW z, z = Shifted(o, u),
           NEW rows, Read(r[o], rows, <<>>, <<>>, FALSE)
    PROVE  Read(r[z], Append(rows, row), <<>>, <<>>, FALSE)
<1>1. PICK w : w = WrittenRow(row)
  OBVIOUS
<1>2. w \in Seq(D)
  BY <1>1, RowIsWritten
<1>3. PICK at, parts : RowWritten(at, w, parts, row, n, D)
  BY <1>1, RowIsWritten
<1>4. end \in Seq(D)
  BY EndIsText
<1>5. IsConcat(u, w, end)
  BY <1>1
<1>6. PICK x : x = Shifted(o, w)
  OBVIOUS
<1>7. Holds(T, N, o, w, D) /\ Holds(T, N, x, end, D)
  BY <1>2, <1>4, <1>5, <1>6, HoldsBoth
<1>8. z = Shifted(x, end)
  <2>1. Len(u) = Len(w) + Len(end)
    BY <1>2, <1>4, <1>5, ConcatLength DEF AddsUp
  <2>2. PICK l, m, k : l = Len(w) /\ m = Len(end) /\ k = Len(u)
    OBVIOUS
  <2>3. z = x + m
    BY <1>2, <1>4, <1>6, <1>7, <2>1, <2>2, LenProperties DEF Shifted, Holds
  <2> QED  BY <2>2, <2>3 DEF Shifted
<1>9. Read(r[x], rows, Firsts(row, n - 1), row[n], FALSE)
  BY <1>3, <1>6, <1>7, <1>8, RowRead, EndRead
<1>10. Append(Firsts(row, n - 1), row[n]) = row
  <2>1. PICK k \in Nat : k = n - 1 /\ k + 1 = n /\ k + 1 <= Len(row)
    BY LenProperties
  <2> QED  BY <2>1, FirstsNext, FirstsWhole
<1> QED  BY <1>7, <1>8, <1>9, <1>10, EndRead

Lines(table, end) == [i \in DOMAIN table |-> WrittenRow(table[i]) \o end]

LEMMA TextHoldsItself ==
    ASSUME NEW D, NEW T \in Seq(D), NEW N, N = Len(T)
    PROVE  Holds(T, N, 0, T, D) /\ IsList(T, N)
<1>1. N \in Nat /\ DOMAIN T = 1 .. N /\ T = [k \in 1 .. N |-> T[k]]
  BY LenProperties
<1> QED  BY <1>1 DEF Holds, IsList

\* A table is read as it was written.
LEMMA TableIsRead ==
    ASSUME NEW D, Alphabet(D), NEW table \in Seq(Seq(Seq(D)) \ {<<>>}), NEW end \in LineEnds
    PROVE  Imp!ParseCsv(WrittenTable(table, end)) = table
<1>1. PICK m : m = Len(table) /\ m \in Nat /\ DOMAIN table = 1 .. m
  BY LenProperties
<1>2. PICK parts, T : parts = Lines(table, end) /\ T = WrittenTable(table, end)
  OBVIOUS
<1>3. \A k \in 1 .. m : table[k] \in Seq(Seq(D)) /\ Len(table[k]) # 0
  BY <1>1, LenProperties, EmptySeq
<1>4. \A k \in 1 .. m : IsConcat(parts[k], WrittenRow(table[k]), end)
  BY <1>1, <1>2 DEF Lines, IsConcat
<1>5. \A k \in 1 .. m : parts[k] \in Seq(D)
  <2>1. ASSUME NEW k \in 1 .. m PROVE parts[k] \in Seq(D)
    <3>1. WrittenRow(table[k]) \in Seq(D)
      <4>1. PICK row, n : row = table[k] /\ n = Len(row)
        OBVIOUS
      <4> QED  BY <1>3, <4>1, RowIsWritten
    <3> QED  BY <1>4, <3>1, ConcatLength, EndIsText
  <2> QED  BY <2>1
<1>6. T = FlattenSeq(parts)
  BY <1>2, Zenon DEF WrittenTable, Lines
<1>7. PICK at : Laid(at, T, parts, m, D)
  BY <1>1, <1>2, <1>5, <1>6, FlatLaid DEF Lines, IsList
<1>8. T \in Seq(D) /\ at[0] = 0 /\ at[m] = Len(T)
  BY <1>7 DEF Laid
<1>9. PICK N : N = Len(T)
  OBVIOUS
<1>10. Holds(T, N, 0, T, D) /\ IsList(T, N)
  BY <1>8, <1>9, TextHoldsItself
<1>11. PICK got : got = Imp!ParseCsv(T)
  OBVIOUS
<1>12. PICK r : Runs(r, Parsing(T), Imp!CsvStart, Indices(T), N) /\ got = Closed(r[N])
  BY <1>10, <1>11, ReadRuns
<1>13. TextRead(T, N, r)
  BY <1>10, <1>12 DEF TextRead
<1> DEFINE P(k) == Read(r[at[k]], Firsts(table, k), <<>>, <<>>, FALSE)
           S == {k \in 0 .. m : P(k)}
<1>14. P(0)
  BY <1>8, <1>12, FirstsNone DEF Read, Imp!CsvStart, Runs
<1>15. ASSUME NEW k \in 0 .. m, P(k), k < m PROVE P(k + 1)
  <2>1. PICK j : j = k + 1
    OBVIOUS
  <2>2. j \in 1 .. m /\ j - 1 = k /\ k \in Nat /\ j <= Len(table)
    BY <1>1, <1>15, <2>1
  <2>3. PICK o, z : o = at[k] /\ z = at[j]
    OBVIOUS
  <2>4. Holds(T, N, o, parts[j], D)
    <3>1. 0 + at[j - 1] = o
      BY <1>7, <2>2, <2>3 DEF Laid
    <3> QED  BY <1>7, <1>10, <2>2, <3>1, HoldsPart
  <2>5. z = Shifted(o, parts[j])
    BY <1>7, <2>2, <2>3 DEF Laid, Piece, Shifted
  <2>6. PICK row : row = table[j] /\ row \in Seq(Seq(D)) /\ Len(row) # 0
    BY <1>3, <2>2
  <2>7. IsConcat(parts[j], WrittenRow(row), end)
    BY <1>4, <2>2, <2>6
  <2>8. Read(r[z], Append(Firsts(table, k), row), <<>>, <<>>, FALSE)
    BY <1>13, <1>15, <2>3, <2>4, <2>5, <2>6, <2>7, LineRead
  <2> QED  BY <2>1, <2>2, <2>3, <2>6, <2>8, FirstsNext
<1> HIDE DEF P
<1>16. 0 \in S
  BY <1>1, <1>14
<1>17. \A k \in 0 .. m : k \in S /\ k < m => k + 1 \in S
  BY <1>1, <1>15
<1> HIDE DEF S
<1>18. m \in S
  BY <1>1, <1>16, <1>17, UpTo
<1>19. got = table
  BY <1>1, <1>8, <1>9, <1>12, <1>18, FirstsWhole DEF Closed, Read, P, S
<1> QED  BY <1>2, <1>11, <1>19

LEMMA WiderSeq ==
    ASSUME NEW A, NEW B, A \subseteq B
    PROVE  Seq(A) \subseteq Seq(B)
<1>1. ASSUME NEW s \in Seq(A) PROVE s \in Seq(B)
  <2>1. PICK n : n = Len(s) /\ n \in Nat /\ s = [k \in 1 .. n |-> s[k]]
    BY LenProperties
  <2> QED  BY <2>1, LenProperties
<1> QED  BY <1>1

LEMMA Tables ==
    ASSUME InputKnown, input.kind = "table"
    PROVE  Imp!ParseCsv(WrittenTable(input.table, input.end)) = input.table
<1>1. PICK table, end : table = input.table /\ end = input.end
  OBVIOUS
<1>2. table \in CsvTables /\ end \in LineEnds
  BY <1>1 DEF InputKnown, LineEnds
<1>3. PICK C : C = Characters(table)
  OBVIOUS
<1>4. table \in Seq(Seq(Seq(C)) \ {<<>>})
  BY <1>2, <1>3, WritingAssumption
<1>5. PICK D : D = C \cup SpecialCharacters
  OBVIOUS
<1>6. table \in Seq(Seq(Seq(D)) \ {<<>>})
  BY <1>4, <1>5, WiderSeq
<1> QED  BY <1>1, <1>2, <1>5, <1>6, TableIsRead DEF Alphabet

LEMMA Written == InputKnown => WrittenIsRead
<1> SUFFICES ASSUME InputKnown PROVE WrittenIsRead
  OBVIOUS
<1>1. ASSUME input.kind = "secret"
      PROVE  Totp!Base32Decode(Totp!Base32Encode(input.secret)) = input.secret
  <2>1. PICK bytes : bytes = input.secret
    OBVIOUS
  <2>2. bytes \in Seq(0 .. 255)
    BY <1>1, <2>1, WritingAssumption DEF InputKnown
  <2>3. PICK n : n = Len(bytes) /\ n \in Nat
    BY <2>2, LenProperties
  <2>4. Bytes(bytes, n)
    BY <2>2, <2>3, LenProperties DEF Bytes, Byte
  <2> QED  BY <2>1, <2>2, <2>3, <2>4, SecretIsRead, LenProperties DEF IsList
<1>2. ASSUME input.kind = "code",
             NEW accepted,
             accepted = Totp!VerifyCode(Totp!CodeAt(input.clock + input.skew), input.clock)
      PROVE  /\ -Totp!Period <= input.skew /\ input.skew <= Totp!Period => accepted
             /\ input.skew <= -2 * Totp!Period \/ input.skew >= 2 * Totp!Period => ~accepted
  <2>1. PICK clock, skew : clock = input.clock /\ skew = input.skew
    OBVIOUS
  <2>2. clock \in Int /\ skew \in Int
    BY <1>2, <2>1, WritingAssumption DEF InputKnown
  <2>3. Totp!Period = 30
    BY DEF Totp!Period
  <2> QED  BY <1>2, <2>1, <2>2, <2>3, CodeIsAccepted
<1>3. input.kind = "table" =>
        Imp!ParseCsv(WrittenTable(input.table, input.end)) = input.table
  BY Tables
<1> QED  BY <1>1, <1>2, <1>3 DEF WrittenIsRead

-----------------------------------------------------------------------------
(* The properties of every computation *)

\* Whatever the API throws, and however the request fails on its way: the forms for
\* signing in tell a refusal by its own code and anything else as technical, 401
\* only for what a user can sign in again for; no screen shows the words of an
\* unforeseen exception; and only a request that was lost is sent again
\* (AppException, AllExceptionsFilter, api.ts, LoginForm, DocumentsClient).
THEOREM FailuresToldAlways == Spec => []FailuresAreTold
<1>1. Init => InputKnown
  BY InitKnown
<1>2. InputKnown /\ [Next]_input => InputKnown'
  BY NextKnown
<1>3. InputKnown => FailuresAreTold
  BY Failures
<1> QED  BY <1>1, <1>2, <1>3, PTL DEF Spec

\* Whatever the plans allow and a company has: a limit's check refuses one more
\* exactly when the numbers on the page of the plan say that it is used up, whose
\* bar is then full and red, and the dashboard agrees with the page
\* (BillingService.getOverview, UsageBar, StatsService, the checks).
THEOREM UsageToldAlways == Spec => []UsageTellsTheLimit
<1>1. Init => InputKnown
  BY InitKnown
<1>2. InputKnown /\ [Next]_input => InputKnown'
  BY NextKnown
<1>3. InputKnown => UsageTellsTheLimit
  BY Usages
<1> QED  BY <1>1, <1>2, <1>3, PTL DEF Spec

\* For every fleet, invoice and supplier: what is learned decides only when the
\* answer is the same in every order of equal weights and no plate or VIN of the
\* invoice is known; a known first candidate decides, by its VIN before its plate
\* (resolveVehicleForInvoice).
THEOREM MatchIsDominant == Spec => []OnlyADominantVehicle
<1>1. Init => InputKnown
  BY InitKnown
<1>2. InputKnown /\ [Next]_input => InputKnown'
  BY NextKnown
<1>3. InputKnown => OnlyADominantVehicle
  BY Matches
<1> QED  BY <1>1, <1>2, <1>3, PTL DEF Spec

\* For every fleet and a file of any length: an import creates no vehicle with the
\* plate or VIN of another, accounts for every row, makes no more than its preview
\* said and keeps the limit of the plan (commitImport, analyzeImport).
THEOREM ImportHasNoTwin == Spec => []ImportAddsNoTwin
<1>1. Init => InputKnown
  BY InitKnown
<1>2. InputKnown /\ [Next]_input => InputKnown'
  BY NextKnown
<1>3. InputKnown => ImportAddsNoTwin
  BY Imports
<1> QED  BY <1>1, <1>2, <1>3, PTL DEF Spec

\* Whatever a vehicle has cost: a cost more in the last year never makes the
\* recommendation milder, nothing is counted in both years, and the vehicles are
\* listed by their recommendation (getFleetTco).
THEOREM TrendFollowsCostAlways == Spec => []TrendFollowsCost
<1>1. Init => InputKnown
  BY InitKnown
<1>2. InputKnown /\ [Next]_input => InputKnown'
  BY NextKnown
<1>3. InputKnown => TrendFollowsCost
  BY Years
<1> QED  BY <1>1, <1>2, <1>3, PTL DEF Spec

\* However many reminders a company has, those the dashboard leaves out are never
\* more urgent than those it shows and it leaves none out while it has room; a
\* date is overdue exactly from the day after it (RemindersService.upcoming, evaluate).
THEOREM UrgentFirstAlways == Spec => []UrgentFirst
<1>1. Init => InputKnown
  BY InitKnown
<1>2. InputKnown /\ [Next]_input => InputKnown'
  BY NextKnown
<1>3. InputKnown => UrgentFirst
  BY Urgents
<1> QED  BY <1>1, <1>2, <1>3, PTL DEF Spec

\* Whatever the environment and whatever the outside services answer: the models
\* are asked by preference until one answers or refuses for good, a file is read
\* by the providers that are configured and by stubs otherwise, and a feed that
\* fails costs its own answer only (AppConfigService, the providers, getRecalls).
THEOREM ServicesStandInAlways == Spec => []ServicesStandIn
<1>1. Init => InputKnown
  BY InitKnown
<1>2. InputKnown /\ [Next]_input => InputKnown'
  BY NextKnown
<1>3. InputKnown => ServicesStandIn
  BY Services
<1> QED  BY <1>1, <1>2, <1>3, PTL DEF Spec

\* Whatever the items of the market: behind every published cell stand enough
\* companies that take part and enough vehicles, what the other companies own
\* changes no cell, and its percentiles rise and lie between prices it was made
\* of; a company is compared with published cells only (recompute).
THEOREM CellsAreBackedAlways == Spec => []CellsAreBacked
<1>1. Init => InputKnown
  BY InitKnown
<1>2. InputKnown /\ [Next]_input => InputKnown'
  BY NextKnown
<1>3. InputKnown => CellsAreBacked
  BY Markets
<1> QED  BY <1>1, <1>2, <1>3, PTL DEF Spec

\* Whatever the prices: the median has half of them on either side, at most half
\* stand out, a dearer one never stands out less; the duplicates are the invoices
\* of one supplier with one number (detectPriceSpikes, detectUnusualAmounts,
\* detectDuplicateInvoices).
THEOREM OutliersAreFewAlways == Spec => []OutliersAreFew
<1>1. Init => InputKnown
  BY InitKnown
<1>2. InputKnown /\ [Next]_input => InputKnown'
  BY NextKnown
<1>3. InputKnown => OutliersAreFew
  BY Outliers
<1> QED  BY <1>1, <1>2, <1>3, PTL DEF Spec

\* Whatever the items and the period: a report counts the items whose day lies
\* between the two days asked for, in every time zone of the server, its rows by
\* vehicle and by category sum up to its total and those by month to what has a
\* date; the month before covers each of its days (getSummary, buildDateFilter).
THEOREM ReportsAddUpAlways == Spec => []ReportsAddUp
<1>1. Init => InputKnown
  BY InitKnown
<1>2. InputKnown /\ [Next]_input => InputKnown'
  BY NextKnown
<1>3. InputKnown => ReportsAddUp
  BY Totals
<1> QED  BY <1>1, <1>2, <1>3, PTL DEF Spec

\* Whatever services a vehicle has had, in whatever order they are listed: a
\* learned interval is the mean distance between them, up to the rounding; the
\* suggestion counts from the last of them and lies after all of them; a type
\* that has an active reminder is not suggested (suggestFromHistory,
\* learnIntervals, latestOccurrence).
THEOREM SuggestionFollowsHistoryAlways == Spec => []SuggestionFollowsHistory
<1>1. Init => InputKnown
  BY InitKnown
<1>2. InputKnown /\ [Next]_input => InputKnown'
  BY NextKnown
<1>3. InputKnown => SuggestionFollowsHistory
  BY Suggestions
<1> QED  BY <1>1, <1>2, <1>3, PTL DEF Spec

\* Whatever a table holds: written with quotes where they are needed and either
\* kind of line end, it is read as it was (parseCsv).  Whatever the bytes of a
\* second factor's secret and however many: they are read as they were written
\* in base32 (base32Encode, base32Decode).  At any time: a code is accepted from a
\* clock that is off by no more than a period, and never from one that is off by
\* two (TotpService.verify).
THEOREM WrittenIsReadAlways == Spec => []WrittenIsRead
<1>1. Init => InputKnown
  BY InitKnown
<1>2. InputKnown /\ [Next]_input => InputKnown'
  BY NextKnown
<1>3. InputKnown => WrittenIsRead
  BY Written
<1> QED  BY <1>1, <1>2, <1>3, PTL DEF Spec
=============================================================================
