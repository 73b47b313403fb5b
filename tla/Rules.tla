-------------------------------- MODULE Rules --------------------------------
(***************************************************************************)
(* The computations of the system, each against what it is to compute.  A   *)
(* behaviour chooses one input: a list of reminders, a history, the items   *)
(* of a report, an imported file, and so on.                                *)
(***************************************************************************)
EXTENDS Integers, Sequences, FiniteSets, SequencesExt, Arrays

CONSTANTS
    None, MonthDays, KmBuckets, MinTenants, MinVehicles,
    NormalPlate, NormalVin,
    ReminderLists, DashboardLimits,    \* the dashboard of due reminders
    Moments,                           \* due dates, and when they are looked at
    Histories, ActiveTypes,            \* the services of a vehicle
    ItemLists, Midnights, TimeZones,   \* the items of a report, its period
    PriceLists, InvoiceLists,          \* what anomalies are looked for in
    CostLists, Year,                   \* the items of a vehicle
    MarketLists, Tenants,              \* the items of all tenants
    CsvTables, Secrets,                \* what is written and read again
    Clocks, Skews,                     \* a phone's clock against the server's
    Fleets, ImportFiles, VehicleLimits,\* imports
    CandidateLists, MappingLists,      \* what an invoice and its supplier tell
    DefaultChain, PositiveTexts, Curated,
    Environments,                      \* what the API is started with
    ModelAnswers, FeedAnswers,         \* what the outside services answer
    RecallFleets,                      \* the vehicles recalls are looked for
    Thrown,                            \* what the API throws
    Limits, Databases, MonthLength     \* the plans, and what is used of them

ASSUME RulesAssumption ==
    /\ MonthDays \in Nat \ {0} /\ 0 \in KmBuckets /\ KmBuckets \subseteq Nat
    /\ MinTenants \in Nat \ {0} /\ MinVehicles \in Nat \ {0}
    /\ DashboardLimits \subseteq Nat /\ VehicleLimits \subseteq Nat
    /\ TimeZones \subseteq -12 .. 14 /\ Year \in Nat \ {0}
    /\ Moments \subseteq Int /\ None \notin Int

VARIABLE input

Rem  == INSTANCE ReminderRules
Cost == INSTANCE CostRules
Imp  == INSTANCE ImportRules
Totp == INSTANCE TotpRules
Api  == INSTANCE ApiRoutes
Prov == INSTANCE ProviderRules
Err  == INSTANCE ErrorRules
Use  == INSTANCE UsageRules

\* An exception of the framework has the status of a failure, and a list of
\* messages comes from the validation of the fields.
ASSUME ThrownAssumption ==
    /\ \A t \in Thrown :
         \/ t \in [kind : {"app"}, name : DOMAIN Err!AppException]
         \/ /\ t \in [kind : {"http"}, status : 400 .. 599, message : {"text", "list", None}]
            /\ t.message = "list" => t.status = 400
         \/ t \in [kind : {"other"}]
    /\ None \notin [code : Err!ErrorCode, message : {"given", "own"}]

\* Every plan allows something of everything, and the tables are finite.
ASSUME UsageAssumption ==
    /\ \A tier \in DOMAIN Limits :
         Limits[tier] \in [{"vehicles", "users", "documents"} -> {Use!UNLIMITED} \cup (Nat \ {0})]
    /\ "STARTER" \in DOMAIN Limits
    /\ \A db \in Databases :
         /\ \A tenant \in DOMAIN db.plan : db.plan[tenant] \in {None} \cup DOMAIN Limits
         /\ \A rows \in {db.vehicles, db.memberships, db.invitations, db.documents} :
              IsFiniteSet(rows)

\* A supplier has one mapping for a vehicle, with a weight that begins at 1 and
\* grows; they come in the order of their weights.
ASSUME MappingAssumption ==
    \A ms \in MappingLists :
        /\ ms \in Seq(ToSet(ms))
        /\ \A i \in DOMAIN ms : ms[i].weight \in Nat \ {0}
        /\ \A i, j \in DOMAIN ms : i < j => /\ ms[i].vehicle # ms[j].vehicle
                                          /\ ms[i].weight >= ms[j].weight

\* The reminders of a company have different ids.
ASSUME ReminderAssumption ==
    \A rs \in ReminderLists :
        /\ rs \in Seq([id : Nat, active : BOOLEAN, days : {None} \cup Int, km : {None} \cup Int])
        /\ \A i, j \in DOMAIN rs : rs[i].id = rs[j].id => i = j

\* What a service tells of its date and its mileage is a number or missing.
ASSUME HistoryAssumption ==
    \A items \in Histories :
        /\ items \in Seq(ToSet(items))
        /\ \A it \in ToSet(items) : it.date \in {None} \cup Int /\ it.km \in {None} \cup Int

\* Prices are whole numbers; a total may be missing.  The ends of a period are days:
\* midnights UTC.  That the date of an invoice is one as well is assumed: it is
\* what a date without a time of day is parsed to, and a text of the extraction
\* with a time of day, which nothing refuses (documents.processor.ts:385), is not.
ASSUME CostAssumption ==
    /\ \A items \in ItemLists :
         /\ items \in Seq(ToSet(items))
         /\ \A it \in ToSet(items) : /\ it.price \in Int
                                     /\ it.date # None => Cost!Midnight(it.date)
    /\ \A d \in Midnights : Cost!Midnight(d)
    /\ CostLists \subseteq Seq([price : Int, date : {None} \cup Int])
    /\ \A items \in MarketLists :
         items \in Seq(ToSet(items)) /\ \A it \in ToSet(items) : it.price \in Int
    /\ PriceLists \subseteq Seq({None} \cup Int)
    /\ \A invoices \in InvoiceLists : invoices \in Seq(ToSet(invoices))

\* A variable that holds a list is a list or unset; vehicles are numbered.
ASSUME ServiceAssumption ==
    /\ \A raw \in Environments : \A name \in DOMAIN Prov!Lists :
         raw[name] = None \/ raw[name] \in Seq(ToSet(raw[name]))
    /\ DefaultChain \in Seq(ToSet(DefaultChain))
    /\ \A fleet \in RecallFleets : \A v \in fleet : v.id \in Nat

\* The vehicles of a fleet are numbered.
ASSUME ImportAssumption ==
    /\ \A fleet \in Fleets :
         /\ fleet \in Seq(ToSet(fleet))
         /\ \A i \in DOMAIN fleet :
              i # None /\ fleet[i] = [id |-> i, plate |-> fleet[i].plate, vin |-> fleet[i].vin]
    /\ \A rows \in ImportFiles : rows \in Seq(ToSet(rows))

\* A row has at least one field; a secret consists of bytes.
Characters(table) == UNION {ToSet(f) : f \in UNION {ToSet(row) : row \in ToSet(table)}}

ASSUME WritingAssumption ==
    /\ \A table \in CsvTables : table \in Seq(Seq(Seq(Characters(table))) \ {<<>>})
    /\ Secrets \subseteq Seq(0 .. 255)
    /\ Clocks \subseteq Int /\ Skews \subseteq Int

ASSUME CandidateAssumption == \A cs \in CandidateLists : cs \in Seq(ToSet(cs))

-----------------------------------------------------------------------------
Init == input = [kind |-> "none"]

Given(i) == input' = i

ShowDashboard ==
    \E rs \in ReminderLists, limit \in DashboardLimits :
        Given([kind |-> "dashboard", reminders |-> rs, limit |-> limit])

LookAtDate ==
    \E due \in {t \in Moments : t % Rem!Day = 0}, now \in Moments :
        Given([kind |-> "date", due |-> due, now |-> now])

SuggestMaintenance ==
    \E items \in Histories, active \in ActiveTypes :
        Given([kind |-> "history", items |-> items, active |-> active])

Report ==
    \E items \in ItemLists, from \in Midnights \cup {None},
       to \in Midnights \cup {None}, tz \in TimeZones :
        Given([kind |-> "report", items |-> items, from |-> from, to |-> to, tz |-> tz])

FindAnomalies ==
    \/ \E prices \in PriceLists : Given([kind |-> "prices", prices |-> prices])
    \/ \E invoices \in InvoiceLists :
         Given([kind |-> "invoices", invoices |-> invoices])

CompareYears ==
    \E items \in CostLists, more \in CostLists :
        Given([kind |-> "tco", items |-> items, more |-> more])

RecomputeBenchmark ==
    \E items \in MarketLists, optedIn \in SUBSET Tenants :
        Given([kind |-> "market", items |-> items, optedIn |-> optedIn])

WriteAndRead ==
    \/ \E table \in CsvTables, end \in {<<Imp!NewLine>>, <<Imp!Return, Imp!NewLine>>} :
         Given([kind |-> "table", table |-> table, end |-> end])
    \/ \E secret \in Secrets : Given([kind |-> "secret", secret |-> secret])

EnterCode ==
    \E clock \in Clocks, skew \in Skews :
        Given([kind |-> "code", clock |-> clock, skew |-> skew])

Import ==
    \E fleet \in Fleets, rows \in ImportFiles, limit \in VehicleLimits :
        Given([kind |-> "import", fleet |-> fleet, rows |-> rows, limit |-> limit])

MatchInvoice ==
    \E fleet \in Fleets, candidates \in CandidateLists, mappings \in MappingLists :
        Given([kind |-> "match", fleet |-> fleet, candidates |-> candidates,
               mappings |-> mappings])

CallApi ==
    \E call \in Api!ClientCalls, role \in Api!Role :
        Given([kind |-> "call", call |-> call, role |-> role])

ReadFile ==
    \E raw \in Environments, kind \in {"invoice", "registration", "compliance"},
       ocr \in ModelAnswers, answers \in ModelAnswers :
        Given([kind |-> "file", raw |-> raw, of |-> kind, ocr |-> ocr, answers |-> answers])

AskFeeds ==
    \E raw \in Environments, fleet \in RecallFleets :
        \E answers \in [{v.id : v \in fleet} -> FeedAnswers] :
            Given([kind |-> "feeds", raw |-> raw, fleet |-> fleet, answers |-> answers])

FailRequest ==
    \E thrown \in Thrown, way \in {"api", "proxy", "lost", "cut"} :
        Given([kind |-> "failure", thrown |-> thrown, way |-> way])

ShowUsage ==
    \E db \in Databases, now \in MonthLength .. 2 * MonthLength :
        Given([kind |-> "usage", db |-> db, now |-> now])

Next ==
    /\ input.kind = "none"
    /\ \/ ShowDashboard \/ LookAtDate \/ SuggestMaintenance \/ Report
       \/ FindAnomalies \/ CompareYears \/ RecomputeBenchmark \/ WriteAndRead
       \/ EnterCode \/ Import \/ MatchInvoice \/ CallApi
       \/ ReadFile \/ AskFeeds \/ FailRequest \/ ShowUsage

Spec == Init /\ [][Next]_input

-----------------------------------------------------------------------------
(* Reminders *)

\* The dashboard has room for a few reminders: those it leaves out are never
\* more urgent than those it shows, and it leaves none out while it has room
\* (RemindersService.upcoming, whose order mixes a rank with a number of days: a
\* date a million days ahead would count as a rank).
\* A date is due soon all through its own day and overdue from the next
\* (evaluate, which rounds a difference of moments up).
UrgentFirst ==
    /\ /\ input.kind = "dashboard"
       /\ \A r \in ToSet(input.reminders) : r.days = None \/ r.days < Rem!RankStep
       =>
         LET rs    == input.reminders
             shown == Rem!Upcoming(rs, input.limit)
             ids   == {v.id : v \in ToSet(shown)}
             due   == {v \in {Rem!View(r) : r \in ToSet(rs)} :
                         v.active /\ v.status # "ok"}
         IN  /\ Len(shown) = IF Cardinality(due) < input.limit
                             THEN Cardinality(due) ELSE input.limit
             /\ \A v \in ToSet(shown), w \in {w \in due : w.id \notin ids} :
                  Rem!Urgency[v.status] <= Rem!Urgency[w.status]
    /\ input.kind = "date" =>
         LET days == Rem!DaysRemaining(input.due, input.now)
             late == input.now \div Rem!Day - input.due \div Rem!Day
         IN  (Rem!Evaluate(days, None) = "overdue") <=> late > 0

\* A learned interval is the mean of the distances between the services: times
\* their number it gives the whole span, up to the rounding.  A suggestion is
\* counted from the last dated service, in whatever order the rows come, and
\* lies after every service there has been; a type with an active reminder is
\* not suggested (suggestFromHistory, learnIntervals, latestOccurrence).
SuggestionFollowsHistory ==
    input.kind = "history" =>
      \A sg \in Rem!SuggestFromHistory(input.items, input.active) :
        LET mine  == {it \in ToSet(input.items) :
                        Rem!DetectMaintenanceType(it) = sg.type}
            dates == {it.date : it \in mine} \ {None}
            kms   == {it.km : it \in mine} \ {None}
            span(S) == Max(S) - Min(S)
            n     == Cardinality(kms) - 1
        IN  /\ sg.type \notin input.active
            /\ n > 0 => LET gap == 2 * (sg.km * n - span(kms))
                        IN  -n <= gap /\ gap <= n
            /\ n <= 0 => sg.km = Rem!DefaultIntervals[sg.type].km
            /\ dates # {} => /\ sg.lastDate \in dates
                             /\ \A d \in dates : d <= sg.lastDate /\ d < sg.dueDate
            /\ dates = {} /\ kms # {} =>
                 sg.lastKm \in kms /\ \A k \in kms : k <= sg.lastKm

-----------------------------------------------------------------------------
(* Costs *)

\* A report counts an item exactly when the day of its invoice lies between the
\* two days asked for, whatever time zone the server runs in, and every one of
\* its breakdowns adds up to the total (getSummary, buildDateFilter).  The
\* monthly report covers its month, the first and the last day included, on a
\* server that runs in UTC (previousMonthRange).
ReportsAddUp ==
    input.kind = "report" =>
      LET sum    == Cost!Summary(input.items, input.from, input.to, input.tz)
          month(now) == Cost!PreviousMonthRange(now, input.tz)
          within(it) == /\ (input.from # None \/ input.to # None) => it.date # None
                        /\ input.from # None => it.date >= input.from
                        /\ input.to # None => it.date <= input.to
          counted == Where(input.items, within)
          total(rows) == Cost!Total([i \in 1 .. Cardinality(DOMAIN rows) |->
                            rows[SetToSeq(DOMAIN rows)[i]].total])
          dated == Where(counted, LAMBDA it : it.date # None)
      IN  /\ sum.itemCount = Len(counted)
          /\ sum.itemTotal = Cost!Total(Cost!Prices(counted))
          /\ total(sum.byVehicle) = sum.itemTotal
          /\ total(sum.byCategory) = sum.itemTotal
          /\ total(sum.byMonth) = Cost!Total(Cost!Prices(dated))
          /\ input.tz = 0 =>
               \A now, d \in Midnights :
                  Cost!InPeriod(d, month(now).from, month(now).to, 0)
                     <=> Cost!MonthOf(d, 0) = Cost!MonthOf(now, 0) - 1

\* The median has at least half of the values on either side.  At most half of
\* a group can therefore stand out, a dearer item of the same kind never stands
\* out less, and the invoices reported as duplicates are those of one supplier
\* with one number (detectPriceSpikes, detectUnusualAmounts,
\* detectDuplicateInvoices).
OutliersAreFew ==
    /\ input.kind = "prices" =>
         LET p  == Where(input.prices, LAMBDA x : x # None /\ x > 0)
             n  == Len(p)
             m2 == Cost!Median2(p)
             spikes  == Cost!PriceSpikes(p)
             unusual == Cost!UnusualAmounts(input.prices)
         IN  /\ 2 * Cardinality({i \in 1 .. n : 2 * p[i] <= m2}) >= n
             /\ 2 * Cardinality({i \in 1 .. n : 2 * p[i] >= m2}) >= n
             /\ 2 * Cardinality(spikes) <= n /\ 2 * Cardinality(unusual) <= n
             /\ \A a \in spikes, i \in 1 .. n :
                  p[i] >= p[a.index] =>
                    \E b \in spikes : /\ b.index = i
                                      /\ Cost!SeverityRank[b.severity]
                                           <= Cost!SeverityRank[a.severity]
    /\ input.kind = "invoices" =>
         LET groups == Cost!DuplicateInvoices(input.invoices)
             twin(i, j) == /\ input.invoices[i].number # None
                           /\ input.invoices[i].number = input.invoices[j].number
                           /\ input.invoices[i].supplier = input.invoices[j].supplier
         IN  /\ \A g \in groups : g.count =
                  Cardinality({i \in DOMAIN input.invoices : twin(i, g.first)})
             /\ \A i, j \in DOMAIN input.invoices :
                  i # j /\ twin(i, j) => \E g \in groups : twin(i, g.first)

\* A cost more in the last year never makes the recommendation milder, and no
\* cost is counted in both years (getFleetTco).
TrendFollowsCost ==
    input.kind = "tco" =>
      LET recent == Where(input.more, LAMBDA it : Cost!InRecentYear(it, 2 * Year, Year))
          v == Cost!VehicleTco(input.items, 2 * Year, Year)
          w == Cost!VehicleTco(input.items \o recent, 2 * Year, Year)
          fleet == Cost!FleetTco(<<input.items, input.more>>, 2 * Year, Year)
      IN  /\ v.recent + v.prior <= v.total
          /\ Cost!TcoRank[w.recommendation] <= Cost!TcoRank[v.recommendation]
          /\ \A i, j \in DOMAIN fleet : i < j =>
               Cost!TcoRank[fleet[i].recommendation] <= Cost!TcoRank[fleet[j].recommendation]

\* A market cell is published only when enough companies that take part, with
\* enough vehicles among them, stand behind it; the items of a company that
\* does not take part change nothing in it, and every percentile lies between
\* the prices it was made of (recompute).  A company is compared with the
\* published cells only.
CellsAreBacked ==
    input.kind = "market" =>
      LET cells == Cost!Recompute(input.items, input.optedIn)
          mine(k) == {it \in ToSet(input.items) :
                        /\ it.tenant \in input.optedIn /\ Cost!Usable(it)
                        /\ Cost!CellOf(it) = k}
          theirs == Where(input.items, LAMBDA it : it.tenant \in input.optedIn)
      IN  /\ \A k \in DOMAIN cells :
               /\ Cardinality({it.tenant : it \in mine(k)}) >= MinTenants
               /\ Cardinality({it.vehicle : it \in mine(k)}) >= MinVehicles
               /\ cells[k].p25 <= cells[k].median100 /\ cells[k].median100 <= cells[k].p75
               /\ \E lo, hi \in mine(k) : /\ 100 * lo.price <= cells[k].p25
                                          /\ 100 * hi.price >= cells[k].p75
          /\ cells = Cost!Recompute(theirs, Tenants)
          /\ \A t \in Tenants :
               DOMAIN Cost!GetComparison(input.items, t, cells) \subseteq DOMAIN cells

-----------------------------------------------------------------------------
(* Imports, matching, conversions *)

\* A field is put in quotes, and its quotes are doubled, when it holds a
\* character that the reader would take for something else.
SpecialCharacters == {Imp!Quote, Imp!Delimiter, Imp!Return, Imp!NewLine}

WrittenField(f) ==
    IF ToSet(f) \cap SpecialCharacters = {} THEN f
    ELSE <<Imp!Quote>>
           \o FlattenSeq([i \in DOMAIN f |->
                IF f[i] = Imp!Quote THEN <<f[i], f[i]>> ELSE <<f[i]>>])
           \o <<Imp!Quote>>

WrittenRow(row) ==
    FlattenSeq([i \in DOMAIN row |->
        IF i = 1 THEN WrittenField(row[i]) ELSE <<Imp!Delimiter>> \o WrittenField(row[i])])

WrittenTable(table, end) ==
    FlattenSeq([i \in DOMAIN table |-> WrittenRow(table[i]) \o end])

\* A table written with quotes where they are needed is read as it was, with
\* either kind of line end (parseCsv); a second factor's secret is read as it
\* was generated (base32Encode, base32Decode).  A code from a phone whose clock
\* is off by no more than a period is accepted as it is shown, and no code of
\* two periods ago, or ahead, ever is (TotpService.verify, the +-1 window).
WrittenIsRead ==
    /\ input.kind = "table" =>
         Imp!ParseCsv(WrittenTable(input.table, input.end)) = input.table
    /\ input.kind = "secret" =>
         Totp!Base32Decode(Totp!Base32Encode(input.secret)) = input.secret
    /\ input.kind = "code" =>
         LET accepted == Totp!VerifyCode(Totp!CodeAt(input.clock + input.skew), input.clock)
         IN  /\ -Totp!Period <= input.skew /\ input.skew <= Totp!Period => accepted
             /\ input.skew <= -2 * Totp!Period \/ input.skew >= 2 * Totp!Period => ~accepted

\* An import creates no vehicle that shares a plate or a VIN, however they are
\* written, with another one: neither with a vehicle there was, nor with one
\* that the same file has created or changed.  Every row is created, updated or
\* skipped, never more than the preview said, and the plan's limit holds
\* (commitImport, analyzeImport).
ImportAddsNoTwin ==
    input.kind = "import" =>
      LET before == Len(input.fleet)
          result == Imp!CommitImport(input.fleet, input.rows, input.limit)
          after  == result.vehicles
          said   == Imp!PreviewImport(input.fleet, input.rows)
          plate(v) == IF v.plate = Imp!Blank THEN Imp!Blank ELSE NormalPlate[v.plate]
          vin(v)   == IF v.vin = Imp!Blank THEN Imp!Blank ELSE NormalVin[v.vin]
          same(v, w) == \/ plate(v) # Imp!Blank /\ plate(v) = plate(w)
                        \/ vin(v) # Imp!Blank /\ vin(v) = vin(w)
      IN  /\ \A i \in before + 1 .. Len(after), j \in DOMAIN after :
               i # j => ~same(after[i], after[j])
          /\ result.created + result.updated + result.skipped = said.total
          /\ result.created <= said.create /\ result.updated <= said.update
          /\ Len(after) = before + result.created
          /\ Len(after) <= before \/ Len(after) <= input.limit

\* What is learned of a supplier decides for a vehicle only when the answer does
\* not depend on the order in which the database returns mappings of the same
\* weight, and never when a plate or VIN of the invoice is known.  Of the candidates
\* on the invoice the first known one decides, by its VIN before its plate: a VIN
\* of a later candidate does not win over it (resolveVehicleForInvoice).
OnlyADominantVehicle ==
    input.kind = "match" =>
      LET fleet == input.fleet
          match == Imp!ResolveVehicle(fleet, input.candidates, input.mappings)
          sorted(s) == \A i, j \in DOMAIN s : i < j => s[i].weight >= s[j].weight
          orders == {s \in SetToSeqs(ToSet(input.mappings)) : sorted(s)}
      IN  /\ \A s \in orders :
               Imp!ResolveVehicle(fleet, input.candidates, s).vehicle = match.vehicle
          /\ \A c \in ToSet(input.candidates) :
               Imp!ByVin(fleet, c.vin) # None \/ Imp!ByPlate(fleet, c.plate) # None
                 => match.source \in {"vin", "plate"}
          /\ \A c \in {input.candidates[i] : i \in DOMAIN input.candidates \cap {1}} :
               Imp!ByVin(fleet, c.vin) # None => match.vehicle = Imp!ByVin(fleet, c.vin)

\* As the comments of the service have it, a VIN anywhere on the invoice is tried
\* before any plate (matching.service.ts:23,55-58).  It is not: the loop tries the
\* plate of a candidate before the VIN of the next one.
VinBeforePlate ==
    input.kind = "match" =>
      \A c \in ToSet(input.candidates) :
        Imp!ByVin(input.fleet, c.vin) # None =>
          Imp!ResolveVehicle(input.fleet, input.candidates, input.mappings).source = "vin"

-----------------------------------------------------------------------------
(* The API and its client *)

\* Every call of the web client reaches the handler it is for, although an
\* identifier in a path matches the words of other routes (GET /reminders/:id
\* and /reminders/upcoming); it is sent without a token only where none is
\* asked for; and a VIEWER, who is a member that only reads, is admitted to no
\* handler that changes what the company owns (the controllers, api.ts).
CallsArrive ==
    input.kind = "call" =>
      \E route \in Api!Resolve(input.call.method, input.call.path) :
        /\ route.handler = input.call.handler
        /\ input.call.anonymous <=> route.access = "public"
        /\ input.role = "VIEWER" /\ route.access = "member" /\ route.method # "GET"
             => input.role \notin route.roles \/ route.handler = "subscribe"

-----------------------------------------------------------------------------
(* The outside services, failures, usage *)

\* The preferred model is asked first, and a file fails for want of a model only
\* when every model there is has refused for the moment.  It is read if, in the
\* OCR and then in the extraction, some model answers before one refuses for
\* good.  Its own content is read only with both providers set to gemini and
\* the key given: otherwise the sample of a stub is; without a key no model is
\* asked (AppConfigService.gemini, the factories, the providers).  A feed that
\* fails or has no URL costs its own answer and never that of another vehicle
\* (BenchmarkService.getRecalls, RoVerificationProvider.verify).
ServicesStandIn ==
    /\ input.kind = "file" => \A env \in Prov!ValidateEnv(input.raw) :
         LET chain  == Prov!GeminiModels(env)
             listed == ToSet(Prov!Listed(env.GEMINI_MODELS))
             known  == (IF listed = {} THEN ToSet(DefaultChain) ELSE listed)
                         \cup ({env.GEMINI_MODEL} \ {Prov!Blank})
             result == Prov!Read(input.of, env, "file", input.ocr, input.answers).result
             asked  == Prov!Recognize(env, "file", input.ocr).asked
                         \o Prov!Read(input.of, env, "file", input.ocr, input.answers).asked
             limited(answers) ==
               {m \in known : answers[m].status \in Prov!FALLBACK_STATUSES}
             reads == {m \in known : /\ input.ocr[m].status = 200
                                     /\ input.ocr[m].body # Prov!Blank}
             fits  == {m \in known : /\ input.answers[m].status = 200
                                     /\ input.answers[m].body = "data"}
             answered(answers, models) == \E i \in DOMAIN chain :
               /\ chain[i] \in models
               /\ \A j \in 1 .. i - 1 : chain[j] \in limited(answers)
             seen   == env.OCR_PROVIDER = "gemini" /\ Prov!HasKey(env)
             parsed == env.EXTRACTION_PROVIDER = "gemini" /\ Prov!HasKey(env)
         IN  /\ asked # <<>> /\ env.GEMINI_MODEL # Prov!Blank => Head(asked) = env.GEMINI_MODEL
             /\ result = Prov!Exhausted =>
                  known \in {limited(input.ocr), limited(input.answers)}
             /\ result.ok <=> /\ seen => answered(input.ocr, reads)
                              /\ parsed => answered(input.answers, fits)
             /\ result.ok => result.of = IF seen /\ parsed THEN "file" ELSE "sample"
             /\ ~Prov!HasKey(env) => asked = <<>>
    /\ input.kind = "feeds" => \A env \in Prov!ValidateEnv(input.raw) :
         LET own(v) == {r.reference : r \in Prov!QueryRecalls(env, v, input.answers[v.id])}
             shown  == Prov!GetRecalls(env, input.fleet, input.answers)
             same(v, w) == v.make = w.make /\ v.model = w.model /\ v.year = w.year
         IN  /\ shown \subseteq UNION {own(v) : v \in input.fleet}
             /\ \A v \in input.fleet :
                  /\ \E w \in input.fleet : same(v, w) /\ own(w) \subseteq shown
                  /\ LET check == Prov!Verify(env, [plate |-> v.make, vin |-> v.model],
                                              input.answers[v.id])
                     IN  /\ check.called => env.RO_VERIFY_API_URL # Prov!Blank
                         /\ check.status = "error" /\ check.called =>
                              \/ input.answers[v.id].status # 200
                              \/ input.answers[v.id].body = "words"
             /\ Prov!WebAppUrl(env) # Prov!Blank

\* What the browser gets of what the API throws, and makes an error of: the answer
\* of the API, that of a proxy before it, or none.
Received(thrown, way) ==
    LET response == Err!toErrorResponse(thrown) IN
    Err!performRequest(
      CASE way = "api"   -> [kind |-> "told", status |-> response.status,
                             body |-> response.body]
        [] way = "proxy" -> [kind |-> "told", status |-> 502, body |-> None]
        [] OTHER -> [kind |-> way])

\* The forms for signing in turn whatever fails into an error with a translation.
\* There and in the scan of a registration, what the API refuses keeps its code or
\* its words, and what it did not foresee is shown as technical.  The other screens
\* show the words of the answer, those of the exception only if it was meant for an
\* answer: what an unforeseen one says stays at the API.  401 is kept for what a
\* user can sign in again for, and only a request without any answer is sent again
\* (AppException, AllExceptionsFilter, api.ts, LoginForm, VehicleScanModal,
\* DocumentsClient).
FailuresAreTold ==
    input.kind = "failure" =>
      LET thrown == input.thrown
          err    == Received(thrown, input.way)
          form == Err!formError(err)
          scan == Err!scanErrorMessage(err)
          refused == /\ input.way = "api"
                     /\ thrown.kind = "http" => thrown.status < 500
                     /\ thrown.kind # "other"
      IN  /\ form.text \in Err!KNOWN_ERROR_KEYS
          /\ refused <=> form.text \notin {"INTERNAL_ERROR", "NETWORK_ERROR"}
          /\ refused <=> scan.text # "errorScan"
          /\ refused => form.suffix = ""
          /\ ~refused /\ input.way # "cut" => form.suffix # "" /\ scan.suffix = form.suffix
          /\ refused /\ thrown.kind = "app" =>
               form.text = Err!AppException[thrown.name].code
          /\ refused => (err.status = 401 <=> form.text \in
                           {"AUTH_INVALID_CREDENTIALS", "AUTH_TOKEN_EXPIRED",
                            "AUTH_TOKEN_INVALID", "AUTH_UNAUTHORIZED"})
          /\ Err!Retried(err) <=> input.way = "lost"
          /\ Err!screenError(err) = "given" => input.way = "api" /\ thrown.kind # "other"
          /\ input.way = "api" /\ thrown.kind = "app" => Err!screenError(err) = "given"

\* The API is said to answer with codes so that the client translates them and no
\* text is hard-coded (errors.ts:2-3).  Most screens show the text of the answer.
CodesAreTranslated ==
    input.kind = "failure" =>
      Err!screenError(Received(input.thrown, input.way)) \in Err!KNOWN_ERROR_KEYS \cup {"fallback"}

\* The page of the plan tells what the checks decide by: a company is refused a
\* vehicle, a member or a document exactly when the numbers on the page say that
\* its limit is used up, and then the bar is full and red.  (A full bar says less:
\* 199 of 200 are rounded to it, too.)  The dashboard agrees with the page, and its
\* counts are parts of its total (BillingService.getOverview, UsageBar,
\* StatsService, and the checks of the documents, the vehicles and the users).
UsageTellsTheLimit ==
    input.kind = "usage" =>
      \A tenant \in DOMAIN input.db.plan :
        LET page  == Use!getOverview(input.db, tenant, input.now, MonthLength)
            bars  == Use!usageRows(page)
            stats == Use!getDashboardStats(input.db, tenant, input.now, MonthLength)
            admitted == [
              vehicles  |-> Use!assertVehicleLimit(input.db, tenant),
              users     |-> Use!assertUserLimit(input.db, tenant, input.now),
              documents |-> Use!assertMonthlyDocumentLimit(input.db, tenant, input.now,
                                                           MonthLength)]
        IN  /\ \A row \in DOMAIN page.usage :
                 /\ admitted[row] <=> ~bars[row].shown \/ page.usage[row] < page.limits[row]
                 /\ ~admitted[row] => bars[row].percent = 100 /\ bars[row].colour = "red"
            /\ stats.thisMonth = page.usage.documents
            /\ stats.vehicles = page.usage.vehicles
            /\ stats.needsReview + stats.processing + stats.confirmed <= stats.total
            /\ stats.rate[1] <= stats.confirmed /\ stats.rate[1] <= stats.rate[2]
=============================================================================
