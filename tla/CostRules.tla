------------------------------ MODULE CostRules ------------------------------
(***************************************************************************)
(* What ReportsService, InsightsService and BenchmarkService                *)
(* compute from the invoices: the totals of a period, the anomalies, the    *)
(* cost trend of the vehicles and the market medians.                       *)
(*                                                                          *)
(* Money is a natural number.  Medians and percentiles are doubled or taken *)
(* times 100, so that the ratios they are compared with stay exact.  A      *)
(* moment is a number of hours; months are short.                           *)
(***************************************************************************)
EXTENDS Integers, Sequences, FiniteSets, Functions, Arrays

CONSTANTS
    None,       \* null
    MonthDays,  \* bound: the days of a month
    KmBuckets,  \* KM_BUCKETS: the lower bounds, the first is 0
    MinTenants, \* BENCHMARK_MIN_TENANTS
    MinVehicles \* BENCHMARK_MIN_VEHICLES

Hours == 24
Midnight(t) == t \in Int /\ t % Hours = 0

Total(s) == SumFunction(s)
Prices(items) == [i \in DOMAIN items |-> items[i].price]
Largest(S) == CHOOSE x \in S : \A y \in S : x >= y

-----------------------------------------------------------------------------
(* Reports *)

\* The dates of a query are midnights UTC; `to` is moved to the last
\* millisecond, here the last hour, of the local day it falls on.  tz is the
\* server's distance from UTC.
StartOfNextLocalDay(t, tz) == ((t + tz) \div Hours + 1) * Hours - tz

EndOfLocalDay(t, tz) == ((t + tz) \div Hours + 1) * Hours - 1 - tz

InPeriod(date, from, to, tz) ==
    \/ from = None /\ to = None
    \/ /\ date # None
       /\ from # None => date >= from
       /\ to # None => date <= EndOfLocalDay(to, tz)

LoadItems(items, from, to, tz) ==
    Where(items, LAMBDA it : InPeriod(it.date, from, to, tz))

\* The local month a moment falls in, counted from the epoch.
MonthOf(t, tz) == ((t + tz) \div Hours) \div MonthDays

\* One row per key, with the items it sums up.
RowsBy(items, Key(_)) ==
    [k \in {Key(it) : it \in Range(items)} |->
        LET mine == Where(items, LAMBDA it : Key(it) = k)
        IN  [total |-> Total(Prices(mine)), count |-> Len(mine)]]

Summary(items, from, to, tz) ==
    LET loaded == LoadItems(items, from, to, tz)
        dated  == Where(loaded, LAMBDA it : it.date # None)
    IN  [itemTotal    |-> Total(Prices(loaded)),
         itemCount    |-> Len(loaded),
         invoiceCount |-> Cardinality({it.invoice : it \in Range(loaded)}),
         byVehicle    |-> RowsBy(loaded, LAMBDA it : it.vehicle),
         byCategory   |-> RowsBy(loaded, LAMBDA it : it.category),
         byMonth      |-> RowsBy(dated, LAMBDA it : MonthOf(it.date, tz))]

\* The first and the last moment of the month before now, as local midnights
\* cut down to the date they have in UTC.
PreviousMonthRange(now, tz) ==
    LET first(m) == m * MonthDays * Hours - tz
        utcDate(t) == (t \div Hours) * Hours
        this == MonthOf(now, tz)
    IN  [from |-> utcDate(first(this - 1)), to |-> utcDate(first(this) - 1)]

-----------------------------------------------------------------------------
(* Anomalies *)

Sorted(s) == SortedBy(s, <)

\* Twice the median.
Median2(s) ==
    LET n == Len(s)  mid == n \div 2  o == Sorted(s)
    IN  IF n = 0 THEN 0
        ELSE IF n % 2 = 0 THEN o[mid] + o[mid + 1] ELSE 2 * o[mid + 1]

\* Math.round((value / base - 1) * 100), with twice the base given.
DeltaPct(value, base2) == (400 * value + base2) \div (2 * base2) - 100

PriceSeverity(delta) ==
    IF delta >= 120 THEN "high" ELSE IF delta >= 80 THEN "medium" ELSE "low"

\* PRICE_SPIKE_RATIO is 1.5: the indices of the entries, of one part type or
\* name, that cost at least that many times the median.
PriceSpikes(units) ==
    LET base2 == Median2(units)
    IN  IF Len(units) < 3 \/ base2 = 0 THEN {}
        ELSE {[index |-> i, delta |-> DeltaPct(units[i], base2),
               severity |-> PriceSeverity(DeltaPct(units[i], base2))] :
                i \in {i \in DOMAIN units : 4 * units[i] >= 3 * base2}}

\* UNUSUAL_AMOUNT_RATIO is 3: invoices without a positive total are left out.
UnusualAmounts(totals) ==
    LET positive == Where(totals, LAMBDA g : g # None /\ g > 0)
        base2    == Median2(positive)
    IN  IF Len(positive) < 5 THEN {}
        ELSE {[index |-> i, delta |-> DeltaPct(totals[i], base2),
               severity |-> IF 2 * totals[i] >= 5 * base2 THEN "high" ELSE "medium"] :
                i \in {i \in DOMAIN totals :
                         totals[i] # None /\ totals[i] > 0 /\ 2 * totals[i] >= 3 * base2}}

DuplicateInvoicesByNumber(invoices) ==
    LET group(k) == {i \in DOMAIN invoices : invoices[i].number = k}
    IN  {[first |-> CHOOSE i \in group(k) : \A j \in group(k) : i <= j,
          count |-> Cardinality(group(k))] :
            k \in {k \in {inv.number : inv \in Range(invoices)} :
                     k # None /\ Cardinality(group(k)) >= 2}}

\* Invoices without a number are no duplicates of each other.
DuplicateInvoices(invoices) ==
    LET key(inv) == <<inv.supplier, inv.number>>
        group(k) == {i \in DOMAIN invoices : key(invoices[i]) = k}
        keys     == {key(inv) : inv \in {inv \in Range(invoices) : inv.number # None}}
    IN  {[first |-> CHOOSE i \in group(k) : \A j \in group(k) : i <= j,
          count |-> Cardinality(group(k))] :
            k \in {k \in keys : Cardinality(group(k)) >= 2}}

SeverityRank == [high |-> 0, medium |-> 1, low |-> 2]

-----------------------------------------------------------------------------
(* Total cost of ownership: the last year against the one before *)

TcoWatchPct == 25       \* TCO_WATCH_TREND_PCT
TcoReplacePct == 50     \* TCO_REPLACE_TREND_PCT
TcoRank == [consider_replacement |-> 0, watch |-> 1, ok |-> 2]

InRecentYear(it, now, year) == it.date # None /\ it.date >= now - year
InLastTwoYears(it, now, year) == it.date # None /\ it.date >= now - 2 * year

InPriorYear(it, now, year) ==
    it.date # None /\ it.date < now - year /\ it.date >= now - 2 * year

Recommendation(trend) ==
    IF trend = None THEN "ok"
    ELSE IF trend >= TcoReplacePct THEN "consider_replacement"
    ELSE IF trend >= TcoWatchPct THEN "watch" ELSE "ok"

VehicleTco(items, now, year) ==
    LET priced == Where(items, LAMBDA it : it.price > 0)
        cost(Test(_)) == Total(Prices(Where(priced, Test)))
        recent == cost(LAMBDA it : InRecentYear(it, now, year))
        prior  == cost(LAMBDA it : InPriorYear(it, now, year))
        trend  == IF prior > 0 THEN DeltaPct(recent, 2 * prior) ELSE None
    IN  [total |-> Total(Prices(priced)), recent |-> recent, prior |-> prior,
         trend |-> trend, recommendation |-> Recommendation(trend)]

\* A vehicle that has cost nothing is not listed.
FleetTco(vehicles, now, year) ==
    LET tco == [i \in DOMAIN vehicles |-> VehicleTco(vehicles[i], now, year)]
    IN  SortedBy(Where(tco, LAMBDA v : v.total > 0),
          LAMBDA x, y : \/ TcoRank[x.recommendation] < TcoRank[y.recommendation]
                        \/ /\ x.recommendation = y.recommendation
                           /\ x.total > y.total)

-----------------------------------------------------------------------------
(* Market medians *)

\* One hundred times the p-th percentile, by linear interpolation.
Percentile100(s, p) ==
    LET o    == Sorted(s)
        rank == p * (Len(s) - 1)
        lo   == rank \div 100
        hi   == IF rank % 100 = 0 THEN lo ELSE lo + 1
    IN  IF s = <<>> THEN 0
        ELSE o[lo + 1] * (100 - (rank % 100)) + o[hi + 1] * (rank % 100)

KmBucketOf(km) ==
    IF km = None \/ km < 0 THEN -1 ELSE Largest({b \in KmBuckets : km >= b})

WithinPct == 15      \* BENCHMARK_WITHIN_PCT

PositionOf(delta) ==
    IF delta > WithinPct THEN "above"
    ELSE IF delta < -WithinPct THEN "below" ELSE "within"

\* An item counts when its vehicle, its category and its currency are known.
CellOf(it) == <<it.model, it.category, KmBucketOf(it.km), it.currency>>
Usable(it) == it.price > 0 /\ None \notin {it.vehicle, it.model, it.currency}

RecomputeByItems(items, optedIn) ==
    LET mine(k) == Where(items, LAMBDA it :
                      it.tenant \in optedIn /\ Usable(it) /\ CellOf(it) = k)
        keys == {CellOf(it) : it \in {it \in Range(items) : Usable(it)}}
    IN  [k \in {k \in keys : /\ Len(mine(k)) >= MinTenants
                             /\ Len(mine(k)) >= MinVehicles} |->
            [median100 |-> Percentile100(Prices(mine(k)), 50),
             p25 |-> Percentile100(Prices(mine(k)), 25),
             p75 |-> Percentile100(Prices(mine(k)), 75),
             sampleTenants |-> Len(mine(k)), sampleVehicles |-> Len(mine(k))]]

\* The cells published: the opted-in tenants' items by cell, where enough
\* tenants and enough vehicles stand behind them.
Recompute(items, optedIn) ==
    LET mine(k) == Where(items, LAMBDA it :
                      it.tenant \in optedIn /\ Usable(it) /\ CellOf(it) = k)
        tenants(k)  == {it.tenant : it \in Range(mine(k))}
        vehicles(k) == {it.vehicle : it \in Range(mine(k))}
        keys == {CellOf(it) : it \in {it \in Range(items) : Usable(it)}}
    IN  [k \in {k \in keys : /\ Cardinality(tenants(k)) >= MinTenants
                             /\ Cardinality(vehicles(k)) >= MinVehicles} |->
            [median100 |-> Percentile100(Prices(mine(k)), 50),
             p25 |-> Percentile100(Prices(mine(k)), 25),
             p75 |-> Percentile100(Prices(mine(k)), 75),
             sampleTenants |-> Cardinality(tenants(k)),
             sampleVehicles |-> Cardinality(vehicles(k))]]

\* A tenant's own cells, with at least two items, against the published ones.
GetComparison(items, tenant, published) ==
    LET mine(k) == Where(items, LAMBDA it :
                      it.tenant = tenant /\ Usable(it) /\ CellOf(it) = k)
        median(k) == Percentile100(Prices(mine(k)), 50)
        delta(k)  == DeltaPct(median(k), 2 * published[k].median100)
    IN  [k \in {k \in DOMAIN published : Len(mine(k)) >= 2} |->
            [delta |-> delta(k), position |-> PositionOf(delta(k))]]
=============================================================================
