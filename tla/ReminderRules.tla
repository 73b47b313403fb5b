---------------------------- MODULE ReminderRules ----------------------------
(***************************************************************************)
(* What RemindersService computes: how urgent a reminder is, which ones the *)
(* dashboard shows, and the maintenance it suggests from the services a     *)
(* vehicle has had.                                                         *)
(*                                                                          *)
(* A moment is a number of quarters of a day since an epoch, a date the     *)
(* midnight it starts at; item names are the sets of words they contain.    *)
(***************************************************************************)
EXTENDS Integers, Sequences, Functions, Arrays

CONSTANT None   \* null

Day == 4                     \* quarters in a day (DAY_MS)
SoonInDays == 30             \* REMINDER_DUE_SOON_DAYS
SoonInKm == 1500             \* REMINDER_DUE_SOON_KM

CeilDiv(a, b) == -((-a) \div b)
RoundDiv(a, b) == (2 * a + b) \div (2 * b)     \* Math.round(a / b)

-----------------------------------------------------------------------------
(* Urgency *)

DaysRemainingDown(due, now) ==
    IF due = None THEN None ELSE (due - now) \div Day

DaysRemaining(due, now) == IF due = None THEN None ELSE CeilDiv(due - now, Day)

KmRemaining(dueKm, odometer) ==
    IF None \in {dueKm, odometer} THEN None ELSE dueKm - odometer

Below(n, bound) == n # None /\ n < bound

Evaluate(days, km) ==
    IF Below(days, 0) \/ Below(km, 0) THEN "overdue"
    ELSE IF Below(days, SoonInDays + 1) \/ Below(km, SoonInKm + 1) THEN "due_soon"
    ELSE "ok"

Urgency == [overdue |-> 0, due_soon |-> 1, ok |-> 2]

\* A reminder as the list shows it.
View(r) == [id |-> r.id, active |-> r.active, days |-> r.days,
            status |-> Evaluate(r.days, r.km)]

\* One number orders by the rank first, then by the days.
RankStep == 1000000

SortKey(v) == Urgency[v.status] * RankStep
                 + (IF v.days = None THEN 99999 ELSE v.days)

List(rs) == SortedBy([i \in DOMAIN rs |-> View(rs[i])],
                    LAMBDA a, b : SortKey(a) < SortKey(b))

Shown(v) == v.active /\ v.status \in {"overdue", "due_soon"}

Upcoming(rs, limit) ==
    LET due == Where(List(rs), Shown)
    IN  IF Len(due) <= limit THEN due ELSE SubSeq(due, 1, limit)

-----------------------------------------------------------------------------
(* Suggestions from the history of a vehicle *)

\* The words and part types each maintenance type is recognised by, in the
\* order in which they are tried.
MaintenanceTypes == <<"oil_change", "timing_belt", "brake_service", "tire_change">>
Part == [oil_change |-> {"filters"}, timing_belt |-> {},
         brake_service |-> {"brakes"}, tire_change |-> {"tires"}]
Words == [oil_change |-> {"olaj", "oil"}, timing_belt |-> {"timing", "belt"},
          brake_service |-> {"brake"}, tire_change |-> {"tire"}]

DetectMaintenanceType(item) ==
    LET i == FindIndex(MaintenanceTypes,
               LAMBDA t : item.part \in Part[t] \/ item.words \cap Words[t] # {})
    IN  IF i = 0 THEN None ELSE MaintenanceTypes[i]

DefaultIntervals ==
    [oil_change |-> [km |-> 15000, days |-> 365],
     timing_belt |-> [km |-> 120000, days |-> 1825],
     brake_service |-> [km |-> 40000, days |-> 730],
     tire_change |-> [km |-> None, days |-> 182]]

Known(s) == Where(s, LAMBDA x : x # None)

\* The positive distances between neighbours, rounded to the unit.
Gaps(s, unit) ==
    LET sorted == SortedBy(s, <)
        gap(i) == RoundDiv(sorted[i + 1] - sorted[i], unit)
    IN  Where([i \in 1 .. Len(s) - 1 |-> gap(i)], LAMBDA g : g > 0)

Average(s) == RoundDiv(SumFunction(s), Len(s))

LearnInterval(values, unit) ==
    LET gaps == Gaps(Known(values), unit)
    IN  IF gaps = <<>> THEN None ELSE Average(gaps)

LaterAsListed(best, o) == IF best.date = None /\ best.km = None THEN o ELSE best

\* The most recent occurrence; the one with the highest mileage if none is dated.
Later(best, o) ==
    IF o.date # None
    THEN IF best.date = None \/ o.date > best.date THEN o ELSE best
    ELSE IF best.date = None /\ o.km # None /\ (best.km = None \/ o.km > best.km)
         THEN o ELSE best

LatestOccurrence(list) == Reduce(Later, [date |-> None, km |-> None], list)

Occurrences(items, type) ==
    Where(items, LAMBDA it : DetectMaintenanceType(it) = type)

Else(value, default) == IF value = None THEN default ELSE value

Suggestion(type, list) ==
    LET dates == [i \in DOMAIN list |-> list[i].date]
        kms   == [i \in DOMAIN list |-> list[i].km]
        last  == LatestOccurrence(list)
        days  == Else(LearnInterval(dates, Day), DefaultIntervals[type].days)
        km    == Else(LearnInterval(kms, 1), DefaultIntervals[type].km)
    IN  [type |-> type, days |-> days, km |-> km,
         lastDate |-> last.date, lastKm |-> last.km,
         dueDate |-> IF None \in {last.date, days} THEN None
                     ELSE last.date + days * Day,
         dueKm |-> IF None \in {last.km, km} THEN None ELSE last.km + km]

SuggestFromHistory(items, active) ==
    {Suggestion(t, Occurrences(items, t)) :
        t \in {t \in {DetectMaintenanceType(it) : it \in Range(items)} :
                 t # None /\ t \notin active}}
=============================================================================
