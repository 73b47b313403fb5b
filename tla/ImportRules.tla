----------------------------- MODULE ImportRules -----------------------------
(***************************************************************************)
(* The CSV import of VehiclesService and the way vehicles are recognised by *)
(* plate and VIN, in an import and on an invoice (MatchingService).         *)
(*                                                                          *)
(* A character is a quote, a delimiter, a line end, a carriage return or    *)
(* another one.  Plates and VINs are model values with their normal form;   *)
(* "" is an empty cell.                                                     *)
(***************************************************************************)
EXTENDS Integers, Sequences, FiniteSets, Arrays

CONSTANTS
    None,        \* null
    NormalPlate, \* normalizePlate: the plates' normal form, "" without a letter or digit
    NormalVin    \* normalizeVin

-----------------------------------------------------------------------------
(* parseCsv *)

Quote == "quote"
Delimiter == "delimiter"
Return == "return"
NewLine == "newline"

CsvStart == [rows |-> <<>>, row |-> <<>>, field |-> <<>>,
             inQuotes |-> FALSE, skip |-> FALSE]

Keep(acc, c) == [acc EXCEPT !.field = Append(@, c)]
EndField(acc) == [acc EXCEPT !.row = Append(@, acc.field), !.field = <<>>]
EndRow(acc) == LET a == EndField(acc)
               IN  [a EXCEPT !.rows = Append(@, a.row), !.row = <<>>]

QuotedUnpaired(acc, c, next) ==
    IF c # Quote THEN Keep(acc, c) ELSE [acc EXCEPT !.inQuotes = FALSE]

Quoted(acc, c, next) ==
    IF c # Quote THEN Keep(acc, c)
    ELSE IF next = Quote THEN [Keep(acc, c) EXCEPT !.skip = TRUE]
    ELSE [acc EXCEPT !.inQuotes = FALSE]

Unquoted(acc, c) ==
    CASE c = Quote     -> [acc EXCEPT !.inQuotes = TRUE]
      [] c = Delimiter -> EndField(acc)
      [] c = Return    -> acc
      [] c = NewLine   -> EndRow(acc)
      [] OTHER         -> Keep(acc, c)

After(text, i) == IF i < Len(text) THEN text[i + 1] ELSE None

ReadAt(text, acc, i) ==
    IF acc.skip THEN [acc EXCEPT !.skip = FALSE]
    ELSE IF acc.inQuotes THEN Quoted(acc, text[i], After(text, i))
    ELSE Unquoted(acc, text[i])

ParseCsv(text) ==
    LET end == Reduce(LAMBDA acc, i : ReadAt(text, acc, i), CsvStart,
                      [i \in DOMAIN text |-> i])
    IN  IF end.field # <<>> \/ end.row # <<>> THEN EndRow(end).rows ELSE end.rows

-----------------------------------------------------------------------------
(* analyzeImport: what is to become of each row *)

Blank == ""   \* an empty cell

\* The maps built from the vehicles of the tenant: the last one with a key wins.
IdBy(vehicles, key, Normal(_), wanted) ==
    LET i == FindLastIndex(vehicles,
               LAMBDA v : v[key] # Blank /\ Normal(v[key]) = wanted)
    IN  IF i = 0 THEN None ELSE vehicles[i].id

ByPlate(vehicles, plate) ==
    IF plate = Blank THEN None
    ELSE IdBy(vehicles, "plate", LAMBDA p : NormalPlate[p], NormalPlate[plate])

ByVin(vehicles, vin) ==
    IF vin = Blank THEN None
    ELSE IdBy(vehicles, "vin", LAMBDA v : NormalVin[v], NormalVin[vin])

Matched(vehicles, row) ==
    IF ByVin(vehicles, row.vin) # None THEN ByVin(vehicles, row.vin)
    ELSE ByPlate(vehicles, row.plate)

\* A row without a plate and a VIN, or with a year or mileage that is no
\* number in range, is an error.
ActionFor(vehicles, row) ==
    IF (row.plate = Blank /\ row.vin = Blank) \/ ~row.valid THEN "error"
    ELSE IF Matched(vehicles, row) # None THEN "update" ELSE "create"

AnalyzeImport(vehicles, rows) ==
    [i \in DOMAIN rows |-> [row |-> rows[i], action |-> ActionFor(vehicles, rows[i]),
                            vehicle |-> Matched(vehicles, rows[i])]]

PreviewImport(vehicles, rows) ==
    LET results == AnalyzeImport(vehicles, rows)
        count(a) == Cardinality({i \in DOMAIN results : results[i].action = a})
    IN  [total |-> Len(rows), create |-> count("create"),
         update |-> count("update"), error |-> count("error")]

-----------------------------------------------------------------------------
(* commitImport: the rows one after the other *)

Given(new, old) == IF new = Blank THEN old ELSE new

UpdateRow(vehicles, id, row) ==
    [i \in DOMAIN vehicles |->
        IF vehicles[i].id = id
        THEN [vehicles[i] EXCEPT !.plate = Given(row.plate, @), !.vin = Given(row.vin, @)]
        ELSE vehicles[i]]

SeenVinOnly(acc, row) == row.vin # Blank /\ NormalVin[row.vin] \in acc.vins \ {Blank}

Seen(acc, row) ==
    \/ row.plate # Blank /\ NormalPlate[row.plate] \in acc.plates \ {Blank}
    \/ row.vin # Blank /\ NormalVin[row.vin] \in acc.vins \ {Blank}

Remember(acc, row) ==
    [acc EXCEPT
       !.plates = IF row.plate = Blank THEN @ ELSE @ \cup {NormalPlate[row.plate]},
       !.vins   = IF row.vin = Blank THEN @ ELSE @ \cup {NormalVin[row.vin]}]

CommitRow(acc, r, limit) ==
    LET full == Len(acc.vehicles) >= limit     \* assertVehicleLimit
        id   == Len(acc.vehicles) + 1
    IN  CASE r.action = "error" \/ Seen(acc, r.row) \/ (r.action = "create" /\ full) ->
               [acc EXCEPT !.skipped = @ + 1]
          [] r.action = "update" /\ ~Seen(acc, r.row) ->
               [Remember(acc, r.row) EXCEPT
                  !.vehicles = UpdateRow(@, r.vehicle, r.row), !.updated = @ + 1]
          [] OTHER ->
               [Remember(acc, r.row) EXCEPT
                  !.vehicles = Append(@, [id |-> id, plate |-> r.row.plate,
                                          vin |-> r.row.vin]),
                  !.created = @ + 1]

CommitImport(vehicles, rows, limit) ==
    Reduce(LAMBDA acc, r : CommitRow(acc, r, limit),
             [vehicles |-> vehicles, plates |-> {}, vins |-> {},
              created |-> 0, updated |-> 0, skipped |-> 0],
             AnalyzeImport(vehicles, rows))

-----------------------------------------------------------------------------
(* resolveVehicleForInvoice *)

CandidateMatch(vehicles, c) ==
    IF ByVin(vehicles, c.vin) # None
    THEN [vehicle |-> ByVin(vehicles, c.vin), source |-> "vin"]
    ELSE [vehicle |-> ByPlate(vehicles, c.plate), source |-> "plate"]

DominantOnTies(mappings) ==
    Len(mappings) > 0

\* What has been learned of the supplier decides when one vehicle dominates;
\* the mappings come in the order of their weights.
Dominant(mappings) ==
    \/ Len(mappings) = 1
    \/ Len(mappings) > 1 /\ mappings[1].weight >= 2 * mappings[2].weight

NoMatch == [vehicle |-> None, source |-> None]

ResolveVehicle(vehicles, candidates, mappings) ==
    LET i == FindIndex(candidates,
               LAMBDA c : CandidateMatch(vehicles, c).vehicle # None)
    IN  IF i # 0 THEN CandidateMatch(vehicles, candidates[i])
        ELSE IF ~Dominant(mappings) THEN NoMatch
        ELSE [vehicle |-> mappings[1].vehicle,
              source |-> IF Len(mappings) = 1 THEN "supplier_pattern" ELSE "history"]
=============================================================================
