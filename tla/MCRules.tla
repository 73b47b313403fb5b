------------------------------- MODULE MCRules -------------------------------
(* The inputs of Rules that TLC enumerates. *)
EXTENDS Rules, TLC

\* Two spellings of one plate, another plate, and one without a letter or digit.
Plates == ("AB-1" :> "AB1") @@ ("ab 1" :> "AB1") @@ ("CD2" :> "CD2") @@ ("--" :> "")
Vins   == ("V1" :> "V1") @@ ("v1" :> "V1") @@ ("V2" :> "V2")

SomeReminders ==
    {<<TRUE, d, k>> : d \in {None, -1, 0, 30, 31, 99999}, k \in {None, -1, 1500}}
       \cup {<<FALSE, -1, None>>}
SomeReminderLists ==
    {[i \in 1 .. 3 |-> [id |-> i, active |-> t[i][1], days |-> t[i][2], km |-> t[i][3]]] :
        t \in [1 .. 3 -> SomeReminders]}

SomeServices ==
    {[part |-> k[1], words |-> k[2], date |-> d, km |-> m] :
        k \in {<<"other", {"oil"}>>, <<"brakes", {"oil", "brake"}>>, <<"tires", {}>>},
        d \in {None, 0, 40, 48}, m \in {None, 1000, 16000}}
SomeHistories ==
    BoundedSeq({s \in SomeServices : s.part = "other"}, 3) \cup BoundedSeq(SomeServices, 2)

Nights == {24 * d : d \in 0 .. 5}
Zones  == {-12, 0, 2, 14}
SomeItems ==
    {[vehicle |-> k[1], category |-> k[2], price |-> k[3], invoice |-> 1, date |-> d] :
        k \in {<<1, "part", 2>>, <<None, "labor", 1>>, <<1, "labor", 2>>},
        d \in Nights \cup {None}}
SomeItemLists == SeqOf(SomeItems, 2) \ {<<>>}

SomePriceLists == BoundedSeq({1, 2, 3, 9}, 5) \cup SeqOf({None, 0, 1, 5}, 6)
SomeInvoiceLists == SeqOf([supplier : {None, "s1"}, number : {None, "n1", "n2"}], 4)

SomeCosts == [price : {1, 4}, date : {None, 4, 9, 10, 19}] \cup {[price |-> 0, date |-> 10]}
SomeCostLists == SeqOf(SomeCosts, 2)

SomeMarketItems ==
    {[tenant |-> k[1], vehicle |-> k[2], km |-> k[3], price |-> k[4], currency |-> k[5],
      model |-> "golf", category |-> "brakes"] :
        k \in {<<"t1", 1, 0, 1, "EUR">>, <<"t1", 2, 3, 2, "EUR">>, <<"t1", 2, 5, 2, "EUR">>,
               <<"t2", 3, 4, 7, "EUR">>, <<"t2", 3, 4, 7, None>>, <<"t3", 4, None, 3, "EUR">>,
               <<"t3", 5, 1, 4, "EUR">>}}
SomeMarketLists == SeqOf(SomeMarketItems, 4)

Fields == BoundedSeq({"quote", "delimiter", "return", "newline", "letter"}, 2)
SomeTables == {<<r>> : r \in SeqOf(Fields, 2) \ {<<>>}} \cup {<<<<f>>, <<g>>>> : f, g \in Fields}
SomeSecrets == BoundedSeq({0, 1, 170, 255}, 5)

SomeClocks == 100 .. 130
SomeSkews  == -61 .. 61

SomeFleets ==
    {[i \in DOMAIN s |-> [id |-> i, plate |-> s[i][1], vin |-> s[i][2]]] :
        s \in SeqOf({<<"AB-1", "">>, <<"CD2", "V1">>, <<"", "V2">>, <<"--", "">>}, 2)}
SomeRows ==
    {[plate |-> k[1], vin |-> k[2], valid |-> k[3]] :
        k \in {<<"ab 1", "", TRUE>>, <<"AB-1", "V1", TRUE>>, <<"AB-1", "", FALSE>>,
               <<"CD2", "", TRUE>>, <<"CD2", "v1", TRUE>>, <<"--", "V2", TRUE>>,
               <<"--", "", TRUE>>, <<"", "V2", TRUE>>, <<"", "", TRUE>>}}
SomeImportFiles == SeqOf(SomeRows, 3)

SomeCandidateLists == SeqOf([vin : {"", "v1", "V2"}, plate : {"", "ab 1"}], 2)
SomeMappingLists ==
    {<<>>} \cup {<<[vehicle |-> v, weight |-> n]>> : v \in 1 .. 2, n \in 1 .. 2}
           \cup {<<[vehicle |-> v, weight |-> m], [vehicle |-> 3 - v, weight |-> n]>> :
                   v \in 1 .. 2, m \in 1 .. 4, n \in 1 .. 2}
SortedMappingLists ==
    {s \in SomeMappingLists : Len(s) = 2 => s[1].weight >= s[2].weight}

\* Every variable unset but those the API does not start without, and the key.
Unset == [name \in Prov!Variables |->
            IF name \in Prov!Required THEN "given"
            ELSE IF name = "GEMINI_API_KEY" THEN "key" ELSE None]
Chosen(ocr, extraction) ==
    [Unset EXCEPT !["OCR_PROVIDER"] = ocr, !["EXTRACTION_PROVIDER"] = extraction]
SomeEnvironments ==
    {[Chosen("gemini", "gemini") EXCEPT !["GEMINI_MODEL"] = first, !["GEMINI_MODELS"] = list] :
        first \in {None, "m2", "mx"}, list \in {None, <<"m2", "", "m1">>, <<"">>}}
    \cup {Chosen(ocr, extraction) :
            ocr \in {None, "", "stub", "mistral"}, extraction \in {None, "gemini"}}
    \cup {[Chosen("gemini", "gemini") EXCEPT !["GEMINI_API_KEY"] = key] : key \in {None, ""}}
    \cup {[Unset EXCEPT !["VEHICLE_VERIFY_PROVIDER"] = verify,
                        !["RO_VERIFY_API_URL"] = url,
                        !["BENCHMARK_RECALL_PROVIDER"] = recall, !["RECALL_API_URL"] = url,
                        !["CORS_ORIGINS"] = origins] :
            verify \in {"ro", None}, recall \in {"external", None}, url \in {None, "url"},
            origins \in {None, <<"">>, <<"a", "b">>}}
    \cup {[Unset EXCEPT !["API_PORT"] = "0"], [Unset EXCEPT !["DATABASE_URL"] = ""],
          [Unset EXCEPT !["S3_FORCE_PATH_STYLE"] = ""], [Unset EXCEPT !["API_PORT"] = "80"]}

SomeChain == <<"m1", "m2">>
ModelAnswer == {[status |-> s, body |-> ""] : s \in {None, 403, 429, 503}}
               \cup {[status |-> 200, body |-> b] : b \in {"data", "misfit"}}
SomeModelAnswers ==
    {[m \in {"m1", "m2", "mx"} |-> IF m = "mx" THEN [status |-> 429, body |-> ""] ELSE f[m]] :
        f \in [{"m1", "m2"} -> ModelAnswer]}
    \cup {[m \in {"m1", "m2", "mx"} |-> [status |-> 200, body |-> b]] : b \in {"", "words", "data"}}

SomeFeedAnswers ==
    {[status |-> None, body |-> "words", rows |-> {}],
     [status |-> 200, body |-> "words", rows |-> {}],
     [status |-> 200, body |-> "not_found", rows |-> {[reference |-> "r9"]}],
     [status |-> 200, body |-> "ok", rows |-> {[reference |-> "r8"], [reference |-> "-"]}]}
SomeCurated == {
    [reference |-> "r1", names |-> {"volkswagen", "golf"}, from |-> 2013, to |-> 2017],
    [reference |-> "r2", names |-> {"ford", "transit"}, from |-> 2014, to |-> 2019]}
SomeRecallFleets ==
    {{[id |-> i, make |-> k[i][1], model |-> k[i][2], year |-> k[i][3]] : i \in 1 .. 2} :
        k \in [1 .. 2 -> {<<"volkswagen", "golf", 2015>>, <<"volkswagen", "golf", 2018>>,
                          <<None, "transit", None>>, <<None, None, 2015>>}]}

SomeThrown ==
    {[kind |-> "app", name |-> n] : n \in DOMAIN Err!AppException}
    \cup {[kind |-> "http", status |-> s, message |-> m] :
            s \in {400, 401, 403, 404, 405, 413, 429, 500, 503}, m \in {"text", None}}
    \cup {[kind |-> "http", status |-> 400, message |-> "list"], [kind |-> "other"]}

SomeLimits == [STARTER  |-> [vehicles |-> 2, users |-> 2, documents |-> 1],
               BUSINESS |-> [vehicles |-> -1, users |-> -1, documents |-> -1]]
SomeInvitations == {
    [tenant |-> "t1", accepted |-> a, expiresAt |-> e] : a \in BOOLEAN, e \in {4, 7}}
SomeDocuments == {
    [tenant |-> "t1", createdAt |-> k[1], status |-> k[2]] :
        k \in {<<3, "AUTO_OK">>, <<4, "NEEDS_REVIEW">>, <<5, "FAILED">>, <<5, "QUEUED">>}}
SomeDatabases ==
    {[plan |-> [t \in {"t1", "t2"} |-> IF t = "t1" THEN p ELSE None],
      vehicles |-> {[tenant |-> IF i = 0 THEN "t2" ELSE "t1", id |-> i] : i \in 0 .. v},
      memberships |-> {[tenant |-> IF i = 0 THEN "t2" ELSE "t1", id |-> i] : i \in 0 .. m},
      invitations |-> inv, documents |-> docs] :
        p \in {None, "STARTER", "BUSINESS"}, v \in 0 .. 3, m \in 1 .. 2,
        inv \in SUBSET SomeInvitations, docs \in SUBSET SomeDocuments}
=============================================================================
