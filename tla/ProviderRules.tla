---------------------------- MODULE ProviderRules ----------------------------
(***************************************************************************)
(* How the environment chooses the services the API reads documents with,   *)
(* and how it gets along when they refuse: env.validation.ts, the getters   *)
(* of AppConfigService, the provider factories, the chain of Gemini models, *)
(* and the feeds of compliance dates and recalls.                           *)
(*                                                                          *)
(* A variable is None when it is not set.  A list is a sequence of words in *)
(* which "" stands for what is blank between two commas; a document is its  *)
(* content, and "sample" is the text and the data the stubs invent.         *)
(***************************************************************************)
EXTENDS Integers, Sequences, FiniteSets, Functions, Arrays

CONSTANTS
    None,            \* undefined, null
    DefaultChain,    \* DEFAULT_CHAIN, the models by preference
    PositiveTexts,   \* the texts that coerce to a positive whole number
    Curated          \* CURATED: [reference, names, from, to], names being what
                     \* its makeModel includes

Blank == ""

-----------------------------------------------------------------------------
(* The environment *)

\* The values of each enumeration, its default first.
Enumerated == [
    NODE_ENV                  |-> <<"development", "test", "production">>,
    OCR_PROVIDER              |-> <<"stub", "gemini", "mistral", "google">>,
    EXTRACTION_PROVIDER       |-> <<"stub", "gemini">>,
    VEHICLE_VERIFY_PROVIDER   |-> <<"stub", "ro">>,
    BENCHMARK_RECALL_PROVIDER |-> <<"stub", "external">>]

Required == {"DATABASE_URL", "JWT_ACCESS_SECRET", "JWT_REFRESH_SECRET"}

Positive == {
    "API_PORT", "REDIS_PORT", "JWT_ACCESS_TTL", "JWT_REFRESH_TTL",
    "PASSWORD_RESET_TTL", "MAX_DOCUMENT_SIZE_BYTES", "AUDIT_LOG_RETENTION_DAYS",
    "REFRESH_TOKEN_RETENTION_DAYS", "PASSWORD_RESET_TOKEN_RETENTION_DAYS",
    "INVITATION_RETENTION_DAYS", "SUPPORT_ACCESS_RETENTION_DAYS"}

Lists == [CORS_ORIGINS |-> <<"http://localhost:3000">>,
          GEMINI_MODELS |-> <<Blank>>]

Optional == {"WEB_APP_URL", "GEMINI_API_KEY", "GEMINI_MODEL", "RO_VERIFY_API_URL",
             "RECALL_API_URL", "VAPID_PUBLIC_KEY", "VAPID_PRIVATE_KEY"}

\* The other variables are plain texts, which nothing here reads.
Variables == DOMAIN Enumerated \cup Required \cup Positive \cup DOMAIN Lists
             \cup Optional \cup {"S3_FORCE_PATH_STYLE"}

\* A blank text is not an absent one: it is no number, no member of an
\* enumeration, and no default replaces it.
Valid(name, raw) ==
    /\ name \in Required => raw \notin {None, Blank}
    /\ name \in DOMAIN Enumerated => raw \in {None} \cup Range(Enumerated[name])
    /\ name \in Positive => raw \in {None} \cup PositiveTexts

Default(name) ==
    IF name \in DOMAIN Enumerated THEN Head(Enumerated[name])
    ELSE IF name \in DOMAIN Lists THEN Lists[name]
    ELSE IF name \in Positive THEN "default" ELSE Blank

booleanString(raw, default) == IF raw = None THEN default ELSE raw \in {"true", "1"}

envSchema(name, raw) ==
    IF name = "S3_FORCE_PATH_STYLE" THEN booleanString(raw, TRUE)
    ELSE IF raw = None THEN Default(name) ELSE raw

\* The parsed environment, in a set: empty if the application does not start.
ValidateEnv(raw) ==
    IF \A name \in Variables : Valid(name, raw[name])
    THEN {[name \in Variables |-> envSchema(name, raw[name])]} ELSE {}

-----------------------------------------------------------------------------
(* AppConfigService *)

Listed(list) == Where(list, LAMBDA word : word # Blank)

WebAppUrl(env) ==
    LET origins == Listed(env.CORS_ORIGINS)
    IN  IF env.WEB_APP_URL # Blank THEN env.WEB_APP_URL
        ELSE IF origins # <<>> THEN Head(origins) ELSE "http://localhost:3000"

\* Mutant: the preferred model replaces the chain instead of leading it.
GeminiModelsOnlyPreferred(env) ==
    LET listed == Listed(env.GEMINI_MODELS)
        models == IF listed # <<>> THEN listed ELSE DefaultChain
    IN  IF env.GEMINI_MODEL = Blank THEN models ELSE <<env.GEMINI_MODEL>>

GeminiModels(env) ==
    LET listed == Listed(env.GEMINI_MODELS)
        models == IF listed # <<>> THEN listed ELSE DefaultChain
        first  == env.GEMINI_MODEL
    IN  IF first = Blank THEN models
        ELSE <<first>> \o Where(models, LAMBDA model : model # first)

-----------------------------------------------------------------------------
(* The provider factories *)

HasKey(env) == env.GEMINI_API_KEY # Blank

ExtractionProvider(env) ==
    IF env.EXTRACTION_PROVIDER = "gemini" /\ HasKey(env) THEN "gemini" ELSE "stub"
VehicleExtractionProvider(env) ==
    IF env.EXTRACTION_PROVIDER = "gemini" /\ HasKey(env) THEN "gemini" ELSE "stub"
ComplianceExtractionProvider(env) ==
    IF env.EXTRACTION_PROVIDER = "gemini" /\ HasKey(env) THEN "gemini" ELSE "stub"
OcrProvider(env) ==
    IF env.OCR_PROVIDER = "gemini" /\ HasKey(env) THEN "gemini" ELSE "stub"

-----------------------------------------------------------------------------
(* One call of a model.  An answer has a status, None if the connection       *)
(* fails, and a body: "data" that fits the schema, "misfit" data that does    *)
(* not, "words" that are no JSON, or "" for nothing.                          *)

FALLBACK_STATUSES == {429, 500, 503}

Failure(status) == [ok |-> FALSE, status |-> status]
Success(of)     == [ok |-> TRUE, of |-> of]
Exhausted       == [ok |-> FALSE, exhausted |-> TRUE]

\* callModel and the schema of the kind of document; the OCR takes any text.
CallOcrModel(answer, file) ==
    IF answer.status # 200 THEN Failure(answer.status)
    ELSE IF answer.body = Blank THEN Failure(None) ELSE Success(file)
CallModel(answer, text) ==
    IF answer.status # 200 THEN Failure(answer.status)
    ELSE IF answer.body # "data" THEN Failure(None) ELSE Success(text)

\* The models are asked in turn, until one does not answer by a status that
\* lets the next one try.
AskInTurn(models, Call(_)) ==
    LET final == {i \in DOMAIN models :
                    LET r == Call(models[i])
                    IN  r.ok \/ r.status \notin FALLBACK_STATUSES}
        last  == CHOOSE i \in final : \A j \in final : i <= j
    IN  IF final = {} THEN [asked |-> models, result |-> Exhausted]
        ELSE [asked |-> SubSeq(models, 1, last), result |-> Call(models[last])]

NotAsked(result) == [asked |-> <<>>, result |-> result]

Recognize(env, file, answers) ==
    IF OcrProvider(env) = "stub" THEN NotAsked(Success("sample"))
    ELSE AskInTurn(GeminiModels(env), LAMBDA m : CallOcrModel(answers[m], file))

Extract(env, text, answers) ==
    IF ExtractionProvider(env) = "stub" THEN NotAsked(Success("sample"))
    ELSE AskInTurn(GeminiModels(env), LAMBDA m : CallModel(answers[m], text))
ExtractVehicle(env, text, answers) ==
    IF VehicleExtractionProvider(env) = "stub" THEN NotAsked(Success("sample"))
    ELSE AskInTurn(GeminiModels(env), LAMBDA m : CallModel(answers[m], text))
ExtractCompliance(env, text, answers) ==
    IF ComplianceExtractionProvider(env) = "stub" THEN NotAsked(Success("sample"))
    ELSE AskInTurn(GeminiModels(env), LAMBDA m : CallModel(answers[m], text))

\* What the workers and the compliance check make of a file: the text first,
\* then the data in it.
Read(kind, env, file, ocr, answers) ==
    LET text == Recognize(env, file, ocr).result
    IN  IF ~text.ok THEN NotAsked(text)
        ELSE CASE kind = "invoice"      -> Extract(env, text.of, answers)
               [] kind = "registration" -> ExtractVehicle(env, text.of, answers)
               [] kind = "compliance"   -> ExtractCompliance(env, text.of, answers)

-----------------------------------------------------------------------------
(* The feeds.  An answer has a status, None if the connection fails, and rows *)
(* or dates; "words" stands for a body that is no JSON.                       *)

Verify(env, vehicle, answer) ==
    IF env.VEHICLE_VERIFY_PROVIDER = "stub"
    THEN IF vehicle.plate = None /\ vehicle.vin = None
         THEN [status |-> "not_found", called |-> FALSE]
         ELSE [status |-> "ok", called |-> FALSE]
    ELSE IF env.RO_VERIFY_API_URL = Blank THEN [status |-> "error", called |-> FALSE]
    ELSE IF answer.status # 200 \/ answer.body = "words"
         THEN [status |-> "error", called |-> TRUE]
    ELSE [status |-> IF answer.body = "not_found" THEN "not_found" ELSE "ok",
          called |-> TRUE]

CuratedRecalls(query) ==
    {r \in Curated :
       /\ query.make # None => query.make \in r.names
       /\ query.model # None => query.model \in r.names
       /\ query.year # None => query.year \in r.from .. r.to}

ExternalRecalls(env, answer) ==
    IF env.RECALL_API_URL = Blank \/ answer.status # 200 \/ answer.body = "words" THEN {}
    ELSE answer.rows

QueryRecalls(env, query, answer) ==
    IF query.make = None /\ query.model = None THEN {}
    ELSE IF env.BENCHMARK_RECALL_PROVIDER = "external" THEN ExternalRecalls(env, answer)
    ELSE CuratedRecalls(query)

\* One query for each make, model and year of the fleet.  The recalls are kept
\* by their reference: those without one are one.
GetRecalls(env, fleet, answers) ==
    LET same(v, w) == v.make = w.make /\ v.model = w.model /\ v.year = w.year
        queries == {v \in fleet : \A w \in fleet : same(v, w) => v.id <= w.id}
    IN  UNION {{r.reference : r \in QueryRecalls(env, v, answers[v.id])} : v \in queries}
=============================================================================
