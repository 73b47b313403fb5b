------------------------------ MODULE ErrorRules ------------------------------
(***************************************************************************)
(* The way of a failure from the API to a screen: the exceptions of the     *)
(* services (AppException), the filter that turns whatever is thrown into   *)
(* an answer, and what the web client makes of the answer, or of none.      *)
(*                                                                          *)
(* A thrown value is a record: kind "app" with the name of the factory,     *)
(* "http" for an exception of the framework with its status and the form of *)
(* its message, "other" for anything else.                                  *)
(***************************************************************************)
EXTENDS Integers, Sequences, FiniteSets

CONSTANT None

ErrorCode == {
    "AUTH_INVALID_CREDENTIALS", "AUTH_EMAIL_TAKEN", "AUTH_TOKEN_EXPIRED",
    "AUTH_TOKEN_INVALID", "AUTH_UNAUTHORIZED", "AUTH_FORBIDDEN", "AUTH_2FA_REQUIRED",
    "TENANT_NOT_FOUND", "TENANT_ACCESS_DENIED", "LIMIT_VEHICLES_REACHED",
    "LIMIT_USERS_REACHED", "LIMIT_STORAGE_REACHED", "LIMIT_DOCUMENTS_REACHED",
    "FEATURE_DISABLED", "DOCUMENT_UNSUPPORTED_TYPE", "DOCUMENT_TOO_LARGE",
    "PROCESSING_FAILED", "VALIDATION_FAILED", "NOT_FOUND", "INTERNAL_ERROR"}

-----------------------------------------------------------------------------
(* The API *)

Error(code, status) == [code |-> code, status |-> status]

AppException == [
    invalidCredentials      |-> Error("AUTH_INVALID_CREDENTIALS", 401),
    emailTaken              |-> Error("AUTH_EMAIL_TAKEN", 409),
    tokenExpired            |-> Error("AUTH_TOKEN_EXPIRED", 401),
    tokenInvalid            |-> Error("AUTH_TOKEN_INVALID", 401),
    unauthorized            |-> Error("AUTH_UNAUTHORIZED", 401),
    forbidden               |-> Error("AUTH_FORBIDDEN", 403),
    tenantNotFound          |-> Error("TENANT_NOT_FOUND", 404),
    tenantAccessDenied      |-> Error("TENANT_ACCESS_DENIED", 403),
    vehiclesLimitReached    |-> Error("LIMIT_VEHICLES_REACHED", 403),
    usersLimitReached       |-> Error("LIMIT_USERS_REACHED", 403),
    documentsLimitReached   |-> Error("LIMIT_DOCUMENTS_REACHED", 403),
    featureDisabled         |-> Error("FEATURE_DISABLED", 403),
    unsupportedDocumentType |-> Error("DOCUMENT_UNSUPPORTED_TYPE", 422),
    documentTooLarge        |-> Error("DOCUMENT_TOO_LARGE", 413),
    processingFailed        |-> Error("PROCESSING_FAILED", 422),
    notFound                |-> Error("NOT_FOUND", 404),
    validation              |-> Error("VALIDATION_FAILED", 400)]

mapStatusToCode(status) ==
    CASE status = 401 -> "AUTH_UNAUTHORIZED"
      [] status = 403 -> "AUTH_FORBIDDEN"
      [] status = 404 -> "NOT_FOUND"
      [] status >= 500 -> "INTERNAL_ERROR"
      [] OTHER -> "VALIDATION_FAILED"

\* A list of messages is what the validation of the fields has found.  The
\* message is "given" by the exception, or one of the filter's "own".
fromHttpException(status, message) ==
    [code    |-> IF message = "list" THEN "VALIDATION_FAILED" ELSE mapStatusToCode(status),
     message |-> IF message = "text" THEN "given" ELSE "own"]

\* Mutant: the filter knows only the exceptions of the application.
toErrorResponseOwn(thrown) ==
    IF thrown.kind = "app"
    THEN LET e == AppException[thrown.name]
         IN  [status |-> e.status, body |-> [code |-> e.code, message |-> "given"]]
    ELSE [status |-> 500, body |-> [code |-> "INTERNAL_ERROR", message |-> "own"]]

toErrorResponse(thrown) ==
    CASE thrown.kind = "app" ->
           LET e == AppException[thrown.name]
           IN  [status |-> e.status, body |-> [code |-> e.code, message |-> "given"]]
      [] thrown.kind = "http" ->
           [status |-> thrown.status,
            body   |-> fromHttpException(thrown.status, thrown.message)]
      [] thrown.kind = "other" ->
           [status |-> 500, body |-> [code |-> "INTERNAL_ERROR", message |-> "own"]]

-----------------------------------------------------------------------------
(* The web client.  An answer is "lost" when the connection fails, has no      *)
(* body (None) when it is not the API's, and is "cut" when it promised data    *)
(* and is not readable.                                                        *)

ApiError(code, status, message) ==
    [api |-> TRUE, code |-> code, status |-> status, message |-> message]
OtherError == [api |-> FALSE]

parseError(answer) ==
    IF answer.body = None THEN ApiError("INTERNAL_ERROR", answer.status, "statusText")
    ELSE ApiError(answer.body.code, answer.status, answer.body.message)

performRequest(answer) ==
    CASE answer.kind = "lost" -> ApiError("NETWORK_ERROR", 0, "raw")
      [] answer.kind = "cut"  -> OtherError
      [] answer.kind = "told" -> parseError(answer)

Retried(err) == err.api /\ err.code = "NETWORK_ERROR"

KNOWN_ERROR_KEYS == ErrorCode \cup {"NETWORK_ERROR"}

resolveErrorKey(err) ==
    IF err.api /\ err.code \in KNOWN_ERROR_KEYS THEN err.code ELSE "INTERNAL_ERROR"

isTechnical(err) == err.code \in {"NETWORK_ERROR", "INTERNAL_ERROR"}

errorDebugSuffix(err) ==
    IF ~err.api \/ ~isTechnical(err) THEN ""
    ELSE IF err.status # 0 THEN "status" ELSE "no answer"

\* The forms for signing in show a translated text and the suffix.
formError(err) == [text |-> resolveErrorKey(err), suffix |-> errorDebugSuffix(err)]

scanErrorMessage(err) ==
    IF err.api /\ ~isTechnical(err) THEN [text |-> err.message, suffix |-> ""]
    ELSE [text |-> "errorScan", suffix |-> errorDebugSuffix(err)]

\* The buttons and forms of the other screens show the message as it came, and a
\* text of their own when the answer cannot be read.  What fails while a list is
\* loaded is shown by none of them: their catch blocks are empty.
screenError(err) == IF err.api THEN err.message ELSE "fallback"
=============================================================================
