------------------------------ MODULE Sessions ------------------------------
(***************************************************************************)
(* The sessions of one user (AuthService): login with an optional second    *)
(* factor, rotation of refresh tokens, logout, switching the second factor  *)
(* on and off, and the reset of a forgotten password.                       *)
(*                                                                          *)
(* A handler is a request with a program counter, every await that reads or *)
(* writes a table is a step of its own.  Abstracted: a password is its      *)
(* version, a code is the secret it was computed from, a signed token is    *)
(* what it carries.  Access tokens are not stored and live on by themselves *)
(* (jwt.accessTtl); what is modelled is the right to get another one.       *)
(***************************************************************************)
EXTENDS Integers, FiniteSets

CONSTANTS
    Token,       \* RefreshToken rows
    Link,        \* PasswordResetToken rows
    Secret,      \* TOTP secrets
    Request,     \* handlers that can be in progress at the same time
    None,        \* null
    MaxEpoch,    \* bound: password resets and confirmed second factors
    Ops          \* the handlers that are called

AllOps == {"login", "verify", "confirm", "disable", "forgot", "reset", "refresh", "logout"}

ASSUME SessionsAssumption ==
    /\ MaxEpoch \in Nat /\ Ops \subseteq AllOps
    /\ IsFiniteSet(Request) /\ IsFiniteSet(Token) /\ IsFiniteSet(Link)
    /\ None \notin Token \cup Link \cup Secret

VARIABLES
    password,   \* version of the User row's passwordHash
    secret,     \* twoFactorSecret of the User row
    rt,         \* rt[r]: the RefreshToken row r
    link,       \* link[l]: the PasswordResetToken row l
    challenge,  \* the sessionTokens of logins that wait for a code
    epoch,      \* history: how often all sessions have been revoked
    req         \* req[q]: what request q is doing

vars == <<password, secret, rt, link, challenge, epoch, req>>

Epoch == 0 .. MaxEpoch

\* Revoked and expired rows are the same to every reader.  issued: the epoch of
\* the row; code: its login gave a code; late: the login or a rotation it goes
\* back to was under way when all sessions were revoked.
Row == [state : {"absent", "live", "dead"}, issued : Epoch, code : BOOLEAN, late : BOOLEAN]

NoRow == [state |-> "absent", issued |-> 0, code |-> FALSE, late |-> FALSE]

Dead(row) == [row EXCEPT !.state = "dead", !.issued = 0]

\* Used and expired links are the same to every reader.
LinkState == {"absent", "usable", "dead"}

RequestPc == {"idle", "issue",
              "storeSecret", "clearSecret",           \* confirm, disable
              "dropLinks", "createLink",              \* forgotPassword
              "setPassword",                          \* resetPassword
              "rotate"}                               \* refresh

RequestState == [pc    : RequestPc,
                 since : Epoch,                       \* when it, or its login, began
                 code  : BOOLEAN,                     \* of the session to be issued
                 late  : BOOLEAN,                     \* of the session it continues
                 token : Token \cup {None},           \* refresh: the token given
                 link  : Link \cup {None},            \* reset: the link given
                 secret : Secret \cup {None}]         \* confirm: the secret given

IdleRequest == [pc |-> "idle", since |-> 0, code |-> FALSE, late |-> FALSE, token |-> None,
                link |-> None, secret |-> None]

At(q, pc) == req[q].pc = pc
Begin(q, call) == req' = [req EXCEPT ![q] = call]
Return(q) == Begin(q, IdleRequest)

Live(r) == rt[r].state = "live"

\* updateMany({userId, revokedAt: null})
RevokeAll == [r \in Token |-> IF Live(r) THEN Dead(rt[r]) ELSE rt[r]]

-----------------------------------------------------------------------------
(* login *)

\* One read gives password and secret.  With a second factor there is a
\* challenge instead of tokens.
Login(q, pw) ==
    /\ "login" \in Ops /\ At(q, "idle") /\ pw = password
    /\ \/ /\ secret # None
          /\ challenge' = challenge \cup {epoch}
          /\ UNCHANGED req
       \/ /\ secret = None
          /\ Begin(q, [IdleRequest EXCEPT !.pc = "issue", !.since = epoch])
          /\ UNCHANGED challenge
    /\ UNCHANGED <<password, secret, rt, link, epoch>>

\* The code is compared with the secret of this moment.
VerifyTwoFactorLogin(q, c, s) ==
    /\ "verify" \in Ops /\ At(q, "idle") /\ c \in challenge
    /\ secret # None /\ s = secret
    /\ Begin(q, [IdleRequest EXCEPT !.pc = "issue", !.since = c, !.code = TRUE])
    /\ UNCHANGED <<password, secret, rt, link, challenge, epoch>>

\* TWOFA_SESSION_TTL is over.
ExpireChallenge(c) ==
    /\ challenge' = challenge \ {c} /\ c \in challenge
    /\ UNCHANGED <<password, secret, rt, link, epoch, req>>

\* issueTokens
IssueTokens(q, r) ==
    /\ At(q, "issue") /\ rt[r].state = "absent"
    /\ rt' = [rt EXCEPT ![r] = [state |-> "live", issued |-> epoch, code |-> req[q].code,
                                  late |-> req[q].late \/ req[q].since < epoch]]
    /\ Return(q)
    /\ UNCHANGED <<password, secret, link, challenge, epoch>>

-----------------------------------------------------------------------------
(* refresh, logout *)

\* Mutant: only the expiry of the stored token is looked at.
RefreshRevoked(q, r) ==
    /\ "refresh" \in Ops /\ At(q, "idle") /\ rt[r].state # "absent"
    /\ Begin(q, [IdleRequest EXCEPT !.pc = "rotate", !.token = r,
                                    !.since = epoch, !.code = rt[r].code,
                                    !.late = rt[r].late])
    /\ UNCHANGED <<password, secret, rt, link, challenge, epoch>>

Refresh(q, r) ==
    /\ "refresh" \in Ops /\ At(q, "idle") /\ Live(r)
    /\ Begin(q, [IdleRequest EXCEPT !.pc = "rotate", !.token = r,
                                    !.since = epoch, !.code = rt[r].code,
                                    !.late = rt[r].late])
    /\ UNCHANGED <<password, secret, rt, link, challenge, epoch>>

\* By id, whether or not it has been revoked meanwhile.
Rotate(q) ==
    /\ At(q, "rotate")
    /\ rt' = [rt EXCEPT ![req[q].token] = Dead(@)]
    /\ Begin(q, [req[q] EXCEPT !.pc = "issue", !.token = None])
    /\ UNCHANGED <<password, secret, link, challenge, epoch>>

Logout(r) ==
    /\ "logout" \in Ops /\ Live(r)
    /\ rt' = [rt EXCEPT ![r] = Dead(@)]
    /\ UNCHANGED <<password, secret, link, challenge, epoch, req>>

\* jwt.refreshTtl is over.
ExpireToken(r) ==
    /\ Live(r)
    /\ rt' = [rt EXCEPT ![r] = Dead(@)]
    /\ UNCHANGED <<password, secret, link, challenge, epoch, req>>

-----------------------------------------------------------------------------
(* The second factor *)

\* beginTwoFactorSetup stores nothing: the client sends secret and code back.
ConfirmTwoFactorSetup(q, s) ==
    /\ "confirm" \in Ops /\ At(q, "idle") /\ epoch < MaxEpoch
    /\ Begin(q, [IdleRequest EXCEPT !.pc = "storeSecret", !.secret = s])
    /\ UNCHANGED <<password, secret, rt, link, challenge, epoch>>

StoreSecret(q) ==
    /\ At(q, "storeSecret") /\ epoch < MaxEpoch
    /\ secret' = req[q].secret
    /\ rt' = RevokeAll /\ epoch' = epoch + 1
    /\ Return(q)
    /\ UNCHANGED <<password, link, challenge>>

DisableTwoFactor(q, pw) ==
    /\ "disable" \in Ops /\ At(q, "idle") /\ pw = password
    /\ Begin(q, [IdleRequest EXCEPT !.pc = "clearSecret"])
    /\ UNCHANGED <<password, secret, rt, link, challenge, epoch>>

ClearSecret(q) ==
    /\ At(q, "clearSecret")
    /\ secret' = None
    /\ Return(q)
    /\ UNCHANGED <<password, rt, link, challenge, epoch>>

-----------------------------------------------------------------------------
(* The forgotten password *)

ForgotPassword(q) ==
    /\ "forgot" \in Ops /\ At(q, "idle")
    /\ Begin(q, [IdleRequest EXCEPT !.pc = "dropLinks"])
    /\ UNCHANGED <<password, secret, rt, link, challenge, epoch>>

\* Mutant: earlier links stay usable.
KeepLinks(q) ==
    /\ At(q, "dropLinks")
    /\ Begin(q, [req[q] EXCEPT !.pc = "createLink"])
    /\ UNCHANGED <<password, secret, rt, link, challenge, epoch>>

DropLinks(q) ==
    /\ At(q, "dropLinks")
    /\ link' = [l \in Link |-> IF link[l] = "usable" THEN "dead" ELSE link[l]]
    /\ Begin(q, [req[q] EXCEPT !.pc = "createLink"])
    /\ UNCHANGED <<password, secret, rt, challenge, epoch>>

CreateLink(q, l) ==
    /\ At(q, "createLink") /\ link[l] = "absent"
    /\ link' = [link EXCEPT ![l] = "usable"]
    /\ Return(q)
    /\ UNCHANGED <<password, secret, rt, challenge, epoch>>

\* passwordResetTtl is over.
ExpireLink(l) ==
    /\ link[l] = "usable"
    /\ link' = [link EXCEPT ![l] = "dead"]
    /\ UNCHANGED <<password, secret, rt, challenge, epoch, req>>

ResetPassword(q, l) ==
    /\ "reset" \in Ops /\ At(q, "idle") /\ link[l] = "usable"
    /\ Begin(q, [IdleRequest EXCEPT !.pc = "setPassword", !.link = l])
    /\ UNCHANGED <<password, secret, rt, link, challenge, epoch>>

\* Mutant: only the password is set.
SetPasswordOnly(q) ==
    /\ At(q, "setPassword") /\ epoch < MaxEpoch
    /\ password' = password + 1
    /\ link' = [link EXCEPT ![req[q].link] = "dead"]
    /\ epoch' = epoch + 1
    /\ Return(q)
    /\ UNCHANGED <<secret, rt, challenge>>

\* One transaction: the password, the link by id, all sessions.
SetPassword(q) ==
    /\ At(q, "setPassword") /\ epoch < MaxEpoch
    /\ password' = password + 1
    /\ link' = [link EXCEPT ![req[q].link] = "dead"]
    /\ rt' = RevokeAll /\ epoch' = epoch + 1
    /\ Return(q)
    /\ UNCHANGED <<secret, challenge>>

-----------------------------------------------------------------------------
Init ==
    /\ password = 0 /\ secret = None /\ epoch = 0
    /\ rt = [r \in Token |-> NoRow]
    /\ link = [l \in Link |-> "absent"]
    /\ challenge = {}
    /\ req = [q \in Request |-> IdleRequest]

RequestNext(q) ==
    \/ \E pw \in Epoch : Login(q, pw) \/ DisableTwoFactor(q, pw)
    \/ \E c \in Epoch, s \in Secret : VerifyTwoFactorLogin(q, c, s)
    \/ \E r \in Token : IssueTokens(q, r) \/ Refresh(q, r)
    \/ Rotate(q)
    \/ \E s \in Secret : ConfirmTwoFactorSetup(q, s)
    \/ StoreSecret(q) \/ ClearSecret(q)
    \/ ForgotPassword(q) \/ DropLinks(q)
    \/ \E l \in Link : CreateLink(q, l) \/ ResetPassword(q, l)
    \/ SetPassword(q)

Next ==
    \/ \E q \in Request : RequestNext(q)
    \/ \E r \in Token : Logout(r) \/ ExpireToken(r)
    \/ \E l \in Link : ExpireLink(l)
    \/ \E c \in Epoch : ExpireChallenge(c)

Spec == Init /\ [][Next]_vars

-----------------------------------------------------------------------------
(* Properties *)

\* Every variable keeps its type; a second factor that is being confirmed has a
\* secret.
TypeOK ==
    /\ password \in Epoch /\ epoch \in Epoch /\ password <= epoch
    /\ secret \in Secret \cup {None}
    /\ rt \in [Token -> Row]
    /\ link \in [Link -> LinkState]
    /\ challenge \subseteq 0 .. epoch
    /\ req \in [Request -> RequestState]
    /\ \A q \in Request : At(q, "storeSecret") => req[q].secret \in Secret

\* A session that is alive was issued after the last time all were revoked.
SignedOut == \A r \in Token : Live(r) => rt[r].issued = epoch

\* While the second factor is on, a session without a code is one that was being
\* issued when it was switched on.
CodeNeeded ==
    \A r \in Token : Live(r) /\ secret # None /\ ~rt[r].code => rt[r].late

\* forgotPassword voids the links there are before it adds one: those that work
\* and those being added are no more than the requests that overlapped.
LinksBounded ==
    Cardinality({l \in Link : link[l] = "usable"})
        + Cardinality({q \in Request : At(q, "createLink")}) <= Cardinality(Request)

\* No session survives a reset of the password or the switching on of the second
\* factor.
ResetSignsOutEverywhere == \A r \in Token : Live(r) => ~rt[r].late
=============================================================================
