--------------------------- MODULE SessionsProofs ---------------------------
(***************************************************************************)
(* Proofs about Sessions, for any number of tokens, links, requests and     *)
(* secrets, and any choice of handlers.                                     *)
(***************************************************************************)
EXTENDS Sessions, FiniteSetTheorems, TLAPS

\* A request that is going to issue a session while the second factor is on, and
\* has no code for it, began before it was switched on or continues such a one.
RequestOK(q) ==
    /\ req[q].since <= epoch
    /\ At(q, "rotate") => req[q].token \in Token
    /\ secret # None /\ req[q].pc \in {"issue", "rotate"} /\ ~req[q].code =>
         req[q].late \/ req[q].since < epoch

Inv == TypeOK /\ SignedOut /\ CodeNeeded /\ \A q \in Request : RequestOK(q)

LEMMA IdleRequestType ==
    /\ IdleRequest \in RequestState /\ IdleRequest.pc = "idle" /\ IdleRequest.since = 0
    /\ IdleRequest.late = FALSE
BY SessionsAssumption DEF IdleRequest, RequestState, RequestPc, Epoch

LEMMA NoRowType == NoRow \in Row /\ NoRow.state # "live"
BY SessionsAssumption DEF NoRow, Row, Epoch

LEMMA DeadType ==
    ASSUME NEW x \in Row PROVE Dead(x) \in Row /\ Dead(x).state # "live"
<1>1. 0 \in Epoch
  BY SessionsAssumption DEF Epoch
<1>2. Dead(x) \in Row
  BY <1>1 DEF Dead, Row
<1>3. Dead(x).state = "dead"
  BY DEF Dead, Row
<1>4. QED
  BY <1>2, <1>3

\* Nothing is alive after all sessions have been revoked.
LEMMA RevokeAllType ==
    ASSUME rt \in [Token -> Row]
    PROVE  /\ RevokeAll \in [Token -> Row]
           /\ \A r \in Token : RevokeAll[r].state # "live"
BY DeadType DEF RevokeAll, Live

LEMMA InitInv == Init => Inv
<1> SUFFICES ASSUME Init PROVE Inv
  OBVIOUS
<1>1. TypeOK
  BY SessionsAssumption, NoRowType, IdleRequestType DEF Init, TypeOK, Epoch, LinkState, At
<1>2. SignedOut /\ CodeNeeded
  BY NoRowType DEF Init, SignedOut, CodeNeeded, Live
<1>3. \A q \in Request : RequestOK(q)
  BY IdleRequestType DEF Init, RequestOK, At
<1>4. QED
  BY <1>1, <1>2, <1>3 DEF Inv

-----------------------------------------------------------------------------
\* A step that changes one request and leaves rows, secret and epoch alone.
LEMMA OneRequest ==
    ASSUME Inv, NEW q \in Request, NEW s \in RequestState,
           req' = [req EXCEPT ![q] = s],
           s.pc = "storeSecret" => s.secret \in Secret,
           s.since <= epoch,
           s.pc = "rotate" => s.token \in Token,
           secret # None /\ s.pc \in {"issue", "rotate"} /\ ~s.code => s.late \/ s.since < epoch,
           link' \in [Link -> LinkState],
           challenge' \subseteq 0 .. epoch,
           UNCHANGED <<password, secret, rt, epoch>>
    PROVE  Inv'
<1>1. req' \in [Request -> RequestState] /\ req'[q] = s
      /\ \A p \in Request \ {q} : req'[p] = req[p]
  BY DEF Inv, TypeOK
<1>2. TypeOK'
  BY <1>1 DEF Inv, TypeOK, At
<1>3. SignedOut' /\ CodeNeeded'
  BY DEF Inv, SignedOut, CodeNeeded, Live
<1>4. \A p \in Request : RequestOK(p)'
  BY <1>1 DEF Inv, RequestOK, At
<1>5. QED
  BY <1>2, <1>3, <1>4 DEF Inv

\* A step that revokes all sessions and begins a new epoch, and ends its request.
LEMMA Revoking ==
    ASSUME Inv, NEW q \in Request, epoch < MaxEpoch,
           rt' = RevokeAll, epoch' = epoch + 1, Return(q),
           password' \in Epoch, password' <= epoch', secret' \in Secret \cup {None},
           link' \in [Link -> LinkState], challenge' = challenge
    PROVE  Inv'
<1> USE SessionsAssumption
<1>1. epoch \in Epoch /\ epoch' \in Epoch /\ epoch < epoch'
  BY DEF Inv, TypeOK, Epoch
<1>2. rt' \in [Token -> Row] /\ \A r \in Token : rt'[r].state # "live"
  BY RevokeAllType DEF Inv, TypeOK
<1>3. req' \in [Request -> RequestState] /\ req'[q] = IdleRequest
      /\ \A p \in Request \ {q} : req'[p] = req[p]
  BY IdleRequestType DEF Return, Begin, Inv, TypeOK
<1>4. TypeOK'
  BY <1>1, <1>2, <1>3, IdleRequestType DEF Inv, TypeOK, At, Epoch
<1>5. SignedOut' /\ CodeNeeded'
  BY <1>2 DEF SignedOut, CodeNeeded, Live
<1>6. ASSUME NEW p \in Request PROVE RequestOK(p)'
  <2>1. CASE p = q
    BY <1>1, <1>3, <2>1, IdleRequestType DEF RequestOK, At, Epoch
  <2>2. CASE p # q
    <3>1. req'[p] = req[p] /\ RequestOK(p) /\ req[p].since \in Epoch
      BY <1>3, <2>2 DEF Inv, TypeOK, RequestState
    <3>2. req[p].since < epoch'
      BY <1>1, <3>1 DEF RequestOK, Epoch
    <3>3. QED
      BY <1>1, <3>1, <3>2 DEF RequestOK, At, Epoch
  <2>3. QED
    BY <2>1, <2>2
<1>7. QED
  BY <1>4, <1>5, <1>6 DEF Inv

\* A step that ends a session.
LEMMA Ending ==
    ASSUME Inv, NEW r \in Token, rt' = [rt EXCEPT ![r] = Dead(@)],
           UNCHANGED <<password, secret, link, challenge, epoch>>
    PROVE  /\ rt' \in [Token -> Row]
           /\ SignedOut' /\ CodeNeeded'
<1>1. rt[r] \in Row
  BY DEF Inv, TypeOK
<1>2. rt' \in [Token -> Row] /\ \A s \in Token : rt'[s] = IF s = r THEN Dead(rt[r]) ELSE rt[s]
  BY <1>1, DeadType DEF Inv, TypeOK
<1>3. QED
  BY <1>1, <1>2, DeadType DEF Inv, SignedOut, CodeNeeded, Live

-----------------------------------------------------------------------------
(* Every step *)

LEMMA LoginInv ==
    ASSUME Inv, NEW q \in Request, NEW pw \in Epoch, Login(q, pw) PROVE Inv'
<1>1. epoch \in Epoch /\ 0 \in Epoch
  BY SessionsAssumption DEF Inv, TypeOK, Epoch
<1>2. CASE secret # None /\ challenge' = challenge \cup {epoch} /\ UNCHANGED req
  <2>1. TypeOK'
    BY <1>1, <1>2 DEF Login, Inv, TypeOK, At, Epoch
  <2>2. QED
    BY <1>2, <2>1 DEF Login, Inv, SignedOut, CodeNeeded, RequestOK, Live, At
<1>3. CASE secret = None /\ Begin(q, [IdleRequest EXCEPT !.pc = "issue", !.since = epoch])
           /\ UNCHANGED challenge
  <2> DEFINE s == [IdleRequest EXCEPT !.pc = "issue", !.since = epoch]
  <2>1. s \in RequestState /\ s.pc = "issue" /\ s.since = epoch
    BY <1>1, IdleRequestType DEF RequestState, RequestPc
  <2>2. epoch <= epoch /\ link' \in [Link -> LinkState] /\ challenge' \subseteq 0 .. epoch
    BY <1>1, <1>3 DEF Login, Inv, TypeOK, Epoch
  <2>3. req' = [req EXCEPT ![q] = s] /\ UNCHANGED <<password, secret, rt, epoch>>
    BY <1>3 DEF Login, Begin
  <2> HIDE DEF s
  <2>4. QED
    BY <1>3, <2>1, <2>2, <2>3, OneRequest
<1>4. QED
  BY <1>2, <1>3 DEF Login

LEMMA VerifyInv ==
    ASSUME Inv, NEW q \in Request, NEW c \in Epoch, NEW x \in Secret,
           VerifyTwoFactorLogin(q, c, x)
    PROVE  Inv'
<1> DEFINE s == [IdleRequest EXCEPT !.pc = "issue", !.since = c, !.code = TRUE]
<1>1. s \in RequestState /\ s.pc = "issue" /\ s.since = c /\ s.code
  BY IdleRequestType DEF RequestState, RequestPc
<1>2. c <= epoch
  BY DEF VerifyTwoFactorLogin, Inv, TypeOK, Epoch
<1>3. QED
  BY <1>1, <1>2, OneRequest DEF VerifyTwoFactorLogin, Begin, Inv, TypeOK

LEMMA IssueInv ==
    ASSUME Inv, NEW q \in Request, NEW r \in Token, IssueTokens(q, r) PROVE Inv'
<1> DEFINE x == [state |-> "live", issued |-> epoch, code |-> req[q].code,
                 late |-> req[q].late \/ req[q].since < epoch]
<1>1. req[q] \in RequestState /\ RequestOK(q) /\ req[q].pc = "issue"
  BY DEF Inv, TypeOK, IssueTokens, At
<1>2. x \in Row
  BY <1>1 DEF Row, RequestState, Inv, TypeOK
<1>3. rt' = [rt EXCEPT ![r] = x]
  BY DEF IssueTokens
<1>4. rt' \in [Token -> Row] /\ \A s \in Token : rt'[s] = IF s = r THEN x ELSE rt[s]
  BY <1>2, <1>3 DEF Inv, TypeOK
<1>5. req' \in [Request -> RequestState] /\ req'[q] = IdleRequest
      /\ \A p \in Request \ {q} : req'[p] = req[p]
  BY IdleRequestType DEF IssueTokens, Return, Begin, Inv, TypeOK
<1>6. TypeOK'
  BY <1>4, <1>5, IdleRequestType DEF IssueTokens, Inv, TypeOK, At
<1>7. SignedOut'
  BY <1>4 DEF IssueTokens, Inv, SignedOut, Live
<1>8. secret # None /\ ~x.code => x.late
  BY <1>1 DEF RequestOK
<1>9. CodeNeeded'
  BY <1>4, <1>8 DEF IssueTokens, Inv, CodeNeeded, Live
<1>10. \A p \in Request : RequestOK(p)'
  BY <1>5, IdleRequestType, SessionsAssumption
  DEF IssueTokens, Inv, TypeOK, RequestOK, At, Epoch
<1>11. QED
  BY <1>6, <1>7, <1>9, <1>10 DEF Inv

LEMMA RefreshInv ==
    ASSUME Inv, NEW q \in Request, NEW r \in Token, Refresh(q, r) PROVE Inv'
<1> DEFINE s == [IdleRequest EXCEPT !.pc = "rotate", !.token = r, !.since = epoch,
                                    !.code = rt[r].code, !.late = rt[r].late]
<1>1. rt[r] \in Row /\ rt[r].code \in BOOLEAN /\ rt[r].late \in BOOLEAN /\ epoch \in Epoch
  BY DEF Inv, TypeOK, Row
<1>2. s \in RequestState /\ s.pc = "rotate" /\ s.since = epoch /\ s.token = r
      /\ s.code = rt[r].code /\ s.late = rt[r].late
  BY <1>1, IdleRequestType DEF RequestState, RequestPc
<1>3. Live(r) /\ CodeNeeded
  BY DEF Refresh, Inv
<1>4. secret # None /\ ~rt[r].code => rt[r].late
  BY <1>3 DEF CodeNeeded
<1>5. epoch <= epoch /\ link' \in [Link -> LinkState] /\ challenge' \subseteq 0 .. epoch
  BY <1>1 DEF Refresh, Inv, TypeOK, Epoch
<1>6. secret # None /\ ~s.code => s.late
  BY <1>2, <1>4
<1>7. req' = [req EXCEPT ![q] = s] /\ UNCHANGED <<password, secret, rt, epoch>>
  BY DEF Refresh, Begin
<1> HIDE DEF s
<1>8. QED
  BY <1>2, <1>5, <1>6, <1>7, OneRequest

LEMMA RotateInv == ASSUME Inv, NEW q \in Request, Rotate(q) PROVE Inv'
<1> DEFINE s == [req[q] EXCEPT !.pc = "issue", !.token = None]
<1>1. req[q] \in RequestState /\ RequestOK(q) /\ req[q].pc = "rotate" /\ req[q].token \in Token
  BY DEF Inv, TypeOK, Rotate, At, RequestOK
<1>2. s \in RequestState /\ s.pc = "issue" /\ s.since = req[q].since
      /\ s.code = req[q].code /\ s.late = req[q].late
  BY <1>1 DEF RequestState, RequestPc
<1>3. rt' \in [Token -> Row] /\ SignedOut' /\ CodeNeeded'
  BY <1>1, Ending DEF Rotate
<1>4. req' \in [Request -> RequestState] /\ req'[q] = s
      /\ \A p \in Request \ {q} : req'[p] = req[p]
  BY <1>2 DEF Rotate, Begin, Inv, TypeOK
<1>5. TypeOK'
  BY <1>2, <1>3, <1>4 DEF Rotate, Inv, TypeOK, At
<1>6. \A p \in Request : RequestOK(p)'
  BY <1>1, <1>2, <1>4 DEF Rotate, Inv, RequestOK, At
<1>7. QED
  BY <1>3, <1>5, <1>6 DEF Inv

LEMMA EndInv == ASSUME Inv, NEW r \in Token, Logout(r) \/ ExpireToken(r) PROVE Inv'
<1>1. rt' \in [Token -> Row] /\ SignedOut' /\ CodeNeeded'
  BY Ending DEF Logout, ExpireToken
<1>2. UNCHANGED <<password, secret, link, challenge, epoch, req>>
  BY DEF Logout, ExpireToken
<1>3. QED
  BY <1>1, <1>2 DEF Inv, TypeOK, RequestOK, At

\* The handlers that begin with a request of their own, or go on with one.
LEMMA BeginInv ==
    ASSUME Inv, NEW q \in Request,
           \/ \E x \in Secret : ConfirmTwoFactorSetup(q, x)
           \/ \E pw \in Epoch : DisableTwoFactor(q, pw)
           \/ ForgotPassword(q)
           \/ \E l \in Link : ResetPassword(q, l)
    PROVE  Inv'
<1>1. 0 <= epoch /\ link \in [Link -> LinkState] /\ challenge \subseteq 0 .. epoch
  BY SessionsAssumption DEF Inv, TypeOK, Epoch
<1>2. ASSUME NEW x \in Secret, ConfirmTwoFactorSetup(q, x) PROVE Inv'
  <2> DEFINE s == [IdleRequest EXCEPT !.pc = "storeSecret", !.secret = x]
  <2>1. s \in RequestState /\ s.pc = "storeSecret" /\ s.secret = x /\ s.since = 0
    BY IdleRequestType DEF RequestState, RequestPc
  <2>2. QED
    BY <1>1, <1>2, <2>1, OneRequest DEF ConfirmTwoFactorSetup, Begin
<1>3. ASSUME NEW pw \in Epoch, DisableTwoFactor(q, pw) PROVE Inv'
  <2> DEFINE s == [IdleRequest EXCEPT !.pc = "clearSecret"]
  <2>1. s \in RequestState /\ s.pc = "clearSecret" /\ s.since = 0
    BY IdleRequestType DEF RequestState, RequestPc
  <2>2. QED
    BY <1>1, <1>3, <2>1, OneRequest DEF DisableTwoFactor, Begin
<1>4. CASE ForgotPassword(q)
  <2> DEFINE s == [IdleRequest EXCEPT !.pc = "dropLinks"]
  <2>1. s \in RequestState /\ s.pc = "dropLinks" /\ s.since = 0
    BY IdleRequestType DEF RequestState, RequestPc
  <2>2. QED
    BY <1>1, <1>4, <2>1, OneRequest DEF ForgotPassword, Begin
<1>5. ASSUME NEW l \in Link, ResetPassword(q, l) PROVE Inv'
  <2> DEFINE s == [IdleRequest EXCEPT !.pc = "setPassword", !.link = l]
  <2>1. s \in RequestState /\ s.pc = "setPassword" /\ s.since = 0
    BY IdleRequestType DEF RequestState, RequestPc
  <2>2. QED
    BY <1>1, <1>5, <2>1, OneRequest DEF ResetPassword, Begin
<1>6. QED
  BY <1>2, <1>3, <1>4, <1>5

LEMMA LinkInv ==
    ASSUME Inv, NEW q \in Request, DropLinks(q) \/ \E l \in Link : CreateLink(q, l) PROVE Inv'
<1>1. 0 <= epoch /\ link' \in [Link -> LinkState] /\ challenge' \subseteq 0 .. epoch
  BY SessionsAssumption DEF DropLinks, CreateLink, LinkState, Inv, TypeOK, Epoch
<1>2. CASE DropLinks(q)
  <2> DEFINE s == [req[q] EXCEPT !.pc = "createLink"]
  <2>1. req[q] \in RequestState /\ req[q].since <= epoch
    BY DEF Inv, TypeOK, RequestOK
  <2>2. s \in RequestState /\ s.pc = "createLink" /\ s.since <= epoch
    BY <2>1 DEF RequestState, RequestPc
  <2>3. QED
    BY <1>1, <1>2, <2>2, OneRequest DEF DropLinks, Begin
<1>3. CASE \E l \in Link : CreateLink(q, l)
  BY <1>1, <1>3, IdleRequestType, OneRequest DEF CreateLink, Return, Begin
<1>4. QED
  BY <1>2, <1>3

LEMMA StoreInv == ASSUME Inv, NEW q \in Request, StoreSecret(q) \/ SetPassword(q) PROVE Inv'
<1>1. epoch \in Epoch /\ password \in Epoch /\ password <= epoch /\ epoch < MaxEpoch
  BY DEF StoreSecret, SetPassword, Inv, TypeOK
<1>2. CASE StoreSecret(q)
  <2>1. secret' \in Secret /\ link' \in [Link -> LinkState]
    BY <1>2 DEF StoreSecret, Inv, TypeOK
  <2>2. password' \in Epoch /\ password' <= epoch'
    BY <1>1, <1>2, SessionsAssumption DEF StoreSecret, Epoch
  <2>3. QED
    BY <1>1, <1>2, <2>1, <2>2, Revoking DEF StoreSecret
<1>3. CASE SetPassword(q)
  <2>1. secret' \in Secret \cup {None} /\ link' \in [Link -> LinkState]
    BY <1>3 DEF SetPassword, Inv, TypeOK, LinkState
  <2>2. password' \in Epoch /\ password' <= epoch'
    BY <1>1, <1>3, SessionsAssumption DEF SetPassword, Epoch
  <2>3. QED
    BY <1>1, <1>3, <2>1, <2>2, Revoking DEF SetPassword
<1>4. QED
  BY <1>2, <1>3

LEMMA ClearInv == ASSUME Inv, NEW q \in Request, ClearSecret(q) PROVE Inv'
<1>1. req' \in [Request -> RequestState] /\ req'[q] = IdleRequest
      /\ \A p \in Request \ {q} : req'[p] = req[p]
  BY IdleRequestType DEF ClearSecret, Return, Begin, Inv, TypeOK
<1>2. TypeOK'
  BY <1>1, IdleRequestType DEF ClearSecret, Inv, TypeOK, At
<1>3. SignedOut' /\ CodeNeeded'
  BY DEF ClearSecret, Inv, SignedOut, CodeNeeded, Live
<1>4. \A p \in Request : RequestOK(p)'
  BY <1>1, IdleRequestType, SessionsAssumption
  DEF ClearSecret, Inv, TypeOK, RequestOK, At, Epoch
<1>5. QED
  BY <1>2, <1>3, <1>4 DEF Inv

LEMMA ExpireInv ==
    ASSUME Inv, (\E l \in Link : ExpireLink(l)) \/ (\E c \in Epoch : ExpireChallenge(c))
    PROVE  Inv'
<1>1. TypeOK'
  BY DEF ExpireLink, ExpireChallenge, Inv, TypeOK, At, LinkState
<1>2. QED
  BY <1>1 DEF ExpireLink, ExpireChallenge, Inv, SignedOut, CodeNeeded, Live, RequestOK, At

LEMMA NextInv == Inv /\ [Next]_vars => Inv'
<1> SUFFICES ASSUME Inv, [Next]_vars PROVE Inv'
  OBVIOUS
<1>1. ASSUME NEW q \in Request, RequestNext(q) PROVE Inv'
  BY <1>1, LoginInv, VerifyInv, IssueInv, RefreshInv, RotateInv, BeginInv, LinkInv,
     StoreInv, ClearInv
  DEF RequestNext
<1>2. ASSUME NEW r \in Token, Logout(r) \/ ExpireToken(r) PROVE Inv'
  BY <1>2, EndInv
<1>3. CASE (\E l \in Link : ExpireLink(l)) \/ (\E c \in Epoch : ExpireChallenge(c))
  BY <1>3, ExpireInv
<1>4. CASE UNCHANGED vars
  BY <1>4 DEF vars, Inv, TypeOK, SignedOut, CodeNeeded, RequestOK, Live, At
<1>5. QED
  BY <1>1, <1>2, <1>3, <1>4 DEF Next

LEMMA InvAlways == Spec => []Inv
<1>1. QED
  BY InitInv, NextInv, PTL DEF Spec

\* Every variable keeps its type.
THEOREM SessionsTypeCorrect == Spec => []TypeOK
<1>1. Inv => TypeOK
  BY DEF Inv
<1>2. QED
  BY <1>1, InvAlways, PTL

\* Whatever logins, rotations and logouts are under way, no session that was
\* issued before the last reset of the password, or before the last second factor
\* was confirmed, can be continued.
THEOREM NoOldSession == Spec => []SignedOut
<1>1. Inv => SignedOut
  BY DEF Inv
<1>2. QED
  BY <1>1, InvAlways, PTL

\* With the second factor on, a session without a code goes back to a login or a
\* rotation that was under way when it was switched on.
THEOREM SecondFactorAsked == Spec => []CodeNeeded
<1>1. Inv => CodeNeeded
  BY DEF Inv
<1>2. QED
  BY <1>1, InvAlways, PTL

-----------------------------------------------------------------------------
(* Links *)

Usable   == {l \in Link : link[l] = "usable"}
Creating == {q \in Request : At(q, "createLink")}

LEMMA LinkSets ==
    /\ IsFiniteSet(Usable) /\ Cardinality(Usable) \in Nat
    /\ IsFiniteSet(Creating) /\ Cardinality(Creating) \in Nat
    /\ Cardinality(Creating) <= Cardinality(Request) /\ Cardinality(Request) \in Nat
<1>1. Usable \subseteq Link /\ Creating \subseteq Request
  BY DEF Usable, Creating
<1>2. QED
  BY <1>1, SessionsAssumption, FS_Subset, FS_CardinalityType

\* A step that makes no link and lets no request come to make one.
LEMMA FewerLinks ==
    ASSUME LinksBounded, Usable' \subseteq Usable, Creating' \subseteq Creating
    PROVE  LinksBounded'
<1>1. Cardinality(Usable') <= Cardinality(Usable) /\ Cardinality(Usable') \in Nat
  BY LinkSets, FS_Subset, FS_CardinalityType
<1>2. Cardinality(Creating') <= Cardinality(Creating) /\ Cardinality(Creating') \in Nat
  BY LinkSets, FS_Subset, FS_CardinalityType
<1>3. QED
  BY <1>1, <1>2, LinkSets DEF LinksBounded, Usable, Creating

\* What a step of a request makes of the requests that are about to make a link.
LEMMA CreatingMoves ==
    ASSUME Inv, NEW q \in Request, NEW s, Begin(q, s)
    PROVE  /\ s.pc # "createLink" => Creating' = Creating \ {q}
           /\ Creating' \subseteq Creating \cup {q}
BY DEF Begin, Creating, At, Inv, TypeOK

LEMMA CreateLinkBounded ==
    ASSUME Inv, LinksBounded, NEW q \in Request, NEW l \in Link, CreateLink(q, l)
    PROVE  LinksBounded'
<1>1. q \in Creating /\ Creating' = Creating \ {q}
  BY CreatingMoves, IdleRequestType DEF CreateLink, Return, Creating
<1>2. l \notin Usable /\ Usable' = Usable \cup {l}
  BY DEF CreateLink, Usable, Inv, TypeOK
<1>3. Cardinality(Creating') = Cardinality(Creating) - 1
  BY <1>1, LinkSets, FS_RemoveElement
<1>4. Cardinality(Usable') = Cardinality(Usable) + 1
  BY <1>2, LinkSets, FS_AddElement
<1>5. QED
  BY <1>3, <1>4, LinkSets DEF LinksBounded, Usable, Creating

LEMMA DropLinksBounded ==
    ASSUME Inv, NEW q \in Request, DropLinks(q) PROVE LinksBounded'
<1>1. Usable' = {}
  BY DEF DropLinks, Usable
<1>2. Creating' \subseteq Request
  BY DEF Creating
<1>3. /\ Cardinality(Creating') <= Cardinality(Request)
      /\ Cardinality(Creating') \in Nat /\ Cardinality({}) = 0
  BY <1>2, LinkSets, SessionsAssumption, FS_Subset, FS_CardinalityType, FS_EmptySet
<1>4. QED
  BY <1>1, <1>3 DEF LinksBounded, Usable, Creating

\* Nobody else comes to make a link, or makes one usable.
LEMMA OtherRequests ==
    ASSUME Inv, LinksBounded, NEW q \in Request, RequestNext(q), ~DropLinks(q),
           \A l \in Link : ~CreateLink(q, l)
    PROVE  LinksBounded'
<1>1. Usable' \subseteq Usable
  BY DEF RequestNext, Login, DisableTwoFactor, VerifyTwoFactorLogin, IssueTokens, Refresh, Rotate,
         ConfirmTwoFactorSetup, StoreSecret, ClearSecret, ForgotPassword, ResetPassword,
         SetPassword, Usable, Inv, TypeOK
<1> SUFFICES Creating' \subseteq Creating
  BY <1>1, FewerLinks
<1>2. ASSUME NEW s, Begin(q, s), s.pc # "createLink" PROVE Creating' \subseteq Creating
  BY <1>2, CreatingMoves
<1>3. ASSUME Return(q) PROVE Creating' \subseteq Creating
  BY <1>2, <1>3, IdleRequestType DEF Return
<1>4. CASE req' = req
  BY <1>4 DEF Creating, At
<1>5. CASE \E r \in Token : IssueTokens(q, r)
  BY <1>3, <1>5 DEF IssueTokens
<1>6. CASE StoreSecret(q) \/ ClearSecret(q) \/ SetPassword(q)
  BY <1>3, <1>6 DEF StoreSecret, ClearSecret, SetPassword
<1>7. CASE Rotate(q)
  <2>1. req[q] \in RequestState
    BY DEF Inv, TypeOK
  <2>2. PICK s : s = [req[q] EXCEPT !.pc = "issue", !.token = None]
    OBVIOUS
  <2>3. s.pc = "issue"
    BY <2>1, <2>2 DEF RequestState
  <2>4. QED
    BY <1>2, <1>7, <2>2, <2>3 DEF Rotate
<1>8. CASE \/ \E pw \in Epoch : Login(q, pw) \/ DisableTwoFactor(q, pw)
           \/ \E c \in Epoch, s \in Secret : VerifyTwoFactorLogin(q, c, s)
           \/ \E r \in Token : Refresh(q, r)
           \/ \E s \in Secret : ConfirmTwoFactorSetup(q, s)
           \/ ForgotPassword(q)
           \/ \E l \in Link : ResetPassword(q, l)
  <2>1. PICK s : /\ req' = req \/ Begin(q, s)
                 /\ \/ s = [IdleRequest EXCEPT !.pc = "issue", !.since = epoch]
                    \/ \E c \in Epoch :
                         s = [IdleRequest EXCEPT !.pc = "issue", !.since = c, !.code = TRUE]
                    \/ \E r \in Token :
                         s = [IdleRequest EXCEPT !.pc = "rotate", !.token = r, !.since = epoch,
                                                 !.code = rt[r].code, !.late = rt[r].late]
                    \/ \E x \in Secret : s = [IdleRequest EXCEPT !.pc = "storeSecret", !.secret = x]
                    \/ s = [IdleRequest EXCEPT !.pc = "clearSecret"]
                    \/ s = [IdleRequest EXCEPT !.pc = "dropLinks"]
                    \/ \E l \in Link : s = [IdleRequest EXCEPT !.pc = "setPassword", !.link = l]
    BY <1>8 DEF Login, DisableTwoFactor, VerifyTwoFactorLogin, Refresh, ConfirmTwoFactorSetup,
                ForgotPassword, ResetPassword
  <2>2. s.pc # "createLink"
    BY <2>1 DEF IdleRequest
  <2>3. QED
    BY <1>2, <1>4, <2>1, <2>2
<1>9. QED
  BY <1>5, <1>6, <1>7, <1>8 DEF RequestNext

LEMMA LinksStep ==
    ASSUME Inv, LinksBounded, [Next]_vars PROVE LinksBounded'
<1>1. ASSUME NEW q \in Request, RequestNext(q) PROVE LinksBounded'
  BY <1>1, CreateLinkBounded, DropLinksBounded, OtherRequests
<1>2. ASSUME req' = req, Usable' \subseteq Usable PROVE LinksBounded'
  <2>1. Creating' = Creating
    BY <1>2 DEF Creating, At
  <2>2. QED
    BY <1>2, <2>1, FewerLinks
<1>3. ASSUME NEW r \in Token, Logout(r) \/ ExpireToken(r) PROVE LinksBounded'
  <2>1. req' = req /\ link' = link
    BY <1>3 DEF Logout, ExpireToken
  <2>2. QED
    BY <1>2, <2>1 DEF Usable
<1>4. ASSUME NEW l \in Link, ExpireLink(l) PROVE LinksBounded'
  BY <1>2, <1>4 DEF ExpireLink, Usable, Inv, TypeOK
<1>5. ASSUME NEW c \in Epoch, ExpireChallenge(c) PROVE LinksBounded'
  BY <1>2, <1>5 DEF ExpireChallenge, Usable
<1>6. CASE UNCHANGED vars
  BY <1>2, <1>6 DEF vars, Usable
<1>7. QED
  BY <1>1, <1>3, <1>4, <1>5, <1>6 DEF Next

\* The links of a forgotten password that work, and those being made, are no more
\* than the requests that can overlap: forgotPassword voids all earlier ones
\* before it makes its own.
THEOREM FewLinks == Spec => []LinksBounded
<1>1. ASSUME Init PROVE LinksBounded
  <2>1. Usable = {} /\ Creating = {}
    BY <1>1, IdleRequestType DEF Init, Usable, Creating, At
  <2>2. Cardinality({}) = 0
    BY FS_EmptySet
  <2>3. Cardinality(Usable) + Cardinality(Creating) <= Cardinality(Request)
    BY <2>1, <2>2, LinkSets
  <2>4. QED
    BY <2>3 DEF LinksBounded, Usable, Creating
<1>2. Inv /\ LinksBounded /\ [Next]_vars => LinksBounded'
  BY LinksStep
<1>3. QED
  BY <1>1, <1>2, InitInv, NextInv, PTL DEF Spec
=============================================================================
