----------------------------- MODULE MCRequests -----------------------------
EXTENDS Requests, TLC

CONSTANTS u1, u2, t1, t2, r1, r2

\* One user belongs to both companies, with different roles, and is signed in at
\* the first; the other owns the second, whose plan has no reports.
MCInit ==
    /\ Init
    /\ row = [x \in Row |-> IF x = r1 THEN t1 ELSE IF x = r2 THEN t2 ELSE None]
    /\ member = (t1 :> (u1 :> "OWNER" @@ u2 :> None)
                 @@ t2 :> (u1 :> "VIEWER" @@ u2 :> "OWNER"))
    /\ plan = (t1 :> "STANDARD" @@ t2 :> "STARTER")
    /\ browser = [user |-> u1, tenant |-> t1]

MCSpec == MCInit /\ [][Next]_vars
=============================================================================
