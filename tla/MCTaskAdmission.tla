--------------------------- MODULE MCTaskAdmission --------------------------
EXTENDS TaskAdmission, TLC

CONSTANTS m1, m2, m3, e1, e2

\* Two messages compete for the one token of e1; e2 has no limit.
Routing == (m1 :> e1) @@ (m2 :> e1) @@ (m3 :> e2)
Urgency == (m1 :> 5) @@ (m2 :> 9) @@ (m3 :> 5)
Limits  == (e1 :> 1) @@ (e2 :> 0)

=============================================================================
