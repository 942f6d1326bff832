------------------------------ MODULE MCAccess ------------------------------
(* Instances of Access for TLC.                                            *)
EXTENDS Access, TLC

CONSTANTS r1, r2, e1, p1, p2

\* One attempt in a window of one.
SmallLimits ==
  [name \in {"login", "signup", "password_reset"} |-> [limit |-> 1, window |-> 1]]
SmallHits == [name \in DOMAIN SmallLimits |-> IF name = "login" THEN 3 ELSE 1]
=============================================================================
