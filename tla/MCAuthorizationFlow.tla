------------------------ MODULE MCAuthorizationFlow -------------------------
(* Small instances of AuthorizationFlow.                                   *)
EXTENDS AuthorizationFlow, TLC

CONSTANTS t1, g1, g2, w1, w2

OneTxn == {t1}
TwoGrants == {g1, g2}
TwoWorkers == {w1, w2}
Alike == Permutations(Grant) \cup Permutations(Worker)
=============================================================================
