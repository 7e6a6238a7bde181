--------------------------- MODULE MCRefreshLocks ---------------------------
(* Three requests, so that one can wait for a row the two others fight for. *)
EXTENDS RefreshLocks, TLC

CONSTANTS w1, w2, w3

TwoWorkers == {w1, w2}
ThreeWorkers == {w1, w2, w3}
RefreshAndRevoke == {"refresh", "revoke"}
OnlyRefresh == {"refresh"}
=============================================================================
