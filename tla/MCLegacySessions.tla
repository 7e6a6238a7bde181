--------------------------- MODULE MCLegacySessions ---------------------------
(* One user who logs in once or twice to t1; t2 is another tool.            *)
EXTENDS LegacySessions, TLC

CONSTANTS l1, l2, u1, t1, t2, w1, w2

OneLogin == {l1}
TwoLogins == {l1, l2}
OneUser == {u1}
OneTool == {t1}
TwoTools == {t1, t2}
ToT1 == [l \in Login |-> t1]
TwoWorkers == {w1, w2}
AllRequests == {"exchange", "refresh", "logout_tool", "logout_user"}
Refreshes == {"exchange", "refresh"}

Alike == Permutations(TwoWorkers)
LoginsAlike == Alike \cup Permutations(TwoLogins)
=============================================================================
