--------------------------- MODULE MCOAuthTokens ---------------------------
(* One authorization, of client c1; c2 is another client that may have got  *)
(* hold of its tokens.                                                      *)
EXTENDS OAuthTokens, TLC

CONSTANTS a1, c1, c2, s1, s2, w1, w2

NoChanges == {}
AllChanges == {"client", "entitlement"}
OneAuth == {a1}
OneClient == {c1}
TwoClients == {c1, c2}
OwnedByC1 == [a \in OneAuth |-> c1]
OneScope == {s1}
TwoScopes == {s1, s2}
OneWorker == {w1}
TwoWorkers == {w1, w2}
ChangingRequests == {"exchange", "refresh", "revoke_refresh"}
AllRequests == ChangingRequests \cup {"revoke_access", "introspect"}

WorkersAlike == Permutations(TwoWorkers)
Alike == WorkersAlike \cup Permutations(TwoScopes)
=============================================================================
