--------------------------- MODULE MCSigningKeys ---------------------------
(* Two keys, so that one supersedes the other.                             *)
EXTENDS SigningKeys, TLC

CONSTANTS k1, k2, o1, o2, w1, w2

TwoKeys == {k1, k2}
OneAdmin == {o1}
TwoAdmins == {o1, o2}
OneSigner == {w1}
TwoSigners == {w1, w2}

Alike == Permutations(TwoKeys) \cup Permutations(TwoAdmins) \cup Permutations(TwoSigners)
=============================================================================
