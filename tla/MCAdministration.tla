-------------------------- MODULE MCAdministration --------------------------
(***************************************************************************)
(* Instances of Administration, and of its topics on their own.            *)
(***************************************************************************)
EXTENDS Administration, TLC

CONSTANTS p1, a1, a2, o1, o2, c1, c2, s1, n1, b1, t1, t2, k1, u1

OnePerson == {p1}
OneAdmin == {a1}
TwoAdmins == {a1, a2}
AdminsAlike == Permutations(Admin)

\* LegacyGrants.
MostOperations == {"create", "patch", "upsert", "revoke", "approved", "rejected"}
ImportsOnly == {"upsert"}

\* Credentials.
TwoOperators == {o1, o2}
TwoCallers == {c1, c2}

\* Registration: what goes on at the same time.  The two halves meet in scopes
\* and mappings, which both write.
OneScope == {s1}
OneNative == {n1}
OneBridge == {b1}
TwoTools == {t1, t2}
OneKey == {k1}
OneUri == {u1}
TwoAgendas == {{"scopes", "native", "mapping", "status", "client", "preview", "replace"},
               {"scopes", "bridge", "mapping", "binding", "tools"}}
=============================================================================
