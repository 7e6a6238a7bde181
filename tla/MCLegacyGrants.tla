--------------------------- MODULE MCLegacyGrants ---------------------------
(* A small instance of LegacyGrants: one administrator, who imports.       *)
EXTENDS LegacyGrants

CONSTANTS p1, a1

OnePerson == {p1}
OneAdmin == {a1}
ImportsOnly == {"upsert"}
=============================================================================
