------------------------------ MODULE MCBackup ------------------------------
(* A small instance of Backup: one administrator, three tokens.            *)
EXTENDS Backup

CONSTANT a1

OneAdmin == {a1}
=============================================================================
