--------------------------- MODULE Administrators ---------------------------
(***************************************************************************)
(* What the administrative handlers have in common.  An administrator      *)
(* works on one thing at a time, each in one transaction of db.ts; op[a]   *)
(* is the operation a has begun, with what it has read so far and the rows *)
(* it has locked FOR SHARE and FOR UPDATE.  Locks go with the transaction: *)
(* an operation that ends, or fails, releases them.                        *)
(***************************************************************************)
CONSTANT Admin          \* administrators working at the same time

VARIABLE op             \* what each of them is doing

NoOp == [kind |-> "none"]

Doing(a, kind) == op[a].kind = kind
Begins(a, o) == op[a] = NoOp /\ op' = [op EXCEPT ![a] = o]
Goes(a, o) == op' = [op EXCEPT ![a] = o]
Ends(a) == op' = [op EXCEPT ![a] = NoOp]

\* Deadlock victim, lost connection, a constraint that fails: ROLLBACK.
Fails(a) == op[a] # NoOp /\ Ends(a)

Holds(a, mode) == IF mode \in DOMAIN op[a] THEN op[a][mode] ELSE {}

\* PostgreSQL lets a lock these rows beside what the others have locked.
CanLock(a, share, update) ==
  \A b \in Admin \ {a} : /\ (share \cup update) \cap Holds(b, "update") = {}
                         /\ update \cap Holds(b, "share") = {}
=============================================================================
