------------------------- MODULE SigningKeys_proof -------------------------
(***************************************************************************)
(* Proofs about SigningKeys, for any number of keys, administrators and    *)
(* signers, any times within the assumptions, and a clock without bound.   *)
(*                                                                         *)
(* That one key is in use is not inductive: an activation reads the keys   *)
(* in use, and withdraws them later.  The strengthening says what keeps    *)
(* its reading true meanwhile: the advisory lock admits one activation     *)
(* (Alone), and the rows it holds are its own key, still published, and    *)
(* all the keys in use (Prepared).                                         *)
(***************************************************************************)
EXTENDS SigningKeys, FiniteSetTheorems, TLAPS

\* An activation past its advisory lock, and the administrator that runs it.
Inside(o) == op[o] # NoOp /\ op[o].phase # "asked"
Alone == \A o \in Admin : Inside(o) => advisory = o /\ op[o].kind = "activate"

\* What an activation holds, at each phase of it.
Prepared ==
  \A o \in Admin : op[o] # NoOp =>
    /\ op[o].phase \in {"asked", "exclusive"} => op[o].rows = {}
    /\ op[o].phase = "target" => op[o].rows = {op[o].key}
    /\ op[o].phase = "write" => op[o].rows = {op[o].key} \cup InUse
    /\ op[o].phase \in {"target", "write"} => key[op[o].key].status = "published"

AtMostOne == \A j, k \in InUse : j = k

Inv == TypeOK /\ Alone /\ Prepared /\ AtMostOne

Used(row) == row.status = "active" /\ row.retire_after = Null

-----------------------------------------------------------------------------
(* Operators.                                                              *)

LEMMA MaxOfTimes ==
  ASSUME NEW x \in TimeOrNull, NEW y \in TimeOrNull
  PROVE  Max({x, y}) \in TimeOrNull
  <1>1. \E m \in {x, y} : \A n \in {x, y} : m >= n
    BY DEF TimeOrNull, Null
  <1>2. Max({x, y}) \in {x, y}
    BY <1>1 DEF Max
  <1> QED
    BY <1>2

\* A row that activate or retire withdraws is a row, and no longer in use.
LEMMA SupersededRow ==
  ASSUME NEW row \in Row, NEW now \in Nat, row.status = "active"
  PROVE  Superseded(row, now) \in Row /\ ~Used(Superseded(row, now))
  <1>1. Grace \in Nat
    BY TimeAssumption
  <1>2. row.last_signed_at # Null => Deadline(row) \in Nat
    BY <1>1 DEF Deadline, Row, TimeOrNull, Null
  <1>3. CASE row.last_signed_at = Null
    BY <1>3 DEF Superseded, Row, Used
  <1>4. CASE row.last_signed_at # Null
    <2> DEFINE d == Deadline(row)
    <2>1. d \in Nat /\ d \in TimeOrNull /\ d # Null /\ now \in TimeOrNull
      BY <1>2, <1>4 DEF TimeOrNull, Null
    <2> HIDE DEF d
    <2>2. [row EXCEPT !.status = "retired", !.retire_after = d, !.retired_at = now] \in Row
      BY <2>1 DEF Row
    <2>3. [row EXCEPT !.retire_after = d] \in Row
      BY <2>1 DEF Row
    <2>4. CASE d <= now
      BY <1>4, <2>2, <2>4 DEF Superseded, Used, Row, d
    <2>5. CASE ~(d <= now)
      BY <1>4, <2>1, <2>3, <2>5 DEF Superseded, Used, Row, d
    <2> QED
      BY <2>4, <2>5
  <1> QED
    BY <1>3, <1>4

\* The keys in use, row by row.
LEMMA InUseRows == InUse = {k \in Key : Used(key[k])}
  BY DEF InUse, Used

LEMMA InitInv == Init => Inv
  <1> SUFFICES ASSUME Init PROVE Inv
    OBVIOUS
  <1> USE DEF Init
  <1>1. TypeOK
    BY NobodyAssumption DEF TypeOK, NoKey, Row, TimeOrNull, Null, NoOp, NoCache
  <1>2. Alone /\ Prepared
    BY DEF Alone, Prepared, Inside
  <1>3. InUse = {}
    BY DEF InUse, NoKey
  <1> QED
    BY <1>1, <1>2, <1>3 DEF Inv, AtMostOne

-----------------------------------------------------------------------------
(* What the steps have in common.                                          *)

\* One row is written that no other administrator holds, the operation that
\* writes it ends, and no key comes into use.
LEMMA RowWritten ==
  ASSUME Inv, NEW o \in Admin, op[o] # NoOp, op[o].phase = "asked",
         NEW k \in Key, Free(o, k),
         NEW row \in Row, Used(row) => Used(key[k]),
         key' = [key EXCEPT ![k] = row],
         Finish(o), UNCHANGED advisory
  PROVE  Inv'
  <1> USE DEF Inv, Finish
  <1>1. TypeOK'
    BY DEF TypeOK
  <1>2. \A p \in Admin : op'[p] = IF p = o THEN NoOp ELSE op[p]
    BY DEF TypeOK
  <1>3. Alone'
    BY <1>2 DEF Alone, Inside
  <1>4. \A j \in Key : key'[j] = IF j = k THEN row ELSE key[j]
    BY DEF TypeOK
  <1>5. InUse' \subseteq InUse /\ InUse \ {k} \subseteq InUse'
    BY <1>4 DEF InUse, Used
  <1>6. AtMostOne'
    BY <1>5 DEF AtMostOne
  <1>7. Prepared'
    <2> SUFFICES ASSUME NEW p \in Admin, p # o, op[p] # NoOp
                 PROVE  Prepared!(p)'
      BY <1>2 DEF Prepared
    <2>1. op'[p] = op[p] /\ k \notin op[p].rows
      BY <1>2 DEF Free, Locked
    <2>2. Prepared!(p)
      BY DEF Prepared
    <2>3. op[p].key \in Key
      BY DEF TypeOK, Operation
    <2>4. op[p].phase \in {"target", "write"} => op[p].key # k
      BY <2>1, <2>2
    <2>5. op[p].phase = "write" => InUse' = InUse
      BY <1>5, <2>1, <2>2
    <2> QED
      BY <1>4, <2>1, <2>2, <2>3, <2>4, <2>5
  <1> QED
    BY <1>1, <1>3, <1>6, <1>7

\* An operation that is refused, or a signer's step that fails, writes no row.
LEMMA Rejected ==
  ASSUME Inv, NEW o \in Admin, op[o] # NoOp, Reject(o)
  PROVE  Inv'
  <1> USE DEF Inv, Reject, Finish, Unlock
  <1>1. \A p \in Admin : op'[p] = IF p = o THEN NoOp ELSE op[p]
    BY DEF TypeOK
  <1>2. TypeOK'
    BY DEF TypeOK
  <1>3. Alone'
    BY <1>1 DEF Alone, Inside
  <1>4. InUse' = InUse
    BY DEF InUse
  <1>5. Prepared'
    BY <1>1, <1>4 DEF Prepared
  <1>6. AtMostOne'
    BY <1>4 DEF AtMostOne
  <1> QED
    BY <1>2, <1>3, <1>5, <1>6

-----------------------------------------------------------------------------
(* Administrative operations.                                              *)

LEMMA GenerateInv ==
  ASSUME Inv, NEW k \in Key, Generate(k) PROVE Inv'
  <1> USE DEF Inv, Generate
  <1>1. TypeOK'
    BY DEF TypeOK, Row
  <1>2. \A j \in Key : j # k => key'[j] = key[j]
    BY DEF TypeOK
  <1>3. key'[k].status = "staged"
    BY DEF TypeOK, Row
  <1>4. InUse' = InUse
    BY <1>2, <1>3 DEF InUse
  <1>5. Alone' /\ AtMostOne'
    BY <1>4 DEF Alone, Inside, AtMostOne
  <1>6. Prepared'
    <2>1. \A o \in Admin : op[o] # NoOp => op[o].key \in Key
      BY DEF TypeOK, Operation
    <2> QED
      BY <1>2, <1>4, <2>1 DEF Prepared
  <1> QED
    BY <1>1, <1>5, <1>6

LEMMA AskInv ==
  ASSUME Inv, NEW o \in Admin, Ask(o) PROVE Inv'
  <1> USE DEF Inv, Ask
  <1>1. PICK kind \in Kind, k \in Key :
          op' = [op EXCEPT ![o] = [kind |-> kind, key |-> k, now |-> clock,
                                   phase |-> "asked", rows |-> {}]]
    OBVIOUS
  <1>2. TypeOK'
    BY <1>1 DEF TypeOK, Operation
  <1>3. InUse' = InUse
    BY DEF InUse
  <1>4. Alone' /\ Prepared' /\ AtMostOne'
    BY <1>1, <1>3 DEF TypeOK, Alone, Inside, Prepared, AtMostOne
  <1> QED
    BY <1>2, <1>4

LEMMA PublishInv ==
  ASSUME Inv, NEW o \in Admin, Publish(o) PROVE Inv'
  <1> DEFINE k == op[o].key
             row == [key[k] EXCEPT !.status = "published", !.published_at = op[o].now,
                                   !.activates_at = op[o].now + Lead]
  <1>1. op[o] # NoOp /\ op[o].phase = "asked" /\ op[o] \in Operation /\ k \in Key
    BY DEF Inv, Publish, At, TypeOK, Operation
  <1>2. CASE key[k].status = "staged" /\ Finish(o) /\ UNCHANGED advisory
             /\ key' = [key EXCEPT ![k] = row]
    <2>1. key[k] \in Row /\ op[o].now \in TimeOrNull /\ op[o].now + Lead \in TimeOrNull
      BY <1>1, TimeAssumption DEF Inv, TypeOK, Operation, TimeOrNull
    <2>2. row \in Row
      BY <2>1 DEF Row
    <2>3. ~Used(row)
      BY <2>1 DEF Row, Used
    <2> QED
      BY <1>1, <1>2, <2>2, <2>3, RowWritten DEF Publish
  <1>3. CASE Reject(o)
    BY <1>1, <1>3, Rejected
  <1> QED
    BY <1>1, <1>2, <1>3 DEF Publish, ActivationTime, PublishLead, Inv, TypeOK

LEMMA RetireInv ==
  ASSUME Inv, NEW o \in Admin, Retire(o) PROVE Inv'
  <1> DEFINE k == op[o].key
             row == Superseded(key[k], op[o].now)
  <1>1. op[o] # NoOp /\ op[o].phase = "asked" /\ op[o] \in Operation /\ k \in Key
    BY DEF Inv, Retire, At, TypeOK, Operation
  <1>2. CASE key[k].status = "active" /\ Finish(o) /\ UNCHANGED advisory
             /\ key' = [key EXCEPT ![k] = row]
    <2>1. key[k] \in Row /\ op[o].now \in Nat
      BY <1>1 DEF Inv, TypeOK, Operation
    <2>2. row \in Row /\ ~Used(row)
      BY <1>2, <2>1, SupersededRow
    <2> QED
      BY <1>1, <1>2, <2>2, RowWritten DEF Retire
  <1>3. CASE Reject(o)
    BY <1>1, <1>3, Rejected
  <1> QED
    BY <1>1, <1>2, <1>3 DEF Retire, Inv, TypeOK

LEMMA DisableInv ==
  ASSUME Inv, NEW o \in Admin, Disable(o) PROVE Inv'
  <1> DEFINE k == op[o].key
             row == [key[k] EXCEPT !.status = "disabled"]
  <1>1. op[o] # NoOp /\ op[o].phase = "asked" /\ op[o] \in Operation /\ k \in Key
    BY DEF Inv, Disable, At, TypeOK, Operation
  <1>2. CASE Finish(o) /\ UNCHANGED advisory /\ key' = [key EXCEPT ![k] = row]
    <2>1. row \in Row /\ ~Used(row)
      BY <1>1 DEF Inv, TypeOK, Row, Used
    <2> QED
      BY <1>1, <1>2, <2>1, RowWritten DEF Disable
  <1>3. CASE Reject(o)
    BY <1>1, <1>3, Rejected
  <1> QED
    BY <1>1, <1>2, <1>3 DEF Disable, Inv, TypeOK

\* An activation goes on to its next phase, and holds what that phase holds.
LEMMA ActivationAdvances ==
  ASSUME Inv, NEW o \in Admin, op[o] # NoOp, op[o].kind = "activate",
         NEW phase \in {"exclusive", "target", "write"}, NEW rows \in SUBSET Key,
         op' = [op EXCEPT ![o] = [op[o] EXCEPT !.phase = phase, !.rows = rows]],
         \A p \in Admin : Inside(p) => p = o,
         advisory' = o,
         UNCHANGED <<clock, key, signing, newest, cache>>,
         phase = "exclusive" => rows = {},
         phase = "target" => rows = {op[o].key},
         phase = "write" => rows = {op[o].key} \cup InUse,
         phase \in {"target", "write"} => key[op[o].key].status = "published"
  PROVE  Inv'
  <1> USE DEF Inv
  <1>1. op[o] \in Operation
    BY DEF TypeOK
  <1>2. op'[o] = [kind |-> "activate", key |-> op[o].key, now |-> op[o].now,
                  phase |-> phase, rows |-> rows]
    BY <1>1 DEF TypeOK, Operation
  <1>3. op'[o] \in Operation /\ op'[o] # NoOp
    BY <1>1, <1>2 DEF Operation, Kind, NoOp
  <1>4. \A p \in Admin : p # o => op'[p] = op[p]
    BY DEF TypeOK
  <1>5. TypeOK'
    BY <1>3, <1>4 DEF TypeOK
  <1>6. InUse' = InUse
    BY DEF InUse
  <1>7. Alone'
    BY <1>2, <1>4 DEF Alone, Inside
  <1>8. Prepared'
    <2> SUFFICES ASSUME NEW p \in Admin, op'[p] # NoOp PROVE Prepared!(p)'
      BY DEF Prepared
    <2>1. CASE p = o
      BY <1>2, <1>6, <2>1
    <2>2. CASE p # o
      BY <1>4, <1>6, <2>2 DEF Prepared
    <2> QED
      BY <2>1, <2>2
  <1>9. AtMostOne'
    BY <1>6 DEF AtMostOne
  <1> QED
    BY <1>5, <1>7, <1>8, <1>9

LEMMA ActivateAcquireInv ==
  ASSUME Inv, NEW o \in Admin, ActivateAcquire(o) PROVE Inv'
  <1>1. op[o] # NoOp /\ op[o].kind = "activate" /\ op[o].phase = "asked"
    BY DEF ActivateAcquire, At
  <1>2. op[o] \in Operation /\ op[o].rows = {}
    BY <1>1 DEF Inv, TypeOK, Prepared
  <1>3. [op[o] EXCEPT !.phase = "exclusive", !.rows = {}] = [op[o] EXCEPT !.phase = "exclusive"]
    BY <1>2 DEF Operation
  <1>4. op' = [op EXCEPT ![o] = [op[o] EXCEPT !.phase = "exclusive", !.rows = {}]]
    BY <1>3 DEF ActivateAcquire
  <1>5. advisory' = o /\ UNCHANGED <<clock, key, signing, newest, cache>>
    BY DEF ActivateAcquire
  <1>6. \A p \in Admin : Inside(p) => p = o
    BY NobodyAssumption DEF Inv, Alone, ActivateAcquire, AdvisoryFree
  <1>7. {} \in SUBSET Key
    OBVIOUS
  <1> QED
    BY <1>1, <1>4, <1>5, <1>6, <1>7, ActivationAdvances

LEMMA ActivateLockInv ==
  ASSUME Inv, NEW o \in Admin, ActivateLock(o) PROVE Inv'
  <1>1. op[o] # NoOp /\ op[o].kind = "activate" /\ op[o].phase = "exclusive"
    BY DEF ActivateLock, At
  <1>2. op[o] \in Operation /\ op[o].key \in Key
    BY <1>1 DEF Inv, TypeOK, Operation
  <1>3. advisory = o /\ \A p \in Admin : Inside(p) => p = o
    BY <1>1 DEF Inv, Alone, Inside
  <1>4. CASE Reject(o)
    BY <1>1, <1>4, Rejected
  <1>5. CASE /\ key[op[o].key].status = "published"
             /\ op' = [op EXCEPT ![o].phase = "target", ![o].rows = {op[o].key}]
             /\ UNCHANGED <<clock, key, advisory, signing, newest, cache>>
    <2>1. op' = [op EXCEPT ![o] = [op[o] EXCEPT !.phase = "target", !.rows = {op[o].key}]]
      BY <1>5
    <2>2. {op[o].key} \in SUBSET Key
      BY <1>2
    <2>3. advisory' = o /\ UNCHANGED <<clock, key, signing, newest, cache>>
      BY <1>3, <1>5
    <2> QED
      BY <1>1, <1>3, <1>5, <2>1, <2>2, <2>3, ActivationAdvances
  <1> QED
    BY <1>4, <1>5 DEF ActivateLock

LEMMA ActivateScanInv ==
  ASSUME Inv, NEW o \in Admin, ActivateScan(o) PROVE Inv'
  <1> USE DEF ActivateScan, At
  <1>1. op[o] \in Operation /\ op[o].key \in Key
    BY DEF Inv, TypeOK, Operation
  <1>2. advisory = o /\ \A p \in Admin : Inside(p) => p = o
    BY DEF Inv, Alone, Inside
  <1>3. op[o].rows = {op[o].key} /\ key[op[o].key].status = "published"
    BY DEF Inv, Prepared
  <1>4. CASE Reject(o)
    BY <1>4, Rejected
  <1>5. CASE /\ op' = [op EXCEPT ![o].phase = "write", ![o].rows = @ \cup InUse]
             /\ UNCHANGED <<clock, key, advisory, signing, newest, cache>>
    <2>1. {op[o].key} \cup InUse \in SUBSET Key
      BY <1>1 DEF InUse
    <2>2. op' = [op EXCEPT ![o] = [op[o] EXCEPT !.phase = "write",
                                                !.rows = {op[o].key} \cup InUse]]
      BY <1>1, <1>3, <1>5
    <2> QED
      BY <1>2, <1>3, <1>5, <2>1, <2>2, ActivationAdvances
  <1> QED
    BY <1>4, <1>5

LEMMA ActiveRow ==
  ASSUME NEW row \in Row PROVE [row EXCEPT !.status = "active"] \in Row
  BY DEF Row

\* It commits: its key is in use, and every key that was is withdrawn.
LEMMA ActivateCommitInv ==
  ASSUME Inv, NEW o \in Admin, ActivateCommit(o) PROVE Inv'
  <1> USE DEF Inv, ActivateCommit, At, Finish, Unlock
  <1> DEFINE k == op[o].key
  <1>1. op[o] \in Operation /\ k \in Key /\ op[o].now \in Nat
    BY DEF TypeOK, Operation
  <1>2. op[o].rows = {k} \cup InUse /\ key[k].status = "published"
    BY DEF Prepared
  <1>3. \A j \in Key : key'[j] = IF j = k THEN [key[j] EXCEPT !.status = "active"]
                                 ELSE IF j \in InUse THEN Superseded(key[j], op[o].now)
                                 ELSE key[j]
    BY <1>2
  <1>4. \A j \in InUse : /\ Superseded(key[j], op[o].now) \in Row
                         /\ ~Used(Superseded(key[j], op[o].now))
    BY <1>1, SupersededRow DEF InUse, TypeOK
  <1>5. key' \in [Key -> Row]
    <2>1. [key[k] EXCEPT !.status = "active"] \in Row
      <3>1. key[k] \in Row
        BY <1>1 DEF TypeOK
      <3> QED
        BY <3>1, ActiveRow
    <2>2. \A j \in Key : key'[j] \in Row
      <3> SUFFICES ASSUME NEW j \in Key PROVE key'[j] \in Row
        OBVIOUS
      <3>1. CASE j = k
        <4>1. key'[j] = [key[k] EXCEPT !.status = "active"]
          BY <1>3, <3>1
        <4> QED
          BY <2>1, <4>1
      <3>2. CASE j # k /\ j \in InUse
        <4>1. key'[j] = Superseded(key[j], op[o].now)
          BY <1>3, <3>2
        <4> QED
          BY <1>4, <3>2, <4>1
      <3>3. CASE j # k /\ j \notin InUse
        <4>1. key'[j] = key[j]
          BY <1>3, <3>3
        <4> QED
          BY <4>1 DEF TypeOK
      <3> QED
        BY <3>1, <3>2, <3>3
    <2>3. key' = [j \in Key |-> key'[j]]
      OBVIOUS
    <2> QED
      BY <2>2, <2>3
  <1>6. \A p \in Admin : op'[p] = IF p = o THEN NoOp ELSE op[p]
    BY DEF TypeOK
  <1>7. TypeOK'
    BY <1>5 DEF TypeOK
  <1>8. \A p \in Admin : ~Inside(p)'
    BY <1>6 DEF Alone, Inside
  <1>9. Alone'
    BY <1>8 DEF Alone
  <1>10. Prepared'
    <2>1. \A p \in Admin : op'[p] # NoOp => op'[p].phase = "asked"
      BY <1>8 DEF Inside
    <2> QED
      BY <1>6, <2>1 DEF Prepared
  <1>11. \A j \in Key : Used(key'[j]) => j = k
    <2> SUFFICES ASSUME NEW j \in Key, j # k PROVE ~Used(key'[j])
      OBVIOUS
    <2>1. CASE j \in InUse
      BY <1>3, <1>4, <2>1
    <2>2. CASE j \notin InUse
      <3>1. key'[j] = key[j]
        BY <1>3, <2>2
      <3> QED
        BY <2>2, <3>1 DEF InUse, Used
    <2> QED
      BY <2>1, <2>2
  <1>12. AtMostOne'
    BY <1>11 DEF AtMostOne, InUse, Used
  <1> QED
    BY <1>7, <1>9, <1>10, <1>12

-----------------------------------------------------------------------------
(* Everything else.                                                        *)

LEMMA SignInv ==
  ASSUME Inv, NEW w \in Signer, Sign(w) PROVE Inv'
  <1> USE DEF Inv, Sign
  <1>1. PICK k \in Key :
          /\ key' = [key EXCEPT ![k].last_signed_at = LaterOf(@, signing[w])]
          /\ newest' = [newest EXCEPT ![k] = Max({@, signing[w]})]
    OBVIOUS
  <1>2. /\ LaterOf(key[k].last_signed_at, signing[w]) \in TimeOrNull
        /\ Max({newest[k], signing[w]}) \in TimeOrNull
    BY MaxOfTimes DEF TypeOK, Row, LaterOf
  <1>3. TypeOK'
    <2>1. [key[k] EXCEPT !.last_signed_at = LaterOf(@, signing[w])] \in Row
      BY <1>2 DEF TypeOK, Row
    <2>2. key' \in [Key -> Row]
      BY <1>1, <2>1 DEF TypeOK
    <2>3. newest' \in [Key -> TimeOrNull]
      BY <1>1, <1>2 DEF TypeOK
    <2>4. signing' \in [Signer -> TimeOrNull]
      BY DEF TypeOK, TimeOrNull
    <2> QED
      BY <2>2, <2>3, <2>4 DEF TypeOK
  <1>4. \A j \in Key : /\ key'[j].status = key[j].status
                       /\ key'[j].retire_after = key[j].retire_after
    BY <1>1 DEF TypeOK, Row
  <1>5. InUse' = InUse
    BY <1>4 DEF InUse
  <1>6. Alone' /\ AtMostOne'
    BY <1>5 DEF Alone, Inside, AtMostOne
  <1>7. Prepared'
    <2>1. \A o \in Admin : op[o] # NoOp => op[o].key \in Key
      BY DEF TypeOK, Operation
    <2> QED
      BY <1>4, <1>5, <2>1 DEF Prepared
  <1> QED
    BY <1>3, <1>6, <1>7

\* Steps that touch neither the keys nor the operations on them.
LEMMA Aside ==
  ASSUME Inv, UNCHANGED <<key, op, advisory>>, TypeOK' PROVE Inv'
  <1>1. InUse' = InUse
    BY DEF InUse
  <1> QED
    BY <1>1 DEF Inv, Alone, Inside, Prepared, AtMostOne

LEMMA OtherStepsType ==
  ASSUME Inv,
         \/ \E w \in Signer : BeginSigning(w) \/ SigningFails(w)
         \/ Fetch \/ Tick \/ UNCHANGED vars
  PROVE  TypeOK' /\ UNCHANGED <<key, op, advisory>>
  <1> USE DEF Inv, TypeOK, TimeOrNull
  <1>1. CASE \E w \in Signer : BeginSigning(w)
    BY <1>1 DEF BeginSigning
  <1>2. CASE \E w \in Signer : SigningFails(w)
    BY <1>2 DEF SigningFails
  <1>3. CASE Fetch
    BY <1>3 DEF Fetch, Jwks
  <1>4. CASE Tick
    BY <1>4 DEF Tick
  <1>5. CASE UNCHANGED vars
    BY <1>5 DEF vars
  <1> QED
    BY <1>1, <1>2, <1>3, <1>4, <1>5

-----------------------------------------------------------------------------

\* Every step keeps the strengthened invariant.
LEMMA NextInv == Inv /\ [Next]_vars => Inv'
  <1> SUFFICES ASSUME Inv, [Next]_vars PROVE Inv'
    OBVIOUS
  <1>1. CASE \E k \in Key : Generate(k)
    BY <1>1, GenerateInv
  <1>2. CASE \E o \in Admin : Ask(o)
    BY <1>2, AskInv
  <1>3. CASE \E o \in Admin : Proceed(o)
    BY <1>3, PublishInv, RetireInv, DisableInv, ActivateAcquireInv, ActivateLockInv,
       ActivateScanInv, ActivateCommitInv DEF Proceed
  <1>4. CASE \E w \in Signer : Sign(w)
    BY <1>4, SignInv
  <1>5. CASE \/ \E w \in Signer : BeginSigning(w) \/ SigningFails(w)
             \/ Fetch \/ Tick \/ UNCHANGED vars
    BY <1>5, Aside, OtherStepsType
  <1> QED
    BY <1>1, <1>2, <1>3, <1>4, <1>5 DEF Next

LEMMA InvHolds == Spec => []Inv
  BY InitInv, NextInv, PTL DEF Spec

\* Columns and operations hold what the code may put there.
THEOREM TypesHold == Spec => []TypeOK
  <1>1. Inv => TypeOK
    BY DEF Inv
  <1> QED
    BY <1>1, InvHolds, PTL

\* However activations, retirements and signatures race, never are two keys in
\* use (src/oauth/admin-repository.ts:925-958).
THEOREM OneKey == Spec => []OneKeyInUse
  <1>1. Inv => OneKeyInUse
    <2> SUFFICES ASSUME Inv PROVE Cardinality(InUse) <= 1
      BY DEF OneKeyInUse
    <2>1. CASE InUse = {}
      BY <2>1, FS_EmptySet
    <2>2. CASE InUse # {}
      <3>1. PICK k \in InUse : InUse = {k}
        BY <2>2 DEF Inv, AtMostOne
      <3>2. Cardinality(InUse) = 1
        BY <3>1, FS_Singleton
      <3> QED
        BY <3>2
    <2> QED
      BY <2>1, <2>2
  <1> QED
    BY <1>1, InvHolds, PTL

-----------------------------------------------------------------------------
(* The life of a key.                                                      *)

\* A row at the time now: its columns are valid, its times are past, and only
\* a key that is active or retired has signed.
Lived(row, now) ==
  /\ LifecycleValid(row)
  /\ row.status = "none" => row = NoKey
  /\ row.status = "active" => row.activates_at <= now
  /\ row.last_signed_at # Null => row.status \in {"active", "retired"} /\ row.last_signed_at <= now
  /\ row.retired_at # Null => row.retired_at <= now

KeysLive == \A k \in Key : Lived(key[k], clock) /\ newest[k] = key[k].last_signed_at

\* What an operation and a signer captured is past; an activation that has its
\* key's row has found that its time has come.
OpFits(o) == /\ op[o].now <= clock
             /\ op[o].phase \in {"target", "write"} => key[op[o].key].activates_at <= op[o].now
TimesFit == /\ \A o \in Admin : op[o] # NoOp => OpFits(o)
            /\ \A w \in Signer : signing[w] <= clock

Lives == Inv /\ KeysLive /\ TimesFit

LEMMA LaterLived ==
  ASSUME NEW row \in Row, NEW now \in Nat, NEW later \in Nat, now <= later, Lived(row, now)
  PROVE  Lived(row, later)
  <1>1. row.activates_at \in Int /\ row.last_signed_at \in Int /\ row.retired_at \in Int
    BY DEF Row, TimeOrNull, Null
  <1> QED
    BY <1>1 DEF Lived

\* The columns other than the status and those named by a step stay.
SameLead(row, new) == new.published_at = row.published_at /\ new.activates_at = row.activates_at
SameEnd(row, new) == new.retire_after = row.retire_after /\ new.retired_at = row.retired_at

LEMMA StagedLived ==
  ASSUME NEW now \in Nat
  PROVE  /\ [NoKey EXCEPT !.status = "staged"] \in Row
         /\ Lived([NoKey EXCEPT !.status = "staged"], now)
  <1>1. PICK row \in Row : row = NoKey
    BY DEF NoKey, Row, TimeOrNull
  <1>2. PICK new : new = [row EXCEPT !.status = "staged"]
    OBVIOUS
  <1>3. /\ new \in Row /\ new.status = "staged" /\ SameLead(row, new) /\ SameEnd(row, new)
        /\ new.last_signed_at = row.last_signed_at
    BY <1>2 DEF Row, SameLead, SameEnd
  <1>4. /\ row.published_at = Null /\ row.activates_at = Null /\ row.last_signed_at = Null
        /\ row.retire_after = Null /\ row.retired_at = Null
    BY <1>1 DEF NoKey
  <1>5. new = [NoKey EXCEPT !.status = "staged"]
    BY <1>1, <1>2
  <1>6. LifecycleValid(new)
    BY <1>3, <1>4, <1>5 DEF LifecycleValid, SameLead, SameEnd
  <1> QED
    BY <1>3, <1>4, <1>5, <1>6 DEF Lived, SameEnd

\* publish.
LEMMA PublishedLived ==
  ASSUME NEW row \in Row, NEW now \in Nat, NEW at \in Nat, Lived(row, now),
         row.status = "staged",
         NEW new \in Row, new.status = "published", new.published_at = at,
         new.activates_at = at + Lead, SameEnd(row, new),
         new.last_signed_at = row.last_signed_at
  PROVE  Lived(new, now)
  <1>1. row.last_signed_at = Null /\ row.retire_after = Null /\ row.retired_at = Null
    BY DEF Lived, LifecycleValid, NoKey
  <1>2. at # Null /\ at + Lead # Null
    BY TimeAssumption DEF Null
  <1>3. LifecycleValid(new)
    BY <1>1, <1>2, TimeAssumption DEF LifecycleValid, PublishLead, SameEnd
  <1> QED
    BY <1>1, <1>3 DEF Lived, SameEnd

\* activate, of its own key.
LEMMA ActivatedLived ==
  ASSUME NEW row \in Row, NEW now \in Nat, Lived(row, now),
         row.status = "published", row.activates_at <= now,
         NEW new \in Row, new.status = "active", SameLead(row, new), SameEnd(row, new),
         new.last_signed_at = row.last_signed_at
  PROVE  Lived(new, now)
  <1>1. LifecycleValid(new)
    BY DEF Lived, LifecycleValid, SameLead, SameEnd
  <1> QED
    BY <1>1 DEF Lived, LifecycleValid, SameLead, SameEnd

\* disable, and activate of a key in use that has signed nothing.
LEMMA DisabledLived ==
  ASSUME NEW row \in Row, NEW now \in Nat, Lived(row, now), row.last_signed_at = Null,
         row.status # "retired",
         NEW new \in Row, new.status = "disabled", SameLead(row, new), SameEnd(row, new),
         new.last_signed_at = row.last_signed_at
  PROVE  Lived(new, now)
  <1>1. row.retired_at = Null
    BY DEF Lived, LifecycleValid
  <1>2. LifecycleValid(new)
    BY <1>1 DEF Lived, LifecycleValid, SameLead, SameEnd
  <1> QED
    BY <1>1, <1>2 DEF Lived, SameLead, SameEnd

\* activate and retire, of a key in use that has signed.
LEMMA EndedLived ==
  ASSUME NEW row \in Row, NEW now \in Nat, NEW at \in Nat, at <= now, Lived(row, now),
         row.status = "active", row.last_signed_at # Null,
         NEW new \in Row, SameLead(row, new), new.last_signed_at = row.last_signed_at,
         new.retire_after = Deadline(row),
         \/ new.status = "active" /\ new.retired_at = row.retired_at
         \/ new.status = "retired" /\ new.retired_at = at /\ Deadline(row) <= at
  PROVE  Lived(new, now)
  <1>1. row.last_signed_at \in Nat /\ Grace \in Nat
    BY TimeAssumption DEF Row, TimeOrNull
  <1>2. row.retired_at = Null
    BY DEF Lived, LifecycleValid
  <1>3. Deadline(row) >= row.last_signed_at + Grace
    BY <1>1 DEF Deadline, Lived, LifecycleValid
  <1>4. LifecycleValid(new)
    BY <1>1, <1>2, <1>3 DEF Lived, LifecycleValid, SameLead, Null
  <1> QED
    BY <1>2, <1>4 DEF Lived, SameLead

LEMMA SupersededLived ==
  ASSUME NEW row \in Row, NEW now \in Nat, NEW at \in Nat, at <= now, Lived(row, now),
         row.status = "active"
  PROVE  /\ Superseded(row, at) \in Row /\ Lived(Superseded(row, at), now)
         /\ Superseded(row, at).last_signed_at = row.last_signed_at
  <1>1. PICK new \in Row : new = Superseded(row, at)
    BY SupersededRow
  <1>2. CASE row.last_signed_at = Null
    <2>1. new = [row EXCEPT !.status = "disabled"]
      BY <1>1, <1>2 DEF Superseded
    <2>2. /\ new.status = "disabled" /\ SameLead(row, new) /\ SameEnd(row, new)
          /\ new.last_signed_at = row.last_signed_at
      BY <2>1 DEF Row, SameLead, SameEnd
    <2> QED
      BY <1>1, <1>2, <2>2, DisabledLived
  <1>3. CASE row.last_signed_at # Null
    <2>1. PICK d : d = Deadline(row)
      OBVIOUS
    <2>2. CASE d <= at
      <3>1. new = [row EXCEPT !.status = "retired", !.retire_after = d, !.retired_at = at]
        BY <1>1, <1>3, <2>1, <2>2 DEF Superseded
      <3>2. /\ new.status = "retired" /\ SameLead(row, new) /\ new.retire_after = d
            /\ new.retired_at = at /\ new.last_signed_at = row.last_signed_at
        BY <3>1 DEF Row, SameLead
      <3> QED
        BY <1>1, <1>3, <2>1, <2>2, <3>2, EndedLived
    <2>3. CASE ~(d <= at)
      <3>1. new = [row EXCEPT !.retire_after = d]
        BY <1>1, <1>3, <2>1, <2>3 DEF Superseded
      <3>2. /\ new.status = "active" /\ SameLead(row, new) /\ new.retire_after = d
            /\ new.retired_at = row.retired_at /\ new.last_signed_at = row.last_signed_at
        BY <3>1 DEF Row, SameLead
      <3> QED
        BY <1>1, <1>3, <2>1, <3>2, EndedLived
    <2> QED
      BY <2>2, <2>3
  <1> QED
    BY <1>2, <1>3

\* markSigningKeyUsed.
LEMMA SignedLived ==
  ASSUME NEW row \in Row, NEW now \in Nat, NEW at \in Nat, at <= now, Lived(row, now),
         Used(row), row.activates_at <= at,
         NEW new \in Row, new.status = row.status, SameLead(row, new), SameEnd(row, new),
         new.last_signed_at \in {row.last_signed_at, at},
         new.last_signed_at >= at
  PROVE  Lived(new, now)
  <1>1. row.last_signed_at \in Int /\ new.last_signed_at # Null /\ new.last_signed_at <= now
    BY DEF Row, TimeOrNull, Null, Lived
  <1>2. row.retire_after = Null /\ row.retired_at = Null /\ row.status = "active"
    BY DEF Used, Lived, LifecycleValid
  <1>3. row.activates_at # Null /\ row.published_at # Null /\ row.activates_at \in Int
    BY <1>2 DEF Lived, LifecycleValid, Row, TimeOrNull, Null
  <1>4. LifecycleValid(new)
    BY <1>1, <1>2, <1>3 DEF Lived, LifecycleValid, SameLead, SameEnd
  <1> QED
    BY <1>1, <1>2, <1>4 DEF Lived, SameLead, SameEnd

\* A key, before and after a step.
Onto(k) == /\ Lived(key'[k], clock') /\ newest'[k] = key'[k].last_signed_at
           /\ key[k].status = "published" => key'[k].activates_at = key[k].activates_at

LEMMA TheKey ==
  ASSUME Lives, NEW k \in Key
  PROVE  /\ key[k] \in Row /\ Lived(key[k], clock) /\ newest[k] = key[k].last_signed_at
         /\ clock \in Nat
  BY DEF Lives, KeysLive, Inv, TypeOK

LEMMA TheOperation ==
  ASSUME Lives, NEW o \in Admin, op[o] # NoOp
  PROVE  op[o] \in Operation /\ op[o].key \in Key /\ op[o].now \in Nat /\ op[o].now <= clock
  BY DEF Lives, TimesFit, OpFits, Inv, TypeOK, Operation

LEMMA KeyStays ==
  ASSUME Lives, NEW k \in Key, key'[k] = key[k], newest'[k] = newest[k],
         clock' = clock \/ clock' = clock + 1
  PROVE  Onto(k)
  <1>1. clock' \in Nat /\ clock <= clock' /\ clock \in Nat
    BY TheKey
  <1>2. Lived(key[k], clock')
    BY <1>1, TheKey, LaterLived
  <1> QED
    BY <1>2, TheKey DEF Onto

\* One row is written, and no signature.
LEMMA KeyWritten ==
  ASSUME Lives, UNCHANGED <<clock, newest>>, NEW k \in Key, NEW row \in Row,
         key' = [key EXCEPT ![k] = row],
         Lived(row, clock), row.last_signed_at = key[k].last_signed_at,
         key[k].status = "published" => row.activates_at = key[k].activates_at,
         NEW j \in Key
  PROVE  Onto(j)
  <1>1. key \in [Key -> Row]
    BY DEF Lives, Inv, TypeOK
  <1>2. CASE j = k
    <2>1. key'[j] = row
      BY <1>1, <1>2
    <2> QED
      BY <1>2, <2>1, TheKey DEF Onto
  <1>3. CASE j # k
    <2>1. key'[j] = key[j]
      BY <1>1, <1>3
    <2> QED
      BY <2>1, KeyStays
  <1> QED
    BY <1>2, <1>3

LEMMA GenerateOnto == ASSUME Lives, NEW k \in Key, Generate(k), NEW j \in Key PROVE Onto(j)
  <1>1. UNCHANGED <<clock, newest>> /\ key[k].status = "none"
    BY DEF Generate
  <1>2. key[k] = NoKey /\ clock \in Nat
    BY <1>1, TheKey DEF Lived
  <1>3. PICK row : row = [NoKey EXCEPT !.status = "staged"]
    OBVIOUS
  <1>4. row \in Row /\ Lived(row, clock)
    BY <1>2, <1>3, StagedLived
  <1>5. key' = [key EXCEPT ![k] = row]
    BY <1>2, <1>3 DEF Generate
  <1>6. row.last_signed_at = NoKey.last_signed_at
    BY <1>3 DEF NoKey
  <1> QED
    BY <1>1, <1>2, <1>4, <1>5, <1>6, KeyWritten

LEMMA PublishOnto == ASSUME Lives, NEW o \in Admin, Publish(o), NEW j \in Key PROVE Onto(j)
  <1>1. UNCHANGED <<clock, newest>> /\ op[o] # NoOp
    BY DEF Publish, At, Finish, Reject
  <1>2. PICK k \in Key, at \in Nat : k = op[o].key /\ at = op[o].now
    BY <1>1, TheOperation
  <1>3. PICK row \in Row : row = key[k]
    BY TheKey
  <1>4. CASE UNCHANGED key
    BY <1>1, <1>4, KeyStays
  <1>5. ASSUME row.status = "staged",
               key' = [key EXCEPT ![k].status = "published", ![k].published_at = at,
                                  ![k].activates_at = ActivationTime(at)]
        PROVE  Onto(j)
    <2>1. PICK until \in Nat : until = at + Lead
      BY TimeAssumption
    <2>2. PICK new : new = [row EXCEPT !.status = "published", !.published_at = at,
                                       !.activates_at = until]
      OBVIOUS
    <2>3. key' = [key EXCEPT ![k] = new]
      BY <1>3, <1>5, <2>1, <2>2 DEF ActivationTime, PublishLead
    <2>4. /\ new \in Row /\ new.status = "published" /\ new.published_at = at
          /\ new.activates_at = until /\ SameEnd(row, new)
          /\ new.last_signed_at = row.last_signed_at
      BY <2>2 DEF Row, TimeOrNull, SameEnd
    <2>5. Lived(row, clock) /\ clock \in Nat
      BY <1>3, TheKey
    <2>6. Lived(new, clock)
      BY <1>5, <2>1, <2>4, <2>5, PublishedLived
    <2> QED
      BY <1>1, <1>3, <1>5, <2>3, <2>4, <2>6, KeyWritten
  <1> QED
    BY <1>2, <1>3, <1>4, <1>5 DEF Publish, Reject

LEMMA RetireOnto == ASSUME Lives, NEW o \in Admin, Retire(o), NEW j \in Key PROVE Onto(j)
  <1>1. UNCHANGED <<clock, newest>> /\ op[o] # NoOp
    BY DEF Retire, At, Finish, Reject
  <1>2. PICK k \in Key, at \in Nat : k = op[o].key /\ at = op[o].now /\ at <= clock
    BY <1>1, TheOperation
  <1>3. CASE UNCHANGED key
    BY <1>1, <1>3, KeyStays
  <1>4. CASE key[k].status = "active" /\ key' = [key EXCEPT ![k] = Superseded(key[k], at)]
    <2>1. PICK new : new = Superseded(key[k], at)
      OBVIOUS
    <2>2. new \in Row /\ Lived(new, clock) /\ new.last_signed_at = key[k].last_signed_at
      BY <1>2, <1>4, <2>1, TheKey, SupersededLived
    <2> QED
      BY <1>1, <1>4, <2>1, <2>2, KeyWritten
  <1> QED
    BY <1>2, <1>3, <1>4 DEF Retire, Reject

LEMMA DisableOnto == ASSUME Lives, NEW o \in Admin, Disable(o), NEW j \in Key PROVE Onto(j)
  <1>1. UNCHANGED <<clock, newest>> /\ op[o] # NoOp
    BY DEF Disable, At, Finish, Reject
  <1>2. PICK k \in Key : k = op[o].key
    BY <1>1, TheOperation
  <1>3. PICK row \in Row : row = key[k]
    BY TheKey
  <1>4. CASE UNCHANGED key
    BY <1>1, <1>4, KeyStays
  <1>5. ASSUME Disablable(row), key' = [key EXCEPT ![k].status = "disabled"] PROVE Onto(j)
    <2>1. PICK new : new = [row EXCEPT !.status = "disabled"]
      OBVIOUS
    <2>2. key' = [key EXCEPT ![k] = new]
      BY <1>3, <1>5, <2>1
    <2>3. /\ new \in Row /\ new.status = "disabled" /\ SameLead(row, new) /\ SameEnd(row, new)
          /\ new.last_signed_at = row.last_signed_at
      BY <2>1 DEF Row, SameLead, SameEnd
    <2>4. Lived(row, clock) /\ clock \in Nat
      BY <1>3, TheKey
    <2>5. row.last_signed_at = Null /\ row.status # "retired"
      BY <1>5, <2>4 DEF Disablable, Lived
    <2>6. Lived(new, clock)
      BY <2>3, <2>4, <2>5, DisabledLived
    <2>7. new.activates_at = key[k].activates_at
      BY <1>3, <2>3 DEF SameLead
    <2> QED
      BY <1>1, <1>3, <2>2, <2>3, <2>6, <2>7, KeyWritten
  <1> QED
    BY <1>2, <1>3, <1>4, <1>5 DEF Disable, Reject

LEMMA ActivateOnto ==
  ASSUME Lives, NEW o \in Admin, ActivateCommit(o), NEW j \in Key PROVE Onto(j)
  <1>1. UNCHANGED <<clock, newest>> /\ op[o] # NoOp /\ op[o].phase = "write"
    BY DEF ActivateCommit, At, Finish
  <1>2. PICK k \in Key, at \in Nat : k = op[o].key /\ at = op[o].now /\ at <= clock
    BY <1>1, TheOperation
  <1>3. op[o].rows = {k} \cup InUse /\ key[k].status = "published" /\ key[k].activates_at <= at
    BY <1>1, <1>2 DEF Lives, Inv, Prepared, TimesFit, OpFits
  <1>4. key'[j] = IF j = k THEN [key[j] EXCEPT !.status = "active"]
                  ELSE IF j \in InUse THEN Superseded(key[j], at)
                  ELSE key[j]
    BY <1>2, <1>3 DEF ActivateCommit
  <1>5. PICK row \in Row : row = key[j]
    BY TheKey
  <1>6. Lived(row, clock) /\ clock \in Nat /\ newest[j] = row.last_signed_at
    BY <1>5, TheKey
  <1>7. CASE j = k
    <2>1. PICK new : new = [row EXCEPT !.status = "active"]
      OBVIOUS
    <2>2. /\ new \in Row /\ new.status = "active" /\ SameLead(row, new) /\ SameEnd(row, new)
          /\ new.last_signed_at = row.last_signed_at
      BY <2>1 DEF Row, SameLead, SameEnd
    <2>3. row.status = "published" /\ row.activates_at <= at /\ row.activates_at \in Int
      BY <1>3, <1>5, <1>7 DEF Row, TimeOrNull, Null
    <2>4. row.activates_at <= clock
      BY <1>2, <1>6, <2>3
    <2>5. Lived(new, clock)
      BY <1>6, <2>2, <2>3, <2>4, ActivatedLived
    <2>6. key'[j] = new
      BY <1>4, <1>5, <1>7, <2>1
    <2> QED
      BY <1>1, <1>5, <1>6, <2>2, <2>5, <2>6 DEF Onto, SameLead
  <1>8. CASE j # k /\ j \in InUse
    <2>1. row.status = "active"
      BY <1>5, <1>8 DEF InUse
    <2>2. Lived(Superseded(row, at), clock) /\ Superseded(row, at).last_signed_at = row.last_signed_at
      BY <1>2, <1>6, <2>1, SupersededLived
    <2>3. key'[j] = Superseded(row, at)
      BY <1>4, <1>5, <1>8
    <2> QED
      BY <1>1, <1>5, <1>6, <2>1, <2>2, <2>3 DEF Onto
  <1>9. CASE j # k /\ j \notin InUse
    <2>1. key'[j] = key[j]
      BY <1>4, <1>9
    <2> QED
      BY <1>1, <2>1, KeyStays
  <1> QED
    BY <1>7, <1>8, <1>9

LEMMA MaxOfTwo ==
  ASSUME NEW x \in TimeOrNull, NEW y \in TimeOrNull
  PROVE  /\ Max({x, y}) \in {x, y}
         /\ Max({x, y}) >= y
  <1>1. \E m \in {x, y} : \A n \in {x, y} : m >= n
    BY DEF TimeOrNull, Null
  <1> QED
    BY <1>1 DEF Max

LEMMA SignOnto == ASSUME Lives, NEW w \in Signer, Sign(w), NEW j \in Key PROVE Onto(j)
  <1>1. signing[w] \in TimeOrNull /\ signing[w] <= clock /\ signing[w] # Null /\ UNCHANGED clock
    BY DEF Lives, TimesFit, Inv, TypeOK, Sign
  <1>2. PICK at \in Nat : at = signing[w] /\ at <= clock
    BY <1>1 DEF TimeOrNull
  <1>3. PICK k \in Key :
          /\ {i \in InUse : key[i].activates_at <= at} = {k}
          /\ key' = [key EXCEPT ![k].last_signed_at = LaterOf(@, at)]
          /\ newest' = [newest EXCEPT ![k] = Max({@, at})]
    BY <1>2 DEF Sign
  <1>4. PICK row \in Row : row = key[k]
    BY TheKey
  <1>5. PICK last : last = Max({row.last_signed_at, at})
    OBVIOUS
  <1>6. last \in {row.last_signed_at, at} /\ last >= at /\ last \in TimeOrNull
    <2>1. row.last_signed_at \in TimeOrNull /\ at \in TimeOrNull
      BY DEF Row, TimeOrNull
    <2> QED
      BY <1>5, <2>1, MaxOfTwo
  <1>7. PICK new : new = [row EXCEPT !.last_signed_at = last]
    OBVIOUS
  <1>8. key \in [Key -> Row] /\ newest \in [Key -> TimeOrNull]
    BY DEF Lives, Inv, TypeOK
  <1>9. key' = [key EXCEPT ![k] = new]
    BY <1>3, <1>4, <1>5, <1>7 DEF LaterOf
  <1>10. newest' = [newest EXCEPT ![k] = last]
    BY <1>3, <1>4, <1>5, TheKey
  <1>11. CASE j = k
    <2>1. key'[j] = new /\ newest'[j] = last
      BY <1>8, <1>9, <1>10, <1>11
    <2>2. /\ new \in Row /\ new.status = row.status /\ SameLead(row, new) /\ SameEnd(row, new)
          /\ new.last_signed_at = last
      BY <1>6, <1>7 DEF Row, SameLead, SameEnd
    <2>3. Used(row) /\ row.activates_at <= at
      BY <1>3, <1>4 DEF InUse, Used
    <2>4. Lived(row, clock) /\ clock \in Nat
      BY <1>4, TheKey
    <2>5. Lived(new, clock)
      BY <1>2, <1>6, <2>2, <2>3, <2>4, SignedLived
    <2> QED
      BY <1>1, <1>4, <1>11, <2>1, <2>2, <2>5 DEF Onto, SameLead
  <1>12. CASE j # k
    <2>1. key'[j] = key[j] /\ newest'[j] = newest[j]
      BY <1>8, <1>9, <1>10, <1>12
    <2> QED
      BY <1>1, <2>1, KeyStays
  <1> QED
    BY <1>11, <1>12

LEMMA AllOnto == ASSUME Lives, [Next]_vars, NEW j \in Key PROVE Onto(j)
  <1>1. CASE UNCHANGED <<key, newest>> /\ (clock' = clock \/ clock' = clock + 1)
    BY <1>1, KeyStays
  <1>2. ASSUME NEW o \in Admin, Ask(o) \/ Proceed(o) PROVE Onto(j)
    <2>1. CASE Ask(o) \/ ActivateAcquire(o) \/ ActivateLock(o) \/ ActivateScan(o)
      BY <1>1, <2>1 DEF Ask, ActivateAcquire, ActivateLock, ActivateScan, Reject, Finish
    <2> QED
      BY <1>2, <2>1, PublishOnto, RetireOnto, DisableOnto, ActivateOnto DEF Proceed
  <1>3. CASE \E w \in Signer : BeginSigning(w) \/ SigningFails(w)
    BY <1>1, <1>3 DEF BeginSigning, SigningFails
  <1>4. CASE Fetch \/ Tick \/ UNCHANGED vars
    BY <1>1, <1>4 DEF Fetch, Tick, vars
  <1> QED
    BY <1>2, <1>3, <1>4, GenerateOnto, SignOnto DEF Next

LEMMA TimePasses == ASSUME Lives, [Next]_vars PROVE clock' \in Nat /\ clock <= clock' /\ clock \in Nat
  <1>1. clock \in Nat
    BY DEF Lives, Inv, TypeOK
  <1>2. clock' = clock \/ clock' = clock + 1
    <2>1. CASE \E k \in Key : Generate(k)
      BY <2>1 DEF Generate
    <2>2. ASSUME NEW o \in Admin, Ask(o) \/ Publish(o) \/ Retire(o) \/ Disable(o)
          PROVE  clock' = clock
      BY <2>2 DEF Ask, Publish, Retire, Disable, Reject, Finish
    <2>3. ASSUME NEW o \in Admin, \/ ActivateAcquire(o) \/ ActivateLock(o)
                                  \/ ActivateScan(o) \/ ActivateCommit(o)
          PROVE  clock' = clock
      BY <2>3 DEF ActivateAcquire, ActivateLock, ActivateScan, ActivateCommit, Reject, Finish
    <2>4. CASE \E w \in Signer : BeginSigning(w) \/ Sign(w) \/ SigningFails(w)
      BY <2>4 DEF BeginSigning, Sign, SigningFails
    <2>5. CASE Fetch \/ Tick \/ UNCHANGED vars
      BY <2>5 DEF Fetch, Tick, vars
    <2> QED
      BY <2>1, <2>2, <2>3, <2>4, <2>5 DEF Next, Proceed
  <1> QED
    BY <1>1, <1>2

\* What was captured stays past, and a published key keeps its time.
LEMMA OperationStays ==
  ASSUME Lives, [Next]_vars, NEW p \in Admin, op[p] # NoOp, op'[p] = op[p] PROVE OpFits(p)'
  <1>1. op[p].key \in Key /\ op[p].now \in Nat /\ OpFits(p)
    BY TheOperation DEF Lives, TimesFit
  <1>2. op[p].phase \in {"target", "write"} => key[op[p].key].status = "published"
    BY DEF Lives, Inv, Prepared
  <1>3. op[p].phase \in {"target", "write"} =>
          key'[op[p].key].activates_at = key[op[p].key].activates_at
    BY <1>1, <1>2, AllOnto DEF Onto
  <1>4. op[p].now <= clock'
    BY <1>1, TimePasses DEF OpFits
  <1> QED
    BY <1>1, <1>3, <1>4 DEF OpFits

\* An operation enters another phase of its activation.
LEMMA OperationAdvances ==
  ASSUME Lives, NEW o \in Admin, op[o] # NoOp, UNCHANGED <<key, clock>>,
         op'[o].now = op[o].now, op'[o].key = op[o].key,
         op'[o].phase \in {"target", "write"} => key[op[o].key].activates_at <= op[o].now
  PROVE  OpFits(o)'
  BY DEF OpFits, Lives, TimesFit

LEMMA ActivationFits ==
  ASSUME Lives, [Next]_vars, NEW o \in Admin,
         ActivateAcquire(o) \/ ActivateLock(o) \/ ActivateScan(o),
         op'[o] # NoOp
  PROVE  OpFits(o)'
  <1>1. op[o] # NoOp
    BY DEF ActivateAcquire, ActivateLock, ActivateScan, At
  <1>2. PICK old \in Operation : old = op[o]
    BY <1>1, TheOperation
  <1>3. op \in [Admin -> Operation \cup {NoOp}]
    BY DEF Lives, Inv, TypeOK
  <1>4. CASE ActivateAcquire(o)
    <2>1. op' = [op EXCEPT ![o] = [old EXCEPT !.phase = "exclusive"]]
      BY <1>2, <1>4 DEF ActivateAcquire
    <2>2. op'[o] = [old EXCEPT !.phase = "exclusive"]
      BY <1>3, <2>1
    <2>3. op'[o].now = old.now /\ op'[o].key = old.key /\ op'[o].phase = "exclusive"
      BY <2>2 DEF Operation
    <2> QED
      BY <1>1, <1>2, <1>4, <2>3, OperationAdvances DEF ActivateAcquire
  <1>5. CASE ActivateLock(o)
    <2>1. /\ key[old.key].activates_at <= old.now /\ UNCHANGED <<key, clock>>
          /\ op' = [op EXCEPT ![o] = [old EXCEPT !.phase = "target", !.rows = {old.key}]]
      BY <1>2, <1>3, <1>5 DEF ActivateLock, Reject, Finish
    <2>2. op'[o] = [old EXCEPT !.phase = "target", !.rows = {old.key}]
      BY <1>3, <2>1
    <2>3. op'[o].now = old.now /\ op'[o].key = old.key
      BY <2>2 DEF Operation
    <2> QED
      BY <1>1, <1>2, <2>1, <2>3, OperationAdvances
  <1>6. CASE ActivateScan(o)
    <2>1. old.phase = "target" /\ UNCHANGED <<key, clock>>
      BY <1>2, <1>6 DEF ActivateScan, At, Reject, Finish
    <2>2. op' = [op EXCEPT ![o] = [old EXCEPT !.phase = "write", !.rows = old.rows \cup InUse]]
      BY <1>2, <1>3, <1>6 DEF ActivateScan, Reject, Finish
    <2>3. op'[o] = [old EXCEPT !.phase = "write", !.rows = old.rows \cup InUse]
      BY <1>3, <2>2
    <2>4. op'[o].now = old.now /\ op'[o].key = old.key
      BY <2>3 DEF Operation
    <2>5. key[old.key].activates_at <= old.now
      BY <1>1, <1>2, <2>1 DEF Lives, TimesFit, OpFits
    <2> QED
      BY <1>1, <1>2, <2>1, <2>4, <2>5, OperationAdvances
  <1> QED
    BY <1>4, <1>5, <1>6

LEMMA AskFits == ASSUME Lives, [Next]_vars, NEW o \in Admin, Ask(o) PROVE OpFits(o)'
  <1>1. op \in [Admin -> Operation \cup {NoOp}] /\ clock \in Nat /\ clock' = clock
    BY DEF Lives, Inv, TypeOK, Ask
  <1>2. op'[o].now = clock /\ op'[o].phase = "asked"
    BY <1>1 DEF Ask
  <1> QED
    BY <1>1, <1>2 DEF OpFits

\* Whose operation a step changes.
LEMMA OneOperation ==
  ASSUME Lives, [Next]_vars, NEW p \in Admin
  PROVE  \/ op'[p] = op[p] \/ op'[p] = NoOp \/ Ask(p)
         \/ ActivateAcquire(p) \/ ActivateLock(p) \/ ActivateScan(p)
  <1>1. op \in [Admin -> Operation \cup {NoOp}]
    BY DEF Lives, Inv, TypeOK
  <1>2. CASE \E k \in Key : Generate(k)
    BY <1>2 DEF Generate
  <1>3. CASE \E o \in Admin : Ask(o)
    BY <1>1, <1>3 DEF Ask
  <1>4. CASE \E o \in Admin : ActivateAcquire(o)
    BY <1>1, <1>4 DEF ActivateAcquire
  <1>5. CASE \E o \in Admin : ActivateLock(o) \/ ActivateScan(o)
    BY <1>1, <1>5 DEF ActivateLock, ActivateScan, Reject, Finish
  <1>6. CASE \E o \in Admin : Publish(o) \/ Retire(o)
    BY <1>1, <1>6 DEF Publish, Retire, Reject, Finish
  <1>7. CASE \E o \in Admin : Disable(o) \/ ActivateCommit(o)
    BY <1>1, <1>7 DEF Disable, ActivateCommit, Reject, Finish
  <1>8. CASE \E w \in Signer : BeginSigning(w) \/ Sign(w) \/ SigningFails(w)
    BY <1>8 DEF BeginSigning, Sign, SigningFails
  <1>9. CASE Fetch \/ Tick \/ UNCHANGED vars
    BY <1>9 DEF Fetch, Tick, vars
  <1> QED
    BY <1>2, <1>3, <1>4, <1>5, <1>6, <1>7, <1>8, <1>9 DEF Next, Proceed

LEMMA SignersFit ==
  ASSUME Lives, [Next]_vars, NEW w \in Signer PROVE signing'[w] <= clock'
  <1>1. signing \in [Signer -> TimeOrNull] /\ signing[w] <= clock /\ signing[w] \in Int
    BY DEF Lives, TimesFit, Inv, TypeOK, TimeOrNull, Null
  <1>2. signing'[w] \in {signing[w], clock, Null}
    <2>1. CASE \E k \in Key : Generate(k)
      BY <2>1 DEF Generate
    <2>2. ASSUME NEW o \in Admin, Ask(o) \/ Publish(o) \/ Retire(o) \/ Disable(o)
          PROVE  UNCHANGED signing
      BY <2>2 DEF Ask, Publish, Retire, Disable, Reject, Finish
    <2>3. ASSUME NEW o \in Admin, \/ ActivateAcquire(o) \/ ActivateLock(o)
                                  \/ ActivateScan(o) \/ ActivateCommit(o)
          PROVE  UNCHANGED signing
      BY <2>3 DEF ActivateAcquire, ActivateLock, ActivateScan, ActivateCommit, Reject, Finish
    <2>4. CASE \E v \in Signer : BeginSigning(v) \/ Sign(v) \/ SigningFails(v)
      BY <1>1, <2>4 DEF BeginSigning, Sign, SigningFails
    <2>5. CASE Fetch \/ Tick \/ UNCHANGED vars
      BY <2>5 DEF Fetch, Tick, vars
    <2> QED
      BY <2>1, <2>2, <2>3, <2>4, <2>5 DEF Next, Proceed
  <1> QED
    BY <1>1, <1>2, TimePasses DEF Null

LEMMA InitLives == Init => Lives
  <1> SUFFICES ASSUME Init PROVE Lives
    OBVIOUS
  <1>1. KeysLive
    <2>1. PICK row : row = NoKey
      OBVIOUS
    <2>2. /\ row.status = "none" /\ row.published_at = Null /\ row.activates_at = Null
          /\ row.last_signed_at = Null /\ row.retire_after = Null /\ row.retired_at = Null
      BY <2>1 DEF NoKey
    <2>3. Lived(row, clock)
      BY <2>1, <2>2 DEF Lived, LifecycleValid
    <2> QED
      BY <2>1, <2>2, <2>3 DEF Init, KeysLive
  <1>2. TimesFit
    BY DEF Init, TimesFit, Null
  <1> QED
    BY <1>1, <1>2, InitInv DEF Lives

LEMMA NextLives == Lives /\ [Next]_vars => Lives'
  <1> SUFFICES ASSUME Lives, [Next]_vars PROVE Lives'
    OBVIOUS
  <1>1. Inv'
    BY NextInv DEF Lives
  <1>2. KeysLive'
    BY AllOnto DEF Onto, KeysLive
  <1>3. ASSUME NEW p \in Admin, op'[p] # NoOp PROVE OpFits(p)'
    <2>1. CASE op'[p] = op[p]
      BY <1>3, <2>1, OperationStays
    <2>2. CASE op'[p] # op[p]
      BY <1>3, <2>2, OneOperation, AskFits, ActivationFits
    <2> QED
      BY <2>1, <2>2
  <1>4. TimesFit'
    BY <1>3, SignersFit DEF TimesFit
  <1> QED
    BY <1>1, <1>2, <1>4 DEF Lives

LEMMA LivesHolds == Spec => []Lives
  BY InitLives, NextLives, PTL DEF Spec

\* What publish, activate, retire, disable and markSigningKeyUsed write always
\* passes the CHECK constraints of migrations/003 and the validation that the
\* issuer's own verification and the JWKS apply to a row, in any order.
THEOREM RowsAreValid == Spec => []LifecyclesAreValid
  <1>1. Lives => LifecyclesAreValid
    BY DEF Lives, KeysLive, Lived, LifecyclesAreValid
  <1> QED
    BY <1>1, LivesHolds, PTL

\* Until the last token a key signed has expired for every verifier, the issuer
\* verifies with that key and the JWKS shows it (OAUTH_P0_CONTRACT.md:124-129),
\* whatever the lifetimes, if the grace covers them as config.ts demands.
THEOREM TokensAreVerifiable == Spec => []TokensStayVerifiable
  <1>1. ASSUME Lives, NEW k \in Key, Alive(k) PROVE Verifiable(k, clock) /\ k \in Jwks
    <2>1. PICK row \in Row : row = key[k]
      BY <1>1, TheKey
    <2>2. /\ Lived(row, clock) /\ clock \in Nat /\ row.last_signed_at # Null
          /\ clock < row.last_signed_at + AccessTTL + Skew
      BY <1>1, <2>1, TheKey DEF Alive
    <2>3. /\ row.last_signed_at \in Nat /\ row.retire_after \in Int /\ row.retired_at \in Int
          /\ row.activates_at \in Int
      BY <2>2 DEF Row, TimeOrNull, Null
    <2>4. clock < row.last_signed_at + Grace
      BY <2>2, <2>3, TimeAssumption, GraceAssumption
    <2>5. row.retire_after # Null => clock < row.retire_after
      BY <2>2, <2>3, <2>4, TimeAssumption DEF Lived, LifecycleValid
    <2>6. row.status = "active"
      BY <2>2, <2>3, <2>5 DEF Lived, LifecycleValid
    <2>7. row.activates_at <= clock
      BY <2>2, <2>6 DEF Lived
    <2> QED
      BY <2>1, <2>5, <2>6, <2>7 DEF Verifiable, Jwks, Publishable
  <1>2. Lives => TokensStayVerifiable
    BY <1>1 DEF TokensStayVerifiable
  <1> QED
    BY <1>2, LivesHolds, PTL

\* A verifier whose JWKS is still fresh meets no token of a key that was
\* published after it fetched them: the lead before a key may sign is no shorter
\* than a cache lives.
THEOREM LeadCoversCaches == Spec => []LeadOutlivesCaches
  <1>1. ASSUME Lives, NEW k \in Key, Alive(k), FreshCache, cache.at < key[k].published_at
        PROVE  FALSE
    <2>1. PICK row \in Row : row = key[k]
      BY <1>1, TheKey
    <2>2. Lived(row, clock) /\ clock \in Nat /\ row.last_signed_at # Null
      BY <1>1, <2>1, TheKey DEF Alive
    <2>3. row.last_signed_at \in Int /\ row.published_at \in Int /\ row.activates_at \in Int
      BY DEF Row, TimeOrNull, Null
    <2>4. row.last_signed_at <= clock
      BY <2>2 DEF Lived
    <2>5. row.activates_at <= row.last_signed_at /\ row.activates_at >= row.published_at + Lead
      BY <2>2 DEF Lived, LifecycleValid, PublishLead
    <2>6. cache.at \in Int /\ clock <= cache.at + CacheAge
      BY <1>1 DEF Lives, Inv, TypeOK, FreshCache, TimeOrNull, Null
    <2>7. Lead \in Nat /\ CacheAge \in Nat
      BY TimeAssumption
    <2>8. cache.at < row.published_at
      BY <1>1, <2>1
    <2> QED
      BY <2>2, <2>3, <2>4, <2>5, <2>6, <2>7, <2>8, LeadAssumption
  <1>2. Lives => LeadOutlivesCaches
    BY <1>1 DEF LeadOutlivesCaches
  <1> QED
    BY <1>2, LivesHolds, PTL
=============================================================================
