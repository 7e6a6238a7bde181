-------------------------- MODULE RefreshLocks_proof --------------------------
(***************************************************************************)
(* Proofs about RefreshLocks, for any number of concurrent requests and    *)
(* any number of generations.                                              *)
(*                                                                         *)
(* None of the properties is inductive alone.  The strengthening says who  *)
(* may hold which rows (a row has one holder; whoever holds any row holds  *)
(* that of its token; whoever writes holds all three), what a request that *)
(* is about to rotate has read, and how the generations lie in line.       *)
(***************************************************************************)
EXTENDS RefreshLocks, FiniteSetTheorems, TLAPS

Record == [kind : Sent, gen : Gen, held : SUBSET Rows,
           doing : {"locking", "rotating", "revoking"}]

Types == /\ token \in [Gen -> {"none", "current", "consumed", "revoked"}]
         /\ family \in {"active", "revoked"}
         /\ request \in [Worker -> Record \cup {Idle}]

\* FOR UPDATE: a row has at most one holder.
Exclusive == \A v, w \in Worker : v # w => request[v].held \cap request[w].held = {}

\* The rows of the presented token, of the family and of its session.
AllThree(r) == {TokenRow(r.gen), FamilyRow, SessionRow}

Holding == \A w \in Worker : request[w] # Idle =>
             /\ token[request[w].gen] # "none"
             /\ request[w].held # {} => TokenRow(request[w].gen) \in request[w].held
             /\ request[w].doing # "locking" => AllThree(request[w]) \subseteq request[w].held

Rotating == \A w \in Worker : request[w].doing = "rotating" =>
              Usable(request[w].gen) /\ request[w].gen < MaxGen

\* Every generation before the last was consumed, and the last one lives as
\* long as the family.
LastIs(cur) ==
  \A g \in Gen : token[g] = IF g < cur THEN "consumed"
                            ELSE IF g > cur THEN "none"
                            ELSE IF family = "active" THEN "current" ELSE "revoked"

Line == \E cur \in Gen : LastIs(cur)

Inv == Types /\ Exclusive /\ Holding /\ Rotating /\ Line

-----------------------------------------------------------------------------
(* What a request wants next.                                              *)

LEMMA RequestType ==
  ASSUME Inv, NEW w \in Worker, request[w] # Idle
  PROVE  /\ request[w] \in Record /\ request[w].gen \in Gen
         /\ request[w].held \subseteq Rows
  <1>1. request[w] \in Record
    BY DEF Inv, Types
  <1> QED
    BY <1>1 DEF Record

LEMMA GenFacts ==
  ASSUME NEW g \in Gen PROVE g \in Nat /\ g <= MaxGen /\ (g < MaxGen => g + 1 \in Gen)
  BY MaxGenAssumption DEF Gen

\* While it locks, a request wants one of the three rows; the first of them if it
\* holds nothing; nothing only once it holds all three.
LEMMA LockingWants ==
  ASSUME NEW r, r.doing = "locking"
  PROVE  /\ Wanted(r) \subseteq AllThree(r)
         /\ r.held = {} => Wanted(r) = {TokenRow(r.gen)}
         /\ Wanted(r) = {} => AllThree(r) \subseteq r.held
  <1> DEFINE missing == {i \in 1..3 : LockOrder(r)[i] \notin r.held}
             first == {j \in missing : \A k \in missing : j <= k}
  <1>1. Wanted(r) = {LockOrder(r)[i] : i \in first}
    BY DEF Wanted
  <1>2. /\ LockOrder(r)[1] = TokenRow(r.gen)
        /\ LockOrder(r)[2] = FamilyRow
        /\ LockOrder(r)[3] = SessionRow
    BY DEF LockOrder
  <1>3. \A i \in 1..3 : i = 1 \/ i = 2 \/ i = 3
    OBVIOUS
  <1>4. \A i \in 1..3 : LockOrder(r)[i] \in AllThree(r)
    BY <1>2, <1>3 DEF AllThree
  <1>5. Wanted(r) \subseteq AllThree(r)
    <2>1. first \subseteq 1..3
      OBVIOUS
    <2> HIDE DEF first
    <2> QED
      BY <1>1, <1>4, <2>1
  <1>6. ASSUME r.held = {} PROVE Wanted(r) = {TokenRow(r.gen)}
    <2>1. missing = 1..3
      BY <1>6
    <2>2. first = {1}
      BY <2>1, <1>3
    <2> HIDE DEF first
    <2> QED
      BY <1>1, <1>2, <2>2
  <1>7. ASSUME Wanted(r) = {} PROVE AllThree(r) \subseteq r.held
    <2>1. first = {}
      BY <1>1, <1>7
    <2>2. \A i \in 1..3 : i \notin missing
      <3>1. 1 \notin missing
        BY <2>1, <1>3
      <3>2. 2 \notin missing
        BY <2>1, <1>3, <3>1
      <3>3. 3 \notin missing
        BY <2>1, <1>3, <3>1, <3>2
      <3> QED
        BY <1>3, <3>1, <3>2, <3>3
    <2>3. LockOrder(r)[1] \in r.held /\ LockOrder(r)[2] \in r.held /\ LockOrder(r)[3] \in r.held
      BY <2>2
    <2> QED
      BY <1>2, <2>3 DEF AllThree
  <1> QED
    BY <1>5, <1>6, <1>7

LEMMA WantedRows ==
  ASSUME NEW r, r.gen \in Gen PROVE Wanted(r) \subseteq Rows
  <1>1. CASE r.doing = "locking"
    BY <1>1, LockingWants DEF AllThree, Rows
  <1>2. CASE r.doing = "revoking"
    BY <1>2 DEF Wanted, Affected, Rows
  <1>3. CASE r.doing \notin {"locking", "revoking"}
    BY <1>3 DEF Wanted
  <1> QED
    BY <1>1, <1>2, <1>3

-----------------------------------------------------------------------------
(* Steps.                                                                  *)

\* A step that writes no row: one request moves on, with rows nobody else holds.
LEMMA RequestMoves ==
  ASSUME Inv, NEW w \in Worker, NEW rec \in Record \cup {Idle},
         request' = [request EXCEPT ![w] = rec], UNCHANGED <<token, family>>,
         \A v \in Worker \ {w} : rec.held \cap request[v].held = {},
         rec # Idle =>
           /\ token[rec.gen] # "none"
           /\ rec.held # {} => TokenRow(rec.gen) \in rec.held
           /\ rec.doing # "locking" => AllThree(rec) \subseteq rec.held
           /\ rec.doing = "rotating" => Usable(rec.gen) /\ rec.gen < MaxGen
  PROVE  Inv'
  <1>1. /\ request \in [Worker -> Record \cup {Idle}]
        /\ request'[w] = rec /\ \A v \in Worker \ {w} : request'[v] = request[v]
    BY DEF Inv, Types
  <1>2. Types'
    BY DEF Inv, Types
  <1>3. Exclusive'
    BY <1>1 DEF Inv, Exclusive
  <1>4. Holding'
    <2> SUFFICES ASSUME NEW v \in Worker, request'[v] # Idle
                 PROVE  /\ token'[request'[v].gen] # "none"
                        /\ request'[v].held # {} => TokenRow(request'[v].gen) \in request'[v].held
                        /\ request'[v].doing # "locking" =>
                              AllThree(request'[v]) \subseteq request'[v].held
      BY DEF Holding
    <2>1. CASE v = w
      BY <1>1, <2>1
    <2>2. CASE v # w
      <3>1. request'[v] = request[v]
        BY <1>1, <2>2
      <3> QED
        BY <3>1 DEF Inv, Holding
    <2> QED
      BY <2>1, <2>2
  <1>5. Rotating'
    <2> SUFFICES ASSUME NEW v \in Worker, request'[v].doing = "rotating"
                 PROVE  (Usable(request[v].gen) /\ request[v].gen < MaxGen)'
      BY DEF Rotating
    <2>1. CASE v = w
      BY <1>1, <2>1 DEF Usable, Idle
    <2>2. CASE v # w
      <3>1. request'[v] = request[v]
        BY <1>1, <2>2
      <3> QED
        BY <3>1 DEF Inv, Rotating, Usable
    <2> QED
      BY <2>1, <2>2
  <1>6. Line'
    BY DEF Inv, Line, LastIs
  <1> QED
    BY <1>2, <1>3, <1>4, <1>5, <1>6 DEF Inv

LEMMA BeginInv == ASSUME Inv, NEW w \in Worker, Begin(w) PROVE Inv'
  <1>1. PICK kind \in Sent, g \in Gen :
          /\ token[g] # "none"
          /\ request' = [request EXCEPT ![w] =
                [kind |-> kind, gen |-> g, held |-> {}, doing |-> "locking"]]
    BY DEF Begin
  <1> DEFINE rec == [kind |-> kind, gen |-> g, held |-> {}, doing |-> "locking"]
  <1>2. rec \in Record /\ rec.held = {} /\ rec.gen = g /\ rec.doing = "locking"
    BY DEF Record
  <1>3. request' = [request EXCEPT ![w] = rec] /\ UNCHANGED <<token, family>>
    BY <1>1 DEF Begin
  <1> HIDE DEF rec
  <1>4. \A v \in Worker \ {w} : rec.held \cap request[v].held = {}
    BY <1>2
  <1>5. token[rec.gen] # "none" /\ rec.doing # "rotating"
    BY <1>1, <1>2
  <1> QED
    BY <1>2, <1>3, <1>4, <1>5, RequestMoves

LEMMA LockInv == ASSUME Inv, NEW w \in Worker, Lock(w) PROVE Inv'
  <1>1. PICK row \in Wanted(request[w]) :
          /\ Free(w, row)
          /\ request' = [request EXCEPT ![w].held = @ \cup {row}]
          /\ UNCHANGED <<token, family>>
    BY DEF Lock
  <1>2. request[w] # Idle
    BY <1>1 DEF Wanted, Idle
  <1>3. /\ request[w] \in Record /\ request[w].gen \in Gen
        /\ request[w].held \subseteq Rows /\ row \in Rows
    BY <1>1, <1>2, RequestType, WantedRows
  <1> DEFINE rec == [request[w] EXCEPT !.held = request[w].held \cup {row}]
  <1>4. /\ rec \in Record /\ rec.held = request[w].held \cup {row}
        /\ rec.gen = request[w].gen /\ rec.doing = request[w].doing
    BY <1>3 DEF Record
  <1>5. request' = [request EXCEPT ![w] = rec]
    BY <1>1
  <1>6. AllThree(rec) = AllThree(request[w])
    BY <1>4 DEF AllThree
  <1> HIDE DEF rec
  <1>7. \A v \in Worker \ {w} : rec.held \cap request[v].held = {}
    <2>1. \A v \in Worker \ {w} : request[w].held \cap request[v].held = {}
      BY DEF Inv, Exclusive
    <2>2. \A v \in Worker \ {w} : row \notin request[v].held
      BY <1>1 DEF Free
    <2> QED
      BY <1>4, <2>1, <2>2
  <1>8. /\ token[request[w].gen] # "none"
        /\ request[w].held # {} => TokenRow(request[w].gen) \in request[w].held
        /\ request[w].doing # "locking" => AllThree(request[w]) \subseteq request[w].held
    BY <1>2 DEF Inv, Holding
  <1>9. TokenRow(rec.gen) \in rec.held
    <2>1. CASE request[w].held # {}
      BY <1>4, <1>8, <2>1
    <2>2. CASE request[w].held = {}
      <3>1. request[w].doing = "locking"
        BY <1>8, <2>2 DEF AllThree
      <3>2. row = TokenRow(request[w].gen)
        BY <1>1, <2>2, <3>1, LockingWants
      <3> QED
        BY <1>4, <3>2
    <2> QED
      BY <2>1, <2>2
  <1>10. rec.doing # "locking" => AllThree(rec) \subseteq rec.held
    BY <1>4, <1>6, <1>8
  <1>11. rec.doing = "rotating" => Usable(rec.gen) /\ rec.gen < MaxGen
    BY <1>4 DEF Inv, Rotating
  <1>12. token[rec.gen] # "none" /\ UNCHANGED <<token, family>>
    BY <1>1, <1>4, <1>8
  <1> QED
    BY <1>4, <1>5, <1>7, <1>9, <1>10, <1>11, <1>12, RequestMoves

LEMMA RollbackInv == ASSUME Inv, NEW w \in Worker, Rollback(w) PROVE Inv'
  <1>1. \A v \in Worker \ {w} : Idle.held \cap request[v].held = {}
    BY DEF Idle
  <1> QED
    BY <1>1, RequestMoves DEF Rollback

\* With its rows locked, a request decides: a rotation it decides on is possible.
LEMMA DecideInv == ASSUME Inv, NEW w \in Worker, Decide(w) PROVE Inv'
  <1>1. request[w].doing = "locking" /\ Wanted(request[w]) = {}
    BY DEF Decide
  <1>2. request[w] # Idle
    BY <1>1 DEF Idle
  <1>3. AllThree(request[w]) \subseteq request[w].held
    BY <1>1, LockingWants
  <1>4. ASSUME NEW what \in {"revoking", "rotating"}, Do(w, what),
               what = "rotating" => Usable(request[w].gen) /\ request[w].gen < MaxGen
        PROVE  Inv'
    <2> DEFINE rec == [request[w] EXCEPT !.doing = what]
    <2>1. request[w] \in Record
      BY <1>2, RequestType
    <2>2. /\ rec \in Record /\ rec.held = request[w].held
          /\ rec.gen = request[w].gen /\ rec.doing = what
      BY <2>1, <1>4 DEF Record
    <2>3. request' = [request EXCEPT ![w] = rec] /\ UNCHANGED <<token, family>>
      BY <1>4 DEF Do
    <2>4. AllThree(rec) = AllThree(request[w])
      BY <2>2 DEF AllThree
    <2> HIDE DEF rec
    <2>5. \A v \in Worker \ {w} : rec.held \cap request[v].held = {}
      BY <2>2 DEF Inv, Exclusive
    <2>6. token[rec.gen] # "none" /\ TokenRow(rec.gen) \in rec.held
      BY <1>2, <1>3, <2>2 DEF Inv, Holding, AllThree
    <2>7. AllThree(rec) \subseteq rec.held
      BY <1>3, <2>2, <2>4
    <2>8. rec.doing = "rotating" => Usable(rec.gen) /\ rec.gen < MaxGen
      BY <1>4, <2>2
    <2> QED
      BY <2>2, <2>3, <2>5, <2>6, <2>7, <2>8, RequestMoves
  <1>5. CASE Rollback(w)
    BY <1>5, RollbackInv
  <1> QED
    BY <1>4, <1>5 DEF Decide

\* Whoever writes holds the family's row: no one else has decided anything.
LEMMA WriterIsAlone ==
  ASSUME Inv, NEW w \in Worker, request[w].doing \in {"rotating", "revoking"}
  PROVE  /\ request[w] # Idle
         /\ \A v \in Worker \ {w} : request[v] = Idle \/ request[v].doing = "locking"
  <1>1. request[w] # Idle /\ FamilyRow \in request[w].held
    BY DEF Idle, Inv, Holding, AllThree
  <1>2. ASSUME NEW v \in Worker \ {w}, request[v] # Idle, request[v].doing # "locking"
        PROVE  FALSE
    BY <1>1, <1>2 DEF Inv, Holding, AllThree, Exclusive
  <1> QED
    BY <1>1, <1>2

\* A commit that writes the rows and ends its request.
LEMMA CommitMoves ==
  ASSUME Inv, NEW w \in Worker, request[w].doing \in {"rotating", "revoking"},
         request' = [request EXCEPT ![w] = Idle],
         token' \in [Gen -> {"none", "current", "consumed", "revoked"}],
         family' \in {"active", "revoked"}, Line',
         \A g \in Gen : token[g] # "none" => token'[g] # "none"
  PROVE  Inv'
  <1>1. /\ request \in [Worker -> Record \cup {Idle}]
        /\ request'[w] = Idle /\ \A v \in Worker \ {w} : request'[v] = request[v]
    BY DEF Inv, Types
  <1>2. Types'
    BY DEF Inv, Types
  <1>3. Exclusive'
    <2>1. Idle.held = {}
      BY DEF Idle
    <2> QED
      BY <1>1, <2>1 DEF Inv, Exclusive
  <1>4. Holding'
    <2> SUFFICES ASSUME NEW v \in Worker, request'[v] # Idle
                 PROVE  /\ token'[request'[v].gen] # "none"
                        /\ request'[v].held # {} => TokenRow(request'[v].gen) \in request'[v].held
                        /\ request'[v].doing # "locking" =>
                              AllThree(request'[v]) \subseteq request'[v].held
      BY DEF Holding
    <2>1. request'[v] = request[v] /\ request[v].gen \in Gen
      BY <1>1, RequestType
    <2> QED
      BY <2>1 DEF Inv, Holding
  <1>5. Rotating'
    <2>1. \A v \in Worker : request'[v].doing # "rotating"
      BY <1>1, WriterIsAlone DEF Idle
    <2> QED
      BY <2>1 DEF Rotating
  <1> QED
    BY <1>2, <1>3, <1>4, <1>5 DEF Inv

LEMMA RotateInv == ASSUME Inv, NEW w \in Worker, Rotate(w) PROVE Inv'
  <1>1. request[w].doing = "rotating" /\ request[w] # Idle
    BY DEF Rotate, Idle
  <1>2. PICK g \in Gen : g = request[w].gen
    BY <1>1, RequestType
  <1>3. token[g] = "current" /\ family = "active" /\ g < MaxGen
    BY <1>1, <1>2 DEF Inv, Rotating, Usable
  <1>4. PICK cur \in Gen : LastIs(cur)
    BY DEF Inv, Line
  <1>5. cur = g
    BY <1>3, <1>4, GenFacts DEF LastIs
  <1>6. g + 1 \in Gen /\ \A h \in Gen : h \in Nat /\ g \in Nat
    BY <1>3, GenFacts
  <1>7. /\ token' = [token EXCEPT ![g] = "consumed", ![g + 1] = "current"]
        /\ family' = family /\ request' = [request EXCEPT ![w] = Idle]
    BY <1>2 DEF Rotate, Commit
  <1>8. token \in [Gen -> {"none", "current", "consumed", "revoked"}]
    BY DEF Inv, Types
  <1>9. \A h \in Gen : token'[h] = IF h = g + 1 THEN "current"
                                   ELSE IF h = g THEN "consumed" ELSE token[h]
    BY <1>6, <1>7, <1>8
  <1>10. LastIs(g + 1)'
    <2> SUFFICES ASSUME NEW h \in Gen
                 PROVE  token'[h] = IF h < g + 1 THEN "consumed"
                                    ELSE IF h > g + 1 THEN "none"
                                    ELSE IF family' = "active" THEN "current" ELSE "revoked"
      BY DEF LastIs
    <2>1. token[h] = IF h < g THEN "consumed"
                     ELSE IF h > g THEN "none"
                     ELSE IF family = "active" THEN "current" ELSE "revoked"
      BY <1>4, <1>5 DEF LastIs
    <2>2. h \in Nat /\ g \in Nat
      BY <1>6
    <2>3. CASE h < g
      BY <1>9, <2>1, <2>2, <2>3
    <2>4. CASE h = g
      BY <1>9, <2>2, <2>4
    <2>5. CASE h = g + 1
      <3>1. token'[h] = "current" /\ family' = "active"
        BY <1>3, <1>7, <1>9, <2>5
      <3>2. ~(h < g + 1) /\ ~(h > g + 1)
        BY <2>2, <2>5
      <3> QED
        BY <3>1, <3>2
    <2>6. CASE h > g + 1
      BY <1>9, <2>1, <2>2, <2>6
    <2> QED
      BY <2>2, <2>3, <2>4, <2>5, <2>6
  <1>11. Line'
    BY <1>6, <1>10 DEF Line
  <1>12. token' \in [Gen -> {"none", "current", "consumed", "revoked"}]
    BY <1>7, <1>8
  <1>13. \A h \in Gen : token[h] # "none" => token'[h] # "none"
    BY <1>9
  <1>14. family' \in {"active", "revoked"}
    BY <1>3, <1>7
  <1> QED
    BY <1>1, <1>7, <1>11, <1>12, <1>13, <1>14, CommitMoves

LEMMA RevokeInv == ASSUME Inv, NEW w \in Worker, Revoke(w) PROVE Inv'
  <1>1. /\ request[w].doing = "revoking" /\ family' = "revoked"
        /\ request' = [request EXCEPT ![w] = Idle]
    BY DEF Revoke, Commit
  <1>2. token \in [Gen -> {"none", "current", "consumed", "revoked"}]
    BY DEF Inv, Types
  <1>3. \A g \in Gen : token'[g] = IF token[g] = "current" THEN "revoked" ELSE token[g]
    BY DEF Revoke, Affected
  <1>4. token' \in [Gen -> {"none", "current", "consumed", "revoked"}]
    <2>1. token' = [g \in Gen |-> token'[g]]
      BY DEF Revoke
    <2>2. \A g \in Gen : token'[g] \in {"none", "current", "consumed", "revoked"}
      BY <1>2, <1>3
    <2> QED
      BY <2>1, <2>2
  <1>5. PICK cur \in Gen : LastIs(cur)
    BY DEF Inv, Line
  <1>6. LastIs(cur)'
    BY <1>1, <1>3, <1>5, GenFacts DEF LastIs
  <1>7. Line'
    BY <1>6 DEF Line
  <1>8. \A g \in Gen : token[g] # "none" => token'[g] # "none"
    BY <1>3
  <1> QED
    BY <1>1, <1>4, <1>7, <1>8, CommitMoves

LEMMA InitInv == Init => Inv
  <1> SUFFICES ASSUME Init PROVE Inv
    OBVIOUS
  <1>1. Types
    BY DEF Init, Types
  <1>2. Exclusive /\ Holding /\ Rotating
    BY DEF Init, Exclusive, Holding, Rotating, Idle
  <1>3. 0 \in Gen /\ LastIs(0)
    BY MaxGenAssumption, GenFacts DEF Init, LastIs, Gen
  <1> QED
    BY <1>1, <1>2, <1>3 DEF Inv, Line

LEMMA NextInv == Inv /\ [Next]_vars => Inv'
  <1> SUFFICES ASSUME Inv, [Next]_vars PROVE Inv'
    OBVIOUS
  <1>1. ASSUME NEW w \in Worker, Begin(w) \/ Proceed(w) \/ Victim(w) PROVE Inv'
    BY <1>1, BeginInv, LockInv, DecideInv, RotateInv, RevokeInv, RollbackInv
       DEF Proceed, Victim
  <1>2. CASE UNCHANGED vars
    <2>1. token' = token /\ family' = family /\ request' = request
      BY <1>2 DEF vars
    <2>2. Types' /\ Exclusive'
      BY <2>1 DEF Inv, Types, Exclusive
    <2>3. Holding'
      BY <2>1 DEF Inv, Holding
    <2>4. Rotating' /\ Line'
      BY <2>1 DEF Inv, Rotating, Line, Usable, LastIs
    <2> QED
      BY <2>2, <2>3, <2>4 DEF Inv
  <1> QED
    BY <1>1, <1>2 DEF Next

LEMMA InvHolds == Spec => []Inv
  BY InitInv, NextInv, PTL DEF Spec

-----------------------------------------------------------------------------

\* The rows and the transactions hold what the code can put there.
THEOREM TypesHold == Spec => []TypeOK
  <1>1. ASSUME Inv PROVE TypeOK
    BY <1>1, RequestType DEF TypeOK, Inv, Types, Record
  <1>2. Inv => TypeOK
    BY <1>1
  <1> QED
    BY <1>2, InvHolds, PTL

\* The guards the rotation's UPDATEs repeat never fail: what a request read under
\* its locks is still so when it writes (src/oauth/token-repository.ts:505-532).
THEOREM GuardsNeverFail == Spec => []RaceErrorsNeverFire
  <1>1. Inv => RaceErrorsNeverFire
    BY DEF Inv, Rotating, RaceErrorsNeverFire
  <1> QED
    BY <1>1, InvHolds, PTL

\* However rotations and revocations overtake each other, an active family has
\* exactly one current token and a revoked one has none
\* (src/oauth/token-repository.ts:496-601).
THEOREM OneUsableToken == Spec => []UsableWhileActive
  <1>1. ASSUME Inv PROVE UsableWhileActive
    <2>1. PICK cur \in Gen : LastIs(cur)
      BY <1>1 DEF Inv, Line
    <2>2. family \in {"active", "revoked"}
      BY <1>1 DEF Inv, Types
    <2>3. CASE family = "active"
      <3>1. {g \in Gen : token[g] = "current"} = {cur}
        BY <2>1, <2>3, GenFacts DEF LastIs
      <3> QED
        BY <3>1, <2>3, FS_Singleton DEF UsableWhileActive
    <2>4. CASE family = "revoked"
      <3>1. {g \in Gen : token[g] = "current"} = {}
        BY <2>1, <2>4, GenFacts DEF LastIs
      <3> QED
        BY <3>1, <2>4, FS_EmptySet DEF UsableWhileActive
    <2> QED
      BY <2>2, <2>3, <2>4
  <1>2. Inv => UsableWhileActive
    BY <1>1
  <1> QED
    BY <1>2, InvHolds, PTL

\* Requests that present the same token cannot wait for each other in a circle:
\* every member of a cycle holds a row, hence its token's, and a row has one
\* holder (src/oauth/token-repository.ts:440-470).
THEOREM SameTokenIsSafe == Spec => []SameTokenNeverDeadlocks
  <1>1. ASSUME Inv PROVE SameTokenNeverDeadlocks
    <2> SUFFICES ASSUME NEW v \in Deadlocked,
                        \A w \in Deadlocked : request[w].gen = request[v].gen
                 PROVE  FALSE
      BY DEF SameTokenNeverDeadlocks
    <2>1. PICK C \in SUBSET Worker :
            /\ v \in C /\ C \subseteq Deadlocked
            /\ \A u \in C : /\ \E x \in C : Waits(u, x)
                            /\ \E x \in C : Waits(x, u)
      BY DEF Deadlocked
    <2>2. \A u \in C : request[u].held # {}
      BY <2>1 DEF Waits
    <2>3. \A u \in C : TokenRow(request[u].gen) \in request[u].held
      <3> SUFFICES ASSUME NEW u \in C PROVE TokenRow(request[u].gen) \in request[u].held
        OBVIOUS
      <3>1. request[u] # Idle
        BY <2>2 DEF Idle
      <3> QED
        BY <1>1, <2>1, <2>2, <3>1 DEF Inv, Holding
    <2>4. PICK x \in C : x # v
      BY <2>1 DEF Waits
    <2>5. request[x].gen = request[v].gen
      BY <2>1
    <2>6. TokenRow(request[v].gen) \in request[x].held \cap request[v].held
      BY <2>1, <2>3, <2>5
    <2> QED
      BY <1>1, <2>1, <2>4, <2>6 DEF Inv, Exclusive
  <1>2. Inv => SameTokenNeverDeadlocks
    BY <1>1
  <1> QED
    BY <1>2, InvHolds, PTL
=============================================================================
