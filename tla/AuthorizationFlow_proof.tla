------------------------ MODULE AuthorizationFlow_proof ------------------------
(***************************************************************************)
(* Proofs about AuthorizationFlow, for any number of transactions, grants  *)
(* and workers, and any lifetime.                                          *)
(*                                                                         *)
(* A row of a transaction is sound at a time (Sound): its times are in     *)
(* order, it names a code when it is completed and only then, and what     *)
(* browsers heard agrees with it.  A request brings times it read earlier; *)
(* they are between those of the row and the clock (Fits), and while an    *)
(* evaluation holds its locks nobody links (Apart), so that what it found  *)
(* stands until the code is stored.                                        *)
(***************************************************************************)
EXTENDS AuthorizationFlow, FiniteSetTheorems, TLAPS

Time == Nat \cup {Null}
TxnRow == [status : {"none", "pending", "claimed"} \cup Terminal, created_at : Time,
           expires_at : Time, claimed_at : Time, completed_at : Time]
CodeRow == [issued_at : Time, grant : Grant \cup {Null}]
NativeRow == [status : {"none", "pending_user_link", "active", "revoked", "expired"},
              linked : BOOLEAN, valid_until : Time]
Heard == {"invalid_request", "denied", "server_error", "code"}

Past == {"claimed", "linking", "identified", "checked", "evaluated", "refused"}
Authorizing == [at : {"authorizing"}, now : Nat]
Handling == [at : {"started"} \cup Past, txn : Txn, now : Nat, dead : SUBSET Grant,
             grant : Grant \cup {Null}]
Request == {Idle} \cup Authorizing \cup Handling

Types == /\ clock \in 0..MaxTime
         /\ mode \in {"legacy_bridge", "native"}
         /\ user \in {"none", "active", "disabled"}
         /\ native \in [Grant -> NativeRow]
         /\ txn \in [Txn -> TxnRow]
         /\ code \in [Txn -> CodeRow]
         /\ told \in [Txn -> SUBSET Heard]
         /\ request \in [Worker -> Request]

\* The indexes: one active and one pending row, and who has a user.
NativeSound ==
  /\ \A g \in Grant : /\ native[g].status = "pending_user_link" => ~native[g].linked
                      /\ native[g].status = "active" => native[g].linked
  /\ \A g, h \in Grant : /\ native[g].status = native[h].status
                         /\ native[g].status \in {"active", "pending_user_link"}
                         => g = h

\* A row, its code and the answers given for it, at the time now.
Sound(row, issued, heard, now) ==
  /\ row.status # "none" => /\ row.created_at \in 0..now
                            /\ row.expires_at = row.created_at + TTL
  /\ row.claimed_at # Null => /\ row.created_at <= row.claimed_at
                              /\ row.claimed_at < row.expires_at
                              /\ row.claimed_at <= now
  /\ row.completed_at # Null => /\ row.created_at <= row.completed_at
                                /\ row.claimed_at <= row.completed_at
  /\ row.status \in {"none", "pending"} => row.claimed_at = Null
  /\ row.status \in {"none", "pending", "claimed"} => row.completed_at = Null
  /\ row.status = "claimed" => row.claimed_at # Null
  /\ row.status = "completed" <=> issued.issued_at # Null
  /\ issued.issued_at = Null => issued = NoCode
  /\ row.status = "completed" => issued.issued_at < row.expires_at
  /\ row.status = "expired" => row.expires_at <= row.completed_at
  /\ "code" \in heard => row.status = "completed"
  /\ "denied" \in heard => row.status = "denied"

\* A row that changes keeps when it was created and claimed; one that has ended
\* does not change.
Moved(row, new) ==
  /\ row.status # "none" => new.status # "none" /\ new.created_at = row.created_at
  /\ row.claimed_at # Null => new.claimed_at = row.claimed_at
  /\ row.status \in Terminal => new = row

TxnsSound == \A t \in Txn : Sound(txn[t], code[t], told[t], clock)

\* What an evaluation has found.
Entitled(r) == /\ r.grant \in Grant
               /\ native[r.grant].status = "active" /\ native[r.grant].linked
               /\ ~Elapsed(r.grant, r.now)
               /\ user = "active"
               /\ registered

Fits(r) ==
  /\ r.at # "idle" => r.now <= clock
  /\ r.at \in {"started"} \cup Past =>
        txn[r.txn].status # "none" /\ txn[r.txn].created_at <= r.now
  /\ r.at \in Past => txn[r.txn].claimed_at # Null
  /\ r.at \in {"checked", "evaluated"} => txn[r.txn].claimed_at <= r.now
  /\ r.at = "evaluated" /\ mode = "native" => Entitled(r)

Apart(r, s) == mode = "native" => /\ ~(r.at = "linking" /\ s.at = "evaluated")
                                  /\ ~(r.at = "evaluated" /\ s.at = "linking")

Working == /\ \A w \in Worker : Fits(request[w])
           /\ \A v, w \in Worker : v # w => Apart(request[v], request[w])

Inv == Types /\ NativeSound /\ TxnsSound /\ Working

\* The requests the other workers handle.
Beside(w) == {request[v] : v \in Worker \ {w}}
All == {request[v] : v \in Worker}

-----------------------------------------------------------------------------
(* Rows of transactions.                                                   *)

LEMMA LaterSound ==
  ASSUME NEW row \in TxnRow, NEW issued \in CodeRow, NEW heard \in SUBSET Heard,
         NEW now \in Nat, NEW later \in Nat, now <= later, Sound(row, issued, heard, now)
  PROVE  Sound(row, issued, heard, later)
  <1>1. row.claimed_at \in Int /\ row.created_at \in Int
    BY DEF TxnRow, Time, Null
  <1> QED
    BY <1>1 DEF Sound

\* The row ends, in the way that status says.
Ends(row, new, status, at) ==
  /\ new \in TxnRow /\ new.status = status /\ new.completed_at = at
  /\ new.created_at = row.created_at /\ new.expires_at = row.expires_at
  /\ new.claimed_at = row.claimed_at

\* expireStaleAuthorizationTransactions ends a row.
LEMMA SweptRow ==
  ASSUME NEW row \in TxnRow, NEW issued \in CodeRow, NEW heard \in SUBSET Heard,
         NEW now \in Nat, NEW at \in Nat, at <= now, Sound(row, issued, heard, now),
         row.status \in {"pending", "claimed"}, row.expires_at <= at,
         NEW new, Ends(row, new, "expired", at)
  PROVE  Moved(row, new) /\ Sound(new, issued, heard, now)
  <1>1. row.created_at \in 0..now /\ row.expires_at = row.created_at + TTL
    BY DEF Sound
  <1>2. row.created_at <= at
    BY <1>1, TimeAssumption
  <1>3. row.claimed_at <= at
    <2>1. row.claimed_at \in Int /\ row.expires_at \in Int
      BY DEF TxnRow, Time, Null
    <2>2. row.claimed_at # Null => row.claimed_at < row.expires_at
      BY DEF Sound
    <2> QED
      BY <2>1, <2>2 DEF Null
  <1>4. Moved(row, new)
    BY DEF Moved, Terminal, Ends
  <1> QED
    BY <1>2, <1>3, <1>4 DEF Sound, Null, Ends

LEMMA NewRow ==
  ASSUME NEW row \in TxnRow, NEW issued \in CodeRow, NEW heard \in SUBSET Heard,
         NEW now \in Nat, NEW at \in Nat, at <= now, Sound(row, issued, heard, now),
         row.status = "none"
  PROVE  /\ NewTxn(at) \in TxnRow /\ NewTxn(at).status = "pending"
         /\ Moved(row, NewTxn(at)) /\ Sound(NewTxn(at), issued, heard, now)
  <1>1. at \in Nat /\ at + TTL \in Nat /\ at \in 0..now
    BY TimeAssumption
  <1>2. NoTxn \in TxnRow /\ NoTxn.claimed_at = Null /\ NoTxn.completed_at = Null
    BY DEF NoTxn, TxnRow, Terminal, Time
  <1>3. PICK none \in TxnRow : none = NoTxn
    BY <1>2
  <1>4. PICK until \in Nat : until = at + TTL
    BY <1>1
  <1> DEFINE new == [none EXCEPT !.status = "pending", !.created_at = at, !.expires_at = until]
  <1>5. /\ new \in TxnRow /\ new.status = "pending" /\ new.created_at = at /\ new.expires_at = until
        /\ new.claimed_at = none.claimed_at /\ new.completed_at = none.completed_at
    BY <1>1 DEF TxnRow, Terminal, Time
  <1>6. NewTxn(at) = new
    BY <1>3, <1>4 DEF NewTxn
  <1> HIDE DEF new
  <1>7. Sound(new, issued, heard, now)
    BY <1>1, <1>2, <1>3, <1>4, <1>5 DEF Sound
  <1>8. Moved(row, new)
    BY DEF Moved, Sound, Terminal
  <1> QED
    BY <1>5, <1>6, <1>7, <1>8

LEMMA ClaimedRow ==
  ASSUME NEW row \in TxnRow, NEW issued \in CodeRow, NEW heard \in SUBSET Heard,
         NEW now \in Nat, NEW at \in Nat, at <= now, Sound(row, issued, heard, now),
         Claimable(row, at), row.created_at <= at,
         NEW new \in TxnRow, new.status = "claimed", new.claimed_at = at,
         new.completed_at = row.completed_at,
         new.created_at = row.created_at, new.expires_at = row.expires_at
  PROVE  Moved(row, new) /\ Sound(new, issued, heard, now)
  <1>1. row.status = "pending" /\ at < row.expires_at
    BY DEF Claimable, TxnRow, Time, Null
  <1>2. Moved(row, new)
    BY <1>1 DEF Moved, Sound, Terminal
  <1> QED
    BY <1>1, <1>2 DEF Sound, Null

LEMMA DeniedRow ==
  ASSUME NEW row \in TxnRow, NEW issued \in CodeRow, NEW heard \in SUBSET Heard,
         NEW now \in Nat, Sound(row, issued, heard, now), row.status = "claimed",
         NEW new, Ends(row, new, "denied", now)
  PROVE  Moved(row, new) /\ Sound(new, issued, heard \cup {"denied"}, now)
  BY DEF Sound, Null, Ends, Moved, Terminal

LEMMA CompletedRow ==
  ASSUME NEW row \in TxnRow, NEW issued \in CodeRow, NEW heard \in SUBSET Heard,
         NEW now \in Nat, NEW at \in Nat, at <= now, Sound(row, issued, heard, now),
         Completable(row, at), row.claimed_at <= at, row.created_at <= at,
         NEW stored, stored.issued_at = at,
         NEW new, Ends(row, new, "completed", at)
  PROVE  Moved(row, new) /\ Sound(new, stored, heard \cup {"code"}, now)
  <1>1. row.status = "claimed" /\ at < row.expires_at /\ at # Null
    BY DEF Completable, TxnRow, Time, Null
  <1>2. Moved(row, new)
    BY <1>1 DEF Moved, Terminal, Ends
  <1> QED
    BY <1>1, <1>2 DEF Sound, Null, Ends

LEMMA HeardMore ==
  ASSUME NEW row \in TxnRow, NEW issued \in CodeRow, NEW heard \in SUBSET Heard,
         NEW now \in Nat, Sound(row, issued, heard, now),
         NEW answer \in {"invalid_request", "server_error"}
  PROVE  Sound(row, issued, heard \cup {answer}, now)
  BY DEF Sound

LEMMA SweepRows ==
  ASSUME Inv, NEW at \in 0..clock, NEW S \in SUBSET Stale(at), NEW t \in Txn
  PROVE  /\ Sweep(S, at)[t] \in TxnRow /\ Moved(txn[t], Sweep(S, at)[t])
         /\ Sound(Sweep(S, at)[t], code[t], told[t], clock)
         /\ Sweep(S, at)[t] # txn[t] => Sweep(S, at)[t].status = "expired"
  <1>1. PICK row \in TxnRow : row = txn[t]
    BY DEF Inv, Types
  <1>2. PICK issued \in CodeRow : issued = code[t]
    BY DEF Inv, Types
  <1>3. PICK heard \in SUBSET Heard : heard = told[t]
    BY DEF Inv, Types
  <1>4. PICK now \in Nat : now = clock
    BY TimeAssumption DEF Inv, Types
  <1>5. Sound(row, issued, heard, now)
    BY <1>1, <1>2, <1>3, <1>4 DEF Inv, TxnsSound
  <1>6. CASE t \in S
    <2>1. row.status \in {"pending", "claimed"} /\ row.expires_at <= at
      BY <1>1, <1>6 DEF Stale
    <2>2. PICK new : new = [row EXCEPT !.status = "expired", !.completed_at = at]
      OBVIOUS
    <2>3. Sweep(S, at)[t] = new
      BY <1>1, <1>6, <2>2 DEF Sweep
    <2>4. at \in Nat /\ at <= now
      BY <1>4
    <2>5. Ends(row, new, "expired", at)
      BY <2>2, <2>4 DEF Ends, TxnRow, Terminal, Time
    <2>6. Moved(row, new) /\ Sound(new, issued, heard, now)
      BY <1>5, <2>1, <2>4, <2>5, SweptRow
    <2> QED
      BY <1>1, <1>2, <1>3, <1>4, <2>3, <2>5, <2>6 DEF Ends
  <1>7. CASE t \notin S
    <2>1. Sweep(S, at)[t] = row
      BY <1>1, <1>7 DEF Sweep
    <2> QED
      BY <1>1, <1>2, <1>3, <1>4, <1>5, <2>1 DEF Moved
  <1> QED
    BY <1>6, <1>7

\* What a step does to a transaction, its code and what was heard of it.
Onward(t) == /\ txn'[t] \in TxnRow /\ code'[t] \in CodeRow /\ told'[t] \in SUBSET Heard
             /\ Moved(txn[t], txn'[t])
             /\ Sound(txn'[t], code'[t], told'[t], clock')
             /\ code[t] # NoCode => code'[t] = code[t]

\* The row of t as it is now, for the lemmas above.
LEMMA TheRow ==
  ASSUME Inv, NEW t \in Txn
  PROVE  /\ txn[t] \in TxnRow /\ code[t] \in CodeRow /\ told[t] \in SUBSET Heard
         /\ clock \in Nat /\ Sound(txn[t], code[t], told[t], clock)
  BY TimeAssumption DEF Inv, Types, TxnsSound

LEMMA Waits ==
  ASSUME Inv, NEW t \in Txn, txn'[t] = txn[t], code'[t] = code[t], told'[t] = told[t],
         clock' = clock \/ clock' = clock + 1
  PROVE  Onward(t)
  <1>1. clock' \in Nat /\ clock <= clock'
    BY TheRow
  <1> QED
    BY <1>1, TheRow, LaterSound DEF Onward, Moved

LEMMA IsHeard ==
  ASSUME Inv, UNCHANGED <<clock, code>>, NEW t \in Txn, NEW u \in Txn,
         NEW answer \in {"invalid_request", "server_error"},
         told' = [told EXCEPT ![u] = @ \cup {answer}],
         txn'[t] \in TxnRow, Moved(txn[t], txn'[t]), Sound(txn'[t], code[t], told[t], clock)
  PROVE  Onward(t)
  <1>1. told \in [Txn -> SUBSET Heard]
    BY DEF Inv, Types
  <1>2. PICK heard \in SUBSET Heard : heard = told[t]
    BY <1>1
  <1>3. told'[t] \in {heard, heard \cup {answer}}
    BY <1>1, <1>2
  <1>4. told'[t] \in SUBSET Heard
    BY <1>3 DEF Heard
  <1>5. code[t] \in CodeRow /\ clock \in Nat
    BY TheRow
  <1>6. Sound(txn'[t], code[t], heard, clock)
    BY <1>2
  <1>7. Sound(txn'[t], code[t], heard \cup {answer}, clock)
    BY <1>5, <1>6, HeardMore
  <1>8. Sound(txn'[t], code'[t], told'[t], clock')
    BY <1>3, <1>6, <1>7
  <1> QED
    BY <1>4, <1>5, <1>8 DEF Onward

-----------------------------------------------------------------------------
(* Steps of a request.                                                     *)

LEMMA RequestFacts ==
  ASSUME Inv, NEW w \in Worker
  PROVE  /\ request[w] \in Request /\ Fits(request[w])
         /\ request[w].at = "authorizing" => request[w] \in Authorizing
         /\ request[w].at \in {"started"} \cup Past => request[w] \in Handling
         /\ request[w].at = "idle" => request[w] = Idle
  <1>1. request[w] \in Request /\ Fits(request[w])
    BY DEF Inv, Types, Working
  <1>2. CASE request[w] = Idle
    BY <1>1, <1>2 DEF Idle, Past
  <1>3. CASE request[w] \in Authorizing
    BY <1>1, <1>3 DEF Authorizing, Past
  <1>4. CASE request[w] \in Handling
    BY <1>1, <1>4 DEF Handling, Past
  <1> QED
    BY <1>1, <1>2, <1>3, <1>4 DEF Request

LEMMA CreateOnward ==
  ASSUME Inv, NEW w \in Worker, CreateTransaction(w), NEW t \in Txn PROVE Onward(t)
  <1>1. PICK at \in Nat : at = request[w].now
    BY RequestFacts DEF CreateTransaction, Authorizing
  <1>2. at \in 0..clock
    BY <1>1, RequestFacts, TheRow DEF CreateTransaction, Fits
  <1>3. PICK S \in SUBSET Stale(at) :
          \/ txn' = Sweep(S, at)
          \/ \E u \in Txn : txn[u].status = "none" /\ txn' = [Sweep(S, at) EXCEPT ![u] = NewTxn(at)]
    BY <1>1 DEF CreateTransaction
  <1>4. UNCHANGED <<clock, code, told>>
    BY DEF CreateTransaction
  <1>5. Sweep(S, at) = [u \in Txn |-> Sweep(S, at)[u]]
    BY DEF Sweep
  <1>6. CASE txn'[t] = Sweep(S, at)[t]
    BY <1>2, <1>4, <1>6, TheRow, SweepRows DEF Onward
  <1>7. CASE txn[t].status = "none" /\ txn'[t] = NewTxn(at)
    <2>1. at \in Nat /\ at <= clock
      BY <1>2
    <2>2. NewTxn(at) \in TxnRow /\ Moved(txn[t], NewTxn(at)) /\ Sound(NewTxn(at), code[t], told[t], clock)
      BY <1>7, <2>1, TheRow, NewRow
    <2> QED
      BY <1>4, <1>7, <2>2, TheRow DEF Onward
  <1> QED
    BY <1>3, <1>5, <1>6, <1>7

\* The time and the transaction a request brings.
LEMMA Brings ==
  ASSUME Inv, NEW w \in Worker, request[w].at \in {"started"} \cup Past
  PROVE  /\ request[w].now \in Nat /\ request[w].now \in 0..clock /\ request[w].txn \in Txn
         /\ request[w].grant \in Grant \cup {Null}
         /\ request[w].at # "idle"
  BY RequestFacts, TheRow DEF Handling, Fits, Past

LEMMA ClaimOnward == ASSUME Inv, NEW w \in Worker, Claim(w), NEW t \in Txn PROVE Onward(t)
  <1>1. request[w].at = "started" /\ UNCHANGED <<clock, code>>
    BY DEF Claim, At
  <1>2. PICK at \in Nat, u \in Txn : at = request[w].now /\ u = request[w].txn
    BY <1>1, Brings
  <1>3. at \in 0..clock
    BY <1>1, <1>2, Brings
  <1>4. PICK S \in SUBSET Stale(at) :
          \/ /\ Claimable(Sweep(S, at)[u], at)
             /\ txn' = [Sweep(S, at) EXCEPT ![u].status = "claimed", ![u].claimed_at = at]
             /\ UNCHANGED told
          \/ /\ txn' = Sweep(S, at)
             /\ told' = [told EXCEPT ![u] = @ \cup {"invalid_request"}]
    BY <1>2 DEF Claim, Answer
  <1>5. CASE txn' = Sweep(S, at) /\ told' = [told EXCEPT ![u] = @ \cup {"invalid_request"}]
    BY <1>1, <1>3, <1>5, SweepRows, IsHeard
  <1>6. ASSUME Claimable(Sweep(S, at)[u], at), UNCHANGED told,
               txn' = [Sweep(S, at) EXCEPT ![u].status = "claimed", ![u].claimed_at = at]
        PROVE  Onward(t)
    <2>1. PICK row \in TxnRow : row = txn[u]
      BY TheRow
    <2>2. Sweep(S, at)[u] = row
      BY <1>3, <1>6, <2>1, SweepRows DEF Claimable
    <2>3. Sweep(S, at) = [v \in Txn |-> Sweep(S, at)[v]]
      BY DEF Sweep
    <2>4. txn' = [Sweep(S, at) EXCEPT ![u] = [row EXCEPT !.status = "claimed", !.claimed_at = at]]
      BY <1>6, <2>2, <2>3
    <2>5. CASE t = u
      <3>1. PICK new : new = [row EXCEPT !.status = "claimed", !.claimed_at = at]
        OBVIOUS
      <3>2. txn'[t] = new
        BY <2>3, <2>4, <2>5, <3>1
      <3>3. row.created_at <= at
        BY <1>1, <1>2, <2>1, RequestFacts DEF Fits
      <3>4. /\ new \in TxnRow /\ new.status = "claimed" /\ new.claimed_at = at
            /\ new.completed_at = row.completed_at
            /\ new.created_at = row.created_at /\ new.expires_at = row.expires_at
        BY <3>1 DEF TxnRow, Terminal, Time
      <3>5. PICK issued \in CodeRow, heard \in SUBSET Heard, now \in Nat :
              issued = code[t] /\ heard = told[t] /\ now = clock /\ Sound(row, issued, heard, now)
        BY <2>1, <2>5, TheRow
      <3>6. Claimable(row, at) /\ at <= now
        BY <1>3, <1>6, <2>2, <3>5
      <3>7. Moved(row, new) /\ Sound(new, issued, heard, now)
        BY <3>3, <3>4, <3>5, <3>6, ClaimedRow
      <3> QED
        BY <1>1, <1>6, <2>1, <2>5, <3>2, <3>4, <3>5, <3>7, TheRow DEF Onward
    <2>6. CASE t # u
      <3>1. txn'[t] = Sweep(S, at)[t]
        BY <2>3, <2>4, <2>6
      <3> QED
        BY <1>1, <1>3, <1>6, <3>1, TheRow, SweepRows DEF Onward
    <2> QED
      BY <2>5, <2>6
  <1> QED
    BY <1>4, <1>5, <1>6

LEMMA DenyOnward == ASSUME Inv, NEW w \in Worker, Deny(w), NEW t \in Txn PROVE Onward(t)
  <1>1. request[w].at = "refused" /\ UNCHANGED <<clock, code>>
    BY DEF Deny, At
  <1>2. PICK u \in Txn : u = request[w].txn
    BY <1>1, Brings DEF Past
  <1>3. CASE UNCHANGED txn /\ told' = [told EXCEPT ![u] = @ \cup {"server_error"}]
    BY <1>1, <1>3, TheRow, IsHeard DEF Moved
  <1>4. ASSUME txn[u].status = "claimed",
               txn' = [txn EXCEPT ![u].status = "denied", ![u].completed_at = clock],
               told' = [told EXCEPT ![u] = @ \cup {"denied"}]
        PROVE  Onward(t)
    <2>1. PICK row \in TxnRow : row = txn[u]
      BY TheRow
    <2>2. PICK new : new = [row EXCEPT !.status = "denied", !.completed_at = clock]
      OBVIOUS
    <2>3. txn \in [Txn -> TxnRow] /\ told \in [Txn -> SUBSET Heard]
      BY DEF Inv, Types
    <2>4. txn' = [txn EXCEPT ![u] = new]
      BY <1>4, <2>1, <2>2
    <2>5. CASE t = u
      <3>1. txn'[t] = new /\ told'[t] = told[t] \cup {"denied"}
        BY <1>4, <2>3, <2>4, <2>5
      <3>2. Ends(row, new, "denied", clock)
        BY <2>2, TheRow DEF Ends, TxnRow, Terminal, Time
      <3>3. Moved(row, new) /\ Sound(new, code[t], told[t] \cup {"denied"}, clock)
        BY <1>4, <2>1, <2>5, <3>2, TheRow, DeniedRow
      <3>4. told'[t] \in SUBSET Heard
        BY <2>3, <3>1 DEF Heard
      <3> QED
        BY <1>1, <2>1, <2>5, <3>1, <3>2, <3>3, <3>4, TheRow DEF Onward, Ends
    <2>6. CASE t # u
      <3>1. txn'[t] = txn[t] /\ told'[t] = told[t]
        BY <1>4, <2>3, <2>4, <2>6
      <3> QED
        BY <1>1, <3>1, Waits
    <2> QED
      BY <2>5, <2>6
  <1> QED
    BY <1>2, <1>3, <1>4 DEF Deny, Deniable, Answer

LEMMA IssueOnward == ASSUME Inv, NEW w \in Worker, Issue(w), NEW t \in Txn PROVE Onward(t)
  <1>1. request[w].at = "evaluated" /\ UNCHANGED clock
    BY DEF Issue, At
  <1>2. PICK at \in Nat, u \in Txn, grant \in Grant \cup {Null} :
          at = request[w].now /\ u = request[w].txn /\ grant = request[w].grant
    BY <1>1, Brings DEF Past
  <1>3. at \in 0..clock
    BY <1>1, <1>2, Brings DEF Past
  <1>4. CASE UNCHANGED <<txn, code, told>>
    BY <1>1, <1>4, Waits
  <1>5. ASSUME Completable(txn[u], at),
               txn' = [txn EXCEPT ![u].status = "completed", ![u].completed_at = at],
               code' = [code EXCEPT ![u] = [issued_at |-> at, grant |-> grant]],
               told' = [told EXCEPT ![u] = @ \cup {"code"}]
        PROVE  Onward(t)
    <2>1. PICK row \in TxnRow : row = txn[u]
      BY TheRow
    <2>2. PICK new : new = [row EXCEPT !.status = "completed", !.completed_at = at]
      OBVIOUS
    <2>3. /\ txn \in [Txn -> TxnRow] /\ told \in [Txn -> SUBSET Heard]
          /\ code \in [Txn -> CodeRow]
      BY DEF Inv, Types
    <2>4. txn' = [txn EXCEPT ![u] = new]
      BY <1>5, <2>1, <2>2
    <2>5. CASE t = u
      <3>1. /\ txn'[t] = new /\ told'[t] = told[t] \cup {"code"}
            /\ code'[t] = [issued_at |-> at, grant |-> grant]
        BY <1>5, <2>3, <2>4, <2>5
      <3>2. row.claimed_at <= at /\ row.created_at <= at
        BY <1>1, <1>2, <2>1, RequestFacts DEF Fits, Past
      <3>3. PICK stored \in CodeRow : stored = [issued_at |-> at, grant |-> grant]
        BY DEF CodeRow, Time
      <3>4. stored.issued_at = at
        BY <3>3
      <3>5. Ends(row, new, "completed", at)
        BY <2>2 DEF Ends, TxnRow, Terminal, Time
      <3>6. PICK issued \in CodeRow, heard \in SUBSET Heard, now \in Nat :
              issued = code[t] /\ heard = told[t] /\ now = clock /\ Sound(row, issued, heard, now)
        BY <2>1, <2>5, TheRow
      <3>7. Completable(row, at) /\ at <= now
        BY <1>3, <1>5, <2>1, <3>6
      <3>8. Moved(row, new) /\ Sound(new, stored, heard \cup {"code"}, now)
        BY <3>2, <3>4, <3>5, <3>6, <3>7, CompletedRow
      <3>9. told'[t] \in SUBSET Heard
        BY <2>3, <3>1 DEF Heard
      <3>10. code[t] = NoCode
        BY <3>6, <3>7 DEF Sound, Completable
      <3> QED
        BY <1>1, <2>1, <2>5, <3>1, <3>3, <3>5, <3>6, <3>8, <3>9, <3>10 DEF Onward, Ends
    <2>6. CASE t # u
      <3>1. txn'[t] = txn[t] /\ told'[t] = told[t] /\ code'[t] = code[t]
        BY <1>5, <2>3, <2>4, <2>6
      <3> QED
        BY <1>1, <3>1, Waits
    <2> QED
      BY <2>5, <2>6
  <1> QED
    BY <1>2, <1>4, <1>5 DEF Issue, Answer

\* Every step, for every transaction.
LEMMA AllOnward == ASSUME Inv, [Next]_vars, NEW t \in Txn PROVE Onward(t)
  <1>1. CASE UNCHANGED <<txn, code, told>> /\ (clock' = clock \/ clock' = clock + 1)
    BY <1>1, Waits
  <1>2. ASSUME NEW w \in Worker, Step(w) PROVE Onward(t)
    <2>1. CASE Authorize(w) \/ Callback(w) \/ Refuse(w)
      BY <1>1, <2>1 DEF Authorize, Callback, Refuse
    <2>2. CASE Identify(w) \/ Link(w) \/ Check(w)
      BY <1>1, <2>2 DEF Identify, Link, Check
    <2>3. CASE Evaluate(w) \/ Crash(w)
      BY <1>1, <2>3 DEF Evaluate, Crash
    <2> QED
      BY <1>2, <2>1, <2>2, <2>3, CreateOnward, ClaimOnward, DenyOnward, IssueOnward DEF Step
  <1>3. CASE OtherLogin \/ CreateGrant \/ ReadUnknown \/ CreatePending \/ RevokeGrant
    BY <1>1, <1>3 DEF OtherLogin, CreateGrant, ReadUnknown, CreatePending, RevokeGrant, Admin
  <1>4. CASE SetUser \/ SetRegistration \/ SetLegacyGrant \/ Tick
    BY <1>1, <1>4 DEF SetUser, SetRegistration, SetLegacyGrant, Tick
  <1>5. CASE UNCHANGED vars
    BY <1>1, <1>5 DEF vars
  <1> QED
    BY <1>2, <1>3, <1>4, <1>5 DEF Next

-----------------------------------------------------------------------------
(* The native grants.                                                      *)

\* A row that a step closes, and one that it makes pending or active.
Closed(g) == native'[g] \in NativeRow /\ native'[g].status \in {"revoked", "expired"}
Opened(g) == /\ native'[g] \in NativeRow
             /\ \/ native'[g].status = "active" /\ native'[g].linked
                \/ native'[g].status = "pending_user_link" /\ ~native'[g].linked

\* The indexes hold when a row is opened only if no other has its new status.
LEMMA NativesStep ==
  ASSUME Inv, native' = [g \in Grant |-> native'[g]],
         \A g \in Grant : native'[g] = native[g] \/ Closed(g) \/ Opened(g),
         \A g, h \in Grant : Opened(g) /\ native'[g] # native[g]
                             /\ native'[h].status = native'[g].status => h = g
  PROVE  native' \in [Grant -> NativeRow] /\ NativeSound'
  <1>1. native \in [Grant -> NativeRow] /\ NativeSound
    BY DEF Inv, Types
  <1>2. ASSUME NEW g \in Grant
        PROVE  /\ native'[g] \in NativeRow
               /\ native'[g].status = "pending_user_link" => ~native'[g].linked
               /\ native'[g].status = "active" => native'[g].linked
    BY <1>1 DEF NativeSound, Closed, Opened
  <1>3. ASSUME NEW g \in Grant, NEW h \in Grant, native'[g].status = native'[h].status,
               native'[g].status \in {"active", "pending_user_link"}
        PROVE  g = h
    <2>1. CASE native'[g] = native[g] /\ native'[h] = native[h]
      BY <1>1, <1>3, <2>1 DEF NativeSound
    <2>2. CASE native'[g] # native[g]
      BY <1>3, <2>2 DEF Closed
    <2>3. CASE native'[h] # native[h]
      BY <1>3, <2>3 DEF Closed
    <2> QED
      BY <2>1, <2>2, <2>3
  <1>4. native' \in [Grant -> NativeRow]
    BY <1>2
  <1> QED
    BY <1>2, <1>3, <1>4 DEF NativeSound

\* linkPendingNativeGrants: some pending rows are set aside, the others linked
\* if no row is active.
LEMMA LinkingNatives ==
  ASSUME Inv, NEW dead \in SUBSET Grant, NEW fresh \in SUBSET With("pending_user_link"),
         fresh = {} \/ With("active") = {},
         native' = [g \in Grant |->
                      IF g \in dead THEN [native[g] EXCEPT !.status = "expired"]
                      ELSE IF g \in fresh THEN Linked(native[g])
                      ELSE native[g]]
  PROVE  native' \in [Grant -> NativeRow] /\ NativeSound'
  <1>1. native \in [Grant -> NativeRow] /\ NativeSound
    BY DEF Inv, Types
  <1>2. ASSUME NEW g \in Grant
        PROVE  \/ native'[g] = native[g] \/ Closed(g)
               \/ /\ g \in fresh /\ native'[g] \in NativeRow
                  /\ native'[g].status = "active" /\ native'[g].linked
    <2>1. PICK row \in NativeRow : row = native[g]
      BY <1>1
    <2>2. native'[g] = IF g \in dead THEN [row EXCEPT !.status = "expired"]
                       ELSE IF g \in fresh THEN [row EXCEPT !.status = "active", !.linked = TRUE]
                       ELSE row
      BY <2>1 DEF Linked
    <2> QED
      BY <2>1, <2>2 DEF Closed, NativeRow
  <1>3. ASSUME NEW g \in Grant, NEW h \in Grant, Opened(g), native'[g] # native[g],
               native'[h].status = native'[g].status
        PROVE  h = g
    <2>1. g \in fresh /\ native'[g].status = "active" /\ With("active") = {}
      BY <1>2, <1>3 DEF Closed, Opened
    <2>2. native'[h] # native[h]
      BY <1>3, <2>1 DEF With
    <2>3. h \in fresh
      BY <1>2, <1>3, <2>1, <2>2 DEF Closed
    <2> QED
      BY <1>1, <2>1, <2>3 DEF NativeSound, With
  <1>4. native' = [g \in Grant |-> native'[g]]
    OBVIOUS
  <1>5. \A g \in Grant : native'[g] = native[g] \/ Closed(g) \/ Opened(g)
    BY <1>2 DEF Opened
  <1> QED
    BY <1>3, <1>4, <1>5, NativesStep

LEMMA CreateGrantNatives ==
  ASSUME Inv, CreateGrant PROVE native' \in [Grant -> NativeRow] /\ NativeSound'
  <1>1. native \in [Grant -> NativeRow] /\ NativeSound /\ clock \in Nat
    BY TimeAssumption DEF Inv, Types
  <1>2. PICK g \in Grant, until \in {Null, clock + 1} :
          /\ Unused(g)
          /\ native' = [h \in Grant |->
                IF h = g THEN [status |-> "active", linked |-> TRUE, valid_until |-> until]
                ELSE IF h \in With("active") THEN [native[h] EXCEPT !.status = "expired"]
                ELSE native[h]]
    BY DEF CreateGrant, Admin
  <1>3. PICK row \in NativeRow : row = [status |-> "active", linked |-> TRUE, valid_until |-> until]
    <2>1. until \in Time
      BY <1>1 DEF Time
    <2> QED
      BY <2>1 DEF NativeRow
  <1>4. native'[g] = row /\ row.status = "active" /\ row.linked
    BY <1>2, <1>3
  <1>5. ASSUME NEW h \in Grant, h # g
        PROVE  \/ native'[h] = native[h] /\ native[h].status # "active"
               \/ Closed(h) /\ native'[h].status = "expired"
    <2>1. PICK old \in NativeRow : old = native[h]
      BY <1>1
    <2>2. native'[h] = IF old.status = "active" THEN [old EXCEPT !.status = "expired"] ELSE old
      BY <1>2, <1>5, <2>1 DEF With
    <2> QED
      BY <2>1, <2>2 DEF Closed, NativeRow
  <1>6. Opened(g)
    BY <1>4 DEF Opened
  <1>7. native' = [h \in Grant |-> native'[h]]
    BY <1>2
  <1>8. \A h \in Grant : native'[h] = native[h] \/ Closed(h) \/ Opened(h)
    BY <1>5, <1>6
  <1>9. \A h, i \in Grant : Opened(h) /\ native'[h] # native[h]
                            /\ native'[i].status = native'[h].status => i = h
    <2> SUFFICES ASSUME NEW h \in Grant, NEW i \in Grant, Opened(h), native'[h] # native[h],
                        native'[i].status = native'[h].status
                 PROVE  i = h
      OBVIOUS
    <2>1. h = g
      BY <1>5 DEF Opened, Closed
    <2> QED
      BY <1>4, <1>5, <2>1
  <1> QED
    BY <1>7, <1>8, <1>9, NativesStep

LEMMA CreatePendingNatives ==
  ASSUME Inv, CreatePending PROVE native' \in [Grant -> NativeRow] /\ NativeSound'
  <1>1. native \in [Grant -> NativeRow] /\ NativeSound /\ clock \in Nat
    BY TimeAssumption DEF Inv, Types
  <1>2. CASE native' = native
    BY <1>1, <1>2 DEF NativeSound
  <1>3. ASSUME With("pending_user_link") = {}, NEW g \in Grant, NEW until \in {Null, clock + 1},
               native' = [native EXCEPT ![g] =
                    [status |-> "pending_user_link", linked |-> FALSE, valid_until |-> until]]
        PROVE  native' \in [Grant -> NativeRow] /\ NativeSound'
    <2>1. PICK row \in NativeRow :
            row = [status |-> "pending_user_link", linked |-> FALSE, valid_until |-> until]
      <3>1. until \in Time
        BY <1>1, <1>3 DEF Time
      <3> QED
        BY <3>1 DEF NativeRow
    <2>2. /\ native'[g].status = "pending_user_link" /\ Opened(g)
          /\ \A h \in Grant : h # g => native'[h] = native[h]
      BY <1>1, <1>3, <2>1 DEF Opened
    <2>3. native' = [h \in Grant |-> native'[h]]
      BY <1>1, <1>3
    <2>4. \A h \in Grant : native[h].status # "pending_user_link"
      BY <1>3 DEF With
    <2>5. \A h, i \in Grant : Opened(h) /\ native'[h] # native[h]
                              /\ native'[i].status = native'[h].status => i = h
      BY <2>2, <2>4
    <2>6. \A h \in Grant : native'[h] = native[h] \/ Closed(h) \/ Opened(h)
      BY <2>2
    <2> QED
      BY <2>3, <2>5, <2>6, NativesStep
  <1> QED
    BY <1>2, <1>3 DEF CreatePending, Admin

LEMMA RevokeGrantNatives ==
  ASSUME Inv, RevokeGrant PROVE native' \in [Grant -> NativeRow] /\ NativeSound'
  <1>1. native \in [Grant -> NativeRow]
    BY DEF Inv, Types
  <1>2. PICK g \in Grant : native' = [native EXCEPT ![g].status = "revoked"]
    BY DEF RevokeGrant, Admin, With
  <1>3. PICK row \in NativeRow : row = native[g]
    BY <1>1
  <1>4. native'[g] = [row EXCEPT !.status = "revoked"]
    BY <1>1, <1>2, <1>3
  <1>5. Closed(g)
    BY <1>4 DEF Closed, NativeRow
  <1>6. /\ native' = [h \in Grant |-> native'[h]]
        /\ \A h \in Grant : h # g => native'[h] = native[h]
    BY <1>1, <1>2
  <1> QED
    BY <1>5, <1>6, NativesStep DEF Closed, Opened

LEMMA LinkNatives ==
  ASSUME Inv, NEW w \in Worker, Link(w) PROVE native' \in [Grant -> NativeRow] /\ NativeSound'
  <1>1. CASE native' = native
    BY <1>1 DEF Inv, Types, NativeSound
  <1>2. CASE native' # native
    <2>1. request[w].dead \in SUBSET Grant
      BY RequestFacts DEF Link, At, Past, Handling
    <2>2. PICK dead \in SUBSET Grant : dead = request[w].dead
      BY <2>1
    <2>3. PICK fresh \in SUBSET With("pending_user_link") : fresh = With("pending_user_link") \ dead
      OBVIOUS
    <2>4. fresh = {} \/ With("active") = {}
      BY <1>2, <2>2, <2>3 DEF Link
    <2>5. native' = [g \in Grant |->
                       IF g \in dead THEN [native[g] EXCEPT !.status = "expired"]
                       ELSE IF g \in fresh THEN Linked(native[g])
                       ELSE native[g]]
      BY <1>2, <2>2, <2>3 DEF Link
    <2> QED
      BY <2>4, <2>5, LinkingNatives
  <1> QED
    BY <1>1, <1>2

LEMMA OtherLoginNatives ==
  ASSUME Inv, OtherLogin PROVE native' \in [Grant -> NativeRow] /\ NativeSound'
  <1>1. With("pending_user_link") \in SUBSET Grant
    BY DEF With
  <1>2. CASE With("active") = {}
    <2>1. native' = [g \in Grant |->
                       IF g \in {} THEN [native[g] EXCEPT !.status = "expired"]
                       ELSE IF g \in With("pending_user_link") THEN Linked(native[g])
                       ELSE native[g]]
      BY <1>2 DEF OtherLogin
    <2> QED
      BY <1>2, <2>1, LinkingNatives
  <1>3. CASE With("active") # {}
    <2>1. PICK dead \in SUBSET Grant, fresh \in SUBSET With("pending_user_link") :
            dead = With("pending_user_link") /\ fresh = {}
      BY <1>1
    <2>2. native' = [g \in Grant |->
                       IF g \in dead THEN [native[g] EXCEPT !.status = "expired"]
                       ELSE IF g \in fresh THEN Linked(native[g])
                       ELSE native[g]]
      BY <1>3, <2>1 DEF OtherLogin
    <2> QED
      BY <2>1, <2>2, LinkingNatives
  <1> QED
    BY <1>2, <1>3

\* Who else writes nothing of the grants, the user or the clock.
Globals == /\ clock' \in 0..MaxTime /\ (clock' = clock \/ clock' = clock + 1)
           /\ mode' = mode
           /\ user' \in {"none", "active", "disabled"}
           /\ native' \in [Grant -> NativeRow]
           /\ NativeSound'

LEMMA GlobalsKept == ASSUME Inv, [Next]_vars PROVE Globals
  <1>1. CASE UNCHANGED <<clock, mode, user, native>>
    BY <1>1 DEF Inv, Types, NativeSound, Globals
  <1>2. ASSUME clock' = clock, mode' = mode, user' \in {user, "active"},
               native' \in [Grant -> NativeRow] /\ NativeSound'
        PROVE  Globals
    BY <1>2 DEF Inv, Types, Globals
  <1>3. ASSUME NEW w \in Worker, Step(w) PROVE Globals
    <2>1. CASE Link(w)
      BY <1>2, <2>1, LinkNatives DEF Link
    <2>2. CASE Authorize(w) \/ CreateTransaction(w) \/ Callback(w) \/ Claim(w)
      BY <1>1, <2>2 DEF Authorize, CreateTransaction, Callback, Claim, rest
    <2>3. CASE Refuse(w) \/ Deny(w) \/ Identify(w)
      BY <1>1, <2>3 DEF Refuse, Deny, Identify, rest
    <2>4. CASE Check(w) \/ Evaluate(w) \/ Issue(w) \/ Crash(w)
      BY <1>1, <2>4 DEF Check, Evaluate, Issue, Crash, rest
    <2> QED
      BY <1>3, <2>1, <2>2, <2>3, <2>4 DEF Step
  <1>4. CASE OtherLogin
    BY <1>2, <1>4, OtherLoginNatives DEF OtherLogin
  <1>5. CASE CreateGrant
    BY <1>2, <1>5, CreateGrantNatives DEF CreateGrant, Admin
  <1>6. CASE CreatePending
    BY <1>2, <1>6, CreatePendingNatives DEF CreatePending, Admin
  <1>7. CASE RevokeGrant
    BY <1>2, <1>7, RevokeGrantNatives DEF RevokeGrant, Admin
  <1>8. CASE ReadUnknown \/ SetRegistration \/ SetLegacyGrant
    BY <1>1, <1>8 DEF ReadUnknown, SetRegistration, SetLegacyGrant, Admin
  <1>9. CASE SetUser
    BY <1>9 DEF SetUser, Inv, Types, NativeSound, Globals
  <1>10. CASE Tick
    BY <1>10, TimeAssumption DEF Tick, rest, Inv, Types, NativeSound, Globals
  <1>11. CASE UNCHANGED vars
    BY <1>1, <1>11 DEF vars, rest
  <1> QED
    BY <1>3, <1>4, <1>5, <1>6, <1>7, <1>8, <1>9, <1>10, <1>11 DEF Next

\* evaluateNativeEntitlement holds FOR SHARE on what it read: no step writes it.
Undisturbed(g) == native'[g] = native[g] /\ user' = user /\ registered' = registered

LEMMA LocksHold ==
  ASSUME Inv, [Next]_vars, NEW v \in Worker, request[v].at = "evaluated", mode = "native"
  PROVE  Undisturbed(request[v].grant)
  <1>1. Entitled(request[v])
    BY DEF Inv, Working, Fits, Past
  <1>2. ~Unshared
    BY DEF Unshared
  <1>3. CASE UNCHANGED <<user, native, registered>>
    BY <1>3 DEF Undisturbed
  <1>4. ASSUME NEW w \in Worker, Step(w) PROVE Undisturbed(request[v].grant)
    <2>1. CASE Link(w)
      <3>1. request[w].at = "linking" /\ w # v
        BY <2>1 DEF Link, At
      <3> QED
        BY <3>1 DEF Inv, Working, Apart
    <2>2. CASE Authorize(w) \/ CreateTransaction(w) \/ Callback(w) \/ Claim(w)
      BY <1>3, <2>2 DEF Authorize, CreateTransaction, Callback, Claim, rest
    <2>3. CASE Refuse(w) \/ Deny(w) \/ Identify(w)
      BY <1>3, <2>3 DEF Refuse, Deny, Identify, rest
    <2>4. CASE Check(w) \/ Evaluate(w) \/ Issue(w) \/ Crash(w)
      BY <1>3, <2>4 DEF Check, Evaluate, Issue, Crash, rest
    <2> QED
      BY <1>4, <2>1, <2>2, <2>3, <2>4 DEF Step
  <1>5. CASE OtherLogin \/ CreateGrant \/ RevokeGrant \/ SetUser \/ SetRegistration
    BY <1>2, <1>5 DEF OtherLogin, CreateGrant, RevokeGrant, SetUser, SetRegistration
  <1>6. CASE CreatePending
    <2>1. native \in [Grant -> NativeRow] /\ request[v].grant \in Grant
      BY <1>1 DEF Inv, Types, Entitled
    <2>2. native[request[v].grant].status = "active"
      BY <1>1 DEF Entitled
    <2>3. native'[request[v].grant] = native[request[v].grant]
      BY <1>6, <2>1, <2>2 DEF CreatePending, Admin, Unused
    <2> QED
      BY <1>6, <2>3 DEF CreatePending, Admin, Undisturbed
  <1>7. CASE ReadUnknown \/ SetLegacyGrant \/ Tick
    BY <1>3, <1>7 DEF ReadUnknown, SetLegacyGrant, Tick, Admin, rest
  <1>8. CASE UNCHANGED vars
    BY <1>3, <1>8 DEF vars, rest
  <1> QED
    BY <1>4, <1>5, <1>6, <1>7, <1>8 DEF Next

-----------------------------------------------------------------------------
(* The requests.                                                           *)

\* What a request has found stands after any step.
LEMMA StillFits ==
  ASSUME Inv, [Next]_vars, NEW v \in Worker, NEW r, r = request[v] PROVE Fits(r)'
  <1>1. Fits(r) /\ r \in Request
    BY RequestFacts
  <1>2. clock' \in Nat /\ clock <= clock' /\ mode' = mode /\ clock \in Nat
    BY GlobalsKept, TheRow, TimeAssumption DEF Globals, Inv, Types
  <1>3. r.at # "idle" => r.now <= clock'
    <2>1. r.at # "idle" => r.now \in Nat
      BY <1>1 DEF Request, Idle, Authorizing, Handling
    <2> QED
      BY <1>1, <1>2, <2>1 DEF Fits
  <1>4. CASE r.at \in {"started"} \cup Past
    <2>1. r.txn \in Txn
      BY <1>4, RequestFacts DEF Handling
    <2>2. PICK t \in Txn : t = r.txn
      BY <2>1
    <2>3. Moved(txn[t], txn'[t])
      BY AllOnward DEF Onward
    <2>4. txn'[t].status # "none" /\ txn'[t].created_at <= r.now
      BY <1>1, <1>4, <2>2, <2>3 DEF Fits, Moved
    <2>5. r.at \in Past => txn'[t].claimed_at # Null
      BY <1>1, <2>2, <2>3 DEF Fits, Moved
    <2>6. r.at \in {"checked", "evaluated"} => txn'[t].claimed_at <= r.now
      BY <1>1, <2>2, <2>3 DEF Fits, Moved, Past
    <2>7. r.at = "evaluated" /\ mode = "native" => Entitled(r)'
      <3> SUFFICES ASSUME r.at = "evaluated", mode = "native" PROVE Entitled(r)'
        OBVIOUS
      <3>1. Entitled(r)
        BY <1>1 DEF Fits
      <3>2. Undisturbed(r.grant)
        BY LocksHold
      <3> QED
        BY <3>1, <3>2 DEF Entitled, Undisturbed, Elapsed
    <2> QED
      BY <1>2, <1>3, <2>2, <2>4, <2>5, <2>6, <2>7 DEF Fits
  <1>5. CASE r.at \notin {"started"} \cup Past
    BY <1>3, <1>5 DEF Fits, Past
  <1> QED
    BY <1>4, <1>5

\* A request that goes on with the times and the transaction it has.
LEMMA Follows ==
  ASSUME NEW r \in Handling, NEW new \in Handling, new.now = r.now, new.txn = r.txn,
         r.at \in Past, new.at \in Past \ {"checked", "evaluated"}, Fits(r)'
  PROVE  Fits(new)'
  BY DEF Fits, Past

LEMMA WorkerStep ==
  ASSUME Inv, [Next]_vars, NEW w \in Worker, NEW new \in Request,
         request' = [request EXCEPT ![w] = new], Fits(new)',
         \A v \in Worker \ {w} : Apart(request[v], new)
  PROVE  request' \in [Worker -> Request] /\ Working'
  <1>1. request \in [Worker -> Request] /\ Working
    BY DEF Inv, Types
  <1>2. request' \in [Worker -> Request]
    BY <1>1
  <1>3. request'[w] = new /\ \A v \in Worker : v # w => request'[v] = request[v]
    BY <1>1
  <1>4. ASSUME NEW v \in Worker PROVE Fits(request[v])'
    <2>1. CASE v = w
      BY <1>3, <2>1
    <2>2. CASE v # w
      <3>1. PICK r : r = request[v]
        OBVIOUS
      <3>2. Fits(r)'
        BY <3>1, StillFits
      <3>3. request'[v] = r
        BY <1>3, <2>2, <3>1
      <3> QED
        BY <3>2, <3>3
    <2> QED
      BY <2>1, <2>2
  <1>5. mode' = mode
    BY GlobalsKept DEF Globals
  <1>6. ASSUME NEW u \in Worker, NEW v \in Worker, u # v
        PROVE  Apart(request[u], request[v])'
    <2>1. CASE u # w /\ v # w
      BY <1>1, <1>3, <1>5, <1>6, <2>1 DEF Apart, Working
    <2>2. CASE u = w
      BY <1>3, <1>5, <1>6, <2>2 DEF Apart
    <2>3. CASE v = w
      BY <1>3, <1>5, <1>6, <2>3 DEF Apart
    <2> QED
      BY <2>1, <2>2, <2>3
  <1> QED
    BY <1>2, <1>4, <1>6 DEF Working

LEMMA NoWorkerStep ==
  ASSUME Inv, [Next]_vars, UNCHANGED request PROVE request' \in [Worker -> Request] /\ Working'
  <1>1. request \in [Worker -> Request] /\ Working /\ mode' = mode
    BY GlobalsKept DEF Inv, Types, Globals
  <1>2. ASSUME NEW v \in Worker PROVE Fits(request[v])'
    <2>1. PICK r : r = request[v]
      OBVIOUS
    <2>2. Fits(r)'
      BY <2>1, StillFits
    <2> QED
      BY <2>1, <2>2
  <1> QED
    BY <1>1, <1>2 DEF Working, Apart

\* The requests are sound after a step, one step of a request at a time.
Workers == request' \in [Worker -> Request] /\ Working'

LEMMA BecomesIdle ==
  ASSUME Inv, [Next]_vars, NEW w \in Worker, request' = [request EXCEPT ![w] = Idle]
  PROVE  Workers
  <1>1. PICK new \in Request : new = Idle
    BY DEF Request
  <1>2. new.at = "idle"
    BY <1>1 DEF Idle
  <1>3. Fits(new)'
    BY <1>2 DEF Fits, Past
  <1>4. \A v \in Worker \ {w} : Apart(request[v], new)
    BY <1>2 DEF Apart
  <1> QED
    BY <1>1, <1>3, <1>4, WorkerStep DEF Workers

LEMMA AuthorizeWorkers ==
  ASSUME Inv, [Next]_vars, NEW w \in Worker, Authorize(w) PROVE Workers
  <1>0. clock \in Nat
    BY TimeAssumption DEF Inv, Types
  <1>1. PICK new \in Authorizing : new = [at |-> "authorizing", now |-> clock]
    BY <1>0 DEF Authorizing
  <1>2. request' = [request EXCEPT ![w] = new] /\ clock' = clock /\ clock \in Nat
    BY <1>0, <1>1 DEF Authorize, Become
  <1>3. new.at = "authorizing" /\ new.now = clock /\ new \in Request
    BY <1>1 DEF Request
  <1>4. Fits(new)'
    BY <1>2, <1>3 DEF Fits, Past
  <1>5. \A v \in Worker \ {w} : Apart(request[v], new)
    BY <1>3 DEF Apart
  <1> QED
    BY <1>2, <1>3, <1>4, <1>5, WorkerStep DEF Workers

LEMMA CallbackWorkers ==
  ASSUME Inv, [Next]_vars, NEW w \in Worker, Callback(w) PROVE Workers
  <1>1. clock \in Nat /\ UNCHANGED <<clock, txn>>
    BY TimeAssumption DEF Callback, Inv, Types
  <1>2. PICK t \in Txn : /\ txn[t].status # "none"
                         /\ request' = [request EXCEPT ![w] =
                              [at |-> "started", txn |-> t, now |-> clock, dead |-> {},
                               grant |-> Null]]
    BY DEF Callback, Become
  <1>3. PICK new \in Handling : new = [at |-> "started", txn |-> t, now |-> clock, dead |-> {},
                                       grant |-> Null]
    BY <1>1 DEF Handling
  <1>4. new.at = "started" /\ new.now = clock /\ new.txn = t /\ new \in Request
    BY <1>3 DEF Request
  <1>5. txn[t].created_at <= clock
    BY <1>1, <1>2, TheRow DEF Sound
  <1>6. Fits(new)'
    BY <1>1, <1>2, <1>4, <1>5 DEF Fits, Past
  <1>7. \A v \in Worker \ {w} : Apart(request[v], new)
    BY <1>4 DEF Apart
  <1> QED
    BY <1>2, <1>3, <1>4, <1>6, <1>7, WorkerStep DEF Workers

\* A request that goes on from r to new, with what r has.
LEMMA GoesOn ==
  ASSUME Inv, [Next]_vars, NEW w \in Worker, NEW at, request[w].at \in Past,
         at \in Past \ {"checked", "evaluated"},
         NEW new \in Handling, new.now = request[w].now, new.txn = request[w].txn, new.at = at,
         request' = [request EXCEPT ![w] = new],
         at = "linking" => Unshared
  PROVE  Workers
  <1>1. PICK r \in Handling : r = request[w]
    BY RequestFacts
  <1>2. Fits(r)'
    BY <1>1, StillFits
  <1>3. Fits(new)'
    BY <1>1, <1>2, Follows
  <1>4. \A v \in Worker \ {w} : Apart(request[v], new)
    BY DEF Apart, Unshared
  <1>5. new \in Request
    BY DEF Request
  <1> QED
    BY <1>3, <1>4, <1>5, WorkerStep DEF Workers

LEMMA MovesOn ==
  ASSUME Inv, [Next]_vars, NEW w \in Worker, request[w].at \in Past,
         NEW at, at \in {"identified", "refused"}, Move(w, at)
  PROVE  Workers
  <1>1. PICK r \in Handling : r = request[w]
    BY RequestFacts
  <1>2. PICK new : new = [r EXCEPT !.at = at]
    OBVIOUS
  <1>3. new \in Handling /\ new.now = r.now /\ new.txn = r.txn /\ new.at = at
    BY <1>2 DEF Handling, Past
  <1>4. request' = [request EXCEPT ![w] = new]
    BY <1>1, <1>2 DEF Move, Become
  <1>5. at \in Past \ {"checked", "evaluated"} /\ at # "linking"
    BY DEF Past
  <1> QED
    BY <1>1, <1>3, <1>4, <1>5, GoesOn

LEMMA IdentifyWorkers ==
  ASSUME Inv, [Next]_vars, NEW w \in Worker, Identify(w) PROVE Workers
  <1>1. request[w].at = "claimed" /\ Unshared
    BY DEF Identify, At
  <1>2. PICK r \in Handling : r = request[w]
    BY <1>1, RequestFacts DEF Past
  <1>3. PICK dead \in SUBSET Grant :
          dead = IF With("active") # {} THEN With("pending_user_link") ELSE {}
    BY DEF With
  <1>4. PICK new : new = [r EXCEPT !.at = "linking", !.dead = dead]
    OBVIOUS
  <1>5. new \in Handling /\ new.now = r.now /\ new.txn = r.txn /\ new.at = "linking"
    BY <1>4 DEF Handling, Past
  <1>6. request' = [request EXCEPT ![w] = new]
    BY <1>2, <1>3, <1>4 DEF Identify, Become
  <1>7. "linking" \in Past \ {"checked", "evaluated"} /\ request[w].at \in Past
    BY <1>1 DEF Past
  <1> QED
    BY <1>1, <1>2, <1>5, <1>6, <1>7, GoesOn

LEMMA ClaimWorkers ==
  ASSUME Inv, [Next]_vars, NEW w \in Worker, Claim(w) PROVE Workers
  <1>1. request[w].at = "started" /\ clock' = clock
    BY DEF Claim, At
  <1>2. PICK r \in Handling : r = request[w]
    BY <1>1, RequestFacts
  <1>3. PICK at \in Nat, t \in Txn : at = r.now /\ t = r.txn /\ at \in 0..clock
    BY <1>1, <1>2, Brings
  <1>4. CASE request' = [request EXCEPT ![w] = Idle]
    BY <1>4, BecomesIdle
  <1>5. ASSUME NEW S \in SUBSET Stale(at),
               txn' = [Sweep(S, at) EXCEPT ![t].status = "claimed", ![t].claimed_at = at],
               Move(w, "claimed")
        PROVE  Workers
    <2>1. PICK new : new = [r EXCEPT !.at = "claimed"]
      OBVIOUS
    <2>2. new \in Handling /\ new.now = r.now /\ new.txn = r.txn /\ new.at = "claimed"
      BY <2>1 DEF Handling, Past
    <2>3. request' = [request EXCEPT ![w] = new]
      BY <1>2, <1>5, <2>1 DEF Move, Become
    <2>4. Sweep(S, at) = [v \in Txn |-> Sweep(S, at)[v]]
      BY DEF Sweep
    <2>5. PICK row \in TxnRow : row = Sweep(S, at)[t]
      BY <1>3, SweepRows
    <2>6. txn'[t] = [row EXCEPT !.status = "claimed", !.claimed_at = at]
      BY <1>5, <2>4, <2>5
    <2>7. txn'[t].claimed_at = at /\ txn'[t].claimed_at # Null
      BY <2>6 DEF TxnRow, Null
    <2>8. txn'[t].status # "none" /\ txn'[t].created_at <= at
      <3>1. Fits(r)'
        BY <1>2, StillFits
      <3> QED
        BY <1>1, <1>2, <1>3, <3>1 DEF Fits
    <2>9. Fits(new)'
      BY <1>1, <1>3, <2>2, <2>7, <2>8 DEF Fits, Past
    <2>10. \A v \in Worker \ {w} : Apart(request[v], new)
      BY <2>2 DEF Apart
    <2>11. new \in Request
      BY <2>2 DEF Request
    <2> QED
      BY <2>3, <2>9, <2>10, <2>11, WorkerStep DEF Workers
  <1> QED
    BY <1>2, <1>3, <1>4, <1>5 DEF Claim, Answer, Become

LEMMA CheckWorkers ==
  ASSUME Inv, [Next]_vars, NEW w \in Worker, Check(w) PROVE Workers
  <1>1. request[w].at = "identified" /\ UNCHANGED <<clock, txn>> /\ clock \in Nat
    BY TimeAssumption DEF Check, At, Inv, Types
  <1>2. PICK r \in Handling : r = request[w]
    BY <1>1, RequestFacts DEF Past
  <1>3. PICK t \in Txn, now \in Nat : t = r.txn /\ now = clock
    BY <1>1 DEF Handling
  <1>4. PICK new : new = [r EXCEPT !.at = "checked", !.now = now]
    OBVIOUS
  <1>5. new \in Handling /\ new.now = now /\ new.txn = t /\ new.at = "checked"
    BY <1>3, <1>4 DEF Handling, Past
  <1>6. request' = [request EXCEPT ![w] = new]
    BY <1>2, <1>3, <1>4 DEF Check, Become
  <1>7. txn[t].status # "none" /\ txn[t].claimed_at # Null
    BY <1>1, <1>2, <1>3, RequestFacts DEF Fits, Past
  <1>8. txn[t].created_at <= now /\ txn[t].claimed_at <= now
    BY <1>3, <1>7, TheRow DEF Sound
  <1>9. Fits(new)'
    BY <1>1, <1>3, <1>5, <1>7, <1>8 DEF Fits, Past
  <1>10. \A v \in Worker \ {w} : Apart(request[v], new)
    BY <1>5 DEF Apart
  <1>11. new \in Request
    BY <1>5 DEF Request
  <1> QED
    BY <1>6, <1>9, <1>10, <1>11, WorkerStep DEF Workers

LEMMA EvaluateWorkers ==
  ASSUME Inv, [Next]_vars, NEW w \in Worker, Evaluate(w) PROVE Workers
  <1>1. request[w].at = "checked" /\ UNCHANGED <<clock, txn, mode, user, registered, native>>
    BY DEF Evaluate, At, rest
  <1>2. PICK r \in Handling : r = request[w]
    BY <1>1, RequestFacts DEF Past
  <1>3. /\ r.now \in Nat /\ r.now <= clock /\ clock \in Nat /\ r.grant \in Grant \cup {Null}
        /\ r.txn \in Txn
    BY <1>1, <1>2, Brings, TheRow DEF Past
  <1>4. PICK grant \in Grant \cup {Null} :
          /\ request' = [request EXCEPT ![w] = [r EXCEPT !.at = "evaluated", !.grant = grant]]
          /\ mode = "native" => /\ UserUnlocked /\ user = "active" /\ registered
                                /\ grant \in With("active") /\ ~Elapsed(grant, clock)
    <2>1. CASE mode = "native"
      BY <1>2, <2>1 DEF Evaluate, Become, With
    <2>2. CASE mode # "native"
      <3>1. [r EXCEPT !.at = "evaluated"] = [r EXCEPT !.at = "evaluated", !.grant = r.grant]
        BY DEF Handling
      <3> QED
        BY <1>2, <1>3, <2>2, <3>1 DEF Evaluate, Move, Become
    <2> QED
      BY <2>1, <2>2
  <1>5. PICK new : new = [r EXCEPT !.at = "evaluated", !.grant = grant]
    OBVIOUS
  <1>6. /\ new \in Handling /\ new.now = r.now /\ new.txn = r.txn /\ new.at = "evaluated"
        /\ new.grant = grant
    BY <1>5 DEF Handling, Past
  <1>7. mode = "native" => Entitled(new)
    <2> SUFFICES ASSUME mode = "native" PROVE Entitled(new)
      OBVIOUS
    <2>1. grant \in Grant /\ native[grant].status = "active" /\ native[grant].linked
      BY <1>4 DEF With, Inv, NativeSound
    <2>2. ~Elapsed(grant, r.now)
      <3>1. PICK row \in NativeRow : row = native[grant]
        BY <2>1 DEF Inv, Types
      <3>2. row.valid_until \in Int
        BY <3>1 DEF NativeRow, Time, Null
      <3> QED
        BY <1>3, <1>4, <3>1, <3>2 DEF Elapsed
    <2> QED
      BY <1>4, <1>6, <2>1, <2>2 DEF Entitled
  <1>8. Fits(r) /\ r.at = "checked"
    BY <1>1, <1>2, RequestFacts
  <1>9. Fits(new)
    BY <1>3, <1>6, <1>7, <1>8 DEF Fits, Past
  <1>10. Fits(new)'
    BY <1>1, <1>9 DEF Fits, Entitled, Elapsed
  <1>11. \A v \in Worker \ {w} : Apart(request[v], new)
    BY <1>4, <1>6 DEF Apart, UserUnlocked
  <1>12. new \in Request
    BY <1>6 DEF Request
  <1> QED
    BY <1>4, <1>5, <1>10, <1>11, <1>12, WorkerStep DEF Workers

LEMMA AllWorkers == ASSUME Inv, [Next]_vars PROVE Workers
  <1>1. CASE UNCHANGED request
    BY <1>1, NoWorkerStep DEF Workers
  <1>2. ASSUME NEW w \in Worker, Step(w) PROVE Workers
    <2>1. CASE Authorize(w) \/ Callback(w) \/ Claim(w)
      BY <2>1, AuthorizeWorkers, CallbackWorkers, ClaimWorkers
    <2>2. CASE Identify(w) \/ Check(w) \/ Evaluate(w)
      BY <2>2, IdentifyWorkers, CheckWorkers, EvaluateWorkers
    <2>3. CASE CreateTransaction(w) \/ Deny(w) \/ Crash(w)
      BY <2>3, BecomesIdle DEF CreateTransaction, Deny, Crash, Answer, Become
    <2>4. CASE Refuse(w)
      <3>1. request[w].at \in Past /\ Move(w, "refused")
        BY <2>4 DEF Refuse, Past
      <3> QED
        BY <3>1, MovesOn
    <2>5. CASE Link(w)
      <3>1. request[w].at \in Past /\ (Move(w, "refused") \/ Move(w, "identified"))
        BY <2>5 DEF Link, At, Past
      <3> QED
        BY <3>1, MovesOn
    <2>6. CASE Issue(w)
      <3>1. /\ request[w].at \in Past
            /\ Move(w, "refused") \/ request' = [request EXCEPT ![w] = Idle]
        BY <2>6 DEF Issue, At, Past, Answer, Become
      <3> QED
        BY <3>1, MovesOn, BecomesIdle
    <2> QED
      BY <1>2, <2>1, <2>2, <2>3, <2>4, <2>5, <2>6 DEF Step
  <1>3. CASE OtherLogin \/ CreateGrant \/ ReadUnknown \/ CreatePending \/ RevokeGrant
    BY <1>1, <1>3 DEF OtherLogin, CreateGrant, ReadUnknown, CreatePending, RevokeGrant, Admin
  <1>4. CASE SetUser \/ SetRegistration \/ SetLegacyGrant \/ Tick
    BY <1>1, <1>4 DEF SetUser, SetRegistration, SetLegacyGrant, Tick
  <1>5. CASE UNCHANGED vars
    BY <1>1, <1>5 DEF vars
  <1> QED
    BY <1>2, <1>3, <1>4, <1>5 DEF Next

-----------------------------------------------------------------------------
(* The invariant.                                                          *)

LEMMA RowsStay ==
  ASSUME Inv, [Next]_vars
  PROVE  /\ txn' = [t \in Txn |-> txn'[t]] /\ code' = [t \in Txn |-> code'[t]]
         /\ told' = [t \in Txn |-> told'[t]]
  <1>1. /\ txn = [t \in Txn |-> txn[t]] /\ code = [t \in Txn |-> code[t]]
        /\ told = [t \in Txn |-> told[t]]
    BY DEF Inv, Types
  <1>2. CASE UNCHANGED <<txn, code, told>>
    BY <1>1, <1>2
  <1>3. ASSUME NEW at, NEW S PROVE Sweep(S, at) = [t \in Txn |-> Sweep(S, at)[t]]
    BY DEF Sweep
  <1>4. ASSUME NEW w \in Worker, CreateTransaction(w)
        PROVE  UNCHANGED <<code, told>> /\ txn' = [t \in Txn |-> txn'[t]]
    BY <1>3, <1>4 DEF CreateTransaction
  <1>5. ASSUME NEW w \in Worker, Claim(w)
        PROVE  /\ UNCHANGED code /\ txn' = [t \in Txn |-> txn'[t]]
               /\ told' = [t \in Txn |-> told'[t]]
    BY <1>1, <1>3, <1>5 DEF Claim, Answer
  <1>6. ASSUME NEW w \in Worker, Deny(w)
        PROVE  /\ UNCHANGED code /\ txn' = [t \in Txn |-> txn'[t]]
               /\ told' = [t \in Txn |-> told'[t]]
    BY <1>1, <1>6 DEF Deny, Answer
  <1>7. ASSUME NEW w \in Worker, Issue(w)
        PROVE  /\ txn' = [t \in Txn |-> txn'[t]] /\ code' = [t \in Txn |-> code'[t]]
               /\ told' = [t \in Txn |-> told'[t]]
    BY <1>1, <1>7 DEF Issue, Answer
  <1>8. ASSUME NEW w \in Worker, Step(w)
        PROVE  \/ UNCHANGED <<txn, code, told>>
               \/ CreateTransaction(w) \/ Claim(w) \/ Deny(w) \/ Issue(w)
    BY <1>8 DEF Step, Authorize, Callback, Refuse, Identify, Link, Check, Evaluate, Crash
  <1>9. CASE OtherLogin \/ CreateGrant \/ ReadUnknown \/ CreatePending \/ RevokeGrant
    BY <1>2, <1>9 DEF OtherLogin, CreateGrant, ReadUnknown, CreatePending, RevokeGrant, Admin
  <1>10. CASE SetUser \/ SetRegistration \/ SetLegacyGrant \/ Tick
    BY <1>2, <1>10 DEF SetUser, SetRegistration, SetLegacyGrant, Tick
  <1>11. CASE UNCHANGED vars
    BY <1>2, <1>11 DEF vars
  <1> QED
    BY <1>1, <1>2, <1>4, <1>5, <1>6, <1>7, <1>8, <1>9, <1>10, <1>11 DEF Next

LEMMA InitInv == Init => Inv
  <1> SUFFICES ASSUME Init PROVE Inv
    OBVIOUS
  <1>1. NoTxn \in TxnRow /\ NoTxn.status = "none" /\ NoTxn.claimed_at = Null /\ NoTxn.completed_at = Null
    BY DEF NoTxn, TxnRow, Terminal, Time
  <1>2. NoCode \in CodeRow /\ NoCode.issued_at = Null
    BY DEF NoCode, CodeRow, Time
  <1>3. NoNative \in NativeRow /\ NoNative.status = "none"
    BY DEF NoNative, NativeRow, Time
  <1>4. Idle \in Request /\ Idle.at = "idle"
    BY DEF Request, Idle
  <1>5. Types
    <2>1. clock \in 0..MaxTime /\ mode \in {"legacy_bridge", "native"}
          /\ user \in {"none", "active", "disabled"}
      BY TimeAssumption DEF Init
    <2>2. native \in [Grant -> NativeRow] /\ txn \in [Txn -> TxnRow]
      BY <1>1, <1>3 DEF Init
    <2>3. code \in [Txn -> CodeRow]
      BY <1>2 DEF Init
    <2>4. told \in [Txn -> SUBSET Heard]
      BY DEF Init
    <2>5. request \in [Worker -> Request]
      BY <1>4 DEF Init
    <2> QED
      BY <2>1, <2>2, <2>3, <2>4, <2>5 DEF Types
  <1>6. NativeSound
    BY <1>3 DEF Init, NativeSound
  <1>7. TxnsSound
    BY <1>1, <1>2 DEF Init, TxnsSound, Sound
  <1>8. Working
    BY <1>4 DEF Init, Working, Fits, Apart, Past
  <1> QED
    BY <1>5, <1>6, <1>7, <1>8 DEF Inv

LEMMA NextInv == Inv /\ [Next]_vars => Inv'
  <1> SUFFICES ASSUME Inv, [Next]_vars PROVE Inv'
    OBVIOUS
  <1>1. \A t \in Txn : Onward(t)
    BY AllOnward
  <1>2. txn' \in [Txn -> TxnRow]
    BY <1>1, RowsStay DEF Onward
  <1>3. code' \in [Txn -> CodeRow]
    BY <1>1, RowsStay DEF Onward
  <1>4. told' \in [Txn -> SUBSET Heard]
    BY <1>1, RowsStay DEF Onward
  <1>5. TxnsSound'
    BY <1>1 DEF Onward, TxnsSound
  <1>6. Globals /\ Workers
    BY GlobalsKept, AllWorkers
  <1>7. Types'
    BY <1>2, <1>3, <1>4, <1>6 DEF Types, Globals, Workers, Inv
  <1> QED
    BY <1>5, <1>6, <1>7 DEF Inv, Globals, Workers

THEOREM InvHolds == Spec => []Inv
  BY InitInv, NextInv, PTL DEF Spec

-----------------------------------------------------------------------------
(* What follows.                                                           *)

LEMMA AtMostOne ==
  ASSUME NativeSound, NEW status \in {"active", "pending_user_link"}
  PROVE  Cardinality(With(status)) <= 1
  <1>1. CASE With(status) = {}
    BY <1>1, FS_EmptySet
  <1>2. CASE With(status) # {}
    <2>1. PICK g \in Grant : native[g].status = status
      BY <1>2 DEF With
    <2>2. \A h \in Grant : native[h].status = status => h = g
      BY <2>1 DEF NativeSound
    <2>3. With(status) = {g}
      BY <2>1, <2>2 DEF With
    <2>4. Cardinality({g}) = 1
      BY FS_Singleton, Zenon
    <2> QED
      BY <2>3, <2>4
  <1> QED
    BY <1>1, <1>2

\* Rows hold what their columns may, pending grants have no user and active
\* ones have one, and there is never more than one of each (the unique indexes
\* of migrations/006, which Link and the administrators write under).
THEOREM TypesHold == Spec => []TypeOK
  <1>1. Inv => TypeOK
    <2> SUFFICES ASSUME Inv PROVE TypeOK
      OBVIOUS
    <2>1. \A t \in Txn : txn[t].status \in {"none", "pending", "claimed"} \cup Terminal
      BY DEF Inv, Types, TxnRow
    <2>2. \A g \in Grant : native[g].status \in {"none", "pending_user_link", "active", "revoked", "expired"}
      BY DEF Inv, Types, NativeRow
    <2>3. Cardinality(With("active")) <= 1 /\ Cardinality(With("pending_user_link")) <= 1
      BY AtMostOne DEF Inv
    <2> QED
      BY <2>1, <2>2, <2>3 DEF Inv, Types, NativeSound, TypeOK
  <1> QED
    BY <1>1, InvHolds, PTL

\* Whichever callbacks come back with one state and whatever fails on the way,
\* a browser told of a code or of a denial was told what the row says
\* (completeAuthorization and denyClaimed of src/oauth/authorization.ts).
THEOREM AnswersAreTrue == Spec => []ToldTheTruth
  <1>1. Inv => ToldTheTruth
    BY DEF Inv, TxnsSound, Sound, ToldTheTruth
  <1> QED
    BY <1>1, InvHolds, PTL

\* A transaction's times are in order, and no code is issued at or after its
\* deadline, although a claim, a sweep and an issue each write a time that was
\* read before they had the row (the CHECKs of migrations/004).
THEOREM TimesAreInOrder == Spec => []TimesInOrder
  <1>1. Inv => TimesInOrder
    BY DEF Inv, TxnsSound, Sound, TimesInOrder
  <1> QED
    BY <1>1, InvHolds, PTL

\* A transaction that is completed, denied or expired stays as it is, and has a
\* code if it was completed and only then (the WHERE clauses of
\* claimAuthorizationTransaction, denyClaimedTransaction,
\* issueAuthorizationCode and of the sweep).
THEOREM TransactionsEndOnce == Spec => EndsOnce
  <1>1. ASSUME Inv, [Next]_vars, NEW t \in Txn
        PROVE  /\ txn[t].status \in Terminal => txn'[t] = txn[t]
               /\ code[t] # NoCode => code'[t] = code[t]
               /\ code'[t] # NoCode <=> txn'[t].status = "completed"
    <2>1. Onward(t)
      BY <1>1, AllOnward
    <2>2. NoCode.issued_at = Null
      BY DEF NoCode
    <2>3. code'[t] # NoCode <=> txn'[t].status = "completed"
      BY <2>1, <2>2 DEF Onward, Sound
    <2> QED
      BY <2>1, <2>3 DEF Onward, Moved
  <1>2. ASSUME Inv, [Next]_vars
        PROVE  [\A t \in Txn : /\ txn[t].status \in Terminal => txn'[t] = txn[t]
                               /\ code[t] # NoCode => code'[t] = code[t]
                               /\ code'[t] # NoCode <=> txn'[t].status = "completed"]_vars
    BY <1>1, <1>2
  <1> QED
    BY <1>2, InvHolds, PTL DEF Spec, EndsOnce

\* The step that stores a code under native entitlement finds the grant it names
\* still active and unelapsed, the user active and the registration intact: the
\* FOR SHARE locks of evaluateNativeEntitlement are held until the COMMIT.
THEOREM CodesAreEntitled == Spec => NativeCodeIsEntitled
  <1>1. ASSUME Inv, [Next]_vars, NEW t \in Txn, mode = "native", code'[t] # code[t]
        PROVE  LET g == code'[t].grant
               IN  /\ native[g].status = "active" /\ native[g].linked
                   /\ ~Elapsed(g, code'[t].issued_at)
                   /\ user = "active"
                   /\ registered
    <2>1. \E w \in Worker : Issue(w)
      <3>1. ASSUME NEW w \in Worker, Step(w) PROVE Issue(w)
        BY <1>1, <3>1 DEF Step, Authorize, CreateTransaction, Callback, Claim, Refuse, Deny,
           Identify, Link, Check, Evaluate, Crash
      <3>2. ~(OtherLogin \/ CreateGrant \/ ReadUnknown \/ CreatePending \/ RevokeGrant)
        BY <1>1 DEF OtherLogin, CreateGrant, ReadUnknown, CreatePending, RevokeGrant, Admin
      <3>3. ~(SetUser \/ SetRegistration \/ SetLegacyGrant \/ Tick \/ UNCHANGED vars)
        BY <1>1 DEF SetUser, SetRegistration, SetLegacyGrant, Tick, vars
      <3> QED
        BY <1>1, <3>1, <3>2, <3>3 DEF Next
    <2>2. PICK w \in Worker : Issue(w)
      BY <2>1
    <2>3. request[w].at = "evaluated" /\ Fits(request[w])
      BY <1>1, <2>2, RequestFacts DEF Issue, At
    <2>4. Entitled(request[w])
      BY <1>1, <2>3 DEF Fits
    <2>5. code \in [Txn -> CodeRow]
      BY <1>1 DEF Inv, Types
    <2>6. code'[t].grant = request[w].grant /\ code'[t].issued_at = request[w].now
      BY <1>1, <2>2, <2>5 DEF Issue
    <2> QED
      BY <2>4, <2>6 DEF Entitled
  <1>2. ASSUME Inv, [Next]_vars
        PROVE  [\A t \in Txn : mode = "native" /\ code'[t] # code[t] =>
                  LET g == code'[t].grant
                  IN  /\ native[g].status = "active" /\ native[g].linked
                      /\ ~Elapsed(g, code'[t].issued_at)
                      /\ user = "active"
                      /\ registered]_vars
    BY <1>1, <1>2
  <1> QED
    BY <1>2, InvHolds, PTL DEF Spec, NativeCodeIsEntitled
-----------------------------------------------------------------------------
(* Transactions as one-time tickets.                                       *)

\* One callback at most is past the claim of a transaction.
Alone == \A v, w \in Worker : /\ v # w
                              /\ request[v].at \in Past /\ request[w].at \in Past
                              => request[v].txn # request[w].txn

\* The request of w changes: it is past a claim only if it was before, or if
\* this step claims the transaction.
Goes(w) == \E r : /\ request' = [request EXCEPT ![w] = r]
                  /\ r.at \in Past =>
                        \/ request[w].at \in Past /\ r.txn = request[w].txn
                        \/ /\ r.txn \in Txn
                           /\ txn[r.txn].status = "pending" /\ txn'[r.txn].status = "claimed"

LEMMA ClaimTakes ==
  ASSUME Inv, NEW w \in Worker, Claim(w), request'[w] # Idle
  PROVE  /\ request[w] \in Handling
         /\ request' = [request EXCEPT ![w] = [request[w] EXCEPT !.at = "claimed"]]
         /\ txn[request[w].txn].status = "pending" /\ txn'[request[w].txn].status = "claimed"
         /\ UNCHANGED code
  <1>1. request[w].at = "started" /\ UNCHANGED code
    BY DEF Claim, At
  <1>2. request[w] \in Handling /\ request \in [Worker -> Request]
    BY <1>1, RequestFacts DEF Inv, Types
  <1>3. PICK at \in 0..clock, u \in Txn : at = request[w].now /\ u = request[w].txn
    BY <1>1, Brings
  <1>4. PICK S \in SUBSET Stale(at) :
          /\ Claimable(Sweep(S, at)[u], at)
          /\ txn' = [Sweep(S, at) EXCEPT ![u].status = "claimed", ![u].claimed_at = at]
          /\ Move(w, "claimed")
    BY <1>2, <1>3 DEF Claim, Answer, Become
  <1>5. PICK row \in TxnRow : row = Sweep(S, at)[u]
    BY <1>3, SweepRows
  <1>6. row.status = "pending" /\ row = txn[u]
    BY <1>3, <1>4, <1>5, SweepRows DEF Claimable
  <1>7. Sweep(S, at) = [v \in Txn |-> Sweep(S, at)[v]]
    BY DEF Sweep
  <1>8. txn'[u] = [row EXCEPT !.status = "claimed", !.claimed_at = at]
    BY <1>4, <1>5, <1>7
  <1>9. txn'[u].status = "claimed"
    BY <1>8 DEF TxnRow
  <1> QED
    BY <1>1, <1>2, <1>3, <1>4, <1>6, <1>9 DEF Move, Become

LEMMA WorkersGo ==
  ASSUME Inv, [Next]_vars PROVE UNCHANGED request \/ \E w \in Worker : Goes(w)
  <1>1. ASSUME NEW w \in Worker, request' = [request EXCEPT ![w] = Idle] PROVE Goes(w)
    <2>1. Idle.at \notin Past
      BY DEF Idle, Past
    <2> QED
      BY <1>1, <2>1 DEF Goes
  <1>2. ASSUME NEW w \in Worker, request[w].at \in Past, NEW at \in Past, Move(w, at)
        PROVE  Goes(w)
    <2>1. PICK r \in Handling : r = request[w]
      BY <1>2, RequestFacts
    <2>2. PICK new : new = [r EXCEPT !.at = at]
      OBVIOUS
    <2>3. new.txn = r.txn /\ request' = [request EXCEPT ![w] = new]
      BY <1>2, <2>1, <2>2 DEF Handling, Move, Become
    <2> QED
      BY <1>2, <2>1, <2>3 DEF Goes
  <1>3. ASSUME NEW w \in Worker, Step(w) PROVE Goes(w)
    <2>1. CASE Authorize(w) \/ Callback(w)
      <3>1. ASSUME NEW r, request' = [request EXCEPT ![w] = r], r.at \in {"authorizing", "started"}
            PROVE  Goes(w)
        BY <3>1 DEF Goes, Past
      <3>2. CASE Authorize(w)
        BY <3>1, <3>2 DEF Authorize, Become
      <3>3. CASE Callback(w)
        BY <3>1, <3>3 DEF Callback, Become
      <3> QED
        BY <2>1, <3>2, <3>3
    <2>2. CASE CreateTransaction(w) \/ Deny(w) \/ Crash(w)
      BY <1>1, <2>2 DEF CreateTransaction, Deny, Crash, Answer, Become
    <2>3. CASE Claim(w)
      <3>1. CASE request'[w] = Idle
        <4>1. request \in [Worker -> Request]
          BY DEF Inv, Types
        <4>2. \E r : request' = [request EXCEPT ![w] = r]
          BY <2>3 DEF Claim, Answer, Move, Become
        <4> QED
          BY <1>1, <3>1, <4>1, <4>2
      <3>2. CASE request'[w] # Idle
        <4>1. PICK r \in Handling : r = request[w]
          BY <2>3, <3>2, ClaimTakes
        <4>2. PICK new : new = [r EXCEPT !.at = "claimed"]
          OBVIOUS
        <4>3. new.txn = r.txn /\ r.txn \in Txn /\ request' = [request EXCEPT ![w] = new]
          BY <2>3, <3>2, <4>1, <4>2, ClaimTakes DEF Handling
        <4>4. txn[r.txn].status = "pending" /\ txn'[r.txn].status = "claimed"
          BY <2>3, <3>2, <4>1, ClaimTakes
        <4> QED
          BY <4>3, <4>4 DEF Goes
      <3> QED
        BY <3>1, <3>2
    <2>4. CASE Refuse(w)
      BY <1>2, <2>4 DEF Refuse, Past
    <2>5. CASE Link(w)
      BY <1>2, <2>5 DEF Link, At, Past
    <2>6. CASE Issue(w)
      <3>1. /\ request[w].at \in Past /\ "refused" \in Past
            /\ Move(w, "refused") \/ request' = [request EXCEPT ![w] = Idle]
        BY <2>6 DEF Issue, At, Past, Answer, Become
      <3> QED
        BY <1>1, <1>2, <3>1
    <2>7. CASE Identify(w) \/ Check(w) \/ Evaluate(w)
      <3>1. request[w].at \in Past
        BY <2>7 DEF Identify, Check, Evaluate, At, Past
      <3>2. PICK r \in Handling : r = request[w]
        BY <3>1, RequestFacts
      <3>3. ASSUME NEW new, request' = [request EXCEPT ![w] = new], new.txn = r.txn PROVE Goes(w)
        BY <3>1, <3>2, <3>3 DEF Goes
      <3>4. CASE Identify(w)
        <4>1. PICK dead : request' = [request EXCEPT ![w] = [r EXCEPT !.at = "linking", !.dead = dead]]
          BY <3>2, <3>4 DEF Identify, Become
        <4>2. [r EXCEPT !.at = "linking", !.dead = dead].txn = r.txn
          BY DEF Handling
        <4> QED
          BY <3>3, <4>1, <4>2
      <3>5. CASE Check(w)
        <4>1. request' = [request EXCEPT ![w] = [r EXCEPT !.at = "checked", !.now = clock]]
          BY <3>2, <3>5 DEF Check, Become
        <4>2. [r EXCEPT !.at = "checked", !.now = clock].txn = r.txn
          BY DEF Handling
        <4> QED
          BY <3>3, <4>1, <4>2
      <3>6. CASE Evaluate(w) /\ Move(w, "evaluated")
        BY <1>2, <3>1, <3>6 DEF Past
      <3>7. ASSUME NEW g \in Grant,
                   request' = [request EXCEPT ![w] = [r EXCEPT !.at = "evaluated", !.grant = g]]
            PROVE  Goes(w)
        <4>1. [r EXCEPT !.at = "evaluated", !.grant = g].txn = r.txn
          BY DEF Handling
        <4> QED
          BY <3>3, <3>7, <4>1
      <3> QED
        BY <2>7, <3>2, <3>4, <3>5, <3>6, <3>7 DEF Evaluate, Become, With
    <2> QED
      BY <1>3, <2>1, <2>2, <2>3, <2>4, <2>5, <2>6, <2>7 DEF Step
  <1>4. CASE OtherLogin \/ CreateGrant \/ ReadUnknown \/ CreatePending \/ RevokeGrant
    BY <1>4 DEF OtherLogin, CreateGrant, ReadUnknown, CreatePending, RevokeGrant, Admin
  <1>5. CASE SetUser \/ SetRegistration \/ SetLegacyGrant \/ Tick
    BY <1>5 DEF SetUser, SetRegistration, SetLegacyGrant, Tick
  <1>6. CASE UNCHANGED vars
    BY <1>6 DEF vars
  <1> QED
    BY <1>3, <1>4, <1>5, <1>6 DEF Next

\* A transaction that can be claimed has not been, so nobody is past its claim.
LEMMA PendingIsFree ==
  ASSUME Inv, NEW t \in Txn, txn[t].status = "pending", NEW w \in Worker
  PROVE  ~(request[w].at \in Past /\ request[w].txn = t)
  <1>1. txn[t].claimed_at = Null
    BY TheRow DEF Sound
  <1> QED
    BY <1>1, RequestFacts DEF Fits

LEMMA AloneStep == ASSUME Inv, Alone, [Next]_vars PROVE Alone'
  <1>1. CASE UNCHANGED request
    BY <1>1 DEF Alone
  <1>2. ASSUME NEW w \in Worker, Goes(w) PROVE Alone'
    <2>1. PICK r : /\ request' = [request EXCEPT ![w] = r]
                   /\ r.at \in Past =>
                         \/ request[w].at \in Past /\ r.txn = request[w].txn
                         \/ /\ r.txn \in Txn
                            /\ txn[r.txn].status = "pending" /\ txn'[r.txn].status = "claimed"
      BY <1>2 DEF Goes
    <2>2. request'[w] = r /\ \A v \in Worker : v # w => request'[v] = request[v]
      BY <2>1 DEF Inv, Types
    <2>3. ASSUME NEW v \in Worker, v # w, request[v].at \in Past, r.at \in Past
          PROVE  request[v].txn # r.txn
      BY <2>1, <2>3, PendingIsFree DEF Alone
    <2> QED
      BY <2>2, <2>3 DEF Alone
  <1> QED
    BY <1>1, <1>2, WorkersGo

LEMMA AloneAlways == Spec => []Alone
  <1>1. Init => Alone
    BY DEF Init, Alone, Idle, Past
  <1> QED
    BY <1>1, AloneStep, InvHolds, PTL DEF Spec

\* Who has claimed a transaction keeps it or is gone for good.
LEMMA HolderStays ==
  ASSUME Inv, Alone, [Next]_vars, NEW t \in Txn, txn'[t] = txn[t]
  PROVE  Claimants(t)' = Claimants(t) \/ Claimants(t)' = {}
  <1>1. CASE UNCHANGED request
    BY <1>1 DEF Claimants
  <1>2. ASSUME NEW w \in Worker, Goes(w) PROVE Claimants(t)' = Claimants(t) \/ Claimants(t)' = {}
    <2>1. PICK r : /\ request' = [request EXCEPT ![w] = r]
                   /\ r.at \in Past =>
                         \/ request[w].at \in Past /\ r.txn = request[w].txn
                         \/ /\ r.txn \in Txn
                            /\ txn[r.txn].status = "pending" /\ txn'[r.txn].status = "claimed"
      BY <1>2 DEF Goes
    <2>2. request'[w] = r /\ \A v \in Worker : v # w => request'[v] = request[v]
      BY <2>1 DEF Inv, Types
    <2>3. \A v \in Worker : v # w => (v \in Claimants(t)' <=> v \in Claimants(t))
      BY <2>2 DEF Claimants
    <2>4. w \in Claimants(t)' => w \in Claimants(t)
      BY <2>1, <2>2 DEF Claimants, Past
    <2>5. w \in Claimants(t) => Claimants(t) = {w}
      BY DEF Claimants, Alone, Past
    <2>6. Claimants(t)' \subseteq Worker /\ Claimants(t) \subseteq Worker
      BY DEF Claimants
    <2>7. CASE w \in Claimants(t) => w \in Claimants(t)'
      BY <2>3, <2>4, <2>6, <2>7
    <2>8. CASE w \in Claimants(t) /\ w \notin Claimants(t)'
      BY <2>3, <2>5, <2>6, <2>8
    <2> QED
      BY <2>7, <2>8
  <1> QED
    BY <1>1, <1>2, WorkersGo

LEMMA PhaseNow ==
  ASSUME Inv, NEW t \in Txn
  PROVE  /\ txn[t].status = "none" => Phase(t) = "none"
         /\ txn[t].status = "pending" => Phase(t) = "open"
         /\ txn[t].status = "claimed" => Phase(t) = "held"
         /\ txn[t].status = "completed" => Phase(t) = "used"
         /\ txn[t].status \in {"denied", "expired"} => Phase(t) = "dead"
  <1>1. code[t] # NoCode <=> txn[t].status = "completed"
    BY TheRow DEF Sound, NoCode
  <1> QED
    BY <1>1 DEF Phase, Terminal

LEMMA PhaseNext ==
  ASSUME NEW t \in Txn, Onward(t)
  PROVE  /\ txn'[t].status = "none" => Phase(t)' = "none"
         /\ txn'[t].status = "pending" => Phase(t)' = "open"
         /\ txn'[t].status = "claimed" => Phase(t)' = "held"
         /\ txn'[t].status = "completed" => Phase(t)' = "used"
         /\ txn'[t].status \in {"denied", "expired"} => Phase(t)' = "dead"
  <1>1. code'[t] # NoCode <=> txn'[t].status = "completed"
    BY DEF Onward, Sound, NoCode
  <1> QED
    BY <1>1 DEF Phase, Terminal

\* A step of the ticket t, in terms of the transaction.
Advances(t) ==
  \/ Phase(t) = "none" /\ Phase(t)' = "open"
  \/ Phase(t) = "open" /\ Phase(t)' = "held" /\ \E w \in Worker : Claimants(t)' = {w}
  \/ Phase(t) = "held" /\ Claimants(t) # {} /\ Phase(t)' = "used"
  \/ Phase(t) \in {"open", "held"} /\ Phase(t)' = "dead"
  \/ /\ Phase(t)' = Phase(t) /\ txn'[t] = txn[t] /\ code'[t] = code[t]
     /\ Claimants(t)' = Claimants(t) \/ Claimants(t)' = {}

LEMMA Stays ==
  ASSUME Inv, Alone, [Next]_vars, NEW t \in Txn, txn'[t] = txn[t] PROVE Advances(t)
  <1>1. Onward(t)
    BY AllOnward
  <1>2. code'[t] = code[t]
    <2>1. CASE txn[t].status = "completed"
      BY <1>1, <2>1, TheRow DEF Onward, Sound, NoCode
    <2>2. CASE txn[t].status # "completed"
      <3>1. code[t] = NoCode
        BY <2>2, TheRow DEF Sound
      <3>2. code'[t] = NoCode
        BY <1>1, <2>2 DEF Onward, Sound
      <3> QED
        BY <3>1, <3>2
    <2> QED
      BY <2>1, <2>2
  <1>3. Phase(t)' = Phase(t)
    BY <1>2 DEF Phase
  <1> QED
    BY <1>2, <1>3, HolderStays DEF Advances

LEMMA SweepAdvances ==
  ASSUME Inv, Alone, [Next]_vars, NEW at \in 0..clock, NEW S \in SUBSET Stale(at), NEW t \in Txn,
         txn'[t] = Sweep(S, at)[t]
  PROVE  Advances(t)
  <1>1. CASE t \notin S
    BY <1>1, Stays DEF Sweep
  <1>2. CASE t \in S
    <2>1. txn[t].status \in {"pending", "claimed"}
      BY <1>2 DEF Stale
    <2>2. PICK row \in TxnRow : row = txn[t]
      BY TheRow
    <2>3. txn'[t] = [row EXCEPT !.status = "expired", !.completed_at = at]
      BY <1>2, <2>2 DEF Sweep
    <2>4. txn'[t].status = "expired"
      BY <2>3 DEF TxnRow
    <2>5. Onward(t)
      BY AllOnward
    <2> QED
      BY <2>1, <2>4, <2>5, PhaseNow, PhaseNext DEF Advances
  <1> QED
    BY <1>1, <1>2

LEMMA CreateAdvances ==
  ASSUME Inv, Alone, [Next]_vars, NEW w \in Worker, CreateTransaction(w), NEW t \in Txn
  PROVE  Advances(t)
  <1>1. PICK at \in 0..clock : at = request[w].now
    BY RequestFacts, TheRow DEF CreateTransaction, Authorizing, Fits
  <1>2. PICK S \in SUBSET Stale(at) :
          \/ txn' = Sweep(S, at)
          \/ \E u \in Txn : txn[u].status = "none" /\ txn' = [Sweep(S, at) EXCEPT ![u] = NewTxn(at)]
    BY <1>1 DEF CreateTransaction
  <1>3. Sweep(S, at) = [u \in Txn |-> Sweep(S, at)[u]]
    BY DEF Sweep
  <1>4. CASE txn'[t] = Sweep(S, at)[t]
    BY <1>4, SweepAdvances
  <1>5. CASE txn[t].status = "none" /\ txn'[t] = NewTxn(at)
    <2>1. at \in Nat /\ at <= clock
      BY TheRow
    <2>2. NewTxn(at).status = "pending"
      BY <1>5, <2>1, TheRow, NewRow
    <2>3. Onward(t)
      BY AllOnward
    <2> QED
      BY <1>5, <2>2, <2>3, PhaseNow, PhaseNext DEF Advances
  <1> QED
    BY <1>2, <1>3, <1>4, <1>5

LEMMA ClaimAdvances ==
  ASSUME Inv, Alone, [Next]_vars, NEW w \in Worker, Claim(w), NEW t \in Txn
  PROVE  Advances(t)
  <1>1. request[w].at = "started"
    BY DEF Claim, At
  <1>2. PICK at \in 0..clock, u \in Txn : at = request[w].now /\ u = request[w].txn
    BY <1>1, Brings
  <1>3. PICK S \in SUBSET Stale(at) :
          \/ /\ txn' = [Sweep(S, at) EXCEPT ![u].status = "claimed", ![u].claimed_at = at]
             /\ Move(w, "claimed")
          \/ txn' = Sweep(S, at)
    BY <1>2 DEF Claim
  <1>4. Sweep(S, at) = [v \in Txn |-> Sweep(S, at)[v]]
    BY DEF Sweep
  <1>5. CASE txn' = Sweep(S, at)
    BY <1>5, SweepAdvances
  <1>6. ASSUME txn' = [Sweep(S, at) EXCEPT ![u].status = "claimed", ![u].claimed_at = at],
               Move(w, "claimed")
        PROVE  Advances(t)
    <2>1. CASE t # u
      <3>1. txn'[t] = Sweep(S, at)[t]
        BY <1>4, <1>6, <2>1
      <3> QED
        BY <3>1, SweepAdvances
    <2>2. CASE t = u
      <3>1. PICK r \in Handling : r = request[w]
        BY <1>1, RequestFacts
      <3>2. PICK new : new = [r EXCEPT !.at = "claimed"]
        OBVIOUS
      <3>3. new.at = "claimed" /\ new.txn = u
        BY <1>2, <3>1, <3>2 DEF Handling
      <3>4. request'[w] = new /\ \A v \in Worker : v # w => request'[v] = request[v]
        BY <1>6, <3>1, <3>2 DEF Move, Become, Inv, Types
      <3>5. request'[w] # Idle
        BY <3>3, <3>4 DEF Idle
      <3>6. txn[t].status = "pending" /\ txn'[t].status = "claimed"
        BY <1>2, <2>2, <3>5, ClaimTakes
      <3>7. \A v \in Worker : ~(request[v].at \in Past /\ request[v].txn = t)
        BY <3>6, PendingIsFree
      <3>8. Claimants(t)' = {w}
        BY <2>2, <3>3, <3>4, <3>7 DEF Claimants, Past
      <3>9. Onward(t)
        BY AllOnward
      <3> QED
        BY <3>6, <3>8, <3>9, PhaseNow, PhaseNext DEF Advances
    <2> QED
      BY <2>1, <2>2
  <1> QED
    BY <1>3, <1>5, <1>6

LEMMA DenyAdvances ==
  ASSUME Inv, Alone, [Next]_vars, NEW w \in Worker, Deny(w), NEW t \in Txn PROVE Advances(t)
  <1>1. CASE txn'[t] = txn[t]
    BY <1>1, Stays
  <1>2. CASE txn'[t] # txn[t]
    <2>1. txn[t].status = "claimed" /\ txn'[t] = [txn[t] EXCEPT !.status = "denied", !.completed_at = clock]
      BY <1>2 DEF Deny, Deniable, Inv, Types
    <2>2. PICK row \in TxnRow : row = txn[t]
      BY TheRow
    <2>3. txn'[t].status = "denied"
      BY <2>1, <2>2 DEF TxnRow
    <2>4. Onward(t)
      BY AllOnward
    <2> QED
      BY <2>1, <2>3, <2>4, PhaseNow, PhaseNext DEF Advances
  <1> QED
    BY <1>1, <1>2

LEMMA IssueAdvances ==
  ASSUME Inv, Alone, [Next]_vars, NEW w \in Worker, Issue(w), NEW t \in Txn PROVE Advances(t)
  <1>1. CASE txn'[t] = txn[t]
    BY <1>1, Stays
  <1>2. CASE txn'[t] # txn[t]
    <2>1. request[w].at = "evaluated" /\ request[w].txn = t
      BY <1>2 DEF Issue, At, Inv, Types
    <2>2. PICK row \in TxnRow, at \in Nat : row = txn[t] /\ at = request[w].now
      BY <2>1, TheRow, Brings DEF Past
    <2>3. /\ row.status = "claimed"
          /\ txn'[t] = [row EXCEPT !.status = "completed", !.completed_at = at]
      BY <1>2, <2>1, <2>2 DEF Issue, Completable, Inv, Types
    <2>4. txn'[t].status = "completed"
      BY <2>3 DEF TxnRow
    <2>5. w \in Claimants(t)
      BY <2>1 DEF Claimants
    <2>6. Onward(t)
      BY AllOnward
    <2> QED
      BY <2>2, <2>3, <2>4, <2>5, <2>6, PhaseNow, PhaseNext DEF Advances
  <1> QED
    BY <1>1, <1>2

LEMMA AllAdvance == ASSUME Inv, Alone, [Next]_vars, NEW t \in Txn PROVE Advances(t)
  <1>1. CASE UNCHANGED txn
    BY <1>1, Stays
  <1>2. ASSUME NEW w \in Worker, Step(w) PROVE Advances(t)
    <2>1. CASE Authorize(w) \/ Callback(w) \/ Refuse(w) \/ Identify(w)
      BY <1>1, <2>1 DEF Authorize, Callback, Refuse, Identify
    <2>2. CASE Link(w) \/ Check(w) \/ Evaluate(w) \/ Crash(w)
      BY <1>1, <2>2 DEF Link, Check, Evaluate, Crash
    <2> QED
      BY <1>2, <2>1, <2>2, CreateAdvances, ClaimAdvances, DenyAdvances, IssueAdvances DEF Step
  <1>3. CASE OtherLogin \/ CreateGrant \/ ReadUnknown \/ CreatePending \/ RevokeGrant
    BY <1>1, <1>3 DEF OtherLogin, CreateGrant, ReadUnknown, CreatePending, RevokeGrant, Admin
  <1>4. CASE SetUser \/ SetRegistration \/ SetLegacyGrant \/ Tick
    BY <1>1, <1>4 DEF SetUser, SetRegistration, SetLegacyGrant, Tick
  <1>5. CASE UNCHANGED vars
    BY <1>1, <1>5 DEF vars
  <1> QED
    BY <1>2, <1>3, <1>4, <1>5 DEF Next

LEMMA AdvanceIsAStep ==
  ASSUME NEW t \in Txn, Advances(t)
  PROVE  \/ Ticket!Open(t) \/ Ticket!Take(t) \/ Ticket!Use(t) \/ Ticket!Die(t)
         \/ Ticket!Lose(t) \/ Ticket!Rest(t)
  <1>1. CASE Phase(t) = "none" /\ Phase(t)' = "open"
    BY <1>1 DEF Ticket!Open, Ticket!Becomes
  <1>2. CASE Phase(t) = "open" /\ Phase(t)' = "held" /\ \E w \in Worker : Claimants(t)' = {w}
    BY <1>2 DEF Ticket!Take, Ticket!Becomes
  <1>3. CASE Phase(t) = "held" /\ Claimants(t) # {} /\ Phase(t)' = "used"
    BY <1>3 DEF Ticket!Use, Ticket!Becomes
  <1>4. CASE Phase(t) \in {"open", "held"} /\ Phase(t)' = "dead"
    BY <1>4 DEF Ticket!Die, Ticket!Becomes
  <1>5. ASSUME Phase(t)' = Phase(t), txn'[t] = txn[t], code'[t] = code[t],
               Claimants(t)' = Claimants(t) \/ Claimants(t)' = {}
        PROVE  Ticket!Lose(t) \/ Ticket!Rest(t)
    <2>1. CASE Phase(t) = "held" /\ Claimants(t)' = {}
      BY <1>5, <2>1 DEF Ticket!Lose, Ticket!Becomes
    <2>2. CASE Phase(t) # "held" \/ Claimants(t)' = Claimants(t)
      BY <1>5, <2>2 DEF Ticket!Rest, Ticket!Becomes
    <2> QED
      BY <1>5, <2>1, <2>2
  <1> QED
    BY <1>1, <1>2, <1>3, <1>4, <1>5 DEF Advances

\* The transactions implement OneTimeTicket: one callback at most claims a
\* transaction, only that one stores a code for it, and once; if it dies nobody
\* does; and row and code are never rewritten once the transaction is over
\* (claimAuthorizationTransaction, denyClaimedTransaction, issueAuthorizationCode
\* and the sweep).
THEOREM TransactionsAreTickets == Spec => ImplementsTicket
  <1>1. Init => Ticket!Init
    <2> SUFFICES ASSUME Init PROVE Ticket!Init
      OBVIOUS
    <2>1. \A t \in Txn : Phase(t) = "none"
      <3> SUFFICES ASSUME NEW t \in Txn PROVE Phase(t) = "none"
        OBVIOUS
      <3>1. txn[t] = NoTxn /\ code[t] = NoCode
        BY DEF Init
      <3>2. txn[t].status = "none"
        BY <3>1 DEF NoTxn
      <3> QED
        BY <3>1, <3>2 DEF Phase, Terminal
    <2> QED
      BY <2>1 DEF Ticket!Init
  <1>2. ASSUME Inv, Alone, [Next]_vars PROVE Ticket!Next
    BY <1>2, AllAdvance, AdvanceIsAStep DEF Ticket!Next
  <1>3. ASSUME Inv, Alone, [Next]_vars PROVE [Ticket!Next]_(Ticket!vars)
    BY <1>2, <1>3
  <1> QED
    BY <1>1, <1>3, InvHolds, AloneAlways, PTL DEF Spec, ImplementsTicket, Ticket!Spec
=============================================================================
