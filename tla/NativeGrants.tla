---------------------------- MODULE NativeGrants ----------------------------
(***************************************************************************)
(* The native grants of one resource, as administrators make and revoke    *)
(* them, one by one or in bulk, for users and for emails that nobody has   *)
(* signed in with yet (src/oauth/admin-repository.ts:615-846), while those *)
(* people sign in and time passes.                                         *)
(*                                                                         *)
(* Concurrency.  A request is asked, and reads the clock; its transaction  *)
(* waits for its locks, reads, and decides (Check); it writes and commits  *)
(* (Commit).  A sign-in locks its user, reads the pending rows, and        *)
(* commits; what the flow around it does is AuthorizationFlow's subject.   *)
(*                                                                         *)
(* Rows.  native[<<h, s>>] lists the rows of human h and scope s in order  *)
(* of creation, pending rows (by email) among them.  Left out: grants that *)
(* start in the future, the preview (a read), and who granted what.        *)
(***************************************************************************)
EXTENDS Administrators, Integers, FiniteSets, Sequences

CONSTANTS Human,        \* verified identities: a user, or an email without one
          Offer,        \* scopes that may be registered on the resource
          Approved,     \* humans whose email has an approved domain
          MaxRows,      \* bound: rows of one human and scope
          MaxToday      \* bound: where the clock stops

ASSUME ApprovedAssumption == Approved \subseteq Human
ASSUME NativeBounds == MaxRows \in Nat /\ MaxToday \in Nat

VARIABLES today,        \* the clock
          people,       \* users.status
          offered,      \* scopes that are active and registered on the resource
          native,       \* oauth_native_human_grants
          signin        \* how far each human's sign-in is

nativeVars == <<today, people, offered, native, signin, op>>

Pair == Human \X Offer
Forever == -1                       \* valid_until IS NULL
Until == {Forever} \cup 0..(MaxToday + 1)
NotSigningIn == [step |-> "out", expire |-> {}, link |-> {}]

NativeInit ==
  /\ today = 0
  /\ people \in [Human -> {"none", "active"}]
  /\ offered = Offer
  /\ native = [p \in Pair |-> <<>>]
  /\ signin = [h \in Human |-> NotSigningIn]
  /\ op = [a \in Admin |-> NoOp]

-----------------------------------------------------------------------------
NativeRow(p) == {<<"native", p, i>> : i \in DOMAIN native[p]}
PersonRow(h) == <<"person", h, 0>>
OfferRow(s) == <<"offer", s, 0>>

Having(p, status) == {<<"native", p, i>> : i \in {j \in DOMAIN native[p] : native[p][j].status = status}}
HavingAny(P, status) == UNION {Having(p, status) : p \in P}
Row(g) == native[g[2]][g[3]]
Elapsed(g, now) == Row(g).until # Forever /\ Row(g).until <= now

\* What a sign-in has locked.  The row of a new user is not seen by others.
SigningIn(h) == signin[h].step # "out"
HeldBySignIns == UNION {signin[h].expire \cup signin[h].link : h \in Human}
                   \cup {PersonRow(h) : h \in {k \in Human : SigningIn(k) /\ people[k] # "none"}}

Locks(a, share, update) == /\ CanLock(a, share, update)
                           /\ (share \cup update) \cap HeldBySignIns = {}
HeldByAdmins == UNION {Holds(a, "share") \cup Holds(a, "update") : a \in Admin}

\* The table after `expire' has expired, `link' has become active and a row of
\* status f[p] is added for every p in DOMAIN f.
Written(expire, link, f, until) ==
  [p \in Pair |->
     LET old == [i \in DOMAIN native[p] |->
                   IF <<"native", p, i>> \in expire THEN [Row(<<"native", p, i>>) EXCEPT !.status = "expired"]
                   ELSE IF <<"native", p, i>> \in link THEN [Row(<<"native", p, i>>) EXCEPT !.status = "active"]
                   ELSE native[p][i]]
     IN  IF p \in DOMAIN f THEN Append(old, [status |-> f[p], until |-> until]) ELSE old]

\* The partial unique indexes: one active and one pending row per pair.
Count(table, p, status) == Cardinality({i \in DOMAIN table[p] : table[p][i].status = status})
Unique(table) == \A p \in Pair : Count(table, p, "active") <= 1 /\ Count(table, p, "pending_user_link") <= 1
Bounded(table) == \A p \in Pair : Len(table[p]) <= MaxRows

-----------------------------------------------------------------------------
(* Granting.                                                               *)

Ask(a, what, H, S, until) ==
  /\ until = Forever \/ until > today
  /\ what = "one" => Cardinality(H) = 1
  /\ Begins(a, [kind |-> "asked", what |-> what, people |-> H, scopes |-> S,
                until |-> until, now |-> today])
  /\ UNCHANGED <<today, people, offered, native, signin>>

\* The time bulkNativeGrants compares with: clock_timestamp(), read after the
\* locks.  Mutant: the time the request was received.
AskedAt(a) == op[a].now
BulkTime(a) == today

Known(H) == {h \in H : people[h] # "none"}
Standing(a, H) == /\ op[a].scopes \subseteq offered
                  /\ \A h \in Known(H) : people[h] = "active"

\* What a check passes on to the commit.
Granting(a, f, expire, share, update) ==
  [kind |-> "granting", what |-> op[a].what, people |-> op[a].people, scopes |-> op[a].scopes,
   known |-> Known(op[a].people), until |-> op[a].until, insert |-> f, expire |-> expire,
   checked |-> today, share |-> share, update |-> update]

\* bulkNativeGrants: what has a grant already is left alone, an elapsed grant is
\* replaced, an unknown email gets a pending row.  One error refuses all.
CheckBulk(a) ==
  LET H == op[a].people
      now == BulkTime(a)
      users == Known(H) \X op[a].scopes
      emails == (H \ Known(H)) \X op[a].scopes
      active == HavingAny(users, "active")
      pending == HavingAny(emails, "pending_user_link")
      elapsed == {g \in active : Elapsed(g, now)}
      new == {p \in users : Having(p, "active") \subseteq elapsed}
      later == {p \in emails : Having(p, "pending_user_link") = {}}
      f == [p \in new \cup later |-> IF p \in new THEN "active" ELSE "pending_user_link"]
      share == {OfferRow(s) : s \in op[a].scopes}
      update == {PersonRow(h) : h \in Known(H)} \cup active \cup pending
  IN  /\ Doing(a, "asked") /\ op[a].what = "bulk"
      /\ op[a].until = Forever \/ op[a].until > now
      /\ Standing(a, H)
      /\ H \ Known(H) \subseteq Approved
      /\ Locks(a, share, update)
      /\ Goes(a, Granting(a, f, elapsed, share, update))
      /\ UNCHANGED <<today, people, offered, native, signin>>

\* createNativeGrants, which compares with the time of the request.
CheckOne(a) ==
  LET pairs == op[a].people \X op[a].scopes
      active == HavingAny(pairs, "active")
      share == {OfferRow(s) : s \in op[a].scopes}
      update == {PersonRow(h) : h \in op[a].people} \cup active
  IN  /\ Doing(a, "asked") /\ op[a].what = "one"
      /\ Known(op[a].people) = op[a].people
      /\ Standing(a, op[a].people)
      /\ \A g \in active : Elapsed(g, AskedAt(a))
      /\ Locks(a, share, update)
      /\ Goes(a, Granting(a, [p \in pairs |-> "active"], active, share, update))
      /\ UNCHANGED <<today, people, offered, native, signin>>

CommitGrants(a) ==
  LET table == Written(op[a].expire, {}, op[a].insert, op[a].until)
  IN  /\ Doing(a, "granting")
      /\ Unique(table) /\ Bounded(table)
      /\ native' = table
      /\ Goes(a, [kind |-> "told"])
      /\ UNCHANGED <<today, people, offered, signin>>

\* The administrator reads the answer; or the request was refused, or failed.
Close(a) == Fails(a) /\ UNCHANGED <<today, people, offered, native, signin>>

\* revokeNativeGrant and bulkRevokeNativeGrants: what is live is revoked, the
\* rest is skipped.
Revoke(a, G) ==
  /\ op[a] = NoOp
  /\ Locks(a, {}, G)
  /\ native' = [p \in Pair |-> [i \in DOMAIN native[p] |->
        IF <<"native", p, i>> \in G /\ native[p][i].status \in {"active", "pending_user_link"}
        THEN [native[p][i] EXCEPT !.status = "revoked"] ELSE native[p][i]]]
  /\ UNCHANGED <<today, people, offered, signin, op>>

\* A registration or a scope changes (Registration), a user is disabled.
ChangeOffer(a, S) ==
  /\ op[a] = NoOp
  /\ Locks(a, {}, {OfferRow(s) : s \in Offer})
  /\ offered' = S
  /\ UNCHANGED <<today, people, native, signin, op>>

ChangePerson(a, h, status) ==
  /\ op[a] = NoOp
  /\ people[h] # "none"
  /\ Locks(a, {}, {PersonRow(h)})
  /\ people' = [people EXCEPT ![h] = status]
  /\ UNCHANGED <<today, offered, native, signin, op>>

-----------------------------------------------------------------------------
(* Signing in.                                                             *)

SignIn(h, step, expire, link) ==
  signin' = [signin EXCEPT ![h] = [step |-> step, expire |-> expire, link |-> link]]

\* upsertUser.
SignInBegin(h) ==
  /\ signin[h].step = "out"
  /\ people[h] # "disabled"
  /\ PersonRow(h) \notin HeldByAdmins
  /\ SignIn(h, "user", {}, {})
  /\ UNCHANGED <<today, people, offered, native, op>>

\* linkPendingNativeGrants: a pending row beside an active one expires, the
\* others are linked.
SignInLink(h) ==
  LET pairs == {h} \X Offer
      pending == HavingAny(pairs, "pending_user_link")
      twins == {g \in pending : Having(g[2], "active") # {}}
  IN  /\ signin[h].step = "user"
      /\ pending \cap HeldByAdmins = {}
      /\ SignIn(h, "linked", twins, pending \ twins)
      /\ UNCHANGED <<today, people, offered, native, op>>

SignInCommit(h) ==
  LET table == Written(signin[h].expire, signin[h].link, <<>>, Forever)
  IN  /\ signin[h].step = "linked"
      /\ Unique(table)
      /\ native' = table
      /\ people' = [people EXCEPT ![h] = "active"]
      /\ signin' = [signin EXCEPT ![h] = NotSigningIn]
      /\ UNCHANGED <<today, offered, op>>

SignInFails(h) ==
  /\ SigningIn(h)
  /\ signin' = [signin EXCEPT ![h] = NotSigningIn]
  /\ UNCHANGED <<today, people, offered, native, op>>

Tick == /\ today < MaxToday
        /\ today' = today + 1
        /\ UNCHANGED <<people, offered, native, signin, op>>

-----------------------------------------------------------------------------
Grants(a) ==
  \/ \E what \in {"bulk", "one"}, H \in (SUBSET Human) \ {{}}, S \in (SUBSET Offer) \ {{}},
        until \in Until : Ask(a, what, H, S, until)
  \/ CheckBulk(a) \/ CheckOne(a) \/ CommitGrants(a) \/ Close(a)
  \/ \E G \in SUBSET UNION {NativeRow(p) : p \in Pair} : Revoke(a, G)
  \/ \E S \in SUBSET Offer : ChangeOffer(a, S)
  \/ \E h \in Human, status \in {"active", "disabled"} : ChangePerson(a, h, status)

SignsIn(h) == SignInBegin(h) \/ SignInLink(h) \/ SignInCommit(h) \/ SignInFails(h)

NativeNext == \/ \E a \in Admin : Grants(a)
              \/ \E h \in Human : SignsIn(h)
              \/ Tick

NativeSpec == NativeInit /\ [][NativeNext]_nativeVars

-----------------------------------------------------------------------------
(* Properties.                                                             *)

\* Rows hold what their columns may, and the unique indexes hold.
NativeTypeOK ==
  /\ today \in 0..MaxToday
  /\ people \in [Human -> {"none", "active", "disabled"}]
  /\ offered \subseteq Offer
  /\ \A p \in Pair : \A i \in DOMAIN native[p] :
        native[p][i] \in [status : {"active", "pending_user_link", "revoked", "expired"}, until : Until]
  /\ Unique(native) /\ Bounded(native)
  /\ \A h \in Human : signin[h].step \in {"out", "user", "linked"}

\* An administrator who is told that a bulk grant was committed can rely on it
\* for every user and every scope of the matrix: the scope is registered, the
\* user was not disabled, and has one grant that had not elapsed when the rows
\* were locked, be it new or found; an unknown email has one pending grant
\* (admin-repository.ts:660-790).
BulkCovers ==
  [][\A a \in Admin :
       Doing(a, "granting") /\ op[a].what = "bulk" /\ op'[a].kind = "told" =>
         \A p \in op[a].people \X op[a].scopes :
           /\ p[2] \in offered
           /\ IF p[1] \in op[a].known
              THEN /\ people[p[1]] = "active"
                   /\ Count(native', p, "active") = 1
                   /\ \A i \in DOMAIN native'[p] : native'[p][i].status = "active" =>
                        native'[p][i].until = Forever \/ native'[p][i].until > op[a].checked
              ELSE Count(native', p, "pending_user_link") = 1]_nativeVars
=============================================================================
