------------------------- MODULE AuthorizationFlow --------------------------
(***************************************************************************)
(* From GET /oauth/authorize to an authorization code: the transaction     *)
(* behind one login at Google, the identity it verifies, the native grants *)
(* that login links, and the code it ends in                               *)
(* (src/oauth/authorization.ts, flow-repository.ts, native-entitlement.ts).*)
(*                                                                         *)
(* One person, one client, one resource with one scope: rows of different  *)
(* ones never meet.  The entitlement mode of the resource is immutable     *)
(* (migrations/006), so each behavior has one, and only the grants of that *)
(* mode are written.                                                       *)
(*                                                                         *)
(* Concurrency.  A callback is a sequence of database transactions with    *)
(* calls to Google and unlocked reads between them.  `at' is what it has   *)
(* done last; an uncommitted transaction is a value of `at' that holds row *)
(* locks, and its writes appear in the step that commits it.               *)
(***************************************************************************)
EXTENDS Integers, FiniteSets

CONSTANTS Txn,          \* rows of oauth_authorization_transactions
          Grant,        \* rows of oauth_native_human_grants
          Worker,       \* requests handled at the same time
          MaxTime,      \* bound: where the clock stops
          TTL           \* OAUTH_AUTHORIZATION_TRANSACTION_TTL_MS  (600 s)

ASSUME TimeAssumption == MaxTime \in Nat /\ TTL \in Nat \ {0}

VARIABLES clock,
          mode,         \* oauth_resources.entitlement_mode
          registered,   \* client, resource, scope and allowance are all active
          legacyGrant,  \* findActiveGrant finds a grant with the permission
          user,         \* users.status, or "none"
          native,       \* oauth_native_human_grants
          creation,     \* what an administrator's bulk grant has read
          txn,          \* oauth_authorization_transactions
          code,         \* oauth_authorization_codes, by transaction
          told,         \* what the browsers coming back for a transaction heard
          request       \* the request each worker handles

rest == <<registered, legacyGrant, user, native, creation>>
vars == <<clock, mode, rest, txn, code, told, request>>

Null == -1
Terminal == {"completed", "denied", "expired"}
NoTxn == [status |-> "none", created_at |-> Null, expires_at |-> Null,
          claimed_at |-> Null, completed_at |-> Null]
NewTxn(now) == [NoTxn EXCEPT !.status = "pending", !.created_at = now, !.expires_at = now + TTL]
NoCode == [issued_at |-> Null, grant |-> Null]
NoNative == [status |-> "none", linked |-> FALSE, valid_until |-> Null]
Idle == [at |-> "idle"]

Init == /\ clock = 0
        /\ mode \in {"legacy_bridge", "native"}
        /\ registered = TRUE
        /\ legacyGrant \in BOOLEAN /\ (mode = "native" => ~legacyGrant)
        /\ user \in {"none", "active"}
        /\ native = [g \in Grant |-> NoNative]
        /\ creation = "none"
        /\ txn = [t \in Txn |-> NoTxn]
        /\ code = [t \in Txn |-> NoCode]
        /\ told = [t \in Txn |-> {}]
        /\ request = [w \in Worker |-> Idle]

-----------------------------------------------------------------------------
(* Rows and their locks.                                                   *)

With(status) == {g \in Grant : native[g].status = status}
Elapsed(g, now) == native[g].valid_until # Null /\ native[g].valid_until <= now

\* A login that has run upsertUser holds the user's row until it commits; one
\* that inserted the row holds nothing an administrator could find.
UserUnlocked == user # "none" /\ \A w \in Worker : request[w].at # "linking"

\* Mutant of Unshared: the evaluation reads without locks.
NoOneWaits == TRUE
\* evaluateNativeEntitlement holds FOR SHARE on everything it read.
Unshared == \A w \in Worker : ~(request[w].at = "evaluated" /\ mode = "native")

\* expireStaleAuthorizationTransactions: 100 rows at most and none that is
\* locked, which may be any of them.
Stale(now) == {t \in Txn : txn[t].status \in {"pending", "claimed"} /\ txn[t].expires_at <= now}
Sweep(S, now) ==
  [t \in Txn |-> IF t \in S THEN [txn[t] EXCEPT !.status = "expired", !.completed_at = now]
                 ELSE txn[t]]

-----------------------------------------------------------------------------
(* GET /oauth/authorize.                                                   *)

Become(w, r) == request' = [request EXCEPT ![w] = r]

\* The registration is checked, then the clock is read.
Authorize(w) ==
  /\ request[w] = Idle
  /\ registered
  /\ Become(w, [at |-> "authorizing", now |-> clock])
  /\ UNCHANGED <<clock, mode, rest, txn, code, told>>

\* The sweep and the insert.  Of someone else's request only the sweep shows.
CreateTransaction(w) ==
  /\ request[w].at = "authorizing"
  /\ \E S \in SUBSET Stale(request[w].now) :
        \/ txn' = Sweep(S, request[w].now)
        \/ \E t \in Txn :
              /\ txn[t].status = "none"
              /\ txn' = [Sweep(S, request[w].now) EXCEPT ![t] = NewTxn(request[w].now)]
  /\ Become(w, Idle)
  /\ UNCHANGED <<clock, mode, rest, code, told>>

-----------------------------------------------------------------------------
(* GET /oauth/upstream/google/callback.                                    *)

At(w, at) == request[w].at = at
Move(w, at) == Become(w, [request[w] EXCEPT !.at = at])
Answer(w, heard) ==
  /\ told' = [told EXCEPT ![request[w].txn] = @ \cup {heard}]
  /\ Become(w, Idle)

\* The browser comes back with the state, possibly more than once.
Callback(w) ==
  /\ request[w] = Idle
  /\ \E t \in Txn : /\ txn[t].status # "none"
                    /\ Become(w, [at |-> "started", txn |-> t, now |-> clock, dead |-> {},
                                  grant |-> Null])
  /\ UNCHANGED <<clock, mode, rest, txn, code, told>>

\* claimAuthorizationTransaction's WHERE.  Mutant: whatever its status.
Unexpired(row, now) == row.expires_at > now
Claimable(row, now) == row.status = "pending" /\ row.expires_at > now

Claim(w) ==
  /\ At(w, "started")
  /\ \E S \in SUBSET Stale(request[w].now) :
        LET r == request[w]
            swept == Sweep(S, r.now)
        IN  \/ /\ Claimable(swept[r.txn], r.now)
               /\ txn' = [swept EXCEPT ![r.txn].status = "claimed", ![r.txn].claimed_at = r.now]
               /\ Move(w, "claimed")
               /\ UNCHANGED told
            \/ /\ ~Claimable(swept[r.txn], r.now)
               /\ txn' = swept
               /\ Answer(w, "invalid_request")
  /\ UNCHANGED <<clock, mode, rest, code>>

\* Everything that denyRedirect answers: Google's error, an identity it does
\* not accept, a statement that fails (the open transaction is rolled back); no
\* registration; no grant.  A disabled user is refused by Link or by Evaluate.
Refuse(w) ==
  /\ request[w].at \in {"claimed", "linking", "identified", "checked", "evaluated"}
  /\ Move(w, "refused")
  /\ UNCHANGED <<clock, mode, rest, txn, code, told>>

\* denyClaimedTransaction's WHERE.  Mutant: by id alone.
AnyStatus(t) == TRUE
Deniable(t) == txn[t].status = "claimed"

\* denyClaimed throws when the row is not claimed any more, and the browser
\* then gets server_error instead of a redirect.
Deny(w) ==
  LET t == request[w].txn
  IN  /\ At(w, "refused")
      /\ \/ /\ Deniable(t)
            /\ txn' = [txn EXCEPT ![t].status = "denied", ![t].completed_at = clock]
            /\ Answer(w, "denied")
         \/ /\ ~Deniable(t)
            /\ UNCHANGED txn
            /\ Answer(w, "server_error")
      /\ UNCHANGED <<clock, mode, rest, code>>

\* upsertAndLinkVerifiedIdentity: upsertUser, then linkPendingNativeGrants
\* sets pending pairs the user already holds aside, ...
Identify(w) ==
  /\ At(w, "claimed")
  /\ \A v \in Worker : request[v].at # "linking"
  /\ Unshared
  /\ Become(w, [request[w] EXCEPT !.at = "linking",
                  !.dead = IF With("active") # {} THEN With("pending_user_link") ELSE {}])
  /\ UNCHANGED <<clock, mode, rest, txn, code, told>>

\* Mutant of Linked: the user is not written.
LinkedToNobody(row) == [row EXCEPT !.status = "active"]
Linked(row) == [row EXCEPT !.status = "active", !.linked = TRUE]

\* ... and links the others.  One that was committed in between hits the unique
\* index on active pairs.  The status upsertUser returned decides whether the
\* login goes on: it is not read again.
Link(w) ==
  LET dead == request[w].dead
      fresh == With("pending_user_link") \ dead
  IN  /\ At(w, "linking")
      /\ IF user = "disabled" THEN UNCHANGED <<user, native>> /\ Move(w, "refused")
         ELSE IF fresh # {} /\ With("active") # {}
         THEN UNCHANGED <<user, native>> /\ Move(w, "refused")
         ELSE /\ user' = "active"
              /\ native' = [g \in Grant |->
                    IF g \in dead THEN [native[g] EXCEPT !.status = "expired"]
                    ELSE IF g \in fresh THEN Linked(native[g])
                    ELSE native[g]]
              /\ Move(w, "identified")
      /\ UNCHANGED <<clock, mode, registered, legacyGrant, creation, txn, code, told>>

\* A login of the same person elsewhere: the legacy flow, another client.
OtherLogin ==
  LET pending == With("pending_user_link")
  IN  /\ \A w \in Worker : request[w].at # "linking"
      /\ Unshared
      /\ user # "disabled"
      /\ user' = "active"
      /\ native' = [g \in Grant |->
            IF g \in pending
            THEN IF With("active") # {} THEN [native[g] EXCEPT !.status = "expired"]
                                       ELSE Linked(native[g])
            ELSE native[g]]
      /\ UNCHANGED <<clock, mode, registered, legacyGrant, creation, txn, code, told, request>>

\* Unlocked reads: registrations and, in legacy mode, the grant.  Then the
\* time of issue is read.
Check(w) ==
  /\ At(w, "identified")
  /\ registered
  /\ mode = "native" \/ legacyGrant
  /\ Become(w, [request[w] EXCEPT !.at = "checked", !.now = clock])
  /\ UNCHANGED <<clock, mode, rest, txn, code, told>>

\* evaluateNativeEntitlement, in the issuing transaction; it reads the clock
\* again once it has its locks.  The legacy grant is not looked at again.
Evaluate(w) ==
  /\ At(w, "checked")
  /\ IF mode = "native"
     THEN /\ UserUnlocked /\ user = "active" /\ registered
          /\ \E g \in With("active") :
                /\ ~Elapsed(g, clock)
                /\ Become(w, [request[w] EXCEPT !.at = "evaluated", !.grant = g])
     ELSE Move(w, "evaluated")
  /\ UNCHANGED <<clock, mode, rest, txn, code, told>>

\* Mutant of Completable: without the deadline.
StillClaimed(row, now) == row.status = "claimed"
Completable(row, now) == row.status = "claimed" /\ row.expires_at > now

\* issueAuthorizationCode and COMMIT; otherwise everything is rolled back.
Issue(w) ==
  LET r == request[w]
  IN  /\ At(w, "evaluated")
      /\ \/ /\ Completable(txn[r.txn], r.now)
            /\ txn' = [txn EXCEPT ![r.txn].status = "completed", ![r.txn].completed_at = r.now]
            /\ code' = [code EXCEPT ![r.txn] = [issued_at |-> r.now, grant |-> r.grant]]
            /\ Answer(w, "code")
         \/ /\ ~Completable(txn[r.txn], r.now)
            /\ Move(w, "refused")
            /\ UNCHANGED <<txn, code, told>>
      /\ UNCHANGED <<clock, mode, rest>>

\* The process dies: locks are released, what was committed stays.
Crash(w) ==
  /\ request[w] # Idle
  /\ Become(w, Idle)
  /\ UNCHANGED <<clock, mode, rest, txn, code, told>>

-----------------------------------------------------------------------------
(* Administrators.  createNativeGrants and bulkNativeGrants lock the user, *)
(* if there is one, before they look at its grants.                        *)

Admin(new) == /\ native' = new
              /\ UNCHANGED <<clock, mode, registered, legacyGrant, user, txn, code, told, request>>

Unused(g) == native[g].status = "none"

\* A row for a user.  An elapsed active row is set aside first.
CreateGrant ==
  /\ UserUnlocked /\ Unshared
  /\ mode = "native"
  /\ user = "active"
  /\ \A g \in With("active") : Elapsed(g, clock)
  /\ \E g \in Grant, until \in {Null, clock + 1} :
        /\ Unused(g)
        /\ Admin([h \in Grant |->
              IF h = g THEN [status |-> "active", linked |-> TRUE, valid_until |-> until]
              ELSE IF h \in With("active") THEN [native[h] EXCEPT !.status = "expired"]
              ELSE native[h]])
  /\ UNCHANGED creation

\* A row for an email: that no user has it is read first, and locks
\* nothing; that no such row is pending is read last.
ReadUnknown ==
  /\ mode = "native"
  /\ creation = "none"
  /\ user = "none"
  /\ creation' = "unknown"
  /\ Admin(native)

CreatePending ==
  /\ creation = "unknown"
  /\ \/ /\ With("pending_user_link") = {}
        /\ \E g \in Grant, until \in {Null, clock + 1} :
              /\ Unused(g)
              /\ Admin([native EXCEPT ![g] =
                    [status |-> "pending_user_link", linked |-> FALSE, valid_until |-> until]])
     \/ With("pending_user_link") # {} /\ Admin(native)
  /\ creation' = "none"

\* revokeNativeGrant and bulkRevokeNativeGrants.
RevokeGrant ==
  /\ Unshared
  /\ \E g \in With("active") \cup With("pending_user_link") :
        /\ ~\E w \in Worker : request[w].at = "linking" /\ g \in request[w].dead
        /\ Admin([native EXCEPT ![g].status = "revoked"])
  /\ UNCHANGED creation

SetUser ==
  /\ UserUnlocked /\ Unshared
  /\ \E status \in {"active", "disabled"} : user' = status
  /\ UNCHANGED <<clock, mode, registered, legacyGrant, native, creation, txn, code, told, request>>

SetRegistration ==
  /\ Unshared
  /\ registered' = ~registered
  /\ UNCHANGED <<clock, mode, legacyGrant, user, native, creation, txn, code, told, request>>

SetLegacyGrant ==
  /\ mode = "legacy_bridge"
  /\ legacyGrant' = ~legacyGrant
  /\ UNCHANGED <<clock, mode, registered, user, native, creation, txn, code, told, request>>

Tick == /\ clock < MaxTime
        /\ clock' = clock + 1
        /\ UNCHANGED <<mode, rest, txn, code, told, request>>

Step(w) == \/ Authorize(w) \/ CreateTransaction(w)
           \/ Callback(w) \/ Claim(w) \/ Refuse(w) \/ Deny(w)
           \/ Identify(w) \/ Link(w)
           \/ Check(w) \/ Evaluate(w) \/ Issue(w) \/ Crash(w)

Next == \/ \E w \in Worker : Step(w)
        \/ OtherLogin \/ CreateGrant \/ ReadUnknown \/ CreatePending \/ RevokeGrant
        \/ SetUser \/ SetRegistration \/ SetLegacyGrant \/ Tick

Spec == Init /\ [][Next]_vars

-----------------------------------------------------------------------------
(* Properties.                                                             *)

\* Rows hold what their columns may; a pending grant has no user, an active
\* one has, and no more than one of each exists (the indexes of migrations/006).
TypeOK ==
  /\ clock \in 0..MaxTime
  /\ user \in {"none", "active", "disabled"}
  /\ \A t \in Txn : txn[t].status \in {"none", "pending", "claimed"} \cup Terminal
  /\ \A g \in Grant :
        /\ native[g].status \in {"none", "pending_user_link", "active", "revoked", "expired"}
        /\ native[g].status = "pending_user_link" => ~native[g].linked
        /\ native[g].status = "active" => native[g].linked
  /\ Cardinality(With("active")) <= 1
  /\ Cardinality(With("pending_user_link")) <= 1

\* A transaction ends once: what was completed, denied or swept stays so, a
\* code belongs to a completed transaction, and nothing replaces it, whichever
\* callbacks and sweeps race (docs/DB.md:147).
EndsOnce ==
  [][\A t \in Txn : /\ txn[t].status \in Terminal => txn'[t] = txn[t]
                    /\ code[t] # NoCode => code'[t] = code[t]
                    /\ code'[t] # NoCode <=> txn'[t].status = "completed"]_vars

\* What browsers are told is what is stored: of all that come back with one
\* state, one at most gets the code or the denial, and then the row says so.
ToldTheTruth ==
  \A t \in Txn : /\ "code" \in told[t] => txn[t].status = "completed"
                 /\ "denied" \in told[t] => txn[t].status = "denied"

\* The times a transaction records are in order although every step brings a
\* clock it read before its locks, and no code is issued at or after the
\* deadline (the CHECKs of migrations/004).
TimesInOrder ==
  \A t \in Txn :
    LET row == txn[t]
    IN  /\ row.claimed_at # Null => /\ row.created_at <= row.claimed_at
                                    /\ row.claimed_at < row.expires_at
        /\ row.completed_at # Null => /\ row.created_at <= row.completed_at
                                      /\ row.claimed_at <= row.completed_at
        /\ row.status = "completed" => code[t].issued_at < row.expires_at
        /\ row.status = "expired" => row.expires_at <= row.completed_at

\* The COMMIT that stores a native code finds the grant it names still active
\* and unelapsed, the user active and the registration intact: nothing that
\* withdraws one of them comes between evaluation and issue
\* (docs/OAUTH_NATIVE_ENTITLEMENTS.md:23-27).
NativeCodeIsEntitled ==
  [][\A t \in Txn : mode = "native" /\ code'[t] # code[t] =>
       LET g == code'[t].grant
       IN  /\ native[g].status = "active" /\ native[g].linked
           /\ ~Elapsed(g, code'[t].issued_at)
           /\ user = "active"
           /\ registered]_vars

\* The abstract phase of a transaction; its code decides whether it was used.
Phase(t) == IF code[t] # NoCode THEN "used"
            ELSE CASE txn[t].status = "none" -> "none"
                   [] txn[t].status = "pending" -> "open"
                   [] txn[t].status = "claimed" -> "held"
                   [] txn[t].status \in Terminal -> "dead"

\* The callbacks that have claimed t and are not done with it.
Claimants(t) == {w \in Worker : request[w].at \in {"claimed", "linking", "identified", "checked",
                                                   "evaluated", "refused"} /\ request[w].txn = t}

\* Transactions are one-time tickets.  Of all the callbacks that come back with one
\* state one claims the transaction, only that one can store a code for it, and once; if
\* it dies nobody does; and row and code of a transaction that is over are never
\* rewritten, whichever callbacks, denials and sweeps race (docs/DB.md:147).
Ticket == INSTANCE OneTimeTicket WITH
  Ticket <- Txn,
  Holder <- Worker,
  phase <- [t \in Txn |-> Phase(t)],
  holder <- [t \in Txn |-> IF Phase(t) = "held" THEN Claimants(t) ELSE {}],
  record <- [t \in Txn |-> <<txn[t], code[t]>>]

ImplementsTicket == Ticket!Spec
=============================================================================
