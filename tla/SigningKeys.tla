---------------------------- MODULE SigningKeys ----------------------------
(***************************************************************************)
(* The life of the OAuth signing keys: administrators generate, publish,   *)
(* activate, retire and disable them (src/oauth/admin-repository.ts), token*)
(* requests sign with the one signable key (token-repository.ts,           *)
(* signing.ts), the issuer verifies with the active ones, and /oauth/jwks  *)
(* shows some of them to verifiers that cache what they fetch (jwks.ts).   *)
(*                                                                         *)
(* Every operation and every signing request captures its time before its  *)
(* transaction starts, and may wait for locks after that.  activate is the *)
(* one transaction that takes several locks, one after the other: the      *)
(* advisory lock, its key's row, the rows of the keys in use.  Each other  *)
(* transaction locks once and is one step, possible when the row is free.  *)
(***************************************************************************)
EXTENDS Integers, FiniteSetsExt

CONSTANTS Key,          \* signing keys that may ever be generated
          Admin,        \* administrative requests handled at the same time
          Signer,       \* token requests handled at the same time
          Nobody,       \* the advisory lock is free
          MaxTime,      \* bound: where the clock stops
          Lead,         \* OAUTH_SIGNING_PUBLISH_LEAD_MS      (300 s)
          Grace,        \* OAUTH_SIGNING_RETIRE_GRACE_MS      (1 260 s)
          AccessTTL,    \* OAUTH_ACCESS_TOKEN_TTL_SECONDS     (900 s)
          Skew,         \* OAUTH_VERIFIER_CLOCK_SKEW_SECONDS  (60 s)
          CacheAge      \* max-age of OAUTH_JWKS_CACHE_CONTROL (300 s)

ASSUME NobodyAssumption == Nobody \notin Admin
ASSUME TimeAssumption == /\ {MaxTime, Skew} \subseteq Nat
                         /\ {Lead, Grace, AccessTTL, CacheAge} \subseteq Nat \ {0}
ASSUME LeadAssumption == Lead >= CacheAge
ASSUME GraceAssumption == Grace >= AccessTTL + CacheAge + Skew

VARIABLES clock,
          key,          \* oauth_signing_keys
          op,           \* the operation each administrator runs
          advisory,     \* who holds 'oauth_p0_signing_activation'
          signing,      \* the time each token request captured, or Null
          newest,       \* iat of the youngest token signed with each key
          cache         \* the JWKS a verifier holds, and when it fetched it

vars == <<clock, key, op, advisory, signing, newest, cache>>

Null == -1
TimeOrNull == Nat \cup {Null}
Kind == {"publish", "activate", "retire", "disable"}

NoOp == [kind |-> "none"]
NoKey == [status |-> "none", published_at |-> Null, activates_at |-> Null,
          last_signed_at |-> Null, retire_after |-> Null, retired_at |-> Null]
NoCache == [keys |-> {}, at |-> Null]

Init == /\ clock = 0
        /\ key = [k \in Key |-> NoKey]
        /\ op = [o \in Admin |-> NoOp]
        /\ advisory = Nobody
        /\ signing = [w \in Signer |-> Null]
        /\ newest = [k \in Key |-> Null]
        /\ cache = NoCache

-----------------------------------------------------------------------------
(* What the code reads off a row.                                          *)

\* listSignableKeysForUpdate, and the keys in use that activate looks up.
InUse == {k \in Key : key[k].status = "active" /\ key[k].retire_after = Null}

\* verifyOAuthAccessToken's filter over the keys of the issuer.
Verifiable(k, now) == /\ key[k].status = "active"
                      /\ key[k].activates_at <= now
                      /\ key[k].retire_after = Null \/ key[k].retire_after > now

\* isPublishableAt.
Publishable(k, now) ==
  \/ /\ key[k].status = "published"
     /\ key[k].published_at <= now /\ now < key[k].activates_at
  \/ /\ key[k].status = "active"
     /\ key[k].activates_at <= now

Jwks == {k \in Key : Publishable(k, clock)}

\* Mutant of PublishLead: seconds taken for minutes.
LeadInMinutes == Lead \div 60
PublishLead == Lead

\* validateOAuthSigningKeyLifecycle finds no issue.
LifecycleValid(row) ==
  /\ row.activates_at # Null =>
       row.published_at # Null /\ row.activates_at >= row.published_at + PublishLead
  /\ row.last_signed_at # Null =>
       row.activates_at # Null /\ row.last_signed_at >= row.activates_at
  /\ row.retire_after # Null =>
       row.last_signed_at # Null /\ row.retire_after >= row.last_signed_at + Grace
  /\ row.retired_at # Null =>
       row.retire_after # Null /\ row.retired_at >= row.retire_after
  /\ row.status = "staged" => row = [NoKey EXCEPT !.status = "staged"]
  /\ row.status \in {"published", "active", "retired"} =>
       row.published_at # Null /\ row.activates_at # Null
  /\ row.status = "published" => row.last_signed_at = Null /\ row.retire_after = Null
  /\ row.status = "retired" <=> row.retired_at # Null

-----------------------------------------------------------------------------
(* Administrative operations.                                              *)

Locked(o) == IF op[o] = NoOp THEN {} ELSE op[o].rows
Free(o, k) == \A p \in Admin \ {o} : k \notin Locked(p)

Generate(k) ==
  /\ key[k].status = "none"
  /\ key' = [key EXCEPT ![k].status = "staged"]
  /\ UNCHANGED <<clock, op, advisory, signing, newest, cache>>

\* this.now() is evaluated before the repository opens its transaction.
Ask(o) ==
  /\ op[o] = NoOp
  /\ \E kind \in Kind, k \in Key :
        /\ key[k].status # "none"
        /\ op' = [op EXCEPT ![o] = [kind |-> kind, key |-> k, now |-> clock,
                                    phase |-> "asked", rows |-> {}]]
  /\ UNCHANGED <<clock, key, advisory, signing, newest, cache>>

At(o, kind, phase) == op[o] # NoOp /\ op[o].kind = kind /\ op[o].phase = phase

\* Mutant of Unlock: pg_advisory_lock outlives a transaction that is rejected.
KeepLock(o) == UNCHANGED advisory
Unlock(o) == advisory' = IF advisory = o THEN Nobody ELSE advisory

\* The transaction ends, with the rows it wrote or, rejected, with none.
Finish(o) == /\ op' = [op EXCEPT ![o] = NoOp]
             /\ UNCHANGED <<clock, signing, newest, cache>>
Reject(o) == Finish(o) /\ Unlock(o) /\ UNCHANGED key

ActivationTime(now) == now + PublishLead

Publish(o) ==
  LET k == op[o].key
  IN  /\ At(o, "publish", "asked")
      /\ Free(o, k)
      /\ \/ /\ key[k].status = "staged"
            /\ key' = [key EXCEPT ![k].status = "published",
                                  ![k].published_at = op[o].now,
                                  ![k].activates_at = ActivationTime(op[o].now)]
            /\ Finish(o) /\ UNCHANGED advisory
         \/ key[k].status # "staged" /\ Reject(o)

\* Mutant of AdvisoryFree: activate without the advisory lock.
AdvisoryIgnored(o) == TRUE
AdvisoryFree(o) == advisory = Nobody

ActivateAcquire(o) ==
  /\ At(o, "activate", "asked")
  /\ AdvisoryFree(o)
  /\ advisory' = o
  /\ op' = [op EXCEPT ![o].phase = "exclusive"]
  /\ UNCHANGED <<clock, key, signing, newest, cache>>

ActivateLock(o) ==
  LET k == op[o].key
      ready == key[k].status = "published" /\ key[k].activates_at <= op[o].now
  IN  /\ At(o, "activate", "exclusive")
      /\ Free(o, k)
      /\ \/ /\ ready
            /\ op' = [op EXCEPT ![o].phase = "target", ![o].rows = {k}]
            /\ UNCHANGED <<clock, key, advisory, signing, newest, cache>>
         \/ ~ready /\ Reject(o)

\* SELECT ... FOR UPDATE of the keys in use.  Rows another transaction has
\* written but not committed are seen as they were.
ActivateScan(o) ==
  /\ At(o, "activate", "target")
  /\ \A k \in InUse : Free(o, k)
  /\ \/ /\ Cardinality(InUse) <= 1
        /\ op' = [op EXCEPT ![o].phase = "write", ![o].rows = @ \cup InUse]
        /\ UNCHANGED <<clock, key, advisory, signing, newest, cache>>
     \/ Cardinality(InUse) > 1 /\ Reject(o)

\* Mutants of Deadline: the grace forgets the verifiers' skew and cache, or is
\* counted backwards.
ShortGrace(row) == row.last_signed_at + AccessTTL
GraceBackwards(row) == row.last_signed_at - Grace
Deadline(row) == IF row.retire_after # Null THEN row.retire_after
                                            ELSE row.last_signed_at + Grace

\* What activate does to the key in use, and retire to its own.
Superseded(row, now) ==
  IF row.last_signed_at = Null THEN [row EXCEPT !.status = "disabled"]
  ELSE IF Deadline(row) <= now
       THEN [row EXCEPT !.status = "retired", !.retire_after = Deadline(row), !.retired_at = now]
       ELSE [row EXCEPT !.retire_after = Deadline(row)]

ActivateCommit(o) ==
  LET k == op[o].key
  IN  /\ At(o, "activate", "write")
      /\ key' = [j \in Key |-> IF j = k THEN [key[j] EXCEPT !.status = "active"]
                               ELSE IF j \in op[o].rows THEN Superseded(key[j], op[o].now)
                               ELSE key[j]]
      /\ Finish(o) /\ Unlock(o)

Retire(o) ==
  LET k == op[o].key
  IN  /\ At(o, "retire", "asked")
      /\ Free(o, k)
      /\ \/ /\ key[k].status = "active"
            /\ key' = [key EXCEPT ![k] = Superseded(@, op[o].now)]
            /\ Finish(o) /\ UNCHANGED advisory
         \/ key[k].status # "active" /\ Reject(o)

\* Only a key no token depends on can be withdrawn at once.
Disablable(row) == \/ row.status \in {"staged", "published"}
                   \/ row.status = "active" /\ row.last_signed_at = Null

Disable(o) ==
  LET k == op[o].key
  IN  /\ At(o, "disable", "asked")
      /\ Free(o, k)
      /\ \/ /\ Disablable(key[k])
            /\ key' = [key EXCEPT ![k].status = "disabled"]
            /\ Finish(o) /\ UNCHANGED advisory
         \/ ~Disablable(key[k]) /\ Reject(o)

-----------------------------------------------------------------------------
(* Token requests, the verifier, the clock.                                *)

BeginSigning(w) ==
  /\ signing[w] = Null
  /\ signing' = [signing EXCEPT ![w] = clock]
  /\ UNCHANGED <<clock, key, op, advisory, newest, cache>>

\* Mutant of LaterOf: the last writer wins, however old its time.
LastWriter(x, y) == y
LaterOf(x, y) == Max({x, y})

\* listSignableKeysForUpdate locks the keys in use, selectOAuthSigningKey wants
\* exactly one, markSigningKeyUsed records the captured time.
Sign(w) ==
  /\ signing[w] # Null
  /\ \A k \in InUse, p \in Admin : k \notin Locked(p)
  /\ \E k \in Key :
        /\ {j \in InUse : key[j].activates_at <= signing[w]} = {k}
        /\ LifecycleValid(key[k])
        /\ key' = [key EXCEPT ![k].last_signed_at = LaterOf(@, signing[w])]
        /\ newest' = [newest EXCEPT ![k] = Max({@, signing[w]})]
  /\ signing' = [signing EXCEPT ![w] = Null]
  /\ UNCHANGED <<clock, op, advisory, cache>>

\* No signable key, a key that a concurrent activation withdrew while the
\* request waited for its row, or any other error: temporarily_unavailable.
SigningFails(w) ==
  /\ signing[w] # Null
  /\ signing' = [signing EXCEPT ![w] = Null]
  /\ UNCHANGED <<clock, key, op, advisory, newest, cache>>

\* GET /oauth/jwks; with no key to show it answers 503.
Fetch == /\ Jwks # {}
         /\ cache' = [keys |-> Jwks, at |-> clock]
         /\ UNCHANGED <<clock, key, op, advisory, signing, newest>>

Tick == /\ clock < MaxTime
        /\ clock' = clock + 1
        /\ UNCHANGED <<key, op, advisory, signing, newest, cache>>

Proceed(o) == \/ Publish(o) \/ Retire(o) \/ Disable(o)
              \/ ActivateAcquire(o) \/ ActivateLock(o) \/ ActivateScan(o)
              \/ ActivateCommit(o)

Next == \/ \E k \in Key : Generate(k)
        \/ \E o \in Admin : Ask(o) \/ Proceed(o)
        \/ \E w \in Signer : BeginSigning(w) \/ Sign(w) \/ SigningFails(w)
        \/ Fetch
        \/ Tick

Spec == Init /\ [][Next]_vars

\* An operation that can go on does: PostgreSQL grants a lock its holder has
\* released.  Nothing makes an administrator ask, a client sign or a clock run.
Fairness == \A o \in Admin : SF_vars(Proceed(o))
FairSpec == Spec /\ Fairness

-----------------------------------------------------------------------------
(* Properties.                                                             *)

Row == [status : {"none", "staged", "published", "active", "retired", "disabled"},
        published_at : TimeOrNull, activates_at : TimeOrNull,
        last_signed_at : TimeOrNull, retire_after : TimeOrNull, retired_at : TimeOrNull]
Operation == [kind : Kind, key : Key, now : Nat,
              phase : {"asked", "exclusive", "target", "write"}, rows : SUBSET Key]

\* Columns and operations hold what the code may put there.
TypeOK == /\ clock \in Nat
          /\ key \in [Key -> Row]
          /\ op \in [Admin -> Operation \cup {NoOp}]
          /\ advisory \in Admin \cup {Nobody}
          /\ signing \in [Signer -> TimeOrNull]
          /\ newest \in [Key -> TimeOrNull]
          /\ cache \in [keys : SUBSET Key, at : TimeOrNull]

\* However activations, retirements and signatures race, never are two keys in
\* use: with two, selectOAuthSigningKey refuses to sign and activate refuses to
\* repair it (admin-repository.ts:941, signing.ts:158).
OneKeyInUse == Cardinality(InUse) <= 1

\* What the operations write always passes the CHECK constraints of
\* migrations/003 and the validation that verification and the JWKS apply.
LifecyclesAreValid == \A k \in Key : LifecycleValid(key[k])

Alive(k) == newest[k] # Null /\ clock < newest[k] + AccessTTL + Skew

\* Until the last token a key signed has expired for every verifier, the issuer
\* verifies with that key and the JWKS shows it, whoever retires or supersedes
\* it and however late a request that signed with it recorded its time
\* (OAUTH_P0_CONTRACT.md:124-129).
TokensStayVerifiable == \A k \in Key : Alive(k) => Verifiable(k, clock) /\ k \in Jwks

FreshCache == cache.at # Null /\ clock <= cache.at + CacheAge

\* The publication lead outlives caches: a verifier whose JWKS is still fresh
\* but older than a key's publication meets no token of that key.
LeadOutlivesCaches ==
  \A k \in Key : Alive(k) /\ FreshCache /\ cache.at < key[k].published_at => k \in cache.keys

\* Every operation ends: no order of lock requests leaves one waiting for ever.
OperationsEnd == \A o \in Admin : op[o] # NoOp ~> op[o] = NoOp
=============================================================================
