-------------------------- MODULE OAuthAdmin_proof --------------------------
(***************************************************************************)
(* Proofs about two things administrators change beside one another: the   *)
(* secrets of a credential owner (Credentials) and the native grants of a  *)
(* resource (NativeGrants), for any number of administrators, callers,     *)
(* secrets, people and scopes.                                             *)
(*                                                                         *)
(* Secrets.  That one secret works, and that an answer goes to a secret    *)
(* that works, both rest on who excludes whom, which the strengthening     *)
(* Exclusion says: one rotation at a time, no caller beside it once the    *)
(* owner is locked, and the secrets a rotation retires are all that work.  *)
(*                                                                         *)
(* Grants.  That a committed bulk grant covers its matrix rests on what    *)
(* its check locked: a row that it found stays as it was found until the   *)
(* commit (Provided), since no other and no sign-in holds it               *)
(* (NativeCompatible, SignInsApart), and the unique indexes make one row   *)
(* of a pair the only one.                                                 *)
(***************************************************************************)
EXTENDS Credentials, NativeGrants, FiniteSetTheorems, SequenceTheorems, TLAPS

-----------------------------------------------------------------------------
(* Secrets: what every step keeps.                                         *)

Sharing(r) == caller[r].step \in {"owner", "authenticated"}
Using(r) == caller[r].step \in {"credential", "authenticated"}

\* FOR UPDATE of the owner admits one rotation and no caller that has locked it.
OneRotation == \A o, p \in Operator :
                  rotation[o].step # "idle" /\ rotation[p].step # "idle" => o = p
OwnerExclusive == \A o \in Operator, r \in Caller : rotation[o].step # "idle" => ~Sharing(r)

\* What a rotation has taken is what works.
TakenIsActive == \A o \in Operator :
                    rotation[o].old = IF rotation[o].step = "taken" THEN Active ELSE {}

\* A caller's secret works and is not being retired; its owner may call.
SecretHeld == \A r \in Caller : Using(r) =>
                 /\ caller[r].secret \in Credential
                 /\ Working(caller[r].secret)
                 /\ \A o \in Operator : caller[r].secret \notin rotation[o].old
OwnerHeld == \A r \in Caller : Sharing(r) => Eligible

Exclusion == OneRotation /\ OwnerExclusive /\ TakenIsActive /\ SecretHeld /\ OwnerHeld

SecretsInv == CredentialsTypeOK /\ OneActiveCredential /\ Exclusion

-----------------------------------------------------------------------------

\* The parent of a new secret is a secret, or none: of at most one that worked
\* the newest is that one.
LEMMA NewestOfOne ==
  ASSUME NEW S \in SUBSET Credential, \A c, d \in S : c = d
  PROVE  Newest(S) \in Credential \cup {0}
  <1>1. CASE S = {}
    BY <1>1 DEF Newest
  <1>2. CASE S # {}
    <2>1. PICK c \in S : TRUE
      BY <1>2
    <2>2. c \in S /\ \A d \in S : d <= c
      BY <2>1 DEF Credential
    <2>3. Newest(S) \in S
      BY <1>2, <2>2 DEF Newest
    <2> QED
      BY <2>3
  <1> QED
    BY <1>1, <1>2

\* The first secret works, and nobody is at work.
LEMMA SecretsInitInv == CredentialsInit => SecretsInv
  <1> SUFFICES ASSUME CredentialsInit PROVE SecretsInv
    OBVIOUS
  <1> USE CredentialsBound DEF CredentialsInit
  <1>1. CredentialsTypeOK
    BY DEF CredentialsTypeOK, Credential, NoCredential, NotRotating, Rotating, NotCalling, Calling
  <1>2. OneActiveCredential
    BY DEF OneActiveCredential, Working, Credential, NoCredential
  <1>3. Exclusion
    BY DEF Exclusion, OneRotation, OwnerExclusive, TakenIsActive, SecretHeld, OwnerHeld,
           Sharing, Using, NotRotating, Rotating, NotCalling, Calling
  <1> QED
    BY <1>1, <1>2, <1>3 DEF SecretsInv

-----------------------------------------------------------------------------
(* Operators.                                                              *)

\* A rotation that begins finds no other, and no caller that has the owner.
LEMMA RotateLockInv ==
  ASSUME SecretsInv, NEW o \in Operator, RotateLock(o) PROVE SecretsInv'
  <1> USE DEF RotateLock, SecretsInv, Rotating
  <1>1. CredentialsTypeOK'
    BY DEF CredentialsTypeOK
  <1>2. OneActiveCredential'
    BY DEF OneActiveCredential, Working
  <1>3. OneRotation' /\ OwnerExclusive'
    BY DEF CredentialsTypeOK, Exclusion, OneRotation, OwnerExclusive, Sharing, OwnerFree,
           OwnerTaken, OwnerShared
  <1>4. TakenIsActive' /\ SecretHeld' /\ OwnerHeld'
    BY DEF CredentialsTypeOK, Exclusion, TakenIsActive, SecretHeld, OwnerHeld, Active, Working,
           Using, Sharing, Eligible
  <1> QED
    BY <1>1, <1>2, <1>3, <1>4 DEF Exclusion

\* It takes all secrets that work, and no caller holds one of them.
LEMMA RotateTakeInv ==
  ASSUME SecretsInv, NEW o \in Operator, RotateTake(o) PROVE SecretsInv'
  <1> USE DEF RotateTake, SecretsInv, Rotating
  <1>1. CredentialsTypeOK'
    BY DEF CredentialsTypeOK, Active
  <1>2. OneActiveCredential'
    BY DEF OneActiveCredential, Working
  <1>3. OneRotation' /\ OwnerExclusive' /\ OwnerHeld'
    BY DEF CredentialsTypeOK, Exclusion, OneRotation, OwnerExclusive, OwnerHeld, Sharing, Eligible
  <1>4. TakenIsActive'
    BY DEF CredentialsTypeOK, Exclusion, TakenIsActive, Active
  <1>5. SecretHeld'
    BY DEF CredentialsTypeOK, Exclusion, SecretHeld, Using, Active, Working, CredentialFree,
           CredentialShared
  <1> QED
    BY <1>1, <1>2, <1>3, <1>4, <1>5 DEF Exclusion

\* It commits: what worked is retired, its successor works, and nobody used what
\* is retired.
LEMMA RotateCommitInv ==
  ASSUME SecretsInv, NEW o \in Operator, RotateCommit(o) PROVE SecretsInv'
  <1> USE DEF SecretsInv
  <1> DEFINE old == rotation[o].old
  <1>1. PICK c \in Credential :
          /\ credentials[c].status = "none"
          /\ credentials' = [d \in Credential |->
                IF d = c THEN [status |-> "active", parent |-> Newest(old)]
                ELSE IF d \in old
                THEN [status |-> "retired", parent |-> credentials[d].parent]
                ELSE credentials[d]]
    BY DEF RotateCommit
  <1>2. old = Active /\ old \in SUBSET Credential
    BY DEF RotateCommit, Exclusion, TakenIsActive, Active
  <1>3. Newest(old) \in Credential \cup {0}
    <2>1. \A d, e \in old : d = e
      BY <1>2 DEF OneActiveCredential, Working, Active
    <2> QED
      BY <1>2, <2>1, NewestOfOne
  <1>4. rotation' = [rotation EXCEPT ![o] = [step |-> "idle", old |-> {}]]
    BY DEF RotateCommit, NotRotating, Rotating
  <1>5. CredentialsTypeOK'
    BY <1>1, <1>3, <1>4 DEF CredentialsTypeOK, RotateCommit
  <1>6. \A d \in Credential : credentials'[d].status = "active" => d = c
    BY <1>1, <1>2 DEF Active
  <1>7. OneActiveCredential'
    BY <1>6 DEF OneActiveCredential, Working
  <1>8. \A p \in Operator : rotation'[p].step = "idle" /\ rotation'[p].old = {}
    <2> SUFFICES ASSUME NEW p \in Operator
                 PROVE  rotation'[p].step = "idle" /\ rotation'[p].old = {}
      OBVIOUS
    <2>1. CASE p = o
      BY <2>1, <1>4 DEF CredentialsTypeOK
    <2>2. CASE p # o
      <3>1. rotation[p].step = "idle"
        BY <2>2 DEF RotateCommit, Exclusion, OneRotation
      <3>2. rotation[p].old = {}
        BY <3>1 DEF Exclusion, TakenIsActive
      <3> QED
        BY <2>2, <3>1, <3>2, <1>4
    <2> QED
      BY <2>1, <2>2
  <1>9. \A r \in Caller : ~Using(r)
    BY <1>2 DEF Exclusion, SecretHeld, Active, Working
  <1>10. UNCHANGED <<owner, caller>>
    BY DEF RotateCommit
  <1>11. OneRotation' /\ OwnerExclusive' /\ TakenIsActive'
    BY <1>8 DEF OneRotation, OwnerExclusive, TakenIsActive
  <1>12. SecretHeld'
    BY <1>9, <1>10 DEF SecretHeld, Using
  <1>13. OwnerHeld'
    BY <1>10 DEF Exclusion, OwnerHeld, Sharing, Eligible
  <1>14. Exclusion'
    BY <1>11, <1>12, <1>13 DEF Exclusion
  <1> QED
    BY <1>5, <1>7, <1>14

\* A rollback forgets what was taken.
LEMMA RotateFailsInv ==
  ASSUME SecretsInv, NEW o \in Operator, RotateFails(o) PROVE SecretsInv'
  <1> USE DEF RotateFails, SecretsInv, Rotating, NotRotating
  <1>1. CredentialsTypeOK' /\ OneActiveCredential'
    BY DEF CredentialsTypeOK, OneActiveCredential, Working
  <1>2. OneRotation' /\ OwnerExclusive' /\ OwnerHeld'
    BY DEF CredentialsTypeOK, Exclusion, OneRotation, OwnerExclusive, OwnerHeld, Sharing, Eligible
  <1>3. TakenIsActive' /\ SecretHeld'
    BY DEF CredentialsTypeOK, Exclusion, TakenIsActive, SecretHeld, Using, Active, Working
  <1> QED
    BY <1>1, <1>2, <1>3 DEF Exclusion

\* What is retired on its own is free: no rotation has it, so none is under way
\* with its secrets taken, and no caller uses it.
LEMMA RetireInv ==
  ASSUME SecretsInv, NEW o \in Operator, NEW c \in Credential, Retire(o, c) PROVE SecretsInv'
  <1> USE DEF Retire, SecretsInv
  <1>1. \A d \in Credential : /\ credentials'[d].status =
                                   IF d = c THEN "retired" ELSE credentials[d].status
                              /\ credentials'[d].parent = credentials[d].parent
    OBVIOUS
  <1>2. CredentialsTypeOK'
    BY DEF CredentialsTypeOK
  <1>3. OneActiveCredential'
    BY <1>1 DEF OneActiveCredential, Working
  <1>4. \A p \in Operator : rotation[p].step # "taken"
    BY DEF CredentialFree, CredentialTaken, Exclusion, TakenIsActive, Active
  <1>5. \A r \in Caller : Using(r) => caller[r].secret # c
    BY DEF CredentialFree, CredentialShared, Using
  <1>6. TakenIsActive'
    BY <1>4 DEF Exclusion, TakenIsActive
  <1>7. SecretHeld'
    BY <1>1, <1>5 DEF Exclusion, SecretHeld, Using, Working
  <1>8. OneRotation' /\ OwnerExclusive' /\ OwnerHeld'
    BY DEF Exclusion, OneRotation, OwnerExclusive, OwnerHeld, Sharing, Eligible
  <1> QED
    BY <1>2, <1>3, <1>6, <1>7, <1>8 DEF Exclusion

\* The owner's status changes under nobody's lock.
LEMMA SetOwnerStatusInv ==
  ASSUME SecretsInv, NEW o \in Operator, NEW status \in OwnerStatus, SetOwnerStatus(o, status) PROVE SecretsInv'
  <1> USE DEF SetOwnerStatus, SecretsInv
  <1>1. CredentialsTypeOK' /\ OneActiveCredential'
    BY DEF CredentialsTypeOK, OneActiveCredential, Working
  <1>2. OneRotation' /\ OwnerExclusive' /\ TakenIsActive' /\ SecretHeld'
    BY DEF Exclusion, OneRotation, OwnerExclusive, TakenIsActive, SecretHeld, Sharing, Using,
           Active, Working
  <1>3. OwnerHeld'
    BY DEF OwnerHeld, Sharing, OwnerFree, OwnerShared
  <1> QED
    BY <1>1, <1>2, <1>3 DEF Exclusion

-----------------------------------------------------------------------------
(* Callers.                                                                *)

\* A caller moves to a step with a secret; everything else stays.  It may use a
\* secret only if that secret works and nobody retires it, and share the owner
\* only if the owner may call and nobody rotates.
LEMMA CallerMoves ==
  ASSUME SecretsInv, NEW r \in Caller,
         NEW step \in {"idle", "owner", "credential", "authenticated"},
         NEW secret \in Credential \cup {0},
         caller' = [caller EXCEPT ![r] = [step |-> step, secret |-> secret]],
         UNCHANGED <<owner, credentials, rotation>>,
         step \in {"credential", "authenticated"} =>
            secret \in Credential /\ Working(secret) /\ ~CredentialTaken(secret),
         step \in {"owner", "authenticated"} => Eligible /\ ~OwnerTaken
  PROVE  SecretsInv'
  <1> USE DEF SecretsInv
  <1>1. CredentialsTypeOK' /\ OneActiveCredential'
    BY DEF CredentialsTypeOK, OneActiveCredential, Working
  <1>2. OneRotation' /\ TakenIsActive'
    BY DEF Exclusion, OneRotation, TakenIsActive, Active
  <1>3. OwnerExclusive' /\ OwnerHeld'
    BY DEF CredentialsTypeOK, Exclusion, OwnerExclusive, OwnerHeld, Sharing, Eligible, OwnerTaken
  <1>4. SecretHeld'
    BY DEF CredentialsTypeOK, Exclusion, SecretHeld, Using, Working, CredentialTaken
  <1> QED
    BY <1>1, <1>2, <1>3, <1>4 DEF Exclusion

LEMMA CallInv ==
  ASSUME SecretsInv, NEW r \in Caller, Call(r) PROVE SecretsInv'
  <1>1. CASE LockClient(r)
    BY <1>1, CallerMoves DEF LockClient, Calling
  <1>2. CASE LockResource(r)
    <2>1. Using(r)
      BY <1>2 DEF LockResource, Using
    <2>2. /\ caller[r].secret \in Credential
          /\ Working(caller[r].secret)
          /\ ~CredentialTaken(caller[r].secret)
      BY <2>1 DEF SecretsInv, Exclusion, SecretHeld, CredentialTaken
    <2> QED
      BY <1>2, <2>2, CallerMoves DEF LockResource, Calling
  <1>3. CASE CallEnds(r)
    BY <1>3, CallerMoves DEF CallEnds, NotCalling, Calling
  <1>4. CASE \E c \in Credential : MatchSecret(r, c)
    <2>1. PICK c \in Credential : MatchSecret(r, c)
      BY <1>4
    <2>2. Eligible /\ ~OwnerTaken
      BY <2>1 DEF MatchSecret, SecretsInv, Exclusion, OwnerHeld, OwnerExclusive, Sharing, OwnerTaken
    <2> QED
      BY <2>1, <2>2, CallerMoves DEF MatchSecret, Calling
  <1>5. CASE \E c \in Credential : LockCredential(r, c)
    BY <1>5, CallerMoves DEF LockCredential, Calling
  <1> QED
    BY <1>1, <1>2, <1>3, <1>4, <1>5 DEF Call

-----------------------------------------------------------------------------

\* A step that leaves the variables alone keeps each part of the invariant.
LEMMA NothingMovesInv == ASSUME SecretsInv, UNCHANGED credentialVars PROVE SecretsInv'
  <1>1. UNCHANGED owner /\ UNCHANGED credentials /\ UNCHANGED rotation /\ UNCHANGED caller
    BY DEF credentialVars
  <1>2. CredentialsTypeOK /\ OneActiveCredential /\ OneRotation /\ OwnerExclusive
        /\ TakenIsActive /\ SecretHeld /\ OwnerHeld
    BY DEF SecretsInv, Exclusion
  <1>3. CredentialsTypeOK'
    BY <1>1, <1>2 DEF CredentialsTypeOK
  <1>4. \A c \in Credential : Working(c)' = Working(c)
    BY <1>1 DEF Working
  <1>5. Active' = Active
    BY <1>1 DEF Active, Working
  <1>6. Eligible' = Eligible
    BY <1>1 DEF Eligible
  <1>7. \A r \in Caller : Sharing(r)' = Sharing(r) /\ Using(r)' = Using(r)
    BY <1>1 DEF Sharing, Using
  <1>8. OneActiveCredential'
    BY <1>1, <1>2, <1>4 DEF OneActiveCredential
  <1>9. OneRotation'
    BY <1>1, <1>2 DEF OneRotation
  <1>10. OwnerExclusive'
    BY <1>1, <1>2, <1>7 DEF OwnerExclusive
  <1>11. TakenIsActive'
    BY <1>1, <1>2, <1>5 DEF TakenIsActive
  <1>12. SecretHeld'
    BY <1>1, <1>2, <1>4, <1>7 DEF SecretHeld
  <1>13. OwnerHeld'
    BY <1>2, <1>6, <1>7 DEF OwnerHeld
  <1> QED
    BY <1>3, <1>8, <1>9, <1>10, <1>11, <1>12, <1>13 DEF SecretsInv, Exclusion

\* Every step keeps the strengthened invariant.
LEMMA SecretsNextInv == SecretsInv /\ [CredentialsNext]_credentialVars => SecretsInv'
  <1> SUFFICES ASSUME SecretsInv, [CredentialsNext]_credentialVars PROVE SecretsInv'
    OBVIOUS
  <1>1. CASE \E o \in Operator : Rotate(o)
    BY <1>1, RotateLockInv, RotateTakeInv, RotateCommitInv, RotateFailsInv DEF Rotate
  <1>2. CASE \E o \in Operator, c \in Credential : Retire(o, c)
    BY <1>2, RetireInv
  <1>3. CASE \E o \in Operator, status \in OwnerStatus : SetOwnerStatus(o, status)
    BY <1>3, SetOwnerStatusInv
  <1>4. CASE \E r \in Caller : Call(r)
    BY <1>4, CallInv
  <1>5. CASE UNCHANGED credentialVars
    BY <1>5, NothingMovesInv
  <1> QED
    BY <1>1, <1>2, <1>3, <1>4, <1>5 DEF CredentialsNext

LEMMA SecretsInvHolds == CredentialsSpec => []SecretsInv
  BY SecretsInitInv, SecretsNextInv, PTL DEF CredentialsSpec

\* The rows and the transactions hold what the code can put there.
THEOREM CredentialTypes == CredentialsSpec => []CredentialsTypeOK
  <1>1. SecretsInv => CredentialsTypeOK
    BY DEF SecretsInv
  <1> QED
    BY <1>1, SecretsInvHolds, PTL

\* However many administrators rotate and retire at once, and whatever fails
\* meanwhile, the owner has at most one secret that works
\* (src/oauth/admin-repository.ts:848-894).
THEOREM OneSecretWorks == CredentialsSpec => []OneActiveCredential
  <1>1. SecretsInv => OneActiveCredential
    BY DEF SecretsInv
  <1> QED
    BY <1>1, SecretsInvHolds, PTL

\* A request that has authenticated commits under a secret that works and an
\* owner that may call (src/oauth/token-repository.ts:150-221).
THEOREM AnswersToCurrentSecrets == CredentialsSpec => []AnswersAreCurrent
  <1>1. SecretsInv => AnswersAreCurrent
    BY DEF SecretsInv, Exclusion, SecretHeld, OwnerHeld, Using, Sharing, AnswersAreCurrent
  <1> QED
    BY <1>1, SecretsInvHolds, PTL

-----------------------------------------------------------------------------
(* Grants: what every step keeps.                                          *)

GrantRow == [status : {"active", "pending_user_link", "revoked", "expired"}, until : Until]
Live == {"active", "pending_user_link"}

NativeTables ==
  /\ today \in 0..MaxToday
  /\ people \in [Human -> {"none", "active", "disabled"}]
  /\ offered \subseteq Offer
  /\ native \in [Pair -> Seq(GrantRow)]
  /\ signin = [h \in Human |-> signin[h]]
  /\ \A h \in Human : signin[h].step \in {"out", "user", "linked"}
  /\ op = [a \in Admin |-> op[a]]
  /\ Unique(native) /\ Bounded(native)

\* A row that one has locked FOR UPDATE no other has locked, and no sign-in.
NativeCompatible ==
  \A a, b \in Admin :
    a # b => (Holds(a, "share") \cup Holds(a, "update")) \cap Holds(b, "update") = {}
SignInsApart ==
  \A h \in Human : \A a \in Admin :
    (signin[h].expire \cup signin[h].link) \cap Holds(a, "update") = {}

\* A pair has a row of this status and time that is locked and will not expire.
Found(o, p, status) ==
  \E i \in DOMAIN native[p] :
    /\ <<"native", p, i>> \in o.update \ o.expire
    /\ native[p][i].status = status
    /\ status = "active" => native[p][i].until = Forever \/ native[p][i].until > o.checked
Provided(o, p, status) == (p \in DOMAIN o.insert /\ o.insert[p] = status) \/ Found(o, p, status)

\* What a request asks for, and what its check found and decided.
AskFits(o) == o.people \subseteq Human /\ o.scopes \subseteq Offer /\ o.until \in Until
GrantFits(o) ==
  /\ AskFits(o)
  /\ {"share", "update"} \subseteq DOMAIN o
  /\ o.expire \subseteq o.update
  /\ \A p \in DOMAIN o.insert : o.insert[p] \in Live
BulkFits(o) ==
  /\ o.checked \in Nat
  /\ o.until = Forever \/ o.until > o.checked
  /\ o.known \subseteq o.people
  /\ \A s \in o.scopes : s \in offered /\ OfferRow(s) \in o.share
  /\ \A h \in o.known : people[h] = "active" /\ PersonRow(h) \in o.update
  /\ \A p \in o.people \X o.scopes :
        Provided(o, p, IF p[1] \in o.known THEN "active" ELSE "pending_user_link")

Fits(o) == /\ o.kind = "asked" => AskFits(o)
           /\ o.kind = "granting" => GrantFits(o) /\ (o.what = "bulk" => BulkFits(o))

NativeInv == NativeTables /\ NativeCompatible /\ SignInsApart /\ \A a \in Admin : Fits(op[a])

-----------------------------------------------------------------------------
(* Rows.                                                                   *)

LEMMA RowsOf ==
  ASSUME NEW table \in [Pair -> Seq(GrantRow)], NEW p \in Pair
  PROVE  /\ table[p] \in Seq(GrantRow) /\ Len(table[p]) \in Nat
         /\ DOMAIN table[p] = 1..Len(table[p])
         /\ \A i \in DOMAIN table[p] : table[p][i] \in GrantRow
  <1>1. table[p] \in Seq(GrantRow)
    OBVIOUS
  <1> QED
    BY <1>1, LenProperties, ElementOfSeq

\* A sequence whose elements are replaced.
LEMMA Replaced ==
  ASSUME NEW old \in Seq(GrantRow), NEW new, new = [i \in DOMAIN old |-> new[i]],
         \A i \in DOMAIN old : new[i] \in GrantRow
  PROVE  new \in Seq(GrantRow) /\ Len(new) = Len(old) /\ DOMAIN new = DOMAIN old
  <1>1. Len(old) \in Nat /\ DOMAIN old = 1..Len(old)
    BY LenProperties
  <1>2. new \in [1..Len(old) -> GrantRow]
    BY <1>1
  <1>3. new \in Seq(GrantRow)
    BY <1>1, <1>2, SeqDef
  <1>4. DOMAIN new = 1..Len(new) /\ Len(new) \in Nat
    BY <1>3, LenProperties
  <1> QED
    BY <1>1, <1>2, <1>3, <1>4

\* One at most, and here is one.
LEMMA OnlyOne ==
  ASSUME NEW table \in [Pair -> Seq(GrantRow)], NEW p \in Pair, NEW status,
         Count(table, p, status) <= 1, NEW i \in DOMAIN table[p], table[p][i].status = status
  PROVE  /\ Count(table, p, status) = 1
         /\ \A j \in DOMAIN table[p] : table[p][j].status = status => j = i
  <1> DEFINE S == {j \in DOMAIN table[p] : table[p][j].status = status}
  <1>1. IsFiniteSet(DOMAIN table[p])
    BY RowsOf, FS_Interval
  <1>2. IsFiniteSet(S)
    BY <1>1, FS_Subset
  <1>3. Cardinality(S) \in Nat /\ Cardinality(S) <= 1
    BY <1>2, FS_CardinalityType DEF Count
  <1>4. i \in S
    OBVIOUS
  <1>5. Cardinality(S) # 0
    BY <1>2, <1>4, FS_EmptySet
  <1>6. Cardinality(S) = 1
    BY <1>3, <1>5
  <1>7. PICK x : S = {x}
    BY <1>2, <1>6, FS_Singleton
  <1>8. \A j \in S : j = i
    BY <1>4, <1>7
  <1> QED
    BY <1>6, <1>8 DEF Count

\* Rows that leave a status do not make it more frequent.
LEMMA Fewer ==
  ASSUME NEW table \in [Pair -> Seq(GrantRow)], NEW new \in [Pair -> Seq(GrantRow)],
         NEW p \in Pair, NEW status, Count(table, p, status) <= 1,
         DOMAIN new[p] = DOMAIN table[p],
         \A i \in DOMAIN table[p] : new[p][i].status = status => table[p][i].status = status
  PROVE  Count(new, p, status) <= 1
  <1> DEFINE S == {j \in DOMAIN table[p] : table[p][j].status = status}
             N == {j \in DOMAIN new[p] : new[p][j].status = status}
  <1>1. IsFiniteSet(S)
    <2>1. IsFiniteSet(DOMAIN table[p])
      BY RowsOf, FS_Interval
    <2> QED
      BY <2>1, FS_Subset
  <1>2. N \in SUBSET S
    OBVIOUS
  <1>3. Cardinality(N) <= Cardinality(S) /\ IsFiniteSet(N)
    BY <1>1, <1>2, FS_Subset
  <1>4. Cardinality(N) \in Nat /\ Cardinality(S) \in Nat
    BY <1>1, <1>3, FS_CardinalityType
  <1>5. Cardinality(S) <= 1
    BY DEF Count
  <1>6. Cardinality(N) <= 1
    BY <1>3, <1>4, <1>5
  <1> QED
    BY <1>6 DEF Count

\* The rows of a pair stay, save that those of gone may change.
KeepsRest(table, p, gone) ==
  /\ table[p] \in Seq(GrantRow) /\ DOMAIN native[p] \subseteq DOMAIN table[p]
  /\ \A i \in DOMAIN native[p] : <<"native", p, i>> \notin gone => table[p][i] = native[p][i]

\* A pair of f gets a row, another gets none.
Adds(table, p, f, until) ==
  /\ p \in DOMAIN f => \E j \in DOMAIN table[p] : table[p][j] = [status |-> f[p], until |-> until]
  /\ p \notin DOMAIN f => Len(table[p]) = Len(native[p])

\* What a commit leaves of a pair's rows, and what it adds.
LEMMA WrittenRows ==
  ASSUME native \in [Pair -> Seq(GrantRow)], NEW p \in Pair, NEW expire, NEW link, NEW f,
         NEW until \in Until, \A q \in DOMAIN f : f[q] \in Live,
         NEW table, table = Written(expire, link, f, until)
  PROVE  KeepsRest(table, p, expire \cup link) /\ Adds(table, p, f, until)
  <1>1. PICK rows \in Seq(GrantRow) : rows = native[p]
    BY RowsOf
  <1>2. PICK old : old = [i \in DOMAIN rows |->
          IF <<"native", p, i>> \in expire THEN [rows[i] EXCEPT !.status = "expired"]
          ELSE IF <<"native", p, i>> \in link THEN [rows[i] EXCEPT !.status = "active"]
          ELSE rows[i]]
    OBVIOUS
  <1>3. \A i \in DOMAIN rows : Row(<<"native", p, i>>) = rows[i]
    BY <1>1 DEF Row
  <1>4. table[p] = IF p \in DOMAIN f THEN Append(old, [status |-> f[p], until |-> until]) ELSE old
    BY <1>1, <1>2, <1>3 DEF Written
  <1>5. Len(rows) \in Nat /\ DOMAIN rows = 1..Len(rows) /\ \A i \in DOMAIN rows : rows[i] \in GrantRow
    BY LenProperties, ElementOfSeq
  <1>6. ASSUME NEW i \in DOMAIN rows
        PROVE  /\ old[i] \in GrantRow
               /\ <<"native", p, i>> \notin expire \cup link => old[i] = rows[i]
    <2>1. PICK row \in GrantRow : row = rows[i]
      BY <1>5
    <2>2. [row EXCEPT !.status = "expired"] \in GrantRow /\ [row EXCEPT !.status = "active"] \in GrantRow
      BY DEF GrantRow
    <2> QED
      BY <1>2, <2>1, <2>2
  <1>7. old \in Seq(GrantRow) /\ Len(old) = Len(rows) /\ DOMAIN old = DOMAIN rows
    <2>1. old = [i \in DOMAIN rows |-> old[i]] /\ \A i \in DOMAIN rows : old[i] \in GrantRow
      BY <1>2, <1>6
    <2> QED
      BY <2>1, Replaced
  <1>8. CASE p \notin DOMAIN f
    <2>1. table[p] = old
      BY <1>4, <1>8
    <2>2. /\ DOMAIN table[p] = DOMAIN native[p] /\ Len(table[p]) = Len(native[p])
          /\ table[p] \in Seq(GrantRow)
      BY <1>1, <1>7, <2>1
    <2>3. \A i \in DOMAIN native[p] :
            <<"native", p, i>> \notin expire \cup link => table[p][i] = native[p][i]
      BY <1>1, <1>6, <2>1
    <2>4. KeepsRest(table, p, expire \cup link)
      BY <2>2, <2>3 DEF KeepsRest
    <2> QED
      BY <1>8, <2>2, <2>4 DEF Adds
  <1>9. CASE p \in DOMAIN f
    <2>1. PICK row : row = [status |-> f[p], until |-> until]
      OBVIOUS
    <2>2. row \in GrantRow
      BY <1>9, <2>1 DEF GrantRow, Live
    <2>3. table[p] = Append(old, row)
      BY <1>4, <1>9, <2>1
    <2>4. /\ table[p] \in Seq(GrantRow) /\ Len(table[p]) = Len(rows) + 1
          /\ \A i \in 1..Len(rows) : table[p][i] = old[i]
          /\ table[p][Len(rows) + 1] = row
      BY <1>7, <2>2, <2>3, AppendProperties
    <2>5. DOMAIN table[p] = 1..(Len(rows) + 1)
      BY <2>4, LenProperties
    <2>6. DOMAIN rows \subseteq DOMAIN table[p] /\ Len(rows) + 1 \in DOMAIN table[p]
      BY <1>5, <2>5
    <2>7. \A i \in DOMAIN rows : table[p][i] = old[i]
      BY <1>5, <2>4
    <2>8. KeepsRest(table, p, expire \cup link)
      BY <1>1, <1>6, <2>4, <2>6, <2>7 DEF KeepsRest
    <2> QED
      BY <1>9, <2>1, <2>4, <2>6, <2>8 DEF Adds
  <1> QED
    BY <1>8, <1>9

\* A table that is written is one.
LEMMA WrittenTable ==
  ASSUME native \in [Pair -> Seq(GrantRow)], NEW expire, NEW link, NEW f,
         NEW until \in Until, \A q \in DOMAIN f : f[q] \in Live,
         NEW table, table = Written(expire, link, f, until)
  PROVE  table \in [Pair -> Seq(GrantRow)]
  <1>1. \A p \in Pair : table[p] \in Seq(GrantRow)
    BY WrittenRows DEF KeepsRest
  <1>2. table = [p \in Pair |-> table[p]]
    BY DEF Written
  <1> QED
    BY <1>1, <1>2

-----------------------------------------------------------------------------
(* What the steps of others leave alone.                                   *)

SparesRows(o) ==
  \A p \in Pair : \A i \in DOMAIN native[p] :
    <<"native", p, i>> \in o.update => i \in DOMAIN native'[p] /\ native'[p][i] = native[p][i]
SparesOffers(o) == \A s \in offered : OfferRow(s) \in o.share => s \in offered'
SparesPeople(o) ==
  \A h \in Human : people[h] = "active" /\ PersonRow(h) \in o.update => people'[h] = "active"
Spares(o) == SparesRows(o) /\ SparesOffers(o) /\ SparesPeople(o)

LEMMA FoundStays ==
  ASSUME NEW o, NEW p \in Pair, NEW status, Found(o, p, status), SparesRows(o)
  PROVE  Found(o, p, status)'
  <1>1. PICK i \in DOMAIN native[p] :
          /\ <<"native", p, i>> \in o.update \ o.expire /\ native[p][i].status = status
          /\ status = "active" => native[p][i].until = Forever \/ native[p][i].until > o.checked
    BY DEF Found
  <1>2. i \in DOMAIN native'[p] /\ native'[p][i] = native[p][i]
    BY <1>1 DEF SparesRows
  <1> QED
    BY <1>1, <1>2 DEF Found

LEMMA StaysFit ==
  ASSUME NEW o, Fits(o), o.kind = "granting" => Spares(o) PROVE Fits(o)'
  <1>1. CASE o.kind # "granting"
    BY <1>1 DEF Fits, AskFits
  <1>2. CASE o.kind = "granting" /\ o.what # "bulk"
    BY <1>2 DEF Fits, AskFits, GrantFits
  <1>3. CASE o.kind = "granting" /\ o.what = "bulk"
    <2>1. BulkFits(o) /\ GrantFits(o) /\ AskFits(o)
      BY <1>3 DEF Fits, GrantFits
    <2>2. ASSUME NEW p \in o.people \X o.scopes
          PROVE  Provided(o, p, IF p[1] \in o.known THEN "active" ELSE "pending_user_link")'
      <3>1. PICK status : status = IF p[1] \in o.known THEN "active" ELSE "pending_user_link"
        OBVIOUS
      <3>2. Provided(o, p, status)
        BY <2>1, <3>1 DEF BulkFits
      <3>3. p \in Pair
        BY <2>1 DEF AskFits, Pair
      <3>4. Provided(o, p, status)'
        BY <1>3, <3>2, <3>3, FoundStays DEF Provided, Spares
      <3> QED
        BY <3>1, <3>4
    <2>3. \A s \in o.scopes : s \in offered'
      BY <1>3, <2>1 DEF BulkFits, Spares, SparesOffers
    <2>4. \A h \in o.known : people'[h] = "active"
      BY <1>3, <2>1 DEF BulkFits, AskFits, Spares, SparesPeople
    <2>5. BulkFits(o)'
      BY <2>1, <2>2, <2>3, <2>4 DEF BulkFits
    <2> QED
      BY <1>3, <2>1, <2>5 DEF Fits, GrantFits, AskFits
  <1> QED
    BY <1>1, <1>2, <1>3

-----------------------------------------------------------------------------
(* What the steps of one kind have in common.                              *)

\* One that leaves the requests where they are.
LEMMA OpStays ==
  ASSUME NativeInv, UNCHANGED op, NativeTables', SignInsApart',
         \A b \in Admin : op[b].kind = "granting" => Spares(op[b])
  PROVE  NativeInv'
  <1>1. NativeCompatible'
    BY DEF NativeInv, NativeCompatible, Holds
  <1>2. ASSUME NEW b \in Admin PROVE Fits(op[b])'
    <2>1. PICK o : o = op[b]
      OBVIOUS
    <2>2. Fits(o)'
      BY <2>1, StaysFit DEF NativeInv
    <2> QED
      BY <2>1, <2>2
  <1> QED
    BY <1>1, <1>2 DEF NativeInv

Held(o, mode) == IF mode \in DOMAIN o THEN o[mode] ELSE {}

\* One that takes the request of an administrator a step further.
LEMMA OpMoves ==
  ASSUME NativeInv, NEW a \in Admin, NEW o, op' = [op EXCEPT ![a] = o],
         CanLock(a, Held(o, "share"), Held(o, "update")), Fits(o)',
         NativeTables', SignInsApart',
         \A b \in Admin : b # a /\ op[b].kind = "granting" => Spares(op[b])
  PROVE  NativeInv'
  <1>1. op'[a] = o /\ \A b \in Admin : b # a => op'[b] = op[b]
    BY DEF NativeInv, NativeTables
  <1>2. NativeCompatible'
    <2>1. \A b \in Admin : b # a => /\ Holds(b, "share")' = Holds(b, "share")
                                    /\ Holds(b, "update")' = Holds(b, "update")
      BY <1>1 DEF Holds
    <2>2. Holds(a, "share")' = Held(o, "share") /\ Holds(a, "update")' = Held(o, "update")
      BY <1>1 DEF Holds, Held
    <2> QED
      BY <2>1, <2>2 DEF NativeInv, NativeCompatible, CanLock
  <1>3. ASSUME NEW b \in Admin PROVE Fits(op[b])'
    <2>1. CASE b = a
      BY <1>1, <2>1
    <2>2. CASE b # a
      <3>1. PICK r : r = op[b]
        OBVIOUS
      <3>2. Fits(r)'
        BY <2>2, <3>1, StaysFit DEF NativeInv
      <3> QED
        BY <1>1, <2>2, <3>1, <3>2
    <2> QED
      BY <2>1, <2>2
  <1> QED
    BY <1>2, <1>3 DEF NativeInv

\* One that only takes a request a step further.
LEMMA OnlyOpMoves ==
  ASSUME NativeInv, NEW a \in Admin, NEW o, op' = [op EXCEPT ![a] = o],
         UNCHANGED <<today, people, offered, native, signin>>,
         Locks(a, Held(o, "share"), Held(o, "update")), Fits(o)
  PROVE  NativeInv'
  <1>1. op'[a] = o /\ \A b \in Admin : b # a => op'[b] = op[b]
    BY DEF NativeInv, NativeTables
  <1>2. NativeTables'
    <2>1. op' = [b \in Admin |-> op'[b]]
      BY DEF NativeInv, NativeTables
    <2>2. Unique(native)' /\ Bounded(native)'
      BY DEF NativeInv, NativeTables, Unique, Bounded, Count
    <2> QED
      BY <2>1, <2>2 DEF NativeInv, NativeTables
  <1>3. SignInsApart'
    <2>1. \A b \in Admin : Holds(b, "update")' = IF b = a THEN Held(o, "update") ELSE Holds(b, "update")
      BY <1>1 DEF Holds, Held
    <2>2. \A h \in Human : (signin[h].expire \cup signin[h].link) \cap Held(o, "update") = {}
      BY DEF Locks, HeldBySignIns
    <2> QED
      BY <2>1, <2>2 DEF NativeInv, SignInsApart
  <1>4. \A r : Spares(r)
    BY DEF Spares, SparesRows, SparesOffers, SparesPeople
  <1>5. Fits(o)'
    BY <1>4, StaysFit
  <1>6. CanLock(a, Held(o, "share"), Held(o, "update"))
    BY DEF Locks
  <1> QED
    BY <1>2, <1>3, <1>4, <1>5, <1>6, OpMoves

-----------------------------------------------------------------------------
(* Granting.                                                               *)

LEMMA AskInv ==
  ASSUME NativeInv, NEW a \in Admin, NEW what, NEW H \in SUBSET Human, NEW S \in SUBSET Offer,
         NEW until \in Until, Ask(a, what, H, S, until)
  PROVE  NativeInv'
  <1>1. PICK now : now = today
    OBVIOUS
  <1>2. PICK o : o = [kind |-> "asked", what |-> what, people |-> H, scopes |-> S,
                      until |-> until, now |-> now]
    OBVIOUS
  <1>3. /\ op' = [op EXCEPT ![a] = o]
        /\ UNCHANGED <<today, people, offered, native, signin>>
    BY <1>1, <1>2 DEF Ask, Begins
  <1>4. Held(o, "share") = {} /\ Held(o, "update") = {}
    BY <1>2 DEF Held
  <1>5. Locks(a, Held(o, "share"), Held(o, "update"))
    BY <1>4 DEF Locks, CanLock
  <1>6. Fits(o)
    BY <1>2 DEF Fits, AskFits
  <1> QED
    BY <1>3, <1>5, <1>6, OnlyOpMoves

LEMMA CloseInv == ASSUME NativeInv, NEW a \in Admin, Close(a) PROVE NativeInv'
  <1>1. /\ op' = [op EXCEPT ![a] = NoOp]
        /\ UNCHANGED <<today, people, offered, native, signin>>
    BY DEF Close, Fails, Ends
  <1>2. Held(NoOp, "share") = {} /\ Held(NoOp, "update") = {} /\ Fits(NoOp)
    BY DEF Held, NoOp, Fits
  <1>3. Locks(a, Held(NoOp, "share"), Held(NoOp, "update"))
    BY <1>2 DEF Locks, CanLock
  <1> QED
    BY <1>1, <1>2, <1>3, OnlyOpMoves

\* What a request of an administrator says of itself.
LEMMA Asked ==
  ASSUME NativeInv, NEW a \in Admin, Doing(a, "asked") PROVE AskFits(op[a])
  BY DEF NativeInv, Fits, Doing

\* A check that has its locks and fits goes on.
LEMMA GoesOn ==
  ASSUME NativeInv, NEW a \in Admin, Doing(a, "asked"), NEW f, NEW expire, NEW share, NEW update,
         Goes(a, Granting(a, f, expire, share, update)), Locks(a, share, update),
         UNCHANGED <<today, people, offered, native, signin>>,
         expire \subseteq update, \A p \in DOMAIN f : f[p] \in Live,
         op[a].what = "bulk" => BulkFits(Granting(a, f, expire, share, update))
  PROVE  NativeInv'
  <1>1. PICK o : o = Granting(a, f, expire, share, update)
    OBVIOUS
  <1>2. /\ o.kind = "granting" /\ o.what = op[a].what /\ o.people = op[a].people
        /\ o.scopes = op[a].scopes /\ o.until = op[a].until
        /\ o.insert = f /\ o.expire = expire /\ o.share = share /\ o.update = update
        /\ {"share", "update"} \subseteq DOMAIN o
    BY <1>1 DEF Granting
  <1>3. GrantFits(o)
    BY <1>2, Asked DEF GrantFits, AskFits
  <1>4. Fits(o)
    BY <1>1, <1>2, <1>3 DEF Fits
  <1>5. Held(o, "share") = share /\ Held(o, "update") = update
    BY <1>2 DEF Held
  <1>6. Locks(a, Held(o, "share"), Held(o, "update")) /\ op' = [op EXCEPT ![a] = o]
    BY <1>1, <1>5 DEF Goes
  <1> QED
    BY <1>4, <1>6, OnlyOpMoves

LEMMA HavingRows ==
  ASSUME NEW p, NEW status, NEW g
  PROVE  g \in Having(p, status) <=>
           \E i \in DOMAIN native[p] : g = <<"native", p, i>> /\ native[p][i].status = status
  BY DEF Having

LEMMA HavingAnyRows ==
  ASSUME NEW P, NEW status, NEW g
  PROVE  g \in HavingAny(P, status) <=> \E p \in P : g \in Having(p, status)
  BY DEF HavingAny

LEMMA CheckOneInv == ASSUME NativeInv, NEW a \in Admin, CheckOne(a) PROVE NativeInv'
  <1>1. PICK pairs, active, share, update, f :
          /\ pairs = op[a].people \X op[a].scopes
          /\ active = HavingAny(pairs, "active")
          /\ share = {OfferRow(s) : s \in op[a].scopes}
          /\ update = {PersonRow(h) : h \in op[a].people} \cup active
          /\ f = [p \in pairs |-> "active"]
    OBVIOUS
  <1>2. /\ Doing(a, "asked") /\ op[a].what = "one" /\ Locks(a, share, update)
        /\ Goes(a, Granting(a, f, active, share, update))
        /\ UNCHANGED <<today, people, offered, native, signin>>
    BY <1>1 DEF CheckOne
  <1>3. active \subseteq update /\ \A p \in DOMAIN f : f[p] \in Live
    BY <1>1 DEF Live
  <1> QED
    BY <1>2, <1>3, GoesOn

LEMMA CheckBulkInv == ASSUME NativeInv, NEW a \in Admin, CheckBulk(a) PROVE NativeInv'
  <1>1. PICK H, S, known, now, active, pending, elapsed :
          /\ H = op[a].people /\ S = op[a].scopes /\ known = Known(H) /\ now = today
          /\ active = HavingAny(known \X S, "active")
          /\ pending = HavingAny((H \ known) \X S, "pending_user_link")
          /\ elapsed = {g \in active : Elapsed(g, now)}
    OBVIOUS
  <1>2. PICK new, later, f, share, update :
          /\ new = {p \in known \X S : Having(p, "active") \subseteq elapsed}
          /\ later = {p \in (H \ known) \X S : Having(p, "pending_user_link") = {}}
          /\ f = [p \in new \cup later |-> IF p \in new THEN "active" ELSE "pending_user_link"]
          /\ share = {OfferRow(s) : s \in S}
          /\ update = {PersonRow(h) : h \in known} \cup active \cup pending
    OBVIOUS
  <1>3. /\ Doing(a, "asked") /\ op[a].what = "bulk" /\ Standing(a, H)
        /\ op[a].until = Forever \/ op[a].until > now
        /\ Locks(a, share, update) /\ Goes(a, Granting(a, f, elapsed, share, update))
        /\ UNCHANGED <<today, people, offered, native, signin>>
    BY <1>1, <1>2 DEF CheckBulk, BulkTime
  <1>4. elapsed \subseteq update /\ \A p \in DOMAIN f : f[p] \in Live
    BY <1>1, <1>2 DEF Live
  <1>5. PICK o : o = Granting(a, f, elapsed, share, update)
    OBVIOUS
  <1>6. /\ o.people = H /\ o.scopes = S /\ o.known = known /\ o.until = op[a].until
        /\ o.insert = f /\ o.expire = elapsed /\ o.checked = now /\ o.share = share
        /\ o.update = update
    BY <1>1, <1>5 DEF Granting
  <1>7. H \subseteq Human /\ S \subseteq Offer /\ known \subseteq H
    BY <1>1, <1>3, Asked DEF AskFits, Known
  <1>8. ASSUME NEW p \in known \X S PROVE Provided(o, p, "active")
    <2>1. CASE p \in new
      BY <1>2, <1>6, <2>1 DEF Provided
    <2>2. CASE p \notin new
      <3>1. PICK g \in Having(p, "active") : g \notin elapsed
        BY <1>2, <2>2
      <3>2. PICK i \in DOMAIN native[p] : g = <<"native", p, i>> /\ native[p][i].status = "active"
        BY <3>1, HavingRows
      <3>3. g \in active
        BY <1>1, <3>1, HavingAnyRows
      <3>4. ~Elapsed(g, now)
        BY <1>1, <3>1, <3>3
      <3>5. PICK row : row = native[p][i]
        OBVIOUS
      <3>6. row.until \in Until
        <4>1. p \in Pair
          BY <1>7 DEF Pair
        <4>2. row \in GrantRow
          BY <3>5, <4>1, RowsOf DEF NativeInv, NativeTables
        <4> QED
          BY <4>2 DEF GrantRow
      <3>7. ~(row.until # Forever /\ row.until <= now)
        BY <3>2, <3>4, <3>5 DEF Elapsed, Row
      <3>8. row.until = Forever \/ row.until > now
        <4>1. now \in Nat /\ row.until \in Int
          BY <1>1, <3>6, NativeBounds DEF NativeInv, NativeTables, Until, Forever
        <4> QED
          BY <3>7, <4>1
      <3> QED
        BY <1>2, <1>6, <3>1, <3>2, <3>3, <3>5, <3>8 DEF Provided, Found
    <2> QED
      BY <2>1, <2>2
  <1>9. ASSUME NEW p \in (H \ known) \X S PROVE Provided(o, p, "pending_user_link")
    <2>1. CASE p \in later
      <3>1. p \notin new
        BY <1>2
      <3> QED
        BY <1>2, <1>6, <2>1, <3>1 DEF Provided
    <2>2. CASE p \notin later
      <3>1. PICK g : g \in Having(p, "pending_user_link")
        BY <1>2, <2>2
      <3>2. PICK i \in DOMAIN native[p] :
              g = <<"native", p, i>> /\ native[p][i].status = "pending_user_link"
        BY <3>1, HavingRows
      <3>3. g \in update
        BY <1>1, <1>2, <3>1, HavingAnyRows
      <3>4. g \notin elapsed
        <4>1. SUFFICES ASSUME g \in active PROVE FALSE
          BY <1>1
        <4>2. PICK q : g \in Having(q, "active")
          BY <1>1, <4>1, HavingAnyRows
        <4>3. PICK j \in DOMAIN native[q] : g = <<"native", q, j>> /\ native[q][j].status = "active"
          BY <4>2, HavingRows
        <4> QED
          BY <3>2, <4>3
      <3> QED
        BY <1>6, <3>2, <3>3, <3>4 DEF Provided, Found
    <2> QED
      BY <2>1, <2>2
  <1>10. BulkFits(o)
    <2>1. \A s \in S : s \in offered /\ OfferRow(s) \in share
      BY <1>1, <1>2, <1>3 DEF Standing
    <2>2. \A h \in known : people[h] = "active" /\ PersonRow(h) \in update
      BY <1>1, <1>2, <1>3 DEF Standing
    <2>3. \A p \in H \X S : Provided(o, p, IF p[1] \in known THEN "active" ELSE "pending_user_link")
      BY <1>8, <1>9
    <2>4. now \in Nat
      BY <1>1, NativeBounds DEF NativeInv, NativeTables
    <2> QED
      BY <1>3, <1>6, <1>7, <2>1, <2>2, <2>3, <2>4 DEF BulkFits
  <1> QED
    BY <1>3, <1>4, <1>5, <1>10, GoesOn

LEMMA CommitGrantsInv == ASSUME NativeInv, NEW a \in Admin, CommitGrants(a) PROVE NativeInv'
  <1>1. PICK o, told, table : /\ o = op[a] /\ told = [kind |-> "told"]
                              /\ table = Written(o.expire, {}, o.insert, o.until)
    OBVIOUS
  <1>2. /\ o.kind = "granting" /\ Unique(table) /\ Bounded(table) /\ native' = table
        /\ op' = [op EXCEPT ![a] = told] /\ UNCHANGED <<today, people, offered, signin>>
    BY <1>1 DEF CommitGrants, Doing, Goes
  <1>3. GrantFits(o)
    BY <1>1, <1>2 DEF NativeInv, Fits
  <1>4. o.until \in Until /\ (\A p \in DOMAIN o.insert : o.insert[p] \in Live)
        /\ o.expire \subseteq o.update /\ Holds(a, "update") = o.update
    BY <1>1, <1>3 DEF GrantFits, AskFits, Holds
  <1>5. native \in [Pair -> Seq(GrantRow)]
    BY DEF NativeInv, NativeTables
  <1>6. table \in [Pair -> Seq(GrantRow)]
    BY <1>1, <1>4, <1>5, WrittenTable
  <1>7. op'[a] = told /\ \A b \in Admin : b # a => op'[b] = op[b]
    BY <1>2 DEF NativeInv, NativeTables
  <1>8. NativeTables'
    <2>1. op' = [b \in Admin |-> op'[b]]
      BY <1>2 DEF NativeInv, NativeTables
    <2>2. Unique(native)' /\ Bounded(native)'
      BY <1>2 DEF Unique, Bounded, Count
    <2>3. native' \in [Pair -> Seq(GrantRow)]
      BY <1>2, <1>6
    <2>4. /\ UNCHANGED today /\ UNCHANGED people /\ UNCHANGED offered /\ UNCHANGED signin
      BY <1>2
    <2> QED
      BY <2>1, <2>2, <2>3, <2>4 DEF NativeInv, NativeTables
  <1>9. Held(told, "share") = {} /\ Held(told, "update") = {} /\ Fits(told)'
    BY <1>1 DEF Held, Fits
  <1>10. SignInsApart'
    <2>1. \A b \in Admin : Holds(b, "update")' \subseteq Holds(b, "update")
      BY <1>7, <1>9 DEF Holds, Held
    <2> QED
      BY <1>2, <2>1 DEF NativeInv, SignInsApart
  <1>11. ASSUME NEW b \in Admin, b # a, op[b].kind = "granting" PROVE Spares(op[b])
    <2>1. Holds(b, "update") = op[b].update
      BY <1>11 DEF NativeInv, Fits, GrantFits, Holds
    <2>2. op[b].update \cap o.expire = {}
      BY <1>4, <1>11, <2>1 DEF NativeInv, NativeCompatible
    <2>3. ASSUME NEW p \in Pair, NEW i \in DOMAIN native[p], <<"native", p, i>> \in op[b].update
          PROVE  i \in DOMAIN table[p] /\ table[p][i] = native[p][i]
      <3>1. KeepsRest(table, p, o.expire \cup {})
        BY <1>1, <1>4, <1>5, WrittenRows
      <3> QED
        BY <2>2, <2>3, <3>1 DEF KeepsRest
    <2>4. SparesRows(op[b])
      BY <1>2, <2>3 DEF SparesRows
    <2> QED
      BY <1>2, <2>4 DEF Spares, SparesOffers, SparesPeople
  <1>12. CanLock(a, Held(told, "share"), Held(told, "update"))
    BY <1>9 DEF CanLock
  <1> QED
    BY <1>2, <1>8, <1>9, <1>10, <1>11, <1>12, OpMoves

\* Rows an administrator is granted no other administrator has locked.
LEMMA Granted ==
  ASSUME NativeInv, NEW a \in Admin, op[a] = NoOp, NEW b \in Admin, op[b].kind = "granting",
         NEW G, Locks(a, {}, G)
  PROVE  G \cap op[b].share = {} /\ G \cap op[b].update = {}
  <1>1. a # b
    BY DEF NoOp
  <1>2. Holds(b, "share") = op[b].share /\ Holds(b, "update") = op[b].update
    BY DEF NativeInv, Fits, GrantFits, Holds
  <1> QED
    BY <1>1, <1>2 DEF Locks, CanLock

LEMMA RevokeInv ==
  ASSUME NativeInv, NEW a \in Admin, NEW G, Revoke(a, G) PROVE NativeInv'
  <1>1. PICK new : new = [p \in Pair |-> [i \in DOMAIN native[p] |->
          IF <<"native", p, i>> \in G /\ native[p][i].status \in Live
          THEN [native[p][i] EXCEPT !.status = "revoked"] ELSE native[p][i]]]
    OBVIOUS
  <1>2. /\ op[a] = NoOp /\ Locks(a, {}, G) /\ native' = new
        /\ UNCHANGED <<today, people, offered, signin, op>>
    BY <1>1 DEF Revoke, Live
  <1>3. native \in [Pair -> Seq(GrantRow)]
    BY DEF NativeInv, NativeTables
  <1>4. ASSUME NEW p \in Pair
        PROVE  /\ new[p] \in Seq(GrantRow) /\ Len(new[p]) = Len(native[p])
               /\ DOMAIN new[p] = DOMAIN native[p]
               /\ \A i \in DOMAIN native[p] :
                     /\ new[p][i].status \in Live => new[p][i].status = native[p][i].status
                     /\ <<"native", p, i>> \notin G => new[p][i] = native[p][i]
    <2>1. PICK rows \in Seq(GrantRow) : rows = native[p]
      BY <1>3, RowsOf
    <2>2. ASSUME NEW i \in DOMAIN rows
          PROVE  /\ new[p][i] \in GrantRow
                 /\ new[p][i].status \in Live => new[p][i].status = rows[i].status
                 /\ <<"native", p, i>> \notin G => new[p][i] = rows[i]
      <3>1. PICK row \in GrantRow : row = rows[i]
        BY <1>3, <2>1, RowsOf
      <3>2. PICK gone \in GrantRow : gone = [row EXCEPT !.status = "revoked"]
        BY DEF GrantRow
      <3>3. gone.status \notin Live
        BY <3>2 DEF GrantRow, Live
      <3>4. new[p][i] = IF <<"native", p, i>> \in G /\ row.status \in Live THEN gone ELSE row
        BY <1>1, <2>1, <3>1, <3>2
      <3> QED
        BY <3>1, <3>3, <3>4
    <2>3. new[p] = [i \in DOMAIN rows |-> new[p][i]]
      BY <1>1, <2>1
    <2>4. PICK seq : seq = new[p]
      OBVIOUS
    <2>5. seq \in Seq(GrantRow) /\ Len(seq) = Len(rows) /\ DOMAIN seq = DOMAIN rows
      BY <2>2, <2>3, <2>4, Replaced
    <2> QED
      BY <2>1, <2>2, <2>4, <2>5
  <1>5. new \in [Pair -> Seq(GrantRow)]
    BY <1>1, <1>4
  <1>6. Unique(new)
    <2>1. ASSUME NEW p \in Pair, NEW status \in Live PROVE Count(new, p, status) <= 1
      <3>1. Count(native, p, status) <= 1
        BY <2>1 DEF NativeInv, NativeTables, Unique, Live
      <3> QED
        BY <1>3, <1>4, <1>5, <3>1, Fewer
    <2> QED
      BY <2>1 DEF Unique, Live
  <1>7. Bounded(new)
    BY <1>4 DEF NativeInv, NativeTables, Bounded
  <1>8. NativeTables'
    BY <1>2, <1>5, <1>6, <1>7 DEF NativeInv, NativeTables, Unique, Bounded, Count
  <1>9. SignInsApart'
    BY <1>2 DEF NativeInv, SignInsApart, Holds
  <1>10. ASSUME NEW b \in Admin, op[b].kind = "granting" PROVE Spares(op[b])
    <2>1. G \cap op[b].update = {}
      BY <1>2, <1>10, Granted
    <2>2. SparesRows(op[b])
      BY <1>2, <1>4, <2>1 DEF SparesRows
    <2> QED
      BY <1>2, <2>2 DEF Spares, SparesOffers, SparesPeople
  <1> QED
    BY <1>2, <1>8, <1>9, <1>10, OpStays

LEMMA ChangeOfferInv ==
  ASSUME NativeInv, NEW a \in Admin, NEW S \in SUBSET Offer, ChangeOffer(a, S) PROVE NativeInv'
  <1>1. PICK G : G = {OfferRow(s) : s \in Offer}
    OBVIOUS
  <1>2. /\ op[a] = NoOp /\ Locks(a, {}, G) /\ offered' = S
        /\ UNCHANGED <<today, people, native, signin, op>>
    BY <1>1 DEF ChangeOffer
  <1>3. NativeTables' /\ SignInsApart'
    BY <1>2 DEF NativeInv, NativeTables, Unique, Bounded, Count, SignInsApart, Holds
  <1>4. ASSUME NEW b \in Admin, op[b].kind = "granting" PROVE Spares(op[b])
    <2>1. G \cap op[b].share = {}
      BY <1>2, <1>4, Granted
    <2>2. offered \subseteq Offer
      BY DEF NativeInv, NativeTables
    <2>3. SparesOffers(op[b])
      BY <1>1, <2>1, <2>2 DEF SparesOffers
    <2> QED
      BY <1>2, <2>3 DEF Spares, SparesRows, SparesPeople
  <1> QED
    BY <1>2, <1>3, <1>4, OpStays

LEMMA ChangePersonInv ==
  ASSUME NativeInv, NEW a \in Admin, NEW h \in Human, NEW status \in {"active", "disabled"},
         ChangePerson(a, h, status)
  PROVE  NativeInv'
  <1>1. PICK G : G = {PersonRow(h)}
    OBVIOUS
  <1>2. /\ op[a] = NoOp /\ Locks(a, {}, G) /\ people' = [people EXCEPT ![h] = status]
        /\ UNCHANGED <<today, offered, native, signin, op>>
    BY <1>1 DEF ChangePerson
  <1>3. NativeTables' /\ SignInsApart'
    BY <1>2 DEF NativeInv, NativeTables, Unique, Bounded, Count, SignInsApart, Holds
  <1>4. ASSUME NEW b \in Admin, op[b].kind = "granting" PROVE Spares(op[b])
    <2>1. G \cap op[b].update = {}
      BY <1>2, <1>4, Granted
    <2>2. people \in [Human -> {"none", "active", "disabled"}]
      BY DEF NativeInv, NativeTables
    <2>3. SparesPeople(op[b])
      BY <1>1, <1>2, <2>1, <2>2 DEF SparesPeople
    <2> QED
      BY <1>2, <2>3 DEF Spares, SparesRows, SparesOffers
  <1> QED
    BY <1>2, <1>3, <1>4, OpStays

-----------------------------------------------------------------------------
(* Signing in, and time.                                                   *)

\* A sign-in moves on; what it locks no administrator has locked.
Moves(h, s) == /\ signin' = [signin EXCEPT ![h] = s]
               /\ UNCHANGED <<today, people, offered, native, op>>
SignInFits(s) == /\ s.step \in {"out", "user", "linked"}
                 /\ (s.expire \cup s.link) \cap HeldByAdmins = {}

LEMMA SignInMoves ==
  ASSUME NativeInv, NEW h \in Human, NEW s, SignInFits(s), Moves(h, s) PROVE NativeInv'
  <1>1. signin'[h] = s /\ \A k \in Human : k # h => signin'[k] = signin[k]
    BY DEF Moves, NativeInv, NativeTables
  <1>2. NativeTables'
    <2>1. signin' = [k \in Human |-> signin'[k]]
      BY DEF Moves, NativeInv, NativeTables
    <2>2. \A k \in Human : signin'[k].step \in {"out", "user", "linked"}
      BY <1>1 DEF SignInFits, NativeInv, NativeTables
    <2>3. /\ UNCHANGED today /\ UNCHANGED people /\ UNCHANGED offered
          /\ UNCHANGED native /\ UNCHANGED op
      BY DEF Moves
    <2>4. Unique(native)' /\ Bounded(native)'
      BY <2>3 DEF NativeInv, NativeTables, Unique, Bounded, Count
    <2> QED
      BY <2>1, <2>2, <2>3, <2>4 DEF NativeInv, NativeTables
  <1>3. SignInsApart'
    <2>1. \A a \in Admin : (s.expire \cup s.link) \cap Holds(a, "update") = {}
      BY DEF SignInFits, HeldByAdmins
    <2> QED
      BY <1>1, <2>1 DEF Moves, NativeInv, SignInsApart, Holds
  <1>4. \A r : Spares(r)
    BY DEF Moves, Spares, SparesRows, SparesOffers, SparesPeople
  <1>5. UNCHANGED op
    BY DEF Moves
  <1> QED
    BY <1>2, <1>3, <1>4, <1>5, OpStays

LEMMA SignInStepsInv ==
  ASSUME NativeInv, NEW h \in Human, SignInBegin(h) \/ SignInLink(h) \/ SignInFails(h)
  PROVE  NativeInv'
  <1>1. CASE SignInBegin(h)
    <2>1. PICK s : s = [step |-> "user", expire |-> {}, link |-> {}]
      OBVIOUS
    <2>2. Moves(h, s)
      BY <1>1, <2>1 DEF Moves, SignInBegin, SignIn
    <2>3. SignInFits(s)
      BY <2>1 DEF SignInFits
    <2> QED
      BY <2>2, <2>3, SignInMoves
  <1>2. CASE SignInFails(h)
    <2>1. PICK s : s = NotSigningIn
      OBVIOUS
    <2>2. Moves(h, s)
      BY <1>2, <2>1 DEF Moves, SignInFails
    <2>3. SignInFits(s)
      BY <2>1 DEF SignInFits, NotSigningIn
    <2> QED
      BY <2>2, <2>3, SignInMoves
  <1>3. CASE SignInLink(h)
    <2>1. PICK pending, twins :
            /\ pending = HavingAny({h} \X Offer, "pending_user_link")
            /\ twins = {g \in pending : Having(g[2], "active") # {}}
      OBVIOUS
    <2>2. PICK s : s = [step |-> "linked", expire |-> twins, link |-> pending \ twins]
      OBVIOUS
    <2>3. pending \cap HeldByAdmins = {} /\ Moves(h, s)
      BY <1>3, <2>1, <2>2 DEF Moves, SignInLink, SignIn
    <2>4. s.step = "linked" /\ s.expire \cup s.link = pending
      BY <2>1, <2>2
    <2>5. SignInFits(s)
      BY <2>3, <2>4 DEF SignInFits
    <2> QED
      BY <2>3, <2>5, SignInMoves
  <1> QED
    BY <1>1, <1>2, <1>3

LEMMA SignInCommitInv == ASSUME NativeInv, NEW h \in Human, SignInCommit(h) PROVE NativeInv'
  <1>1. PICK expire, link, none, table :
          /\ expire = signin[h].expire /\ link = signin[h].link /\ none = <<>>
          /\ table = Written(expire, link, none, Forever)
    OBVIOUS
  <1>2. /\ Unique(table) /\ native' = table /\ people' = [people EXCEPT ![h] = "active"]
        /\ signin' = [signin EXCEPT ![h] = NotSigningIn] /\ UNCHANGED <<today, offered, op>>
    BY <1>1 DEF SignInCommit
  <1>3. DOMAIN none = {} /\ Forever \in Until
    BY <1>1 DEF Until
  <1>4. native \in [Pair -> Seq(GrantRow)] /\ people \in [Human -> {"none", "active", "disabled"}]
    BY DEF NativeInv, NativeTables
  <1>5. table \in [Pair -> Seq(GrantRow)]
    BY <1>1, <1>3, <1>4, WrittenTable
  <1>6. Bounded(table)
    <2>1. ASSUME NEW p \in Pair PROVE Len(table[p]) = Len(native[p])
      <3>1. p \notin DOMAIN none /\ (\A q \in DOMAIN none : none[q] \in Live) /\ Forever \in Until
        BY <1>3
      <3>2. table = Written(expire, link, none, Forever)
        BY <1>1
      <3>3. Adds(table, p, none, Forever)
        BY <1>4, <3>1, <3>2, WrittenRows
      <3> QED
        BY <3>1, <3>3 DEF Adds
    <2> QED
      BY <2>1 DEF NativeInv, NativeTables, Bounded
  <1>7. signin'[h] = NotSigningIn /\ \A k \in Human : k # h => signin'[k] = signin[k]
    BY <1>2 DEF NativeInv, NativeTables
  <1>8. NativeTables'
    <2>1. signin' = [k \in Human |-> signin'[k]]
      BY <1>2 DEF NativeInv, NativeTables
    <2>2. \A k \in Human : signin'[k].step \in {"out", "user", "linked"}
      BY <1>7 DEF NativeInv, NativeTables, NotSigningIn
    <2>3. people' \in [Human -> {"none", "active", "disabled"}]
      BY <1>2, <1>4
    <2>4. Unique(native)' /\ Bounded(native)'
      BY <1>2, <1>6 DEF Unique, Bounded, Count
    <2>5. native' \in [Pair -> Seq(GrantRow)] /\ UNCHANGED <<today, offered, op>>
      BY <1>2, <1>5
    <2> QED
      BY <2>1, <2>2, <2>3, <2>4, <2>5 DEF NativeInv, NativeTables
  <1>9. SignInsApart'
    BY <1>2, <1>7 DEF NativeInv, SignInsApart, Holds, NotSigningIn
  <1>10. ASSUME NEW b \in Admin, op[b].kind = "granting" PROVE Spares(op[b])
    <2>1. Holds(b, "update") = op[b].update
      BY <1>10 DEF NativeInv, Fits, GrantFits, Holds
    <2>2. (expire \cup link) \cap op[b].update = {}
      BY <1>1, <2>1 DEF NativeInv, SignInsApart
    <2>3. ASSUME NEW p \in Pair, NEW i \in DOMAIN native[p], <<"native", p, i>> \in op[b].update
          PROVE  i \in DOMAIN table[p] /\ table[p][i] = native[p][i]
      <3>1. KeepsRest(table, p, expire \cup link)
        BY <1>1, <1>3, <1>4, WrittenRows
      <3> QED
        BY <2>2, <2>3, <3>1 DEF KeepsRest
    <2>4. SparesRows(op[b])
      BY <1>2, <2>3 DEF SparesRows
    <2>5. SparesPeople(op[b])
      BY <1>2, <1>4 DEF SparesPeople
    <2> QED
      BY <1>2, <2>4, <2>5 DEF Spares, SparesOffers
  <1> QED
    BY <1>2, <1>8, <1>9, <1>10, OpStays

LEMMA TickInv == ASSUME NativeInv, Tick PROVE NativeInv'
  <1>1. today' \in 0..MaxToday /\ UNCHANGED <<people, offered, native, signin, op>>
    BY NativeBounds DEF Tick, NativeInv, NativeTables
  <1>2. NativeTables' /\ SignInsApart'
    BY <1>1 DEF NativeInv, NativeTables, Unique, Bounded, Count, SignInsApart, Holds
  <1>3. \A r : Spares(r)
    BY <1>1 DEF Spares, SparesRows, SparesOffers, SparesPeople
  <1> QED
    BY <1>1, <1>2, <1>3, OpStays

-----------------------------------------------------------------------------
(* Every behaviour.                                                        *)

LEMMA NativeInitInv == ASSUME NativeInit PROVE NativeInv
  <1>1. \A a \in Admin : op[a] = NoOp /\ Holds(a, "share") = {} /\ Holds(a, "update") = {}
    BY DEF NativeInit, Holds, NoOp
  <1>2. native \in [Pair -> Seq(GrantRow)]
    BY EmptySeq DEF NativeInit
  <1>3. Unique(native)
    <2>1. \A p \in Pair : DOMAIN native[p] = {}
      BY DEF NativeInit
    <2>2. \A p \in Pair, status \in Live : Count(native, p, status) = 0
      <3>1. \A p \in Pair, status \in Live : {i \in DOMAIN native[p] : native[p][i].status = status} = {}
        BY <2>1
      <3> QED
        BY <3>1, FS_EmptySet DEF Count
    <2> QED
      BY <2>2 DEF Unique, Live
  <1>4. Bounded(native)
    BY EmptySeq, NativeBounds DEF NativeInit, Bounded
  <1>5. NativeTables
    BY <1>2, <1>3, <1>4, NativeBounds DEF NativeInit, NativeTables, NotSigningIn
  <1>6. NativeCompatible /\ SignInsApart
    BY <1>1 DEF NativeCompatible, SignInsApart
  <1>7. \A a \in Admin : Fits(op[a])
    <2>1. NoOp.kind # "asked" /\ NoOp.kind # "granting"
      BY DEF NoOp
    <2>2. Fits(NoOp)
      BY <2>1 DEF Fits
    <2> QED
      BY <1>1, <2>2
  <1> QED
    BY <1>5, <1>6, <1>7 DEF NativeInv

LEMMA GrantsInv == ASSUME NativeInv, NEW a \in Admin, Grants(a) PROVE NativeInv'
  <1>1. CASE \E what \in {"bulk", "one"}, H \in (SUBSET Human) \ {{}}, S \in (SUBSET Offer) \ {{}},
                until \in Until : Ask(a, what, H, S, until)
    BY <1>1, AskInv
  <1>2. CASE CheckBulk(a) \/ CheckOne(a) \/ CommitGrants(a) \/ Close(a)
    BY <1>2, CheckBulkInv, CheckOneInv, CommitGrantsInv, CloseInv
  <1>3. CASE \E G \in SUBSET UNION {NativeRow(p) : p \in Pair} : Revoke(a, G)
    BY <1>3, RevokeInv
  <1>4. CASE \E S \in SUBSET Offer : ChangeOffer(a, S)
    BY <1>4, ChangeOfferInv
  <1>5. CASE \E h \in Human, status \in {"active", "disabled"} : ChangePerson(a, h, status)
    BY <1>5, ChangePersonInv
  <1> QED
    BY <1>1, <1>2, <1>3, <1>4, <1>5 DEF Grants

LEMMA NativeNextInv == ASSUME NativeInv, [NativeNext]_nativeVars PROVE NativeInv'
  <1>1. CASE \E a \in Admin : Grants(a)
    BY <1>1, GrantsInv
  <1>2. CASE \E h \in Human : SignsIn(h)
    BY <1>2, SignInStepsInv, SignInCommitInv DEF SignsIn
  <1>3. CASE Tick
    BY <1>3, TickInv
  <1>4. CASE UNCHANGED nativeVars
    <2>1. UNCHANGED <<today, people, offered, native, signin, op>>
      BY <1>4 DEF nativeVars
    <2>2. NativeTables' /\ SignInsApart'
      BY <2>1 DEF NativeInv, NativeTables, Unique, Bounded, Count, SignInsApart, Holds
    <2>3. \A r : Spares(r)
      BY <2>1 DEF Spares, SparesRows, SparesOffers, SparesPeople
    <2> QED
      BY <2>1, <2>2, <2>3, OpStays
  <1> QED
    BY <1>1, <1>2, <1>3, <1>4 DEF NativeNext

LEMMA NativeInvHolds == NativeSpec => []NativeInv
  <1> QED
    BY NativeInitInv, NativeNextInv, PTL DEF NativeSpec

LEMMA NativeTypesOK == ASSUME NativeInv PROVE NativeTypeOK
  <1>1. \A p \in Pair : \A i \in DOMAIN native[p] : native[p][i] \in GrantRow
    BY RowsOf DEF NativeInv, NativeTables
  <1> QED
    BY <1>1 DEF NativeInv, NativeTables, NativeTypeOK, GrantRow

\* The columns of native grants hold what they may, and the partial unique indexes
\* are never violated (migrations/006_oauth_native_entitlements_dark.sql).
THEOREM NativeTypes == NativeSpec => []NativeTypeOK
  <1> QED
    BY NativeTypesOK, NativeInvHolds, PTL

\* What a bulk grant leaves of a pair that its check provided for.
LEMMA Covered ==
  ASSUME NativeInv, NEW a \in Admin, CommitGrants(a), op[a].what = "bulk",
         NEW p \in op[a].people \X op[a].scopes
  PROVE  /\ p[2] \in offered
         /\ IF p[1] \in op[a].known
            THEN /\ people[p[1]] = "active"
                 /\ Count(native', p, "active") = 1
                 /\ \A i \in DOMAIN native'[p] : native'[p][i].status = "active" =>
                      native'[p][i].until = Forever \/ native'[p][i].until > op[a].checked
            ELSE Count(native', p, "pending_user_link") = 1
  <1>1. PICK o, table : o = op[a] /\ table = Written(o.expire, {}, o.insert, o.until)
    OBVIOUS
  <1>2. o.kind = "granting" /\ o.what = "bulk" /\ Unique(table) /\ native' = table
    BY <1>1 DEF CommitGrants, Doing
  <1>3. GrantFits(o) /\ BulkFits(o) /\ AskFits(o)
    BY <1>1, <1>2 DEF NativeInv, Fits, GrantFits
  <1>4. p \in Pair /\ p \in o.people \X o.scopes
    BY <1>1, <1>3 DEF AskFits, Pair
  <1>5. /\ native \in [Pair -> Seq(GrantRow)] /\ o.until \in Until
        /\ \A q \in DOMAIN o.insert : o.insert[q] \in Live
    BY <1>3 DEF NativeInv, NativeTables, GrantFits, AskFits
  <1>6. table \in [Pair -> Seq(GrantRow)]
    BY <1>1, <1>5, WrittenTable
  <1>7. PICK status : status = IF p[1] \in o.known THEN "active" ELSE "pending_user_link"
    OBVIOUS
  <1>8. Count(table, p, status) <= 1
    BY <1>2, <1>4, <1>7 DEF Unique
  <1>9. PICK i \in DOMAIN table[p] :
          /\ table[p][i].status = status
          /\ status = "active" => table[p][i].until = Forever \/ table[p][i].until > o.checked
    <2>1. Provided(o, p, status)
      BY <1>3, <1>4, <1>7 DEF BulkFits
    <2>2. CASE p \in DOMAIN o.insert /\ o.insert[p] = status
      <3>1. PICK j \in DOMAIN table[p] : table[p][j] = [status |-> status, until |-> o.until]
        <4>1. \E j \in DOMAIN table[p] : table[p][j] = [status |-> o.insert[p], until |-> o.until]
          <5>1. Adds(table, p, o.insert, o.until)
            BY <1>1, <1>4, <1>5, WrittenRows
          <5> QED
            BY <2>2, <5>1 DEF Adds
        <4> QED
          BY <2>2, <4>1
      <3>2. table[p][j].status = status /\ table[p][j].until = o.until
        BY <3>1
      <3> QED
        BY <1>3, <3>2 DEF BulkFits
    <2>3. CASE Found(o, p, status)
      <3>1. PICK j \in DOMAIN native[p] :
              /\ <<"native", p, j>> \notin o.expire /\ native[p][j].status = status
              /\ status = "active" => native[p][j].until = Forever \/ native[p][j].until > o.checked
        BY <2>3 DEF Found
      <3>2. KeepsRest(table, p, o.expire \cup {})
        BY <1>1, <1>4, <1>5, WrittenRows
      <3>3. j \in DOMAIN table[p] /\ table[p][j] = native[p][j]
        BY <3>1, <3>2 DEF KeepsRest
      <3> QED
        BY <3>1, <3>3
    <2> QED
      BY <2>1, <2>2, <2>3 DEF Provided
  <1>10. /\ Count(table, p, status) = 1
         /\ \A j \in DOMAIN table[p] : table[p][j].status = status => j = i
    BY <1>4, <1>6, <1>8, <1>9, OnlyOne
  <1>11. p[2] \in offered /\ (p[1] \in o.known => people[p[1]] = "active")
    BY <1>3, <1>4 DEF BulkFits
  <1>12. op[a].known = o.known /\ op[a].checked = o.checked /\ native' = table
    BY <1>1, <1>2
  <1>13. CASE p[1] \in o.known
    <2>1. status = "active"
      BY <1>7, <1>13
    <2>2. \A j \in DOMAIN table[p] : table[p][j].status = "active" =>
            table[p][j].until = Forever \/ table[p][j].until > o.checked
      BY <1>9, <1>10, <2>1
    <2>3. Count(table, p, "active") = 1
      BY <1>10, <2>1
    <2> QED
      BY <1>11, <1>12, <1>13, <2>2, <2>3
  <1>14. CASE p[1] \notin o.known
    <2>1. Count(table, p, "pending_user_link") = 1
      BY <1>7, <1>10, <1>14
    <2> QED
      BY <1>11, <1>12, <1>14, <2>1
  <1> QED
    BY <1>13, <1>14

\* Whoever is told of a commit has committed.
LEMMA ToldOnCommit ==
  ASSUME NativeInv, [NativeNext]_nativeVars, NEW a \in Admin, Doing(a, "granting"),
         op'[a].kind = "told"
  PROVE  CommitGrants(a)
  <1>1. op'[a] # op[a] /\ op[a].kind = "granting" /\ op[a] # NoOp
    BY DEF Doing, NoOp
  <1>2. PICK b \in Admin : Grants(b)
    BY <1>1 DEF NativeNext, SignsIn, SignInBegin, SignInLink, SignInCommit, SignInFails, Tick,
       nativeVars
  <1>3. PICK o : op' = [op EXCEPT ![b] = o]
    <2>1. CASE UNCHANGED op
      BY <1>1, <2>1
    <2>2. CASE \E o : op' = [op EXCEPT ![b] = o]
      BY <2>2
    <2> QED
      BY <1>2, <2>1, <2>2 DEF Grants, Ask, Begins, CheckBulk, CheckOne, CommitGrants, Goes, Close,
         Fails, Ends, Revoke, ChangeOffer, ChangePerson
  <1>4. b = a
    BY <1>1, <1>3 DEF NativeInv, NativeTables
  <1>5. op'[a] # NoOp
    BY DEF NoOp
  <1>6. op[a].kind # "asked"
    BY <1>1
  <1>7. ~Close(a)
    BY <1>5 DEF Close, Fails, Ends, NativeInv, NativeTables
  <1> QED
    BY <1>1, <1>2, <1>4, <1>6, <1>7 DEF Grants, Ask, Begins, CheckBulk, CheckOne, Doing,
       Revoke, ChangeOffer, ChangePerson

\* A bulk grant whose commit is reported covers its whole matrix, however long it
\* waited for locks and whoever signed in, was disabled or was revoked meanwhile
\* (admin-repository.ts:660-790).
THEOREM BulkGrantsCover == NativeSpec => BulkCovers
  <1>1. ASSUME NativeInv, [NativeNext]_nativeVars
        PROVE  [\A a \in Admin :
                  Doing(a, "granting") /\ op[a].what = "bulk" /\ op'[a].kind = "told" =>
                    \A p \in op[a].people \X op[a].scopes :
                      /\ p[2] \in offered
                      /\ IF p[1] \in op[a].known
                         THEN /\ people[p[1]] = "active"
                              /\ Count(native', p, "active") = 1
                              /\ \A i \in DOMAIN native'[p] : native'[p][i].status = "active" =>
                                   native'[p][i].until = Forever
                                     \/ native'[p][i].until > op[a].checked
                         ELSE Count(native', p, "pending_user_link") = 1]_nativeVars
    BY <1>1, Covered, ToldOnCommit
  <1> QED
    BY <1>1, NativeInvHolds, PTL DEF NativeSpec, BulkCovers
=============================================================================
