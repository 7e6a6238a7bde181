----------------------------- MODULE Credentials -----------------------------
(***************************************************************************)
(* The secrets of one OAuth client, or of one resource server: rotated and *)
(* retired by administrators (src/oauth/admin-repository.ts:848-894) while *)
(* callers authenticate with them (src/oauth/token-repository.ts:150-223,  *)
(* token-service.ts:386-432).                                              *)
(*                                                                         *)
(* A caller's transaction goes on after the secret has matched: it rotates *)
(* a token, or answers an introspection, and commits.  Until then it keeps *)
(* the owner's row and the credential FOR SHARE; a rotation locks both FOR *)
(* UPDATE.  The locks are derived from how far each transaction is.        *)
(*                                                                         *)
(* Left out: hashes and peppers (a secret is its credential) and the       *)
(* activation and expiry times, which no handler sets in the future.       *)
(***************************************************************************)
EXTENDS Integers, FiniteSets

CONSTANTS Operator,       \* administrators at work on this owner
          Caller,         \* requests that authenticate at the same time
          MaxCredentials  \* bound: rows of oauth_*_credentials

ASSUME CredentialsBound == MaxCredentials \in Nat \ {0}

VARIABLES owner,          \* the row of oauth_clients or oauth_resources
          credentials,    \* oauth_client_credentials or oauth_resource_credentials
          rotation,       \* how far each operator's rotation is
          caller          \* how far each caller is

credentialVars == <<owner, credentials, rotation, caller>>

Credential == 1..MaxCredentials
OwnerKind == {"client", "legacy_bridge", "native"}
OwnerStatus == {"draft", "active", "disabled"}

NoCredential == [status |-> "none", parent |-> 0]
Rotating(step, old) == [step |-> step, old |-> old]
Calling(step, secret) == [step |-> step, secret |-> secret]
NotRotating == Rotating("idle", {})
NotCalling == Calling("idle", 0)

\* createClient and createResource insert the first credential.
CredentialsInit ==
  /\ owner \in [kind : OwnerKind, status : OwnerStatus]
  /\ credentials = [c \in Credential |-> IF c = 1 THEN [status |-> "active", parent |-> 0]
                                                  ELSE NoCredential]
  /\ rotation = [o \in Operator |-> NotRotating]
  /\ caller = [r \in Caller |-> NotCalling]

-----------------------------------------------------------------------------
Active == {c \in Credential : credentials[c].status = "active"}
Working(c) == credentials[c].status = "active"

\* The newest of a set of credentials, or 0: ORDER BY created_at DESC.
Newest(S) == IF S = {} THEN 0 ELSE CHOOSE c \in S : \A d \in S : d <= c

\* A client must be active to call; a native resource that was disabled may
\* still introspect the tokens it is sent.
Eligible == \/ owner.status = "active"
            \/ owner.kind = "native" /\ owner.status = "disabled"

\* FOR UPDATE of the owner, and FOR SHARE of it.
OwnerTaken == \E o \in Operator : rotation[o].step # "idle"
OwnerShared == \E r \in Caller : caller[r].step \in {"owner", "authenticated"}

\* Mutant of OwnerFree: rotateCredential without FOR UPDATE.
NeverMind == TRUE
OwnerFree == ~OwnerTaken /\ ~OwnerShared

\* The same of a credential: rotation takes those it retires.
CredentialTaken(c) == \E o \in Operator : c \in rotation[o].old
\* Mutant of CredentialShared: the secrets are read without FOR SHARE.
NotShared(c) == FALSE
CredentialShared(c) == \E r \in Caller : /\ caller[r].secret = c
                                         /\ caller[r].step \in {"credential", "authenticated"}
CredentialFree(c) == ~CredentialTaken(c) /\ ~CredentialShared(c)

-----------------------------------------------------------------------------
(* Operators.                                                              *)

\* rotateCredential locks the owner ...
RotateLock(o) ==
  /\ rotation[o].step = "idle"
  /\ OwnerFree
  /\ rotation' = [rotation EXCEPT ![o] = Rotating("owner", {})]
  /\ UNCHANGED <<owner, credentials, caller>>

\* ... then its active credentials, which it retires ...
RotateTake(o) ==
  /\ rotation[o].step = "owner"
  /\ \A c \in Active : CredentialFree(c)
  /\ rotation' = [rotation EXCEPT ![o] = Rotating("taken", Active)]
  /\ UNCHANGED <<owner, credentials, caller>>

\* ... and inserts their successor; COMMIT.
RotateCommit(o) ==
  /\ rotation[o].step = "taken"
  /\ \E c \in Credential :
        /\ credentials[c].status = "none"
        /\ \A d \in Credential : d < c => credentials[d].status # "none"
        /\ credentials' = [d \in Credential |->
              IF d = c THEN [status |-> "active", parent |-> Newest(rotation[o].old)]
              ELSE IF d \in rotation[o].old
              THEN [status |-> "retired", parent |-> credentials[d].parent]
              ELSE credentials[d]]
  /\ rotation' = [rotation EXCEPT ![o] = NotRotating]
  /\ UNCHANGED <<owner, caller>>

RotateFails(o) ==
  /\ rotation[o].step # "idle"
  /\ rotation' = [rotation EXCEPT ![o] = NotRotating]
  /\ UNCHANGED <<owner, credentials, caller>>

\* retireCredential, by its id alone: the owner is not locked.
Retire(o, c) ==
  /\ rotation[o].step = "idle"
  /\ credentials[c].status = "active"
  /\ CredentialFree(c)
  /\ credentials' = [d \in Credential |->
        IF d = c THEN [status |-> "retired", parent |-> credentials[d].parent]
        ELSE credentials[d]]
  /\ UNCHANGED <<owner, rotation, caller>>

\* updateRegistrationStatus.
SetOwnerStatus(o, status) ==
  /\ rotation[o].step = "idle"
  /\ OwnerFree
  /\ owner' = [kind |-> owner.kind, status |-> status]
  /\ UNCHANGED <<credentials, rotation, caller>>

-----------------------------------------------------------------------------
(* Callers.  One that is refused ends at once and leaves nothing.          *)

\* lockClientForAuthentication.
LockClient(r) ==
  /\ owner.kind = "client"
  /\ caller[r].step = "idle"
  /\ ~OwnerTaken
  /\ Eligible
  /\ caller' = [caller EXCEPT ![r] = Calling("owner", 0)]
  /\ UNCHANGED <<owner, credentials, rotation>>

\* listCurrentClientCredentialHashes, and the comparison.
MatchSecret(r, c) ==
  /\ caller[r].step = "owner"
  /\ Working(c)
  /\ ~CredentialTaken(c)
  /\ caller' = [caller EXCEPT ![r] = Calling("authenticated", c)]
  /\ UNCHANGED <<owner, credentials, rotation>>

\* listCurrentResourceCredentialRecords locks the credential's row first ...
LockCredential(r, c) ==
  /\ owner.kind # "client"
  /\ caller[r].step = "idle"
  /\ Eligible
  /\ Working(c)
  /\ ~CredentialTaken(c)
  /\ caller' = [caller EXCEPT ![r] = Calling("credential", c)]
  /\ UNCHANGED <<owner, credentials, rotation>>

\* ... then the resource's, and looks at both again.
LockResource(r) ==
  /\ caller[r].step = "credential"
  /\ ~OwnerTaken
  /\ Eligible
  /\ caller' = [caller EXCEPT ![r] = Calling("authenticated", caller[r].secret)]
  /\ UNCHANGED <<owner, credentials, rotation>>

\* COMMIT of the request, its refusal or its failure: the locks are gone.
CallEnds(r) ==
  /\ caller[r].step # "idle"
  /\ caller' = [caller EXCEPT ![r] = NotCalling]
  /\ UNCHANGED <<owner, credentials, rotation>>

Rotate(o) == RotateLock(o) \/ RotateTake(o) \/ RotateCommit(o) \/ RotateFails(o)
Call(r) == \/ LockClient(r) \/ LockResource(r) \/ CallEnds(r)
           \/ \E c \in Credential : MatchSecret(r, c) \/ LockCredential(r, c)

CredentialsNext ==
  \/ \E o \in Operator : \/ Rotate(o)
                         \/ \E c \in Credential : Retire(o, c)
                         \/ \E status \in OwnerStatus : SetOwnerStatus(o, status)
  \/ \E r \in Caller : Call(r)

CredentialsSpec == CredentialsInit /\ [][CredentialsNext]_credentialVars

-----------------------------------------------------------------------------
(* Properties.                                                             *)

\* The rows and the transactions hold what the code can put there.
CredentialsTypeOK ==
  /\ owner \in [kind : OwnerKind, status : OwnerStatus]
  /\ credentials \in [Credential -> [status : {"none", "active", "retired"},
                                     parent : Credential \cup {0}]]
  /\ rotation \in [Operator -> [step : {"idle", "owner", "taken"}, old : SUBSET Credential]]
  /\ caller \in [Caller -> [step : {"idle", "owner", "credential", "authenticated"},
                            secret : Credential \cup {0}]]

\* However many administrators rotate and retire at once, the owner has at most
\* one secret that works (src/oauth/admin-repository.ts:853-866).
OneActiveCredential == \A c, d \in Credential : Working(c) /\ Working(d) => c = d

\* A request that has authenticated, and has yet to commit what it does for its
\* caller, was given a secret that works to this moment, by an owner that may
\* still call: a rotation, a retirement or a disabling that has committed is not
\* followed by an answer to the old secret (token-repository.ts:150-223).
AnswersAreCurrent ==
  \A r \in Caller : caller[r].step = "authenticated" =>
                      Working(caller[r].secret) /\ Eligible
=============================================================================
