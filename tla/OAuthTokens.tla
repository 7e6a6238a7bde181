---------------------------- MODULE OAuthTokens ----------------------------
(***************************************************************************)
(* The token endpoints of the OAuth vNext issuer: code exchange, refresh   *)
(* with rotation and replay detection, revocation and introspection        *)
(* (src/oauth/token-service.ts over src/oauth/token-repository.ts).        *)
(*                                                                         *)
(* Rows.  A code, the session and the refresh-token family it becomes are  *)
(* 1:1 with an authorization (UNIQUE constraints of migrations/005), so    *)
(* all are indexed by the authorization; a refresh token is <<a, g>>, the  *)
(* g-th generation of a's family.  The access token issued together with a *)
(* refresh token has its scopes and its issue time, and shares its index.  *)
(*                                                                         *)
(* Concurrency.  A request is three steps.  Begin reads the clock, before  *)
(* any lock; then one database transaction runs, and it is atomic here     *)
(* because lockAuthorizationCodeByHash / lockRefreshByHash take FOR UPDATE *)
(* on every row it writes and FOR SHARE on every row it only reads (what   *)
(* those locks may do to each other is RefreshLocks' subject); last, the   *)
(* response reaches the client, or is lost.  Other requests, the           *)
(* administrator and the clock move between any two of them.               *)
(***************************************************************************)
EXTENDS Integers, FiniteSetsExt

CONSTANTS Auth,         \* authorizations
          Client,       \* registered clients
          ClientOf,     \* the client an authorization was granted to
          Scope,        \* the scopes of the (exact, single) resource
          Sent,         \* the kinds of request callers send
          Changes,      \* what administrators change meanwhile
          Worker,       \* requests the service handles at the same time
          MaxGen,       \* bound: generations of a family
          MaxTime,      \* bound: where the clock stops
          CodeTTL,      \* life of an authorization code         (60 s)
          IdleTTL,      \* OAUTH_REFRESH_IDLE_MS                 (28 800 s)
          AccessTTL,    \* OAUTH_ACCESS_TOKEN_TTL_SECONDS        (900 s)
          Skew          \* OAUTH_VERIFIER_CLOCK_SKEW_SECONDS     (60 s)

ASSUME ClientAssumption == ClientOf \in [Auth -> Client]
ASSUME SentAssumption == Sent \subseteq {"exchange", "refresh", "revoke_refresh",
                                         "revoke_access", "introspect"}
ASSUME ChangesAssumption == Changes \subseteq {"client", "entitlement"}
ASSUME BoundAssumption == MaxGen \in Nat /\ MaxTime \in Nat
ASSUME LifetimeAssumption == /\ CodeTTL \in Nat \ {0}
                             /\ IdleTTL \in Nat \ {0}
                             /\ AccessTTL \in Nat \ {0}
                             /\ Skew \in Nat

VARIABLES
  clock,                \* what new Date() and clock_timestamp() return
  clientActive,         \* oauth_clients.status = 'active'
  entitled,             \* scopes the user may currently use through the client
  code,                 \* oauth_authorization_codes
  session,              \* oauth_sessions
  family,               \* oauth_refresh_token_families
  token,                \* oauth_refresh_tokens
  revokedJti,           \* oauth_revocations: access_token_jti -> expires_at
  revocation,           \* oauth_revocations: refresh_family and oauth_session
  held,                 \* tokens some response has delivered
  request,              \* the request each worker handles
  result                \* its outcome, once its transaction has ended

registry == <<clientActive, entitled>>
rows == <<code, session, family, token, revokedJti, revocation>>
vars == <<clock, registry, rows, held, request, result>>

Gen == 0..MaxGen
Refresh == Auth \X Gen
Null == -1                        \* SQL NULL in a timestamp column
TimeOrNull == Nat \cup {Null}
Reason == {"none", "refresh_replay", "client_revocation"}
Outcome == {"pending", "tokens", "replay", "invalid_grant", "invalid_client",
            "invalid_scope", "unavailable", "revoked", "active", "inactive"}

\* `exact' says that the request repeats what the code or family was bound to
\* (resource, and for a code redirect_uri and PKCE verifier); `scope' is {}
\* when the parameter is absent.
RequestAt(T) == [kind : Sent, client : Client, auth : Auth, gen : Gen,
                 exact : BOOLEAN, scope : SUBSET Scope, now : T]
Idle == [kind |-> "idle"]

NoCode == [status |-> "none", scopes |-> {}, expires_at |-> Null,
           consumed_at |-> Null]
NewCode(S, now) == [status |-> "issued", scopes |-> S, expires_at |-> now + CodeTTL,
                    consumed_at |-> Null]
NoSession == [status |-> "none", last_activity_at |-> Null,
              idle_expires_at |-> Null, revoked_at |-> Null, reason |-> "none"]
NoFamily == [status |-> "none", scope_ceiling |-> {}, current_scopes |-> {},
             current_generation |-> 0, replay_detected_at |-> Null,
             revoked_at |-> Null, reason |-> "none"]
NoToken == [status |-> "none", scopes |-> {}, issued_at |-> Null,
            expires_at |-> Null, consumed_at |-> Null, revoked_at |-> Null]
NewToken(S, now) == [status |-> "current", scopes |-> S, issued_at |-> now,
                     expires_at |-> now + IdleTTL, consumed_at |-> Null,
                     revoked_at |-> Null]
NewFamily(S) == [status |-> "active", scope_ceiling |-> S, current_scopes |-> S,
                 current_generation |-> 0, replay_detected_at |-> Null,
                 revoked_at |-> Null, reason |-> "none"]
NoRevocation == [revoked_at |-> Null, reason |-> "none"]

Init == /\ clock = 0
        /\ clientActive = [c \in Client |-> TRUE]
        /\ entitled = [a \in Auth |-> Scope]
        /\ code = [a \in Auth |-> NoCode]
        /\ session = [a \in Auth |-> NoSession]
        /\ family = [a \in Auth |-> NoFamily]
        /\ token = [t \in Refresh |-> NoToken]
        /\ revokedJti = [t \in Refresh |-> Null]
        /\ revocation = [a \in Auth |-> NoRevocation]
        /\ held = {}
        /\ request = [w \in Worker |-> Idle]
        /\ result = [w \in Worker |-> "pending"]

-----------------------------------------------------------------------------
(* Conditions the service evaluates inside its transaction.                *)

\* Mutant of Owner: whoever holds the token may present it.
AnyClient(r) == TRUE
Owner(r) == ClientOf[r.auth] = r.client

\* authenticateClient: the presented credentials are good; only the
\* registration's status is left to decide.
Authenticated(r) == clientActive[r.client]

\* lockCurrentEntitlementMappings: every scope still has its active mapping to
\* a permission of the grant.
Mapped(a, S) == S \subseteq entitled[a]

\* exactCurrentEntitlement: registrations, user, authorization, grant and
\* mappings, evaluated in the transaction that issues.
Entitled(a, S) == /\ clientActive[ClientOf[a]]
                  /\ S # {}
                  /\ Mapped(a, S)

LockedCode(r) == code[r.auth]

Exchangeable(r) == /\ LockedCode(r).status = "issued"
                   /\ LockedCode(r).expires_at > r.now
                   /\ Owner(r)
                   /\ r.exact
                   /\ Entitled(r.auth, LockedCode(r).scopes)

Presented(r) == token[<<r.auth, r.gen>>]

Rotatable(r) == /\ Presented(r).status = "current"
                /\ Presented(r).expires_at > r.now
                /\ family[r.auth].status = "active"
                /\ session[r.auth].status = "active"
                /\ session[r.auth].idle_expires_at > r.now
                /\ r.exact
                /\ r.gen = family[r.auth].current_generation
                /\ Presented(r).scopes = family[r.auth].current_scopes
                /\ family[r.auth].current_scopes \subseteq family[r.auth].scope_ceiling
                /\ family[r.auth].scope_ceiling \subseteq code[r.auth].scopes

\* The scopes the new tokens will carry.
RequestedScopes(r) == IF r.scope = {} THEN family[r.auth].current_scopes ELSE r.scope

\* Mutant of Narrows: scopes given up earlier can be asked for again.
WithinCeiling(r) == RequestedScopes(r) \subseteq family[r.auth].scope_ceiling
Narrows(r) == RequestedScopes(r) \subseteq family[r.auth].current_scopes

\* verifyOAuthAccessToken: exp and its tolerance (the signing key's state is
\* SigningKeys' subject).
Verifies(t, now) == /\ token[t].issued_at + AccessTTL + Skew > now
                    /\ token[t].issued_at <= now + Skew

JtiRevoked(t, now) == revokedJti[t] > now

\* introspect: verifyOAuthAccessToken, then isAccessTokenActiveOnline.  The
\* query reads the session and never the family.
ActiveOnline(t, now) ==
  LET a == t[1]
  IN  /\ Verifies(t, now)
      /\ session[a].status = "active"
      /\ session[a].idle_expires_at > now
      /\ token[t].scopes \subseteq code[a].scopes
      /\ ~JtiRevoked(t, now)
      /\ Entitled(a, token[t].scopes)

\* Mutant of RevocationTime: the time the request captured, on its own.
CapturedTime(a, now) == now
\* GREATEST(now, MAX(issued_at)) over the family's tokens.
RevocationTime(a, now) ==
  Max({now} \cup {token[<<a, g>>].issued_at : g \in {h \in Gen : token[<<a, h>>].status # "none"}})

\* Mutants of Coalesce and CoalesceReason: a later revocation overwrites.
Overwrite(x, y) == y
Coalesce(x, y) == IF x # Null THEN x ELSE y
CoalesceReason(x, y) == IF x # "none" THEN x ELSE y

-----------------------------------------------------------------------------
(* Requests: begin, answer, deliver or lose the answer.                    *)

\* A caller presents a code it was sent, or tokens some response delivered.
Presentable(r) ==
  IF r.kind = "exchange" THEN code[r.auth].status # "none"
                         ELSE <<r.auth, r.gen>> \in held

Begin(w) ==
  /\ request[w] = Idle
  /\ \E r \in RequestAt({clock}) :
        /\ r.kind # "exchange" \/ r.gen = 0
        /\ r.kind = "refresh" \/ r.scope = {}
        /\ r.kind \in {"exchange", "refresh"} \/ r.exact
        /\ r.kind # "introspect" \/ Owner(r)
        /\ Presentable(r)
        /\ request' = [request EXCEPT ![w] = r]
  /\ UNCHANGED <<clock, registry, rows, held, result>>

Running(w, kind) == request[w].kind = kind /\ result[w] = "pending"

Answer(w, outcome) == /\ result' = [result EXCEPT ![w] = outcome]
                      /\ UNCHANGED <<clock, registry, held, request>>

Refuse(w, outcome) == Answer(w, outcome) /\ UNCHANGED rows

\* The tokens a success carries: generation 0, or the next one.
Issued(r) == <<r.auth, IF r.kind = "exchange" THEN 0 ELSE r.gen + 1>>

Respond(w) ==
  /\ result[w] # "pending"
  /\ held' = IF result[w] = "tokens" THEN held \cup {Issued(request[w])} ELSE held
  /\ request' = [request EXCEPT ![w] = Idle]
  /\ result' = [result EXCEPT ![w] = "pending"]
  /\ UNCHANGED <<clock, registry, rows>>

LoseResponse(w) ==
  /\ result[w] # "pending"
  /\ request' = [request EXCEPT ![w] = Idle]
  /\ result' = [result EXCEPT ![w] = "pending"]
  /\ UNCHANGED <<clock, registry, rows, held>>

\* Any error that is not an OAuthCoreError (a lost connection, a deadlock, no
\* signing key) rolls the transaction back and answers temporarily_unavailable.
Unavailable(w) == /\ request[w] # Idle
                  /\ result[w] = "pending"
                  /\ Refuse(w, "unavailable")

-----------------------------------------------------------------------------
(* exchangeAuthorizationCode.                                              *)

\* persistInitialIssuance: consume the code, insert session, family and
\* generation 0, all stamped with the time Begin captured.
Exchange(w) ==
  LET r == request[w]
      a == r.auth
      S == code[a].scopes
  IN  /\ Running(w, "exchange")
      /\ Authenticated(r)
      /\ Exchangeable(r)
      /\ code' = [code EXCEPT ![a].status = "consumed", ![a].consumed_at = r.now]
      /\ session' = [session EXCEPT ![a] =
            [status |-> "active", last_activity_at |-> r.now,
             idle_expires_at |-> r.now + IdleTTL, revoked_at |-> Null, reason |-> "none"]]
      /\ family' = [family EXCEPT ![a] = NewFamily(S)]
      /\ token' = [token EXCEPT ![<<a, 0>>] = NewToken(S, r.now)]
      /\ UNCHANGED <<revokedJti, revocation>>
      /\ Answer(w, "tokens")

ExchangeDenied(w) ==
  LET r == request[w]
  IN  /\ Running(w, "exchange")
      /\ \/ ~Authenticated(r) /\ Refuse(w, "invalid_client")
         \/ Authenticated(r) /\ ~Exchangeable(r) /\ Refuse(w, "invalid_grant")

-----------------------------------------------------------------------------
(* refresh.                                                                *)

\* persistRefreshRotation: consume the presented token, insert its successor,
\* advance the family and slide the session.
Rotate(w) ==
  LET r == request[w]
      a == r.auth
      S == RequestedScopes(r)
  IN  /\ Running(w, "refresh")
      /\ Authenticated(r) /\ Owner(r)
      /\ Rotatable(r)
      /\ Narrows(r)
      /\ Entitled(a, S)
      /\ r.gen < MaxGen
      /\ token' = [token EXCEPT
            ![<<a, r.gen>>] = [@ EXCEPT !.status = "consumed", !.consumed_at = r.now],
            ![<<a, r.gen + 1>>] = NewToken(S, r.now)]
      /\ family' = [family EXCEPT ![a].current_generation = r.gen + 1,
                                  ![a].current_scopes = S]
      /\ session' = [session EXCEPT ![a].last_activity_at = r.now,
                                    ![a].idle_expires_at = r.now + IdleTTL]
      /\ UNCHANGED <<code, revokedJti, revocation>>
      /\ Answer(w, "tokens")

\* Mutant of Affected: the UPDATE without its condition on the status.
EveryToken(a, t) == t[1] = a /\ token[t].status # "none"
Affected(a, t) == t[1] = a /\ token[t].status = "current"

\* revokeFamilyAndSession: family, session, current token and the durable
\* revocation rows; what an earlier revocation wrote is kept.
RevokeFamilyAndSession(a, now, reason, replay) ==
  LET at == RevocationTime(a, now)
  IN  /\ family' = [family EXCEPT
            ![a].status = "revoked",
            ![a].revoked_at = Coalesce(@, at),
            ![a].reason = CoalesceReason(@, reason),
            ![a].replay_detected_at = IF replay THEN Coalesce(@, at) ELSE @]
      /\ session' = [session EXCEPT
            ![a].status = "revoked",
            ![a].revoked_at = Coalesce(@, at),
            ![a].reason = CoalesceReason(@, reason)]
      /\ token' = [t \in Refresh |->
            IF Affected(a, t)
            THEN [token[t] EXCEPT !.status = "revoked",
                                  !.revoked_at = Coalesce(@, at)]
            ELSE token[t]]
      /\ revocation' = [revocation EXCEPT
            ![a] = IF @ = NoRevocation THEN [revoked_at |-> at, reason |-> reason] ELSE @]
      /\ UNCHANGED <<code, revokedJti>>

\* Mutant of Replay: the denial is thrown inside the transaction, so the
\* revocation is rolled back with it.
ReplayThrown(w) ==
  LET r == request[w]
  IN  /\ Running(w, "refresh")
      /\ Authenticated(r) /\ Owner(r)
      /\ Presented(r).status = "consumed"
      /\ Refuse(w, "replay")

\* Mutant of Replay: the audit's reason code is stored as revocation reason.
ReplayMislabelled(w) ==
  LET r == request[w]
  IN  /\ Running(w, "refresh")
      /\ Authenticated(r) /\ Owner(r)
      /\ Presented(r).status = "consumed"
      /\ RevokeFamilyAndSession(r.auth, clock, "invalid_grant", TRUE)
      /\ Answer(w, "replay")

\* A consumed token is a replay.  The clock is read again, under the locks.
Replay(w) ==
  LET r == request[w]
  IN  /\ Running(w, "refresh")
      /\ Authenticated(r) /\ Owner(r)
      /\ Presented(r).status = "consumed"
      /\ RevokeFamilyAndSession(r.auth, clock, "refresh_replay", TRUE)
      /\ Answer(w, "replay")

RefreshDenied(w) ==
  LET r == request[w]
  IN  /\ Running(w, "refresh")
      /\ \/ ~Authenticated(r) /\ Refuse(w, "invalid_client")
         \/ Authenticated(r) /\ ~Owner(r) /\ Refuse(w, "invalid_grant")
         \/ /\ Authenticated(r) /\ Owner(r)
            /\ Presented(r).status # "consumed"
            /\ ~Rotatable(r)
            /\ Refuse(w, "invalid_grant")
         \/ /\ Authenticated(r) /\ Owner(r) /\ Rotatable(r)
            /\ ~Narrows(r)
            /\ Refuse(w, "invalid_scope")
         \/ /\ Authenticated(r) /\ Owner(r) /\ Rotatable(r)
            /\ Narrows(r)
            /\ ~Entitled(r.auth, RequestedScopes(r))
            /\ Refuse(w, "invalid_grant")

-----------------------------------------------------------------------------
(* revoke.  A client may revoke any refresh token of its own, old ones     *)
(* included: the whole family goes.  Unknown tokens are answered alike.    *)

RevokeRefresh(w) ==
  LET r == request[w]
  IN  /\ Running(w, "revoke_refresh")
      /\ Authenticated(r) /\ Owner(r)
      /\ RevokeFamilyAndSession(r.auth, r.now, "client_revocation", FALSE)
      /\ Answer(w, "revoked")

\* Mutant of Retention: until exp, though verifiers accept the token longer.
UntilExp(t) == token[t].issued_at + AccessTTL
Retention(t) == token[t].issued_at + AccessTTL + Skew

\* recordAccessTokenRevocation: the jti is remembered until exp + Skew.
RevokeAccess(w) ==
  LET r == request[w]
      t == <<r.auth, r.gen>>
  IN  /\ Running(w, "revoke_access")
      /\ Authenticated(r) /\ Owner(r)
      /\ Verifies(t, r.now)
      /\ revokedJti' = [revokedJti EXCEPT ![t] =
            IF Retention(t) <= r.now THEN @ ELSE Max({@, Retention(t)})]
      /\ UNCHANGED <<code, session, family, token, revocation>>
      /\ Answer(w, "revoked")

RevokeIgnored(w) ==
  LET r == request[w]
  IN  /\ Running(w, "revoke_refresh") \/ Running(w, "revoke_access")
      /\ \/ ~Authenticated(r) /\ Refuse(w, "invalid_client")
         \/ /\ Authenticated(r)
            /\ ~Owner(r) \/ (r.kind = "revoke_access" /\ ~Verifies(<<r.auth, r.gen>>, r.now))
            /\ Refuse(w, "revoked")

-----------------------------------------------------------------------------
(* introspect, by a resource that has authenticated itself.                *)

Introspect(w) ==
  LET r == request[w]
  IN  /\ Running(w, "introspect")
      /\ Refuse(w, IF ActiveOnline(<<r.auth, r.gen>>, r.now) THEN "active" ELSE "inactive")

-----------------------------------------------------------------------------
(* The surroundings: the authorization flow that issues codes, the         *)
(* administrator, the clock.                                               *)

IssueCode(a) ==
  /\ code[a].status = "none"
  /\ \E S \in (SUBSET Scope) \ {{}} :
        /\ Entitled(a, S)
        /\ code' = [code EXCEPT ![a] = NewCode(S, clock)]
  /\ UNCHANGED <<clock, registry, session, family, token, revokedJti, revocation,
                 held, request, result>>

SetClient(c) == /\ "client" \in Changes
                /\ clientActive' = [clientActive EXCEPT ![c] = ~@]
                /\ UNCHANGED <<clock, entitled, rows, held, request, result>>

SetEntitlement(a) == /\ "entitlement" \in Changes
                     /\ \E S \in SUBSET Scope : entitled' = [entitled EXCEPT ![a] = S]
                     /\ UNCHANGED <<clock, clientActive, rows, held, request, result>>

Tick == /\ clock < MaxTime
        /\ clock' = clock + 1
        /\ UNCHANGED <<registry, rows, held, request, result>>

Step(w) == \/ Begin(w) \/ Respond(w) \/ LoseResponse(w) \/ Unavailable(w)
           \/ Exchange(w) \/ ExchangeDenied(w)
           \/ Rotate(w) \/ Replay(w) \/ RefreshDenied(w)
           \/ RevokeRefresh(w) \/ RevokeAccess(w) \/ RevokeIgnored(w)
           \/ Introspect(w)

Next == \/ \E w \in Worker : Step(w)
        \/ \E a \in Auth : IssueCode(a) \/ SetEntitlement(a)
        \/ \E c \in Client : SetClient(c)
        \/ Tick

Spec == Init /\ [][Next]_vars

-----------------------------------------------------------------------------
(* Properties.                                                             *)

CodeRow == [status : {"none", "issued", "consumed"}, scopes : SUBSET Scope,
            expires_at : TimeOrNull, consumed_at : TimeOrNull]
SessionRow == [status : {"none", "active", "revoked"}, last_activity_at : TimeOrNull,
               idle_expires_at : TimeOrNull, revoked_at : TimeOrNull, reason : Reason]
FamilyRow == [status : {"none", "active", "revoked"}, scope_ceiling : SUBSET Scope,
              current_scopes : SUBSET Scope, current_generation : Gen,
              replay_detected_at : TimeOrNull, revoked_at : TimeOrNull, reason : Reason]
TokenRow == [status : {"none", "current", "consumed", "revoked"}, scopes : SUBSET Scope,
             issued_at : TimeOrNull, expires_at : TimeOrNull,
             consumed_at : TimeOrNull, revoked_at : TimeOrNull]

\* Every variable holds what its column or variable in the code may hold.
TypeOK == /\ clock \in Nat
          /\ clientActive \in [Client -> BOOLEAN]
          /\ entitled \in [Auth -> SUBSET Scope]
          /\ code \in [Auth -> CodeRow]
          /\ session \in [Auth -> SessionRow]
          /\ family \in [Auth -> FamilyRow]
          /\ token \in [Refresh -> TokenRow]
          /\ revokedJti \in [Refresh -> TimeOrNull]
          /\ revocation \in [Auth -> [revoked_at : TimeOrNull, reason : Reason]]
          /\ held \subseteq Refresh
          /\ request \in [Worker -> RequestAt(Nat) \cup {Idle}]
          /\ result \in [Worker -> Outcome]

Exists(a) == family[a].status # "none"
Current(a) == token[<<a, family[a].current_generation>>]

Lineage(a) ==
  LET cur == family[a].current_generation
  IN  /\ \A g \in Gen : token[<<a, g>>].status # "none" <=> Exists(a) /\ g <= cur
      /\ \A g \in Gen : Exists(a) /\ g < cur =>
            /\ token[<<a, g>>].status = "consumed"
            /\ token[<<a, g>>].consumed_at = token[<<a, g + 1>>].issued_at
            /\ token[<<a, g>>].issued_at <= token[<<a, g + 1>>].issued_at
            /\ token[<<a, g + 1>>].scopes \subseteq token[<<a, g>>].scopes
      /\ Exists(a) =>
            /\ Current(a).status = IF family[a].status = "active"
                                   THEN "current" ELSE "revoked"
            /\ Current(a).scopes = family[a].current_scopes

\* A family is one unbroken line of generations: everything before the
\* current one is consumed, at the very time its successor was issued, scopes
\* only narrow along it, and it ends in one usable token exactly while the
\* family is active, whatever requests raced (token-repository.ts:496-601).
FamilyLineage == \A a \in Auth : Lineage(a)

PassesChecks(a) ==
  /\ \A g \in Gen :
       LET row == token[<<a, g>>]
       IN  /\ row.consumed_at # Null => row.consumed_at >= row.issued_at
           /\ row.revoked_at # Null => row.revoked_at >= row.issued_at
           /\ row.consumed_at # Null <=> row.status = "consumed"
           /\ row.revoked_at # Null <=> row.status = "revoked"
           /\ row.status # "none" => row.expires_at = row.issued_at + IdleTTL
  /\ family[a].replay_detected_at # Null => family[a].status = "revoked"
  /\ family[a].status = "revoked" <=> family[a].revoked_at # Null
  /\ family[a].current_scopes \subseteq family[a].scope_ceiling

\* oauth_sessions_activity_order; a session is issued with its generation 0.
ActivityInOrder(a) ==
  Exists(a) => /\ session[a].last_activity_at >= token[<<a, 0>>].issued_at
               /\ session[a].idle_expires_at = session[a].last_activity_at + IdleTTL

\* The CHECK constraints of migrations/005 on sessions, families and refresh
\* tokens that compare two timestamps, a timestamp with a status or two scope
\* sets never reject what the service writes: a racing request must not turn a
\* revocation into a 503 (CURRENT_STATE.md:90-91).  The one on a revoked jti's
\* expiry, which no column here stands for, is the guard of RevokeAccess.
NoCheckFails == \A a \in Auth : PassesChecks(a) /\ ActivityInOrder(a)

Agreement(a) ==
  /\ session[a].status = family[a].status
  /\ session[a].revoked_at = family[a].revoked_at
  /\ session[a].reason = family[a].reason
  /\ revocation[a] = [revoked_at |-> family[a].revoked_at, reason |-> family[a].reason]
  /\ Exists(a) <=> code[a].status = "consumed"
  /\ Exists(a) => /\ session[a].idle_expires_at = Current(a).expires_at
                  /\ session[a].last_activity_at = Current(a).issued_at
                  /\ Current(a).revoked_at = family[a].revoked_at

\* Introspection looks at the session only, so session, family, current token
\* and the durable revocation rows must never disagree about whether, when and
\* why the family died, nor about its idle deadline.
TablesAgree == \A a \in Auth : Agreement(a)

\* Times at which a request may still evaluate a token that exists.
Horizon == 0..(MaxTime + AccessTTL + Skew)

\* Once a family or a jti is revoked, no token it covers introspects as active
\* again: not for a request that read the clock before the revocation, not
\* within the verifier's skew after exp, not after the client, the user or the
\* grant was disabled and enabled again (OAUTH_P0_CONTRACT.md:106-108).
RevokedIsInactive ==
  \A t \in Refresh :
    family[t[1]].status = "revoked" \/ revokedJti[t] # Null
      => \A now \in Horizon : ~ActiveOnline(t, now)

\* When the service has answered that a token was replayed, the family and its
\* session are revoked and the replay is on record (OAUTH_P0_CONTRACT.md:102).
ReplayIsFatal ==
  \A w \in Worker : result[w] = "replay" =>
    /\ family[request[w].auth].status = "revoked"
    /\ family[request[w].auth].replay_detected_at # Null
    /\ session[request[w].auth].status = "revoked"

\* A revocation is final: no step revives the family, adds a generation, or
\* rewrites when and why it was first revoked or first seen replayed.
RevocationIsFinal ==
  [][\A a \in Auth : family[a].status = "revoked" =>
       /\ family'[a] = [family[a] EXCEPT !.replay_detected_at = family'[a].replay_detected_at]
       /\ family[a].replay_detected_at # Null =>
             family'[a].replay_detected_at = family[a].replay_detected_at]_vars

\* Only a request its own, active client authenticated can revoke a family:
\* another client holding its tokens changes nothing (token-service.ts:232,322).
OnlyOwnerRevokes ==
  [][\A a \in Auth : family[a].status = "active" /\ family'[a].status = "revoked" =>
       \E w \in Worker : /\ request[w].kind \in {"refresh", "revoke_refresh"}
                         /\ request[w].client = ClientOf[a]
                         /\ clientActive[ClientOf[a]]]_vars

\* The abstract phase of a family.
Phase(a) == CASE family[a].status = "none" -> "none"
              [] family[a].status = "active" -> "live"
              [] family[a].status = "revoked" -> "dead"

\* The families implement the abstract credential: no code is exchanged twice,
\* no generation is rotated twice, and no scope is gained on the way.
Credential == INSTANCE RotatingCredential WITH
  Credential <- Auth,
  phase <- [a \in Auth |-> Phase(a)],
  generation <- [a \in Auth |-> family[a].current_generation],
  scopes <- [a \in Auth |-> family[a].current_scopes]

ImplementsCredential == Credential!Spec
=============================================================================
