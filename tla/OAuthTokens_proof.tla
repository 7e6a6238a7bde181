------------------------- MODULE OAuthTokens_proof -------------------------
(***************************************************************************)
(* Proofs about OAuthTokens, for any number of authorizations, clients,    *)
(* scopes, concurrent requests, generations and any lifetimes.             *)
(*                                                                         *)
(* The lineage of a family is not inductive on its own.  The strengthening *)
(* Inv adds when tokens were issued (Ordered) and what a request in flight *)
(* may rely on (Requests): the token it presents existed when it read the  *)
(* clock, so a rotation is never stamped before the token it consumes.     *)
(***************************************************************************)
EXTENDS OAuthTokens, TLAPS

Known(t) == token[t].status # "none"

\* The current generation is the youngest, and no token is from the future.
Ordered(a) ==
  \A g \in Gen : Known(<<a, g>>) =>
    /\ token[<<a, g>>].issued_at \in Nat
    /\ token[<<a, g>>].issued_at <= Current(a).issued_at
    /\ token[<<a, g>>].issued_at <= clock

\* A family carries a reason exactly when it is revoked.
Reasoned(a) == family[a].status = "revoked" <=> family[a].reason # "none"

FamilyInv(a) == Lineage(a) /\ Ordered(a) /\ Reasoned(a) /\ PassesChecks(a) /\ Agreement(a)

\* The tokens a request presents, or has been answered with.
PresentedToken(w) == <<request[w].auth, request[w].gen>>
IssuedToken(w) == Issued(request[w])

\* What a request in flight may rely on.
InFlight(w) ==
  /\ request[w].now <= clock
  /\ request[w].kind # "exchange" =>
       Known(PresentedToken(w)) /\ token[PresentedToken(w)].issued_at <= request[w].now
  /\ result[w] = "tokens" =>
       /\ request[w].kind \in {"exchange", "refresh"}
       /\ IssuedToken(w) \in Refresh
       /\ Known(IssuedToken(w))

Requests == /\ \A t \in held : Known(t)
            /\ \A w \in Worker : request[w] = Idle => result[w] = "pending"
            /\ \A w \in Worker : request[w] # Idle => InFlight(w)

RowInv == \A a \in Auth : FamilyInv(a)

Inv == TypeOK /\ RowInv /\ Requests

-----------------------------------------------------------------------------

LEMMA NullIsNoTime == Null \notin Nat
  BY DEF Null

\* The largest of a set of times, when one of its members bounds the others.
LEMMA MaxIsBound ==
  ASSUME NEW S \in SUBSET Int, NEW m \in S, \A x \in S : x <= m
  PROVE  Max(S) = m
  <1> DEFINE P(x) == \A y \in S : x >= y
  <1>1. m \in S /\ P(m)
    OBVIOUS
  <1>2. (CHOOSE x \in S : P(x)) \in S /\ P(CHOOSE x \in S : P(x))
    BY <1>1
  <1>3. Max(S) = CHOOSE x \in S : P(x)
    BY DEF Max
  <1>4. Max(S) \in S /\ Max(S) >= m /\ Max(S) <= m
    BY <1>2, <1>3
  <1>5. Max(S) \in Int /\ m \in Int
    BY <1>4
  <1> QED
    BY <1>4, <1>5

\* The larger of two is no smaller than the second.
LEMMA LargerIsBound == ASSUME NEW x \in Int, NEW y \in Int PROVE Max({x, y}) >= y
  <1> DEFINE S == {x, y}
  <1>1. S \in SUBSET Int /\ x \in S /\ y \in S
    OBVIOUS
  <1>2. CASE x <= y
    <2>1. \A z \in S : z <= y
      BY <1>2
    <2> HIDE DEF S
    <2>2. Max(S) = y
      BY <1>1, <2>1, MaxIsBound
    <2> QED
      BY <2>2 DEF S
  <1>3. CASE ~(x <= y)
    <2>1. \A z \in S : z <= x
      BY <1>3
    <2> HIDE DEF S
    <2>2. Max(S) = x
      BY <1>1, <2>1, MaxIsBound
    <2> QED
      BY <1>3, <2>2 DEF S
  <1> QED
    BY <1>2, <1>3

\* revokeFamilyAndSession never stamps before the current token's issuance.
LEMMA RevocationTimeValue ==
  ASSUME Inv, NEW a \in Auth, Exists(a), NEW now \in Nat
  PROVE  /\ RevocationTime(a, now) \in Nat
         /\ RevocationTime(a, now) >= now
         /\ RevocationTime(a, now) >= Current(a).issued_at
         /\ Current(a).issued_at \in Nat
  <1> DEFINE cur == family[a].current_generation
             T == {token[<<a, g>>].issued_at : g \in {h \in Gen : token[<<a, h>>].status # "none"}}
             S == {now} \cup T
  <1>1. cur \in Gen /\ Known(<<a, cur>>)
    <2>1. cur \in Gen
      BY DEF Inv, TypeOK, FamilyRow
    <2>2. token[<<a, cur>>].status # "none" <=> Exists(a) /\ cur <= cur
      BY <2>1 DEF Inv, RowInv, FamilyInv, Lineage
    <2>3. cur <= cur
      BY <2>1, BoundAssumption DEF Gen
    <2> QED
      BY <2>1, <2>2, <2>3 DEF Known
  <1>2. Current(a).issued_at \in T /\ Current(a).issued_at \in Nat
    BY <1>1 DEF Inv, RowInv, FamilyInv, Ordered, Current, Known
  <1>3. \A x \in T : x \in Nat /\ x <= Current(a).issued_at
    BY DEF Inv, RowInv, FamilyInv, Ordered, Known
  <1>4. S \in SUBSET Int
    <2>1. \A x \in T : x \in Int
      BY <1>3
    <2>2. now \in Int
      OBVIOUS
    <2> HIDE DEF T
    <2> QED
      BY <2>1, <2>2
  <1>5. CASE now >= Current(a).issued_at
    <2>1. ASSUME NEW x \in T PROVE x <= now
      <3>1. x \in Nat /\ x <= Current(a).issued_at /\ Current(a).issued_at \in Nat
        BY <1>2, <1>3
      <3> HIDE DEF T
      <3> QED
        BY <3>1, <1>5
    <2>2. Max(S) = now
      <3>1. \A x \in S : x <= now
        BY <2>1
      <3>2. now \in S
        OBVIOUS
      <3> HIDE DEF S
      <3> QED
        BY <3>1, <3>2, <1>4, MaxIsBound
    <2> QED
      BY <2>2, <1>2, <1>5 DEF RevocationTime
  <1>6. CASE ~(now >= Current(a).issued_at)
    <2>1. \A x \in S : x <= Current(a).issued_at
      BY <1>2, <1>3, <1>6
    <2>2. Max(S) = Current(a).issued_at
      BY <2>1, <1>2, <1>4, MaxIsBound
    <2> QED
      BY <2>2, <1>2, <1>6 DEF RevocationTime
  <1> QED
    BY <1>5, <1>6

-----------------------------------------------------------------------------
(* Steps that leave the tables alone, and what every step owes Requests.   *)

LEMMA RequestType ==
  ASSUME Inv, NEW w \in Worker, request[w] # Idle
  PROVE  /\ request[w] \in RequestAt(Nat)
         /\ request[w].kind \in Sent /\ request[w].client \in Client
         /\ request[w].auth \in Auth /\ request[w].gen \in Gen
         /\ request[w].scope \in SUBSET Scope /\ request[w].now \in Nat
  <1>1. request[w] \in RequestAt(Nat)
    BY DEF Inv, TypeOK
  <1> QED
    BY <1>1 DEF RequestAt

LEMMA RunningRequest ==
  ASSUME NEW w, NEW kind \in {"exchange", "refresh", "revoke_refresh",
                             "revoke_access", "introspect"}, Running(w, kind)
  PROVE  request[w] # Idle /\ request[w].kind = kind /\ result[w] = "pending"
  BY DEF Running, Idle

\* What a step does not touch keeps its invariant as the clock advances.
LEMMA FamilyUntouched ==
  ASSUME Inv, NEW a \in Auth, clock' \in Nat, clock' >= clock,
         family'[a] = family[a], session'[a] = session[a],
         code'[a].status = "consumed" <=> code[a].status = "consumed",
         revocation'[a] = revocation[a],
         \A g \in Gen : token'[<<a, g>>] = token[<<a, g>>]
  PROVE  FamilyInv(a)'
  <1> USE DEF Inv, RowInv, FamilyInv
  <1>1. family[a].current_generation \in Gen
    BY DEF TypeOK, FamilyRow
  <1>2. Exists(a)' = Exists(a) /\ Current(a)' = Current(a)
    BY <1>1 DEF Exists, Current
  <1>3. Lineage(a)'
    <2>1. \A g \in Gen : g < family[a].current_generation => g + 1 \in Gen
      BY <1>1, BoundAssumption DEF Gen
    <2> QED
      BY <2>1, <1>2 DEF Lineage
  <1>4. Reasoned(a)' /\ PassesChecks(a)'
    BY DEF Reasoned, PassesChecks
  <1>5. Agreement(a)'
    BY <1>2 DEF Agreement
  <1>6. Ordered(a)'
    <2> SUFFICES ASSUME NEW g \in Gen, Known(<<a, g>>)'
                 PROVE  /\ token'[<<a, g>>].issued_at \in Nat
                        /\ token'[<<a, g>>].issued_at <= Current(a)'.issued_at
                        /\ token'[<<a, g>>].issued_at <= clock'
      BY DEF Ordered
    <2>1. /\ token[<<a, g>>].issued_at \in Nat
          /\ token[<<a, g>>].issued_at <= Current(a).issued_at
          /\ token[<<a, g>>].issued_at <= clock
      BY DEF Ordered, Known
    <2>2. clock \in Nat
      BY DEF TypeOK
    <2> QED
      BY <2>1, <2>2, <1>2
  <1> QED
    BY <1>3, <1>4, <1>5, <1>6

LEMMA TablesUntouched ==
  ASSUME Inv, clock' \in Nat, clock' >= clock, UNCHANGED rows
  PROVE  RowInv'
  BY FamilyUntouched DEF rows, RowInv

\* A transaction that ends with an outcome and forgets no token.
LEMMA OutcomeKeepsRequests ==
  ASSUME Inv, NEW w \in Worker, request[w] # Idle, NEW outcome,
         Answer(w, outcome),
         \A t \in Refresh : Known(t) =>
           Known(t)' /\ token'[t].issued_at = token[t].issued_at,
         outcome = "tokens" =>
           /\ request[w].kind \in {"exchange", "refresh"}
           /\ IssuedToken(w) \in Refresh /\ Known(IssuedToken(w))'
  PROVE  Requests'
  <1> USE DEF Answer
  <1>1. \A t \in held' : Known(t)'
    BY DEF Inv, Requests, TypeOK
  <1>2. \A v \in Worker : request'[v] = Idle => result'[v] = "pending"
    BY DEF Inv, Requests, TypeOK
  <1>3. ASSUME NEW v \in Worker, request'[v] # Idle
        PROVE  InFlight(v)'
    <2>1. request'[v] = request[v] /\ request[v] # Idle /\ clock' = clock
      BY <1>3
    <2>2. PresentedToken(v) \in Refresh /\ InFlight(v)
      BY <2>1, RequestType DEF Refresh, PresentedToken, Inv, Requests
    <2>3. /\ PresentedToken(v)' = PresentedToken(v)
          /\ IssuedToken(v)' = IssuedToken(v)
      BY <2>1 DEF PresentedToken, IssuedToken
    <2>4. Known(PresentedToken(v)) =>
            /\ Known(PresentedToken(v))'
            /\ token'[PresentedToken(v)].issued_at = token[PresentedToken(v)].issued_at
      BY <2>2, <2>3 DEF Known
    <2>5. CASE v = w
      <3>1. result'[v] = outcome
        BY <2>5 DEF Inv, TypeOK
      <3>2. outcome = "tokens" =>
               IssuedToken(v) \in Refresh /\ Known(IssuedToken(v))'
        BY <2>5, <2>3 DEF IssuedToken, Known
      <3> QED
        BY <2>1, <2>2, <2>3, <2>4, <2>5, <3>1, <3>2 DEF InFlight
    <2>6. CASE v # w
      <3>1. result'[v] = result[v]
        BY <2>6 DEF Inv, TypeOK
      <3>2. Known(IssuedToken(v)) /\ IssuedToken(v) \in Refresh => Known(IssuedToken(v))'
        BY <2>3 DEF Known
      <3> QED
        BY <2>1, <2>2, <2>3, <2>4, <3>1, <3>2 DEF InFlight
    <2> QED
      BY <2>5, <2>6
  <1> QED
    BY <1>1, <1>2, <1>3 DEF Requests

-----------------------------------------------------------------------------
(* exchangeAuthorizationCode creates a family: nothing of it existed.      *)

LEMMA ExchangePreserves ==
  ASSUME Inv, NEW w \in Worker, Exchange(w),
         NEW a \in Auth, a = request[w].auth,
         NEW now \in Nat, now = request[w].now,
         NEW S \in SUBSET Scope, S = code[a].scopes
  PROVE  TypeOK' /\ RowInv' /\ Requests'
  <1>1. /\ request[w] # Idle /\ request[w].kind = "exchange" /\ result[w] = "pending"
        /\ now <= clock
    BY RunningRequest, RequestType DEF Exchange, Inv, Requests, InFlight
  <1>2. /\ 0 \in Gen /\ <<a, 0>> \in Refresh
        /\ S # {}
        /\ code[a].status = "issued" /\ code[a] \in CodeRow
    <2>1. 0 \in Gen /\ <<a, 0>> \in Refresh
      BY <1>1, BoundAssumption DEF Gen, Refresh
    <2>2. code[a] \in CodeRow
      BY <1>1 DEF Inv, TypeOK
    <2>3. Exchangeable(request[w])
      BY DEF Exchange
    <2> QED
      BY <2>1, <2>2, <2>3 DEF CodeRow, Exchangeable, LockedCode, Entitled
  <1>3. /\ ~Exists(a) /\ family[a].status = "none"
        /\ \A g \in Gen : ~Known(<<a, g>>) /\ token[<<a, g>>].status = "none"
        /\ \A g \in Gen : token[<<a, g>>].consumed_at = Null /\ token[<<a, g>>].revoked_at = Null
        /\ revocation[a] = [revoked_at |-> Null, reason |-> "none"]
    <2>1. ~Exists(a)
      BY <1>1, <1>2 DEF Inv, RowInv, FamilyInv, Agreement
    <2>2. \A g \in Gen : ~Known(<<a, g>>) /\ token[<<a, g>>].status = "none"
      BY <2>1, <1>1 DEF Inv, RowInv, FamilyInv, Lineage, Known
    <2>3. family[a].status = "none" /\ family[a].revoked_at = Null /\ family[a].reason = "none"
      BY <2>1, <1>1 DEF Exists, Inv, RowInv, FamilyInv, PassesChecks, Reasoned
    <2>4. \A g \in Gen : token[<<a, g>>].consumed_at = Null /\ token[<<a, g>>].revoked_at = Null
      BY <2>2, <1>1 DEF Inv, RowInv, FamilyInv, PassesChecks
    <2> QED
      BY <2>1, <2>2, <2>3, <2>4, <1>1 DEF Inv, RowInv, FamilyInv, Agreement
  <1>4. /\ code' \in [Auth -> CodeRow]
        /\ code'[a].status = "consumed"
        /\ \A b \in Auth \ {a} : code'[b] = code[b]
    <2> DEFINE row == [code[a] EXCEPT !.status = "consumed", !.consumed_at = now]
    <2>1. code' = [code EXCEPT ![a] = row]
      BY DEF Exchange
    <2>2. row \in CodeRow /\ row.status = "consumed"
      BY <1>1, <1>2 DEF CodeRow, TimeOrNull
    <2> HIDE DEF row
    <2> QED
      BY <2>1, <2>2, <1>1 DEF Inv, TypeOK
  <1>5. /\ session' \in [Auth -> SessionRow]
        /\ session'[a] = [status |-> "active", last_activity_at |-> now,
                          idle_expires_at |-> now + IdleTTL,
                          revoked_at |-> Null, reason |-> "none"]
        /\ \A b \in Auth \ {a} : session'[b] = session[b]
    <2> DEFINE row == [status |-> "active", last_activity_at |-> now,
                       idle_expires_at |-> now + IdleTTL,
                       revoked_at |-> Null, reason |-> "none"]
    <2>1. session' = [session EXCEPT ![a] = row]
      BY DEF Exchange
    <2>2. row \in SessionRow
      BY <1>1, LifetimeAssumption DEF SessionRow, TimeOrNull, Reason
    <2>3. /\ session' \in [Auth -> SessionRow] /\ session'[a] = row
          /\ \A b \in Auth \ {a} : session'[b] = session[b]
      <3> HIDE DEF row
      <3> QED
        BY <2>1, <2>2, <1>1 DEF Inv, TypeOK
    <2> QED
      BY <2>3
  <1>6. /\ family' \in [Auth -> FamilyRow]
        /\ family'[a] = [status |-> "active", scope_ceiling |-> S,
                         current_scopes |-> S, current_generation |-> 0,
                         replay_detected_at |-> Null, revoked_at |-> Null, reason |-> "none"]
        /\ \A b \in Auth \ {a} : family'[b] = family[b]
    <2> DEFINE row == [status |-> "active", scope_ceiling |-> S,
                       current_scopes |-> S, current_generation |-> 0,
                       replay_detected_at |-> Null, revoked_at |-> Null, reason |-> "none"]
    <2>2. family' = [family EXCEPT ![a] = row]
      BY DEF Exchange, NewFamily
    <2>3. row \in FamilyRow
      BY <1>1, <1>2 DEF FamilyRow, TimeOrNull, Reason
    <2>4. /\ family' \in [Auth -> FamilyRow] /\ family'[a] = row
          /\ \A b \in Auth \ {a} : family'[b] = family[b]
      <3> HIDE DEF row
      <3> QED
        BY <2>2, <2>3, <1>1 DEF Inv, TypeOK
    <2> QED
      BY <2>4
  <1>7. /\ token' \in [Refresh -> TokenRow]
        /\ token'[<<a, 0>>] = NewToken(S, now)
        /\ \A t \in Refresh \ {<<a, 0>>} : token'[t] = token[t]
    <2>1. token' = [token EXCEPT ![<<a, 0>>] = NewToken(S, now)]
      BY DEF Exchange
    <2>2. NewToken(S, now) \in TokenRow
      BY <1>1, <1>2, LifetimeAssumption DEF TokenRow, NewToken, TimeOrNull
    <2> QED
      BY <2>1, <2>2, <1>2 DEF Inv, TypeOK
  <1>8. /\ UNCHANGED <<clock, clientActive, entitled, revokedJti, revocation, held, request>>
        /\ result' = [result EXCEPT ![w] = "tokens"]
    BY DEF Exchange, Answer, registry
  <1>9. TypeOK'
    <2>1. result' \in [Worker -> Outcome]
      BY <1>8 DEF Inv, TypeOK, Outcome
    <2> QED
      BY <2>1, <1>4, <1>5, <1>6, <1>7, <1>8 DEF Inv, TypeOK
  <1>10. ASSUME NEW b \in Auth, b # a
         PROVE  FamilyInv(b)'
    <2>1. family'[b] = family[b] /\ session'[b] = session[b] /\ code'[b] = code[b]
      BY <1>4, <1>5, <1>6, <1>10
    <2>2. ASSUME NEW g \in Gen PROVE token'[<<b, g>>] = token[<<b, g>>]
      <3>1. <<b, g>> # <<a, 0>> /\ <<b, g>> \in Refresh
        BY <1>10 DEF Refresh
      <3> QED
        BY <3>1, <1>7
    <2>3. clock' \in Nat /\ clock' >= clock /\ revocation'[b] = revocation[b]
      BY <1>8 DEF Inv, TypeOK
    <2> QED
      BY <2>1, <2>2, <2>3, FamilyUntouched
  <1>11. \A g \in Gen \ {0} : token'[<<a, g>>] = token[<<a, g>>]
    BY <1>1, <1>7 DEF Refresh
  <1>12. /\ family'[a].current_generation = 0 /\ family'[a].status = "active"
         /\ Exists(a)' /\ Current(a)' = token'[<<a, 0>>]
    BY <1>6 DEF Exists, Current
  <1> USE DEF NewToken
  <1>13. FamilyInv(a)'
    <2>1. Lineage(a)'
      BY <1>2, <1>3, <1>6, <1>7, <1>11, <1>12, BoundAssumption DEF Lineage, Gen
    <2>2. Ordered(a)'
      BY <1>1, <1>2, <1>3, <1>7, <1>8, <1>11, <1>12 DEF Ordered, Known
    <2>3. Reasoned(a)'
      BY <1>6 DEF Reasoned
    <2>4. PassesChecks(a)'
      BY <1>2, <1>3, <1>6, <1>7, <1>11 DEF PassesChecks
    <2>5. Agreement(a)'
      BY <1>3, <1>4, <1>5, <1>6, <1>7, <1>8, <1>12 DEF Agreement
    <2> QED
      BY <2>1, <2>2, <2>3, <2>4, <2>5 DEF FamilyInv
  <1>14. RowInv'
    BY <1>10, <1>13 DEF RowInv
  <1>15. Requests'
    <2>1. \A t \in Refresh : Known(t) => Known(t)' /\ token'[t].issued_at = token[t].issued_at
      BY <1>1, <1>2, <1>3, <1>7 DEF Known, Inv, TypeOK
    <2>2. IssuedToken(w) \in Refresh /\ Known(IssuedToken(w))'
      <3>1. IssuedToken(w) = <<a, 0>> /\ IssuedToken(w)' = <<a, 0>>
        BY <1>1, <1>8 DEF IssuedToken, Issued
      <3> QED
        BY <3>1, <1>2, <1>7 DEF Known
    <2>3. Answer(w, "tokens")
      BY DEF Exchange
    <2> QED
      BY <2>1, <2>2, <2>3, <1>1, OutcomeKeepsRequests
  <1> QED
    BY <1>9, <1>14, <1>15

-----------------------------------------------------------------------------
(* refresh, on the current token of an active family, adds a generation.   *)

LEMMA RotatePreserves ==
  ASSUME Inv, NEW w \in Worker, Rotate(w),
         NEW a \in Auth, a = request[w].auth,
         NEW n \in Gen, n = request[w].gen,
         NEW now \in Nat, now = request[w].now,
         NEW S \in SUBSET Scope, S = RequestedScopes(request[w])
  PROVE  TypeOK' /\ RowInv' /\ Requests'
  <1>1. /\ request[w] # Idle /\ request[w].kind = "refresh" /\ result[w] = "pending"
        /\ now <= clock /\ Known(<<a, n>>) /\ token[<<a, n>>].issued_at <= now
    BY RunningRequest DEF Rotate, Inv, Requests, InFlight, PresentedToken
  <1>2. /\ n \in Nat /\ n + 1 \in Gen /\ n # n + 1
        /\ <<a, n>> \in Refresh /\ <<a, n + 1>> \in Refresh
    BY BoundAssumption DEF Gen, Refresh, Rotate
  <1>3. /\ token[<<a, n>>].status = "current" /\ token[<<a, n>>] \in TokenRow
        /\ family[a].status = "active" /\ family[a] \in FamilyRow
        /\ session[a].status = "active" /\ session[a] \in SessionRow
        /\ n = family[a].current_generation
        /\ token[<<a, n>>].scopes = family[a].current_scopes
        /\ S \subseteq family[a].current_scopes
    <2>1. Rotatable(request[w]) /\ Narrows(request[w])
      BY DEF Rotate
    <2>2. S \subseteq family[a].current_scopes
      BY <2>1 DEF Narrows
    <2>3. token[<<a, n>>] \in TokenRow /\ family[a] \in FamilyRow /\ session[a] \in SessionRow
      BY <1>2 DEF Inv, TypeOK
    <2> QED
      BY <2>1, <2>2, <2>3 DEF Rotatable, Presented
  <1>4. FamilyInv(a)
    BY DEF Inv, RowInv
  <1>5. /\ token[<<a, n>>].issued_at \in Nat
        /\ token[<<a, n>>].consumed_at = Null /\ token[<<a, n>>].revoked_at = Null
        /\ family[a].revoked_at = Null /\ family[a].reason = "none"
        /\ family[a].replay_detected_at = Null
        /\ Exists(a) /\ Current(a) = token[<<a, n>>]
    BY <1>1, <1>2, <1>3, <1>4
    DEF FamilyInv, Ordered, PassesChecks, Reasoned, Exists, Current
  <1>6. /\ family' \in [Auth -> FamilyRow]
        /\ family'[a] = [family[a] EXCEPT !.current_generation = n + 1, !.current_scopes = S]
        /\ \A b \in Auth \ {a} : family'[b] = family[b]
    <2> DEFINE row == [family[a] EXCEPT !.current_generation = n + 1, !.current_scopes = S]
    <2>1. family' = [family EXCEPT ![a] = row]
      BY DEF Rotate
    <2>2. row \in FamilyRow
      BY <1>2, <1>3 DEF FamilyRow
    <2>3. /\ family' \in [Auth -> FamilyRow] /\ family'[a] = row
          /\ \A b \in Auth \ {a} : family'[b] = family[b]
      <3> HIDE DEF row
      <3> QED
        BY <2>1, <2>2 DEF Inv, TypeOK
    <2> QED
      BY <2>3
  <1>7. /\ session' \in [Auth -> SessionRow]
        /\ session'[a] = [session[a] EXCEPT !.last_activity_at = now,
                                            !.idle_expires_at = now + IdleTTL]
        /\ \A b \in Auth \ {a} : session'[b] = session[b]
    <2> DEFINE row == [session[a] EXCEPT !.last_activity_at = now,
                                         !.idle_expires_at = now + IdleTTL]
    <2>1. session' = [session EXCEPT ![a] = row]
      BY DEF Rotate
    <2>2. row \in SessionRow
      <3>1. now \in TimeOrNull /\ now + IdleTTL \in TimeOrNull
        BY LifetimeAssumption DEF TimeOrNull
      <3> QED
        BY <3>1, <1>3 DEF SessionRow
    <2>3. /\ session' \in [Auth -> SessionRow] /\ session'[a] = row
          /\ \A b \in Auth \ {a} : session'[b] = session[b]
      <3> HIDE DEF row
      <3> QED
        BY <2>1, <2>2 DEF Inv, TypeOK
    <2> QED
      BY <2>3
  <1>8. /\ token' \in [Refresh -> TokenRow]
        /\ token'[<<a, n>>] = [token[<<a, n>>] EXCEPT !.status = "consumed", !.consumed_at = now]
        /\ token'[<<a, n + 1>>] = NewToken(S, now)
        /\ \A t \in Refresh \ {<<a, n>>, <<a, n + 1>>} : token'[t] = token[t]
    <2> DEFINE row == [token[<<a, n>>] EXCEPT !.status = "consumed", !.consumed_at = now]
    <2>1. token' = [token EXCEPT ![<<a, n>>] = row, ![<<a, n + 1>>] = NewToken(S, now)]
      BY DEF Rotate
    <2>2. row \in TokenRow
      BY <1>3 DEF TokenRow, TimeOrNull
    <2>3. NewToken(S, now) \in TokenRow
      BY LifetimeAssumption DEF TokenRow, NewToken, TimeOrNull
    <2>4. <<a, n>> # <<a, n + 1>>
      BY <1>2
    <2>5. /\ token' \in [Refresh -> TokenRow] /\ token'[<<a, n>>] = row
          /\ token'[<<a, n + 1>>] = NewToken(S, now)
          /\ \A t \in Refresh \ {<<a, n>>, <<a, n + 1>>} : token'[t] = token[t]
      <3> HIDE DEF row
      <3> QED
        BY <2>1, <2>2, <2>3, <2>4, <1>2 DEF Inv, TypeOK
    <2> QED
      BY <2>5
  <1>9. /\ UNCHANGED <<clock, clientActive, entitled, code, revokedJti, revocation, held, request>>
        /\ result' = [result EXCEPT ![w] = "tokens"]
    BY DEF Rotate, Answer, registry
  <1>10. TypeOK'
    <2>1. result' \in [Worker -> Outcome]
      BY <1>9 DEF Inv, TypeOK, Outcome
    <2> QED
      BY <2>1, <1>6, <1>7, <1>8, <1>9 DEF Inv, TypeOK
  <1>11. ASSUME NEW b \in Auth, b # a
         PROVE  FamilyInv(b)'
    <2>1. family'[b] = family[b] /\ session'[b] = session[b] /\ code'[b] = code[b]
      BY <1>6, <1>7, <1>9, <1>11
    <2>2. ASSUME NEW g \in Gen PROVE token'[<<b, g>>] = token[<<b, g>>]
      <3>1. /\ <<b, g>> # <<a, n>> /\ <<b, g>> # <<a, n + 1>>
            /\ <<b, g>> \in Refresh
        BY <1>11 DEF Refresh
      <3> QED
        BY <3>1, <1>8
    <2>3. clock' \in Nat /\ clock' >= clock /\ revocation'[b] = revocation[b]
      BY <1>9 DEF Inv, TypeOK
    <2> QED
      BY <2>1, <2>2, <2>3, FamilyUntouched
  <1>12. /\ \A g \in Gen : g # n /\ g # n + 1 => token'[<<a, g>>] = token[<<a, g>>]
         /\ \A g \in Gen : Known(<<a, g>>) <=> g <= n
         /\ \A g \in Gen : g \in Nat /\ (g < n => g + 1 \in Gen)
    <2>1. \A g \in Gen : g # n /\ g # n + 1 => token'[<<a, g>>] = token[<<a, g>>]
      BY <1>8 DEF Refresh
    <2>2. \A g \in Gen : Known(<<a, g>>) <=> g <= n
      BY <1>3, <1>4, <1>5 DEF FamilyInv, Lineage, Known
    <2>3. \A g \in Gen : g \in Nat /\ (g < n => g + 1 \in Gen)
      BY <1>2, BoundAssumption DEF Gen
    <2> QED
      BY <2>1, <2>2, <2>3
  <1>13. /\ family'[a].current_generation = n + 1 /\ family'[a].status = "active"
         /\ family'[a].current_scopes = S
         /\ family'[a].scope_ceiling = family[a].scope_ceiling
         /\ family'[a].revoked_at = Null /\ family'[a].reason = "none"
         /\ family'[a].replay_detected_at = Null
         /\ Exists(a)' /\ Current(a)' = token'[<<a, n + 1>>]
    <2>1. /\ family'[a].current_generation = n + 1 /\ family'[a].status = "active"
          /\ family'[a].current_scopes = S
          /\ family'[a].scope_ceiling = family[a].scope_ceiling
          /\ family'[a].revoked_at = Null /\ family'[a].reason = "none"
          /\ family'[a].replay_detected_at = Null
      BY <1>3, <1>5, <1>6 DEF FamilyRow
    <2> QED
      BY <2>1 DEF Exists, Current
  <1>14. /\ token'[<<a, n>>].status = "consumed" /\ token'[<<a, n>>].consumed_at = now
         /\ token'[<<a, n>>].revoked_at = Null
         /\ token'[<<a, n>>].issued_at = token[<<a, n>>].issued_at
         /\ token'[<<a, n>>].expires_at = token[<<a, n>>].expires_at
         /\ token'[<<a, n>>].scopes = family[a].current_scopes
    BY <1>3, <1>5, <1>8 DEF TokenRow
  <1>15. /\ token'[<<a, n + 1>>].status = "current" /\ token'[<<a, n + 1>>].issued_at = now
         /\ token'[<<a, n + 1>>].expires_at = now + IdleTTL
         /\ token'[<<a, n + 1>>].consumed_at = Null /\ token'[<<a, n + 1>>].revoked_at = Null
         /\ token'[<<a, n + 1>>].scopes = S
    BY <1>8 DEF NewToken
  <1>16. FamilyInv(a)'
    <2>1. Lineage(a)'
      <3>1. \A g \in Gen : token'[<<a, g>>].status # "none" <=> g <= n + 1
        BY <1>2, <1>12, <1>14, <1>15 DEF Known
      <3>2. ASSUME NEW g \in Gen, g < n + 1
            PROVE  /\ token'[<<a, g>>].status = "consumed"
                   /\ token'[<<a, g>>].consumed_at = token'[<<a, g + 1>>].issued_at
                   /\ token'[<<a, g>>].issued_at <= token'[<<a, g + 1>>].issued_at
                   /\ token'[<<a, g + 1>>].scopes \subseteq token'[<<a, g>>].scopes
        <4>1. CASE g = n
          BY <4>1, <1>1, <1>3, <1>14, <1>15
        <4>2. CASE g # n
          <5>1. g < n /\ g + 1 \in Gen /\ g # n + 1 /\ g + 1 # n + 1
            BY <3>2, <4>2, <1>2, <1>12
          <5>2. /\ token[<<a, g>>].status = "consumed"
                /\ token[<<a, g>>].consumed_at = token[<<a, g + 1>>].issued_at
                /\ token[<<a, g>>].issued_at <= token[<<a, g + 1>>].issued_at
                /\ token[<<a, g + 1>>].scopes \subseteq token[<<a, g>>].scopes
            BY <5>1, <1>3, <1>4, <1>5 DEF FamilyInv, Lineage
          <5>3. token'[<<a, g>>] = token[<<a, g>>]
            BY <5>1, <4>2, <1>12
          <5>4. /\ token'[<<a, g + 1>>].issued_at = token[<<a, g + 1>>].issued_at
                /\ token'[<<a, g + 1>>].scopes = token[<<a, g + 1>>].scopes
            <6>1. CASE g + 1 = n
              BY <6>1, <1>3, <1>14
            <6>2. CASE g + 1 # n
              BY <6>2, <5>1, <1>12
            <6> QED
              BY <6>1, <6>2
          <5> QED
            BY <5>2, <5>3, <5>4
        <4> QED
          BY <4>1, <4>2
      <3> QED
        BY <3>1, <3>2, <1>13, <1>15 DEF Lineage
    <2>2. Ordered(a)'
      <3> SUFFICES ASSUME NEW g \in Gen, Known(<<a, g>>)'
                   PROVE  /\ token'[<<a, g>>].issued_at \in Nat
                          /\ token'[<<a, g>>].issued_at <= now
        BY <1>1, <1>9, <1>13, <1>15 DEF Ordered, Inv, TypeOK
      <3>1. CASE g = n + 1
        BY <3>1, <1>15
      <3>2. CASE g # n + 1
        <4>1. token'[<<a, g>>].issued_at = token[<<a, g>>].issued_at /\ Known(<<a, g>>)
          BY <3>2, <1>1, <1>12, <1>14 DEF Known
        <4>2. /\ token[<<a, g>>].issued_at \in Nat
              /\ token[<<a, g>>].issued_at <= token[<<a, n>>].issued_at
          BY <4>1, <1>4, <1>5 DEF FamilyInv, Ordered
        <4> QED
          BY <4>1, <4>2, <1>1, <1>5
      <3> QED
        BY <3>1, <3>2
    <2>3. Reasoned(a)'
      BY <1>13 DEF Reasoned
    <2>4. PassesChecks(a)'
      <3>1. ASSUME NEW g \in Gen
            PROVE  LET row == token'[<<a, g>>]
                   IN  /\ row.consumed_at # Null => row.consumed_at >= row.issued_at
                       /\ row.revoked_at # Null => row.revoked_at >= row.issued_at
                       /\ row.consumed_at # Null <=> row.status = "consumed"
                       /\ row.revoked_at # Null <=> row.status = "revoked"
                       /\ row.status # "none" => row.expires_at = row.issued_at + IdleTTL
        <4>1. CASE g = n
          <5>1. token[<<a, n>>].expires_at = token[<<a, n>>].issued_at + IdleTTL
            BY <1>3, <1>4, <1>5 DEF FamilyInv, PassesChecks
          <5> QED
            BY <4>1, <5>1, <1>1, <1>5, <1>14, NullIsNoTime
        <4>2. CASE g = n + 1
          BY <4>2, <1>15
        <4>3. CASE g # n /\ g # n + 1
          BY <4>3, <1>4, <1>12 DEF FamilyInv, PassesChecks
        <4> QED
          BY <4>1, <4>2, <4>3
      <3>2. S \subseteq family[a].scope_ceiling
        BY <1>3, <1>4 DEF FamilyInv, PassesChecks
      <3> QED
        BY <3>1, <3>2, <1>13 DEF PassesChecks
    <2>5. Agreement(a)'
      <3>1. /\ session'[a].status = "active" /\ session'[a].revoked_at = Null
            /\ session'[a].reason = "none"
            /\ session'[a].idle_expires_at = now + IdleTTL
            /\ session'[a].last_activity_at = now
        BY <1>3, <1>4, <1>5, <1>7 DEF FamilyInv, Agreement, SessionRow
      <3>2. /\ revocation'[a] = [revoked_at |-> Null, reason |-> "none"]
            /\ code'[a].status = "consumed"
        BY <1>4, <1>5, <1>9 DEF FamilyInv, Agreement
      <3> QED
        BY <3>1, <3>2, <1>13, <1>15 DEF Agreement
    <2> QED
      BY <2>1, <2>2, <2>3, <2>4, <2>5 DEF FamilyInv
  <1>17. RowInv'
    BY <1>11, <1>16 DEF RowInv
  <1>18. Requests'
    <2>1. ASSUME NEW t \in Refresh, Known(t)
          PROVE  Known(t)' /\ token'[t].issued_at = token[t].issued_at
      <3>1. t # <<a, n + 1>>
        BY <2>1, <1>2, <1>12
      <3>2. CASE t = <<a, n>>
        BY <3>2, <1>14 DEF Known
      <3>3. CASE t # <<a, n>>
        BY <3>1, <3>3, <2>1, <1>8 DEF Known
      <3> QED
        BY <3>2, <3>3
    <2>2. IssuedToken(w) \in Refresh /\ Known(IssuedToken(w))'
      <3>1. IssuedToken(w) = <<a, n + 1>> /\ IssuedToken(w)' = <<a, n + 1>>
        BY <1>1, <1>9 DEF IssuedToken, Issued
      <3> QED
        BY <3>1, <1>2, <1>15 DEF Known
    <2>3. Answer(w, "tokens")
      BY DEF Rotate
    <2> QED
      BY <2>1, <2>2, <2>3, <1>1, OutcomeKeepsRequests
  <1> QED
    BY <1>10, <1>17, <1>18

-----------------------------------------------------------------------------
(* revokeFamilyAndSession, for a replay or at the client's request.        *)

LEMMA RevocationPreserves ==
  ASSUME Inv, NEW a \in Auth, Exists(a), NEW now \in Nat,
         NEW reason \in Reason \ {"none"}, NEW replay \in BOOLEAN,
         RevokeFamilyAndSession(a, now, reason, replay), clock' = clock
  PROVE  /\ family' \in [Auth -> FamilyRow] /\ session' \in [Auth -> SessionRow]
         /\ token' \in [Refresh -> TokenRow]
         /\ revocation' \in [Auth -> [revoked_at : TimeOrNull, reason : Reason]]
         /\ RowInv'
         /\ \A t \in Refresh : Known(t) =>
               Known(t)' /\ token'[t].issued_at = token[t].issued_at
  <1> DEFINE cur == family[a].current_generation
  <1>1. PICK at \in Nat : /\ at = RevocationTime(a, now)
                         /\ at >= Current(a).issued_at
                         /\ at # Null
    BY RevocationTimeValue, NullIsNoTime
  <1>2. PICK n \in Gen : n = family[a].current_generation
    BY DEF Inv, TypeOK, FamilyRow
  <1>3. /\ FamilyInv(a) /\ n \in Nat /\ <<a, n>> \in Refresh
        /\ Current(a) = token[<<a, n>>] /\ token[<<a, n>>] \in TokenRow
        /\ family[a] \in FamilyRow /\ session[a] \in SessionRow
        /\ family[a].status \in {"active", "revoked"}
    BY <1>2, BoundAssumption
    DEF Inv, RowInv, TypeOK, Refresh, Gen, Current, Exists, FamilyRow
  <1>4. PICK kill \in Nat, blame \in Reason, seen \in TimeOrNull :
          /\ kill = Coalesce(family[a].revoked_at, at)
          /\ blame = CoalesceReason(family[a].reason, reason)
          /\ seen = IF replay THEN Coalesce(family[a].replay_detected_at, at)
                              ELSE family[a].replay_detected_at
    <2>1. /\ family[a].revoked_at \in TimeOrNull /\ family[a].reason \in Reason
          /\ family[a].replay_detected_at \in TimeOrNull
      BY <1>3 DEF FamilyRow
    <2> QED
      BY <2>1, <1>1 DEF Coalesce, CoalesceReason, TimeOrNull
  <1>5. kill # Null /\ blame # "none" /\ kill \in TimeOrNull
    BY <1>4, NullIsNoTime DEF CoalesceReason, TimeOrNull
  <1>6. /\ family' \in [Auth -> FamilyRow]
        /\ family'[a] = [family[a] EXCEPT !.status = "revoked", !.revoked_at = kill,
                         !.reason = blame, !.replay_detected_at = seen]
        /\ \A b \in Auth \ {a} : family'[b] = family[b]
    <2> DEFINE row == [family[a] EXCEPT !.status = "revoked", !.revoked_at = kill,
                       !.reason = blame, !.replay_detected_at = seen]
    <2>1. family' = [family EXCEPT ![a] = row]
      BY <1>1, <1>4 DEF RevokeFamilyAndSession
    <2>2. row \in FamilyRow
      BY <1>3, <1>5 DEF FamilyRow
    <2>3. /\ family' \in [Auth -> FamilyRow] /\ family'[a] = row
          /\ \A b \in Auth \ {a} : family'[b] = family[b]
      <3> HIDE DEF row
      <3> QED
        BY <2>1, <2>2 DEF Inv, TypeOK
    <2> QED
      BY <2>3
  <1>7. /\ session' \in [Auth -> SessionRow]
        /\ session'[a] = [session[a] EXCEPT !.status = "revoked", !.revoked_at = kill,
                          !.reason = blame]
        /\ \A b \in Auth \ {a} : session'[b] = session[b]
    <2> DEFINE row == [session[a] EXCEPT !.status = "revoked", !.revoked_at = kill,
                       !.reason = blame]
    <2>1. session[a].revoked_at = family[a].revoked_at /\ session[a].reason = family[a].reason
      BY <1>3 DEF FamilyInv, Agreement
    <2>2. session' = [session EXCEPT ![a] = row]
      BY <1>1, <1>4, <2>1 DEF RevokeFamilyAndSession
    <2>3. row \in SessionRow
      BY <1>3, <1>5 DEF SessionRow
    <2>4. /\ session' \in [Auth -> SessionRow] /\ session'[a] = row
          /\ \A b \in Auth \ {a} : session'[b] = session[b]
      <3> HIDE DEF row
      <3> QED
        BY <2>2, <2>3 DEF Inv, TypeOK
    <2> QED
      BY <2>4
  <1>8. \A t \in Refresh :
          token'[t] = IF Affected(a, t)
                      THEN [token[t] EXCEPT !.status = "revoked",
                                            !.revoked_at = Coalesce(token[t].revoked_at, at)]
                      ELSE token[t]
    BY <1>1 DEF RevokeFamilyAndSession
  <1>9. \A g \in Gen : g # n => ~Affected(a, <<a, g>>)
    <2> SUFFICES ASSUME NEW g \in Gen, g # n
                 PROVE  token[<<a, g>>].status # "current"
      BY DEF Affected
    <2>1. g \in Nat
      BY BoundAssumption DEF Gen
    <2>2. CASE g < n
      BY <2>2, <1>2, <1>3 DEF FamilyInv, Lineage
    <2>3. CASE n < g
      BY <2>1, <2>3, <1>2, <1>3 DEF FamilyInv, Lineage
    <2> QED
      BY <2>1, <2>2, <2>3, <1>3
  <1>10. token' \in [Refresh -> TokenRow]
    <2>1. ASSUME NEW t \in Refresh PROVE token'[t] \in TokenRow
      <3>1. token[t] \in TokenRow
        BY DEF Inv, TypeOK
      <3>2. Coalesce(token[t].revoked_at, at) \in TimeOrNull
        BY <3>1 DEF TokenRow, TimeOrNull, Coalesce
      <3>3. [token[t] EXCEPT !.status = "revoked",
                             !.revoked_at = Coalesce(token[t].revoked_at, at)] \in TokenRow
        BY <3>1, <3>2 DEF TokenRow
      <3> QED
        BY <3>1, <3>3, <1>8
    <2>2. token' = [t \in Refresh |-> token'[t]]
      BY DEF RevokeFamilyAndSession
    <2> QED
      BY <2>1, <2>2
  <1>11. /\ revocation' = [revocation EXCEPT ![a] =
               IF @ = NoRevocation THEN [revoked_at |-> at, reason |-> reason] ELSE @]
         /\ code' = code
    BY <1>1 DEF RevokeFamilyAndSession
  <1>12. /\ revocation'[a] = [revoked_at |-> kill, reason |-> blame]
         /\ \A b \in Auth \ {a} : revocation'[b] = revocation[b]
         /\ revocation' \in [Auth -> [revoked_at : TimeOrNull, reason : Reason]]
    <2>1. revocation[a] = [revoked_at |-> family[a].revoked_at, reason |-> family[a].reason]
      BY <1>3 DEF FamilyInv, Agreement
    <2>2. (IF revocation[a] = NoRevocation THEN [revoked_at |-> at, reason |-> reason]
                                           ELSE revocation[a])
            = [revoked_at |-> kill, reason |-> blame]
      <3>1. CASE family[a].status = "active"
        <4>1. family[a].revoked_at = Null /\ family[a].reason = "none"
          BY <3>1, <1>3 DEF FamilyInv, PassesChecks, Reasoned
        <4>2. kill = at /\ blame = reason
          BY <4>1, <1>4 DEF Coalesce, CoalesceReason
        <4> QED
          BY <4>1, <4>2, <2>1 DEF NoRevocation
      <3>2. CASE family[a].status = "revoked"
        <4>1. family[a].revoked_at # Null
          BY <3>2, <1>3 DEF FamilyInv, PassesChecks
        <4>2. kill = family[a].revoked_at
          BY <4>1, <1>4 DEF Coalesce
        <4>3. blame = family[a].reason
          BY <3>2, <1>3, <1>4 DEF FamilyInv, Reasoned, CoalesceReason
        <4>4. revocation[a] # NoRevocation
          BY <4>1, <2>1 DEF NoRevocation
        <4> QED
          BY <4>2, <4>3, <4>4, <2>1
      <3> QED
        BY <3>1, <3>2, <1>3
    <2> QED
      BY <2>2, <1>5, <1>11 DEF Inv, TypeOK
  <1>13. ASSUME NEW b \in Auth, b # a
         PROVE  FamilyInv(b)'
    <2>1. /\ family'[b] = family[b] /\ session'[b] = session[b] /\ code'[b] = code[b]
          /\ revocation'[b] = revocation[b]
      BY <1>6, <1>7, <1>11, <1>12, <1>13
    <2>2. ASSUME NEW g \in Gen PROVE token'[<<b, g>>] = token[<<b, g>>]
      <3>1. ~Affected(a, <<b, g>>) /\ <<b, g>> \in Refresh
        BY <1>13 DEF Affected, Refresh
      <3> QED
        BY <3>1, <1>8
    <2>3. clock' \in Nat /\ clock' >= clock
      BY DEF Inv, TypeOK
    <2> QED
      BY <2>1, <2>2, <2>3, FamilyUntouched
  <1>14. \A g \in Gen : g # n => token'[<<a, g>>] = token[<<a, g>>]
    BY <1>8, <1>9 DEF Refresh
  <1>15. /\ family'[a].status = "revoked" /\ family'[a].revoked_at = kill
         /\ family'[a].reason = blame
         /\ family'[a].current_generation = n
         /\ family'[a].current_scopes = family[a].current_scopes
         /\ family'[a].scope_ceiling = family[a].scope_ceiling
         /\ Exists(a)' /\ Current(a)' = token'[<<a, n>>]
    <2>1. /\ family'[a].status = "revoked" /\ family'[a].revoked_at = kill
          /\ family'[a].reason = blame
          /\ family'[a].current_generation = n
          /\ family'[a].current_scopes = family[a].current_scopes
          /\ family'[a].scope_ceiling = family[a].scope_ceiling
      BY <1>2, <1>3, <1>6 DEF FamilyRow
    <2> QED
      BY <2>1 DEF Exists, Current
  \* Whether the family was still active or not, its current token ends revoked,
  \* at the family's time and not before it was issued.
  <1>16. /\ token'[<<a, n>>].status = "revoked" /\ token'[<<a, n>>].revoked_at = kill
         /\ token'[<<a, n>>].consumed_at = Null
         /\ kill >= token[<<a, n>>].issued_at
         /\ token'[<<a, n>>].issued_at = token[<<a, n>>].issued_at
         /\ token'[<<a, n>>].expires_at = token[<<a, n>>].expires_at
         /\ token'[<<a, n>>].scopes = token[<<a, n>>].scopes
    <2>1. CASE family[a].status = "active"
      <3>1. /\ token[<<a, n>>].status = "current" /\ family[a].revoked_at = Null
            /\ token[<<a, n>>].revoked_at = Null /\ token[<<a, n>>].consumed_at = Null
        BY <2>1, <1>3 DEF FamilyInv, Lineage, PassesChecks
      <3>2. kill = at /\ Coalesce(token[<<a, n>>].revoked_at, at) = at
        BY <3>1, <1>4 DEF Coalesce
      <3>3. token'[<<a, n>>] = [token[<<a, n>>] EXCEPT !.status = "revoked", !.revoked_at = at]
        BY <3>1, <3>2, <1>3, <1>8 DEF Affected
      <3> QED
        BY <3>1, <3>2, <3>3, <1>1, <1>3 DEF TokenRow
    <2>2. CASE family[a].status = "revoked"
      <3>1. /\ token[<<a, n>>].status = "revoked" /\ family[a].revoked_at # Null
            /\ token[<<a, n>>].revoked_at = family[a].revoked_at
            /\ token[<<a, n>>].consumed_at = Null
        BY <2>2, <1>3 DEF FamilyInv, Lineage, PassesChecks, Agreement
      <3>2. kill = family[a].revoked_at
        BY <3>1, <1>4 DEF Coalesce
      <3>3. token'[<<a, n>>] = token[<<a, n>>]
        BY <3>1, <1>3, <1>8 DEF Affected
      <3> QED
        BY <3>1, <3>2, <3>3, <1>3 DEF FamilyInv, PassesChecks
    <2> QED
      BY <2>1, <2>2, <1>3
  <1>17. FamilyInv(a)'
    <2>1. Lineage(a)'
      <3>1. \A g \in Gen : token'[<<a, g>>].status # "none" <=> g <= n
        BY <1>2, <1>3, <1>14, <1>16 DEF FamilyInv, Lineage
      <3>2. ASSUME NEW g \in Gen, g < n
            PROVE  /\ token'[<<a, g>>].status = "consumed"
                   /\ token'[<<a, g>>].consumed_at = token'[<<a, g + 1>>].issued_at
                   /\ token'[<<a, g>>].issued_at <= token'[<<a, g + 1>>].issued_at
                   /\ token'[<<a, g + 1>>].scopes \subseteq token'[<<a, g>>].scopes
        <4>1. g + 1 \in Gen /\ g # n
          BY <3>2, <1>3, BoundAssumption DEF Gen
        <4>2. /\ token[<<a, g>>].status = "consumed"
              /\ token[<<a, g>>].consumed_at = token[<<a, g + 1>>].issued_at
              /\ token[<<a, g>>].issued_at <= token[<<a, g + 1>>].issued_at
              /\ token[<<a, g + 1>>].scopes \subseteq token[<<a, g>>].scopes
          BY <3>2, <1>2, <1>3 DEF FamilyInv, Lineage
        <4>3. /\ token'[<<a, g>>] = token[<<a, g>>]
              /\ token'[<<a, g + 1>>].issued_at = token[<<a, g + 1>>].issued_at
              /\ token'[<<a, g + 1>>].scopes = token[<<a, g + 1>>].scopes
          BY <4>1, <1>14, <1>16
        <4> QED
          BY <4>2, <4>3
      <3>3. token'[<<a, n>>].scopes = family'[a].current_scopes
        BY <1>3, <1>15, <1>16 DEF FamilyInv, Lineage
      <3> QED
        BY <3>1, <3>2, <3>3, <1>15, <1>16 DEF Lineage
    <2>2. Ordered(a)'
      <3>1. ASSUME NEW g \in Gen
            PROVE  /\ Known(<<a, g>>)' => Known(<<a, g>>)
                   /\ token'[<<a, g>>].issued_at = token[<<a, g>>].issued_at
        <4>1. CASE g = n
          BY <4>1, <1>3, <1>16 DEF Known, FamilyInv, Lineage
        <4>2. CASE g # n
          BY <4>2, <1>14 DEF Known
        <4> QED
          BY <4>1, <4>2
      <3> QED
        BY <3>1, <1>3, <1>15 DEF FamilyInv, Ordered
    <2>3. Reasoned(a)'
      BY <1>5, <1>15 DEF Reasoned
    <2>4. PassesChecks(a)'
      <3>1. ASSUME NEW g \in Gen
            PROVE  LET row == token'[<<a, g>>]
                   IN  /\ row.consumed_at # Null => row.consumed_at >= row.issued_at
                       /\ row.revoked_at # Null => row.revoked_at >= row.issued_at
                       /\ row.consumed_at # Null <=> row.status = "consumed"
                       /\ row.revoked_at # Null <=> row.status = "revoked"
                       /\ row.status # "none" => row.expires_at = row.issued_at + IdleTTL
        <4>1. CASE g = n
          <5>1. token[<<a, n>>].expires_at = token[<<a, n>>].issued_at + IdleTTL
            BY <1>3 DEF FamilyInv, Lineage, PassesChecks
          <5> QED
            BY <4>1, <5>1, <1>5, <1>16
        <4>2. CASE g # n
          BY <4>2, <1>3, <1>14 DEF FamilyInv, PassesChecks
        <4> QED
          BY <4>1, <4>2
      <3> QED
        BY <3>1, <1>3, <1>5, <1>15 DEF FamilyInv, PassesChecks
    <2>5. Agreement(a)'
      <3>1. /\ session'[a].status = "revoked" /\ session'[a].revoked_at = kill
            /\ session'[a].reason = blame
            /\ session'[a].idle_expires_at = session[a].idle_expires_at
            /\ session'[a].last_activity_at = session[a].last_activity_at
        BY <1>3, <1>7 DEF SessionRow
      <3>2. /\ session[a].idle_expires_at = token[<<a, n>>].expires_at
            /\ session[a].last_activity_at = token[<<a, n>>].issued_at
            /\ code'[a].status = "consumed"
        BY <1>3, <1>11 DEF FamilyInv, Agreement
      <3> QED
        BY <3>1, <3>2, <1>12, <1>15, <1>16 DEF Agreement
    <2> QED
      BY <2>1, <2>2, <2>3, <2>4, <2>5 DEF FamilyInv
  <1>18. ASSUME NEW t \in Refresh, Known(t)
         PROVE  Known(t)' /\ token'[t].issued_at = token[t].issued_at
    <2>1. token[t] \in TokenRow
      BY DEF Inv, TypeOK
    <2>2. CASE Affected(a, t)
      <3>1. token'[t] = [token[t] EXCEPT !.status = "revoked",
                                         !.revoked_at = Coalesce(token[t].revoked_at, at)]
        BY <2>2, <1>8
      <3> QED
        BY <3>1, <2>1 DEF Known, TokenRow
    <2>3. CASE ~Affected(a, t)
      BY <2>3, <1>8, <1>18 DEF Known
    <2> QED
      BY <2>2, <2>3
  <1>19. RowInv'
    BY <1>13, <1>17 DEF RowInv
  <1> QED
    BY <1>6, <1>7, <1>10, <1>12, <1>18, <1>19

-----------------------------------------------------------------------------
(* Inv is inductive.                                                       *)

LEMMA InitInv == Init => Inv
  <1> SUFFICES ASSUME Init PROVE Inv
    OBVIOUS
  <1> USE DEF Init, NoCode, NoSession, NoFamily, NoToken, NoRevocation
  <1>1. 0 \in Gen
    BY BoundAssumption DEF Gen
  <1>2. TypeOK
    <2>1. /\ NoCode \in CodeRow /\ NoSession \in SessionRow /\ NoToken \in TokenRow
          /\ NoRevocation \in [revoked_at : TimeOrNull, reason : Reason]
      BY DEF CodeRow, SessionRow, TokenRow, TimeOrNull, Reason
    <2>2. NoFamily \in FamilyRow
      BY <1>1 DEF FamilyRow, TimeOrNull, Reason
    <2> QED
      BY <2>1, <2>2 DEF TypeOK, TimeOrNull, Outcome
  <1>3. ASSUME NEW a \in Auth PROVE FamilyInv(a)
    <2>1. \A g \in Gen : token[<<a, g>>] = NoToken
      BY DEF Refresh
    <2> QED
      BY <1>1, <2>1 DEF FamilyInv, Lineage, Ordered, Reasoned, PassesChecks, Agreement,
                        Known, Exists, Current, Refresh
  <1>4. Requests
    BY DEF Requests
  <1> QED
    BY <1>2, <1>3, <1>4 DEF Inv, RowInv

\* A transaction that ends without writing a row.
LEMMA RefusePreserves ==
  ASSUME Inv, NEW w \in Worker, request[w] # Idle,
         NEW outcome \in Outcome \ {"tokens"}, Refuse(w, outcome)
  PROVE  Inv'
  <1> USE DEF Refuse, Answer
  <1>1. TypeOK'
    BY DEF Inv, TypeOK, registry, rows
  <1>2. RowInv'
    BY TablesUntouched DEF Inv, TypeOK
  <1>3. Requests'
    <2>1. \A t \in Refresh : Known(t) =>
            Known(t)' /\ token'[t].issued_at = token[t].issued_at
      BY DEF Known, rows
    <2> QED
      BY <2>1, OutcomeKeepsRequests
  <1> QED
    BY <1>1, <1>2, <1>3 DEF Inv

\* A revocation, whatever asked for it.
LEMMA RevokingPreserves ==
  ASSUME Inv, NEW w \in Worker, request[w] # Idle, Known(PresentedToken(w)),
         NEW a \in Auth, a = request[w].auth, NEW now \in Nat,
         NEW reason \in Reason \ {"none"}, NEW replay \in BOOLEAN,
         NEW outcome \in Outcome \ {"tokens"},
         RevokeFamilyAndSession(a, now, reason, replay), Answer(w, outcome)
  PROVE  Inv'
  <1>1. Exists(a)
    <2>1. request[w].gen \in Gen
      BY RequestType
    <2> QED
      BY <2>1 DEF Inv, RowInv, FamilyInv, Lineage, Known, PresentedToken
  <1>2. /\ family' \in [Auth -> FamilyRow] /\ session' \in [Auth -> SessionRow]
        /\ token' \in [Refresh -> TokenRow]
        /\ revocation' \in [Auth -> [revoked_at : TimeOrNull, reason : Reason]]
        /\ RowInv'
        /\ \A t \in Refresh : Known(t) =>
              Known(t)' /\ token'[t].issued_at = token[t].issued_at
    <2>1. clock' = clock
      BY DEF Answer
    <2> QED
      BY <1>1, <2>1, RevocationPreserves
  <1>3. TypeOK'
    BY <1>2 DEF Inv, TypeOK, Answer, registry, RevokeFamilyAndSession
  <1>4. Requests'
    BY <1>2, OutcomeKeepsRequests
  <1> QED
    BY <1>2, <1>3, <1>4 DEF Inv

LEMMA NextInv == Inv /\ [Next]_vars => Inv'
  <1> SUFFICES ASSUME Inv, [Next]_vars PROVE Inv'
    OBVIOUS
  <1>1. ASSUME NEW w \in Worker, Begin(w) PROVE Inv'
    <2>1. PICK r \in RequestAt({clock}) :
             Presentable(r) /\ request' = [request EXCEPT ![w] = r]
      BY <1>1 DEF Begin
    <2>2. /\ r \in RequestAt(Nat) /\ r.now = clock /\ r # Idle
          /\ r.kind \in Sent /\ r.auth \in Auth /\ r.gen \in Gen
      BY SentAssumption DEF RequestAt, Inv, TypeOK, Idle
    <2>3. /\ UNCHANGED <<clock, registry, rows, held, result>> /\ request[w] = Idle
      BY <1>1 DEF Begin
    <2>4. TypeOK'
      BY <2>1, <2>2, <2>3 DEF Inv, TypeOK, registry, rows
    <2>5. RowInv'
      BY <2>3, TablesUntouched DEF Inv, TypeOK
    <2>6. Requests'
      <3>1. InFlight(w)'
        <4>1. request'[w] = r /\ result'[w] = "pending" /\ clock' = r.now /\ token' = token
          BY <2>1, <2>2, <2>3 DEF Inv, TypeOK, Requests, rows
        <4>2. r.kind # "exchange" =>
                /\ Known(<<r.auth, r.gen>>)
                /\ token[<<r.auth, r.gen>>].issued_at <= r.now
          BY <2>1, <2>2 DEF Presentable, Inv, Requests, RowInv, FamilyInv, Ordered
        <4> QED
          BY <4>1, <4>2, <2>2 DEF InFlight, PresentedToken, Known, Inv, TypeOK
      <3>2. ASSUME NEW v \in Worker, v # w
            PROVE  /\ request'[v] = request[v] /\ result'[v] = result[v]
                   /\ InFlight(v) => InFlight(v)'
        <4>1. request'[v] = request[v] /\ result'[v] = result[v]
          BY <2>1, <2>3, <3>2 DEF Inv, TypeOK
        <4> QED
          BY <4>1, <2>3 DEF InFlight, PresentedToken, IssuedToken, Known, rows
      <3>3. \A t \in held' : Known(t)'
        BY <2>3 DEF Inv, Requests, Known, rows
      <3>4. \A v \in Worker : request'[v] = Idle => result'[v] = "pending"
        BY <2>3, <3>2 DEF Inv, Requests
      <3> QED
        BY <3>1, <3>2, <3>3, <3>4 DEF Inv, Requests
    <2> QED
      BY <2>4, <2>5, <2>6 DEF Inv
  <1>2. ASSUME NEW w \in Worker, Respond(w) \/ LoseResponse(w) PROVE Inv'
    <2>1. /\ UNCHANGED <<clock, registry, rows>> /\ result[w] # "pending"
          /\ request' = [request EXCEPT ![w] = Idle]
          /\ result' = [result EXCEPT ![w] = "pending"]
          /\ held' \in {held, IF result[w] = "tokens" THEN held \cup {IssuedToken(w)} ELSE held}
      BY <1>2 DEF Respond, LoseResponse, IssuedToken
    <2>2. /\ request[w] # Idle
          /\ result[w] = "tokens" => IssuedToken(w) \in Refresh /\ Known(IssuedToken(w))
      BY <2>1 DEF Inv, Requests, InFlight
    <2>3. TypeOK'
      BY <2>1, <2>2 DEF Inv, TypeOK, registry, rows, Outcome
    <2>4. RowInv'
      BY <2>1, TablesUntouched DEF Inv, TypeOK
    <2>5. Requests'
      <3>1. \A t \in held' : Known(t)'
        BY <2>1, <2>2 DEF Inv, Requests, Known, rows
      <3>2. request'[w] = Idle /\ result'[w] = "pending"
        BY <2>1 DEF Inv, TypeOK
      <3>3. ASSUME NEW v \in Worker, v # w
            PROVE  /\ request'[v] = request[v] /\ result'[v] = result[v]
                   /\ InFlight(v) => InFlight(v)'
        <4>1. request'[v] = request[v] /\ result'[v] = result[v]
          BY <2>1, <3>3 DEF Inv, TypeOK
        <4> QED
          BY <4>1, <2>1 DEF InFlight, PresentedToken, IssuedToken, Known, rows
      <3> QED
        BY <3>1, <3>2, <3>3 DEF Inv, Requests
    <2> QED
      BY <2>3, <2>4, <2>5 DEF Inv
  <1>3. ASSUME NEW w \in Worker, Unavailable(w) PROVE Inv'
    BY <1>3, RefusePreserves DEF Unavailable, Outcome
  <1>4. ASSUME NEW w \in Worker, Exchange(w) PROVE Inv'
    <2>1. request[w] # Idle
      BY <1>4, RunningRequest DEF Exchange
    <2>2. /\ request[w].auth \in Auth /\ request[w].now \in Nat
          /\ code[request[w].auth].scopes \in SUBSET Scope
      BY <2>1, RequestType DEF Inv, TypeOK, CodeRow
    <2> QED
      BY <1>4, <2>2, ExchangePreserves DEF Inv
  <1>5. ASSUME NEW w \in Worker, Rotate(w) PROVE Inv'
    <2>1. request[w] # Idle
      BY <1>5, RunningRequest DEF Rotate
    <2>2. /\ request[w].auth \in Auth /\ request[w].gen \in Gen /\ request[w].now \in Nat
          /\ request[w].scope \in SUBSET Scope
          /\ family[request[w].auth].current_scopes \in SUBSET Scope
      BY <2>1, RequestType DEF Inv, TypeOK, FamilyRow
    <2>3. RequestedScopes(request[w]) \in SUBSET Scope
      BY <2>2 DEF RequestedScopes
    <2> QED
      BY <1>5, <2>2, <2>3, RotatePreserves DEF Inv
  <1>6. ASSUME NEW w \in Worker, Replay(w) PROVE Inv'
    <2>1. request[w] # Idle /\ request[w].kind = "refresh"
      BY <1>6, RunningRequest DEF Replay
    <2>2. request[w].auth \in Auth /\ clock \in Nat /\ Known(PresentedToken(w))
      BY <2>1, RequestType DEF Inv, TypeOK, Requests, InFlight
    <2> QED
      BY <1>6, <2>1, <2>2, RevokingPreserves DEF Replay, Reason, Outcome
  <1>7. ASSUME NEW w \in Worker, RevokeRefresh(w) PROVE Inv'
    <2>1. request[w] # Idle /\ request[w].kind = "revoke_refresh"
      BY <1>7, RunningRequest DEF RevokeRefresh
    <2>2. request[w].auth \in Auth /\ request[w].now \in Nat /\ Known(PresentedToken(w))
      BY <2>1, RequestType DEF Inv, Requests, InFlight
    <2> QED
      BY <1>7, <2>1, <2>2, RevokingPreserves DEF RevokeRefresh, Reason, Outcome
  <1>8. ASSUME NEW w \in Worker, RevokeAccess(w) PROVE Inv'
    <2>1. request[w] # Idle /\ request[w].kind = "revoke_access"
      BY <1>8, RunningRequest DEF RevokeAccess
    <2>2. PICK t \in Refresh : t = PresentedToken(w) /\ Known(t) /\ token[t].issued_at \in Nat
      <3>1. PresentedToken(w) \in Refresh /\ Known(PresentedToken(w))
        BY <2>1, RequestType DEF Inv, Requests, InFlight, PresentedToken, Refresh
      <3>2. token[PresentedToken(w)].issued_at \in Nat
        BY <3>1, <2>1, RequestType DEF Inv, RowInv, FamilyInv, Ordered, PresentedToken
      <3> QED
        BY <3>1, <3>2
    <2>3. Retention(t) \in Nat
      BY <2>2, LifetimeAssumption DEF Retention
    <2>4. /\ UNCHANGED <<clock, registry, code, session, family, token, revocation, held, request>>
          /\ result' = [result EXCEPT ![w] = "revoked"]
          /\ revokedJti' = [revokedJti EXCEPT ![t] =
                IF Retention(t) <= request[w].now THEN @ ELSE Max({@, Retention(t)})]
      BY <1>8, <2>2 DEF RevokeAccess, Answer, PresentedToken
    <2>5. Max({revokedJti[t], Retention(t)}) \in TimeOrNull
      <3>1. revokedJti[t] \in TimeOrNull
        BY DEF Inv, TypeOK
      <3> DEFINE T == {revokedJti[t], Retention(t)}
      <3>2. T \in SUBSET Int /\ revokedJti[t] \in T /\ Retention(t) \in T
        BY <3>1, <2>3 DEF TimeOrNull, Null
      <3>3. CASE revokedJti[t] <= Retention(t)
        <4>1. Max(T) = Retention(t)
          <5>1. \A x \in T : x <= Retention(t)
            BY <3>3, <2>3
          <5> HIDE DEF T
          <5> QED
            BY <5>1, <3>2, MaxIsBound
        <4> QED
          BY <4>1, <2>3 DEF TimeOrNull
      <3>4. CASE ~(revokedJti[t] <= Retention(t))
        <4>1. Max(T) = revokedJti[t]
          <5>1. \A x \in T : x <= revokedJti[t]
            BY <3>1, <3>4, <2>3 DEF TimeOrNull, Null
          <5> HIDE DEF T
          <5> QED
            BY <5>1, <3>2, MaxIsBound
        <4> QED
          BY <4>1, <3>1
      <3> QED
        BY <3>3, <3>4
    <2>6. revokedJti' \in [Refresh -> TimeOrNull]
      BY <2>4, <2>5 DEF Inv, TypeOK
    <2>7. TypeOK'
      BY <2>4, <2>6 DEF Inv, TypeOK, registry, Outcome
    <2>8. ASSUME NEW a \in Auth PROVE FamilyInv(a)'
      BY <2>4, FamilyUntouched DEF Inv, TypeOK
    <2>9. Requests'
      <3>1. \A u \in Refresh : Known(u) =>
              Known(u)' /\ token'[u].issued_at = token[u].issued_at
        BY <2>4 DEF Known
      <3>2. Answer(w, "revoked")
        BY <1>8 DEF RevokeAccess
      <3> QED
        BY <3>1, <3>2, <2>1, OutcomeKeepsRequests
    <2> QED
      BY <2>7, <2>8, <2>9 DEF Inv, RowInv
  <1>9. ASSUME NEW w \in Worker,
               \/ ExchangeDenied(w) \/ RefreshDenied(w)
               \/ RevokeIgnored(w) \/ Introspect(w)
        PROVE  Inv'
    <2>1. request[w] # Idle
      BY <1>9, RunningRequest DEF ExchangeDenied, RefreshDenied, RevokeIgnored, Introspect
    <2>2. PICK outcome \in Outcome \ {"tokens"} : Refuse(w, outcome)
      <3>1. \E o \in {"invalid_client", "invalid_grant", "invalid_scope", "revoked",
                      "active", "inactive"} : Refuse(w, o)
        BY <1>9 DEF ExchangeDenied, RefreshDenied, RevokeIgnored, Introspect
      <3> QED
        BY <3>1 DEF Outcome
    <2> QED
      BY <2>1, <2>2, RefusePreserves
  <1>10. ASSUME NEW a \in Auth, IssueCode(a) PROVE Inv'
    <2>1. PICK S \in SUBSET Scope :
             code' = [code EXCEPT ![a] = NewCode(S, clock)]
      BY <1>10 DEF IssueCode
    <2>2. /\ UNCHANGED <<clock, registry, session, family, token, revokedJti, revocation,
                         held, request, result>>
          /\ code[a].status = "none"
      BY <1>10 DEF IssueCode
    <2>4. NewCode(S, clock) \in CodeRow /\ NewCode(S, clock).status = "issued"
      BY LifetimeAssumption DEF Inv, TypeOK, CodeRow, TimeOrNull, NewCode
    <2>5. /\ code' \in [Auth -> CodeRow]
          /\ code'[a].status = "issued"
          /\ \A b \in Auth \ {a} : code'[b] = code[b]
      BY <2>1, <2>4 DEF Inv, TypeOK
    <2>6. TypeOK'
      BY <2>2, <2>5 DEF Inv, TypeOK, registry
    <2>7. ASSUME NEW b \in Auth PROVE FamilyInv(b)'
      <3>1. code'[b].status = "consumed" <=> code[b].status = "consumed"
        BY <2>2, <2>5
      <3> QED
        BY <2>2, <3>1, FamilyUntouched DEF Inv, TypeOK
    <2>8. Requests'
      BY <2>2 DEF Inv, Requests, InFlight, PresentedToken, IssuedToken, Known
    <2> QED
      BY <2>6, <2>7, <2>8 DEF Inv, RowInv
  <1>11. ASSUME \/ \E c \in Client : SetClient(c)
                \/ \E a \in Auth : SetEntitlement(a)
                \/ Tick
                \/ UNCHANGED vars
         PROVE  Inv'
    <2>1. /\ UNCHANGED <<rows, held, request, result>>
          /\ clock' \in Nat /\ clock' >= clock
          /\ clientActive' \in [Client -> BOOLEAN]
          /\ entitled' \in [Auth -> SUBSET Scope]
      <3>1. CASE \E c \in Client : SetClient(c)
        BY <3>1 DEF SetClient, Inv, TypeOK
      <3>2. CASE \E a \in Auth : SetEntitlement(a)
        BY <3>2 DEF SetEntitlement, Inv, TypeOK
      <3>3. CASE Tick
        BY <3>3 DEF Tick, registry, Inv, TypeOK
      <3>4. CASE UNCHANGED vars
        BY <3>4 DEF vars, registry, Inv, TypeOK
      <3> QED
        BY <1>11, <3>1, <3>2, <3>3, <3>4
    <2>2. TypeOK'
      BY <2>1 DEF Inv, TypeOK, rows
    <2>3. RowInv'
      BY <2>1, TablesUntouched
    <2>4. Requests'
      <3>1. ASSUME NEW v \in Worker, request[v] # Idle PROVE InFlight(v)'
        <4>1. InFlight(v) /\ request[v].now \in Nat /\ clock \in Nat
          BY <3>1, RequestType DEF Inv, Requests, TypeOK
        <4> QED
          BY <4>1, <2>1 DEF InFlight, PresentedToken, IssuedToken, Known, rows
      <3> QED
        BY <3>1, <2>1 DEF Inv, Requests, Known, rows
    <2> QED
      BY <2>2, <2>3, <2>4 DEF Inv
  <1> QED
    BY <1>1, <1>2, <1>3, <1>4, <1>5, <1>6, <1>7, <1>8, <1>9, <1>10, <1>11 DEF Next, Step

\* Every reachable state satisfies the inductive invariant: the rows of every
\* family are in order and every request in flight presents a token that existed
\* when the request read the clock.
THEOREM Invariance == Spec => []Inv
  BY InitInv, NextInv, PTL DEF Spec

-----------------------------------------------------------------------------

\* Columns and variables keep to the values the code gives them.
THEOREM TypeCorrect == Spec => []TypeOK
  <1>1. Inv => TypeOK
    BY DEF Inv
  <1> QED
    BY <1>1, Invariance, PTL

\* However many refreshes race, a family is one unbroken line of generations that
\* ends in one usable token exactly while the family is active.
THEOREM LineageHolds == Spec => []FamilyLineage
  <1>1. Inv => FamilyLineage
    BY DEF Inv, RowInv, FamilyInv, FamilyLineage
  <1> QED
    BY <1>1, Invariance, PTL

\* No time that persistRefreshRotation or revokeFamilyAndSession writes is ever
\* rejected by a CHECK constraint of migrations/005 on sessions, families and
\* refresh tokens, so a lost race is answered as the replay it is.
THEOREM ChecksHold == Spec => []NoCheckFails
  <1>1. ASSUME Inv, NEW a \in Auth PROVE ActivityInOrder(a)
    <2> SUFFICES ASSUME Exists(a)
                 PROVE  /\ session[a].last_activity_at >= token[<<a, 0>>].issued_at
                        /\ session[a].idle_expires_at = session[a].last_activity_at + IdleTTL
      BY DEF ActivityInOrder
    <2>1. PICK n \in Gen : n = family[a].current_generation
      BY <1>1 DEF Inv, TypeOK, FamilyRow
    <2>2. 0 \in Gen /\ 0 <= n
      BY <2>1, BoundAssumption DEF Gen
    <2>3. Known(<<a, 0>>) /\ Known(<<a, n>>)
      BY <1>1, <2>1, <2>2 DEF Inv, RowInv, FamilyInv, Lineage, Known, Gen
    <2>4. /\ token[<<a, 0>>].issued_at \in Nat /\ token[<<a, n>>].issued_at \in Nat
          /\ token[<<a, 0>>].issued_at <= token[<<a, n>>].issued_at
      BY <1>1, <2>1, <2>2, <2>3 DEF Inv, RowInv, FamilyInv, Ordered, Current
    <2>5. token[<<a, n>>].expires_at = token[<<a, n>>].issued_at + IdleTTL
      BY <1>1, <2>3 DEF Inv, RowInv, FamilyInv, PassesChecks, Known
    <2>6. /\ session[a].idle_expires_at = token[<<a, n>>].expires_at
          /\ session[a].last_activity_at = token[<<a, n>>].issued_at
      BY <1>1, <2>1 DEF Inv, RowInv, FamilyInv, Agreement, Current
    <2> QED
      BY <2>4, <2>5, <2>6
  <1>2. Inv => NoCheckFails
    BY <1>1 DEF Inv, RowInv, FamilyInv, NoCheckFails
  <1> QED
    BY <1>2, Invariance, PTL

\* Session, family, current token and durable revocation rows always tell the
\* same story, so introspection may look at the session alone.
THEOREM TablesAlwaysAgree == Spec => []TablesAgree
  <1>1. Inv => TablesAgree
    BY DEF Inv, RowInv, FamilyInv, TablesAgree
  <1> QED
    BY <1>1, Invariance, PTL

-----------------------------------------------------------------------------
(* What one step can do to a family.                                       *)

Issues(a) == /\ family[a].status = "none"
             /\ \E S \in (SUBSET Scope) \ {{}} : family' = [family EXCEPT ![a] = NewFamily(S)]

Rotates(a) ==
  /\ family[a].status = "active"
  /\ \E S \in (SUBSET family[a].current_scopes) \ {{}} :
        family' = [family EXCEPT
          ![a].current_generation = family[a].current_generation + 1,
          ![a].current_scopes = S]

\* An owner's authenticated request revokes: the first time the family dies,
\* afterwards only the first replay is still recorded.
Revokes(a) ==
  /\ \E w \in Worker : /\ request[w].kind \in {"refresh", "revoke_refresh"}
                       /\ request[w].client = ClientOf[a]
                       /\ clientActive[ClientOf[a]]
  /\ \E row \in FamilyRow :
        /\ family' = [family EXCEPT ![a] = row]
        /\ row.status = "revoked"
        /\ row.current_generation = family[a].current_generation
        /\ row.current_scopes = family[a].current_scopes
        /\ row.scope_ceiling = family[a].scope_ceiling
        /\ family[a].status = "revoked" =>
             /\ row.revoked_at = family[a].revoked_at /\ row.reason = family[a].reason
             /\ family[a].replay_detected_at # Null =>
                  row.replay_detected_at = family[a].replay_detected_at
  /\ Exists(a)

LEMMA ExchangeIssues ==
  ASSUME Inv, NEW w \in Worker, Exchange(w), NEW a \in Auth, a = request[w].auth
  PROVE  Issues(a)
  <1>1. code[a].status = "issued" /\ code[a].scopes # {}
    BY DEF Exchange, Exchangeable, LockedCode, Entitled
  <1>2. code[a].scopes \in (SUBSET Scope) \ {{}}
    BY <1>1 DEF Inv, TypeOK, CodeRow
  <1>3. family[a].status = "none"
    BY <1>1 DEF Inv, RowInv, FamilyInv, Agreement, Exists
  <1>4. family' = [family EXCEPT ![a] = NewFamily(code[a].scopes)]
    BY DEF Exchange
  <1> QED
    BY <1>2, <1>3, <1>4 DEF Issues

LEMMA RotateRotates ==
  ASSUME Inv, NEW w \in Worker, Rotate(w), NEW a \in Auth, a = request[w].auth
  PROVE  Rotates(a)
  <1>1. /\ family[a].status = "active"
        /\ request[w].gen = family[a].current_generation
    BY DEF Rotate, Rotatable
  <1>2. RequestedScopes(request[w]) \in (SUBSET family[a].current_scopes) \ {{}}
    BY DEF Rotate, Narrows, Entitled
  <1>3. family' = [family EXCEPT ![a].current_generation = request[w].gen + 1,
                                 ![a].current_scopes = RequestedScopes(request[w])]
    BY DEF Rotate
  <1> QED
    BY <1>1, <1>2, <1>3 DEF Rotates

LEMMA RevocationRevokes ==
  ASSUME Inv, NEW w \in Worker, Replay(w) \/ RevokeRefresh(w),
         NEW a \in Auth, a = request[w].auth
  PROVE  Revokes(a)
  <1>1. /\ request[w].kind \in {"refresh", "revoke_refresh"}
        /\ request[w].client = ClientOf[a]
        /\ clientActive[ClientOf[a]]
    BY DEF Replay, RevokeRefresh, Running, Authenticated, Owner
  <1>2. PICK now \in Nat, reason \in {"refresh_replay", "client_revocation"},
             replay \in BOOLEAN : RevokeFamilyAndSession(a, now, reason, replay)
    <2>1. clock \in Nat
      BY DEF Inv, TypeOK
    <2>2. CASE Replay(w)
      BY <2>1, <2>2 DEF Replay
    <2>3. CASE RevokeRefresh(w)
      <3>1. request[w] # Idle
        BY <2>3, RunningRequest DEF RevokeRefresh
      <3>2. request[w].now \in Nat
        BY <3>1, RequestType
      <3> QED
        BY <2>3, <3>2 DEF RevokeRefresh
    <2> QED
      BY <2>2, <2>3
  <1>3. Exists(a)
    <2>1. request[w] # Idle /\ request[w].kind # "exchange"
      BY RunningRequest DEF Replay, RevokeRefresh
    <2>2. Known(<<a, request[w].gen>>) /\ request[w].gen \in Gen
      BY <2>1, RequestType DEF Inv, Requests, InFlight, PresentedToken
    <2> QED
      BY <2>2 DEF Inv, RowInv, FamilyInv, Lineage, Known
  <1>4. PICK at \in Nat : at = RevocationTime(a, now)
    BY <1>3, RevocationTimeValue
  <1>5. /\ family[a] \in FamilyRow /\ family \in [Auth -> FamilyRow]
        /\ family[a].status = "revoked" =>
             family[a].revoked_at # Null /\ family[a].reason # "none"
    BY DEF Inv, TypeOK, RowInv, FamilyInv, PassesChecks, Reasoned
  <1>6. PICK kill \in Nat \cup {Null}, blame \in Reason, seen \in TimeOrNull :
          /\ kill = Coalesce(family[a].revoked_at, at)
          /\ blame = CoalesceReason(family[a].reason, reason)
          /\ seen = IF replay THEN Coalesce(family[a].replay_detected_at, at)
                              ELSE family[a].replay_detected_at
    <2>1. /\ family[a].revoked_at \in TimeOrNull /\ family[a].reason \in Reason
          /\ family[a].replay_detected_at \in TimeOrNull /\ reason \in Reason
      BY <1>2, <1>5 DEF FamilyRow, Reason
    <2> QED
      BY <2>1, <1>4 DEF Coalesce, CoalesceReason, TimeOrNull
  <1> DEFINE row == [family[a] EXCEPT !.status = "revoked", !.revoked_at = kill,
                     !.reason = blame, !.replay_detected_at = seen]
  <1>7. family' = [family EXCEPT ![a] = row]
    BY <1>2, <1>4, <1>6 DEF RevokeFamilyAndSession
  <1>8. /\ row \in FamilyRow
        /\ row.status = "revoked" /\ row.revoked_at = kill /\ row.reason = blame
        /\ row.replay_detected_at = seen
        /\ row.current_generation = family[a].current_generation
        /\ row.current_scopes = family[a].current_scopes
        /\ row.scope_ceiling = family[a].scope_ceiling
    BY <1>5, <1>6 DEF FamilyRow, TimeOrNull
  <1>9. family[a].status = "revoked" =>
             /\ kill = family[a].revoked_at /\ blame = family[a].reason
             /\ family[a].replay_detected_at # Null => seen = family[a].replay_detected_at
    BY <1>5, <1>6 DEF Coalesce, CoalesceReason
  <1> HIDE DEF row
  <1> QED
    BY <1>1, <1>3, <1>7, <1>8, <1>9 DEF Revokes

\* The transactions that write a family, a token or a revoked jti.
LEMMA Writers ==
  ASSUME [Next]_vars
  PROVE  \/ UNCHANGED <<family, token, revokedJti>>
         \/ \E w \in Worker : Exchange(w) \/ Rotate(w) \/ Replay(w) \/ RevokeRefresh(w)
         \/ \E w \in Worker : RevokeAccess(w)
  <1>1. ASSUME NEW w, Begin(w) \/ Respond(w) \/ LoseResponse(w) \/ Unavailable(w)
        PROVE  UNCHANGED rows
    <2>1. CASE Begin(w)
      BY <2>1 DEF Begin
    <2>2. CASE Respond(w)
      BY <2>2 DEF Respond
    <2>3. CASE LoseResponse(w)
      BY <2>3 DEF LoseResponse
    <2>4. CASE Unavailable(w)
      BY <2>4 DEF Unavailable, Refuse
    <2> QED
      BY <1>1, <2>1, <2>2, <2>3, <2>4
  <1>2. ASSUME NEW w, \/ ExchangeDenied(w) \/ RefreshDenied(w)
                      \/ RevokeIgnored(w) \/ Introspect(w)
        PROVE  UNCHANGED rows
    <2>1. CASE ExchangeDenied(w)
      BY <2>1 DEF ExchangeDenied, Refuse
    <2>2. CASE RefreshDenied(w)
      BY <2>2 DEF RefreshDenied, Refuse
    <2>3. CASE RevokeIgnored(w)
      BY <2>3 DEF RevokeIgnored, Refuse
    <2>4. CASE Introspect(w)
      BY <2>4 DEF Introspect, Refuse
    <2> QED
      BY <1>2, <2>1, <2>2, <2>3, <2>4
  <1>3. ASSUME \/ \E a \in Auth : IssueCode(a) \/ SetEntitlement(a)
               \/ \E c \in Client : SetClient(c)
               \/ Tick
        PROVE  UNCHANGED <<family, token, revokedJti>>
    <2>1. CASE \E a \in Auth : IssueCode(a)
      BY <2>1 DEF IssueCode
    <2>2. CASE \E a \in Auth : SetEntitlement(a)
      BY <2>2 DEF SetEntitlement, rows
    <2>3. CASE \E c \in Client : SetClient(c)
      BY <2>3 DEF SetClient, rows
    <2>4. CASE Tick
      BY <2>4 DEF Tick, rows
    <2> QED
      BY <1>3, <2>1, <2>2, <2>3, <2>4
  <1>4. UNCHANGED rows \/ UNCHANGED vars => UNCHANGED <<family, token, revokedJti>>
    BY DEF rows, vars
  <1>5. ASSUME NEW w \in Worker, Step(w)
        PROVE  \/ UNCHANGED <<family, token, revokedJti>>
               \/ Exchange(w) \/ Rotate(w) \/ Replay(w) \/ RevokeRefresh(w)
               \/ RevokeAccess(w)
    BY <1>1, <1>2, <1>4, <1>5 DEF Step
  <1> QED
    BY <1>3, <1>4, <1>5 DEF Next

LEMMA FamilyStep ==
  ASSUME Inv, [Next]_vars
  PROVE  family' = family \/ \E a \in Auth : Issues(a) \/ Rotates(a) \/ Revokes(a)
  <1>1. ASSUME NEW w \in Worker, Exchange(w) \/ Rotate(w) \/ Replay(w) \/ RevokeRefresh(w)
        PROVE  \E a \in Auth : Issues(a) \/ Rotates(a) \/ Revokes(a)
    <2>1. request[w] # Idle
      BY <1>1, RunningRequest DEF Exchange, Rotate, Replay, RevokeRefresh
    <2>2. PICK a \in Auth : a = request[w].auth
      BY <2>1, RequestType
    <2> QED
      BY <1>1, <2>2, ExchangeIssues, RotateRotates, RevocationRevokes
  <1>2. \/ family' = family
        \/ \E w \in Worker : Exchange(w) \/ Rotate(w) \/ Replay(w) \/ RevokeRefresh(w)
    BY Writers DEF RevokeAccess
  <1> QED
    BY <1>1, <1>2

-----------------------------------------------------------------------------

\* What a revoked family keeps.
Final(a) ==
  family[a].status = "revoked" =>
     /\ family'[a] = [family[a] EXCEPT !.replay_detected_at = family'[a].replay_detected_at]
     /\ family[a].replay_detected_at # Null =>
           family'[a].replay_detected_at = family[a].replay_detected_at

LEMMA FinalStep == ASSUME Inv, [Next]_vars, NEW a \in Auth PROVE Final(a)
  <1> USE DEF Final
  <1>1. family \in [Auth -> FamilyRow] /\ family[a] \in FamilyRow
    BY DEF Inv, TypeOK
  <1>2. CASE family' = family
    BY <1>1, <1>2 DEF FamilyRow
  <1>3. ASSUME NEW b \in Auth, Issues(b) \/ Rotates(b) PROVE Final(a)
    <2>1. CASE b = a
      BY <1>3, <2>1 DEF Issues, Rotates
    <2>2. CASE b # a
      <3>1. family'[a] = family[a]
        BY <1>3, <1>1, <2>2 DEF Issues, Rotates
      <3> QED
        BY <3>1, <1>1 DEF FamilyRow
    <2> QED
      BY <2>1, <2>2
  <1>4. ASSUME NEW b \in Auth, Revokes(b) PROVE Final(a)
    <2>1. PICK row \in FamilyRow :
            /\ family' = [family EXCEPT ![b] = row]
            /\ row.status = "revoked"
            /\ row.current_generation = family[b].current_generation
            /\ row.current_scopes = family[b].current_scopes
            /\ row.scope_ceiling = family[b].scope_ceiling
            /\ family[b].status = "revoked" =>
                 /\ row.revoked_at = family[b].revoked_at /\ row.reason = family[b].reason
                 /\ family[b].replay_detected_at # Null =>
                      row.replay_detected_at = family[b].replay_detected_at
      BY <1>4 DEF Revokes
    <2>2. CASE b = a
      BY <2>1, <2>2, <1>1 DEF FamilyRow
    <2>3. CASE b # a
      <3>1. family'[a] = family[a]
        BY <2>1, <1>1, <2>3
      <3> QED
        BY <3>1, <1>1 DEF FamilyRow
    <2> QED
      BY <2>2, <2>3
  <1> QED
    BY <1>2, <1>3, <1>4, FamilyStep

\* A revocation is final whatever request comes later and whatever time it had
\* captured: revokeFamilyAndSession's COALESCE keeps the first, and no other
\* statement writes a revoked family.
THEOREM RevocationFinality == Spec => RevocationIsFinal
  <1>1. Inv /\ [Next]_vars => [\A a \in Auth : Final(a)]_vars
    BY FinalStep
  <1> QED
    BY <1>1, Invariance, PTL DEF Spec, RevocationIsFinal, Final

\* A family dies only at the hands of a request that its own, active client
\* authenticated.
THEOREM OnlyOwners == Spec => OnlyOwnerRevokes
  <1> DEFINE Owned(a) == family[a].status = "active" /\ family'[a].status = "revoked" =>
         \E w \in Worker : /\ request[w].kind \in {"refresh", "revoke_refresh"}
                           /\ request[w].client = ClientOf[a]
                           /\ clientActive[ClientOf[a]]
  <1>1. ASSUME Inv, [Next]_vars, NEW a \in Auth PROVE Owned(a)
    <2>1. family \in [Auth -> FamilyRow]
      BY <1>1 DEF Inv, TypeOK
    <2>2. CASE family' = family
      BY <2>2
    <2>3. ASSUME NEW b \in Auth, Issues(b) PROVE Owned(a)
      BY <2>1, <2>3 DEF Issues, NewFamily
    <2>4. ASSUME NEW b \in Auth, Rotates(b) PROVE Owned(a)
      BY <2>1, <2>4 DEF Rotates, FamilyRow
    <2>5. ASSUME NEW b \in Auth, Revokes(b) PROVE Owned(a)
      BY <2>1, <2>5 DEF Revokes
    <2> QED
      BY <1>1, <2>2, <2>3, <2>4, <2>5, FamilyStep
  <1>2. Inv /\ [Next]_vars => [\A a \in Auth : Owned(a)]_vars
    BY <1>1
  <1> QED
    BY <1>2, Invariance, PTL DEF Spec, OnlyOwnerRevokes

-----------------------------------------------------------------------------
(* What an answer promises, and what introspection sees.                   *)

\* Who answers that a token was replayed is the transaction that revoked its
\* family; until the response is delivered or lost the answer stands.
LEMMA ReplayAnswered ==
  ASSUME Inv, [Next]_vars, NEW w \in Worker, result'[w] = "replay"
  PROVE  (result[w] = "replay" /\ request'[w] = request[w]) \/ Replay(w)
  <1>1. result \in [Worker -> Outcome] /\ (result[w] = "replay" => request[w] # Idle)
    BY DEF Inv, TypeOK, Requests
  <1>2. CASE \E v \in Worker : Begin(v)
    BY <1>1, <1>2 DEF Begin
  <1>3. CASE \E v \in Worker : Respond(v) \/ LoseResponse(v)
    <2>1. PICK v \in Worker : /\ request' = [request EXCEPT ![v] = Idle]
                             /\ result' = [result EXCEPT ![v] = "pending"]
      BY <1>3 DEF Respond, LoseResponse
    <2>2. v # w
      BY <1>1, <2>1
    <2> QED
      BY <1>1, <2>1, <2>2 DEF Inv, TypeOK
  <1>4. ASSUME NEW v \in Worker, NEW outcome \in Outcome \ {"replay"}, Answer(v, outcome)
        PROVE  result[w] = "replay" /\ request'[w] = request[w]
    <2>1. result' = [result EXCEPT ![v] = outcome] /\ request' = request
      BY <1>4 DEF Answer
    <2>2. v # w
      BY <1>1, <1>4, <2>1
    <2> QED
      BY <1>1, <2>1, <2>2
  <1>5. CASE \E v \in Worker : \/ Unavailable(v) \/ Exchange(v) \/ Rotate(v)
                              \/ RevokeRefresh(v) \/ RevokeAccess(v)
    <2>1. \E v \in Worker, o \in {"unavailable", "tokens", "revoked"} : Answer(v, o)
      BY <1>5 DEF Unavailable, Exchange, Rotate, RevokeRefresh, RevokeAccess, Refuse
    <2> QED
      BY <1>4, <2>1 DEF Outcome
  <1>6. CASE \E v \in Worker : \/ ExchangeDenied(v) \/ RefreshDenied(v)
                              \/ RevokeIgnored(v) \/ Introspect(v)
    <2>1. \E v \in Worker, o \in {"invalid_client", "invalid_grant", "invalid_scope",
                                 "revoked", "active", "inactive"} : Answer(v, o)
      BY <1>6 DEF ExchangeDenied, RefreshDenied, RevokeIgnored, Introspect, Refuse
    <2> QED
      BY <1>4, <2>1 DEF Outcome
  <1>7. CASE \E v \in Worker : Replay(v)
    <2>1. PICK v \in Worker : Replay(v)
      BY <1>7
    <2>2. result' = [result EXCEPT ![v] = "replay"] /\ request' = request
      BY <2>1 DEF Replay, Answer
    <2> QED
      BY <1>1, <2>1, <2>2
  <1>8. CASE UNCHANGED <<request, result>>
    BY <1>8
  <1>9. CASE \/ \E a \in Auth : IssueCode(a) \/ SetEntitlement(a)
             \/ \E c \in Client : SetClient(c)
             \/ Tick
    BY <1>8, <1>9 DEF IssueCode, SetEntitlement, SetClient, Tick
  <1>10. CASE UNCHANGED vars
    BY <1>8, <1>10 DEF vars
  <1> QED
    BY <1>2, <1>3, <1>5, <1>6, <1>7, <1>9, <1>10 DEF Next, Step

\* revokeFamilyAndSession with replay_detected leaves a time behind.
LEMMA ReplayRecorded ==
  ASSUME Inv, NEW w \in Worker, Replay(w), NEW a \in Auth, a = request[w].auth
  PROVE  family'[a].status = "revoked" /\ family'[a].replay_detected_at # Null
  <1>1. request[w] # Idle /\ request[w].kind # "exchange"
    BY RunningRequest DEF Replay
  <1>2. Known(<<a, request[w].gen>>) /\ request[w].gen \in Gen
    BY <1>1, RequestType DEF Inv, Requests, InFlight, PresentedToken
  <1>3. Exists(a) /\ clock \in Nat
    BY <1>2 DEF Inv, TypeOK, RowInv, FamilyInv, Lineage, Known
  <1>4. RevocationTime(a, clock) \in Nat
    BY <1>3, RevocationTimeValue
  <1>5. Coalesce(family[a].replay_detected_at, RevocationTime(a, clock)) # Null
    BY <1>4, NullIsNoTime DEF Coalesce
  <1>6. family' = [family EXCEPT
          ![a].status = "revoked",
          ![a].revoked_at = Coalesce(@, RevocationTime(a, clock)),
          ![a].reason = CoalesceReason(@, "refresh_replay"),
          ![a].replay_detected_at = Coalesce(@, RevocationTime(a, clock))]
    BY DEF Replay, RevokeFamilyAndSession
  <1>7. family \in [Auth -> FamilyRow] /\ family[a] \in FamilyRow
    BY DEF Inv, TypeOK
  <1> QED
    BY <1>5, <1>6, <1>7 DEF FamilyRow

\* The family of a request that was told of a replay.
Fatal(w) == result[w] = "replay" =>
              /\ family[request[w].auth].status = "revoked"
              /\ family[request[w].auth].replay_detected_at # Null

LEMMA FatalStep ==
  ASSUME Inv, \A w \in Worker : Fatal(w), [Next]_vars, NEW w \in Worker
  PROVE  Fatal(w)'
  <1> SUFFICES ASSUME result'[w] = "replay"
               PROVE  /\ family'[request'[w].auth].status = "revoked"
                      /\ family'[request'[w].auth].replay_detected_at # Null
    BY DEF Fatal
  <1>1. CASE result[w] = "replay" /\ request'[w] = request[w]
    <2>1. request[w] # Idle
      BY <1>1 DEF Inv, Requests
    <2>2. PICK a \in Auth : a = request[w].auth
      BY <2>1, RequestType
    <2>3. family[a].status = "revoked" /\ family[a].replay_detected_at # Null
      BY <1>1, <2>2 DEF Fatal
    <2>4. Final(a) /\ family[a] \in FamilyRow
      BY FinalStep DEF Inv, TypeOK
    <2> QED
      BY <1>1, <2>2, <2>3, <2>4 DEF Final, FamilyRow
  <1>2. CASE Replay(w)
    <2>1. request[w] # Idle /\ request' = request
      BY <1>2, RunningRequest DEF Replay, Answer
    <2>2. PICK a \in Auth : a = request[w].auth
      BY <2>1, RequestType
    <2> QED
      BY <1>2, <2>1, <2>2, ReplayRecorded
  <1> QED
    BY <1>1, <1>2, ReplayAnswered

\* Whoever is told of a replay is told the truth: the family and its session are
\* revoked, the replay is on record, and no later step undoes it
\* (src/oauth/token-service.ts:232-260).
THEOREM ReplaysAreFatal == Spec => []ReplayIsFatal
  <1> DEFINE AllFatal == \A w \in Worker : Fatal(w)
  <1>1. Init => AllFatal
    BY DEF Init, Fatal
  <1>2. Inv /\ AllFatal /\ [Next]_vars => AllFatal'
    BY FatalStep
  <1>3. ASSUME Inv, AllFatal PROVE ReplayIsFatal
    <2> SUFFICES ASSUME NEW w \in Worker, result[w] = "replay"
                 PROVE  /\ family[request[w].auth].status = "revoked"
                        /\ family[request[w].auth].replay_detected_at # Null
                        /\ session[request[w].auth].status = "revoked"
      BY DEF ReplayIsFatal
    <2>1. request[w] # Idle
      BY <1>3 DEF Inv, Requests
    <2>2. PICK a \in Auth : a = request[w].auth
      BY <1>3, <2>1, RequestType
    <2>3. session[a].status = family[a].status
      BY <1>3 DEF Inv, RowInv, FamilyInv, Agreement
    <2> QED
      BY <1>3, <2>2, <2>3 DEF Fatal
  <1>4. Inv /\ AllFatal => ReplayIsFatal
    BY <1>3
  <1> HIDE DEF AllFatal
  <1> QED
    BY <1>1, <1>2, <1>4, Invariance, PTL DEF Spec

\* No step forgets a token or restamps it.
LEMMA TokensKept ==
  ASSUME Inv, [Next]_vars, NEW t \in Refresh, Known(t)
  PROVE  Known(t)' /\ token'[t].issued_at = token[t].issued_at
  <1>1. token \in [Refresh -> TokenRow] /\ token[t] \in TokenRow
    BY DEF Inv, TypeOK
  <1>2. CASE token' = token
    BY <1>2 DEF Known
  <1>3. ASSUME NEW w \in Worker, Exchange(w)
        PROVE  Known(t)' /\ token'[t].issued_at = token[t].issued_at
    <2>1. request[w] # Idle
      BY <1>3, RunningRequest DEF Exchange
    <2>2. PICK a \in Auth : a = request[w].auth
      BY <2>1, RequestType
    <2>3. family[a].status = "none"
      BY <1>3, <2>2, ExchangeIssues DEF Issues
    <2>4. 0 \in Gen /\ ~Known(<<a, 0>>)
      BY <2>3, BoundAssumption DEF Inv, RowInv, FamilyInv, Lineage, Exists, Known, Gen
    <2>5. t # <<a, 0>>
      BY <2>4
    <2>6. token'[t] = token[t]
      BY <1>1, <1>3, <2>2, <2>5 DEF Exchange
    <2> QED
      BY <2>6 DEF Known
  <1>4. ASSUME NEW w \in Worker, Rotate(w)
        PROVE  Known(t)' /\ token'[t].issued_at = token[t].issued_at
    <2>1. request[w] # Idle
      BY <1>4, RunningRequest DEF Rotate
    <2>2. PICK a \in Auth, g \in Gen : a = request[w].auth /\ g = request[w].gen
      BY <2>1, RequestType
    <2>3. g + 1 \in Gen /\ g = family[a].current_generation
      <3>1. g < MaxGen /\ g = family[a].current_generation
        BY <1>4, <2>2 DEF Rotate, Rotatable
      <3> QED
        BY <3>1, BoundAssumption DEF Gen
    <2>4. ~Known(<<a, g + 1>>)
      <3>1. ~(g + 1 <= g)
        BY <2>3, BoundAssumption DEF Gen
      <3> QED
        BY <2>3, <3>1 DEF Inv, RowInv, FamilyInv, Lineage, Known
    <2>5. t # <<a, g + 1>>
      BY <2>4
    <2>6. PICK row : /\ token' = [token EXCEPT
                          ![<<a, g>>] = [token[<<a, g>>] EXCEPT !.status = "consumed",
                                                               !.consumed_at = request[w].now],
                          ![<<a, g + 1>>] = row]
      BY <1>4, <2>2, <2>3 DEF Rotate
    <2>7. CASE t = <<a, g>>
      BY <1>1, <2>5, <2>6, <2>7 DEF TokenRow, Known
    <2>8. CASE t # <<a, g>>
      <3>1. token'[t] = token[t]
        BY <1>1, <2>5, <2>6, <2>8
      <3> QED
        BY <3>1 DEF Known
    <2> QED
      BY <2>7, <2>8
  <1>5. ASSUME NEW a, NEW now, NEW reason, NEW replay,
               RevokeFamilyAndSession(a, now, reason, replay)
        PROVE  Known(t)' /\ token'[t].issued_at = token[t].issued_at
    <2>1. PICK at : token'[t] = IF Affected(a, t)
                                THEN [token[t] EXCEPT !.status = "revoked",
                                                      !.revoked_at = Coalesce(@, at)]
                                ELSE token[t]
      BY <1>5 DEF RevokeFamilyAndSession
    <2>2. CASE Affected(a, t)
      BY <1>1, <2>1, <2>2 DEF TokenRow, Known
    <2>3. CASE ~Affected(a, t)
      BY <2>1, <2>3 DEF Known
    <2> QED
      BY <2>2, <2>3
  <1>6. \/ token' = token
        \/ \E w \in Worker : Exchange(w) \/ Rotate(w) \/ Replay(w) \/ RevokeRefresh(w)
    BY Writers DEF RevokeAccess
  <1> QED
    BY <1>2, <1>3, <1>4, <1>5, <1>6 DEF Replay, RevokeRefresh

\* A revoked jti is remembered at least until no verifier accepts the token.
Remembered(t) == revokedJti[t] # Null => Known(t) /\ revokedJti[t] >= Retention(t)

LEMMA RememberedStep ==
  ASSUME Inv, [Next]_vars, NEW t \in Refresh, Remembered(t)
  PROVE  Remembered(t)'
  <1>1. Known(t) => Known(t)' /\ Retention(t)' = Retention(t)
    BY TokensKept DEF Retention
  <1>2. CASE revokedJti'[t] = revokedJti[t]
    BY <1>1, <1>2 DEF Remembered
  <1>3. ASSUME NEW w \in Worker, RevokeAccess(w), revokedJti'[t] # revokedJti[t]
        PROVE  Remembered(t)'
    <2>1. request[w] # Idle /\ request[w].kind = "revoke_access"
      BY <1>3, RunningRequest DEF RevokeAccess
    <2>2. PICK p \in Refresh : p = PresentedToken(w) /\ Known(p)
      BY <2>1, RequestType DEF Inv, Requests, InFlight, PresentedToken, Refresh
    <2>3. /\ revokedJti \in [Refresh -> TimeOrNull]
          /\ revokedJti' = [revokedJti EXCEPT ![p] =
                IF Retention(p) <= request[w].now THEN revokedJti[p]
                                                  ELSE Max({revokedJti[p], Retention(p)})]
      BY <1>3, <2>2 DEF RevokeAccess, PresentedToken, Inv, TypeOK
    <2>4. t = p /\ revokedJti'[t] = Max({revokedJti[t], Retention(t)})
      BY <1>3, <2>3
    <2>5. Retention(t) \in Nat /\ revokedJti[t] \in Int
      <3>1. token[t].issued_at \in Nat
        BY <2>1, <2>2, <2>4, RequestType DEF Inv, RowInv, FamilyInv, Ordered, PresentedToken
      <3>2. revokedJti[t] \in TimeOrNull
        BY <2>3
      <3> QED
        BY <3>1, <3>2, LifetimeAssumption DEF Retention, TimeOrNull, Null
    <2>6. Max({revokedJti[t], Retention(t)}) >= Retention(t)
      BY <2>5, LargerIsBound
    <2> QED
      BY <1>1, <2>2, <2>4, <2>6 DEF Remembered
  <1>4. revokedJti' = revokedJti \/ \E w \in Worker : RevokeAccess(w)
    <2>1. ASSUME NEW w, Exchange(w) \/ Rotate(w) PROVE revokedJti' = revokedJti
      BY <2>1 DEF Exchange, Rotate
    <2>2. ASSUME NEW w, Replay(w) \/ RevokeRefresh(w) PROVE revokedJti' = revokedJti
      BY <2>2 DEF Replay, RevokeRefresh, RevokeFamilyAndSession
    <2> QED
      BY <2>1, <2>2, Writers
  <1> QED
    BY <1>2, <1>3, <1>4

\* What a revocation covers never introspects as active again, at any time and
\* whatever the client, the user and the grant go through: a dead family takes its
\* session along, and a revoked jti is remembered for as long as a verifier
\* with its tolerance accepts the token (src/oauth/token-service.ts:286-341).
THEOREM RevokedStaysInactive == Spec => []RevokedIsInactive
  <1> DEFINE AllRemembered == \A t \in Refresh : Remembered(t)
  <1>1. Init => AllRemembered
    BY DEF Init, Remembered
  <1>2. Inv /\ AllRemembered /\ [Next]_vars => AllRemembered'
    BY RememberedStep
  <1>3. ASSUME Inv, AllRemembered PROVE RevokedIsInactive
    <2> SUFFICES ASSUME NEW t \in Refresh, NEW now \in Horizon,
                        family[t[1]].status = "revoked" \/ revokedJti[t] # Null
                 PROVE  ~ActiveOnline(t, now)
      BY DEF RevokedIsInactive
    <2>1. CASE family[t[1]].status = "revoked"
      <3>1. t[1] \in Auth
        BY DEF Refresh
      <3>2. session[t[1]].status = "revoked"
        BY <1>3, <2>1, <3>1 DEF Inv, RowInv, FamilyInv, Agreement
      <3> QED
        BY <3>2 DEF ActiveOnline
    <2>2. CASE revokedJti[t] # Null
      <3>1. Known(t) /\ revokedJti[t] >= Retention(t) /\ revokedJti[t] \in TimeOrNull
        BY <1>3, <2>2 DEF Remembered, Inv, TypeOK
      <3>2. token[t].issued_at \in Nat
        <4>1. PICK a \in Auth, g \in Gen : t = <<a, g>>
          BY DEF Refresh
        <4> QED
          BY <1>3, <3>1, <4>1 DEF Inv, RowInv, FamilyInv, Ordered
      <3>3. Retention(t) > now => revokedJti[t] > now
        BY <2>2, <3>1, <3>2, LifetimeAssumption, BoundAssumption
           DEF Retention, TimeOrNull, Horizon
      <3> QED
        BY <3>3 DEF ActiveOnline, Verifies, JtiRevoked, Retention
    <2> QED
      BY <2>1, <2>2
  <1>4. Inv /\ AllRemembered => RevokedIsInactive
    BY <1>3
  <1> HIDE DEF AllRemembered
  <1> QED
    BY <1>1, <1>2, <1>4, Invariance, PTL DEF Spec

-----------------------------------------------------------------------------
(* Refinement.                                                             *)

\* A family not yet issued is at generation 0.
Fresh == \A a \in Auth : family[a].status = "none" => family[a].current_generation = 0

LEMMA FreshAlways == Spec => []Fresh
  <1>1. Init => Fresh
    BY DEF Init, NoFamily, Fresh
  <1>2. ASSUME Inv, Fresh, [Next]_vars PROVE Fresh'
    <2>1. family \in [Auth -> FamilyRow]
      BY <1>2 DEF Inv, TypeOK
    <2>2. CASE family' = family
      BY <1>2, <2>2 DEF Fresh
    <2>3. ASSUME NEW a \in Auth, Issues(a) PROVE Fresh'
      BY <1>2, <2>1, <2>3 DEF Issues, NewFamily, Fresh
    <2>4. ASSUME NEW a \in Auth, Rotates(a) PROVE Fresh'
      BY <1>2, <2>1, <2>4 DEF Rotates, FamilyRow, Fresh
    <2>5. ASSUME NEW a \in Auth, Revokes(a) PROVE Fresh'
      BY <1>2, <2>1, <2>5 DEF Revokes, Fresh
    <2> QED
      BY <1>2, <2>2, <2>3, <2>4, <2>5, FamilyStep
  <1> QED
    BY <1>1, <1>2, Invariance, PTL DEF Spec

\* The three variables of the abstract credential.
phases == [a \in Auth |-> Phase(a)]
generations == [a \in Auth |-> family[a].current_generation]
currentScopes == [a \in Auth |-> family[a].current_scopes]

LEMMA IssueRefines ==
  ASSUME Inv, Fresh, NEW a \in Auth, Issues(a)
  PROVE  Credential!Issue(a)
  <1>1. PICK S \in (SUBSET Scope) \ {{}} : family' = [family EXCEPT ![a] = NewFamily(S)]
    BY DEF Issues
  <1>2. /\ family'[a] = NewFamily(S) /\ family[a].status = "none"
        /\ \A b \in Auth \ {a} : family'[b] = family[b]
    BY <1>1 DEF Issues, Inv, TypeOK
  <1>3. phases[a] = "none" /\ phases' = [phases EXCEPT ![a] = "live"]
    <2>1. Phase(a) = "none" /\ Phase(a)' = "live"
      BY <1>2 DEF Phase, NewFamily
    <2>2. \A b \in Auth \ {a} : Phase(b)' = Phase(b)
      BY <1>2 DEF Phase
    <2> QED
      BY <2>1, <2>2 DEF phases
  <1>4. generations' = generations
    BY <1>2 DEF generations, NewFamily, Fresh
  <1>5. currentScopes' = [currentScopes EXCEPT ![a] = S]
    <2>1. family'[a].current_scopes = S
      BY <1>2 DEF NewFamily
    <2> QED
      BY <1>2, <2>1 DEF currentScopes
  <1> QED
    BY <1>3, <1>4, <1>5 DEF Credential!Issue, phases, generations, currentScopes

LEMMA RotateRefines ==
  ASSUME Inv, NEW a \in Auth, Rotates(a)
  PROVE  Credential!Rotate(a)
  <1>1. PICK S \in (SUBSET family[a].current_scopes) \ {{}} :
           family' = [family EXCEPT
             ![a].current_generation = family[a].current_generation + 1,
             ![a].current_scopes = S]
    BY DEF Rotates
  <1>2. /\ family'[a].status = "active" /\ family[a].status = "active"
        /\ family'[a].current_generation = family[a].current_generation + 1
        /\ family'[a].current_scopes = S
        /\ \A b \in Auth \ {a} : family'[b] = family[b]
    BY <1>1 DEF Rotates, Inv, TypeOK, FamilyRow
  <1>3. phases[a] = "live" /\ phases' = phases
    <2>1. Phase(a) = "live" /\ Phase(a)' = "live"
      BY <1>2 DEF Phase
    <2>2. \A b \in Auth \ {a} : Phase(b)' = Phase(b)
      BY <1>2 DEF Phase
    <2> QED
      BY <2>1, <2>2 DEF phases
  <1>4. generations' = [generations EXCEPT ![a] = generations[a] + 1]
    BY <1>2 DEF generations
  <1>5. currentScopes' = [currentScopes EXCEPT ![a] = S]
        /\ S \in (SUBSET currentScopes[a]) \ {{}}
    BY <1>2, <1>1 DEF currentScopes
  <1> QED
    BY <1>3, <1>4, <1>5 DEF Credential!Rotate, phases, generations, currentScopes

LEMMA RevokeRefines ==
  ASSUME Inv, NEW a \in Auth, Revokes(a), Exists(a)
  PROVE  Credential!Kill(a) \/ UNCHANGED Credential!vars
  <1>1. /\ family'[a].status = "revoked" /\ family[a].status \in {"active", "revoked"}
        /\ family'[a].current_generation = family[a].current_generation
        /\ family'[a].current_scopes = family[a].current_scopes
        /\ \A b \in Auth \ {a} : family'[b] = family[b]
    BY DEF Revokes, Inv, TypeOK, FamilyRow, Exists
  <1>2. generations' = generations /\ currentScopes' = currentScopes
    BY <1>1 DEF generations, currentScopes
  <1>3. phases' = [phases EXCEPT ![a] = "dead"] /\ Phase(a)' = "dead"
    <2>1. Phase(a)' = "dead"
      BY <1>1 DEF Phase
    <2>2. \A b \in Auth \ {a} : Phase(b)' = Phase(b)
      BY <1>1 DEF Phase
    <2> QED
      BY <2>1, <2>2 DEF phases
  <1>4. CASE family[a].status = "active"
    <2>1. phases[a] = "live"
      BY <1>4 DEF phases, Phase
    <2> QED
      BY <1>2, <1>3, <2>1 DEF Credential!Kill, phases, generations, currentScopes
  <1>5. CASE family[a].status = "revoked"
    <2>1. Phase(a) = "dead"
      BY <1>5 DEF Phase
    <2>2. phases' = phases
      BY <1>3, <2>1 DEF phases
    <2> QED
      BY <1>2, <2>2 DEF Credential!vars, phases, generations, currentScopes
  <1> QED
    BY <1>1, <1>4, <1>5

\* The token families implement RotatingCredential: every step of the service is
\* one step of the abstract credential or leaves it alone.
THEOREM Implementation == Spec => ImplementsCredential
  <1>1. Init => Credential!Init
    BY DEF Init, NoFamily, Phase, Credential!Init
  <1>2. ASSUME Inv, Fresh, [Next]_vars PROVE [Credential!Next]_(Credential!vars)
    <2>1. CASE family' = family
      BY <2>1 DEF Credential!vars, Phase
    <2>2. ASSUME NEW a \in Auth, Issues(a) \/ Rotates(a) PROVE Credential!Next
      BY <1>2, <2>2, IssueRefines, RotateRefines DEF Credential!Next
    <2>3. ASSUME NEW a \in Auth, Revokes(a)
          PROVE  Credential!Next \/ UNCHANGED Credential!vars
      <3>1. Exists(a)
        BY <1>2, <2>3 DEF Revokes, Exists
      <3> QED
        BY <1>2, <2>3, <3>1, RevokeRefines DEF Credential!Next
    <2> QED
      BY <1>2, <2>1, <2>2, <2>3, FamilyStep
  <1> QED
    BY <1>1, <1>2, Invariance, FreshAlways, PTL DEF Spec, ImplementsCredential, Credential!Spec
=============================================================================
