------------------------- MODULE LegacySessions_proof -------------------------
(***************************************************************************)
(* Proofs about LegacySessions, for any number of logins, users, tools,    *)
(* workers and tokens, and for every lifetime.                             *)
(*                                                                         *)
(* The service remembers a request between two of its transactions; what   *)
(* it remembers stays good (Fits) because nobody else can be at the same   *)
(* row: a login is claimed once, a code consumed once, and a refresh token *)
(* is locked while it is rotated (Apart).                                  *)
(***************************************************************************)
EXTENDS LegacySessions, FiniteSetTheorems, TLAPS

AuthRow == [status : {"none", "open", "consumed"}, expires_at : Expiry]
CodeRow == [status : {"none", "issued", "consumed"}, expires_at : Expiry]
SessionRow == [status : {"active", "revoked"}, expires_at : Nat, user : User]
TokenRow == [status : {"active", "revoked"}, expires_at : Nat, login : Login]

Identifying == [kind : {"callback"}, doing : {"identifying"}, login : Login]
Issuing == [kind : {"callback"}, doing : {"issuing"}, login : Login, user : User]
Exchange == [kind : {"exchange"}, doing : {"asked", "exchanging"}, login : Login, tool : Tool]
Refresh == [kind : {"refresh"}, doing : {"asked", "rotating"}, login : Login, tool : Tool,
            token : Token, now : Nat, began : Expiry]
Logout == [kind : {"logout_tool", "logout_user"}, doing : {"asked", "finishing"}, login : Login,
           tool : Tool, token : Token, now : {Null}, began : {Null}]
Work == {Idle} \cup Identifying \cup Issuing \cup Exchange \cup Refresh \cup Logout

RegistryTypes == /\ clock \in Nat
                 /\ user \in [User -> {"active", "disabled"}]
                 /\ toolActive \in [Tool -> BOOLEAN]
                 /\ grant \in [User \X Tool -> {"usable", "expired", "revoked"}]
RowTypes == /\ authRequest \in [Login -> AuthRow]
            /\ session \in [Login -> SessionRow \cup {NoSession}]
            /\ code \in [Login -> CodeRow]
            /\ token \in [Token -> TokenRow \cup {NoToken}]

\* A session and a code come with the end of a login, a token with the
\* consumption of the code.
Stages == /\ \A l \in Login : authRequest[l].status # "consumed" =>
                                session[l].status = "none" /\ code[l].status = "none"
          /\ \A t \in Token : token[t].status # "none" => code[token[t].login].status = "consumed"
\* Tokens are numbered as they are issued.
Dense == \E n \in 0..MaxTokens : \A t \in Token : token[t].status # "none" <=> t <= n
OneActive == \A s, t \in Token : /\ token[s].status = "active" /\ token[t].status = "active"
                                 /\ token[s].login = token[t].login
                                 => s = t
\* No session outlives its lifetime, or its user's.
Due == \A l \in Login : /\ session[l].expires_at <= clock + SessionTTL
                        /\ session[l].status = "active" => user[session[l].user] = "active"

Rows == Stages /\ Dense /\ OneActive /\ Due

Claims(r) == r.doing \in {"identifying", "issuing"}
HasToken(r) == r.kind \in {"refresh", "logout_tool", "logout_user"}

\* What a worker remembers of the rows.
Fits(r) ==
  /\ Claims(r) => /\ authRequest[r.login].status = "consumed"
                  /\ session[r.login].status = "none" /\ code[r.login].status = "none"
  /\ r.doing = "issuing" => user[r.user] = "active"
  /\ r.kind = "exchange" => code[r.login].status # "none"
  /\ r.doing = "exchanging" =>
        /\ code[r.login].status = "consumed"
        /\ \A t \in Token : token[t].status # "none" => token[t].login # r.login
  /\ HasToken(r) => token[r.token].status # "none" /\ token[r.token].login = r.login
  /\ r.doing = "rotating" =>
        /\ token[r.token].status = "active"
        /\ session[r.login].status = "active" => GrantOf(r.login) # "revoked"
  /\ r.kind = "refresh" => r.now <= clock
  /\ r.kind = "refresh" /\ token[r.token].status = "active" =>
        session[r.login].expires_at <= r.now + SessionTTL

\* Two workers are not at the same row.
Apart(r, s) == /\ Claims(r) /\ Claims(s) => r.login # s.login
               /\ r.doing = "exchanging" /\ s.doing = "exchanging" => r.login # s.login
               /\ r.doing = "rotating" /\ s.doing = "rotating" => r.token # s.token

Working == /\ request \in [Worker -> Work]
           /\ \A w \in Worker : Fits(request[w])
           /\ \A v, w \in Worker : v # w => Apart(request[v], request[w])

Inv == RegistryTypes /\ RowTypes /\ Rows /\ Working

\* The requests the other workers handle.
Beside(w) == {request[v] : v \in Worker \ {w}}
All == {request[v] : v \in Worker}

-----------------------------------------------------------------------------
(* What the rows and requests can be.                                      *)

LEMMA RequestFacts ==
  ASSUME NEW r \in Work
  PROVE  /\ r.doing = "identifying" => r \in Identifying
         /\ r.doing = "issuing" => r \in Issuing
         /\ r.kind = "exchange" \/ r.doing = "exchanging" => r \in Exchange
         /\ r.kind = "refresh" \/ r.doing = "rotating" => r \in Refresh
         /\ r.kind \in {"logout_tool", "logout_user"} \/ r.doing = "finishing" => r \in Logout
         /\ HasToken(r) => r.token \in Token /\ r.login \in Login
  <1>1. CASE r = Idle
    BY <1>1 DEF Idle, HasToken
  <1>2. CASE r \in Identifying
    BY <1>2 DEF Identifying, HasToken
  <1>3. CASE r \in Issuing
    BY <1>3 DEF Issuing, HasToken
  <1>4. CASE r \in Exchange
    BY <1>4 DEF Exchange, HasToken
  <1>5. CASE r \in Refresh
    BY <1>5 DEF Refresh, HasToken
  <1>6. CASE r \in Logout
    BY <1>6 DEF Logout, HasToken
  <1> QED
    BY <1>1, <1>2, <1>3, <1>4, <1>5, <1>6 DEF Work

LEMMA RowFacts ==
  ASSUME Inv
  PROVE  /\ \A l \in Login : session[l].status # "none" => session[l] \in SessionRow
         /\ \A l \in Login : session[l].status = "none" => session[l] = NoSession
         /\ \A t \in Token : token[t].status # "none" => token[t] \in TokenRow
         /\ \A t \in Token : token[t].status = "none" => token[t] = NoToken
  <1>1. \A l \in Login : session[l] \in SessionRow \cup {NoSession}
    BY DEF Inv, RowTypes
  <1>2. \A t \in Token : token[t] \in TokenRow \cup {NoToken}
    BY DEF Inv, RowTypes
  <1>3. \A l \in Login : session[l] \in SessionRow => session[l].status # "none"
    BY DEF SessionRow
  <1>4. \A t \in Token : token[t] \in TokenRow => token[t].status # "none"
    BY DEF TokenRow
  <1> QED
    BY <1>1, <1>2, <1>3, <1>4 DEF NoSession, NoToken

\* A worker that has no row to itself is in nobody's way.
LEMMA AtRest ==
  ASSUME NEW r, NEW s, r.doing \notin {"identifying", "issuing", "exchanging", "rotating"}
  PROVE  Apart(r, s) /\ Apart(s, r)
  BY DEF Apart, Claims

LEMMA ApartBoth == ASSUME NEW r, NEW s, Apart(r, s) PROVE Apart(s, r)
  BY DEF Apart

LEMMA IdleFits == Fits(Idle) /\ Fits(Idle)' /\ Idle \in Work
  BY DEF Fits, Idle, Claims, HasToken, Work

LEMMA BesideFacts ==
  ASSUME Inv, NEW w \in Worker
  PROVE  \A s \in Beside(w) : s \in Work /\ Fits(s) /\ Apart(request[w], s)
  BY DEF Inv, Working, Beside

\* One worker goes on to r; the others still remember what is so.
LEMMA WorkerStep ==
  ASSUME Inv, NEW w \in Worker, NEW r \in Work, request' = [request EXCEPT ![w] = r],
         RegistryTypes', RowTypes', Rows', Fits(r)',
         \A s \in Beside(w) : Fits(s)' /\ Apart(r, s)
  PROVE  Inv'
  <1>1. request \in [Worker -> Work]
    BY DEF Inv, Working
  <1>2. request' \in [Worker -> Work] /\ request'[w] = r
    BY <1>1
  <1>3. \A v \in Worker \ {w} : request'[v] = request[v] /\ request[v] \in Beside(w)
    BY <1>1 DEF Beside
  <1>4. ASSUME NEW v \in Worker PROVE Fits(request[v])'
    <2>1. CASE v = w
      BY <1>2, <2>1 DEF Fits
    <2>2. CASE v # w
      <3>1. PICK s \in Beside(w) : s = request'[v]
        BY <1>3, <2>2
      <3>2. Fits(s)'
        BY <3>1
      <3> QED
        BY <3>1, <3>2 DEF Fits
    <2> QED
      BY <2>1, <2>2
  <1>5. ASSUME NEW u \in Worker, NEW v \in Worker, u # v PROVE Apart(request'[u], request'[v])
    <2>1. CASE u # w /\ v # w
      BY <1>3, <1>5, <2>1 DEF Inv, Working
    <2>2. CASE u = w
      BY <1>2, <1>3, <1>5, <2>2
    <2>3. CASE v = w
      BY <1>2, <1>3, <1>5, <2>3, ApartBoth
    <2> QED
      BY <2>1, <2>2, <2>3
  <1>6. Working'
    BY <1>2, <1>4, <1>5 DEF Working, Apart
  <1> QED
    BY <1>6 DEF Inv

\* No request moves.
LEMMA RowStep ==
  ASSUME Inv, UNCHANGED request, RegistryTypes', RowTypes', Rows', \A s \in All : Fits(s)'
  PROVE  Inv'
  <1>1. ASSUME NEW v \in Worker PROVE Fits(request[v])'
    <2>1. PICK s \in All : s = request[v]
      BY DEF All
    <2>2. Fits(s)' /\ s = request'[v]
      BY <2>1
    <2> QED
      BY <2>2 DEF Fits
  <1>2. Working'
    BY <1>1 DEF Inv, Working, Apart
  <1> QED
    BY <1>2 DEF Inv

LEMMA AllFacts == ASSUME Inv PROVE \A s \in All : s \in Work /\ Fits(s)
  BY DEF Inv, Working, All

-----------------------------------------------------------------------------
(* Steps that write no row.                                                *)

NoRowMoves == UNCHANGED <<clock, registry, rows>>

LEMMA RequestStep ==
  ASSUME Inv, NoRowMoves, NEW w \in Worker, NEW r \in Work, request' = [request EXCEPT ![w] = r],
         Fits(r), \A s \in Beside(w) : Apart(r, s)
  PROVE  Inv'
  <1>1. /\ UNCHANGED <<clock, user, toolActive, grant>>
        /\ UNCHANGED <<authRequest, session, code, token>>
    BY DEF NoRowMoves, registry, rows
  <1>2. RegistryTypes' /\ RowTypes'
    BY <1>1 DEF Inv, RegistryTypes, RowTypes
  <1>3. Rows'
    BY <1>1 DEF Inv, Rows, Stages, Dense, OneActive, Due
  <1>4. ASSUME NEW s, Fits(s) PROVE Fits(s)'
    BY <1>1, <1>4 DEF Fits, GrantOf
  <1> QED
    BY <1>2, <1>3, <1>4, WorkerStep, BesideFacts

LEMMA EndStep == ASSUME Inv, NoRowMoves, NEW w \in Worker, End(w) PROVE Inv'
  <1>1. request' = [request EXCEPT ![w] = Idle]
    BY DEF End
  <1>2. \A s \in Beside(w) : Apart(Idle, s)
    BY AtRest DEF Idle
  <1> QED
    BY <1>1, <1>2, IdleFits, RequestStep

-----------------------------------------------------------------------------
(* Sessions and tokens end.                                                *)

\* Some sessions are revoked; nothing else happens to any.
SessionsEnd == \A l \in Login :
  \/ session'[l] = session[l]
  \/ /\ session[l].status = "active"
     /\ session'[l] \in SessionRow /\ session'[l].status = "revoked"
     /\ session'[l].user = session[l].user /\ session'[l].expires_at = session[l].expires_at

LEMMA RevokedRow ==
  ASSUME Inv, NEW l \in Login
  PROVE  \/ Revoke(session[l]) = session[l]
         \/ /\ session[l].status = "active"
            /\ Revoke(session[l]) \in SessionRow /\ Revoke(session[l]).status = "revoked"
            /\ Revoke(session[l]).user = session[l].user
            /\ Revoke(session[l]).expires_at = session[l].expires_at
  <1>1. CASE session[l].status = "active"
    <2>1. PICK row \in SessionRow : row = session[l]
      BY <1>1, RowFacts
    <2>2. Revoke(row) = [row EXCEPT !.status = "revoked"]
      BY <1>1, <2>1 DEF Revoke
    <2>3. /\ Revoke(row) \in SessionRow /\ Revoke(row).status = "revoked"
          /\ Revoke(row).user = row.user /\ Revoke(row).expires_at = row.expires_at
      BY <2>2 DEF SessionRow
    <2> QED
      BY <1>1, <2>1, <2>3
  <1>2. CASE session[l].status # "active"
    BY <1>2 DEF Revoke
  <1> QED
    BY <1>1, <1>2

LEMMA SessionTypes ==
  ASSUME Inv, SessionsEnd, session' = [l \in Login |-> session'[l]]
  PROVE  session' \in [Login -> SessionRow \cup {NoSession}]
  BY DEF Inv, RowTypes, SessionsEnd

\* What a worker remembers outlives the end of a session, unless a user or a
\* grant changed with it.
LEMMA FitsSessionsEnd ==
  ASSUME Inv, SessionsEnd, NEW s \in Work, Fits(s),
         UNCHANGED <<clock, authRequest, code, token>>,
         s \in Issuing => user'[s.user] = user[s.user],
         s \in Refresh /\ session'[s.login].status = "active" =>
            grant'[<<session[s.login].user, ToolOf[s.login]>>] = GrantOf(s.login)
              \/ grant'[<<session[s.login].user, ToolOf[s.login]>>] # "revoked"
  PROVE  Fits(s)'
  <1>1. ASSUME NEW l \in Login
        PROVE  /\ session[l].status = "none" => session'[l].status = "none"
               /\ session'[l].status = "active" => session[l].status = "active"
               /\ session'[l].user = session[l].user
               /\ session'[l].expires_at = session[l].expires_at
    BY DEF SessionsEnd
  <1>2. CASE s \in Identifying \/ s \in Issuing
    <2>1. s.login \in Login /\ ~HasToken(s) /\ s.kind = "callback" /\ Claims(s)
          /\ s.doing \in {"identifying", "issuing"}
          /\ (s.doing = "issuing" => s \in Issuing)
      BY <1>2, RequestFacts DEF Identifying, Issuing, HasToken, Claims
    <2> QED
      BY <1>1, <2>1 DEF Fits
  <1>3. CASE s \in Exchange \/ s = Idle
    <2>1. ~HasToken(s) /\ ~Claims(s) /\ s.doing \notin {"issuing", "rotating"} /\ s.kind # "refresh"
      BY <1>3 DEF Exchange, HasToken, Claims, Idle
    <2> QED
      BY <2>1 DEF Fits
  <1>4. CASE s \in Refresh
    <2>1. s.login \in Login /\ ~Claims(s) /\ s.doing \notin {"issuing", "exchanging"}
          /\ s.kind = "refresh"
      BY <1>4 DEF Refresh, Claims
    <2>2. session'[s.login].status = "active" => session[s.login].status = "active"
      BY <1>1, <2>1
    <2>3. s.doing = "rotating" /\ session'[s.login].status = "active" => GrantOf(s.login)' # "revoked"
      BY <1>1, <1>4, <2>1, <2>2 DEF Fits, GrantOf
    <2> QED
      BY <1>1, <2>1, <2>3 DEF Fits
  <1>5. CASE s \in Logout
    <2>1. ~Claims(s) /\ s.doing \in {"asked", "finishing"} /\ s.kind \notin {"refresh", "exchange"}
      BY <1>5 DEF Logout, Claims
    <2> QED
      BY <2>1 DEF Fits
  <1> QED
    BY <1>2, <1>3, <1>4, <1>5 DEF Work

LEMMA RowsSessionsEnd ==
  ASSUME Inv, SessionsEnd, UNCHANGED <<clock, authRequest, code, token>>,
         \A l \in Login : session'[l].status = "active" =>
                            user'[session'[l].user] = user[session[l].user]
  PROVE  Rows'
  <1>1. Stages'
    BY DEF Inv, Rows, Stages, SessionsEnd
  <1>2. Dense' /\ OneActive'
    BY DEF Inv, Rows, Dense, OneActive
  <1>3. Due'
    <2> SUFFICES ASSUME NEW l \in Login
                 PROVE  /\ session'[l].expires_at <= clock' + SessionTTL
                        /\ session'[l].status = "active" => user'[session'[l].user] = "active"
      BY DEF Due
    <2>1. /\ session[l].expires_at <= clock + SessionTTL
          /\ session[l].status = "active" => user[session[l].user] = "active"
      BY DEF Inv, Rows, Due
    <2>2. session'[l].expires_at = session[l].expires_at
          /\ (session'[l].status = "active" => session[l].status = "active")
      BY DEF SessionsEnd
    <2> QED
      BY <2>1, <2>2
  <1> QED
    BY <1>1, <1>2, <1>3 DEF Rows

\* The token k is revoked.
TokenEnds(k) ==
  /\ token[k].status # "none"
  /\ token' = [t \in Token |-> token'[t]]
  /\ \A t \in Token \ {k} : token'[t] = token[t]
  /\ token'[k] \in TokenRow /\ token'[k].status = "revoked" /\ token'[k].login = token[k].login

LEMMA TokenRevoked ==
  ASSUME Inv, NEW k \in Token, token[k].status # "none",
         \/ token' = [token EXCEPT ![k].status = "revoked"]
         \/ token' = [token EXCEPT ![k] = Revoke(@)]
  PROVE  TokenEnds(k)
  <1>1. PICK row \in TokenRow : row = token[k]
    BY RowFacts
  <1>2. token \in [Token -> TokenRow \cup {NoToken}]
    BY DEF Inv, RowTypes
  <1>3. PICK new \in {row, [row EXCEPT !.status = "revoked"]} :
          token' = [token EXCEPT ![k] = new] /\ (new = row => row.status = "revoked")
    <2>1. CASE token' = [token EXCEPT ![k].status = "revoked"]
      <3>1. token' = [token EXCEPT ![k] = [row EXCEPT !.status = "revoked"]]
        BY <1>1, <2>1
      <3>2. [row EXCEPT !.status = "revoked"].status = "revoked"
        BY DEF TokenRow
      <3> QED
        BY <3>1, <3>2
    <2>2. CASE token' = [token EXCEPT ![k] = Revoke(@)]
      <3>1. token' = [token EXCEPT ![k] = Revoke(row)]
        BY <1>1, <2>2
      <3>2. [row EXCEPT !.status = "revoked"].status = "revoked"
        BY DEF TokenRow
      <3>3. row.status # "active" => row.status = "revoked"
        BY DEF TokenRow
      <3> QED
        BY <3>1, <3>2, <3>3 DEF Revoke
    <2> QED
      BY <2>1, <2>2
  <1>4. new \in TokenRow /\ new.status = "revoked" /\ new.login = row.login
    BY <1>3 DEF TokenRow
  <1>5. token'[k] = new /\ (\A t \in Token \ {k} : token'[t] = token[t])
        /\ token' = [t \in Token |-> token'[t]]
    BY <1>2, <1>3
  <1> QED
    BY <1>1, <1>4, <1>5 DEF TokenEnds

LEMMA FitsTokenEnds ==
  ASSUME Inv, NEW k \in Token, TokenEnds(k), NEW s \in Work, Fits(s),
         UNCHANGED <<clock, user, grant, authRequest, session, code>>,
         s.doing = "rotating" => s.token # k
  PROVE  Fits(s)'
  <1>1. \A t \in Token : /\ token[t].status # "none" => token'[t].login = token[t].login
                         /\ token[t].status # "none" <=> token'[t].status # "none"
                         /\ token'[t].status = "active" => token[t].status = "active"
                         /\ t # k => token'[t] = token[t]
    BY DEF TokenEnds
  <1>2. HasToken(s) => s.token \in Token
    BY RequestFacts
  <1>3. s.doing = "rotating" => s.token \in Token
    BY RequestFacts DEF Refresh
  <1>4. GrantOf(s.login)' = GrantOf(s.login)
    BY DEF GrantOf
  <1> QED
    BY <1>1, <1>2, <1>3, <1>4 DEF Fits, HasToken, Claims

LEMMA RowsTokenEnds ==
  ASSUME Inv, NEW k \in Token, TokenEnds(k), UNCHANGED <<clock, user, authRequest, session, code>>
  PROVE  Rows' /\ token' \in [Token -> TokenRow \cup {NoToken}]
  <1>1. \A t \in Token : /\ token[t].status # "none" => token'[t].login = token[t].login
                         /\ token[t].status # "none" <=> token'[t].status # "none"
                         /\ token'[t].status = "active" => token[t].status = "active"
    BY DEF TokenEnds
  <1>2. Stages'
    BY <1>1 DEF Inv, Rows, Stages
  <1>3. Dense'
    BY <1>1 DEF Inv, Rows, Dense
  <1>4. OneActive'
    <2>1. \A t \in Token : token'[t].status = "active" =>
                             token[t].status = "active" /\ token'[t].login = token[t].login
      BY <1>1
    <2> QED
      BY <2>1 DEF Inv, Rows, OneActive
  <1>5. Due'
    BY DEF Inv, Rows, Due
  <1>6. token' \in [Token -> TokenRow \cup {NoToken}]
    BY DEF Inv, RowTypes, TokenEnds
  <1> QED
    BY <1>2, <1>3, <1>4, <1>5, <1>6 DEF Rows

-----------------------------------------------------------------------------
(* Logins.                                                                 *)

\* The auth request of l, which nobody has claimed, changes.
LEMMA AuthStep ==
  ASSUME Inv, NEW l \in Login, NEW row \in AuthRow, authRequest[l].status # "consumed",
         authRequest' = [authRequest EXCEPT ![l] = row],
         UNCHANGED <<clock, user, grant, session, code, token>>
  PROVE  /\ authRequest' \in [Login -> AuthRow] /\ authRequest'[l] = row
         /\ Rows'
         /\ \A s \in Work : Fits(s) => Fits(s)' /\ (Claims(s) => s.login # l)
  <1>1. authRequest \in [Login -> AuthRow]
    BY DEF Inv, RowTypes
  <1>2. authRequest'[l] = row /\ \A m \in Login \ {l} : authRequest'[m] = authRequest[m]
    BY <1>1
  <1>3. Stages'
    BY <1>2 DEF Inv, Rows, Stages
  <1>4. Dense' /\ OneActive' /\ Due'
    BY DEF Inv, Rows, Dense, OneActive, Due
  <1>5. ASSUME NEW s \in Work, Fits(s) PROVE Fits(s)' /\ (Claims(s) => s.login # l)
    <2>1. Claims(s) => s.login \in Login
      BY RequestFacts DEF Claims, Identifying, Issuing
    <2>2. Claims(s) => s.login # l
      BY <1>5 DEF Fits
    <2>3. GrantOf(s.login)' = GrantOf(s.login)
      BY DEF GrantOf
    <2> QED
      BY <1>2, <1>5, <2>1, <2>2, <2>3 DEF Fits
  <1> QED
    BY <1>1, <1>2, <1>3, <1>4, <1>5 DEF Rows

LEMMA StartInv == ASSUME Inv, NEW l \in Login, Start(l) PROVE Inv'
  <1> DEFINE row == [status |-> "open", expires_at |-> clock + RequestTTL]
  <1>1. clock + RequestTTL \in Nat
    BY LifetimeAssumption DEF Inv, RegistryTypes
  <1>2. row \in AuthRow
    BY <1>1 DEF AuthRow, Expiry
  <1>3. authRequest' = [authRequest EXCEPT ![l] = row] /\ authRequest[l].status # "consumed"
    BY DEF Start, Unused
  <1>4. UNCHANGED <<clock, user, toolActive, grant, session, code, token, request>>
    BY DEF Start, registry
  <1> HIDE DEF row
  <1>5. /\ authRequest' \in [Login -> AuthRow] /\ Rows'
        /\ \A s \in Work : Fits(s) => Fits(s)'
    BY <1>2, <1>3, <1>4, AuthStep
  <1>6. RegistryTypes' /\ RowTypes'
    BY <1>4, <1>5 DEF Inv, RegistryTypes, RowTypes
  <1> QED
    BY <1>4, <1>5, <1>6, AllFacts, RowStep

LEMMA ClaimInv == ASSUME Inv, NEW w \in Worker, NEW l \in Login, Claim(w, l) PROVE Inv'
  <1>1. PICK old \in AuthRow : old = authRequest[l]
    BY DEF Inv, RowTypes
  <1> DEFINE row == [old EXCEPT !.status = "consumed"]
             r == [kind |-> "callback", doing |-> "identifying", login |-> l]
  <1>2. row \in AuthRow /\ row.status = "consumed"
    BY DEF AuthRow
  <1>3. authRequest' = [authRequest EXCEPT ![l] = row] /\ authRequest[l].status = "open"
    BY <1>1 DEF Claim
  <1>4. /\ UNCHANGED <<clock, user, toolActive, grant, session, code, token>>
        /\ request' = [request EXCEPT ![w] = r]
    BY DEF Claim, Begin, registry
  <1>5. r \in Work /\ r.login = l /\ r.doing = "identifying" /\ r.kind = "callback"
    BY DEF Work, Identifying
  <1> HIDE DEF row, r
  <1>6. /\ authRequest' \in [Login -> AuthRow] /\ authRequest'[l].status = "consumed" /\ Rows'
        /\ \A s \in Work : Fits(s) => Fits(s)' /\ (Claims(s) => s.login # l)
    BY <1>2, <1>3, <1>4, AuthStep
  <1>7. RegistryTypes' /\ RowTypes'
    BY <1>4, <1>6 DEF Inv, RegistryTypes, RowTypes
  <1>8. session[l].status = "none" /\ code[l].status = "none"
    BY <1>3 DEF Inv, Rows, Stages
  <1>9. Fits(r)'
    BY <1>4, <1>5, <1>6, <1>8 DEF Fits, HasToken
  <1>10. \A s \in Beside(w) : Fits(s)' /\ Apart(r, s)
    BY <1>5, <1>6, BesideFacts DEF Apart
  <1> QED
    BY <1>4, <1>5, <1>6, <1>7, <1>9, <1>10, WorkerStep

LEMMA IdentifyInv == ASSUME Inv, NEW w \in Worker, Identify(w) PROVE Inv'
  <1>1. NoRowMoves
    BY DEF Identify, NoRowMoves
  <1>2. PICK old \in Work : old = request[w]
    BY DEF Inv, Working
  <1>3. old.doing = "identifying" /\ old \in Identifying /\ Fits(old)
    BY <1>2, RequestFacts DEF Identify, Inv, Working
  <1>4. CASE End(w)
    BY <1>1, <1>4, EndStep
  <1>5. ASSUME NEW u \in User, user[u] = "active",
               request' = [request EXCEPT ![w] =
                 [kind |-> "callback", doing |-> "issuing", login |-> old.login, user |-> u]]
        PROVE  Inv'
    <2> DEFINE r == [kind |-> "callback", doing |-> "issuing", login |-> old.login, user |-> u]
    <2>1. r \in Work
      BY <1>3 DEF Work, Issuing, Identifying
    <2>2. r.login = old.login /\ r.doing = "issuing" /\ r.kind = "callback" /\ r.user = u
      OBVIOUS
    <2>3. request' = [request EXCEPT ![w] = r]
      BY <1>5
    <2> HIDE DEF r
    <2>4. Fits(r)
      BY <1>3, <1>5, <2>2 DEF Fits, Claims, HasToken
    <2>5. \A s \in Beside(w) : Apart(r, s)
      BY <1>2, <1>3, <2>2, BesideFacts DEF Apart, Claims
    <2> QED
      BY <1>1, <2>1, <2>3, <2>4, <2>5, RequestStep
  <1> QED
    BY <1>2, <1>4, <1>5 DEF Identify

LEMMA IssueCodeInv == ASSUME Inv, NEW w \in Worker, IssueCode(w) PROVE Inv'
  <1>1. PICK old \in Work : old = request[w]
    BY DEF Inv, Working
  <1>2. old.doing = "issuing" /\ old \in Issuing /\ Fits(old)
    BY <1>1, RequestFacts DEF IssueCode, Inv, Working
  <1>3. PICK l \in Login : l = old.login
    BY <1>2 DEF Issuing
  <1>4. PICK u \in User : u = old.user
    BY <1>2 DEF Issuing
  <1> DEFINE row == [status |-> "active", user |-> u, expires_at |-> clock + SessionTTL]
             issued == [status |-> "issued", expires_at |-> clock + CodeTTL]
  <1>5. clock + SessionTTL \in Nat /\ clock + CodeTTL \in Nat /\ clock \in Nat
    BY LifetimeAssumption DEF Inv, RegistryTypes
  <1>6. /\ row \in SessionRow /\ row.status = "active" /\ row.user = u
        /\ row.expires_at = clock + SessionTTL
        /\ issued \in CodeRow /\ issued.status = "issued"
    BY <1>5 DEF SessionRow, CodeRow, Expiry
  <1>7. /\ session' = [session EXCEPT ![l] = row] /\ code' = [code EXCEPT ![l] = issued]
        /\ request' = [request EXCEPT ![w] = Idle]
        /\ UNCHANGED <<clock, user, toolActive, grant, authRequest, token>>
    BY <1>1, <1>3, <1>4 DEF IssueCode, End, registry
  <1> HIDE DEF row, issued
  <1>8. /\ session \in [Login -> SessionRow \cup {NoSession}] /\ code \in [Login -> CodeRow]
    BY DEF Inv, RowTypes
  <1>9. /\ session'[l] = row /\ \A m \in Login \ {l} : session'[m] = session[m]
        /\ code'[l] = issued /\ \A m \in Login \ {l} : code'[m] = code[m]
    BY <1>7, <1>8
  <1>10. RegistryTypes' /\ RowTypes'
    <2>1. session' \in [Login -> SessionRow \cup {NoSession}] /\ code' \in [Login -> CodeRow]
      BY <1>6, <1>7, <1>8
    <2> QED
      BY <1>7, <2>1 DEF Inv, RegistryTypes, RowTypes
  <1>11. /\ authRequest[l].status = "consumed" /\ code[l].status = "none"
         /\ user[u] = "active"
    BY <1>2, <1>3, <1>4 DEF Fits, Claims
  <1>12. \A t \in Token : token[t].status # "none" => token[t].login # l
    BY <1>11 DEF Inv, Rows, Stages
  <1>13. Rows'
    <2>1. Stages'
      <3>1. ASSUME NEW t \in Token, token'[t].status # "none"
            PROVE  code'[token'[t].login].status = "consumed"
        <4>1. token[t].login \in Login \ {l} /\ code[token[t].login].status = "consumed"
          BY <1>7, <1>12, <3>1, RowFacts DEF TokenRow, Inv, Rows, Stages
        <4> QED
          BY <1>7, <1>9, <4>1
      <3>2. ASSUME NEW m \in Login, authRequest'[m].status # "consumed"
            PROVE  session'[m].status = "none" /\ code'[m].status = "none"
        BY <1>7, <1>9, <1>11, <3>2 DEF Inv, Rows, Stages
      <3> QED
        BY <3>1, <3>2 DEF Stages
    <2>2. Dense' /\ OneActive'
      BY <1>7 DEF Inv, Rows, Dense, OneActive
    <2>3. ASSUME NEW m \in Login
          PROVE  /\ session'[m].expires_at <= clock' + SessionTTL
                 /\ session'[m].status = "active" => user'[session'[m].user] = "active"
      <3>1. CASE m = l
        BY <1>5, <1>6, <1>7, <1>9, <1>11, <3>1, LifetimeAssumption
      <3>2. CASE m # l
        BY <1>7, <1>9, <3>2 DEF Inv, Rows, Due
      <3> QED
        BY <3>1, <3>2
    <2> QED
      BY <2>1, <2>2, <2>3 DEF Rows, Due
  <1>14. ASSUME NEW s \in Beside(w) PROVE Fits(s)'
    <2>1. s \in Work /\ Fits(s) /\ Apart(old, s)
      BY <1>1, BesideFacts
    <2>2. CASE s = Idle
      BY <2>2, IdleFits
    <2>3. CASE s # Idle
      <3>1. s.login \in Login
        BY <2>1, <2>3, RequestFacts DEF Work, Identifying, Issuing, Exchange, Refresh, Logout
      <3>2. s.login # l
        <4>1. Claims(s) \/ s.kind = "exchange" \/ HasToken(s)
          BY <2>1, <2>3 DEF Work, Identifying, Issuing, Exchange, Refresh, Logout, Claims, HasToken
        <4>2. HasToken(s) => token[s.token].login # l
          BY <1>12, <2>1, RequestFacts DEF Fits
        <4> QED
          BY <1>2, <1>3, <1>11, <2>1, <4>1, <4>2 DEF Fits, Apart, Claims
      <3>3. session'[s.login] = session[s.login] /\ code'[s.login] = code[s.login]
        BY <1>9, <3>1, <3>2
      <3>4. GrantOf(s.login)' = GrantOf(s.login)
        BY <1>7, <3>3 DEF GrantOf
      <3> QED
        BY <1>7, <2>1, <3>3, <3>4 DEF Fits
    <2> QED
      BY <2>2, <2>3
  <1>15. \A s \in Beside(w) : Apart(Idle, s)
    BY AtRest DEF Idle
  <1> QED
    BY <1>7, <1>10, <1>13, <1>14, <1>15, IdleFits, WorkerStep

-----------------------------------------------------------------------------
(* Requests of a tool.                                                     *)

LEMMA AskInv == ASSUME Inv, NEW w \in Worker, Ask(w) PROVE Inv'
  <1>1. NoRowMoves
    BY DEF Ask, NoRowMoves
  <1>2. ASSUME NEW r \in Work, Fits(r), request' = [request EXCEPT ![w] = r], r.doing = "asked"
        PROVE  Inv'
    <2>1. \A s \in Beside(w) : Apart(r, s)
      BY <1>2, AtRest
    <2> QED
      BY <1>1, <1>2, <2>1, RequestStep
  <1>3. ASSUME NEW t \in Tool, NEW l \in Login, code[l].status # "none",
               Begin(w, [kind |-> "exchange", doing |-> "asked", login |-> l, tool |-> t])
        PROVE  Inv'
    <2> DEFINE r == [kind |-> "exchange", doing |-> "asked", login |-> l, tool |-> t]
    <2>1. r \in Work
      BY DEF Work, Exchange
    <2>2. r.kind = "exchange" /\ r.doing = "asked" /\ r.login = l
      OBVIOUS
    <2>3. request' = [request EXCEPT ![w] = r]
      BY <1>3 DEF Begin
    <2> HIDE DEF r
    <2>4. Fits(r)
      BY <1>3, <2>2 DEF Fits, Claims, HasToken
    <2> QED
      BY <1>2, <2>1, <2>2, <2>3, <2>4
  <1>4. ASSUME NEW t \in Tool, NEW kind \in {"refresh", "logout_tool", "logout_user"},
               NEW k \in Token, token[k].status # "none",
               NEW now, now = (IF kind = "refresh" THEN clock ELSE Null),
               request' = [request EXCEPT ![w] =
                 [kind |-> kind, doing |-> "asked", login |-> token[k].login, tool |-> t,
                  token |-> k, now |-> now, began |-> Null]]
        PROVE  Inv'
    <2> DEFINE r == [kind |-> kind, doing |-> "asked", login |-> token[k].login, tool |-> t,
                     token |-> k, now |-> now, began |-> Null]
    <2>1. token[k].login \in Login
      BY <1>4, RowFacts DEF TokenRow
    <2>2. clock \in Nat
      BY DEF Inv, RegistryTypes
    <2>3. r \in Work
      <3>1. CASE kind = "refresh"
        BY <1>4, <2>1, <2>2, <3>1 DEF Work, Refresh, Expiry
      <3>2. CASE kind # "refresh"
        BY <1>4, <2>1, <3>2 DEF Work, Logout
      <3> QED
        BY <3>1, <3>2
    <2>4. /\ r.kind = kind /\ r.doing = "asked" /\ r.login = token[k].login /\ r.token = k
          /\ kind = "refresh" => r.now = clock
      BY <1>4
    <2>5. request' = [request EXCEPT ![w] = r]
      BY <1>4
    <2> HIDE DEF r
    <2>6. session[token[k].login].expires_at <= clock + SessionTTL
      BY <2>1 DEF Inv, Rows, Due
    <2>7. Fits(r)
      BY <1>4, <2>2, <2>4, <2>6 DEF Fits, Claims, HasToken
    <2> QED
      BY <1>2, <2>3, <2>4, <2>5, <2>7
  <1> QED
    <2>1. PICK kind \in Sent, t \in Tool :
            \/ /\ kind = "exchange"
               /\ \E l \in Login :
                    /\ code[l].status # "none"
                    /\ Begin(w, [kind |-> kind, doing |-> "asked", login |-> l, tool |-> t])
            \/ /\ kind # "exchange"
               /\ \E k \in Token :
                    /\ token[k].status # "none"
                    /\ Begin(w, [kind |-> kind, doing |-> "asked", login |-> token[k].login,
                                 tool |-> t, token |-> k,
                                 now |-> IF kind = "refresh" THEN clock ELSE Null, began |-> Null])
      BY DEF Ask
    <2>2. CASE kind = "exchange"
      BY <1>3, <2>1, <2>2
    <2>3. CASE kind # "exchange"
      <3>1. kind \in {"refresh", "logout_tool", "logout_user"}
        BY <2>3, SentAssumption
      <3>2. PICK k \in Token :
              /\ token[k].status # "none"
              /\ Begin(w, [kind |-> kind, doing |-> "asked", login |-> token[k].login,
                           tool |-> t, token |-> k,
                           now |-> IF kind = "refresh" THEN clock ELSE Null, began |-> Null])
        BY <2>1, <2>3
      <3> QED
        BY <1>4, <3>1, <3>2 DEF Begin
    <2> QED
      BY <2>2, <2>3

LEMMA ConsumeCodeInv == ASSUME Inv, NEW w \in Worker, ConsumeCode(w) PROVE Inv'
  <1>1. PICK old \in Work : old = request[w]
    BY DEF Inv, Working
  <1>2. old.kind = "exchange" /\ old.doing = "asked" /\ old \in Exchange /\ Fits(old)
    BY <1>1, RequestFacts DEF ConsumeCode, Inv, Working
  <1>3. PICK l \in Login : l = old.login
    BY <1>2 DEF Exchange
  <1>4. UNCHANGED <<clock, user, toolActive, grant, authRequest, session, token>>
    BY DEF ConsumeCode, registry
  <1>5. CASE End(w) /\ UNCHANGED code
    BY <1>4, <1>5, EndStep DEF NoRowMoves, registry, rows
  <1>6. ASSUME code[l].status = "issued", code' = [code EXCEPT ![l].status = "consumed"],
               \/ request' = [request EXCEPT ![w].doing = "exchanging"]
               \/ End(w)
        PROVE  Inv'
    <2>1. PICK was \in CodeRow : was = code[l]
      BY DEF Inv, RowTypes
    <2> DEFINE row == [was EXCEPT !.status = "consumed"]
    <2>2. row \in CodeRow /\ row.status = "consumed"
      BY DEF CodeRow
    <2>3. code' = [code EXCEPT ![l] = row]
      BY <1>6, <2>1
    <2> HIDE DEF row
    <2>4. code \in [Login -> CodeRow]
      BY DEF Inv, RowTypes
    <2>5. code'[l] = row /\ \A m \in Login \ {l} : code'[m] = code[m]
      BY <2>3, <2>4
    <2>6. \A m \in Login : /\ code[m].status = "none" <=> code'[m].status = "none"
                           /\ code[m].status = "consumed" => code'[m].status = "consumed"
      BY <1>6, <2>2, <2>5
    <2>7. \A t \in Token : token[t].status # "none" =>
            token[t].login \in Login /\ token[t].login # l
      BY <1>6, RowFacts DEF Inv, Rows, Stages, TokenRow
    <2>8. RegistryTypes' /\ RowTypes'
      <3>1. code' \in [Login -> CodeRow]
        BY <2>2, <2>3, <2>4
      <3> QED
        BY <1>4, <3>1 DEF Inv, RegistryTypes, RowTypes
    <2>9. Rows'
      <3>1. Stages'
        BY <1>4, <2>6, <2>7 DEF Inv, Rows, Stages
      <3>2. Dense' /\ OneActive' /\ Due'
        BY <1>4 DEF Inv, Rows, Dense, OneActive, Due
      <3> QED
        BY <3>1, <3>2 DEF Rows
    <2>10. ASSUME NEW s \in Work, Fits(s)
           PROVE  Fits(s)' /\ (s.doing = "exchanging" => s.login # l)
      <3>1. Claims(s) \/ s.kind = "exchange" \/ s.doing = "exchanging" => s.login \in Login
        BY RequestFacts DEF Claims, Identifying, Issuing, Exchange
      <3>2. GrantOf(s.login)' = GrantOf(s.login)
        BY <1>4 DEF GrantOf
      <3>3. s.doing = "exchanging" => s.login # l
        BY <1>6, <2>10 DEF Fits
      <3>4. Fits(s)'
        BY <1>4, <2>6, <2>10, <3>1, <3>2 DEF Fits
      <3> QED
        BY <3>3, <3>4
    <2>11. CASE End(w)
      <3>1. \A s \in Beside(w) : Fits(s)' /\ Apart(Idle, s)
        BY <2>10, AtRest, BesideFacts DEF Idle
      <3> QED
        BY <2>8, <2>9, <2>11, <3>1, IdleFits, WorkerStep DEF End
    <2>12. CASE request' = [request EXCEPT ![w].doing = "exchanging"]
      <3> DEFINE r == [old EXCEPT !.doing = "exchanging"]
      <3>1. /\ r \in Work /\ r.kind = "exchange" /\ r.doing = "exchanging" /\ r.login = l
        BY <1>2, <1>3 DEF Work, Exchange
      <3>2. request' = [request EXCEPT ![w] = r]
        BY <1>1, <2>12
      <3> HIDE DEF r
      <3>3. Fits(r)'
        BY <1>4, <2>2, <2>5, <2>7, <3>1 DEF Fits, Claims, HasToken
      <3>4. \A s \in Beside(w) : Fits(s)' /\ Apart(r, s)
        BY <2>10, <3>1, BesideFacts DEF Apart, Claims
      <3> QED
        BY <2>8, <2>9, <3>1, <3>2, <3>3, <3>4, WorkerStep
    <2> QED
      BY <1>6, <2>11, <2>12
  <1> QED
    BY <1>1, <1>3, <1>5, <1>6 DEF ConsumeCode

\* The next token has not been issued.
LEMMA FreshToken ==
  ASSUME Inv, NextToken \in Token
  PROVE  /\ token[NextToken].status = "none"
         /\ \A t \in Token : token[t].status # "none" <=> t < NextToken
  <1>1. PICK n \in 0..MaxTokens : \A t \in Token : token[t].status # "none" <=> t <= n
    BY DEF Inv, Rows, Dense
  <1>2. {t \in Token : token[t].status # "none"} = 1..n
    BY <1>1, BoundAssumption DEF Token
  <1>3. Cardinality(1..n) = n
    BY <1>1, FS_Interval
  <1>4. NextToken = n + 1
    BY <1>2, <1>3 DEF NextToken
  <1> QED
    BY <1>1, <1>4 DEF Token

\* A token is issued for l, which has no other active one left.
LEMMA IssueToken ==
  ASSUME Inv, NEW l \in Login, NEW n \in Token, n = NextToken,
         token' \in [Token -> TokenRow \cup {NoToken}],
         token'[n].status = "active", token'[n].login = l,
         code[l].status = "consumed", UNCHANGED <<authRequest, code>>,
         \A m \in Login : session'[m].status = session[m].status,
         \A t \in Token \ {n} : /\ token'[t].login = token[t].login
                                /\ token[t].status # "none" <=> token'[t].status # "none"
                                /\ token'[t].status = "active" =>
                                     token[t].status = "active" /\ token[t].login # l
  PROVE  Stages' /\ Dense' /\ OneActive'
  <1>1. Stages'
    <2>1. ASSUME NEW t \in Token, token'[t].status # "none"
          PROVE  code'[token'[t].login].status = "consumed"
      <3>1. CASE t = n
        BY <3>1
      <3>2. CASE t # n
        BY <2>1, <3>2 DEF Inv, Rows, Stages
      <3> QED
        BY <3>1, <3>2
    <2> QED
      BY <2>1 DEF Inv, Rows, Stages
  <1>2. Dense'
    <2>1. n \in 0..MaxTokens
      BY BoundAssumption DEF Token
    <2>2. \A t \in Token : token[t].status # "none" <=> t < n
      BY FreshToken
    <2>3. \A t \in Token : token'[t].status # "none" <=> t <= n
      BY <2>2 DEF Token
    <2> QED
      BY <2>1, <2>3 DEF Dense
  <1>3. OneActive'
    <2> SUFFICES ASSUME NEW s \in Token, NEW t \in Token,
                        token'[s].status = "active", token'[t].status = "active",
                        token'[s].login = token'[t].login
                 PROVE  s = t
      BY DEF OneActive
    <2>1. CASE s # n /\ t # n
      BY <2>1 DEF Inv, Rows, OneActive
    <2>2. CASE s = n \/ t = n
      BY <2>2
    <2> QED
      BY <2>1, <2>2
  <1> QED
    BY <1>1, <1>2, <1>3

LEMMA FinishExchangeInv == ASSUME Inv, NEW w \in Worker, FinishExchange(w) PROVE Inv'
  <1>1. PICK old \in Work : old = request[w]
    BY DEF Inv, Working
  <1>2. old.doing = "exchanging" /\ old \in Exchange /\ Fits(old)
    BY <1>1, RequestFacts DEF FinishExchange, Inv, Working
  <1>3. PICK l \in Login : l = old.login
    BY <1>2 DEF Exchange
  <1>4. PICK n \in Token : n = NextToken
    BY DEF FinishExchange
  <1> DEFINE new == NewToken(l, clock + SessionTTL)
  <1>5. clock + SessionTTL \in Nat
    BY LifetimeAssumption DEF Inv, RegistryTypes
  <1>6. new \in TokenRow /\ new.status = "active" /\ new.login = l
    BY <1>5 DEF NewToken, TokenRow
  <1>7. /\ token' = [token EXCEPT ![n] = new] /\ request' = [request EXCEPT ![w] = Idle]
        /\ UNCHANGED <<clock, user, toolActive, grant, authRequest, session, code>>
    BY <1>1, <1>3, <1>4 DEF FinishExchange, End, registry
  <1> HIDE DEF new
  <1>8. token \in [Token -> TokenRow \cup {NoToken}]
    BY DEF Inv, RowTypes
  <1>9. /\ token' \in [Token -> TokenRow \cup {NoToken}]
        /\ token'[n] = new /\ \A t \in Token \ {n} : token'[t] = token[t]
    BY <1>6, <1>7, <1>8
  <1>10. /\ code[l].status = "consumed"
         /\ \A t \in Token : token[t].status # "none" => token[t].login # l
    BY <1>2, <1>3 DEF Fits
  <1>11. RegistryTypes' /\ RowTypes'
    BY <1>7, <1>9 DEF Inv, RegistryTypes, RowTypes
  <1>12. Rows'
    <2>1. Stages' /\ Dense' /\ OneActive'
      BY <1>4, <1>6, <1>7, <1>9, <1>10, IssueToken
    <2>2. Due'
      BY <1>7 DEF Inv, Rows, Due
    <2> QED
      BY <2>1, <2>2 DEF Rows
  <1>13. ASSUME NEW s \in Beside(w) PROVE Fits(s)'
    <2>1. s \in Work /\ Fits(s) /\ Apart(old, s)
      BY <1>1, BesideFacts
    <2>2. HasToken(s) \/ s.doing = "rotating" => s.token \in Token /\ s.token # n
      <3>1. token[n].status = "none"
        BY <1>4, FreshToken
      <3>2. s.doing = "rotating" => HasToken(s)
        BY <2>1, RequestFacts DEF Refresh, HasToken
      <3> QED
        BY <2>1, <3>1, <3>2, RequestFacts DEF Fits
    <2>3. HasToken(s) \/ s.doing = "rotating" => token'[s.token] = token[s.token]
      BY <1>9, <2>2
    <2>4. s.doing = "exchanging" => s.login # l
      BY <1>2, <1>3, <2>1 DEF Apart
    <2>5. s.doing = "exchanging" =>
            \A t \in Token : token'[t].status # "none" => token'[t].login # s.login
      BY <1>6, <1>9, <2>1, <2>4 DEF Fits
    <2>6. GrantOf(s.login)' = GrantOf(s.login)
      BY <1>7 DEF GrantOf
    <2> QED
      BY <1>7, <2>1, <2>3, <2>5, <2>6 DEF Fits, HasToken
  <1>14. \A s \in Beside(w) : Apart(Idle, s)
    BY AtRest DEF Idle
  <1> QED
    BY <1>7, <1>11, <1>12, <1>13, <1>14, IdleFits, WorkerStep

LEMMA ConsumeTokenInv == ASSUME Inv, NEW w \in Worker, ConsumeToken(w) PROVE Inv'
  <1>1. PICK old \in Work : old = request[w]
    BY DEF Inv, Working
  <1>2. old.kind = "refresh" /\ old.doing = "asked" /\ old \in Refresh /\ Fits(old)
    BY <1>1, RequestFacts DEF ConsumeToken, Inv, Working
  <1>3. PICK k \in Token, l \in Login : k = old.token /\ l = old.login
    BY <1>2 DEF Refresh
  <1>4. UNCHANGED <<clock, user, toolActive, grant, authRequest, session, code>>
    BY DEF ConsumeToken, registry
  <1>5. TokenFree(k)
    BY <1>1, <1>3 DEF ConsumeToken
  <1>6. \A s \in Beside(w) : s.doing = "rotating" => s.token # k
    BY <1>5 DEF Beside, TokenFree
  <1>7. token[k].status # "none"
    BY <1>2, <1>3 DEF Fits, HasToken
  <1>8. CASE End(w) /\ UNCHANGED token
    BY <1>4, <1>8, EndStep DEF NoRowMoves, registry, rows
  <1>9. CASE token' = [token EXCEPT ![k].status = "revoked"] /\ End(w)
    <2>1. TokenEnds(k)
      BY <1>7, <1>9, TokenRevoked
    <2>2. Rows' /\ token' \in [Token -> TokenRow \cup {NoToken}]
      BY <1>4, <2>1, RowsTokenEnds
    <2>3. RegistryTypes' /\ RowTypes'
      BY <1>4, <2>2 DEF Inv, RegistryTypes, RowTypes
    <2>4. \A s \in Beside(w) : Fits(s)' /\ Apart(Idle, s)
      BY <1>4, <1>6, <2>1, FitsTokenEnds, BesideFacts, AtRest DEF Idle
    <2> QED
      BY <1>9, <2>2, <2>3, <2>4, IdleFits, WorkerStep DEF End
  <1>10. ASSUME NEW began \in old.now..clock, Consumable(k, began), Entitled(l, old.tool),
                request' = [request EXCEPT ![w].doing = "rotating", ![w].began = began],
                UNCHANGED token
         PROVE  Inv'
    <2> DEFINE r == [old EXCEPT !.doing = "rotating", !.began = began]
    <2>0. began \in Expiry
      BY <1>2, <1>10 DEF Refresh, Expiry, Inv, RegistryTypes
    <2>1. /\ r \in Work /\ r.kind = "refresh" /\ r.doing = "rotating"
          /\ r.login = l /\ r.token = k /\ r.now = old.now
      BY <1>2, <1>3, <2>0 DEF Work, Refresh
    <2>2. request' = [request EXCEPT ![w] = r]
      BY <1>1, <1>10
    <2> HIDE DEF r
    <2>3. token[k].status = "active" /\ GrantOf(l) = "usable"
      BY <1>10 DEF Consumable, Entitled
    <2>4. Fits(r)
      BY <1>2, <1>3, <2>1, <2>3 DEF Fits, Claims, HasToken
    <2>5. \A s \in Beside(w) : Apart(r, s)
      BY <1>6, <2>1 DEF Apart, Claims
    <2>6. NoRowMoves
      BY <1>4, <1>10 DEF NoRowMoves, registry, rows
    <2> QED
      BY <2>1, <2>2, <2>4, <2>5, <2>6, RequestStep
  <1> QED
    <2>1. PICK began \in old.now..clock :
            \/ /\ Consumable(k, began) /\ Entitled(l, old.tool)
               /\ request' = [request EXCEPT ![w].doing = "rotating", ![w].began = began]
               /\ UNCHANGED token
            \/ token' = [token EXCEPT ![k].status = "revoked"] /\ End(w)
            \/ End(w) /\ UNCHANGED token
      BY <1>1, <1>3 DEF ConsumeToken
    <2> QED
      BY <2>1, <1>8, <1>9, <1>10

LEMMA RotateInv == ASSUME Inv, NEW w \in Worker, Rotate(w) PROVE Inv'
  <1>1. PICK old \in Work : old = request[w]
    BY DEF Inv, Working
  <1>2. old.doing = "rotating" /\ old \in Refresh /\ Fits(old)
    BY <1>1, RequestFacts DEF Rotate, Inv, Working
  <1>3. PICK k \in Token, l \in Login, now \in Nat : k = old.token /\ l = old.login /\ now = old.now
    BY <1>2 DEF Refresh
  <1>4. /\ UNCHANGED <<clock, user, toolActive, grant, authRequest, code>>
        /\ request' = [request EXCEPT ![w] = Idle]
    BY DEF Rotate, registry, End
  <1>5. /\ token[k].status = "active" /\ token[k].login = l /\ now <= clock
    BY <1>2, <1>3 DEF Fits, HasToken, Refresh
  <1>6. \A s \in Beside(w) : /\ s \in Work /\ Fits(s) /\ Apart(Idle, s)
                             /\ s.doing = "rotating" => s.token # k
    BY <1>1, <1>2, <1>3, BesideFacts, AtRest DEF Apart, Idle
  <1>7. CASE token' = [token EXCEPT ![k].status = "revoked"] /\ UNCHANGED session
    <2>1. TokenEnds(k)
      BY <1>5, <1>7, TokenRevoked
    <2>2. Rows' /\ token' \in [Token -> TokenRow \cup {NoToken}]
      BY <1>4, <1>7, <2>1, RowsTokenEnds
    <2>3. RegistryTypes' /\ RowTypes'
      BY <1>4, <1>7, <2>2 DEF Inv, RegistryTypes, RowTypes
    <2>4. \A s \in Beside(w) : Fits(s)' /\ Apart(Idle, s)
      BY <1>4, <1>6, <1>7, <2>1, FitsTokenEnds
    <2> QED
      BY <1>4, <2>2, <2>3, <2>4, IdleFits, WorkerStep
  <1>8. ASSUME Extendable(l, old.tool, old.began), NextToken \in Token,
               session' = [session EXCEPT ![l].expires_at = now + SessionTTL],
               token' = [token EXCEPT ![k].status = "revoked",
                                      ![NextToken] = NewToken(l, now + SessionTTL)]
        PROVE  Inv'
    <2>1. PICK n \in Token : n = NextToken
      BY <1>8
    <2>2. now + SessionTTL \in Nat /\ now + SessionTTL <= clock + SessionTTL /\ clock \in Nat
      BY <1>5, LifetimeAssumption DEF Inv, RegistryTypes
    <2>3. session[l].status = "active"
      BY <1>8 DEF Extendable
    <2>4. PICK live \in SessionRow : live = session[l]
      BY <2>3, RowFacts
    <2>5. PICK spent \in TokenRow : spent = token[k]
      BY <1>5, RowFacts
    <2> DEFINE longer == [live EXCEPT !.expires_at = now + SessionTTL]
               revoked == [spent EXCEPT !.status = "revoked"]
               new == NewToken(l, now + SessionTTL)
    <2>6. /\ longer \in SessionRow /\ longer.status = live.status /\ longer.user = live.user
          /\ longer.expires_at = now + SessionTTL
      BY <2>2 DEF SessionRow
    <2>7. revoked \in TokenRow /\ revoked.status = "revoked" /\ revoked.login = l
      BY <1>5, <2>5 DEF TokenRow
    <2>8. new \in TokenRow /\ new.status = "active" /\ new.login = l
      BY <2>2 DEF NewToken, TokenRow
    <2>9. n # k /\ token[n].status = "none"
      BY <1>5, <2>1, FreshToken
    <2>10. session' = [session EXCEPT ![l] = longer]
      BY <1>8, <2>4
    <2>11. token' = [token EXCEPT ![k] = revoked, ![n] = new]
      BY <1>8, <2>1, <2>5
    <2> HIDE DEF longer, revoked, new
    <2>12. /\ session \in [Login -> SessionRow \cup {NoSession}]
           /\ token \in [Token -> TokenRow \cup {NoToken}]
      BY DEF Inv, RowTypes
    <2>13. /\ session' \in [Login -> SessionRow \cup {NoSession}]
           /\ session'[l] = longer /\ \A m \in Login \ {l} : session'[m] = session[m]
      BY <2>6, <2>10, <2>12
    <2>14. /\ token' \in [Token -> TokenRow \cup {NoToken}]
           /\ token'[k] = revoked /\ token'[n] = new
           /\ \A t \in Token \ {k, n} : token'[t] = token[t]
      BY <2>7, <2>8, <2>9, <2>11, <2>12
    <2>15. RegistryTypes' /\ RowTypes'
      BY <1>4, <2>13, <2>14 DEF Inv, RegistryTypes, RowTypes
    <2>16. \A m \in Login : session'[m].status = session[m].status /\ session'[m].user = session[m].user
      BY <2>4, <2>6, <2>13
    <2>17. \A t \in Token : token[t].status = "active" /\ token[t].login = l => t = k
      BY <1>5 DEF Inv, Rows, OneActive
    <2>18. Rows'
      <3>1. code[l].status = "consumed"
        BY <1>5 DEF Inv, Rows, Stages
      <3>2. \A t \in Token \ {n} : /\ token'[t].login = token[t].login
                                   /\ token[t].status # "none" <=> token'[t].status # "none"
                                   /\ token'[t].status = "active" =>
                                        token[t].status = "active" /\ token[t].login # l
        <4> SUFFICES ASSUME NEW t \in Token \ {n}
                     PROVE  /\ token'[t].login = token[t].login
                            /\ token[t].status # "none" <=> token'[t].status # "none"
                            /\ token'[t].status = "active" =>
                                 token[t].status = "active" /\ token[t].login # l
          OBVIOUS
        <4>1. CASE t = k
          BY <1>5, <2>7, <2>14, <4>1
        <4>2. CASE t # k
          BY <2>14, <2>17, <4>2
        <4> QED
          BY <4>1, <4>2
      <3>3. Stages' /\ Dense' /\ OneActive'
        BY <1>4, <2>1, <2>8, <2>14, <2>16, <3>1, <3>2, IssueToken
      <3>4. Due'
        <4> SUFFICES ASSUME NEW m \in Login
                     PROVE  /\ session'[m].expires_at <= clock' + SessionTTL
                            /\ session'[m].status = "active" => user'[session'[m].user] = "active"
          BY DEF Due
        <4>1. /\ session[m].expires_at <= clock + SessionTTL
              /\ session[m].status = "active" => user[session[m].user] = "active"
          BY DEF Inv, Rows, Due
        <4>2. session'[m].expires_at <= clock + SessionTTL
          <5>1. CASE m = l
            BY <2>2, <2>6, <2>13, <5>1
          <5>2. CASE m # l
            BY <2>13, <4>1, <5>2
          <5> QED
            BY <5>1, <5>2
        <4> QED
          BY <1>4, <2>16, <4>1, <4>2
      <3> QED
        BY <3>3, <3>4 DEF Rows
    <2>19. ASSUME NEW s \in Beside(w) PROVE Fits(s)'
      <3>1. s \in Work /\ Fits(s) /\ (s.doing = "rotating" => s.token # k)
        BY <1>6
      <3>2. s.doing = "exchanging" =>
              /\ s.login # l
              /\ \A t \in Token : token'[t].status # "none" => token'[t].login # s.login
        BY <1>5, <2>7, <2>8, <2>14, <3>1 DEF Fits
      <3>3. HasToken(s) => /\ s.token \in Token \ {n} /\ s.login \in Login
                           /\ token'[s.token].status # "none"
                           /\ token'[s.token].login = token[s.token].login
                           /\ s.token # k => token'[s.token] = token[s.token]
        <4>1. HasToken(s) => s.token \in Token \ {n} /\ s.login \in Login
          BY <2>9, <3>1, RequestFacts DEF Fits
        <4>2. ASSUME HasToken(s) PROVE token'[s.token].status # "none"
          BY <2>7, <2>14, <3>1, <4>1, <4>2 DEF Fits
        <4>3. ASSUME HasToken(s) PROVE token'[s.token].login = token[s.token].login
          BY <1>5, <2>7, <2>14, <4>1, <4>3
        <4> QED
          BY <2>14, <4>1, <4>2, <4>3
      <3>4. s.doing = "rotating" => HasToken(s)
        BY <3>1, RequestFacts DEF Refresh, HasToken
      <3>5. s.doing = "rotating" => GrantOf(s.login)' = GrantOf(s.login)
        BY <1>4, <2>16, <3>3, <3>4 DEF GrantOf
      <3>6. ASSUME s.kind = "refresh", token'[s.token].status = "active"
            PROVE  session'[s.login].expires_at <= s.now + SessionTTL
        <4>1. HasToken(s)
          BY <3>6 DEF HasToken
        <4>2. s.token # k
          BY <2>7, <2>14, <3>6
        <4>3. token[s.token].status = "active" /\ token[s.token].login = s.login
          BY <3>1, <3>3, <3>6, <4>1, <4>2 DEF Fits
        <4>4. s.login # l
          BY <2>17, <3>3, <4>1, <4>2, <4>3
        <4>5. session'[s.login] = session[s.login]
          BY <2>13, <3>3, <4>1, <4>4
        <4> QED
          BY <3>1, <3>6, <4>3, <4>5 DEF Fits
      <3>7. Claims(s) => s.login \in Login
        BY <3>1, RequestFacts DEF Claims, Identifying, Issuing
      <3> QED
        BY <1>4, <2>16, <3>1, <3>2, <3>3, <3>4, <3>5, <3>6, <3>7 DEF Fits
    <2> QED
      BY <1>4, <1>6, <2>15, <2>18, <2>19, IdleFits, WorkerStep
  <1> QED
    BY <1>1, <1>3, <1>7, <1>8 DEF Rotate

\* A logout revokes its session ...
LEMMA LogoutSession ==
  ASSUME Inv, NEW w \in Worker, NEW old \in Logout, old = request[w], RevokeSession(w),
         NEW r \in Logout \cup {Idle}, request' = [request EXCEPT ![w] = r], Fits(r)
  PROVE  Inv'
  <1>1. PICK l \in Login : l = old.login
    BY DEF Logout
  <1>2. /\ session' = [session EXCEPT ![l] = Revoke(session[l])]
        /\ UNCHANGED <<clock, user, toolActive, grant, authRequest, code, token>>
    BY <1>1 DEF RevokeSession, registry
  <1>3. /\ session' = [m \in Login |-> session'[m]] /\ session'[l] = Revoke(session[l])
        /\ \A m \in Login \ {l} : session'[m] = session[m]
    BY <1>2 DEF Inv, RowTypes
  <1>4. SessionsEnd
    BY <1>3, RevokedRow DEF SessionsEnd
  <1>5. session' \in [Login -> SessionRow \cup {NoSession}]
    BY <1>3, <1>4, SessionTypes
  <1>6. RegistryTypes' /\ RowTypes'
    BY <1>2, <1>5 DEF Inv, RegistryTypes, RowTypes
  <1>7. Rows'
    BY <1>2, <1>4, RowsSessionsEnd DEF SessionsEnd
  <1>8. r \in Work /\ r.doing \in {"nothing", "asked", "finishing"}
    BY DEF Work, Logout, Idle
  <1>9. ASSUME NEW s \in Work, Fits(s) PROVE Fits(s)'
    BY <1>2, <1>4, <1>9, FitsSessionsEnd DEF GrantOf
  <1>10. \A s \in Beside(w) : Fits(s)' /\ Apart(r, s)
    BY <1>8, <1>9, BesideFacts, AtRest
  <1> QED
    BY <1>6, <1>7, <1>8, <1>9, <1>10, WorkerStep

\* ... and its token, when nobody rotates it.
LEMMA LogoutToken ==
  ASSUME Inv, NEW w \in Worker, NEW old \in Logout, old = request[w], RevokeToken(w),
         NEW r \in Logout \cup {Idle}, request' = [request EXCEPT ![w] = r], Fits(r)
  PROVE  Inv'
  <1>1. PICK k \in Token : k = old.token
    BY DEF Logout
  <1>2. /\ token' = [token EXCEPT ![k] = Revoke(@)] /\ TokenFree(k)
        /\ UNCHANGED <<clock, user, toolActive, grant, authRequest, session, code>>
    BY <1>1 DEF RevokeToken, registry
  <1>3. token[k].status # "none"
    BY <1>1, BesideFacts DEF Inv, Working, Fits, HasToken, Logout
  <1>4. TokenEnds(k)
    BY <1>2, <1>3, TokenRevoked
  <1>5. Rows' /\ token' \in [Token -> TokenRow \cup {NoToken}]
    BY <1>2, <1>4, RowsTokenEnds
  <1>6. RegistryTypes' /\ RowTypes'
    BY <1>2, <1>5 DEF Inv, RegistryTypes, RowTypes
  <1>7. r \in Work /\ r.doing \in {"nothing", "asked", "finishing"}
    BY DEF Work, Logout, Idle
  <1>8. \A s \in Beside(w) : s.doing = "rotating" => s.token # k
    BY <1>2 DEF Beside, TokenFree
  <1>9. ASSUME NEW s \in Work, Fits(s), s.doing = "rotating" => s.token # k PROVE Fits(s)'
    BY <1>2, <1>4, <1>9, FitsTokenEnds
  <1>10. \A s \in Beside(w) : Fits(s)' /\ Apart(r, s)
    BY <1>7, <1>8, <1>9, BesideFacts, AtRest
  <1>11. Fits(r)'
    BY <1>7, <1>9
  <1> QED
    BY <1>5, <1>6, <1>7, <1>10, <1>11, WorkerStep

LEMMA LogoutInv ==
  ASSUME Inv, NEW w \in Worker, LogoutTool(w) \/ LogoutUser(w) PROVE Inv'
  <1>1. PICK old \in Work : old = request[w]
    BY DEF Inv, Working
  <1>2. old \in Logout /\ Fits(old)
    BY <1>1, RequestFacts DEF LogoutTool, LogoutUser, Inv, Working
  <1> DEFINE r == [old EXCEPT !.doing = "finishing"]
  <1>3. /\ r \in Logout /\ r.kind = old.kind /\ r.doing = "finishing"
        /\ r.login = old.login /\ r.token = old.token
    BY <1>2 DEF Logout
  <1>4. request' = [request EXCEPT ![w].doing = "finishing"] => request' = [request EXCEPT ![w] = r]
    BY <1>1
  <1> HIDE DEF r
  <1>5. Fits(r)
    BY <1>2, <1>3 DEF Fits, Claims, HasToken, Logout
  <1>6. CASE End(w) /\ UNCHANGED <<clock, registry, rows>>
    BY <1>6, EndStep DEF NoRowMoves
  <1>7. CASE RevokeSession(w)
    BY <1>1, <1>2, <1>3, <1>4, <1>5, <1>7, IdleFits, LogoutSession DEF LogoutTool, LogoutUser, End
  <1>8. CASE RevokeToken(w)
    BY <1>1, <1>2, <1>3, <1>4, <1>5, <1>8, IdleFits, LogoutToken DEF LogoutTool, LogoutUser, End
  <1> QED
    BY <1>6, <1>7, <1>8 DEF LogoutTool, LogoutUser

-----------------------------------------------------------------------------
(* Administrators and the clock.                                           *)

LEMMA RevokedSessions ==
  ASSUME Inv, NEW gone \in SUBSET Login, RevokeSessions(gone)
  PROVE  /\ SessionsEnd /\ session' \in [Login -> SessionRow \cup {NoSession}]
         /\ \A l \in gone : session'[l].status # "active"
  <1>1. /\ session' = [l \in Login |-> session'[l]]
        /\ \A l \in gone : session'[l] = Revoke(session[l])
        /\ \A l \in Login \ gone : session'[l] = session[l]
    BY DEF RevokeSessions
  <1>2. SessionsEnd
    BY <1>1, RevokedRow DEF SessionsEnd
  <1>3. ASSUME NEW l \in gone PROVE session'[l].status # "active"
    <2>1. CASE session[l].status = "active"
      <3>1. PICK row \in SessionRow : row = session[l]
        BY <2>1, RowFacts
      <3>2. session'[l] = [row EXCEPT !.status = "revoked"]
        BY <1>1, <2>1, <3>1 DEF Revoke
      <3> QED
        BY <3>2 DEF SessionRow
    <2>2. CASE session[l].status # "active"
      BY <1>1, <2>2 DEF Revoke
    <2> QED
      BY <2>1, <2>2
  <1> QED
    BY <1>1, <1>2, <1>3, SessionTypes

LEMMA SetUserInv == ASSUME Inv, NEW u \in User, SetUser(u) PROVE Inv'
  <1>1. PICK status \in {"active", "disabled"} :
          /\ user' = [user EXCEPT ![u] = status]
          /\ RevokeSessions({l \in Login : status # "active" /\ session[l].user = u})
    BY DEF SetUser
  <1>2. UNCHANGED <<clock, toolActive, grant, authRequest, code, token, request>>
    BY DEF SetUser
  <1>3. PICK gone \in SUBSET Login :
          gone = {l \in Login : status # "active" /\ session[l].user = u}
    OBVIOUS
  <1>4. /\ SessionsEnd /\ session' \in [Login -> SessionRow \cup {NoSession}]
        /\ \A l \in gone : session'[l].status # "active"
    BY <1>1, <1>3, RevokedSessions
  <1>5. user \in [User -> {"active", "disabled"}]
    BY DEF Inv, RegistryTypes
  <1>6. /\ user' \in [User -> {"active", "disabled"}]
        /\ user'[u] = status /\ \A v \in User \ {u} : user'[v] = user[v]
    BY <1>1, <1>5
  <1>7. ASSUME NEW l \in Login, session'[l].status = "active"
        PROVE  user'[session'[l].user] = user[session[l].user]
    <2>1. session[l].status = "active" /\ session'[l] = session[l]
      BY <1>4, <1>7 DEF SessionsEnd
    <2>2. user[session[l].user] = "active" /\ session[l].user \in User
      BY <2>1, RowFacts DEF Inv, Rows, Due, SessionRow
    <2>3. CASE session[l].user = u
      BY <1>3, <1>4, <1>6, <1>7, <2>1, <2>2, <2>3
    <2>4. CASE session[l].user # u
      BY <1>6, <2>1, <2>2, <2>4
    <2> QED
      BY <2>3, <2>4
  <1>8. Rows'
    BY <1>2, <1>4, <1>7, RowsSessionsEnd
  <1>9. RegistryTypes' /\ RowTypes'
    BY <1>2, <1>4, <1>6 DEF Inv, RegistryTypes, RowTypes
  <1>10. ASSUME NEW s \in All PROVE Fits(s)'
    <2>1. s \in Work /\ Fits(s)
      BY AllFacts
    <2>2. s \in Issuing => s.user \in User /\ s.user # u
      BY DEF Issuing, All, SetUser, UserFree
    <2>3. s \in Issuing => user'[s.user] = user[s.user]
      BY <1>6, <2>2
    <2> QED
      BY <1>2, <1>4, <2>1, <2>3, FitsSessionsEnd DEF GrantOf
  <1> QED
    BY <1>2, <1>8, <1>9, <1>10, RowStep

LEMMA SetGrantInv == ASSUME Inv, NEW u \in User, NEW t \in Tool, SetGrant(u, t) PROVE Inv'
  <1>1. PICK status \in {"usable", "expired", "revoked"} :
          /\ grant' = [grant EXCEPT ![<<u, t>>] = status]
          /\ RevokeSessions({l \in Login : /\ status = "revoked"
                                           /\ session[l].user = u /\ ToolOf[l] = t})
    BY DEF SetGrant
  <1>2. UNCHANGED <<clock, user, toolActive, authRequest, code, token, request>>
    BY DEF SetGrant
  <1>3. PICK gone \in SUBSET Login :
          gone = {l \in Login : status = "revoked" /\ session[l].user = u /\ ToolOf[l] = t}
    OBVIOUS
  <1>4. /\ SessionsEnd /\ session' \in [Login -> SessionRow \cup {NoSession}]
        /\ \A l \in gone : session'[l].status # "active"
    BY <1>1, <1>3, RevokedSessions
  <1>5. grant \in [User \X Tool -> {"usable", "expired", "revoked"}] /\ <<u, t>> \in User \X Tool
    BY DEF Inv, RegistryTypes
  <1>6. /\ grant' \in [User \X Tool -> {"usable", "expired", "revoked"}]
        /\ grant'[<<u, t>>] = status
        /\ \A p \in User \X Tool : p # <<u, t>> => grant'[p] = grant[p]
    BY <1>1, <1>5
  <1>7. Rows'
    BY <1>2, <1>4, RowsSessionsEnd DEF SessionsEnd
  <1>8. RegistryTypes' /\ RowTypes'
    BY <1>2, <1>4, <1>6 DEF Inv, RegistryTypes, RowTypes
  <1>9. ASSUME NEW s \in All PROVE Fits(s)'
    <2>1. s \in Work /\ Fits(s)
      BY AllFacts
    <2>2. ASSUME s \in Refresh, session'[s.login].status = "active"
          PROVE  \/ grant'[<<session[s.login].user, ToolOf[s.login]>>] = GrantOf(s.login)
                 \/ grant'[<<session[s.login].user, ToolOf[s.login]>>] # "revoked"
      <3>1. PICK l \in Login : l = s.login
        BY <2>2 DEF Refresh
      <3>2. session[l].status = "active"
        BY <1>4, <2>2, <3>1 DEF SessionsEnd
      <3>3. PICK owner \in User : owner = session[l].user
        BY <3>2, RowFacts DEF SessionRow
      <3>4. PICK tool \in Tool : tool = ToolOf[l]
        BY ToolAssumption
      <3>5. CASE owner = u /\ tool = t
        BY <1>3, <1>4, <1>6, <2>2, <3>1, <3>3, <3>4, <3>5
      <3>6. CASE ~(owner = u /\ tool = t)
        <4>1. <<owner, tool>> # <<u, t>> /\ <<owner, tool>> \in User \X Tool
          BY <3>6
        <4> QED
          BY <1>6, <3>1, <3>3, <3>4, <4>1 DEF GrantOf
      <3> QED
        BY <3>5, <3>6
    <2> QED
      BY <1>2, <1>4, <2>1, <2>2, FitsSessionsEnd
  <1> QED
    BY <1>2, <1>7, <1>8, <1>9, RowStep

LEMMA SetToolInv == ASSUME Inv, NEW t \in Tool, SetTool(t) PROVE Inv'
  <1>1. /\ toolActive' = [toolActive EXCEPT ![t] = ~@]
        /\ UNCHANGED <<clock, user, grant, authRequest, session, code, token, request>>
    BY DEF SetTool, rows
  <1>2. toolActive' \in [Tool -> BOOLEAN]
    BY <1>1 DEF Inv, RegistryTypes
  <1>3. RegistryTypes' /\ RowTypes'
    BY <1>1, <1>2 DEF Inv, RegistryTypes, RowTypes
  <1>4. Rows'
    BY <1>1 DEF Inv, Rows, Stages, Dense, OneActive, Due
  <1>5. ASSUME NEW s, Fits(s) PROVE Fits(s)'
    BY <1>1, <1>5 DEF Fits, GrantOf
  <1> QED
    BY <1>1, <1>3, <1>4, <1>5, AllFacts, RowStep

LEMMA TickInv == ASSUME Inv, Tick PROVE Inv'
  <1>1. /\ clock' = clock + 1
        /\ UNCHANGED <<user, toolActive, grant, authRequest, session, code, token, request>>
    BY DEF Tick, registry, rows
  <1>2. clock \in Nat /\ SessionTTL \in Nat
    BY LifetimeAssumption DEF Inv, RegistryTypes
  <1>3. RegistryTypes' /\ RowTypes'
    BY <1>1, <1>2 DEF Inv, RegistryTypes, RowTypes
  <1>4. Stages' /\ Dense' /\ OneActive'
    BY <1>1 DEF Inv, Rows, Stages, Dense, OneActive
  <1>5. Due'
    <2> SUFFICES ASSUME NEW l \in Login
                 PROVE  /\ session[l].expires_at <= (clock + 1) + SessionTTL
                        /\ session[l].status = "active" => user[session[l].user] = "active"
      BY <1>1 DEF Due
    <2>1. session[l].expires_at <= clock + SessionTTL
          /\ (session[l].status = "active" => user[session[l].user] = "active")
      BY DEF Inv, Rows, Due
    <2>2. session[l].expires_at \in Int
      BY DEF Inv, RowTypes, SessionRow, NoSession, Null
    <2> QED
      BY <1>2, <2>1, <2>2
  <1>6. ASSUME NEW s \in Work, Fits(s) PROVE Fits(s)'
    <2>1. s.kind = "refresh" => s.now \in Nat
      BY RequestFacts DEF Refresh
    <2>2. s.kind = "refresh" => s.now <= clock'
      BY <1>1, <1>2, <1>6, <2>1 DEF Fits
    <2>3. GrantOf(s.login)' = GrantOf(s.login)
      BY <1>1 DEF GrantOf
    <2> QED
      BY <1>1, <1>6, <2>2, <2>3 DEF Fits
  <1> QED
    BY <1>1, <1>3, <1>4, <1>5, <1>6, AllFacts, RowStep DEF Rows

-----------------------------------------------------------------------------

LEMMA InitInv == Init => Inv
  <1> SUFFICES ASSUME Init PROVE Inv
    OBVIOUS
  <1>1. RegistryTypes
    BY DEF Init, RegistryTypes
  <1>2. RowTypes
    BY DEF Init, RowTypes, AuthRow, CodeRow, Unused, Expiry
  <1>3. Stages /\ OneActive
    BY DEF Init, Stages, OneActive, Unused, NoSession, NoToken
  <1>4. Dense
    <2>1. 0 \in 0..MaxTokens /\ \A t \in Token : ~(t <= 0)
      BY BoundAssumption DEF Token
    <2> QED
      BY <2>1 DEF Init, Dense, NoToken
  <1>5. Due
    BY LifetimeAssumption DEF Init, Due, NoSession, Null
  <1>6. Working
    BY IdleFits, AtRest DEF Init, Working, Idle
  <1> QED
    BY <1>1, <1>2, <1>3, <1>4, <1>5, <1>6 DEF Inv, Rows

LEMMA NextInv == Inv /\ [Next]_vars => Inv'
  <1> SUFFICES ASSUME Inv, [Next]_vars PROVE Inv'
    OBVIOUS
  <1>1. CASE \E l \in Login : Start(l)
    BY <1>1, StartInv
  <1>2. ASSUME NEW w \in Worker, Step(w) PROVE Inv'
    <2>1. CASE Fail(w)
      BY <2>1, EndStep DEF Fail, NoRowMoves
    <2> QED
      BY <1>2, <2>1, ClaimInv, IdentifyInv, IssueCodeInv, AskInv, ConsumeCodeInv,
         FinishExchangeInv, ConsumeTokenInv, RotateInv, LogoutInv DEF Step
  <1>3. CASE \E u \in User : SetUser(u)
    BY <1>3, SetUserInv
  <1>4. CASE \E u \in User, t \in Tool : SetGrant(u, t)
    BY <1>4, SetGrantInv
  <1>5. CASE (\E t \in Tool : SetTool(t)) \/ Tick
    BY <1>5, SetToolInv, TickInv
  <1>6. CASE UNCHANGED vars
    <2>1. UNCHANGED <<clock, user, toolActive, grant, authRequest, session, code, token, request>>
      BY <1>6 DEF vars, registry, rows
    <2>2. RegistryTypes' /\ RowTypes'
      BY <2>1 DEF Inv, RegistryTypes, RowTypes
    <2>3. Rows'
      BY <2>1 DEF Inv, Rows, Stages, Dense, OneActive, Due
    <2>4. ASSUME NEW s, Fits(s) PROVE Fits(s)'
      BY <2>1, <2>4 DEF Fits, GrantOf
    <2> QED
      BY <2>1, <2>2, <2>3, <2>4, AllFacts, RowStep
  <1> QED
    BY <1>1, <1>2, <1>3, <1>4, <1>5, <1>6 DEF Next

LEMMA InvHolds == Spec => []Inv
  BY InitInv, NextInv, PTL DEF Spec

\* Rows and requests hold what the code may put there (src/repositories.ts:749-1015).
THEOREM TypesHold == Spec => []TypeOK
  <1>1. ASSUME Inv PROVE TypeOK
    <2>1. /\ session \in [Login -> [status : {"none", "active", "revoked"}, expires_at : Expiry,
                                    user : User \cup {Null}]]
          /\ token \in [Token -> [status : {"none", "active", "revoked"}, expires_at : Expiry,
                                  login : Login \cup {Null}]]
      BY <1>1 DEF Inv, RowTypes, SessionRow, TokenRow, NoSession, NoToken, Expiry
    <2>2. \A w \in Worker : request[w].doing \in {"nothing", "identifying", "issuing", "asked",
                                                  "exchanging", "rotating", "finishing"}
      BY <1>1 DEF Inv, Working, Work, Idle, Identifying, Issuing, Exchange, Refresh, Logout
    <2> QED
      BY <1>1, <2>1, <2>2 DEF TypeOK, Inv, RegistryTypes, RowTypes, AuthRow, CodeRow
  <1>2. Inv => TypeOK
    BY <1>1
  <1> QED
    BY <1>2, InvHolds, PTL

\* A session never has two usable refresh tokens, whatever exchanges, refreshes
\* and logouts run at the same time and wherever they fail
\* (src/app.ts:1143-1260, src/repositories.ts:918-986).
THEOREM OneUsable == Spec => []OneUsableToken
  <1>1. ASSUME Inv, NEW l \in Login
        PROVE  Cardinality({t \in Token : token[t].login = l /\ token[t].status = "active"}) <= 1
    <2> DEFINE S == {t \in Token : token[t].login = l /\ token[t].status = "active"}
    <2>1. CASE S = {}
      BY <2>1, FS_EmptySet
    <2>2. CASE S # {}
      <3>1. PICK t \in S : TRUE
        BY <2>2
      <3>2. S = {t}
        BY <1>1, <3>1 DEF Inv, Rows, OneActive
      <3> HIDE DEF S
      <3>3. Cardinality(S) = 1
        BY <3>2, FS_Singleton
      <3> QED
        BY <3>3 DEF S
    <2> QED
      BY <2>1, <2>2
  <1>2. Inv => OneUsableToken
    BY <1>1 DEF OneUsableToken
  <1> QED
    BY <1>2, InvHolds, PTL

\* A user who is not active has no active session, the one a login is about to
\* create included (src/app.ts:870-983, 2382-2402).
THEOREM DisabledHasNone == Spec => []DisabledUserHasNoSession
  <1>1. Inv => DisabledUserHasNoSession
    BY DEF Inv, Rows, Due, DisabledUserHasNoSession
  <1> QED
    BY <1>1, InvHolds, PTL

-----------------------------------------------------------------------------
(* What a step may never do.                                               *)

Forward == \A l \in Login : /\ session[l].status = "active" =>
                                 session'[l].expires_at >= session[l].expires_at
                            /\ session[l].status = "revoked" => session'[l] = session[l]

LEMMA EndIsForward == ASSUME Inv, SessionsEnd PROVE Forward
  <1> SUFFICES ASSUME NEW l \in Login
               PROVE  /\ session[l].status = "active" =>
                           session'[l].expires_at >= session[l].expires_at
                      /\ session[l].status = "revoked" => session'[l] = session[l]
    BY DEF Forward
  <1>1. session[l].expires_at \in Int
    BY DEF Inv, RowTypes, SessionRow, NoSession, Null
  <1> QED
    BY <1>1 DEF SessionsEnd

LEMMA StepIsForward == ASSUME Inv, NEW w \in Worker, Step(w) PROVE Forward
  <1>1. PICK old \in Work : old = request[w]
    BY DEF Inv, Working
  <1>2. Fits(old)
    BY <1>1 DEF Inv, Working
  <1>3. session \in [Login -> SessionRow \cup {NoSession}]
    BY DEF Inv, RowTypes
  <1>4. UNCHANGED session => Forward
    BY EndIsForward DEF SessionsEnd
  <1>5. CASE IssueCode(w)
    <2>1. PICK l \in Login : l = old.login
      BY <1>1, <1>5, RequestFacts DEF IssueCode, Issuing
    <2>2. session[l].status = "none"
      BY <1>1, <1>2, <1>5, <2>1 DEF IssueCode, Fits, Claims
    <2>3. \A m \in Login \ {l} : session'[m] = session[m]
      BY <1>1, <1>3, <1>5, <2>1 DEF IssueCode
    <2>4. ASSUME NEW m \in Login, m # l
          PROVE  /\ session'[m].expires_at >= session[m].expires_at
                 /\ session'[m] = session[m]
      <3>1. session[m].expires_at \in Int
        BY <1>3 DEF SessionRow, NoSession, Null
      <3> QED
        BY <2>3, <2>4, <3>1
    <2> QED
      BY <2>2, <2>4 DEF Forward
  <1>6. CASE Rotate(w)
    <2>1. old \in Refresh /\ old.doing = "rotating"
      BY <1>1, <1>6, RequestFacts DEF Rotate
    <2>2. PICK k \in Token, l \in Login, now \in Nat :
            k = old.token /\ l = old.login /\ now = old.now
      BY <2>1 DEF Refresh
    <2>3. session[l].expires_at <= now + SessionTTL
      BY <1>2, <2>1, <2>2 DEF Fits, Refresh
    <2>4. CASE UNCHANGED session
      BY <1>4, <2>4
    <2>5. CASE session' = [session EXCEPT ![l].expires_at = now + SessionTTL]
               /\ Extendable(l, old.tool, old.began)
      <3>1. PICK live \in SessionRow : live = session[l]
        BY <2>5, RowFacts DEF Extendable
      <3>2. session' = [session EXCEPT ![l] = [live EXCEPT !.expires_at = now + SessionTTL]]
        BY <2>5, <3>1
      <3>3. [live EXCEPT !.expires_at = now + SessionTTL].expires_at = now + SessionTTL
        BY DEF SessionRow
      <3>4. session'[l].expires_at = now + SessionTTL
        BY <1>3, <3>2, <3>3
      <3>5. \A m \in Login \ {l} : session'[m] = session[m]
        BY <1>3, <3>2
      <3>6. \A m \in Login : session[m].expires_at \in Int
        BY <1>3 DEF SessionRow, NoSession, Null
      <3>7. session[l].status = "active" /\ now + SessionTTL \in Nat
        BY <2>5, LifetimeAssumption DEF Extendable
      <3>8. ASSUME NEW m \in Login
            PROVE  /\ session'[m].expires_at >= session[m].expires_at
                   /\ session[m].status = "revoked" => session'[m] = session[m]
        <4>1. CASE m = l
          BY <2>3, <3>4, <3>6, <3>7, <4>1
        <4>2. CASE m # l
          BY <3>5, <3>6, <4>2
        <4> QED
          BY <4>1, <4>2
      <3> QED
        BY <3>8 DEF Forward
    <2> QED
      BY <1>1, <1>6, <2>2, <2>4, <2>5 DEF Rotate
  <1>7. CASE LogoutTool(w) \/ LogoutUser(w)
    <2>1. old \in Logout
      BY <1>1, <1>7, RequestFacts DEF LogoutTool, LogoutUser
    <2>2. PICK l \in Login : l = old.login
      BY <2>1 DEF Logout
    <2>3. CASE UNCHANGED session
      BY <1>4, <2>3
    <2>4. CASE session' = [session EXCEPT ![l] = Revoke(session[l])]
      <3>1. SessionsEnd
        BY <1>3, <2>4, RevokedRow DEF SessionsEnd
      <3> QED
        BY <3>1, EndIsForward
    <2> QED
      BY <1>1, <1>7, <2>2, <2>3, <2>4
         DEF LogoutTool, LogoutUser, RevokeToken, RevokeSession, rows
  <1>8. CASE (\E l \in Login : Claim(w, l)) \/ Identify(w) \/ Ask(w) \/ ConsumeCode(w)
    BY <1>4, <1>8 DEF Claim, Identify, Ask, ConsumeCode, rows
  <1>9. CASE FinishExchange(w) \/ ConsumeToken(w) \/ Fail(w)
    BY <1>4, <1>9 DEF FinishExchange, ConsumeToken, Fail, rows
  <1> QED
    BY <1>5, <1>6, <1>7, <1>8, <1>9 DEF Step

\* A session only moves forward, although a refresh writes the expiry it computed
\* from the time its request arrived (src/app.ts:1207-1260,
\* src/repositories.ts:864-893): the token it consumes has been active since the
\* session got the expiry it has.
THEOREM SessionsGoForward == Spec => SessionMovesForward
  <1>1. ASSUME Inv, [Next]_vars PROVE [Forward]_vars
    <2>1. CASE \E l \in Login : Start(l)
      BY <1>1, <2>1, EndIsForward DEF Start, SessionsEnd
    <2>2. CASE \E w \in Worker : Step(w)
      BY <1>1, <2>2, StepIsForward
    <2>3. ASSUME NEW u \in User, SetUser(u) PROVE Forward
      <3>1. PICK gone \in SUBSET Login : RevokeSessions(gone)
        BY <2>3 DEF SetUser
      <3> QED
        BY <1>1, <3>1, RevokedSessions, EndIsForward
    <2>4. ASSUME NEW u \in User, NEW t \in Tool, SetGrant(u, t) PROVE Forward
      <3>1. PICK gone \in SUBSET Login : RevokeSessions(gone)
        BY <2>4 DEF SetGrant
      <3> QED
        BY <1>1, <3>1, RevokedSessions, EndIsForward
    <2>5. CASE (\E t \in Tool : SetTool(t)) \/ Tick
      BY <1>1, <2>5, EndIsForward DEF SetTool, Tick, rows, SessionsEnd
    <2> QED
      BY <1>1, <2>1, <2>2, <2>3, <2>4, <2>5 DEF Next
  <1>2. Inv /\ [Next]_vars => [Forward]_vars
    BY <1>1
  <1> QED
    BY <1>2, InvHolds, PTL DEF Spec, SessionMovesForward, Forward

SameCount == \A t \in Token : token'[t].status # "none" <=> token[t].status # "none"

LEMMA NoTokenIssued == ASSUME SameCount PROVE NextToken' = NextToken
  <1>1. {t \in Token : token'[t].status # "none"} = {t \in Token : token[t].status # "none"}
    BY DEF SameCount
  <1> QED
    BY <1>1 DEF NextToken

\* Tokens a refresh issues are due when it commits: the user is active and the
\* grant not revoked, though both were read before (src/app.ts:1207-1260).
THEOREM RefreshesAreEntitled == Spec => RefreshIsEntitled
  <1> DEFINE Entitles(w) == user[session[request[w].login].user] = "active"
                          /\ GrantOf(request[w].login) # "revoked"
             Always == \A w \in Worker : request[w].doing = "rotating" /\ NextToken' # NextToken
                                         /\ request'[w] = Idle => Entitles(w)
  <1>1. ASSUME Inv, [Next]_vars PROVE [Always]_vars
    <2>1. ASSUME NEW w \in Worker, request[w].doing = "rotating", NextToken' # NextToken,
                 request'[w] = Idle, Next
          PROVE  Entitles(w)
      <3>1. PICK old \in Work : old = request[w]
        BY <1>1 DEF Inv, Working
      <3>2. old \in Refresh /\ Fits(old) /\ old.kind = "refresh" /\ old.doing = "rotating"
        BY <1>1, <2>1, <3>1, RequestFacts DEF Inv, Working, Refresh
      <3>3. PICK k \in Token, l \in Login : k = old.token /\ l = old.login
        BY <3>2 DEF Refresh
      <3>4. session[l].status = "active" => Entitles(w)
        BY <1>1, <3>1, <3>2, <3>3 DEF Inv, Rows, Due, Fits
      <3>5. old # Idle
        BY <3>2 DEF Idle
      <3>6. ~UNCHANGED request
        BY <2>1, <3>1, <3>5
      <3>7. PICK v \in Worker : Step(v)
        BY <2>1, <3>6 DEF Next, Start, SetUser, SetGrant, SetTool, Tick
      <3>8. CASE Rotate(w)
        <4>1. CASE Extendable(old.login, old.tool, old.began)
          BY <3>3, <3>4, <4>1 DEF Extendable
        <4>2. CASE token' = [token EXCEPT ![k].status = "revoked"]
          <5>1. token[k].status # "none"
            BY <3>2, <3>3 DEF Fits
          <5>2. TokenEnds(k)
            BY <1>1, <4>2, <5>1, TokenRevoked
          <5>3. SameCount
            BY <5>2 DEF TokenEnds, SameCount
          <5> QED
            BY <2>1, <5>3, NoTokenIssued
        <4> QED
          BY <3>1, <3>3, <3>8, <4>1, <4>2 DEF Rotate
      <3>9. CASE v = w /\ ~Rotate(w)
        <4>1. UNCHANGED token
          <5>1. ~(\E m \in Login : Claim(w, m)) /\ ~Ask(w)
            BY <3>1, <3>5, <2>1, SentAssumption DEF Claim, Ask, Begin
          <5>2. ~Identify(w) /\ ~IssueCode(w) /\ ~ConsumeCode(w) /\ ~FinishExchange(w)
            BY <2>1 DEF Identify, IssueCode, ConsumeCode, FinishExchange
          <5>3. ~ConsumeToken(w) /\ ~LogoutTool(w) /\ ~LogoutUser(w)
            BY <3>1, <3>2 DEF ConsumeToken, LogoutTool, LogoutUser
          <5> QED
            BY <3>7, <3>9, <5>1, <5>2, <5>3 DEF Step, Fail, rows
        <4>2. SameCount
          BY <4>1 DEF SameCount
        <4> QED
          BY <2>1, <4>2, NoTokenIssued
      <3>10. CASE v # w
        <4>1. \E r : request' = [request EXCEPT ![v] = r]
          <5>1. CASE (\E m \in Login : Claim(v, m)) \/ Ask(v)
            BY <5>1 DEF Claim, Ask, Begin
          <5>2. CASE Identify(v) \/ IssueCode(v) \/ FinishExchange(v) \/ Rotate(v) \/ Fail(v)
            BY <5>2 DEF Identify, IssueCode, FinishExchange, Rotate, Fail, End
          <5>3. CASE ConsumeCode(v) \/ ConsumeToken(v)
            BY <5>3 DEF ConsumeCode, ConsumeToken, End
          <5>4. CASE LogoutTool(v) \/ LogoutUser(v)
            BY <5>4 DEF LogoutTool, LogoutUser, End
          <5> QED
            BY <3>7, <5>1, <5>2, <5>3, <5>4 DEF Step
        <4>2. request'[w] = request[w]
          BY <1>1, <3>10, <4>1 DEF Inv, Working
        <4> QED
          BY <2>1, <3>1, <3>5, <4>2
      <3> QED
        BY <3>8, <3>9, <3>10
    <2> QED
      BY <1>1, <2>1
  <1>2. Inv /\ [Next]_vars => [Always]_vars
    BY <1>1
  <1> QED
    BY <1>2, InvHolds, PTL DEF Spec, RefreshIsEntitled
-----------------------------------------------------------------------------
(* Auth requests as one-time tickets.                                      *)

\* The request of w changes: it is a callback that has consumed an auth request
\* only if it was before, or if this step consumes it.
Goes(w) == \E r : /\ request' = [request EXCEPT ![w] = r]
                  /\ Claims(r) => \/ Claims(request[w]) /\ r.login = request[w].login
                                  \/ \E l \in Login : r.login = l /\ Claim(w, l)

LEMMA WorkersGo ==
  ASSUME Inv, [Next]_vars PROVE UNCHANGED request \/ \E w \in Worker : Goes(w)
  <1>1. ASSUME NEW w \in Worker, End(w) PROVE Goes(w)
    <2>1. ~Claims(Idle)
      BY DEF Claims, Idle
    <2> QED
      BY <1>1, <2>1 DEF Goes, End
  <1>2. ASSUME NEW w \in Worker, NEW doing \in {"exchanging", "rotating", "finishing"},
               request' = [request EXCEPT ![w].doing = doing], ~Claims(request[w])
        PROVE  Goes(w)
    <2>1. PICK old \in Work : old = request[w]
      BY DEF Inv, Working
    <2>2. PICK r : r = [old EXCEPT !.doing = doing]
      OBVIOUS
    <2>3. request' = [request EXCEPT ![w] = r]
      BY <1>2, <2>1, <2>2
    <2>4. r.doing = doing
      BY <2>1, <2>2 DEF Work, Idle, Identifying, Issuing, Exchange, Refresh, Logout
    <2> QED
      BY <2>3, <2>4 DEF Goes, Claims
  <1>3. ASSUME NEW w \in Worker, Step(w) PROVE Goes(w)
    <2>1. ASSUME NEW l \in Login, Claim(w, l) PROVE Goes(w)
      <3>1. PICK r : r = [kind |-> "callback", doing |-> "identifying", login |-> l]
        OBVIOUS
      <3>2. r.login = l /\ request' = [request EXCEPT ![w] = r]
        BY <2>1, <3>1 DEF Claim, Begin
      <3> QED
        BY <2>1, <3>2 DEF Goes
    <2>2. CASE Identify(w)
      <3>1. CASE End(w)
        BY <1>1, <3>1
      <3>2. ASSUME NEW u \in User,
                   request' = [request EXCEPT ![w] =
                     [kind |-> "callback", doing |-> "issuing", login |-> request[w].login, user |-> u]]
            PROVE  Goes(w)
        <4>1. PICK r : r = [kind |-> "callback", doing |-> "issuing",
                            login |-> request[w].login, user |-> u]
          OBVIOUS
        <4>2. r.login = request[w].login
          BY <4>1
        <4> QED
          BY <2>2, <3>2, <4>1, <4>2 DEF Goes, Identify, Claims
      <3> QED
        BY <2>2, <3>1, <3>2 DEF Identify
    <2>3. CASE Ask(w)
      <3>1. PICK r : request' = [request EXCEPT ![w] = r] /\ r.doing = "asked"
        <4>1. ASSUME NEW t \in Tool, NEW l \in Login,
                     Begin(w, [kind |-> "exchange", doing |-> "asked", login |-> l, tool |-> t])
              PROVE  \E r : request' = [request EXCEPT ![w] = r] /\ r.doing = "asked"
          <5>1. PICK r : r = [kind |-> "exchange", doing |-> "asked", login |-> l, tool |-> t]
            OBVIOUS
          <5>2. r.doing = "asked" /\ request' = [request EXCEPT ![w] = r]
            BY <4>1, <5>1 DEF Begin
          <5> QED
            BY <5>2
        <4>2. ASSUME NEW kind \in Sent, NEW t \in Tool, NEW k \in Token,
                     Begin(w, [kind |-> kind, doing |-> "asked", login |-> token[k].login,
                               tool |-> t, token |-> k,
                               now |-> IF kind = "refresh" THEN clock ELSE Null, began |-> Null])
              PROVE  \E r : request' = [request EXCEPT ![w] = r] /\ r.doing = "asked"
          <5>1. PICK r : r = [kind |-> kind, doing |-> "asked", login |-> token[k].login,
                              tool |-> t, token |-> k,
                              now |-> IF kind = "refresh" THEN clock ELSE Null, began |-> Null]
            OBVIOUS
          <5>2. r.doing = "asked" /\ request' = [request EXCEPT ![w] = r]
            BY <4>2, <5>1 DEF Begin
          <5> QED
            BY <5>2
        <4> QED
          BY <2>3, <4>1, <4>2, Zenon DEF Ask
      <3> QED
        BY <3>1 DEF Goes, Claims
    <2>4. CASE IssueCode(w) \/ FinishExchange(w) \/ Rotate(w) \/ Fail(w)
      BY <1>1, <2>4 DEF IssueCode, FinishExchange, Rotate, Fail
    <2>5. CASE ConsumeCode(w)
      BY <1>1, <1>2, <2>5 DEF ConsumeCode, Claims
    <2>6. CASE ConsumeToken(w)
      BY <1>1, <1>2, <2>6 DEF ConsumeToken, Claims
    <2>7. CASE LogoutTool(w) \/ LogoutUser(w)
      BY <1>1, <1>2, <2>7 DEF LogoutTool, LogoutUser, Claims
    <2> QED
      BY <1>3, <2>1, <2>2, <2>3, <2>4, <2>5, <2>6, <2>7 DEF Step
  <1>4. CASE (\E l \in Login : Start(l)) \/ (\E u \in User : SetUser(u)) \/ Tick
    BY <1>4 DEF Start, SetUser, Tick
  <1>5. CASE (\E u \in User, t \in Tool : SetGrant(u, t)) \/ (\E t \in Tool : SetTool(t))
    BY <1>5 DEF SetGrant, SetTool
  <1>6. CASE UNCHANGED vars
    BY <1>6 DEF vars
  <1> QED
    BY <1>3, <1>4, <1>5, <1>6 DEF Next

\* Who has consumed an auth request keeps it or is gone for good.
LEMMA HolderStays ==
  ASSUME Inv, [Next]_vars, NEW l \in Login, authRequest'[l] = authRequest[l]
  PROVE  Claimants(l)' = Claimants(l) \/ Claimants(l)' = {}
  <1>1. CASE UNCHANGED request
    BY <1>1 DEF Claimants
  <1>2. ASSUME NEW w \in Worker, Goes(w) PROVE Claimants(l)' = Claimants(l) \/ Claimants(l)' = {}
    <2>1. PICK r : /\ request' = [request EXCEPT ![w] = r]
                   /\ Claims(r) => \/ Claims(request[w]) /\ r.login = request[w].login
                                   \/ \E m \in Login : r.login = m /\ Claim(w, m)
      BY <1>2 DEF Goes
    <2>2. request'[w] = r /\ \A v \in Worker : v # w => request'[v] = request[v]
      BY <2>1 DEF Inv, Working
    <2>3. \A v \in Worker : v # w => (v \in Claimants(l)' <=> v \in Claimants(l))
      BY <2>2 DEF Claimants
    <2>4. ~Claim(w, l)
      <3>1. PICK row \in AuthRow : row = authRequest[l]
        BY DEF Inv, RowTypes
      <3>2. Claim(w, l) => authRequest'[l] = [row EXCEPT !.status = "consumed"] /\ row.status = "open"
        BY <3>1 DEF Claim, Inv, RowTypes
      <3>3. [row EXCEPT !.status = "consumed"].status = "consumed"
        BY DEF AuthRow
      <3> QED
        BY <3>1, <3>2, <3>3
    <2>5. w \in Claimants(l)' => w \in Claimants(l)
      BY <2>1, <2>2, <2>4 DEF Claimants, Claims
    <2>6. w \in Claimants(l) => Claimants(l) = {w}
      BY DEF Claimants, Inv, Working, Apart, Claims
    <2>7. Claimants(l)' \subseteq Worker /\ Claimants(l) \subseteq Worker
      BY DEF Claimants
    <2>8. CASE w \in Claimants(l) => w \in Claimants(l)'
      BY <2>3, <2>5, <2>7, <2>8
    <2>9. CASE w \in Claimants(l) /\ w \notin Claimants(l)'
      BY <2>3, <2>6, <2>7, <2>9
    <2> QED
      BY <2>8, <2>9
  <1> QED
    BY <1>1, <1>2, WorkersGo

\* A step of the ticket l, in terms of the auth request.
Advances(l) ==
  \/ Phase(l) = "none" /\ Phase(l)' = "open"
  \/ Phase(l) = "open" /\ Phase(l)' = "held" /\ \E w \in Worker : Claimants(l)' = {w}
  \/ Phase(l) = "held" /\ Claimants(l) # {} /\ Phase(l)' = "used"
  \/ /\ Phase(l)' = Phase(l)
     /\ authRequest'[l] = authRequest[l] /\ session'[l].user = session[l].user
     /\ Claimants(l)' = Claimants(l) \/ Claimants(l)' = {}

\* A step that leaves the auth request of l, whose session it became, and
\* whether there is a code.
Keeps(l) == /\ authRequest'[l] = authRequest[l] /\ session'[l].user = session[l].user
            /\ code'[l].status = "none" <=> code[l].status = "none"

LEMMA KeepsAdvances == ASSUME Inv, [Next]_vars, NEW l \in Login, Keeps(l) PROVE Advances(l)
  <1>1. Phase(l)' = Phase(l)
    <2>1. authRequest'[l].status = authRequest[l].status
      BY DEF Keeps
    <2>2. CASE code[l].status = "none"
      <3>1. code'[l].status = "none"
        BY <2>2 DEF Keeps
      <3> QED
        BY <2>1, <2>2, <3>1 DEF Phase
    <2>3. CASE code[l].status # "none"
      <3>1. code'[l].status # "none"
        BY <2>3 DEF Keeps
      <3> QED
        BY <2>3, <3>1 DEF Phase
    <2> QED
      BY <2>2, <2>3
  <1> QED
    BY <1>1, HolderStays DEF Keeps, Advances

LEMMA SessionsEndKeep ==
  ASSUME SessionsEnd, UNCHANGED <<authRequest, code>>, NEW l \in Login PROVE Keeps(l)
  BY DEF SessionsEnd, Keeps

\* The phases of a login that no callback has finished.
LEMMA PhaseOf ==
  ASSUME Inv, NEW l \in Login
  PROVE  /\ authRequest[l].status = "none" => Phase(l) = "none"
         /\ authRequest[l].status = "open" => Phase(l) = "open"
         /\ authRequest[l].status = "consumed" /\ code[l].status = "none" => Phase(l) = "held"
         /\ authRequest[l].status # "consumed" => code[l].status = "none"
  <1>1. authRequest[l].status # "consumed" => code[l].status = "none"
    BY DEF Inv, Rows, Stages
  <1> QED
    BY <1>1 DEF Phase

LEMMA StartAdvances ==
  ASSUME Inv, [Next]_vars, NEW m \in Login, Start(m), NEW l \in Login PROVE Advances(l)
  <1>1. UNCHANGED <<session, code>> /\ authRequest[m] = Unused
    BY DEF Start
  <1>2. PICK row : row = [status |-> "open", expires_at |-> clock + RequestTTL]
    OBVIOUS
  <1>3. authRequest' = [authRequest EXCEPT ![m] = row] /\ row.status = "open"
    BY <1>2 DEF Start
  <1>4. CASE l = m
    <2>1. authRequest[l].status = "none" /\ authRequest'[l].status = "open"
      BY <1>1, <1>3, <1>4 DEF Unused, Inv, RowTypes
    <2>2. Phase(l) = "none" /\ code'[l].status = "none"
      BY <1>1, <2>1, PhaseOf
    <2>3. Phase(l)' = "open"
      BY <2>1, <2>2 DEF Phase
    <2> QED
      BY <2>2, <2>3 DEF Advances
  <1>5. CASE l # m
    <2>1. Keeps(l)
      BY <1>1, <1>3, <1>5 DEF Keeps, Inv, RowTypes
    <2> QED
      BY <2>1, KeepsAdvances
  <1> QED
    BY <1>4, <1>5

LEMMA ClaimAdvances ==
  ASSUME Inv, [Next]_vars, NEW w \in Worker, NEW m \in Login, Claim(w, m), NEW l \in Login
  PROVE  Advances(l)
  <1>1. UNCHANGED <<session, code>> /\ authRequest[m].status = "open"
    BY DEF Claim
  <1>2. PICK old \in AuthRow : old = authRequest[m]
    BY DEF Inv, RowTypes
  <1>3. PICK row : row = [old EXCEPT !.status = "consumed"]
    OBVIOUS
  <1>4. row.status = "consumed" /\ authRequest' = [authRequest EXCEPT ![m] = row]
    BY <1>2, <1>3 DEF Claim, AuthRow
  <1>5. CASE l = m
    <2>1. authRequest'[l].status = "consumed"
      BY <1>4, <1>5 DEF Inv, RowTypes
    <2>2. Phase(l) = "open" /\ code'[l].status = "none"
      BY <1>1, <1>5, PhaseOf
    <2>3. Phase(l)' = "held"
      BY <2>1, <2>2 DEF Phase
    <2>4. PICK r : r = [kind |-> "callback", doing |-> "identifying", login |-> m]
      OBVIOUS
    <2>5. r.doing = "identifying" /\ r.login = l
      BY <1>5, <2>4
    <2>6. request'[w] = r /\ \A v \in Worker : v # w => request'[v] = request[v]
      BY <2>4 DEF Claim, Begin, Inv, Working
    <2>7. \A v \in Worker : ~(Claims(request[v]) /\ request[v].login = l)
      BY <1>1, <1>5 DEF Inv, Working, Fits
    <2>8. Claimants(l)' = {w}
      BY <2>5, <2>6, <2>7 DEF Claimants, Claims
    <2> QED
      BY <2>2, <2>3, <2>8 DEF Advances
  <1>6. CASE l # m
    <2>1. Keeps(l)
      BY <1>1, <1>4, <1>6 DEF Keeps, Inv, RowTypes
    <2> QED
      BY <2>1, KeepsAdvances
  <1> QED
    BY <1>5, <1>6

LEMMA IssueCodeAdvances ==
  ASSUME Inv, [Next]_vars, NEW w \in Worker, IssueCode(w), NEW l \in Login PROVE Advances(l)
  <1>1. request[w].doing = "issuing" /\ UNCHANGED authRequest
    BY DEF IssueCode
  <1>2. PICK m \in Login : m = request[w].login
    BY <1>1, RequestFacts DEF Inv, Working, Issuing
  <1>3. /\ \A k \in Login \ {m} : session'[k] = session[k] /\ code'[k] = code[k]
        /\ code'[m] = [status |-> "issued", expires_at |-> clock + CodeTTL]
    BY <1>2 DEF IssueCode, Inv, RowTypes
  <1>4. CASE l = m
    <2>1. authRequest[l].status = "consumed" /\ code[l].status = "none"
      BY <1>1, <1>2, <1>4 DEF Inv, Working, Fits, Claims
    <2>2. code'[l].status = "issued"
      BY <1>3, <1>4
    <2>3. Phase(l) = "held"
      BY <2>1, PhaseOf
    <2>4. Phase(l)' = "used"
      BY <2>2 DEF Phase
    <2>5. w \in Claimants(l)
      BY <1>1, <1>2, <1>4 DEF Claimants
    <2> QED
      BY <2>3, <2>4, <2>5 DEF Advances
  <1>5. CASE l # m
    <2>1. Keeps(l)
      BY <1>1, <1>3, <1>5 DEF Keeps
    <2> QED
      BY <2>1, KeepsAdvances
  <1> QED
    BY <1>4, <1>5

\* Whatever a tool asks for.
LEMMA ToolKeeps ==
  ASSUME Inv, NEW w \in Worker, ConsumeCode(w) \/ Rotate(w) \/ LogoutTool(w) \/ LogoutUser(w),
         NEW l \in Login
  PROVE  Keeps(l)
  <1>1. PICK old \in Work : old = request[w]
    BY DEF Inv, Working
  <1>2. code \in [Login -> CodeRow] /\ session \in [Login -> SessionRow \cup {NoSession}]
    BY DEF Inv, RowTypes
  <1>3. CASE UNCHANGED <<authRequest, session, code>>
    BY <1>3 DEF Keeps
  <1>4. CASE ConsumeCode(w)
    <2>1. PICK m \in Login : m = old.login
      BY <1>1, <1>4, RequestFacts DEF ConsumeCode, Exchange
    <2>2. UNCHANGED <<authRequest, session>>
      BY <1>4 DEF ConsumeCode
    <2>3. CASE UNCHANGED code
      BY <1>3, <2>2, <2>3
    <2>4. CASE code' = [code EXCEPT ![m].status = "consumed"] /\ code[m].status = "issued"
      <3>1. PICK row \in CodeRow : row = code[m]
        BY <1>2
      <3>2. code' = [code EXCEPT ![m] = [row EXCEPT !.status = "consumed"]]
        BY <2>4, <3>1
      <3>3. [row EXCEPT !.status = "consumed"].status = "consumed"
        BY DEF CodeRow
      <3>4. code'[m].status = "consumed" /\ \A k \in Login \ {m} : code'[k] = code[k]
        BY <1>2, <3>2, <3>3
      <3> QED
        BY <2>2, <2>4, <3>4 DEF Keeps
    <2> QED
      BY <1>1, <1>4, <2>1, <2>3, <2>4 DEF ConsumeCode
  <1>5. CASE Rotate(w)
    <2>1. PICK m \in Login, now \in Nat : m = old.login /\ now = old.now
      BY <1>1, <1>5, RequestFacts DEF Rotate, Refresh
    <2>2. UNCHANGED <<authRequest, code>>
      BY <1>5 DEF Rotate
    <2>3. CASE UNCHANGED session
      BY <1>3, <2>2, <2>3
    <2>4. CASE session' = [session EXCEPT ![m].expires_at = now + SessionTTL]
      <3>1. PICK row : row = session[m]
        OBVIOUS
      <3>2. row \in SessionRow \cup {NoSession}
        BY <1>2, <3>1
      <3>3. PICK new : new = [row EXCEPT !.expires_at = now + SessionTTL]
        OBVIOUS
      <3>4. new.user = row.user
        BY <3>2, <3>3 DEF SessionRow, NoSession
      <3>5. session'[m] = new /\ \A k \in Login \ {m} : session'[k] = session[k]
        BY <1>2, <2>4, <3>1, <3>3
      <3> QED
        BY <2>2, <3>1, <3>4, <3>5 DEF Keeps
    <2> QED
      BY <1>1, <1>5, <2>1, <2>3, <2>4 DEF Rotate
  <1>6. CASE LogoutTool(w) \/ LogoutUser(w)
    <2>1. PICK m \in Login : m = old.login
      BY <1>1, <1>6, RequestFacts DEF LogoutTool, LogoutUser, Logout
    <2>2. UNCHANGED <<authRequest, code>>
      BY <1>6 DEF LogoutTool, LogoutUser, RevokeToken, RevokeSession, rows
    <2>3. CASE UNCHANGED session
      BY <1>3, <2>2, <2>3
    <2>4. CASE session' = [session EXCEPT ![m] = Revoke(session[m])]
      <3>1. SessionsEnd
        BY <1>2, <2>4, RevokedRow DEF SessionsEnd
      <3> QED
        BY <2>2, <3>1, SessionsEndKeep
    <2> QED
      BY <1>1, <1>6, <2>1, <2>3, <2>4
         DEF LogoutTool, LogoutUser, RevokeToken, RevokeSession, rows
  <1> QED
    BY <1>4, <1>5, <1>6

LEMMA AllAdvance == ASSUME Inv, [Next]_vars, NEW l \in Login PROVE Advances(l)
  <1>1. CASE UNCHANGED <<authRequest, session, code>>
    <2>1. Keeps(l)
      BY <1>1 DEF Keeps
    <2> QED
      BY <2>1, KeepsAdvances
  <1>2. CASE SessionsEnd /\ UNCHANGED <<authRequest, code>>
    BY <1>2, SessionsEndKeep, KeepsAdvances
  <1>3. ASSUME NEW w \in Worker, Step(w) PROVE Advances(l)
    <2>1. CASE Identify(w) \/ Ask(w) \/ Fail(w)
      BY <1>1, <2>1 DEF Identify, Ask, Fail, rows
    <2>2. CASE FinishExchange(w) \/ ConsumeToken(w)
      BY <1>1, <2>2 DEF FinishExchange, ConsumeToken
    <2>3. CASE ConsumeCode(w) \/ Rotate(w) \/ LogoutTool(w) \/ LogoutUser(w)
      BY <2>3, ToolKeeps, KeepsAdvances
    <2> QED
      BY <1>3, <2>1, <2>2, <2>3, ClaimAdvances, IssueCodeAdvances DEF Step
  <1>4. CASE \E u \in User : SetUser(u)
    BY <1>2, <1>4, RevokedSessions DEF SetUser
  <1>5. CASE \E u \in User, t \in Tool : SetGrant(u, t)
    BY <1>2, <1>5, RevokedSessions DEF SetGrant
  <1>6. CASE (\E t \in Tool : SetTool(t)) \/ Tick \/ UNCHANGED vars
    BY <1>1, <1>6 DEF SetTool, Tick, rows, vars
  <1> QED
    BY <1>3, <1>4, <1>5, <1>6, StartAdvances DEF Next

LEMMA AdvanceIsAStep ==
  ASSUME NEW l \in Login, Advances(l)
  PROVE  \/ Ticket!Open(l) \/ Ticket!Take(l) \/ Ticket!Use(l) \/ Ticket!Die(l)
         \/ Ticket!Lose(l) \/ Ticket!Rest(l)
  <1>1. CASE Phase(l) = "none" /\ Phase(l)' = "open"
    BY <1>1 DEF Ticket!Open, Ticket!Becomes
  <1>2. CASE Phase(l) = "open" /\ Phase(l)' = "held" /\ \E w \in Worker : Claimants(l)' = {w}
    BY <1>2 DEF Ticket!Take, Ticket!Becomes
  <1>3. CASE Phase(l) = "held" /\ Claimants(l) # {} /\ Phase(l)' = "used"
    BY <1>3 DEF Ticket!Use, Ticket!Becomes
  <1>4. ASSUME Phase(l)' = Phase(l), authRequest'[l] = authRequest[l],
               session'[l].user = session[l].user,
               Claimants(l)' = Claimants(l) \/ Claimants(l)' = {}
        PROVE  Ticket!Lose(l) \/ Ticket!Rest(l)
    <2>1. CASE Phase(l) = "held" /\ Claimants(l)' = {}
      BY <1>4, <2>1 DEF Ticket!Lose, Ticket!Becomes
    <2>2. CASE Phase(l) # "held" \/ Claimants(l)' = Claimants(l)
      BY <1>4, <2>2 DEF Ticket!Rest, Ticket!Becomes
    <2> QED
      BY <1>4, <2>1, <2>2
  <1> QED
    BY <1>1, <1>2, <1>3, <1>4 DEF Advances

\* The auth requests implement OneTimeTicket: one callback at most consumes an
\* auth request, only that one creates a session and a code for it, and once; if
\* it dies nobody does; and whose session it became never changes, whatever
\* exchanges, refreshes, logouts and administrators do (src/app.ts:446-530, 849-1012).
THEOREM LoginsAreTickets == Spec => ImplementsTicket
  <1>1. Init => Ticket!Init
    <2> SUFFICES ASSUME Init PROVE Ticket!Init
      OBVIOUS
    <2>1. \A l \in Login : Phase(l) = "none"
      BY InitInv, PhaseOf DEF Init, Unused
    <2> QED
      BY <2>1 DEF Ticket!Init
  <1>2. ASSUME Inv, [Next]_vars PROVE Ticket!Next
    BY <1>2, AllAdvance, AdvanceIsAStep DEF Ticket!Next
  <1>3. ASSUME Inv, [Next]_vars PROVE [Ticket!Next]_(Ticket!vars)
    BY <1>2, <1>3
  <1> QED
    BY <1>1, <1>3, InvHolds, PTL DEF Spec, ImplementsTicket, Ticket!Spec
===============================================================================
