---------------------------- MODULE LegacySessions ----------------------------
(***************************************************************************)
(* The legacy SSO flow: a login through an identity provider becomes a     *)
(* session and a one-time code, the tool exchanges the code, refreshes and *)
(* logs out, while administrators withdraw users, tools and grants         *)
(* (src/app.ts over src/repositories.ts).                                  *)
(*                                                                         *)
(* An auth request becomes at most one session and one code, so all three  *)
(* are indexed by the login.  A user has one grant per tool here: which of *)
(* several grants is found is LegacyGrants' subject.                       *)
(*                                                                         *)
(* Concurrency.  The flow reads with plain SELECTs at READ COMMITTED, so a *)
(* transaction is as many steps as it takes to let others write between    *)
(* what it read and what it writes; the row locks it holds meanwhile are   *)
(* derived from what it is `doing'.  An exchange reads the session last,   *)
(* and withdrawing a user or a grant ends sessions in the same             *)
(* transaction, so its reads count as one.                                 *)
(*                                                                         *)
(* now() is the start of the transaction.  Only a refresh may wait for a   *)
(* lock after that, so only a refresh carries the time it `began'.         *)
(***************************************************************************)
EXTENDS Integers, FiniteSets

CONSTANTS Login,        \* auth requests, and the sessions they become
          User, Tool,
          ToolOf,       \* the tool a login was started for
          Worker,       \* requests the service handles at the same time
          Sent,         \* the kinds of request tools send
          MaxTokens,    \* bound: refresh tokens ever issued
          MaxTime,      \* bound: where the clock stops
          RequestTTL,   \* life of an auth request        (600 s)
          CodeTTL,      \* ONE_TIME_CODE_TTL_SECONDS      (60 s)
          SessionTTL    \* REFRESH_TOKEN_TTL_SECONDS      (28 800 s)

ASSUME ToolAssumption == ToolOf \in [Login -> Tool]
ASSUME SentAssumption == Sent \subseteq {"exchange", "refresh", "logout_tool", "logout_user"}
ASSUME BoundAssumption == {MaxTokens, MaxTime} \subseteq Nat
ASSUME LifetimeAssumption == {RequestTTL, CodeTTL, SessionTTL} \subseteq Nat \ {0}

VARIABLES clock,
          user,         \* users.status, `suspended' being as good as disabled
          toolActive,   \* tools.status = 'active'
          grant,        \* authorization_grants, by user and tool
          authRequest,  \* auth_requests
          session,      \* sessions
          code,         \* one_time_codes
          token,        \* refresh_tokens, in the order of their issue
          request       \* what each worker handles

registry == <<user, toolActive, grant>>
rows == <<authRequest, session, code, token>>
vars == <<clock, registry, rows, request>>

Token == 1..MaxTokens
Null == -1

Idle == [kind |-> "idle", doing |-> "nothing"]
Unused == [status |-> "none", expires_at |-> Null]
NoSession == [status |-> "none", expires_at |-> Null, user |-> Null]
NoToken == [status |-> "none", expires_at |-> Null, login |-> Null]

Init == /\ clock = 0
        /\ user = [u \in User |-> "active"]
        /\ toolActive = [t \in Tool |-> TRUE]
        /\ grant = [p \in User \X Tool |-> "usable"]
        /\ authRequest = [l \in Login |-> Unused]
        /\ session = [l \in Login |-> NoSession]
        /\ code = [l \in Login |-> Unused]
        /\ token = [t \in Token |-> NoToken]
        /\ request = [w \in Worker |-> Idle]

-----------------------------------------------------------------------------
(* What the code reads off the rows, and who holds them.                   *)

\* Mutant of UserFree: upsertUser reads the row instead of writing it.
UserUnlocked(u) == TRUE
\* The user's row is locked from upsertUser to the end of the login.
UserFree(u) == \A v \in Worker : request[v].doing = "issuing" => request[v].user # u

\* Mutant of TokenFree: consumeRefreshToken selects first and updates later.
TokenUnlocked(t) == TRUE
TokenFree(t) == \A v \in Worker : request[v].doing = "rotating" => request[v].token # t

GrantOf(l) == grant[<<session[l].user, ToolOf[l]>>]
SessionLive(l) == session[l].status = "active" /\ session[l].expires_at > clock

\* What exchange, refresh and introspection ask of the rows behind a session.
Entitled(l, t) == /\ SessionLive(l)
                  /\ user[session[l].user] = "active"
                  /\ GrantOf(l) = "usable"
                  /\ ToolOf[l] = t

\* Mutant of Consumable: without the condition on the status.
AnyUnexpired(t, began) == token[t].expires_at > began
Consumable(t, began) == token[t].status = "active" /\ token[t].expires_at > began

\* Mutant of Extendable: the guard of extendSession, trusting the earlier read.
ExtendAlways(l, t, began) == TRUE
Extendable(l, t, began) == /\ session[l].status = "active"
                           /\ session[l].expires_at > began
                           /\ ToolOf[l] = t

-----------------------------------------------------------------------------
(* Login.                                                                  *)

Begin(w, r) == request[w] = Idle /\ request' = [request EXCEPT ![w] = r]
End(w) == request' = [request EXCEPT ![w] = Idle]

Start(l) ==
  /\ authRequest[l] = Unused
  /\ toolActive[ToolOf[l]]
  /\ authRequest' = [authRequest EXCEPT ![l] = [status |-> "open",
                                                expires_at |-> clock + RequestTTL]]
  /\ UNCHANGED <<clock, registry, session, code, token, request>>

\* The callback commits consumeAuthRequest before it asks the provider.
Claim(w, l) ==
  /\ authRequest[l].status = "open"
  /\ authRequest[l].expires_at > clock
  /\ authRequest' = [authRequest EXCEPT ![l].status = "consumed"]
  /\ Begin(w, [kind |-> "callback", doing |-> "identifying", login |-> l])
  /\ UNCHANGED <<clock, registry, session, code, token>>

\* completeLegacyIdentity up to findActiveGrant: the row of the user that the
\* provider named is locked; the grant is only read.
Identify(w) ==
  LET l == request[w].login
  IN  /\ request[w].doing = "identifying"
      /\ \E u \in User :
           /\ UserFree(u)
           /\ LET granted == /\ toolActive[ToolOf[l]]
                             /\ user[u] = "active"
                             /\ grant[<<u, ToolOf[l]>>] = "usable"
              IN \/ /\ granted
                    /\ request' = [request EXCEPT ![w] =
                         [kind |-> "callback", doing |-> "issuing", login |-> l, user |-> u]]
                 \/ ~granted /\ End(w)
      /\ UNCHANGED <<clock, registry, rows>>

\* createSession, createOneTimeCode, COMMIT.
IssueCode(w) ==
  LET l == request[w].login
  IN  /\ request[w].doing = "issuing"
      /\ session' = [session EXCEPT ![l] = [status |-> "active", user |-> request[w].user,
                                            expires_at |-> clock + SessionTTL]]
      /\ code' = [code EXCEPT ![l] = [status |-> "issued", expires_at |-> clock + CodeTTL]]
      /\ End(w)
      /\ UNCHANGED <<clock, registry, authRequest, token>>

-----------------------------------------------------------------------------
(* Requests of a tool that has authenticated itself.                       *)

Ask(w) ==
  \E kind \in Sent, t \in Tool :
    /\ toolActive[t] \/ kind = "logout_user"
    /\ \/ /\ kind = "exchange"
          /\ \E l \in Login :
               /\ code[l].status # "none"
               /\ Begin(w, [kind |-> kind, doing |-> "asked", login |-> l, tool |-> t])
       \/ /\ kind # "exchange"
          /\ \E k \in Token :
               /\ token[k].status # "none"
               /\ kind = "logout_user" => t = ToolOf[token[k].login]
               /\ Begin(w, [kind |-> kind, doing |-> "asked", login |-> token[k].login,
                            tool |-> t, token |-> k,
                            now |-> IF kind = "refresh" THEN clock ELSE Null,
                            began |-> Null])
    /\ UNCHANGED <<clock, registry, rows>>

\* The first transaction of exchangeOneTimeCode: the code is consumed whatever
\* the snapshot read with it says.
ConsumeCode(w) ==
  LET l == request[w].login
      consumable == /\ code[l].status = "issued"
                    /\ code[l].expires_at > clock
                    /\ ToolOf[l] = request[w].tool
      allowed == /\ session[l].status = "active"
                 /\ user[session[l].user] = "active"
                 /\ GrantOf(l) = "usable"
                 /\ toolActive[ToolOf[l]]
  IN  /\ request[w].kind = "exchange" /\ request[w].doing = "asked"
      /\ \/ /\ consumable
            /\ code' = [code EXCEPT ![l].status = "consumed"]
            /\ \/ allowed /\ request' = [request EXCEPT ![w].doing = "exchanging"]
               \/ ~allowed /\ End(w)
         \/ ~consumable /\ End(w) /\ UNCHANGED code
      /\ UNCHANGED <<clock, registry, authRequest, session, token>>

NextToken == Cardinality({t \in Token : token[t].status # "none"}) + 1
NewToken(l, expires_at) == [status |-> "active", expires_at |-> expires_at, login |-> l]

\* After that transaction: the tokens are issued on the snapshot.
FinishExchange(w) ==
  LET l == request[w].login
  IN  /\ request[w].doing = "exchanging"
      /\ NextToken \in Token
      /\ token' = [token EXCEPT ![NextToken] = NewToken(l, clock + SessionTTL)]
      /\ End(w)
      /\ UNCHANGED <<clock, registry, authRequest, session, code>>

\* refreshAccessToken: BEGIN, and consumeRefreshToken, which may wait for the
\* token's row; the session is then judged by the clock.  A refusal is a value,
\* not an exception: the consumption is committed.
ConsumeToken(w) ==
  LET r == request[w]
      valid == Entitled(r.login, r.tool)
  IN  /\ r.kind = "refresh" /\ r.doing = "asked"
      /\ TokenFree(r.token)
      /\ \E began \in r.now..clock :
           \/ /\ Consumable(r.token, began) /\ valid
              /\ request' = [request EXCEPT ![w].doing = "rotating", ![w].began = began]
              /\ UNCHANGED token
           \/ /\ Consumable(r.token, began) /\ ~valid
              /\ token' = [token EXCEPT ![r.token].status = "revoked"]
              /\ End(w)
           \/ ~Consumable(r.token, began) /\ End(w) /\ UNCHANGED token
      /\ UNCHANGED <<clock, registry, authRequest, session, code>>

\* extendSession, createRefreshToken, COMMIT; or extendSession found nothing.
Rotate(w) ==
  LET r == request[w]
      until == r.now + SessionTTL
  IN  /\ r.doing = "rotating"
      /\ \/ /\ Extendable(r.login, r.tool, r.began)
            /\ NextToken \in Token
            /\ session' = [session EXCEPT ![r.login].expires_at = until]
            /\ token' = [token EXCEPT ![r.token].status = "revoked",
                                      ![NextToken] = NewToken(r.login, until)]
         \/ /\ ~Extendable(r.login, r.tool, r.began)
            /\ token' = [token EXCEPT ![r.token].status = "revoked"]
            /\ UNCHANGED session
      /\ End(w)
      /\ UNCHANGED <<clock, registry, authRequest, code>>

\* Mutant of Revoke: the status of a user is written to a session.
RevokeMislabelled(row) == IF row.status = "active" THEN [row EXCEPT !.status = "disabled"] ELSE row
Revoke(row) == IF row.status = "active" THEN [row EXCEPT !.status = "revoked"] ELSE row

RevokeToken(w) ==
  /\ TokenFree(request[w].token)
  /\ token' = [token EXCEPT ![request[w].token] = Revoke(@)]
  /\ UNCHANGED <<clock, registry, authRequest, session, code>>
RevokeSession(w) ==
  /\ session' = [session EXCEPT ![request[w].login] = Revoke(@)]
  /\ UNCHANGED <<clock, registry, authRequest, code, token>>

\* A tool logs out with a refresh token of its own: token first, then session.
LogoutTool(w) ==
  /\ request[w].kind = "logout_tool"
  /\ \/ /\ request[w].doing = "asked"
        /\ ToolOf[request[w].login] = request[w].tool
        /\ RevokeToken(w)
        /\ request' = [request EXCEPT ![w].doing = "finishing"]
     \/ /\ request[w].doing = "asked"
        /\ ToolOf[request[w].login] # request[w].tool
        /\ End(w) /\ UNCHANGED <<clock, registry, rows>>
     \/ request[w].doing = "finishing" /\ RevokeSession(w) /\ End(w)

\* A user logs out with an access token: session first, then the refresh token.
LogoutUser(w) ==
  /\ request[w].kind = "logout_user"
  /\ \/ /\ request[w].doing = "asked"
        /\ user[session[request[w].login].user] = "active"
        /\ RevokeSession(w)
        /\ request' = [request EXCEPT ![w].doing = "finishing"]
     \/ /\ request[w].doing = "asked"
        /\ user[session[request[w].login].user] # "active"
        /\ End(w) /\ UNCHANGED <<clock, registry, rows>>
     \/ request[w].doing = "finishing" /\ RevokeToken(w) /\ End(w)

\* The provider refuses, the process or the connection dies: what was not
\* committed is gone, what was committed stays.
Fail(w) == /\ request[w] # Idle
           /\ End(w)
           /\ UNCHANGED <<clock, registry, rows>>

-----------------------------------------------------------------------------
(* Administrators and the clock.                                           *)

RevokeSessions(gone) ==
  session' = [l \in Login |-> IF l \in gone THEN Revoke(session[l]) ELSE session[l]]

\* PATCH users: updateUserStatus locks the row, then the sessions are revoked.
SetUser(u) ==
  /\ UserFree(u)
  /\ \E status \in {"active", "disabled"} :
       /\ user' = [user EXCEPT ![u] = status]
       /\ RevokeSessions({l \in Login : status # "active" /\ session[l].user = u})
  /\ UNCHANGED <<clock, toolActive, grant, authRequest, code, token, request>>

\* PATCH grants: only the status `revoked' reaches the sessions.
SetGrant(u, t) ==
  /\ \E status \in {"usable", "expired", "revoked"} :
       /\ grant' = [grant EXCEPT ![<<u, t>>] = status]
       /\ RevokeSessions({l \in Login : /\ status = "revoked"
                                          /\ session[l].user = u /\ ToolOf[l] = t})
  /\ UNCHANGED <<clock, user, toolActive, authRequest, code, token, request>>

SetTool(t) ==
  /\ toolActive' = [toolActive EXCEPT ![t] = ~@]
  /\ UNCHANGED <<clock, user, grant, rows, request>>

Tick == /\ clock < MaxTime
        /\ clock' = clock + 1
        /\ UNCHANGED <<registry, rows, request>>

Step(w) == \/ \E l \in Login : Claim(w, l)
           \/ Identify(w) \/ IssueCode(w)
           \/ Ask(w)
           \/ ConsumeCode(w) \/ FinishExchange(w)
           \/ ConsumeToken(w) \/ Rotate(w)
           \/ LogoutTool(w) \/ LogoutUser(w)
           \/ Fail(w)

Next == \/ \E l \in Login : Start(l)
        \/ \E w \in Worker : Step(w)
        \/ \E u \in User : SetUser(u)
        \/ \E u \in User, t \in Tool : SetGrant(u, t)
        \/ \E t \in Tool : SetTool(t)
        \/ Tick

Spec == Init /\ [][Next]_vars

-----------------------------------------------------------------------------
(* Properties.                                                             *)

Expiry == Nat \cup {Null}

\* Rows and requests hold what the code may put there.
TypeOK ==
  /\ clock \in Nat
  /\ user \in [User -> {"active", "disabled"}]
  /\ toolActive \in [Tool -> BOOLEAN]
  /\ grant \in [User \X Tool -> {"usable", "expired", "revoked"}]
  /\ authRequest \in [Login -> [status : {"none", "open", "consumed"}, expires_at : Expiry]]
  /\ session \in [Login -> [status : {"none", "active", "revoked"}, expires_at : Expiry,
                            user : User \cup {Null}]]
  /\ code \in [Login -> [status : {"none", "issued", "consumed"}, expires_at : Expiry]]
  /\ token \in [Token -> [status : {"none", "active", "revoked"}, expires_at : Expiry,
                          login : Login \cup {Null}]]
  /\ \A w \in Worker : request[w].doing \in {"nothing", "identifying", "issuing", "asked",
                                             "exchanging", "rotating", "finishing"}

\* A session has one usable refresh token at most, however exchanges, refreshes
\* and their failures interleave (API_PAYLOADS.md:100-102).
OneUsableToken ==
  \A l \in Login : Cardinality({t \in Token : token[t].login = l
                                              /\ token[t].status = "active"}) <= 1

\* A user who is not active has no active session, the one a login is creating
\* at that moment included (docs/API.md:128, WORKFLOW.md:66-67): the row upsertUser
\* locks makes the status change wait, or the login see it.
DisabledUserHasNoSession ==
  \A l \in Login : session[l].status = "active" => user[session[l].user] = "active"

\* Tokens a refresh issues are still due at the moment it commits, though user
\* and grant were read before: the user is active and the grant not revoked.
RefreshIsEntitled ==
  [][\A w \in Worker : request[w].doing = "rotating" /\ NextToken' # NextToken
                       /\ request'[w] = Idle =>
       LET l == request[w].login
       IN  user[session[l].user] = "active" /\ GrantOf(l) # "revoked"]_vars

\* A session only moves forward: a refresh never shortens it, and nothing
\* touches it once it is revoked.
SessionMovesForward ==
  [][\A l \in Login : /\ session[l].status = "active" =>
                           session'[l].expires_at >= session[l].expires_at
                      /\ session[l].status = "revoked" => session'[l] = session[l]]_vars

\* WORKFLOW.md:66-67: "Admin disables user or revokes grant. Access Layer revokes
\* active sessions for target user/tool."  So a revoked grant has no active session.
RevokedGrantHasNoSession ==
  \A l \in Login : session[l].status = "active" => GrantOf(l) # "revoked"

\* The abstract phase of an auth request; the code it leads to shows that it was used.
Phase(l) == IF code[l].status # "none" THEN "used"
            ELSE CASE authRequest[l].status = "none" -> "none"
                   [] authRequest[l].status = "open" -> "open"
                   [] authRequest[l].status = "consumed" -> "held"

\* The callbacks that have consumed l and are not done with it.
Claimants(l) == {w \in Worker : request[w].doing \in {"identifying", "issuing"}
                               /\ request[w].login = l}

\* Auth requests are one-time tickets.  Of all the callbacks one consumes the request,
\* only that one can create its session and its code, and once; if it dies nobody does;
\* and whose session it has become never changes (src/app.ts:446-530, 849-1012).
Ticket == INSTANCE OneTimeTicket WITH
  Ticket <- Login,
  Holder <- Worker,
  phase <- [l \in Login |-> Phase(l)],
  holder <- [l \in Login |-> IF Phase(l) = "held" THEN Claimants(l) ELSE {}],
  record <- [l \in Login |-> <<authRequest[l], session[l].user>>]

ImplementsTicket == Ticket!Spec
=============================================================================
