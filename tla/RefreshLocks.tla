---------------------------- MODULE RefreshLocks ----------------------------
(***************************************************************************)
(* The row locks behind OAuthTokens: what requests that present tokens of  *)
(* one refresh family do to each other while their transactions run.       *)
(*                                                                         *)
(* lockRefreshByHash takes the rows of the presented token, the family and *)
(* the session, in that order, and the request decides on what it then     *)
(* reads.  A revocation goes on to update every current token, and has to  *)
(* wait for one that another request has already locked: two requests can  *)
(* wait for each other.  PostgreSQL detects the cycle and rolls one of the *)
(* two back.  The rows every transaction only shares (client, resource,    *)
(* user, authorization) make nobody wait here.                             *)
(***************************************************************************)
EXTENDS Integers, FiniteSets

CONSTANTS Worker,       \* requests running at the same time
          Sent,         \* the kinds of request callers send
          MaxGen        \* bound: generations of the family

ASSUME SentAssumption == Sent \subseteq {"refresh", "revoke"}
ASSUME MaxGenAssumption == MaxGen \in Nat

VARIABLES token,        \* status of each generation
          family,       \* status of the family, and of its session
          request       \* what each worker runs and the rows it has locked

vars == <<token, family, request>>

Gen == 0..MaxGen
TokenRow(g) == <<"token", g>>
FamilyRow == <<"family", 0>>
SessionRow == <<"session", 0>>
Rows == {TokenRow(g) : g \in Gen} \cup {FamilyRow, SessionRow}

Idle == [kind |-> "idle", held |-> {}, doing |-> "nothing"]

\* The state an exchange leaves behind: one current token.
Init == /\ token = [g \in Gen |-> IF g = 0 THEN "current" ELSE "none"]
        /\ family = "active"
        /\ request = [w \in Worker |-> Idle]

-----------------------------------------------------------------------------
(* Who needs which row, and who waits for whom.                            *)

\* FOR UPDATE OF token, family, session: LockRows takes them as listed.  Mutant:
\* a revocation locks the session first.
SessionFirst(r) == IF r.kind = "revoke"
                   THEN <<SessionRow, FamilyRow, TokenRow(r.gen)>>
                   ELSE <<TokenRow(r.gen), FamilyRow, SessionRow>>
LockOrder(r) == <<TokenRow(r.gen), FamilyRow, SessionRow>>

\* Mutant of Affected: a revocation reaches the token it was presented only.
PresentedOnly(r) == {g \in Gen : g = r.gen /\ token[g] = "current"}
Affected(r) == {g \in Gen : token[g] = "current"}

\* The row a request must lock next, if any.
Wanted(r) ==
  CASE r.doing = "locking" ->
         LET missing == {i \in 1..3 : LockOrder(r)[i] \notin r.held}
         IN  {LockOrder(r)[i] : i \in {j \in missing : \A k \in missing : j <= k}}
    [] r.doing = "revoking" -> {TokenRow(g) : g \in Affected(r)} \ r.held
    [] OTHER -> {}

Waits(v, w) == v # w /\ Wanted(request[v]) \cap request[w].held # {}

\* The workers on a cycle: each waits for one, and is waited for by one, of them.
Deadlocked ==
  UNION {C \in SUBSET Worker :
           \A v \in C : (\E u \in C : Waits(v, u)) /\ (\E u \in C : Waits(u, v))}

-----------------------------------------------------------------------------
(* Transactions.                                                           *)

\* A refresh or a revocation presents a token that was issued.
Begin(w) ==
  /\ request[w] = Idle
  /\ \E kind \in Sent, g \in Gen :
        /\ token[g] # "none"
        /\ request' = [request EXCEPT ![w] =
              [kind |-> kind, gen |-> g, held |-> {}, doing |-> "locking"]]
  /\ UNCHANGED <<token, family>>

\* Mutant of Free: SELECT without FOR UPDATE.
Unlocked(w, row) == TRUE
Free(w, row) == \A v \in Worker \ {w} : row \notin request[v].held

Lock(w) ==
  \E row \in Wanted(request[w]) :
    /\ Free(w, row)
    /\ request' = [request EXCEPT ![w].held = @ \cup {row}]
    /\ UNCHANGED <<token, family>>

Do(w, what) == /\ request' = [request EXCEPT ![w].doing = what]
               /\ UNCHANGED <<token, family>>

Commit(w) == request' = [request EXCEPT ![w] = Idle]

\* Mutant of Rollback: the connection goes back to the pool without ROLLBACK.
NoRollback(w) == /\ request' = [request EXCEPT ![w].kind = "abandoned", ![w].doing = "nothing"]
                 /\ UNCHANGED <<token, family>>
Rollback(w) == /\ request' = [request EXCEPT ![w] = Idle]
               /\ UNCHANGED <<token, family>>

Usable(g) == token[g] = "current" /\ family = "active"

\* With its rows locked, a request reads what was last committed and decides.
Decide(w) ==
  LET r == request[w]
      rotates == Usable(r.gen) /\ r.gen < MaxGen
  IN  /\ r.doing = "locking" /\ Wanted(r) = {}
      /\ \/ r.kind = "revoke" /\ Do(w, "revoking")
         \/ r.kind = "refresh" /\ token[r.gen] = "consumed" /\ Do(w, "revoking")
         \/ r.kind = "refresh" /\ rotates /\ Do(w, "rotating")
         \/ r.kind = "refresh" /\ token[r.gen] # "consumed" /\ ~rotates /\ Rollback(w)

\* persistRefreshRotation.  Its UPDATEs repeat what Decide read as guards
\* (RaceErrorsNeverFire).
Rotate(w) ==
  LET r == request[w]
  IN  /\ r.doing = "rotating"
      /\ token' = [token EXCEPT ![r.gen] = "consumed", ![r.gen + 1] = "current"]
      /\ UNCHANGED family
      /\ Commit(w)

\* revokeFamilyAndSession, once every current token's row is locked.
Revoke(w) ==
  LET r == request[w]
  IN  /\ r.doing = "revoking" /\ Wanted(r) = {}
      /\ token' = [g \in Gen |-> IF g \in Affected(r) THEN "revoked" ELSE token[g]]
      /\ family' = "revoked"
      /\ Commit(w)

\* deadlock_timeout: one transaction of the cycle is cancelled; its request
\* answers temporarily_unavailable.
Victim(w) == w \in Deadlocked /\ Rollback(w)

Proceed(w) == Lock(w) \/ Decide(w) \/ Rotate(w) \/ Revoke(w)

Next == \E w \in Worker : Begin(w) \/ Proceed(w) \/ Victim(w)

\* Locks are granted in turn and a cycle is broken; nobody has to send requests.
Fairness == /\ \A w \in Worker : SF_vars(Proceed(w))
            /\ WF_vars(\E w \in Worker : Victim(w))
Spec == Init /\ [][Next]_vars /\ Fairness

-----------------------------------------------------------------------------
(* Properties.                                                             *)

TypeOK == /\ token \in [Gen -> {"none", "current", "consumed", "revoked"}]
          /\ family \in {"active", "revoked"}
          /\ \A w \in Worker : request[w] = Idle \/
               /\ request[w].kind \in Sent /\ request[w].gen \in Gen
               /\ request[w].held \subseteq Rows
               /\ request[w].doing \in {"locking", "rotating", "revoking"}

\* The family has one usable token while it is active and none afterwards: a
\* revocation that had to wait misses no token that was issued meanwhile.
UsableWhileActive ==
  Cardinality({g \in Gen : token[g] = "current"}) = IF family = "active" THEN 1 ELSE 0

\* Every request ends: whoever waits is served, or its cycle is broken
\* (token-repository.ts:468-469, 594-598).
RequestsEnd == \A w \in Worker : request[w] # Idle ~> request[w] = Idle

\* Requests with the same token never deadlock, a replay of the token that is
\* being rotated included: only requests with different generations can
\* (BACKLOG.md:106, CURRENT_STATE.md:95).
SameTokenNeverDeadlocks ==
  \A v \in Deadlocked : \E w \in Deadlocked : request[v].gen # request[w].gen

\* OAUTH_P0_CONTRACT.md:102: presenting an already-consumed member of the family
\* revokes the complete family.  So a request that found its token consumed
\* never ends leaving the family active.
ReplayAlwaysRevokes ==
  [][\A w \in Worker :
       /\ request[w].kind = "refresh" /\ request[w].doing = "revoking"
       /\ request'[w] = Idle
       => family' = "revoked"]_vars

\* The locks are enough: what a rotation decided on still holds when it writes, so
\* the guards of its UPDATEs never fail and no request ends in one of
\* oauth_refresh_consumption_race, oauth_refresh_family_race and
\* oauth_session_refresh_race (token-repository.ts:505-532).
RaceErrorsNeverFire ==
  \A w \in Worker : request[w].doing = "rotating" => Usable(request[w].gen)
=============================================================================
