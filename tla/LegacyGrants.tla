---------------------------- MODULE LegacyGrants ----------------------------
(***************************************************************************)
(* Who may use one tool: its authorization_grants and access_requests, and *)
(* everybody who writes them.  Logins link pending grants and queue an     *)
(* access request when they are refused (src/app.ts:849-1052);             *)
(* administrators create and patch grants, import them in bulk and decide  *)
(* requests (src/app.ts:2493-3128).                                        *)
(*                                                                         *)
(* Concurrency.  PostgreSQL runs these transactions READ COMMITTED, and    *)
(* the reads of the admin handlers take no lock: an operation reads in one *)
(* step and writes, with what it read, in a later one.  Everything written *)
(* by a transaction appears at its COMMIT.                                 *)
(*                                                                         *)
(* Left out: validity windows (a grant is inside its own), the disabled    *)
(* users and tools and the sessions (LegacySessions' subject), roles and   *)
(* permissions (a PATCH that names only those writes the status it read).  *)
(***************************************************************************)
EXTENDS Administrators, Integers, FiniteSets

CONSTANTS Person,       \* verified identities: one Google subject, one email
          Operations,   \* what they do
          MaxGrants,    \* bound: rows of authorization_grants
          MaxRequests   \* bound: rows of access_requests

ASSUME OperationsAssumption ==
  Operations \subseteq {"create", "patch", "upsert", "revoke", "approved", "rejected", "closed"}
ASSUME BoundAssumption == MaxGrants \in Nat /\ MaxRequests \in Nat

VARIABLES bootstrap,    \* ADMIN_BOOTSTRAP_EMAILS as deployed, for the tool access-admin
          known,        \* persons with a row in users
          grants,       \* authorization_grants, in order of creation
          requests,     \* access_requests, in order of creation
          reviews,      \* audit_logs: admin.access_request.* events
          login         \* how far each person's login transaction is

grantVars == <<bootstrap, known, grants, requests, reviews, login, op>>

Grant == 1..MaxGrants
Request == 1..MaxRequests
GrantStatus == {"active", "pending_user_link", "revoked", "expired"}
Decision == {"approved", "rejected", "closed"}
None == 0

\* A NULL user_id names nobody.
ASSUME PersonAssumption == None \notin Person

NoGrant == [status |-> "none", person |-> None, linked |-> FALSE]
NoRequest == [status |-> "none", person |-> None, fresh |-> FALSE, grant_id |-> None]

GrantsInit == /\ bootstrap \in SUBSET Person
              /\ known = {}
              /\ grants = [g \in Grant |-> NoGrant]
              /\ requests = [r \in Request |-> NoRequest]
              /\ reviews = {}
              /\ login = [p \in Person |-> "out"]
              /\ op = [a \in Admin |-> NoOp]

-----------------------------------------------------------------------------
Rows(p) == {g \in Grant : grants[g].person = p}
Open(p) == {g \in Rows(p) : grants[g].status \in {"active", "pending_user_link"}}
Unused(table, row) == table[row].status = "none" /\ \A i \in 1..(row - 1) : table[i].status # "none"

\* Mutant of Linkable: every unlinked grant of the email, whatever its status.
AnyUnlinked(p) == {g \in Rows(p) : ~grants[g].linked}
Linkable(p) == {g \in Rows(p) : ~grants[g].linked /\ grants[g].status = "pending_user_link"}

\* findActiveGrant, which also accepts a grant by its email alone.
Usable(p) == {g \in Rows(p) : grants[g].status = "active"}

\* Mutant of RecentReviewed: an approval suppresses as well.
AnyReviewed(p) == {r \in Request : requests[r].person = p /\ requests[r].fresh}
\* findRecentReviewedAccessRequest.
RecentReviewed(p) == {r \in Request : /\ requests[r].person = p /\ requests[r].fresh
                                      /\ requests[r].status \in {"rejected", "closed"}}
Pending(p) == {r \in Request : requests[r].person = p /\ requests[r].status = "pending"}

\* createGrant: for a user, or for an email nobody has logged in with yet.
NewGrant(p, user) == [status |-> IF user THEN "active" ELSE "pending_user_link",
                      person |-> p, linked |-> user]
CreateGrant(g, p, user) == /\ Unused(grants, g)
                           /\ grants' = [grants EXCEPT ![g] = NewGrant(p, user)]

-----------------------------------------------------------------------------
(* Logins.  upsertUser locks the user's row, so a person's logins follow   *)
(* one another.  A login that finds a grant is one step.                   *)

Linked(p) == [g \in Grant |-> IF g \in Linkable(p)
                              THEN [grants[g] EXCEPT !.status = "active", !.linked = TRUE]
                              ELSE grants[g]]

LoginAllowed(p) ==
  /\ login[p] = "out"
  /\ Linkable(p) \cup Usable(p) # {}
  /\ known' = known \cup {p}
  /\ grants' = Linked(p)
  /\ UNCHANGED <<requests, reviews, login, op>>

\* ensureBootstrapAdminGrant.
LoginBootstrap(p) ==
  /\ login[p] = "out"
  /\ p \in bootstrap
  /\ Linkable(p) \cup Usable(p) = {}
  /\ \E g \in Grant : CreateGrant(g, p, TRUE)
  /\ known' = known \cup {p}
  /\ UNCHANGED <<requests, reviews, login, op>>

LoginDenied(p) ==
  /\ login[p] = "out"
  /\ p \notin bootstrap
  /\ Linkable(p) \cup Usable(p) = {}
  /\ login' = [login EXCEPT ![p] = "denied"]
  /\ UNCHANGED <<known, grants, requests, reviews, op>>

\* access_request.reopen_suppressed, and COMMIT.
Suppress(p) ==
  /\ login[p] = "denied"
  /\ RecentReviewed(p) # {}
  /\ known' = known \cup {p}
  /\ login' = [login EXCEPT ![p] = "out"]
  /\ UNCHANGED <<grants, requests, reviews, op>>

NotReviewed(p) ==
  /\ login[p] = "denied"
  /\ RecentReviewed(p) = {}
  /\ login' = [login EXCEPT ![p] = "queueing"]
  /\ UNCHANGED <<known, grants, requests, reviews, op>>

\* Mutant of Queue: a plain INSERT.
QueueInserts(p) ==
  /\ login[p] = "queueing"
  /\ \E r \in Request :
        /\ Unused(requests, r)
        /\ requests' = [requests EXCEPT
              ![r] = [status |-> "pending", person |-> p, fresh |-> FALSE, grant_id |-> None]]
  /\ known' = known \cup {p}
  /\ login' = [login EXCEPT ![p] = "out"]
  /\ UNCHANGED <<grants, reviews, op>>

\* upsertAccessRequest: repeat the pending request, or insert one.
Queue(p) ==
  /\ login[p] = "queueing"
  /\ \/ Pending(p) # {} /\ UNCHANGED requests
     \/ /\ Pending(p) = {}
        /\ \E r \in Request :
              /\ Unused(requests, r)
              /\ requests' = [requests EXCEPT
                    ![r] = [status |-> "pending", person |-> p, fresh |-> FALSE, grant_id |-> None]]
  /\ known' = known \cup {p}
  /\ login' = [login EXCEPT ![p] = "out"]
  /\ UNCHANGED <<grants, reviews, op>>

\* ACCESS_REQUEST_REOPEN_AFTER_DAYS have passed since the review of r.
WindowPasses(r) ==
  /\ requests[r].fresh
  /\ requests' = [requests EXCEPT ![r].fresh = FALSE]
  /\ UNCHANGED <<known, grants, reviews, login, op>>

-----------------------------------------------------------------------------
(* Administrators: read, then write.                                       *)

Read(a, kind, o) == /\ kind \in Operations
                    /\ Begins(a, o)
                    /\ UNCHANGED <<known, grants, requests, reviews, login>>

Done(a) == Ends(a) /\ UNCHANGED <<known, login>>

\* POST /v1/admin/grants looks the user up before its transaction.
CreateRead(a) ==
  \E p \in Person : Read(a, "create", [kind |-> "create", person |-> p, user |-> p \in known])

CreateWrite(a) ==
  /\ Doing(a, "create")
  /\ \E g \in Grant : CreateGrant(g, op[a].person, op[a].user)
  /\ UNCHANGED <<requests, reviews>>
  /\ Done(a)

\* PATCH /v1/admin/grants/:grant_id.  updateGrant reads the row and writes
\* every column back; `status' is the body's, or the one it read.
PatchRead(a) ==
  \E g \in Grant, status \in GrantStatus, named \in BOOLEAN :
    /\ grants[g].status # "none"
    /\ named \/ status = grants[g].status
    /\ Read(a, "patch", [kind |-> "patch", grant |-> g, status |-> status, named |-> named])

PatchWrite(a) ==
  /\ Doing(a, "patch")
  /\ grants' = [grants EXCEPT ![op[a].grant].status = op[a].status]
  /\ UNCHANGED <<requests, reviews>>
  /\ Done(a)

\* previewBulkGrantImport: the user a row of the file resolves to.
Preview(a) ==
  \E p \in Person, action \in {"upsert", "revoke"} :
    Read(a, action, [kind |-> action, person |-> p, user |-> p \in known])

\* findGrantForBulkTarget: without a user, only unlinked grants are looked at.
Targets(p, user) == IF user THEN Open(p) ELSE {g \in Open(p) : ~grants[g].linked}

\* commitBulkGrantImport, a row with action upsert: EXISTING_GRANT_KEPT ...
ImportSkip(a) ==
  /\ Doing(a, "upsert")
  /\ Targets(op[a].person, op[a].user) # {}
  /\ UNCHANGED <<grants, requests, reviews>>
  /\ Done(a)

\* ... or go on to insert the grant.
ImportCheck(a) ==
  /\ Doing(a, "upsert")
  /\ Targets(op[a].person, op[a].user) = {}
  /\ op' = [op EXCEPT ![a].kind = "insert"]
  /\ UNCHANGED <<known, grants, requests, reviews, login>>

ImportInsert(a) ==
  /\ Doing(a, "insert")
  /\ \E g \in Grant : CreateGrant(g, op[a].person, op[a].user)
  /\ UNCHANGED <<requests, reviews>>
  /\ Done(a)

\* A row with action revoke: findGrantsForBulkRevoke, then every target.
RevokeRead(a) ==
  /\ Doing(a, "revoke")
  /\ op' = [op EXCEPT ![a] = [kind |-> "revoking",
               grants |-> {g \in Rows(op[a].person) : grants[g].status # "revoked"}]]
  /\ UNCHANGED <<known, grants, requests, reviews, login>>

RevokeWrite(a) ==
  /\ Doing(a, "revoking")
  /\ grants' = [g \in Grant |-> IF g \in op[a].grants
                                THEN [grants[g] EXCEPT !.status = "revoked"]
                                ELSE grants[g]]
  /\ UNCHANGED <<requests, reviews>>
  /\ Done(a)

\* approve, reject and close read the request without a lock.
ReviewRead(a) ==
  \E r \in Request, decision \in Decision :
    /\ requests[r].status = "pending"
    /\ Read(a, decision, [kind |-> decision, request |-> r])

\* reviewAccessRequest's WHERE.  Mutant: by id alone.
Anything(r) == TRUE
StillPending(r) == requests[r].status = "pending"

\* createGrant comes first; when the guarded UPDATE finds no row the handler
\* throws and the grant is rolled back.
Review(a) ==
  LET r == op[a].request
      decision == op[a].kind
  IN  /\ decision \in Decision
      /\ StillPending(r)
      /\ \E g \in Grant \cup {None} :
            /\ IF decision = "approved"
               THEN g # None /\ CreateGrant(g, requests[r].person, TRUE)
               ELSE g = None /\ UNCHANGED grants
            /\ requests' = [requests EXCEPT ![r].status = decision, ![r].fresh = TRUE,
                                            ![r].grant_id = g]
            /\ reviews' = reviews \cup {[request |-> r, decision |-> decision, grant |-> g]}
      /\ Done(a)

ReviewRefused(a) ==
  /\ op[a].kind \in Decision
  /\ ~StillPending(op[a].request)
  /\ UNCHANGED <<grants, requests, reviews>>
  /\ Done(a)

Login(p) == \/ LoginAllowed(p) \/ LoginBootstrap(p) \/ LoginDenied(p)
            \/ Suppress(p) \/ NotReviewed(p) \/ Queue(p)

Administer(a) == \/ CreateRead(a) \/ CreateWrite(a) \/ PatchRead(a) \/ PatchWrite(a)
                 \/ Preview(a) \/ ImportSkip(a) \/ ImportCheck(a) \/ ImportInsert(a)
                 \/ RevokeRead(a) \/ RevokeWrite(a)
                 \/ ReviewRead(a) \/ Review(a) \/ ReviewRefused(a)

GrantsNext ==
  /\ \/ \E p \in Person : Login(p)
     \/ \E r \in Request : WindowPasses(r)
     \/ \E a \in Admin : Administer(a)
  /\ UNCHANGED bootstrap

GrantsSpec == GrantsInit /\ [][GrantsNext]_grantVars

-----------------------------------------------------------------------------
(* Properties.                                                             *)

\* Rows hold what their columns may; a linked grant belongs to a person who
\* has logged in, and a pending request is unique for its person.
GrantsTypeOK ==
  /\ bootstrap \subseteq Person
  /\ known \subseteq Person
  /\ \A g \in Grant : \/ grants[g] = NoGrant
                      \/ /\ grants[g].status \in GrantStatus
                         /\ grants[g].person \in Person
                         /\ grants[g].linked => grants[g].person \in known
  /\ \A r \in Request : \/ requests[r] = NoRequest
                        \/ /\ requests[r].status \in Decision \cup {"pending"}
                           /\ requests[r].person \in known
                           /\ requests[r].grant_id \in Grant \cup {None}
  /\ \A p \in Person : Cardinality(Pending(p)) <= 1
  /\ reviews \subseteq [request : Request, decision : Decision, grant : Grant \cup {None}]
  /\ login \in [Person -> {"out", "denied", "queueing"}]

\* However many administrators decide a request at the same time, one decision
\* stands: the audit log has exactly one, the row agrees with it, and a grant
\* exists for an approval and for nothing else (src/app.ts:2651-2763).
DecidedOnce ==
  \A r \in Request :
    LET about == {e \in reviews : e.request = r}
    IN  IF requests[r].status \in Decision
        THEN /\ about = {[request |-> r, decision |-> requests[r].status,
                          grant |-> requests[r].grant_id]}
             /\ requests[r].grant_id # None <=> requests[r].status = "approved"
             /\ requests[r].grant_id # None =>
                   grants[requests[r].grant_id].person = requests[r].person
        ELSE about = {}

\* A person who is refused is never forgotten: when the login ends a request
\* is pending, or an administrator has recently turned this person down; an
\* approval whose grant is gone does not count (docs/ACCESS_REQUESTS.md:28-31).
DeniedIsQueued ==
  [][\A p \in Person : login[p] # "out" /\ login'[p] = "out" =>
       \E r \in Request :
          /\ requests'[r].person = p
          /\ \/ requests'[r].status = "pending"
             \/ requests'[r].status \in {"rejected", "closed"} /\ requests'[r].fresh]_grantVars

\* A revoked or expired grant comes back only by a PATCH, one that asks for it
\* or one that had read the row before the revocation: no login, import or
\* approval revives it (src/repositories.ts:598-607).
RevivedByPatchOnly ==
  [][\A g \in Grant :
       grants[g].status \in {"revoked", "expired"}
         /\ grants'[g].status \in {"active", "pending_user_link"} =>
       \E a \in Admin : /\ op[a].kind = "patch" /\ op[a].grant = g
                        /\ op[a].named \/ op[a].status # grants[g].status]_grantVars

\* An import never adds a grant to an email that has one for the tool
\* (docs/API_PAYLOADS.md:264).
ImportKeepsFirstGrant ==
  [][\A a \in Admin : op[a].kind = "insert" /\ op'[a] = NoOp => Open(op[a].person) = {}]_grantVars
=============================================================================
