# Access Layer: specifications, checks and proofs

The Access Layer is a central sign-on and authorization service: a Fastify
process over PostgreSQL (`src/`). It serves two generations of clients at once:

* the **legacy flow** (`/v1/auth/*`): a login at Google or Microsoft becomes a
  session and a one-time code, which a tool exchanges for tokens;
* **OAuth vNext** (`/oauth/*`): an authorization-code issuer with PKCE, rotating
  refresh tokens, revocation, introspection and its own signing keys.

Nothing in the process keeps state between two requests: all state is in the
database, and every transaction runs at READ COMMITTED. What makes the code hard
is therefore the order in which concurrent requests read, lock, write and commit,
and the time each of them captured before it did so. That is what the
specifications here are about.

## 1. Inventory

| Component | State | Operations | Talks to |
|---|---|---|---|
| OAuth token service (`oauth/token-service.ts`, `token-repository.ts`) | codes, sessions, families, refresh tokens, revocations | exchange, refresh, revoke, introspect | signing keys, entitlements, registrations |
| Signing keys and JWKS (`oauth/signing.ts`, `jwks.ts`, `validation.ts`, `admin-*`) | `oauth_signing_keys`, an advisory lock; the JWKS that verifiers cache | generate, publish, activate, retire, disable, sign, verify | token service, verifiers |
| OAuth authorization flow (`oauth/authorization.ts`, `flow-repository.ts`) | `oauth_authorization_transactions`, `oauth_authorization_codes` | authorize, callback, sweep | Google, users, native grants, legacy grants |
| Native entitlements (`oauth/native-entitlement.ts`, `admin-repository.ts`) | `oauth_native_human_grants` | create (user or email), link, expire, revoke, evaluate | authorization flow, token service, legacy logins |
| OAuth registration (`oauth/admin-*.ts`, `repository.ts`) | scopes, resources, mappings, bindings, clients, redirect URIs, allowances | create, update, bulk, preview and commit, replace | tools and their permissions; read by all the OAuth flows |
| Credentials (`oauth/admin-repository.ts`, `token-repository.ts`) | `oauth_client_credentials`, `oauth_resource_credentials` | rotate, retire, authenticate | owners' status; every token request |
| Legacy SSO flow (`app.ts`, `repositories.ts`, `token-service.ts`) | `auth_requests`, `sessions`, `one_time_codes`, `refresh_tokens` | start, callback, exchange, refresh, introspect, logout, me | identity providers, grants, tools |
| Legacy grants and access requests (`app.ts`, `repositories.ts`) | `authorization_grants`, `access_requests`, their audit events | link, create, patch, import, revoke, approve, reject, close | logins, sessions |
| Tools, tool clients, users (`app.ts`) | `tools`, `tool_clients`, `users` | register, patch, disable, delete | sessions |
| Backup (`repositories.ts`) | 26 sections, of which the OAuth ones form lineages | export, merge import, replacing import | everything it reads and overwrites |
| Audit log, configuration, validation, hashing, identity providers, admin UI, CLI | | | |

Hard behaviours, by kind (`PROJECT.json` lists each at its line):

* *Races on one row*: two refreshes of a token, two callbacks with one state, two
  administrators with one request, two activations of keys.
* *Times captured before locks*: every OAuth handler calls `new Date()` first and
  may then wait; what it writes can be older than what it finds, while CHECK
  constraints compare timestamps.
* *Unlocked reads*: the legacy flow and its admin handlers read, decide and then
  write what they read.
* *Several tables that must agree*, of which other code reads only one.
* *Lock cycles*, and PostgreSQL's way out of them.
* *Lost answers* and the retries they cause, which rotation takes for replays.
* *Caches outside the service*: verifiers hold the JWKS for five minutes.
* *Crashes* between a claim and its completion.
* *Decisions taken on what was read*: a preview the page sends back, a reference
  checked before it is written, a bulk request over a matrix of people and scopes.
* *Copies*: an export reads table by table, an import writes over what is there.

What makes each component correct:

* Token service: a refresh family is one line of generations with one usable
  end; the four tables that record its death agree; revocation is final; a
  revoked token never introspects as active; only the owner revokes.
* Signing keys: one key in use; every token stays verifiable until it has
  expired for every verifier.
* Authorization flow: a transaction ends once and at the hands of one callback,
  the browser hears how, and a
  native code rests on a grant that stands at the COMMIT.
* Legacy sessions: one usable refresh token; none for a disabled user; a session
  only moves forward.
* Legacy grants: one decision per request; nobody refused is forgotten; nothing
  but a PATCH revives a grant.
* Registration: a commit overwrites what its administrator was shown and nothing
  else; what it refers to still stands when it commits.
* Credentials: one working secret per owner; nobody is answered for an old one.
* Native grants: a bulk grant, once reported, covers all of its matrix.
* Backup: what is exported while tokens rotate can be imported.

## 2. Modules

Each module comments its own abstraction at the top; `PROJECT.json` ("map")
names the lines each definition translates.

| Module | Models | One step is |
|---|---|---|
| `RotatingCredential` | what a family promises: issued once, rotated once per generation, scopes only narrow, dead stays dead | an abstract operation |
| `OAuthTokens` | exchange, refresh, revoke, introspect with clock, clients and entitlement; implements `RotatingCredential` | begin (capture the time), one transaction, deliver or lose the answer |
| `OAuthTokens_proof` | the theorems about it | |
| `RefreshLocks` | the same transactions of one family, row lock by row lock | taking a lock, a write with COMMIT, a deadlock victim |
| `RefreshLocks_proof` | the theorems about it | |
| `SigningKeys` | the life of keys, signing, verification, the cached JWKS | a transaction; `activate` lock by lock |
| `SigningKeys_proof` | the theorems about it | |
| `OneTimeTicket` | what a login promises: opened, taken by one handler at most, used by it once or dead, and then never rewritten | an abstract operation on each of any number of tickets |
| `AuthorizationFlow` | `/oauth/authorize` to the code, native grants, other logins, administrators; implements `OneTimeTicket` | a statement or a group of statements between which others can write |
| `AuthorizationFlow_proof` | the theorems about it | |
| `LegacySessions` | login, code, tokens, logout of the legacy flow, under withdrawal of user, tool and grant; implements `OneTimeTicket` | likewise |
| `LegacySessions_proof` | the theorems about it | |
| `Administrators` | what the administrative modules share: one operation at a time per administrator, with the rows it has locked | |
| `LegacyGrants` | grants and access requests of one tool | likewise |
| `Credentials` | the secrets of one client or resource: rotation, retirement, and callers that authenticate with them | taking a lock, or a write with COMMIT |
| `Registration` | scopes, resources, mappings, bindings, one client with its lists, the tools behind mappings | a transaction; check and commit apart where the check reads rows of others |
| `Registration_proof` | the theorems about it | |
| `NativeGrants` | native grants over people and scopes, single and bulk, with sign-ins that link pending ones | ask (capture the time), check under locks, commit |
| `OAuthAdmin_proof` | the theorems about `Credentials` and `NativeGrants` | |
| `Backup` | export by section, validation, merge and replacing import, beside refreshes and rotations | one section, or one transaction |
| `Administration` | composes the five: a topic is chosen once, and its administrators and users go on | a step of the topic |
| `Administration_proof` | the theorems about `LegacyGrants` and `Backup`, and about the composition | |
| `MC...` | small sets for the constants, symmetry | |

**How they fit together.** `OAuthTokens` takes an authorization code for granted
(`IssueCode`) and what its user may use for a variable (`entitled`);
`AuthorizationFlow` shows where codes come from and what an entitlement is.
It and `LegacySessions` have the same beginning, a login whose callback may come
back more than once; `OneTimeTicket` is what both promise of it.
`OAuthTokens` treats a transaction as one step. `RefreshLocks` removes that
assumption for the transactions that write a family: it shows that what a
rotation reads under its locks still holds when it writes (`RaceErrorsNeverFire`)
and that a revocation that had to wait misses no token (`UsableWhileActive`).
`SigningKeys` stands beside the token service, which only needs a signature or a
failure from it. `LegacySessions` has one grant per user and tool;
`LegacyGrants` shows how several come about and which is found. `AuthorizationFlow`
and `OAuthTokens` take the registry, a client's secret and the native grants as
they find them; `Registration`, `Credentials` and `NativeGrants` show what they
can find. `Administration` puts the administrative modules side by side. They
share the administrators and the locks of `Administrators`, but no row: an
operation on one topic neither reads nor locks what another writes, except where
its own module has the writer's steps as well (`ChangeOffer` of `NativeGrants`
stands for `Registration`). An interleaving of two topics therefore reaches no
state of either that one topic alone does not, and a behaviour stays on one.

**Correspondence.** Variables carry the names of the tables (`family` is
`oauth_refresh_token_families`, `token` is `oauth_refresh_tokens`, and so on) and
their fields the names of the columns; a row that does not exist has status
`"none"`, NULL is `Null`. Operators carry the names of the repository functions
or of the handlers. A request is a record in `request` (or `op`): which handler it
runs, what it has read or captured so far, and how far it is. Row locks that a
transaction holds between two steps are derived from how far it is, rather than
kept in a variable of their own, except in `RefreshLocks` and `SigningKeys`, where
the locks themselves are the subject.

Abstracted everywhere: hashes and secrets (a token is its row), formats and
parsing, headers, rate limits, audit events that nothing reads, and failures of
the database connection, which the steps `Crash`, `Lose` or `Refuse` cover by
leaving a request unfinished or refused.

## 3. Runs

| Run | Instance | Shows |
|---|---|---|
| `oauth_tokens_race` | one family, two concurrent requests, 3 generations, two scopes, clock 0..1 | lineage, the CHECKs on sessions, families and refresh tokens, agreement of the tables, replay, finality, refinement of `RotatingCredential` |
| `oauth_tokens_time` | one family, one request at a time, two clients, clock 0..4, every lifetime crossed | types; a revoked token is never active at any later time; only the owner revokes (`OnlyOwners` proves it for concurrent requests) |
| `refresh_locks` | three concurrent requests, 3 generations | every request ends, deadlocks only between different generations, a revocation misses nothing |
| `refresh_locks_replay` | two refreshes | finding 1 |
| `signing_keys_race` | two keys, two administrators, one signer | one key in use; every operation ends |
| `signing_keys_grace` | two keys, two signers, clock 0..4 with grace 3 | tokens stay verifiable; the lead outlives caches; lifecycles valid |
| `authorization_flow` | one transaction, two native grants, two requests, clock 0..2 with a lifetime of 1 | refinement of `OneTimeTicket`, truthful answers, ordered times, entitled native codes |
| `legacy_sessions` | one login, two callbacks or requests at once, its tool and another, three refresh tokens, clock 0..2 with sessions of 2 | one usable token, disabled users, entitled refresh, monotone sessions |
| `legacy_sessions_revoke` | two workers | finding 2 |
| `administration` | two administrators; one person, two grants and two requests; two operators, two callers, four secrets; one scope, a native and a bridged resource, two tools; a matrix of one person and scope with two rows, clock 0..1; two ids per lineage, two files | one decision, nobody forgotten, revival only by PATCH; one working secret, current answers; commits see their previews, links stand; bulk grants cover; exports validate |
| `legacy_grants_import` | one administrator, imports only | finding 3 |
| `backup_merge` | one administrator, three tokens | finding 4 |

**Bounds.** Rows of different families, logins or persons share no row that is
written, so one of each, with two or three requests on it, has every race between
two requests; lock cycles were also given three. Lifetimes are scaled so that
each deadline can be crossed within the clock's bound, keeping the relations the
code relies on (publication lead >= cache age; grace >= token life + cache age +
skew), which are named assumptions of `SigningKeys`. Three generations are the
fewest in which a consumed token, the current one and the one being issued
differ. `MaxTime`, `MaxGen`, `MaxTokens`, `MaxGrants` and `MaxRequests` are bounds of
the model only. In `administration` the topics' rows run out (grants, secrets,
ids), so it does not check deadlock, nor do the two runs of single topics; closing
a request takes the path of rejecting it and is left out. The registry is split
into two agendas, clients over native resources and bridged resources over tools,
which meet in scopes and mappings: with one row of each kind, and two
administrators, an agenda has every pair of transactions that share a row. Two
secrets take part in a rotation, and four let two of them follow each other
while both callers wait. Symmetry is over administrators only, whom nothing
tells apart.

**Fairness.** Safety runs assume none. `SigningKeys` assumes that an operation
that can go on infinitely often does (strong fairness per administrator), and
`RefreshLocks` the same per request and that a cycle is broken: PostgreSQL queues
those who wait for a lock, so the waiter gets it although others take it in
between, and its deadlock detector runs after `deadlock_timeout`. Nobody is
assumed to send a request, to retry, or to advance the clock.

### Findings

1. `ReplayAlwaysRevokes`: a request that detects a replay may be the victim of a
   deadlock, and then the family stays active, against
   `src/docs/OAUTH_P0_CONTRACT.md:102`.
2. `RevokedGrantHasNoSession`: a grant revoked between `findActiveGrant` and the
   COMMIT of a login leaves an active session, against `src/docs/WORKFLOW.md:66-67`.
3. `ImportKeepsFirstGrant`: a bulk import previews before the first login of the
   person and then does not see the grant that the login linked, against
   `src/docs/API_PAYLOADS.md:264`.
4. `LineageSurvivesImport`: a merge import of an older file puts a refresh family
   back to an earlier generation beside the later tokens it has meanwhile; it can
   neither be refreshed nor exported again in a form an import accepts, against
   `src/docs/LEGACY_COMPATIBILITY.md:104`.

`PROJECT.json` quotes the lines and tells each story.

Met while modelling, and not counted as findings:

* A JWKS fetched after a key's `activates_at` and before its activation does not
  show the key (`isPublishableAt`, `jwks.ts`), and may be cached for 300 s: a
  verifier that does not fetch again at an unknown `kid` refuses the first tokens
  signed with it. `LeadOutlivesCaches` is about the caches filled before.
* A merge import of a file from another history can leave two active secrets of
  one client: `OneActiveCredential` is about rotations and retirements.
* `src/docs/LEGACY_COMPATIBILITY.md:104` counts 24 sections of a backup; the code
  has 26.
* `updateGrant` (`repositories.ts:817`) and `updateTool` (`repositories.ts:391`) write
  every column with values read before, so that of two administrators one may undo
  what the other did. `RevivedByPatchOnly` exempts a PATCH: it says that nothing else
  revives a grant.
* A user who is disabled after a login has linked its grants, and before the code of a
  bridged resource is stored, still gets the code: the status that `upsertUser`
  returned is not read again (`authorization.ts:377`). The exchange looks at the user, and
  a native resource at the issue of the code as well.
* A legacy refresh that waited for its token's row judges token and session by `now()`,
  the start of its transaction, and may extend a session that expired while it waited,
  to a time it computed before.
* `POST .../rotate-secret` with `revoke_existing` (`app.ts:2205`) locks nothing: two
  at once leave two active clients of the tool.

## 4. Proofs

`OAuthTokens_proof` proves, for any numbers of authorizations, clients, scopes,
concurrent requests and generations and for any lifetimes that satisfy the named
assumptions of `OAuthTokens`:

* `TypeCorrect`, `LineageHolds`, `ChecksHold`, `TablesAlwaysAgree`: the invariants
  the runs check;
* `RevocationFinality`, `OnlyOwners`: the action properties;
* `Implementation`: every behaviour of `OAuthTokens` is one of `RotatingCredential`.

The argument. None of the invariants is inductive alone: a rotation stamps the
consumed token and its successor with the time its request captured, so that
`consumed_at >= issued_at` needs to know that the token existed when the time
was captured. `Inv` therefore adds, to the type and to lineage, CHECKs and
agreement of each family (`FamilyInv`),

* `Ordered`: the current generation is the youngest and none is from the future;
* `Reasoned`: a family carries a reason exactly when it is revoked;
* `Requests`: a request's time is not in the future, and the token it presents was
  issued no later than that time; whoever holds a token holds one that exists.

Each kind of write has its lemma (`ExchangePreserves`, `RotatePreserves`,
`RevocationPreserves`) with a step per conjunct; `RevocationTimeValue` shows that
the time a revocation writes, the maximum of its own and the issue times it finds,
is never before the current token's. That a session's last activity is never before
it was issued (`ActivityInOrder`) needs no invariant of its own: the session shows the
times of the current generation, and that is the youngest. `NextInv` puts them together, one step per
action. The refinement uses `Fresh` (a family that does not exist is at generation 0
with no scopes) and maps exchange to `Issue`, rotation to `Rotate`, each way of
revoking to `Kill` and everything else to a stutter.

`OAuthAdmin_proof` proves of `Credentials`, for any numbers of administrators, callers and secrets:

* `CredentialTypes`, the types;
* `OneSecretWorks`: `OneActiveCredential`;
* `AnswersToCurrentSecrets`: `AnswersAreCurrent`.

The argument. Neither property says who excludes whom, and both rest on it. The
strengthening `Exclusion` says that at most one rotation has the owner
(`OneRotation`), that no caller shares the owner meanwhile (`OwnerExclusive`), that
the secrets a rotation has taken are exactly those that work (`TakenIsActive`), and
that a caller's secret works, is not being retired, and has an owner that may call
(`SecretHeld`, `OwnerHeld`). The step that needs all of it is `RotateCommit`: what it
retires is all that works, so its successor is alone, and no caller can be using
what it retires, because the secrets were free when it took them. Callers have one
lemma, `CallerMoves`, over the step and the secret they move to.

Of `NativeGrants` it proves, for any numbers of administrators, people and scopes and a
clock of any length, `NativeTypes` (the types, with the unique indexes) and
`BulkGrantsCover` (`BulkCovers`). A bulk grant is checked in one step and committed in
another, and its property is about the second. The invariant says what the check leaves
true until then (`BulkFits`): for every pair of the matrix a row will be written, or one
is there that has the right status, has not elapsed, is locked and will not expire
(`Provided`). Such a row stays because no other administrator holds what is locked FOR
UPDATE (`NativeCompatible`), no sign-in does (`SignInsApart`), and so every step of another
`Spares` it; the lemmas `OpStays` and `OpMoves` turn this into the invariant once, for
steps that leave the requests alone and for steps of a request. `WrittenRows` says what a
commit makes of a pair's sequence of rows, and `OnlyOne` that by the unique index the row
that was promised is the only one of its status. The two bounds are assumed to be
numbers (`NativeBounds`).

`SigningKeys_proof` proves, for any numbers of keys, administrators and signers and a
clock of any length,

* `TypesHold` (`TypeOK`) and `OneKey` (`OneKeyInUse`). An activation reads the keys in
  use and withdraws them two steps later; what keeps its reading true is the
  strengthening: the advisory lock admits one activation past it (`Alone`), and that
  one holds its own key, still published, and at the end exactly the keys in use
  (`Prepared`). `RowWritten` does publication, retirement and disabling at once (none
  brings a key into use, none touches a row that is held), and `ActivationAdvances` the
  three phases that lead to `ActivateCommit`.
* `RowsAreValid` (`LifecyclesAreValid`), `TokensAreVerifiable` (`TokensStayVerifiable`) and
  `LeadCoversCaches` (`LeadOutlivesCaches`), from a second invariant, `Lives`: the rows
  are valid at the time the clock shows (`Lived`), the times that operations and signers
  captured are past, and an activation that has its key's row has found that its time
  has come (`TimesFit`). It is there that the named assumptions on the grace and the
  lead are used.

`RefreshLocks_proof` proves, for any numbers of concurrent requests and generations,
`TypesHold` (`TypeOK`), `GuardsNeverFail` (`RaceErrorsNeverFire`), `OneUsableToken`
(`UsableWhileActive`) and `SameTokenIsSafe` (`SameTokenNeverDeadlocks`). The invariant says
who may hold what: a row has one holder, whoever holds a row holds that of its token,
and whoever writes holds the token, its family and the session. What a rotation has read
under these locks nobody else can change, and the generations lie in one line. Requests
with the same token cannot be a cycle of their own, because only one of them can hold
anything.

`AuthorizationFlow_proof` proves, for any numbers of transactions, grants and workers
and any lifetime, `TypesHold` (`TypeOK`), `AnswersAreTrue` (`ToldTheTruth`),
`TimesAreInOrder` (`TimesInOrder`), `TransactionsEndOnce` (`EndsOnce`),
`CodesAreEntitled` (`NativeCodeIsEntitled`) and `TransactionsAreTickets`
(`ImplementsTicket`). A row is sound at a time (its times in order,
a code exactly when it is completed, nothing told but what it says); a request brings
times between those of the row and the clock (`Fits`); and while one request has
evaluated a grant, no other links one (`Apart`), so that what it found stands until the
code is stored.

Every behaviour of the transactions is one of `OneTimeTicket`. A transaction is open
while it is pending, held while it is claimed, used once it has a code and dead when it
was denied or swept; its holders are the callbacks past its claim (`Claimants`), and its
record is its row with its code. The rows alone do not give the refinement: that the
holder is one needs a second invariant (`Alone`), which the claim keeps because a pending
row has no `claimed_at` while whoever is past a claim works on a row that has one.
`HolderStays` says that a step which does not write the row leaves the holder or removes
it; a lemma for each action that writes (`CreateAdvances`, `ClaimAdvances`, `DenyAdvances`,
`IssueAdvances`, `SweepAdvances`) says which abstract step it is. `EndsOnce`, which no run
lists, adds that a transaction has a code exactly when it is completed.

`LegacySessions_proof` proves, for any numbers of logins, users, tools, workers and
tokens and any lifetime, `TypesHold` (`TypeOK`), `OneUsable` (`OneUsableToken`),
`DisabledHasNone` (`DisabledUserHasNoSession`), `SessionsGoForward`
(`SessionMovesForward`), `RefreshesAreEntitled` (`RefreshIsEntitled`) and `LoginsAreTickets`
(`ImplementsTicket`). What the service
remembers of a request between two transactions stays good because a login is claimed
once, a code consumed once, and a refresh token is locked while it is rotated. That a
user who is being disabled is left no session rests on the row of the user that a login
keeps locked until it commits. Auth requests implement `OneTimeTicket` too, with the
callbacks that have consumed them as holders and the request and the user of its
session as the record: a request of this flow never dies but is left open or held, and
`Keeps` says that exchanges, refreshes, logouts and withdrawals, which do write the
session and the code, change nothing of whose login it was. TLC finds no
violation of this refinement either on the instance of `LegacySessions.cfg`, but
no run lists it.

`Administration_proof` has three parts. Of `LegacyGrants` it proves, for any numbers of persons, administrators, grants and
requests, `GrantTypes`, `OneDecision` (`DecidedOnce`), `OnlyPatchRevives`
(`RevivedByPatchOnly`) and `RefusalsAreQueued` (`DeniedIsQueued`). The invariant adds that
rows are never deleted, so that the grant an approval made is never taken for a free row,
that a person has one pending request at most, that an undecided request has no decision
on record, and that what an administrator has read still exists when it is written. It
assumes that `None`, which stands for NULL, is no person (`PersonAssumption`).

`Registration_proof` proves, for any numbers of administrators, scopes, resources, tools
and permissions and whatever work goes on at once, `TablesHold`, `CommitsAreOfTheSeen`
(`CommitSeesPreview`) and `WhatIsWrittenStands` (`LinksStand`). An operation that was
checked waits to commit; the invariant says that what its check found still stands
(`CheckStands`) and that no two operations hold locks that conflict (`Compatible`). Each step
of another administrator spares what the locked rows say (`SparesRegistry`): this is where the lock sets
of the handlers are needed, one by one, and `StandsOn` is the one lemma that uses it.
Mappings are kept apart from a binding that goes on by the row of the resource, which the
one takes FOR SHARE and the other FOR UPDATE. It assumes that a resource has one
entitlement mode, and that NULL is neither a permission nor a tool (`RegistryAssumption`).

Of `Backup` `Administration_proof` proves, for any numbers of administrators, ids and
files, `BackupTypes` and `ExportsPass` (`ExportsValidate`). An export reads its sections
one by one, so its file is valid because of what the tables were when it began; the
invariant says that the tables are importable at every moment (`Importable`), as are all
files and the snapshot of every export under way, and that an export has read exactly a
part of its snapshot (`Exporting`). Importable covers the unique indexes, the parents, and
for tokens the validator itself, that the generations are those from 0 to the current one;
it is this that each refresh must keep (`RotatedLineage`). That a chain of parents does not
come back to where it began is said in the module without recursion: no rows have all
their parents among themselves. It follows because ids are given in order (`Ids`) and a
parent is older than its child, by the least-number principle (`Least`), which is an
instance of the library's theorem on minimal elements. A merge laid over rows that its
file does not have ends the claim, and only that. The assumption is that the two bounds
are numbers (`BackupBound`).

Of the composition it proves `AdministrationTypes` (`AdministrationTypeOK`),
`AdministrationIsSafe` (the four invariants of the run) and `AdministrationSteps` (its five
action properties). They rest on the theorems about the modules; the lemma `EachTopicAlone`
only takes those over, because a topic is chosen once and the disjuncts of
`AdministrationNext` exclude each other. What is not the topic keeps its rows; of what
administrators are doing, which all topics share, one must know that no operation of
another topic passes for a bulk grant (`NobodyElseGrants`).

What stays with TLC:

* Liveness (`OperationsEnd`, `RequestsEnd`): the prover does not handle ENABLED or fairness.
* The four findings, which are about what the code does not keep.

## 5. Not modelled, and why

* Tools beyond their existence and permissions, and the clients and secrets of
  tools: each is one statement over its own row (the two races this has are
  among the observations above).
* Of a backup, the sections whose rows depend on no other row of their table, and
  the parsing of files: a bulk copy.
* Lists, pages and previews that only read: an administrator may have seen
  anything the tables ever held, which is how `PreviewList` has it.
* Identity providers, admin UI, metadata, CLI: HTTP and pages around what is modelled.
* Configuration, validation, permissions, hashing, encryption: pure functions whose
  outcome is a choice of the action that calls them.
* `GET /v1/me` and the cookies of the admin UI: reads, and a browser.
* Clock skew between instances and the database: one clock serves all of them,
  although each request may use an arbitrarily old reading of it.

## 6. Plan

1. *Model further.* The clients and secrets of tools beside `exchangeOneTimeCode`; the
   cookies of the admin UI over two tabs; `NativeGrants` composed with
   `AuthorizationFlow`, so that a partly entitled request is refused.
2. *Abstract specifications.* A session with one usable credential that
   `LegacySessions` implements, as `OAuthTokens` implements `RotatingCredential`.
3. *Prove.* That refinement, step by step, once it is stated; that `RefreshLocks`
   implements the transactions `OAuthTokens` takes as one step.
