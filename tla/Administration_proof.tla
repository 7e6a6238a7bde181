------------------------ MODULE Administration_proof ------------------------
(***************************************************************************)
(* Proofs about the legacy grants, about backups, and about Administration,*)
(* which composes them with the topics of OAuthAdmin_proof and             *)
(* Registration_proof; for any number of administrators, persons and rows. *)
(*                                                                         *)
(* Grants: that a request is decided once needs more than the guarded      *)
(* UPDATE.  The grant an approval made must not be taken for a free row    *)
(* later (grants are never deleted), an undecided request has no decision  *)
(* on record, and what an administrator has read still exists when it is   *)
(* written (ReadFits).                                                     *)
(*                                                                         *)
(* Backups: the tables pass the validators at every moment (Importable), so*)
(* that a file read from one snapshot passes them too.  What the recursion *)
(* of the validators looks for, a chain of parents that comes back to where*)
(* it began, is excluded by ids given in order: a parent is older than its *)
(* child, and of any rows the oldest has no parent among them.             *)
(*                                                                         *)
(* Administration: while one topic is on, the composed system is that      *)
(* topic's; what is not the topic stands still.                            *)
(***************************************************************************)
EXTENDS Administration, OAuthAdmin_proof, Registration_proof, FiniteSetTheorems,
        WellFoundedInduction, TLAPS

-----------------------------------------------------------------------------
(* Legacy grants.                                                          *)

LegacyRow == [status : GrantStatus, person : Person, linked : BOOLEAN]
RequestRow == [status : Decision \cup {"pending"}, person : Person, fresh : BOOLEAN,
               grant_id : Grant \cup {None}]
Event == [request : Request, decision : Decision, grant : Grant \cup {None}]

ForPerson == [kind : {"create", "upsert", "insert", "revoke"}, person : Person, user : BOOLEAN]
ForGrant == [kind : {"patch"}, grant : Grant, status : GrantStatus, named : BOOLEAN]
ForGrants == [kind : {"revoking"}, grants : SUBSET Grant]
ForRequest == [kind : Decision, request : Request]
Operation == ForPerson \cup ForGrant \cup ForGrants \cup ForRequest

Types == /\ bootstrap \subseteq Person
         /\ known \subseteq Person
         /\ grants \in [Grant -> LegacyRow \cup {NoGrant}]
         /\ requests \in [Request -> RequestRow \cup {NoRequest}]
         /\ reviews \subseteq Event
         /\ login \in [Person -> {"out", "denied", "queueing"}]
         /\ op \in [Admin -> Operation \cup {NoOp}]

\* Users outlive what refers to them.
UsersKnown == /\ \A g \in Grant : grants[g].linked => grants[g].person \in known
              /\ \A r \in Request : requests[r] # NoRequest => requests[r].person \in known

\* What an administrator has read and will write.
ReadFits(o) == /\ o.kind \in {"create", "upsert", "insert"} => (o.user => o.person \in known)
               /\ o.kind = "patch" => grants[o.grant].status # "none"
               /\ o.kind = "revoking" => \A g \in o.grants : grants[g].status # "none"

AllFit == \A a \in Admin : ReadFits(op[a])

\* One pending request for a person.
PendingOnce ==
  \A r, s \in Request :
    /\ requests[r].status = "pending" /\ requests[s].status = "pending"
    /\ requests[r].person = requests[s].person
    => r = s

About(r) == {e \in reviews : e.request = r}
Decided(r) ==
  IF requests[r].status \in Decision
  THEN /\ About(r) = {[request |-> r, decision |-> requests[r].status,
                       grant |-> requests[r].grant_id]}
       /\ requests[r].grant_id # None <=> requests[r].status = "approved"
       /\ requests[r].grant_id # None =>
            /\ grants[requests[r].grant_id].status # "none"
            /\ grants[requests[r].grant_id].person = requests[r].person
  ELSE About(r) = {}

AllDecided == \A r \in Request : Decided(r)

LegacyInv == Types /\ UsersKnown /\ AllFit /\ PendingOnce /\ AllDecided

-----------------------------------------------------------------------------
(* What a step may do to the grants.                                       *)

\* Rows stay, and keep their person.
RowsKept == \A g \in Grant : grants[g].status # "none" =>
          grants'[g].status # "none" /\ grants'[g].person = grants[g].person

GrantsMove == /\ grants' \in [Grant -> LegacyRow \cup {NoGrant}]
              /\ RowsKept
              /\ \A g \in Grant : grants'[g].linked => grants'[g].person \in known'

LEMMA RowFacts ==
  ASSUME LegacyInv
  PROVE  /\ \A g \in Grant : /\ grants[g].status # "none" => grants[g] \in LegacyRow
                             /\ grants[g].status = "none" => grants[g] = NoGrant
                             /\ grants[g].person \in Person => grants[g] \in LegacyRow
         /\ \A r \in Request : /\ requests[r].status # "none" => requests[r] \in RequestRow
                               /\ requests[r].status = "none" => requests[r] = NoRequest
                               /\ requests[r] \in RequestRow => requests[r].status # "none"
  <1>1. ASSUME NEW g \in Grant
        PROVE  /\ grants[g].status # "none" => grants[g] \in LegacyRow
               /\ grants[g].status = "none" => grants[g] = NoGrant
               /\ grants[g].person \in Person => grants[g] \in LegacyRow
    <2>1. grants[g] \in LegacyRow \cup {NoGrant}
      BY DEF LegacyInv, Types
    <2>2. CASE grants[g] \in LegacyRow
      BY <2>2 DEF LegacyRow, GrantStatus
    <2>3. CASE grants[g] = NoGrant
      BY <2>3, PersonAssumption DEF NoGrant
    <2> QED
      BY <2>1, <2>2, <2>3
  <1>2. ASSUME NEW r \in Request
        PROVE  /\ requests[r].status # "none" => requests[r] \in RequestRow
               /\ requests[r].status = "none" => requests[r] = NoRequest
               /\ requests[r] \in RequestRow => requests[r].status # "none"
    <2>1. requests[r] \in RequestRow \cup {NoRequest}
      BY DEF LegacyInv, Types
    <2>2. CASE requests[r] \in RequestRow
      BY <2>2 DEF RequestRow, Decision
    <2>3. CASE requests[r] = NoRequest
      BY <2>3 DEF NoRequest, RequestRow, Decision
    <2> QED
      BY <2>1, <2>2, <2>3
  <1> QED
    BY <1>1, <1>2

\* What an operation carries, by its kind.
LEMMA OperationType ==
  ASSUME LegacyInv, NEW a \in Admin
  PROVE  /\ op[a].kind \in {"create", "upsert", "insert", "revoke"} => op[a] \in ForPerson
         /\ op[a].kind = "patch" => op[a] \in ForGrant
         /\ op[a].kind = "revoking" => op[a] \in ForGrants
         /\ op[a].kind \in Decision => op[a] \in ForRequest
  <1>1. op[a] \in Operation \cup {NoOp}
    BY DEF LegacyInv, Types
  <1>2. CASE op[a] \in ForPerson
    BY <1>2 DEF ForPerson, Decision
  <1>3. CASE op[a] \in ForGrant
    BY <1>3 DEF ForGrant, Decision
  <1>4. CASE op[a] \in ForGrants
    BY <1>4 DEF ForGrants, Decision
  <1>5. CASE op[a] \in ForRequest
    BY <1>5 DEF ForRequest, Decision
  <1>6. CASE op[a] = NoOp
    BY <1>6 DEF NoOp, Decision
  <1> QED
    BY <1>1, <1>2, <1>3, <1>4, <1>5, <1>6 DEF Operation

\* createGrant fills a free row.
LEMMA CreateMoves ==
  ASSUME LegacyInv, NEW g \in Grant, NEW p \in Person, NEW user \in BOOLEAN,
         CreateGrant(g, p, user), known \subseteq known', user => p \in known'
  PROVE  /\ GrantsMove
         /\ grants[g].status = "none"
         /\ grants'[g].status # "none" /\ grants'[g].person = p
         /\ \A h \in Grant \ {g} : grants'[h] = grants[h]
  <1> DEFINE row == NewGrant(p, user)
  <1>1. row \in LegacyRow /\ row.status # "none" /\ row.person = p /\ row.linked = user
    BY DEF NewGrant, LegacyRow, GrantStatus
  <1>2. grants[g].status = "none" /\ grants' = [grants EXCEPT ![g] = row]
    BY DEF CreateGrant, Unused
  <1> HIDE DEF row
  <1>3. grants \in [Grant -> LegacyRow \cup {NoGrant}]
    BY DEF LegacyInv, Types
  <1>4. grants'[g] = row /\ \A h \in Grant \ {g} : grants'[h] = grants[h]
    BY <1>2, <1>3
  <1>5. grants' \in [Grant -> LegacyRow \cup {NoGrant}]
    BY <1>1, <1>2, <1>3
  <1>6. RowsKept
    BY <1>2, <1>4 DEF RowsKept
  <1>7. \A h \in Grant : grants'[h].linked => grants'[h].person \in known'
    <2> SUFFICES ASSUME NEW h \in Grant, grants'[h].linked PROVE grants'[h].person \in known'
      OBVIOUS
    <2>1. CASE h = g
      BY <1>1, <1>4, <2>1
    <2>2. CASE h # g
      BY <1>4, <2>2 DEF LegacyInv, UsersKnown
    <2> QED
      BY <2>1, <2>2
  <1> QED
    BY <1>1, <1>2, <1>4, <1>5, <1>6, <1>7 DEF GrantsMove

\* A step that changes some rows and no row's person, and links only the known.
LEMMA StatusMoves ==
  ASSUME LegacyInv, known \subseteq known', NEW S \in SUBSET Grant,
         grants' = [g \in Grant |-> grants'[g]],
         \A g \in Grant \ S : grants'[g] = grants[g],
         \A g \in S : /\ grants[g].status # "none"
                      /\ grants'[g] \in LegacyRow
                      /\ grants'[g].person = grants[g].person
                      /\ grants'[g].linked => grants[g].linked \/ grants[g].person \in known'
  PROVE  GrantsMove
  <1>1. ASSUME NEW g \in Grant
        PROVE  /\ grants'[g] \in LegacyRow \cup {NoGrant}
               /\ grants[g].status # "none" =>
                    grants'[g].status # "none" /\ grants'[g].person = grants[g].person
               /\ grants'[g].linked => grants'[g].person \in known'
    <2>1. grants[g] \in LegacyRow \cup {NoGrant} /\ (grants[g].linked => grants[g].person \in known)
      BY DEF LegacyInv, Types, UsersKnown
    <2>2. CASE g \notin S
      <3>1. grants'[g] = grants[g]
        BY <2>2
      <3> QED
        BY <2>1, <3>1
    <2>3. CASE g \in S
      <3>1. grants'[g].status # "none"
        BY <2>3 DEF LegacyRow, GrantStatus
      <3> QED
        BY <2>1, <2>3, <3>1
    <2> QED
      BY <2>2, <2>3
  <1>2. grants' \in [Grant -> LegacyRow \cup {NoGrant}]
    BY <1>1
  <1> QED
    BY <1>1, <1>2 DEF GrantsMove, RowsKept

\* A row with another status, linked or not.
LEMMA RowChanges ==
  ASSUME NEW row \in LegacyRow, NEW status \in GrantStatus
  PROVE  /\ [row EXCEPT !.status = status] \in LegacyRow
         /\ [row EXCEPT !.status = status].person = row.person
         /\ [row EXCEPT !.status = status].linked = row.linked
         /\ [row EXCEPT !.status = status, !.linked = TRUE] \in LegacyRow
         /\ [row EXCEPT !.status = status, !.linked = TRUE].person = row.person
  BY DEF LegacyRow

-----------------------------------------------------------------------------
(* Steps.                                                                  *)

\* What an operation has read stays good while rows stay and users outlive it.
LEMMA FitsKept ==
  ASSUME LegacyInv, RowsKept, known \subseteq known', NEW a \in Admin, op'[a] = op[a]
  PROVE  ReadFits(op[a])'
  <1>1. ReadFits(op[a])
    BY DEF LegacyInv, AllFit
  <1>2. op[a].kind \in {"create", "upsert", "insert"} => (op[a].user => op[a].person \in known')
    BY <1>1 DEF ReadFits
  <1>3. ASSUME op[a].kind = "patch" PROVE grants'[op[a].grant].status # "none"
    <2>1. op[a].grant \in Grant
      BY <1>3, OperationType DEF ForGrant
    <2> QED
      BY <1>1, <1>3, <2>1 DEF ReadFits, RowsKept
  <1>4. ASSUME op[a].kind = "revoking"
        PROVE  \A g \in op[a].grants : grants'[g].status # "none"
    <2>1. op[a].grants \subseteq Grant
      BY <1>4, OperationType DEF ForGrants
    <2> QED
      BY <1>1, <1>4, <2>1 DEF ReadFits, RowsKept
  <1> QED
    BY <1>2, <1>3, <1>4 DEF ReadFits

\* Every administrator goes on with what it was doing, or takes up something
\* that fits.
OperationMoves == /\ op' \in [Admin -> Operation \cup {NoOp}]
                  /\ \A a \in Admin : op'[a] = op[a] \/ ReadFits(op[a])'

LEMMA OperationStays == ASSUME LegacyInv, op' = op PROVE OperationMoves
  BY DEF LegacyInv, Types, OperationMoves

LEMMA OpEnds == ASSUME LegacyInv, NEW a \in Admin, Ends(a) PROVE OperationMoves
  <1>1. op' = [op EXCEPT ![a] = NoOp] /\ op \in [Admin -> Operation \cup {NoOp}]
    BY DEF Ends, LegacyInv, Types
  <1>2. op'[a] = NoOp /\ \A b \in Admin \ {a} : op'[b] = op[b]
    BY <1>1
  <1>3. ReadFits(op[a])'
    BY <1>2 DEF ReadFits, NoOp
  <1> QED
    BY <1>1, <1>2, <1>3 DEF OperationMoves

LEMMA OpGoes ==
  ASSUME LegacyInv, NEW a \in Admin, NEW o \in Operation, op' = [op EXCEPT ![a] = o], ReadFits(o)'
  PROVE  OperationMoves
  <1>1. op \in [Admin -> Operation \cup {NoOp}]
    BY DEF LegacyInv, Types
  <1>2. op'[a] = o /\ \A b \in Admin \ {a} : op'[b] = op[b]
    BY <1>1
  <1>3. ReadFits(op[a])'
    BY <1>2 DEF ReadFits
  <1> QED
    BY <1>1, <1>2, <1>3 DEF OperationMoves

\* A step on the grants, the operations and the logins: no request is decided.
LEMMA GrantsStep ==
  ASSUME LegacyInv, GrantsMove, OperationMoves, UNCHANGED <<bootstrap, requests, reviews>>,
         known \subseteq known', known' \subseteq Person,
         login' \in [Person -> {"out", "denied", "queueing"}]
  PROVE  LegacyInv'
  <1>1. Types'
    BY DEF LegacyInv, Types, GrantsMove, OperationMoves
  <1>2. UsersKnown'
    BY DEF LegacyInv, UsersKnown, GrantsMove
  <1>3. AllFit'
    <2> SUFFICES ASSUME NEW a \in Admin PROVE ReadFits(op[a])'
      BY DEF AllFit
    <2>1. CASE op'[a] = op[a]
      BY <2>1, FitsKept DEF GrantsMove
    <2> QED
      BY <2>1 DEF OperationMoves
  <1>4. PendingOnce'
    BY DEF LegacyInv, PendingOnce
  <1>5. AllDecided'
    <2> SUFFICES ASSUME NEW r \in Request PROVE Decided(r)'
      BY DEF AllDecided
    <2>1. Decided(r) /\ About(r)' = About(r) /\ requests'[r] = requests[r]
      BY DEF LegacyInv, AllDecided, About
    <2>2. CASE requests[r].status \in Decision
      <3>1. requests[r].grant_id \in Grant \cup {None}
        BY <2>2, RowFacts DEF RequestRow, Decision
      <3>2. requests[r].grant_id # None =>
              /\ grants'[requests[r].grant_id].status # "none"
              /\ grants'[requests[r].grant_id].person = requests[r].person
        BY <2>1, <2>2, <3>1 DEF Decided, GrantsMove, RowsKept
      <3> QED
        BY <2>1, <2>2, <3>2 DEF Decided
    <2>3. CASE requests[r].status \notin Decision
      BY <2>1, <2>3 DEF Decided
    <2> QED
      BY <2>2, <2>3
  <1> QED
    BY <1>1, <1>2, <1>3, <1>4, <1>5 DEF LegacyInv

LEMMA GrantsStay == ASSUME LegacyInv, UNCHANGED grants, known \subseteq known' PROVE GrantsMove
  BY DEF LegacyInv, Types, UsersKnown, GrantsMove, RowsKept

LEMMA LoginInv ==
  ASSUME LegacyInv, UNCHANGED bootstrap, NEW p \in Person,
         \/ LoginAllowed(p) \/ LoginBootstrap(p) \/ LoginDenied(p)
         \/ Suppress(p) \/ NotReviewed(p)
  PROVE  LegacyInv'
  <1>1. known \subseteq Person /\ login \in [Person -> {"out", "denied", "queueing"}]
    BY DEF LegacyInv, Types
  <1>2. CASE LoginAllowed(p)
    <2>1. /\ known' = known \cup {p} /\ grants' = Linked(p)
          /\ UNCHANGED <<requests, reviews, login, op>>
      BY <1>2 DEF LoginAllowed
    <2>2. Linkable(p) \in SUBSET Grant /\ "active" \in GrantStatus
      BY DEF Linkable, Rows, GrantStatus
    <2>3. \A g \in Linkable(p) : /\ grants[g].status # "none" /\ grants[g].person \in known'
                                 /\ grants[g] \in LegacyRow
      BY <2>1, RowFacts DEF Linkable, Rows
    <2>4. \A g \in Grant : grants'[g] = IF g \in Linkable(p)
                                        THEN [grants[g] EXCEPT !.status = "active", !.linked = TRUE]
                                        ELSE grants[g]
      BY <2>1 DEF Linked
    <2>5. grants' = [g \in Grant |-> grants'[g]]
      BY <2>1 DEF Linked
    <2>6. known \subseteq known' /\ known' \subseteq Person
      BY <1>1, <2>1
    <2>7. GrantsMove
      <3>1. \A g \in Linkable(p) : /\ grants'[g] \in LegacyRow
                                   /\ grants'[g].person = grants[g].person
        <4> SUFFICES ASSUME NEW g \in Linkable(p)
                     PROVE  grants'[g] \in LegacyRow /\ grants'[g].person = grants[g].person
          OBVIOUS
        <4>1. PICK row \in LegacyRow : row = grants[g]
          BY <2>3
        <4>2. grants'[g] = [row EXCEPT !.status = "active", !.linked = TRUE]
          BY <2>2, <2>4, <4>1
        <4> QED
          BY <2>2, <4>1, <4>2 DEF LegacyRow
      <3>2. \A g \in Grant \ Linkable(p) : grants'[g] = grants[g]
        BY <2>4
      <3> QED
        BY <2>2, <2>3, <2>5, <2>6, <3>1, <3>2, StatusMoves
    <2>8. OperationMoves
      BY <2>1, OperationStays
    <2> QED
      BY <1>1, <2>1, <2>6, <2>7, <2>8, GrantsStep
  <1>3. CASE LoginBootstrap(p)
    <2>1. PICK g \in Grant : CreateGrant(g, p, TRUE)
      BY <1>3 DEF LoginBootstrap
    <2>2. known' = known \cup {p} /\ UNCHANGED <<requests, reviews, login, op>>
      BY <1>3 DEF LoginBootstrap
    <2>3. GrantsMove
      BY <2>1, <2>2, CreateMoves
    <2>4. OperationMoves
      BY <2>2, OperationStays
    <2> QED
      BY <1>1, <2>2, <2>3, <2>4, GrantsStep
  <1>4. CASE LoginDenied(p) \/ Suppress(p) \/ NotReviewed(p)
    <2>1. /\ UNCHANGED <<grants, requests, reviews, op>>
          /\ known' \in {known, known \cup {p}}
          /\ login' \in [Person -> {"out", "denied", "queueing"}]
      BY <1>1, <1>4 DEF LoginDenied, Suppress, NotReviewed
    <2>2. known \subseteq known' /\ known' \subseteq Person
      BY <1>1, <2>1
    <2>3. GrantsMove /\ OperationMoves
      BY <2>1, <2>2, GrantsStay, OperationStays
    <2> QED
      BY <2>1, <2>2, <2>3, GrantsStep
  <1> QED
    BY <1>2, <1>3, <1>4
\* The request of a refused login.
LEMMA QueueInv ==
  ASSUME LegacyInv, UNCHANGED bootstrap, NEW p \in Person, Queue(p) PROVE LegacyInv'
  <1>1. /\ known' = known \cup {p} /\ UNCHANGED <<grants, reviews, op>>
        /\ login' = [login EXCEPT ![p] = "out"]
    BY DEF Queue
  <1>2. /\ login' \in [Person -> {"out", "denied", "queueing"}]
        /\ known \subseteq known' /\ known' \subseteq Person
    BY <1>1 DEF LegacyInv, Types
  <1>3. GrantsMove /\ OperationMoves
    BY <1>1, <1>2, GrantsStay, OperationStays
  <1>4. CASE UNCHANGED requests
    BY <1>1, <1>2, <1>3, <1>4, GrantsStep
  <1>5. ASSUME Pending(p) = {}, NEW r \in Request, Unused(requests, r),
               requests' = [requests EXCEPT
                  ![r] = [status |-> "pending", person |-> p, fresh |-> FALSE,
                          grant_id |-> None]]
        PROVE  LegacyInv'
    <2> DEFINE row == [status |-> "pending", person |-> p, fresh |-> FALSE, grant_id |-> None]
    <2>1. /\ row \in RequestRow /\ row.status = "pending" /\ row.person = p
          /\ row.status \notin Decision
      BY DEF RequestRow, Decision
    <2>2. requests' = [requests EXCEPT ![r] = row] /\ requests[r].status = "none"
      BY <1>5 DEF Unused
    <2>3. requests \in [Request -> RequestRow \cup {NoRequest}]
      BY DEF LegacyInv, Types
    <2> HIDE DEF row
    <2>4. requests'[r] = row /\ \A s \in Request \ {r} : requests'[s] = requests[s]
      BY <2>2, <2>3
    <2>5. requests' \in [Request -> RequestRow \cup {NoRequest}]
      BY <2>1, <2>2, <2>3
    <2>6. Types'
      BY <1>1, <1>2, <2>5 DEF LegacyInv, Types
    <2>7. UsersKnown'
      <3>1. \A g \in Grant : grants'[g].linked => grants'[g].person \in known'
        BY <1>1, <1>2 DEF LegacyInv, UsersKnown
      <3>2. ASSUME NEW s \in Request, requests'[s] # NoRequest
            PROVE  requests'[s].person \in known'
        <4>1. CASE s = r
          BY <1>1, <2>1, <2>4, <4>1
        <4>2. CASE s # r
          BY <1>2, <2>4, <3>2, <4>2 DEF LegacyInv, UsersKnown
        <4> QED
          BY <4>1, <4>2
      <3> QED
        BY <3>1, <3>2 DEF UsersKnown
    <2>8. AllFit'
      BY <1>1, <1>3, FitsKept DEF AllFit, GrantsMove
    <2>9. PendingOnce'
      <3>1. \A s \in Request : requests[s].status = "pending" => requests[s].person # p
        BY <1>5 DEF Pending
      <3> SUFFICES ASSUME NEW s \in Request, NEW t \in Request,
                          requests'[s].status = "pending", requests'[t].status = "pending",
                          requests'[s].person = requests'[t].person
                   PROVE  s = t
        BY DEF PendingOnce
      <3>2. CASE s = r \/ t = r
        BY <2>1, <2>4, <3>1, <3>2
      <3>3. CASE s # r /\ t # r
        BY <2>4, <3>3 DEF LegacyInv, PendingOnce
      <3> QED
        BY <3>2, <3>3
    <2>10. AllDecided'
      <3> SUFFICES ASSUME NEW s \in Request PROVE Decided(s)'
        BY DEF AllDecided
      <3>1. Decided(s) /\ About(s)' = About(s)
        BY <1>1 DEF LegacyInv, AllDecided, About
      <3>2. CASE s = r
        <4>1. About(s) = {}
          BY <2>2, <3>1, <3>2 DEF Decided, Decision
        <4> QED
          BY <2>1, <2>4, <3>1, <3>2, <4>1 DEF Decided
      <3>3. CASE s # r
        <4>1. requests'[s] = requests[s]
          BY <2>4, <3>3
        <4> QED
          BY <1>1, <3>1, <4>1 DEF Decided
      <3> QED
        BY <3>2, <3>3
    <2> QED
      BY <2>6, <2>7, <2>8, <2>9, <2>10 DEF LegacyInv
  <1> QED
    BY <1>4, <1>5 DEF Queue

\* A review grows old.
LEMMA WindowInv ==
  ASSUME LegacyInv, UNCHANGED bootstrap, NEW r \in Request, WindowPasses(r) PROVE LegacyInv'
  <1>1. /\ requests' = [requests EXCEPT ![r].fresh = FALSE] /\ requests[r].fresh
        /\ UNCHANGED <<known, grants, reviews, login, op>>
    BY DEF WindowPasses
  <1>2. requests[r] \in RequestRow
    BY <1>1 DEF LegacyInv, Types, NoRequest
  <1> DEFINE row == [requests[r] EXCEPT !.fresh = FALSE]
  <1>3. /\ row \in RequestRow /\ row.status = requests[r].status
        /\ row.person = requests[r].person /\ row.grant_id = requests[r].grant_id
    BY <1>2 DEF RequestRow
  <1>4. requests' = [requests EXCEPT ![r] = row]
    BY <1>1
  <1>5. requests \in [Request -> RequestRow \cup {NoRequest}]
    BY DEF LegacyInv, Types
  <1> HIDE DEF row
  <1>6. requests'[r] = row /\ \A s \in Request \ {r} : requests'[s] = requests[s]
    BY <1>4, <1>5
  <1>7. \A s \in Request : /\ requests'[s].status = requests[s].status
                           /\ requests'[s].person = requests[s].person
                           /\ requests'[s].grant_id = requests[s].grant_id
                           /\ requests'[s] # NoRequest => requests[s] # NoRequest
    <2> SUFFICES ASSUME NEW s \in Request
                 PROVE  /\ requests'[s].status = requests[s].status
                        /\ requests'[s].person = requests[s].person
                        /\ requests'[s].grant_id = requests[s].grant_id
                        /\ requests'[s] # NoRequest => requests[s] # NoRequest
      OBVIOUS
    <2>1. CASE s = r
      <3>1. requests[s] # NoRequest
        BY <1>2, <2>1 DEF NoRequest, RequestRow, Decision
      <3> QED
        BY <1>3, <1>6, <2>1, <3>1
    <2>2. CASE s # r
      BY <1>6, <2>2
    <2> QED
      BY <2>1, <2>2
  <1>8. requests' \in [Request -> RequestRow \cup {NoRequest}]
    BY <1>3, <1>4, <1>5
  <1>9. Types'
    BY <1>1, <1>8 DEF LegacyInv, Types
  <1>10. UsersKnown'
    BY <1>1, <1>7 DEF LegacyInv, UsersKnown
  <1>11. AllFit'
    <2>1. GrantsMove
      BY <1>1, GrantsStay
    <2> QED
      BY <1>1, <2>1, FitsKept DEF AllFit, GrantsMove
  <1>12. PendingOnce'
    BY <1>7 DEF LegacyInv, PendingOnce
  <1>13. AllDecided'
    <2> SUFFICES ASSUME NEW s \in Request PROVE Decided(s)'
      BY DEF AllDecided
    <2>1. Decided(s) /\ About(s)' = About(s)
      BY <1>1 DEF LegacyInv, AllDecided, About
    <2> QED
      BY <1>1, <1>7, <2>1 DEF Decided
  <1> QED
    BY <1>9, <1>10, <1>11, <1>12, <1>13 DEF LegacyInv

\* A guarded UPDATE decides a request that is still pending, with the grant that
\* the same transaction created.
LEMMA ReviewInv ==
  ASSUME LegacyInv, UNCHANGED bootstrap, NEW a \in Admin, Review(a) PROVE LegacyInv'
  <1> DEFINE r == op[a].request
             d == op[a].kind
  <1>1. d \in Decision /\ requests[r].status = "pending" /\ Done(a)
    BY DEF Review, StillPending
  <1>2. r \in Request
    BY <1>1, OperationType DEF ForRequest
  <1>3. PICK g \in Grant \cup {None} :
          /\ IF d = "approved"
             THEN g # None /\ CreateGrant(g, requests[r].person, TRUE)
             ELSE g = None /\ UNCHANGED grants
          /\ requests' = [requests EXCEPT ![r].status = d, ![r].fresh = TRUE, ![r].grant_id = g]
          /\ reviews' = reviews \cup {[request |-> r, decision |-> d, grant |-> g]}
    BY DEF Review
  <1> HIDE DEF r, d
  <1>4. requests[r] \in RequestRow /\ requests[r] # NoRequest
    BY <1>1, <1>2, RowFacts DEF NoRequest
  <1>5. requests[r].person \in Person /\ requests[r].person \in known
    BY <1>2, <1>4 DEF RequestRow, LegacyInv, UsersKnown
  <1>6. known' = known /\ login' = login /\ Ends(a)
    BY <1>1 DEF Done
  <1>7. OperationMoves
    BY <1>6, OpEnds
  <1>8. /\ GrantsMove
        /\ g # None <=> d = "approved"
        /\ g # None => grants'[g].status # "none" /\ grants'[g].person = requests[r].person
    <2>1. CASE d = "approved"
      <3>1. g \in Grant /\ CreateGrant(g, requests[r].person, TRUE) /\ g # None
        BY <1>3, <2>1
      <3> QED
        BY <1>5, <1>6, <2>1, <3>1, CreateMoves
    <2>2. CASE d # "approved"
      BY <1>3, <1>6, <2>2, GrantsStay
    <2> QED
      BY <2>1, <2>2
  <1> DEFINE row == [requests[r] EXCEPT !.status = d, !.fresh = TRUE, !.grant_id = g]
             event == [request |-> r, decision |-> d, grant |-> g]
  <1>9. /\ row \in RequestRow /\ row.status = d /\ row.grant_id = g
        /\ row.person = requests[r].person
    BY <1>1, <1>4 DEF RequestRow
  <1>10. requests' = [requests EXCEPT ![r] = row]
    BY <1>3
  <1>11. event \in Event /\ event.request = r /\ reviews' = reviews \cup {event}
    BY <1>1, <1>2, <1>3 DEF Event
  <1>12. event = [request |-> r, decision |-> row.status, grant |-> row.grant_id]
    BY <1>9
  <1>13. requests \in [Request -> RequestRow \cup {NoRequest}]
    BY DEF LegacyInv, Types
  <1> HIDE DEF row, event
  <1>14. requests'[r] = row /\ \A s \in Request \ {r} : requests'[s] = requests[s]
    BY <1>2, <1>10, <1>13
  <1>15. requests' \in [Request -> RequestRow \cup {NoRequest}]
    BY <1>9, <1>10, <1>13
  <1>16. Types'
    BY <1>6, <1>7, <1>8, <1>11, <1>15 DEF LegacyInv, Types, OperationMoves, GrantsMove
  <1>17. UsersKnown'
    <2>1. ASSUME NEW s \in Request, requests'[s] # NoRequest
          PROVE  requests'[s].person \in known'
      <3>1. CASE s = r
        BY <1>5, <1>6, <1>9, <1>14, <3>1
      <3>2. CASE s # r
        BY <1>6, <1>14, <2>1, <3>2 DEF LegacyInv, UsersKnown
      <3> QED
        BY <3>1, <3>2
    <2> QED
      BY <1>8, <2>1 DEF UsersKnown, GrantsMove
  <1>18. AllFit'
    <2> SUFFICES ASSUME NEW b \in Admin PROVE ReadFits(op[b])'
      BY DEF AllFit
    <2>1. CASE op'[b] = op[b]
      BY <1>6, <1>8, <2>1, FitsKept DEF GrantsMove
    <2> QED
      BY <1>7, <2>1 DEF OperationMoves
  <1>19. PendingOnce'
    <2>1. row.status # "pending"
      BY <1>1, <1>9 DEF Decision
    <2> SUFFICES ASSUME NEW s \in Request, NEW t \in Request,
                        requests'[s].status = "pending", requests'[t].status = "pending",
                        requests'[s].person = requests'[t].person
                 PROVE  s = t
      BY DEF PendingOnce
    <2>2. s # r /\ t # r
      BY <1>14, <2>1
    <2> QED
      BY <1>14, <2>2 DEF LegacyInv, PendingOnce
  <1>20. AllDecided'
    <2> SUFFICES ASSUME NEW s \in Request PROVE Decided(s)'
      BY DEF AllDecided
    <2>1. Decided(s)
      BY DEF LegacyInv, AllDecided
    <2>2. CASE s = r
      <3>1. About(s) = {}
        BY <1>1, <2>1, <2>2 DEF Decided, Decision
      <3>2. About(s)' = {event}
        BY <1>11, <2>2, <3>1 DEF About
      <3>3. requests'[s] = row
        BY <1>14, <2>2
      <3>4. About(s)' = {[request |-> s, decision |-> requests'[s].status,
                          grant |-> requests'[s].grant_id]}
        BY <1>12, <2>2, <3>2, <3>3
      <3>5. /\ requests'[s].status \in Decision
            /\ requests'[s].grant_id # None <=> requests'[s].status = "approved"
            /\ requests'[s].grant_id # None =>
                 /\ grants'[requests'[s].grant_id].status # "none"
                 /\ grants'[requests'[s].grant_id].person = requests'[s].person
        BY <1>1, <1>8, <1>9, <2>2, <3>3
      <3> QED
        BY <3>4, <3>5 DEF Decided
    <2>3. CASE s # r
      <3>1. About(s)' = About(s)
        BY <1>11, <2>3 DEF About
      <3>2. requests'[s] = requests[s]
        BY <1>14, <2>3
      <3>3. CASE requests[s].status \in Decision
        <4>1. requests[s].grant_id \in Grant \cup {None}
          BY <3>3, RowFacts DEF RequestRow, Decision
        <4>2. requests[s].grant_id # None =>
                /\ grants'[requests[s].grant_id].status # "none"
                /\ grants'[requests[s].grant_id].person = requests[s].person
          BY <1>8, <2>1, <3>3, <4>1 DEF Decided, GrantsMove, RowsKept
        <4> QED
          BY <2>1, <3>1, <3>2, <3>3, <4>2 DEF Decided
      <3>4. CASE requests[s].status \notin Decision
        BY <2>1, <3>1, <3>2, <3>4 DEF Decided
      <3> QED
        BY <3>3, <3>4
    <2> QED
      BY <2>2, <2>3
  <1> QED
    BY <1>16, <1>17, <1>18, <1>19, <1>20 DEF LegacyInv

\* What an administrator does to the grants.
LEMMA AdministerInv ==
  ASSUME LegacyInv, UNCHANGED bootstrap, NEW a \in Admin, Administer(a) PROVE LegacyInv'
  <1>1. known \subseteq Person /\ login \in [Person -> {"out", "denied", "queueing"}]
    BY DEF LegacyInv, Types
  <1>2. ASSUME NEW o \in Operation, op' = [op EXCEPT ![a] = o], ReadFits(o)',
               UNCHANGED <<known, grants, requests, reviews, login>>
        PROVE  LegacyInv'
    <2>1. GrantsMove /\ OperationMoves
      BY <1>2, GrantsStay, OpGoes
    <2> QED
      BY <1>1, <1>2, <2>1, GrantsStep
  <1>3. ASSUME GrantsMove, Done(a), UNCHANGED <<requests, reviews>> PROVE LegacyInv'
    <2>1. known' = known /\ login' = login /\ OperationMoves
      BY <1>3, OpEnds DEF Done
    <2> QED
      BY <1>1, <1>3, <2>1, GrantsStep
  <1>4. CASE CreateRead(a) \/ Preview(a)
    <2>1. PICK p \in Person, kind \in {"create", "upsert", "revoke"} :
            Read(a, kind, [kind |-> kind, person |-> p, user |-> p \in known])
      BY <1>4 DEF CreateRead, Preview
    <2> DEFINE isKnown == p \in known
    <2>2. isKnown \in BOOLEAN
      OBVIOUS
    <2>3. PICK user \in BOOLEAN : user = isKnown
      BY <2>2
    <2>4. user = (p \in known) /\ Read(a, kind, [kind |-> kind, person |-> p, user |-> user])
      BY <2>1, <2>3
    <2> DEFINE o == [kind |-> kind, person |-> p, user |-> user]
    <2>5. o \in Operation /\ o.person = p /\ o.kind = kind /\ o.user = user
      BY DEF Operation, ForPerson
    <2>6. /\ op' = [op EXCEPT ![a] = o] /\ UNCHANGED <<known, grants, requests, reviews, login>>
          /\ user => p \in known
      BY <2>4 DEF Read, Begins
    <2> HIDE DEF o
    <2>7. ReadFits(o)'
      BY <2>5, <2>6 DEF ReadFits
    <2> QED
      BY <1>2, <2>5, <2>6, <2>7
  <1>5. CASE PatchRead(a)
    <2>1. PICK g \in Grant, status \in GrantStatus, named \in BOOLEAN :
            /\ grants[g].status # "none"
            /\ Read(a, "patch", [kind |-> "patch", grant |-> g, status |-> status,
                                 named |-> named])
      BY <1>5 DEF PatchRead
    <2> DEFINE o == [kind |-> "patch", grant |-> g, status |-> status, named |-> named]
    <2>2. o \in Operation /\ o.grant = g /\ o.kind = "patch"
      BY DEF Operation, ForGrant
    <2>3. op' = [op EXCEPT ![a] = o] /\ UNCHANGED <<known, grants, requests, reviews, login>>
      BY <2>1 DEF Read, Begins
    <2> HIDE DEF o
    <2>4. ReadFits(o)'
      BY <2>1, <2>2, <2>3 DEF ReadFits
    <2> QED
      BY <1>2, <2>2, <2>3, <2>4
  <1>6. CASE ReviewRead(a)
    <2>1. PICK r \in Request, decision \in Decision :
            Read(a, decision, [kind |-> decision, request |-> r])
      BY <1>6 DEF ReviewRead
    <2> DEFINE o == [kind |-> decision, request |-> r]
    <2>2. o \in Operation /\ o.kind \in Decision
      BY DEF Operation, ForRequest
    <2>3. op' = [op EXCEPT ![a] = o] /\ UNCHANGED <<known, grants, requests, reviews, login>>
      BY <2>1 DEF Read, Begins
    <2> HIDE DEF o
    <2>4. ReadFits(o)'
      BY <2>2 DEF ReadFits, Decision
    <2> QED
      BY <1>2, <2>2, <2>3, <2>4
  <1>7. CASE ImportCheck(a)
    <2>1. op[a] \in ForPerson
      BY <1>7, OperationType DEF ImportCheck, Doing
    <2>2. PICK row \in ForPerson : row = op[a]
      BY <2>1
    <2> DEFINE o == [row EXCEPT !.kind = "insert"]
    <2>3. /\ o \in ForPerson /\ o.kind = "insert"
          /\ o.user = row.user /\ o.person = row.person
      BY DEF ForPerson
    <2>4. op' = [op EXCEPT ![a] = o] /\ UNCHANGED <<known, grants, requests, reviews, login>>
      BY <1>7, <2>2 DEF ImportCheck
    <2> HIDE DEF o
    <2>5. op[a].kind = "upsert" /\ ReadFits(op[a])
      BY <1>7 DEF ImportCheck, Doing, LegacyInv, AllFit
    <2>6. ReadFits(o)' /\ o \in Operation
      BY <2>2, <2>3, <2>4, <2>5 DEF ReadFits, Operation
    <2> QED
      BY <1>2, <2>4, <2>6
  <1>8. CASE RevokeRead(a)
    <2>1. op[a] \in ForPerson
      BY <1>8, OperationType DEF RevokeRead, Doing
    <2>2. op[a].person \in Person
      BY <2>1 DEF ForPerson
    <2> DEFINE T == {g \in Rows(op[a].person) : grants[g].status # "revoked"}
    <2>3. T \in SUBSET Grant
      BY DEF Rows
    <2>4. \A g \in T : g \in Grant /\ grants[g].person \in Person
      BY <2>2 DEF Rows
    <2>5. \A g \in T : grants[g].status # "none"
      BY <2>4, RowFacts DEF LegacyRow, GrantStatus
    <2>6. PICK S \in SUBSET Grant : S = T /\ \A g \in S : grants[g].status # "none"
      BY <2>3, <2>5
    <2> DEFINE o == [kind |-> "revoking", grants |-> S]
    <2>7. op' = [op EXCEPT ![a] = o] /\ UNCHANGED <<known, grants, requests, reviews, login>>
      BY <1>8, <2>6 DEF RevokeRead
    <2>8. o \in Operation /\ o.kind = "revoking" /\ o.grants = S
      BY <2>6 DEF Operation, ForGrants
    <2> HIDE DEF o
    <2>9. ReadFits(o)'
      BY <2>6, <2>7, <2>8 DEF ReadFits
    <2> QED
      BY <1>2, <2>7, <2>8, <2>9
  <1>9. CASE CreateWrite(a) \/ ImportInsert(a)
    <2>1. /\ op[a].kind \in {"create", "insert"} /\ Done(a) /\ UNCHANGED <<requests, reviews>>
          /\ \E g \in Grant : CreateGrant(g, op[a].person, op[a].user)
      BY <1>9 DEF CreateWrite, ImportInsert, Doing
    <2>2. op[a] \in ForPerson /\ ReadFits(op[a])
      BY <2>1, OperationType DEF LegacyInv, AllFit
    <2>3. PICK p \in Person, user \in BOOLEAN : p = op[a].person /\ user = op[a].user
      BY <2>2 DEF ForPerson
    <2>4. known' = known /\ (user => p \in known')
      BY <2>1, <2>2, <2>3 DEF Done, ReadFits
    <2>5. PICK g \in Grant : CreateGrant(g, p, user)
      BY <2>1, <2>3
    <2>6. GrantsMove
      BY <2>4, <2>5, CreateMoves
    <2> QED
      BY <1>3, <2>1, <2>6
  <1>10. CASE PatchWrite(a)
    <2>1. op[a].kind = "patch" /\ Done(a) /\ UNCHANGED <<requests, reviews>>
      BY <1>10 DEF PatchWrite, Doing
    <2>2. op[a] \in ForGrant /\ ReadFits(op[a])
      BY <2>1, OperationType DEF LegacyInv, AllFit
    <2>3. PICK g \in Grant, status \in GrantStatus : g = op[a].grant /\ status = op[a].status
      BY <2>2 DEF ForGrant
    <2>4. grants[g].status # "none" /\ grants[g] \in LegacyRow
      BY <2>1, <2>2, <2>3, RowFacts DEF ReadFits
    <2>5. known' = known /\ grants \in [Grant -> LegacyRow \cup {NoGrant}]
      BY <2>1 DEF Done, LegacyInv, Types
    <2> DEFINE row == [grants[g] EXCEPT !.status = status]
    <2>6. grants' = [grants EXCEPT ![g] = row]
      BY <1>10, <2>3 DEF PatchWrite
    <2>7. row \in LegacyRow /\ row.person = grants[g].person /\ row.linked = grants[g].linked
      BY <2>4, RowChanges
    <2> HIDE DEF row
    <2>8. grants'[g] = row /\ \A h \in Grant \ {g} : grants'[h] = grants[h]
      BY <2>5, <2>6
    <2>9. grants' = [h \in Grant |-> grants'[h]] /\ {g} \in SUBSET Grant
      BY <2>5, <2>6
    <2>10. GrantsMove
      BY <2>4, <2>5, <2>7, <2>8, <2>9, StatusMoves
    <2> QED
      BY <1>3, <2>1, <2>10
  <1>11. CASE RevokeWrite(a)
    <2>1. op[a].kind = "revoking" /\ Done(a) /\ UNCHANGED <<requests, reviews>>
      BY <1>11 DEF RevokeWrite, Doing
    <2>2. op[a] \in ForGrants /\ ReadFits(op[a])
      BY <2>1, OperationType DEF LegacyInv, AllFit
    <2>3. PICK S \in SUBSET Grant : S = op[a].grants
      BY <2>2 DEF ForGrants
    <2>4. \A g \in S : grants[g].status # "none" /\ grants[g] \in LegacyRow
      BY <2>1, <2>2, <2>3, RowFacts DEF ReadFits
    <2>5. /\ grants' = [g \in Grant |-> grants'[g]]
          /\ \A g \in Grant : grants'[g] = IF g \in S
                                            THEN [grants[g] EXCEPT !.status = "revoked"]
                                            ELSE grants[g]
      BY <1>11, <2>3 DEF RevokeWrite
    <2>6. known' = known /\ "revoked" \in GrantStatus
      BY <2>1 DEF Done, GrantStatus
    <2>7. \A g \in S : /\ grants'[g] \in LegacyRow
                       /\ grants'[g].person = grants[g].person
                       /\ grants'[g].linked = grants[g].linked
      <3> SUFFICES ASSUME NEW g \in S
                   PROVE  /\ grants'[g] \in LegacyRow
                          /\ grants'[g].person = grants[g].person
                          /\ grants'[g].linked = grants[g].linked
        OBVIOUS
      <3>1. PICK row \in LegacyRow : row = grants[g]
        BY <2>4
      <3>2. grants'[g] = [row EXCEPT !.status = "revoked"]
        BY <2>5, <3>1
      <3> QED
        BY <2>6, <3>1, <3>2 DEF LegacyRow
    <2>8. \A g \in Grant \ S : grants'[g] = grants[g]
      BY <2>5
    <2>9. GrantsMove
      BY <2>4, <2>5, <2>6, <2>7, <2>8, StatusMoves
    <2> QED
      BY <1>3, <2>1, <2>9
  <1>12. CASE ImportSkip(a) \/ ReviewRefused(a)
    <2>1. Done(a) /\ UNCHANGED <<grants, requests, reviews>>
      BY <1>12 DEF ImportSkip, ReviewRefused
    <2>2. GrantsMove
      BY <2>1, GrantsStay DEF Done
    <2> QED
      BY <1>3, <2>1, <2>2
  <1>13. CASE Review(a)
    BY <1>13, ReviewInv
  <1> QED
    BY <1>4, <1>5, <1>6, <1>7, <1>8, <1>9, <1>10, <1>11, <1>12, <1>13 DEF Administer

-----------------------------------------------------------------------------

LEMMA LegacyInitInv == GrantsInit => LegacyInv
  <1> SUFFICES ASSUME GrantsInit PROVE LegacyInv
    OBVIOUS
  <1>1. Types
    BY DEF GrantsInit, Types
  <1>2. UsersKnown /\ AllFit /\ PendingOnce
    BY DEF GrantsInit, UsersKnown, AllFit, ReadFits, PendingOnce, NoGrant, NoRequest, NoOp
  <1>3. AllDecided
    BY DEF GrantsInit, AllDecided, Decided, About, NoRequest, Decision
  <1> QED
    BY <1>1, <1>2, <1>3 DEF LegacyInv

LEMMA LegacyNextInv == LegacyInv /\ [GrantsNext]_grantVars => LegacyInv'
  <1> SUFFICES ASSUME LegacyInv, [GrantsNext]_grantVars PROVE LegacyInv'
    OBVIOUS
  <1>1. CASE GrantsNext
    <2>1. CASE \E p \in Person : Login(p)
      BY <1>1, <2>1, LoginInv, QueueInv DEF GrantsNext, Login
    <2>2. CASE \E r \in Request : WindowPasses(r)
      BY <1>1, <2>2, WindowInv DEF GrantsNext
    <2>3. CASE \E a \in Admin : Administer(a)
      BY <1>1, <2>3, AdministerInv DEF GrantsNext
    <2> QED
      BY <1>1, <2>1, <2>2, <2>3 DEF GrantsNext
  <1>2. CASE UNCHANGED grantVars
    <2>1. UNCHANGED <<bootstrap, known, grants, requests, reviews, login, op>>
      BY <1>2 DEF grantVars
    <2>2. GrantsMove /\ OperationMoves
      BY <2>1, GrantsStay, OperationStays
    <2>3. known \subseteq Person /\ login \in [Person -> {"out", "denied", "queueing"}]
      BY DEF LegacyInv, Types
    <2> QED
      BY <2>1, <2>2, <2>3, GrantsStep
  <1> QED
    BY <1>1, <1>2

LEMMA LegacyInvHolds == GrantsSpec => []LegacyInv
  BY LegacyInitInv, LegacyNextInv, PTL DEF GrantsSpec

LEMMA LegacyTypes == ASSUME LegacyInv PROVE GrantsTypeOK
  <1>1. /\ bootstrap \subseteq Person /\ known \subseteq Person
        /\ reviews \subseteq [request : Request, decision : Decision, grant : Grant \cup {None}]
        /\ login \in [Person -> {"out", "denied", "queueing"}]
    BY DEF LegacyInv, Types, Event
  <1>2. \A g \in Grant : \/ grants[g] = NoGrant
                         \/ /\ grants[g].status \in GrantStatus
                            /\ grants[g].person \in Person
                            /\ grants[g].linked => grants[g].person \in known
    BY DEF LegacyInv, Types, UsersKnown, LegacyRow
  <1>3. \A r \in Request : \/ requests[r] = NoRequest
                           \/ /\ requests[r].status \in Decision \cup {"pending"}
                              /\ requests[r].person \in known
                              /\ requests[r].grant_id \in Grant \cup {None}
    BY DEF LegacyInv, Types, UsersKnown, RequestRow
  <1>4. ASSUME NEW p \in Person PROVE Cardinality(Pending(p)) <= 1
    <2>1. CASE Pending(p) = {}
      BY <2>1, FS_EmptySet
    <2>2. CASE Pending(p) # {}
      <3>1. PICK r \in Pending(p) : TRUE
        BY <2>2
      <3>2. Pending(p) = {r}
        BY <3>1 DEF LegacyInv, PendingOnce, Pending
      <3> QED
        BY <3>2, FS_Singleton
    <2> QED
      BY <2>1, <2>2
  <1> QED
    BY <1>1, <1>2, <1>3, <1>4 DEF GrantsTypeOK

\* Rows hold what their columns may, users outlive the grants and requests that
\* name them, and no person has two pending requests
\* (src/repositories.ts:641-720).
THEOREM GrantTypes == GrantsSpec => []GrantsTypeOK
  <1> QED
    BY LegacyTypes, LegacyInvHolds, PTL

\* One decision stands for every request, however many administrators decide it
\* at once, and an approval has its grant (src/app.ts:2651-2763).
THEOREM OneDecision == GrantsSpec => []DecidedOnce
  <1>1. LegacyInv => DecidedOnce
    BY DEF LegacyInv, AllDecided, Decided, About, DecidedOnce
  <1> QED
    BY <1>1, LegacyInvHolds, PTL

-----------------------------------------------------------------------------
(* What a step may never do.                                               *)

\* A revoked or expired grant does not become usable.
Ended == {"revoked", "expired"}
Buried == \A g \in Grant : grants[g].status \in Ended =>
            grants'[g].status \notin {"active", "pending_user_link"}

LEMMA CreateBuries ==
  ASSUME LegacyInv, NEW g \in Grant, NEW p \in Person, NEW user \in BOOLEAN, CreateGrant(g, p, user)
  PROVE  Buried
  <1>1. grants[g].status = "none" /\ grants' = [grants EXCEPT ![g] = NewGrant(p, user)]
    BY DEF CreateGrant, Unused
  <1>2. \A h \in Grant \ {g} : grants'[h] = grants[h]
    BY <1>1 DEF LegacyInv, Types
  <1> QED
    BY <1>1, <1>2 DEF Buried, Ended

LEMMA LoginBuries == ASSUME LegacyInv, NEW p \in Person, Login(p) PROVE Buried
  <1>1. CASE LoginAllowed(p)
    <2>1. \A g \in Grant : g \in Linkable(p) => grants[g].status = "pending_user_link"
      BY DEF Linkable
    <2>2. \A g \in Grant : g \notin Linkable(p) => grants'[g] = grants[g]
      BY <1>1 DEF LoginAllowed, Linked
    <2> QED
      BY <2>1, <2>2 DEF Buried, Ended
  <1>2. CASE LoginBootstrap(p)
    BY <1>2, CreateBuries DEF LoginBootstrap
  <1>3. CASE LoginDenied(p) \/ Suppress(p) \/ NotReviewed(p) \/ Queue(p)
    <2>1. UNCHANGED grants
      BY <1>3 DEF LoginDenied, Suppress, NotReviewed, Queue
    <2> QED
      BY <2>1 DEF Buried, Ended
  <1> QED
    BY <1>1, <1>2, <1>3 DEF Login

LEMMA AdministerBuries ==
  ASSUME LegacyInv, NEW a \in Admin, Administer(a), ~PatchWrite(a) PROVE Buried
  <1>1. CASE CreateWrite(a) \/ ImportInsert(a)
    <2>1. /\ op[a].kind \in {"create", "insert"}
          /\ \E g \in Grant : CreateGrant(g, op[a].person, op[a].user)
      BY <1>1 DEF CreateWrite, ImportInsert, Doing
    <2>2. op[a].person \in Person /\ op[a].user \in BOOLEAN
      BY <2>1, OperationType DEF ForPerson
    <2> QED
      BY <2>1, <2>2, CreateBuries
  <1>2. CASE RevokeWrite(a)
    <2>1. \A g \in Grant : g \notin op[a].grants => grants'[g] = grants[g]
      BY <1>2 DEF RevokeWrite
    <2>2. ASSUME NEW g \in Grant, g \in op[a].grants, grants[g].status \in Ended
          PROVE  grants'[g].status = "revoked"
      <3>1. PICK row \in LegacyRow : row = grants[g]
        BY <2>2, RowFacts DEF Ended
      <3>2. grants'[g] = [row EXCEPT !.status = "revoked"]
        BY <1>2, <2>2, <3>1 DEF RevokeWrite
      <3> QED
        BY <3>2 DEF LegacyRow
    <2> QED
      BY <2>1, <2>2 DEF Buried, Ended
  <1>3. CASE Review(a)
    <2>1. \/ UNCHANGED grants
          \/ \E g \in Grant : /\ op[a].kind = "approved" /\ StillPending(op[a].request)
                              /\ CreateGrant(g, requests[op[a].request].person, TRUE)
      BY <1>3 DEF Review, None
    <2>2. CASE UNCHANGED grants
      BY <2>2 DEF Buried, Ended
    <2>3. CASE op[a].kind = "approved" /\ StillPending(op[a].request)
      <3>1. op[a].request \in Request
        BY <2>3, OperationType DEF ForRequest, Decision
      <3>2. requests[op[a].request].person \in Person
        BY <2>3, <3>1, RowFacts DEF StillPending, RequestRow
      <3> QED
        BY <2>1, <2>2, <3>2, CreateBuries
    <2> QED
      BY <2>1, <2>2, <2>3
  <1>4. CASE \/ CreateRead(a) \/ PatchRead(a) \/ Preview(a) \/ ReviewRead(a)
    <2>1. UNCHANGED grants
      BY <1>4 DEF CreateRead, PatchRead, Preview, ReviewRead, Read
    <2> QED
      BY <2>1 DEF Buried, Ended
  <1>5. CASE ImportSkip(a) \/ ImportCheck(a) \/ RevokeRead(a) \/ ReviewRefused(a)
    <2>1. UNCHANGED grants
      BY <1>5 DEF ImportSkip, ImportCheck, RevokeRead, ReviewRefused
    <2> QED
      BY <2>1 DEF Buried, Ended
  <1> QED
    BY <1>1, <1>2, <1>3, <1>4, <1>5 DEF Administer

\* The one action that revives a grant: a PATCH which names the new status, or
\* writes the status it had read before the revocation
\* (src/repositories.ts:598-607).
THEOREM OnlyPatchRevives == GrantsSpec => RevivedByPatchOnly
  <1> DEFINE Step ==
        \A g \in Grant :
          grants[g].status \in {"revoked", "expired"}
            /\ grants'[g].status \in {"active", "pending_user_link"} =>
          \E a \in Admin : /\ op[a].kind = "patch" /\ op[a].grant = g
                           /\ op[a].named \/ op[a].status # grants[g].status
  <1>1. ASSUME LegacyInv, [GrantsNext]_grantVars PROVE [Step]_grantVars
    <2>1. Buried => Step
      BY DEF Buried, Ended
    <2>2. CASE \E p \in Person : Login(p)
      BY <1>1, <2>1, <2>2, LoginBuries
    <2>3. CASE \E r \in Request : WindowPasses(r)
      BY <2>1, <2>3 DEF WindowPasses, Buried, Ended
    <2>4. ASSUME NEW a \in Admin, Administer(a) PROVE Step
      <3>1. CASE ~PatchWrite(a)
        BY <1>1, <2>1, <2>4, <3>1, AdministerBuries
      <3>2. CASE PatchWrite(a)
        <4> SUFFICES ASSUME NEW g \in Grant, grants[g].status \in {"revoked", "expired"},
                            grants'[g].status \in {"active", "pending_user_link"}
                     PROVE  /\ op[a].kind = "patch" /\ op[a].grant = g
                            /\ op[a].status # grants[g].status
          OBVIOUS
        <4>1. /\ op[a].kind = "patch"
              /\ grants' = [grants EXCEPT ![op[a].grant].status = op[a].status]
          BY <3>2 DEF PatchWrite, Doing
        <4>2. op[a].grant \in Grant
          BY <1>1, <4>1, OperationType DEF ForGrant
        <4>3. op[a].grant = g
          BY <1>1, <4>1, <4>2 DEF LegacyInv, Types
        <4>4. PICK row \in LegacyRow : row = grants[g]
          BY <1>1, RowFacts
        <4>5. PICK status \in GrantStatus : status = op[a].status
          BY <1>1, <4>1, OperationType DEF ForGrant
        <4>6. grants'[g] = [row EXCEPT !.status = status]
          BY <1>1, <4>1, <4>3, <4>4, <4>5 DEF LegacyInv, Types
        <4>7. grants'[g].status = status
          BY <4>6 DEF LegacyRow
        <4> QED
          BY <4>1, <4>3, <4>5, <4>7
      <3> QED
        BY <3>1, <3>2
    <2> QED
      BY <1>1, <2>2, <2>3, <2>4 DEF GrantsNext
  <1>2. LegacyInv /\ [GrantsNext]_grantVars => [Step]_grantVars
    BY <1>1
  <1> QED
    BY <1>2, LegacyInvHolds, PTL DEF GrantsSpec, RevivedByPatchOnly

\* A login that ends without access leaves a request pending, or an
\* administrator has turned this person down lately (src/app.ts:985-1052).
THEOREM RefusalsAreQueued == GrantsSpec => DeniedIsQueued
  <1> DEFINE Heard(p) ==
        \E r \in Request :
          /\ requests'[r].person = p
          /\ \/ requests'[r].status = "pending"
             \/ requests'[r].status \in {"rejected", "closed"} /\ requests'[r].fresh
      Step == \A p \in Person : login[p] # "out" /\ login'[p] = "out" => Heard(p)
  <1>1. ASSUME LegacyInv, [GrantsNext]_grantVars PROVE [Step]_grantVars
    <2>1. UNCHANGED login => Step
      OBVIOUS
    <2>2. login \in [Person -> {"out", "denied", "queueing"}]
          /\ requests \in [Request -> RequestRow \cup {NoRequest}]
      BY <1>1 DEF LegacyInv, Types
    <2>3. ASSUME NEW p \in Person, Login(p) PROVE Step
      <3>1. CASE LoginAllowed(p) \/ LoginBootstrap(p)
        BY <2>1, <3>1 DEF LoginAllowed, LoginBootstrap
      <3>2. CASE LoginDenied(p) \/ NotReviewed(p)
        BY <2>2, <3>2 DEF LoginDenied, NotReviewed
      <3>3. CASE Suppress(p) \/ Queue(p)
        <4>1. \A q \in Person \ {p} : login'[q] = login[q]
          BY <2>2, <3>3 DEF Suppress, Queue
        <4>2. CASE Suppress(p)
          <5>1. PICK r \in Request : r \in RecentReviewed(p)
            BY <4>2 DEF Suppress, RecentReviewed
          <5>2. requests' = requests
            BY <4>2 DEF Suppress
          <5> QED
            BY <4>1, <5>1, <5>2 DEF RecentReviewed
        <4>3. CASE Queue(p) /\ UNCHANGED requests /\ Pending(p) # {}
          <5>1. PICK r \in Request : r \in Pending(p)
            BY <4>3 DEF Pending
          <5> QED
            BY <4>1, <4>3, <5>1 DEF Pending
        <4>4. ASSUME NEW r \in Request,
                     requests' = [requests EXCEPT
                        ![r] = [status |-> "pending", person |-> p, fresh |-> FALSE,
                                grant_id |-> None]]
              PROVE  Step
          <5>1. requests'[r].person = p /\ requests'[r].status = "pending"
            BY <2>2, <4>4
          <5> QED
            BY <4>1, <5>1
        <4> QED
          BY <3>3, <4>2, <4>3, <4>4 DEF Queue
      <3> QED
        BY <2>3, <3>1, <3>2, <3>3 DEF Login
    <2>4. ASSUME NEW a \in Admin, Administer(a) PROVE UNCHANGED login
      <3>1. CASE CreateRead(a) \/ PatchRead(a) \/ Preview(a) \/ ReviewRead(a)
        BY <3>1 DEF CreateRead, PatchRead, Preview, ReviewRead, Read
      <3>2. CASE ImportCheck(a) \/ RevokeRead(a)
        BY <3>2 DEF ImportCheck, RevokeRead
      <3>3. CASE CreateWrite(a) \/ PatchWrite(a) \/ ImportSkip(a) \/ ImportInsert(a)
                 \/ RevokeWrite(a)
        BY <3>3 DEF CreateWrite, PatchWrite, ImportSkip, ImportInsert, RevokeWrite, Done
      <3>4. CASE Review(a) \/ ReviewRefused(a)
        BY <3>4 DEF Review, ReviewRefused, Done
      <3> QED
        BY <2>4, <3>1, <3>2, <3>3, <3>4 DEF Administer
    <2>5. CASE \E r \in Request : WindowPasses(r)
      BY <2>1, <2>5 DEF WindowPasses
    <2> QED
      BY <1>1, <2>1, <2>3, <2>4, <2>5 DEF GrantsNext
  <1>2. LegacyInv /\ [GrantsNext]_grantVars => [Step]_grantVars
    BY <1>1
  <1> QED
    BY <1>2, LegacyInvHolds, PTL DEF GrantsSpec, DeniedIsQueued

-----------------------------------------------------------------------------
(* Backups.                                                                *)

\* The sections of an export, and of a file.
Fields == {"secrets", "family", "tokens"}
RowStatus == {"none", "active", "retired", "current", "consumed", "revoked"}
BackupRow == [status : RowStatus, parent : 0..MaxIds, generation : Nat]
FamilyRow == [status : {"none", "active", "revoked"}, current_generation : Nat]
Parented(rows) == \A i \in Present(rows) : rows[i].parent \in Present(rows) \cup {0}

\* Tables of one moment, as they are committed, read or exported.
Sound(t) ==
  /\ DOMAIN t = Fields
  /\ t.secrets \in [Id -> BackupRow] /\ t.tokens \in [Id -> BackupRow] /\ t.family \in FamilyRow
  /\ Parented(t.secrets) /\ Parented(t.tokens)
  /\ \A i \in Present(t.secrets) : t.secrets[i].parent < i
  /\ Present(t.secrets) \subseteq usedIds["secrets"] /\ Present(t.tokens) \subseteq usedIds["tokens"]
  /\ TokensUnique(t.tokens)

\* Unless a merge has left rows that its file does not have.
Importable(t) == Sound(t) /\ (~overlaid => TokensValid(t.family, t.tokens))

\* What an export has read is of its snapshot, section after section.
Begun == {{}, {"secrets"}, {"secrets", "family"}, Fields}
Exporting(o) ==
  /\ DOMAIN o = {"kind", "snapshot", "file"}
  /\ Importable(o.snapshot)
  /\ DOMAIN o.file \in Begun
  /\ \A s \in DOMAIN o.file : o.file[s] = o.snapshot[s]

\* Ids are given in order.
Dense(ids) == \A i \in ids : \A j \in Id : j < i => j \in ids
Ids == /\ usedIds \in [Lineages -> SUBSET Id]
       /\ \A s \in Lineages : Dense(usedIds[s])
       /\ overlaid \in BOOLEAN
       /\ op = [a \in Admin |-> op[a]]

BackupInv ==
  /\ Ids
  /\ Cardinality(files) <= MaxFiles
  /\ Importable(tables)
  /\ \A file \in files : Importable(file)
  /\ \A a \in Admin : op[a].kind = "export" => Exporting(op[a])

-----------------------------------------------------------------------------
(* Lineages.                                                               *)

\* The least-number principle, from the library's theorem on minimal elements.
LEMMA Least == ASSUME NEW S \in SUBSET Nat, S # {} PROVE \E n \in S : \A m \in S : n <= m
  <1>1. PICK R : R = OpToRel(<, Nat)
    OBVIOUS
  <1>2. IsWellFoundedOn(R, Nat)
    BY <1>1, NatLessThanWellFounded
  <1>3. PICK n \in S : \A m \in S : <<m, n>> \notin R
    BY <1>2, WFMin
  <1>4. \A m \in S : ~(m < n)
    BY <1>1, <1>3 DEF OpToRel
  <1> QED
    BY <1>4

\* A parent is older than its child, so the oldest of some rows has none there.
LEMMA OlderParentsAreValid ==
  ASSUME NEW t, Sound(t) PROVE SecretsValid(t.secrets)
  <1>1. \A i \in Present(t.secrets) : t.secrets[i].parent \in Present(t.secrets) \cup {0}
    BY DEF Sound, Parented
  <1>2. ASSUME NEW S \in (SUBSET Present(t.secrets)) \ {{}}
        PROVE  \E i \in S : t.secrets[i].parent \notin S
    <2>1. S \in SUBSET Nat /\ S # {}
      BY BackupBound DEF Present, Id
    <2>2. PICK i \in S : \A j \in S : i <= j
      BY <2>1, Least
    <2>3. PICK row : row = t.secrets[i]
      OBVIOUS
    <2>4. row.parent < i
      BY <2>3 DEF Sound
    <2>5. i \in Id /\ row \in BackupRow
      BY <2>3 DEF Sound, Present
    <2>6. row.parent \in Int /\ i \in Int
      BY <2>5, BackupBound DEF BackupRow, Id
    <2>7. row.parent \notin S
      BY <2>2, <2>4, <2>6
    <2> QED
      BY <2>3, <2>7
  <1> QED
    BY <1>1, <1>2 DEF SecretsValid

LEMMA ImportableValidates ==
  ASSUME NEW t, Importable(t), ~overlaid PROVE Validates(t)
  BY OlderParentsAreValid DEF Importable, Validates

LEMMA NumberOfRows ==
  ASSUME NEW rows PROVE IsFiniteSet(Present(rows)) /\ Cardinality(Present(rows)) \in Nat
  <1>1. IsFiniteSet(Id)
    BY BackupBound, FS_Interval DEF Id
  <1>2. IsFiniteSet(Present(rows))
    BY <1>1, FS_Subset DEF Present
  <1> QED
    BY <1>2, FS_CardinalityType

-----------------------------------------------------------------------------
(* What most steps have in common.                                         *)

Grows == /\ usedIds' \in [Lineages -> SUBSET Id]
         /\ \A s \in Lineages : usedIds[s] \subseteq usedIds'[s] /\ Dense(usedIds'[s])
         /\ overlaid' \in BOOLEAN /\ (overlaid => overlaid')

\* Ids are given, never taken back, and a merge is never undone.
LEMMA StaysImportable ==
  ASSUME NEW t, Importable(t), Grows PROVE Importable(t)'
  <1>1. /\ usedIds["secrets"] \subseteq usedIds'["secrets"]
        /\ usedIds["tokens"] \subseteq usedIds'["tokens"]
    BY DEF Grows, Lineages
  <1>2. Sound(t)'
    BY <1>1 DEF Importable, Sound, Parented, TokensUnique, Present
  <1>3. ~overlaid' => TokensValid(t.family, t.tokens)
    BY DEF Importable, Grows
  <1>4. TokensValid(t.family, t.tokens)' <=> TokensValid(t.family, t.tokens)
    BY DEF TokensValid, Present
  <1> QED
    BY <1>2, <1>3, <1>4 DEF Importable

LEMMA ExportingStays ==
  ASSUME NEW o, Exporting(o), Grows PROVE Exporting(o)'
  <1>1. PICK t : t = o.snapshot
    OBVIOUS
  <1>2. Importable(t)'
    BY <1>1, StaysImportable DEF Exporting
  <1> QED
    BY <1>1, <1>2 DEF Exporting

\* A step that writes the tables.
LEMMA TablesMove ==
  ASSUME BackupInv, NEW t, tables' = t, UNCHANGED files, UNCHANGED op, Grows, Importable(t)'
  PROVE  BackupInv'
  <1>1. Ids'
    BY DEF BackupInv, Ids, Grows
  <1>2. ASSUME NEW file \in files PROVE Importable(file)'
    BY <1>2, StaysImportable DEF BackupInv
  <1>3. \A file \in files' : Importable(file)'
    BY <1>2
  <1>4. ASSUME NEW a \in Admin, op'[a].kind = "export" PROVE Exporting(op[a])'
    <2>1. PICK o : o = op[a]
      OBVIOUS
    <2>2. Exporting(o)
      BY <1>4, <2>1 DEF BackupInv
    <2>3. Exporting(o)'
      BY <2>2, ExportingStays
    <2> QED
      BY <2>1, <2>3
  <1>5. Importable(tables)' /\ Cardinality(files)' <= MaxFiles
    BY DEF BackupInv
  <1> QED
    BY <1>1, <1>3, <1>4, <1>5 DEF BackupInv

\* A step of an administrator's export.
LEMMA ExportMoves ==
  ASSUME BackupInv, NEW a \in Admin, NEW o, op' = [op EXCEPT ![a] = o],
         UNCHANGED tables, UNCHANGED usedIds, UNCHANGED overlaid,
         o.kind = "export" => Exporting(o),
         \A file \in files' : Importable(file), Cardinality(files') <= MaxFiles
  PROVE  BackupInv'
  <1>1. op'[a] = o /\ (\A b \in Admin : b # a => op'[b] = op[b]) /\ op' = [b \in Admin |-> op'[b]]
    BY DEF BackupInv, Ids
  <1>2. Grows
    BY DEF Grows, BackupInv, Ids
  <1>3. Ids'
    BY <1>1 DEF BackupInv, Ids
  <1>4. ASSUME NEW t, Importable(t) PROVE Importable(t)'
    BY <1>2, <1>4, StaysImportable
  <1>5. \A file \in files' : Importable(file)'
    BY <1>4
  <1>6. Importable(tables)'
    <2>1. PICK t : t = tables
      OBVIOUS
    <2>2. Importable(t)'
      BY <1>4, <2>1 DEF BackupInv
    <2> QED
      BY <2>1, <2>2
  <1>7. ASSUME NEW b \in Admin, op'[b].kind = "export" PROVE Exporting(op[b])'
    <2>1. PICK r : r = op'[b]
      OBVIOUS
    <2>2. Exporting(r)
      BY <1>1, <1>7, <2>1 DEF BackupInv
    <2>3. Exporting(r)'
      BY <1>2, <2>2, ExportingStays
    <2> QED
      BY <2>1, <2>3
  <1> QED
    BY <1>3, <1>5, <1>6, <1>7 DEF BackupInv

-----------------------------------------------------------------------------
(* Exports.                                                                *)

LEMMA ExportBeginInv == ASSUME BackupInv, NEW a \in Admin, ExportBegin(a) PROVE BackupInv'
  <1>1. PICK none, o : none = <<>> /\ o = [kind |-> "export", snapshot |-> tables, file |-> none]
    OBVIOUS
  <1>2. op' = [op EXCEPT ![a] = o] /\ UNCHANGED <<tables, usedIds, files, overlaid>>
    BY <1>1 DEF ExportBegin, Begins
  <1>3. o.snapshot = tables /\ o.file = none /\ DOMAIN o = {"kind", "snapshot", "file"}
    BY <1>1
  <1>4. DOMAIN none = {}
    BY <1>1
  <1>5. Exporting(o)
    BY <1>3, <1>4 DEF Exporting, Begun, BackupInv
  <1>6. (\A file \in files' : Importable(file)) /\ Cardinality(files') <= MaxFiles
    BY <1>2 DEF BackupInv
  <1>7. UNCHANGED tables /\ UNCHANGED usedIds /\ UNCHANGED overlaid
    BY <1>2
  <1> QED
    BY <1>2, <1>5, <1>6, <1>7, ExportMoves

\* How many sections an export has read tells which.
LEMMA SectionsCounted ==
  /\ Cardinality({}) = 0 /\ Cardinality({"secrets"}) = 1
  /\ Cardinality({"secrets", "family"}) = 2 /\ Cardinality(Fields) = 3
  /\ Len(Sections) = 3
  /\ Sections[1] = "secrets" /\ Sections[2] = "family" /\ Sections[3] = "tokens"
  <1>1. Cardinality({}) = 0
    BY FS_EmptySet
  <1>2. IsFiniteSet({"secrets"}) /\ Cardinality({"secrets"}) = 1
    BY FS_Singleton
  <1>3. IsFiniteSet({"secrets", "family"}) /\ Cardinality({"secrets", "family"}) = 2
    <2>1. {"secrets", "family"} = {"secrets"} \cup {"family"} /\ "family" \notin {"secrets"}
      OBVIOUS
    <2> QED
      BY <1>2, <2>1, FS_AddElement
  <1>4. Cardinality(Fields) = 3
    <2>1. Fields = {"secrets", "family"} \cup {"tokens"} /\ "tokens" \notin {"secrets", "family"}
      BY DEF Fields
    <2> QED
      BY <1>3, <2>1, FS_AddElement
  <1> QED
    BY <1>1, <1>2, <1>3, <1>4 DEF Sections

LEMMA NextSection ==
  ASSUME NEW D \in Begun, NEW n, n = Cardinality(D) + 1, n <= Len(Sections)
  PROVE  Sections[n] \in Fields /\ D \cup {Sections[n]} \in Begun
  <1>1. CASE D = {}
    BY <1>1, SectionsCounted DEF Begun, Fields
  <1>2. CASE D = {"secrets"}
    BY <1>2, SectionsCounted DEF Begun, Fields
  <1>3. CASE D = {"secrets", "family"}
    BY <1>3, SectionsCounted DEF Begun, Fields
  <1>4. CASE D = Fields
    BY <1>4, SectionsCounted
  <1> QED
    BY <1>1, <1>2, <1>3, <1>4 DEF Begun

LEMMA ExportSectionInv == ASSUME BackupInv, NEW a \in Admin, ExportSection(a) PROVE BackupInv'
  <1>1. PICK r, n, D : r = op[a] /\ D = DOMAIN r.file /\ n = Cardinality(D) + 1
    OBVIOUS
  <1>2. PICK file : file = [s \in D \cup {Sections[n]} |->
                              IF s = Sections[n] THEN SectionRead(a, s) ELSE r.file[s]]
    OBVIOUS
  <1>3. PICK o : o = [r EXCEPT !.file = file]
    OBVIOUS
  <1>4. /\ r.kind = "export" /\ n <= Len(Sections) /\ op' = [op EXCEPT ![a] = o]
        /\ UNCHANGED <<tables, usedIds, files, overlaid>>
    BY <1>1, <1>2, <1>3 DEF ExportSection, Doing, Goes
  <1>5. Exporting(r)
    BY <1>1, <1>4 DEF BackupInv
  <1>6. o.kind = r.kind /\ o.snapshot = r.snapshot /\ o.file = file /\ DOMAIN o = DOMAIN r
    BY <1>3, <1>5 DEF Exporting
  <1>7. Sections[n] \in Fields /\ D \cup {Sections[n]} \in Begun
    BY <1>1, <1>4, <1>5, NextSection DEF Exporting
  <1>8. ASSUME NEW s \in DOMAIN file PROVE file[s] = r.snapshot[s]
    BY <1>1, <1>2, <1>5 DEF Exporting, SectionRead
  <1>9. DOMAIN file \in Begun
    BY <1>2, <1>7
  <1>10. Exporting(o)
    BY <1>5, <1>6, <1>8, <1>9 DEF Exporting
  <1>11. (\A f \in files' : Importable(f)) /\ Cardinality(files') <= MaxFiles
    BY <1>4 DEF BackupInv
  <1>12. UNCHANGED tables /\ UNCHANGED usedIds /\ UNCHANGED overlaid /\ op' = [op EXCEPT ![a] = o]
    BY <1>4
  <1> QED
    BY <1>10, <1>11, <1>12, ExportMoves

LEMMA ExportEndInv == ASSUME BackupInv, NEW a \in Admin, ExportEnd(a) PROVE BackupInv'
  <1>1. PICK r, D, file : r = op[a] /\ D = DOMAIN file /\ file = r.file
    OBVIOUS
  <1>2. /\ r.kind = "export" /\ Cardinality(D) = Len(Sections)
        /\ Cardinality(files \cup {file}) <= MaxFiles /\ files' = files \cup {file}
        /\ op' = [op EXCEPT ![a] = NoOp] /\ UNCHANGED <<tables, usedIds, overlaid>>
    BY <1>1 DEF ExportEnd, Doing, Ends
  <1>3. Exporting(r)
    BY <1>1, <1>2 DEF BackupInv
  <1>4. D \in Begun
    BY <1>1, <1>3 DEF Exporting
  <1>5. D = Fields
    BY <1>2, <1>4, SectionsCounted DEF Begun
  <1>6. PICK t : t = r.snapshot
    OBVIOUS
  <1>7. file.secrets = t.secrets /\ file.family = t.family /\ file.tokens = t.tokens
    BY <1>1, <1>3, <1>5, <1>6 DEF Exporting, Fields
  <1>8. Importable(t) /\ DOMAIN file = Fields
    BY <1>1, <1>3, <1>5, <1>6 DEF Exporting
  <1>9. Importable(file)
    BY <1>7, <1>8 DEF Importable, Sound
  <1>10. (\A f \in files' : Importable(f)) /\ Cardinality(files') <= MaxFiles
    BY <1>2, <1>9 DEF BackupInv
  <1>11. PICK none : none = NoOp
    OBVIOUS
  <1>12. none.kind # "export"
    BY <1>11 DEF NoOp
  <1>13. UNCHANGED tables /\ UNCHANGED usedIds /\ UNCHANGED overlaid /\ op' = [op EXCEPT ![a] = none]
    BY <1>2, <1>11
  <1> QED
    BY <1>10, <1>12, <1>13, ExportMoves

LEMMA ExportFailsInv == ASSUME BackupInv, NEW a \in Admin, ExportFails(a) PROVE BackupInv'
  <1>1. PICK none : none = NoOp
    OBVIOUS
  <1>2. none.kind # "export"
    BY <1>1 DEF NoOp
  <1>3. /\ UNCHANGED tables /\ UNCHANGED usedIds /\ UNCHANGED overlaid /\ UNCHANGED files
        /\ op' = [op EXCEPT ![a] = none]
    BY <1>1 DEF ExportFails, Fails, Ends
  <1>4. (\A f \in files' : Importable(f)) /\ Cardinality(files') <= MaxFiles
    BY <1>3 DEF BackupInv
  <1> QED
    BY <1>2, <1>3, <1>4, ExportMoves

-----------------------------------------------------------------------------
(* What writes the tables.                                                 *)

LEMMA StandStill == ASSUME BackupInv, UNCHANGED usedIds, UNCHANGED overlaid PROVE Grows
  BY DEF BackupInv, Ids, Grows

\* Tokens are valid together for what they say of generations and parents.
LEMMA SameLineage ==
  ASSUME NEW f, NEW g, f.status = "none" <=> g.status = "none",
         f.current_generation = g.current_generation, NEW rows, NEW new,
         Present(new) = Present(rows),
         \A i \in Present(rows) : /\ new[i].generation = rows[i].generation
                                  /\ new[i].parent = rows[i].parent,
         TokensValid(f, rows)
  PROVE  TokensValid(g, new)
  <1>1. PICK T : T = Present(rows)
    OBVIOUS
  <1>2. CASE f.status = "none"
    BY <1>2 DEF TokensValid
  <1>3. CASE f.status # "none"
    <2>1. /\ Cardinality(T) = f.current_generation + 1
          /\ {rows[i].generation : i \in T} = 0..f.current_generation
          /\ \A i \in T : IF rows[i].generation = 0 THEN rows[i].parent = 0
                          ELSE /\ rows[i].parent \in T
                               /\ rows[rows[i].parent].generation = rows[i].generation - 1
      BY <1>1, <1>3 DEF TokensValid
    <2>2. {new[i].generation : i \in T} = {rows[i].generation : i \in T}
      BY <1>1
    <2>3. ASSUME NEW i \in T
          PROVE  IF new[i].generation = 0 THEN new[i].parent = 0
                 ELSE /\ new[i].parent \in T
                      /\ new[new[i].parent].generation = new[i].generation - 1
      <3>1. new[i].generation = rows[i].generation /\ new[i].parent = rows[i].parent
        BY <1>1
      <3>2. CASE rows[i].generation = 0
        BY <2>1, <3>1, <3>2
      <3>3. CASE rows[i].generation # 0
        <4>1. rows[i].parent \in T /\ rows[rows[i].parent].generation = rows[i].generation - 1
          BY <2>1, <3>3
        <4>2. new[rows[i].parent].generation = rows[rows[i].parent].generation
          BY <1>1, <4>1
        <4> QED
          BY <3>1, <3>3, <4>1, <4>2
      <3> QED
        BY <3>2, <3>3
    <2> QED
      BY <1>1, <1>3, <2>1, <2>2, <2>3 DEF TokensValid
  <1> QED
    BY <1>2, <1>3

\* Rows of a file laid over those of a table.
LEMMA UpsertedRows ==
  ASSUME NEW old \in [Id -> BackupRow], NEW new \in [Id -> BackupRow],
         Parented(old), Parented(new), NEW rows, rows = Upserted(old, new)
  PROVE  /\ rows \in [Id -> BackupRow]
         /\ Present(rows) = Present(old) \cup Present(new)
         /\ \A i \in Present(rows) : rows[i] = IF i \in Present(new) THEN new[i] ELSE old[i]
         /\ Parented(rows)
  <1>1. \A i \in Id : rows[i] = IF new[i].status = "none" THEN old[i] ELSE new[i]
    BY DEF Upserted
  <1>2. rows \in [Id -> BackupRow]
    BY DEF Upserted
  <1>3. Present(rows) = Present(old) \cup Present(new)
    BY <1>1 DEF Present
  <1>4. \A i \in Present(rows) : rows[i] = IF i \in Present(new) THEN new[i] ELSE old[i]
    BY <1>1 DEF Present
  <1>5. Parented(rows)
    BY <1>3, <1>4 DEF Parented
  <1> QED
    BY <1>2, <1>3, <1>4, <1>5

LEMMA ImportMergeInv ==
  ASSUME BackupInv, NEW a \in Admin, NEW file \in files, ImportMerge(a, file) PROVE BackupInv'
  <1>1. PICK t : t = Overlay(file)
    OBVIOUS
  <1>2. /\ tables' = t /\ Validates(file) /\ TokensUnique(t.tokens)
        /\ overlaid' = (overlaid \/ Leaves(file)) /\ UNCHANGED <<usedIds, files, op>>
    BY <1>1 DEF ImportMerge
  <1>3. /\ DOMAIN t = Fields
        /\ t.secrets = Upserted(tables.secrets, file.secrets)
        /\ t.tokens = Upserted(tables.tokens, file.tokens)
        /\ t.family = IF file.family.status = "none" THEN tables.family ELSE file.family
    BY <1>1 DEF Overlay, Fields
  <1>4. Sound(tables) /\ Sound(file)
    BY DEF BackupInv, Importable
  <1>5. Grows
    BY <1>2 DEF BackupInv, Ids, Grows, Leaves
  <1>6. /\ t.secrets \in [Id -> BackupRow] /\ Parented(t.secrets)
        /\ Present(t.secrets) = Present(tables.secrets) \cup Present(file.secrets)
        /\ \A i \in Present(t.secrets) :
              t.secrets[i] =
                IF i \in Present(file.secrets) THEN file.secrets[i] ELSE tables.secrets[i]
    BY <1>3, <1>4, UpsertedRows DEF Sound
  <1>7. /\ t.tokens \in [Id -> BackupRow] /\ Parented(t.tokens)
        /\ Present(t.tokens) = Present(tables.tokens) \cup Present(file.tokens)
        /\ \A i \in Present(t.tokens) :
              t.tokens[i] = IF i \in Present(file.tokens) THEN file.tokens[i] ELSE tables.tokens[i]
    BY <1>3, <1>4, UpsertedRows DEF Sound
  <1>8. Sound(t)
    <2>1. \A i \in Present(t.secrets) : t.secrets[i].parent < i
      BY <1>4, <1>6 DEF Sound
    <2>2. t.family \in FamilyRow
      BY <1>3, <1>4 DEF Sound
    <2>3. /\ Present(t.secrets) \subseteq usedIds["secrets"]
          /\ Present(t.tokens) \subseteq usedIds["tokens"]
      BY <1>4, <1>6, <1>7 DEF Sound
    <2> QED
      BY <1>2, <1>3, <1>6, <1>7, <2>1, <2>2, <2>3 DEF Sound
  <1>9. ASSUME ~overlaid' PROVE TokensValid(t.family, t.tokens)
    <2>1. ~overlaid /\ ~Leaves(file)
      BY <1>2, <1>9
    <2>2. Present(tables.tokens) \subseteq Present(file.tokens)
      BY <2>1 DEF Leaves, Lineages
    <2>3. /\ Present(t.tokens) = Present(file.tokens)
          /\ \A i \in Present(file.tokens) : t.tokens[i] = file.tokens[i]
      BY <1>7, <2>2
    <2>4. TokensValid(tables.family, tables.tokens) /\ TokensValid(file.family, file.tokens)
      BY <2>1 DEF BackupInv, Importable
    <2>5. CASE file.family.status = "none"
      <3>1. Present(file.tokens) = {} /\ Present(tables.tokens) = {}
        BY <2>2, <2>4, <2>5 DEF TokensValid
      <3>2. tables.family.status = "none"
        <4>1. tables.family.current_generation \in Nat
          BY <1>4 DEF Sound, FamilyRow
        <4>2. Cardinality({}) = 0
          BY FS_EmptySet
        <4> QED
          BY <2>4, <3>1, <4>1, <4>2 DEF TokensValid
      <3> QED
        BY <1>3, <2>3, <2>5, <3>1, <3>2 DEF TokensValid
    <2>6. CASE file.family.status # "none"
      <3>1. t.family = file.family
        BY <1>3, <2>6
      <3> QED
        BY <2>3, <2>4, <3>1, SameLineage
    <2> QED
      BY <2>5, <2>6
  <1>10. Importable(t)'
    <2>1. Sound(t)'
      BY <1>2, <1>8 DEF Sound, Parented, Present, TokensUnique
    <2>2. TokensValid(t.family, t.tokens)' <=> TokensValid(t.family, t.tokens)
      BY DEF TokensValid, Present
    <2> QED
      BY <1>9, <2>1, <2>2 DEF Importable
  <1>11. tables' = t /\ UNCHANGED files /\ UNCHANGED op
    BY <1>2
  <1> QED
    BY <1>5, <1>10, <1>11, TablesMove

LEMMA ImportReplaceInv ==
  ASSUME BackupInv, NEW a \in Admin, NEW file \in files, ImportReplace(a, file) PROVE BackupInv'
  <1>1. /\ tables' = file /\ UNCHANGED files /\ UNCHANGED op
        /\ UNCHANGED usedIds /\ UNCHANGED overlaid
    BY DEF ImportReplace
  <1>2. Grows
    BY <1>1, StandStill
  <1>3. Importable(file)'
    BY <1>2, StaysImportable DEF BackupInv
  <1> QED
    BY <1>1, <1>2, <1>3, TablesMove

LEMMA ImportLegacyOnlyInv ==
  ASSUME BackupInv, NEW a \in Admin, ImportLegacyOnly(a) PROVE BackupInv'
  <1>1. PICK t, none : t = EmptyTables /\ none = NoRow
    OBVIOUS
  <1>2. /\ tables' = t /\ UNCHANGED files /\ UNCHANGED op
        /\ UNCHANGED usedIds /\ UNCHANGED overlaid
    BY <1>1 DEF ImportLegacyOnly
  <1>3. Grows
    BY <1>2, StandStill
  <1>4. none \in BackupRow /\ none.status = "none"
    BY <1>1, BackupBound DEF NoRow, BackupRow, RowStatus
  <1>5. /\ DOMAIN t = Fields /\ t.secrets = [i \in Id |-> none] /\ t.tokens = [i \in Id |-> none]
        /\ t.family \in FamilyRow /\ t.family.status = "none"
    BY <1>1 DEF EmptyTables, Fields, NoFamilyRow, FamilyRow
  <1>6. Present(t.secrets) = {} /\ Present(t.tokens) = {}
    BY <1>4, <1>5 DEF Present
  <1>7. Sound(t)
    BY <1>4, <1>5, <1>6 DEF Sound, Parented, TokensUnique
  <1>8. Importable(t)
    BY <1>5, <1>6, <1>7 DEF Importable, TokensValid
  <1>9. Importable(t)'
    BY <1>3, <1>8, StaysImportable
  <1> QED
    BY <1>2, <1>3, <1>9, TablesMove

LEMMA FamilyRevokedInv == ASSUME BackupInv, FamilyRevoked PROVE BackupInv'
  <1>1. PICK old, family, rows, t :
          /\ old = tables.tokens /\ family = tables.family
          /\ rows = [i \in Id |-> IF old[i].status = "current"
                                  THEN NewRow("revoked", old[i].parent, old[i].generation)
                                  ELSE old[i]]
          /\ t = [tables EXCEPT !.family = [family EXCEPT !.status = "revoked"], !.tokens = rows]
    OBVIOUS
  <1>2. Sound(tables) /\ DOMAIN tables = Fields /\ old \in [Id -> BackupRow] /\ family \in FamilyRow
    BY <1>1 DEF BackupInv, Importable, Sound
  <1>3. /\ tables' = t /\ UNCHANGED files /\ UNCHANGED op
        /\ UNCHANGED usedIds /\ UNCHANGED overlaid /\ family.status = "active"
    BY <1>1, <1>2 DEF FamilyRevoked, Fields
  <1>4. Grows
    BY <1>3, StandStill
  <1>5. /\ DOMAIN t = Fields /\ t.secrets = tables.secrets /\ t.tokens = rows
        /\ t.family = [family EXCEPT !.status = "revoked"]
    BY <1>1, <1>2 DEF Fields
  <1>6. /\ t.family \in FamilyRow /\ t.family.status = "revoked"
        /\ t.family.current_generation = family.current_generation
    BY <1>2, <1>5 DEF FamilyRow
  <1>7. ASSUME NEW i \in Id
        PROVE  /\ rows[i] \in BackupRow /\ rows[i].parent = old[i].parent
               /\ rows[i].generation = old[i].generation /\ rows[i].status # "current"
               /\ rows[i].status = "none" <=> old[i].status = "none"
    <2>1. PICK row, gone : row = old[i] /\ gone = NewRow("revoked", row.parent, row.generation)
      OBVIOUS
    <2>2. row \in BackupRow
      BY <1>2, <2>1
    <2>3. /\ gone \in BackupRow /\ gone.status = "revoked" /\ gone.parent = row.parent
          /\ gone.generation = row.generation
      BY <2>1, <2>2 DEF NewRow, BackupRow, RowStatus
    <2>4. rows[i] = IF row.status = "current" THEN gone ELSE row
      BY <1>1, <2>1
    <2> QED
      BY <2>1, <2>2, <2>3, <2>4
  <1>8. rows \in [Id -> BackupRow] /\ Present(rows) = Present(old)
    BY <1>1, <1>7 DEF Present
  <1>9. \A i \in Present(rows) : /\ rows[i].parent = old[i].parent
                                 /\ rows[i].generation = old[i].generation
                                 /\ rows[i].status # "current"
    BY <1>7 DEF Present
  <1>10. Parented(rows) /\ TokensUnique(rows)
    <2>1. Parented(old) /\ TokensUnique(old)
      BY <1>1, <1>2 DEF Sound
    <2>2. Parented(rows)
      BY <1>8, <1>9, <2>1 DEF Parented
    <2>3. TokensUnique(rows)
      BY <1>8, <1>9, <2>1 DEF TokensUnique
    <2> QED
      BY <2>2, <2>3
  <1>11. Sound(t)
    <2>1. Present(rows) \subseteq usedIds["tokens"]
      BY <1>1, <1>2, <1>8 DEF Sound
    <2>2. /\ tables.secrets \in [Id -> BackupRow] /\ Parented(tables.secrets)
          /\ \A i \in Present(tables.secrets) : tables.secrets[i].parent < i
          /\ Present(tables.secrets) \subseteq usedIds["secrets"]
      BY <1>2 DEF Sound
    <2> QED
      BY <1>5, <1>6, <1>8, <1>10, <2>1, <2>2 DEF Sound
  <1>12. ~overlaid => TokensValid(t.family, t.tokens)
    <2>1. ~overlaid => TokensValid(family, old)
      BY <1>1 DEF BackupInv, Importable
    <2>2. /\ family.status = "none" <=> t.family.status = "none"
          /\ family.current_generation = t.family.current_generation
      BY <1>3, <1>6
    <2>3. \A i \in Present(old) : /\ rows[i].generation = old[i].generation
                                  /\ rows[i].parent = old[i].parent
      BY <1>8, <1>9
    <2>4. TokensValid(family, old) => TokensValid(t.family, rows)
      BY <1>8, <2>2, <2>3, SameLineage
    <2> QED
      BY <1>5, <2>1, <2>4
  <1>13. Importable(t)
    BY <1>11, <1>12 DEF Importable
  <1>14. Importable(t)'
    BY <1>4, <1>13, StaysImportable
  <1> QED
    BY <1>3, <1>4, <1>14, TablesMove

\* The id that is given next is younger than every id in use.
LEMMA FreshIsNew ==
  ASSUME Ids, NEW s \in Lineages, NEW n \in FreshId(s),
         usedIds' = [usedIds EXCEPT ![s] = @ \cup {n}], UNCHANGED overlaid
  PROVE  /\ n \in Id /\ n \notin usedIds[s] /\ \A i \in usedIds[s] : i < n
         /\ Grows
         /\ usedIds'[s] = usedIds[s] \cup {n}
         /\ \A r \in Lineages : r # s => usedIds'[r] = usedIds[r]
  <1>1. n \in Id /\ n \notin usedIds[s] /\ \A j \in Id : j < n => j \in usedIds[s]
    BY DEF FreshId
  <1>2. PICK ids \in SUBSET Id : ids = usedIds[s]
    BY DEF Ids
  <1>3. Dense(ids)
    BY <1>2 DEF Ids
  <1>4. \A i \in ids : i < n
    BY <1>1, <1>2, <1>3, BackupBound DEF Dense, Id
  <1>5. Dense(ids \cup {n})
    BY <1>1, <1>2, <1>3 DEF Dense
  <1>6. /\ usedIds' \in [Lineages -> SUBSET Id] /\ usedIds'[s] = ids \cup {n}
        /\ \A r \in Lineages : r # s => usedIds'[r] = usedIds[r]
    BY <1>1, <1>2 DEF Ids
  <1>7. Grows
    BY <1>2, <1>5, <1>6 DEF Ids, Grows
  <1> QED
    BY <1>1, <1>2, <1>4, <1>6, <1>7

LEMMA SecretRotatesInv == ASSUME BackupInv, NEW i \in Id, SecretRotates(i) PROVE BackupInv'
  <1>1. PICK old : old = tables.secrets
    OBVIOUS
  <1>2. PICK n \in FreshId("secrets") :
          /\ tables' = [tables EXCEPT !.secrets =
                [j \in Id |-> IF j = n THEN NewRow("active", i, 0)
                              ELSE IF old[j].status = "active"
                              THEN NewRow("retired", old[j].parent, 0) ELSE old[j]]]
          /\ usedIds' = [usedIds EXCEPT !["secrets"] = @ \cup {n}]
    <2>1. Sound(tables)
      BY DEF BackupInv, Importable
    <2>2. "secrets" \in DOMAIN tables
      BY <2>1 DEF Sound, Fields
    <2> QED
      BY <1>1, <2>2 DEF SecretRotates
  <1>3. PICK rows, t : /\ rows = [j \in Id |-> IF j = n THEN NewRow("active", i, 0)
                                              ELSE IF old[j].status = "active"
                                              THEN NewRow("retired", old[j].parent, 0) ELSE old[j]]
                       /\ t = [tables EXCEPT !.secrets = rows]
    OBVIOUS
  <1>4. /\ tables' = t /\ old[i].status = "active" /\ UNCHANGED overlaid
        /\ UNCHANGED files /\ UNCHANGED op
    BY <1>1, <1>2, <1>3 DEF SecretRotates
  <1>5. /\ Sound(tables) /\ DOMAIN tables = Fields /\ old \in [Id -> BackupRow] /\ Parented(old)
        /\ Present(old) \subseteq usedIds["secrets"] /\ \A j \in Present(old) : old[j].parent < j
    BY <1>1 DEF BackupInv, Importable, Sound
  <1>6. /\ n \in Id /\ n \notin usedIds["secrets"] /\ \A j \in usedIds["secrets"] : j < n
        /\ Grows /\ usedIds'["secrets"] = usedIds["secrets"] \cup {n}
        /\ usedIds'["tokens"] = usedIds["tokens"]
    <2>1. "secrets" \in Lineages /\ "tokens" \in Lineages
      BY DEF Lineages
    <2> QED
      BY <1>2, <1>4, <2>1, FreshIsNew DEF BackupInv
  <1>7. /\ DOMAIN t = Fields /\ t.secrets = rows /\ t.tokens = tables.tokens
        /\ t.family = tables.family
    BY <1>3, <1>5 DEF Fields
  <1>8. rows[n] \in BackupRow /\ rows[n].parent = i /\ rows[n].status = "active"
    <2>1. PICK new : new = NewRow("active", i, 0)
      OBVIOUS
    <2>2. new \in BackupRow /\ new.parent = i /\ new.status = "active"
      BY <2>1, BackupBound DEF NewRow, BackupRow, RowStatus, Id
    <2> QED
      BY <1>3, <1>6, <2>1, <2>2
  <1>9. ASSUME NEW j \in Id, j # n
        PROVE  /\ rows[j] \in BackupRow /\ rows[j].parent = old[j].parent
               /\ rows[j].status = "none" <=> old[j].status = "none"
    <2>1. PICK row, gone : row = old[j] /\ gone = NewRow("retired", row.parent, 0)
      OBVIOUS
    <2>2. row \in BackupRow
      BY <1>5, <2>1
    <2>3. gone \in BackupRow /\ gone.status = "retired" /\ gone.parent = row.parent
      BY <2>1, <2>2 DEF NewRow, BackupRow, RowStatus
    <2>4. rows[j] = IF row.status = "active" THEN gone ELSE row
      BY <1>3, <1>9, <2>1
    <2> QED
      BY <2>1, <2>2, <2>3, <2>4
  <1>10. rows \in [Id -> BackupRow]
    BY <1>3, <1>8, <1>9
  <1>11. Present(rows) = Present(old) \cup {n} /\ i \in Present(old) /\ i < n
    BY <1>4, <1>5, <1>6, <1>8, <1>9 DEF Present
  <1>12. Parented(rows) /\ \A j \in Present(rows) : rows[j].parent < j
    <2>1. ASSUME NEW j \in Present(rows)
          PROVE  rows[j].parent \in Present(rows) \cup {0} /\ rows[j].parent < j
      <3>1. CASE j = n
        BY <1>8, <1>11, <3>1
      <3>2. CASE j # n
        <4>1. j \in Present(old) /\ j \in Id
          BY <1>11, <3>2 DEF Present
        <4> QED
          BY <1>5, <1>9, <1>11, <3>2, <4>1 DEF Parented
      <3> QED
        BY <3>1, <3>2
    <2> QED
      BY <2>1 DEF Parented
  <1>13. Sound(t)'
    <2>1. t.tokens \in [Id -> BackupRow] /\ t.family \in FamilyRow /\ Parented(t.tokens)
      BY <1>5, <1>7 DEF Sound
    <2>2. Present(t.tokens) \subseteq usedIds["tokens"] /\ TokensUnique(t.tokens)
      BY <1>5, <1>7 DEF Sound
    <2>3. Present(t.secrets) \subseteq usedIds'["secrets"]
      BY <1>5, <1>6, <1>7, <1>11
    <2>4. Present(t.tokens) \subseteq usedIds'["tokens"]
      BY <1>6, <2>2
    <2> QED
      BY <1>7, <1>10, <1>12, <2>1, <2>2, <2>3, <2>4 DEF Sound, Parented, Present, TokensUnique
  <1>14. Importable(t)'
    <2>1. ~overlaid => TokensValid(t.family, t.tokens)
      BY <1>7 DEF BackupInv, Importable
    <2>2. TokensValid(t.family, t.tokens)' <=> TokensValid(t.family, t.tokens)
      BY DEF TokensValid, Present
    <2> QED
      BY <1>4, <1>13, <2>1, <2>2 DEF Importable
  <1> QED
    BY <1>4, <1>6, <1>14, TablesMove

\* A token is consumed and its successor added.
Rotated(old, i, n, next) ==
  [old EXCEPT ![i].status = "consumed", ![n] = NewRow("current", i, next)]

LEMMA RotatedTokens ==
  ASSUME NEW old \in [Id -> BackupRow], Parented(old), TokensUnique(old),
         NEW i \in Present(old), NEW n \in Id, n \notin Present(old), NEW next \in Nat,
         old[i].status = "current", next = old[i].generation + 1,
         \A j \in Present(old) : old[j].generation # next,
         NEW rows, rows = Rotated(old, i, n, next)
  PROVE  /\ rows \in [Id -> BackupRow] /\ Parented(rows) /\ TokensUnique(rows)
         /\ Present(rows) = Present(old) \cup {n}
         /\ rows[n].generation = next /\ rows[n].parent = i
         /\ \A j \in Present(old) : /\ rows[j].generation = old[j].generation
                                    /\ rows[j].parent = old[j].parent
  <1>1. PICK used, new : /\ used = [old[i] EXCEPT !.status = "consumed"]
                         /\ new = NewRow("current", i, next)
    OBVIOUS
  <1>2. i \in Id /\ i # n
    BY DEF Present
  <1>3. PICK row \in BackupRow : row = old[i]
    BY <1>2
  <1>4. /\ used \in BackupRow /\ used.status = "consumed" /\ used.parent = row.parent
        /\ used.generation = row.generation
    BY <1>1, <1>3 DEF BackupRow, RowStatus
  <1>5. /\ new \in BackupRow /\ new.status = "current" /\ new.parent = i /\ new.generation = next
    BY <1>1, <1>2, BackupBound DEF NewRow, BackupRow, RowStatus, Id
  <1>6. rows = [[old EXCEPT ![i] = used] EXCEPT ![n] = new]
    BY <1>1 DEF Rotated
  <1>7. /\ rows[i] = used /\ rows[n] = new /\ rows = [j \in Id |-> rows[j]]
        /\ \A j \in Id : j # i /\ j # n => rows[j] = old[j]
    BY <1>2, <1>6
  <1>8. ASSUME NEW j \in Id, j # n
        PROVE  /\ rows[j] \in BackupRow /\ rows[j].parent = old[j].parent
               /\ rows[j].generation = old[j].generation
               /\ rows[j].status = "none" <=> old[j].status = "none"
               /\ rows[j].status = "current" => old[j].status = "current" /\ j # i
    <2>1. CASE j = i
      BY <1>3, <1>4, <1>7, <2>1
    <2>2. CASE j # i
      BY <1>7, <1>8, <2>2
    <2> QED
      BY <2>1, <2>2
  <1>9. rows \in [Id -> BackupRow]
    BY <1>5, <1>7, <1>8
  <1>10. Present(rows) = Present(old) \cup {n}
    BY <1>5, <1>7, <1>8 DEF Present
  <1>11. Parented(rows)
    <2>1. ASSUME NEW j \in Present(rows) PROVE rows[j].parent \in Present(rows) \cup {0}
      <3>1. CASE j = n
        BY <1>5, <1>7, <1>10, <3>1
      <3>2. CASE j # n
        BY <1>8, <1>10, <3>2 DEF Parented, Present
      <3> QED
        BY <3>1, <3>2
    <2> QED
      BY <2>1 DEF Parented
  <1>12. \A j \in Present(old) :
           /\ rows[j].generation = old[j].generation /\ rows[j].parent = old[j].parent
           /\ rows[j].generation # next
           /\ rows[j].status # "current"
    <2>1. ASSUME NEW j \in Present(old)
          PROVE  /\ rows[j].generation = old[j].generation /\ rows[j].parent = old[j].parent
                 /\ rows[j].generation # next /\ rows[j].status # "current"
      <3>1. j \in Id /\ j # n
        BY DEF Present
      <3>2. old[j].status = "current" => j = i
        BY DEF TokensUnique
      <3> QED
        BY <1>8, <3>1, <3>2
    <2> QED
      BY <2>1
  <1>13. rows[n].generation = next /\ rows[n].parent = i
    BY <1>5, <1>7
  <1>14. TokensUnique(rows)
    <2>1. ASSUME NEW j \in Present(rows), NEW k \in Present(rows), j # k
          PROVE  /\ rows[j].generation # rows[k].generation
                 /\ ~(rows[j].status = "current" /\ rows[k].status = "current")
      <3>1. CASE j = n
        <4>1. k \in Present(old)
          BY <1>10, <2>1, <3>1
        <4>2. rows[k].generation # next /\ rows[k].status # "current"
          BY <1>12, <4>1
        <4>3. rows[j].generation = next
          BY <1>13, <3>1
        <4> QED
          BY <4>2, <4>3
      <3>2. CASE k = n
        <4>1. j \in Present(old)
          BY <1>10, <2>1, <3>2
        <4>2. rows[j].generation # next /\ rows[j].status # "current"
          BY <1>12, <4>1
        <4>3. rows[k].generation = next
          BY <1>13, <3>2
        <4> QED
          BY <4>2, <4>3
      <3>3. CASE j # n /\ k # n
        <4>1. j \in Present(old) /\ k \in Present(old)
          BY <1>10, <3>3
        <4>2. old[j].generation # old[k].generation
          BY <2>1, <4>1 DEF TokensUnique
        <4> QED
          BY <1>12, <4>1, <4>2
      <3> QED
        BY <3>1, <3>2, <3>3
    <2> QED
      BY <2>1 DEF TokensUnique
  <1> QED
    BY <1>9, <1>10, <1>11, <1>12, <1>13, <1>14

\* With its successor the generations still are all there.
LEMMA RotatedLineage ==
  ASSUME NEW f, f.status = "active", f.current_generation \in Nat, NEW old, TokensValid(f, old),
         NEW n, n \notin Present(old), NEW i \in Present(old),
         old[i].generation = f.current_generation,
         NEW g, g.status = "active", g.current_generation = f.current_generation + 1,
         NEW rows, Present(rows) = Present(old) \cup {n},
         rows[n].generation = g.current_generation, rows[n].parent = i,
         \A j \in Present(old) : /\ rows[j].generation = old[j].generation
                                 /\ rows[j].parent = old[j].parent
  PROVE  TokensValid(g, rows)
  <1>1. PICK T, c : T = Present(old) /\ c = f.current_generation
    OBVIOUS
  <1>2. /\ Cardinality(T) = c + 1 /\ {old[j].generation : j \in T} = 0..c
        /\ \A j \in T : IF old[j].generation = 0 THEN old[j].parent = 0
                        ELSE /\ old[j].parent \in T
                             /\ old[old[j].parent].generation = old[j].generation - 1
    BY <1>1 DEF TokensValid
  <1>3. Cardinality(T \cup {n}) = c + 2
    <2>1. IsFiniteSet(T) /\ n \notin T
      BY <1>1, NumberOfRows
    <2>2. Cardinality(T \cup {n}) = Cardinality(T) + 1
      BY <2>1, FS_AddElement
    <2> QED
      BY <1>1, <1>2, <2>2
  <1>4. {rows[j].generation : j \in T \cup {n}} = 0..(c + 1)
    <2>1. {rows[j].generation : j \in T \cup {n}}
             = {old[j].generation : j \in T} \cup {rows[n].generation}
      BY <1>1
    <2>2. 0..(c + 1) = (0..c) \cup {c + 1}
      BY <1>1
    <2> QED
      BY <1>1, <1>2, <2>1, <2>2
  <1>5. ASSUME NEW j \in T \cup {n}
        PROVE  IF rows[j].generation = 0 THEN rows[j].parent = 0
               ELSE /\ rows[j].parent \in T \cup {n}
                    /\ rows[rows[j].parent].generation = rows[j].generation - 1
    <2>1. CASE j = n
      BY <1>1, <2>1
    <2>2. CASE j \in T
      <3>1. rows[j].generation = old[j].generation /\ rows[j].parent = old[j].parent
        BY <1>1, <2>2
      <3>2. CASE old[j].generation = 0
        BY <1>2, <2>2, <3>1, <3>2
      <3>3. CASE old[j].generation # 0
        <4>1. old[j].parent \in T /\ old[old[j].parent].generation = old[j].generation - 1
          BY <1>2, <2>2, <3>3
        <4>2. rows[old[j].parent].generation = old[old[j].parent].generation
          BY <1>1, <4>1
        <4> QED
          BY <3>1, <3>3, <4>1, <4>2
      <3> QED
        BY <3>2, <3>3
    <2> QED
      BY <2>1, <2>2
  <1>6. Cardinality(T \cup {n}) = g.current_generation + 1 /\ g.current_generation = c + 1
    BY <1>1, <1>3
  <1> QED
    BY <1>1, <1>4, <1>5, <1>6 DEF TokensValid

LEMMA RefreshRotatesInv == ASSUME BackupInv, NEW i \in Id, RefreshRotates(i) PROVE BackupInv'
  <1>1. PICK old, f, next, g : /\ old = tables.tokens /\ f = tables.family
                               /\ next = f.current_generation + 1
                               /\ g = [status |-> "active", current_generation |-> next]
    OBVIOUS
  <1>2. /\ Sound(tables) /\ DOMAIN tables = Fields /\ old \in [Id -> BackupRow] /\ Parented(old)
        /\ TokensUnique(old) /\ Present(old) \subseteq usedIds["tokens"] /\ f \in FamilyRow
    BY <1>1 DEF BackupInv, Importable, Sound
  <1>3. f.current_generation \in Nat /\ next \in Nat
    BY <1>1, <1>2 DEF FamilyRow
  <1>4. /\ f.status = "active" /\ old[i].status = "current"
        /\ old[i].generation = f.current_generation
        /\ \A j \in Present(old) : old[j].generation # next
        /\ UNCHANGED files /\ UNCHANGED op /\ UNCHANGED overlaid
    BY <1>1 DEF RefreshRotates
  <1>5. PICK n \in FreshId("tokens") :
          /\ tables' = [tables EXCEPT !.family = g, !.tokens = Rotated(old, i, n, next)]
          /\ usedIds' = [usedIds EXCEPT !["tokens"] = @ \cup {n}]
    <2>1. "tokens" \in DOMAIN tables
      BY <1>2 DEF Fields
    <2> QED
      BY <1>1, <2>1 DEF RefreshRotates, Rotated
  <1>6. PICK rows, t :
          /\ rows = Rotated(old, i, n, next)
          /\ t = [tables EXCEPT !.family = g, !.tokens = rows]
    OBVIOUS
  <1>7. tables' = t
    BY <1>5, <1>6
  <1>8. /\ n \in Id /\ n \notin usedIds["tokens"] /\ Grows
        /\ usedIds'["tokens"] = usedIds["tokens"] \cup {n}
        /\ usedIds'["secrets"] = usedIds["secrets"]
    <2>1. "secrets" \in Lineages /\ "tokens" \in Lineages
      BY DEF Lineages
    <2> QED
      BY <1>4, <1>5, <2>1, FreshIsNew DEF BackupInv
  <1>9. /\ DOMAIN t = Fields /\ t.secrets = tables.secrets /\ t.tokens = rows /\ t.family = g
    BY <1>2, <1>6 DEF Fields
  <1>10. i \in Present(old) /\ n \notin Present(old)
    BY <1>2, <1>4, <1>8 DEF Present
  <1>11. /\ rows \in [Id -> BackupRow] /\ Parented(rows) /\ TokensUnique(rows)
         /\ Present(rows) = Present(old) \cup {n}
         /\ rows[n].generation = next /\ rows[n].parent = i
         /\ \A j \in Present(old) : /\ rows[j].generation = old[j].generation
                                    /\ rows[j].parent = old[j].parent
    <2>1. next = old[i].generation + 1
      BY <1>1, <1>4
    <2> QED
      BY <1>2, <1>3, <1>4, <1>6, <1>8, <1>10, <2>1, RotatedTokens
  <1>12. g.status = "active" /\ g.current_generation = next /\ g \in FamilyRow
    BY <1>1, <1>3 DEF FamilyRow
  <1>13. Sound(t)'
    <2>1. /\ t.secrets \in [Id -> BackupRow] /\ Parented(t.secrets)
          /\ (\A j \in Present(t.secrets) : t.secrets[j].parent < j)
          /\ Present(t.secrets) \subseteq usedIds'["secrets"]
      BY <1>2, <1>8, <1>9 DEF Sound
    <2>2. Present(t.tokens) \subseteq usedIds'["tokens"]
      BY <1>2, <1>8, <1>9, <1>11
    <2> QED
      BY <1>9, <1>11, <1>12, <2>1, <2>2 DEF Sound, Parented, Present, TokensUnique
  <1>14. ~overlaid => TokensValid(t.family, t.tokens)
    <2>1. ~overlaid => TokensValid(f, old)
      BY <1>1 DEF BackupInv, Importable
    <2>2. TokensValid(f, old) => TokensValid(g, rows)
      <3>1. g.current_generation = f.current_generation + 1
        BY <1>1, <1>12
      <3>2. rows[n].generation = g.current_generation
        BY <1>11, <1>12
      <3> QED
        BY <1>3, <1>4, <1>10, <1>11, <1>12, <3>1, <3>2, RotatedLineage
    <2> QED
      BY <1>9, <2>1, <2>2
  <1>15. Importable(t)'
    <2>1. TokensValid(t.family, t.tokens)' <=> TokensValid(t.family, t.tokens)
      BY DEF TokensValid, Present
    <2> QED
      BY <1>4, <1>13, <1>14, <2>1 DEF Importable
  <1> QED
    BY <1>4, <1>7, <1>8, <1>15, TablesMove

-----------------------------------------------------------------------------
(* Every behaviour.                                                        *)

LEMMA BackupInitInv == ASSUME BackupInit PROVE BackupInv
  <1>1. PICK rows, t, none : /\ t = tables /\ none = NoRow
                             /\ rows = tables.tokens
    OBVIOUS
  <1>2. PICK first, head : first = NewRow("active", 0, 0) /\ head = NewRow("current", 0, 0)
    OBVIOUS
  <1>3. /\ none \in BackupRow /\ first \in BackupRow /\ head \in BackupRow
        /\ none.status = "none" /\ first.status = "active" /\ head.status = "current"
        /\ first.parent = 0 /\ head.parent = 0 /\ head.generation = 0
    BY <1>1, <1>2, BackupBound DEF NewRow, NoRow, BackupRow, RowStatus
  <1>4. /\ DOMAIN t = Fields
        /\ t.secrets = [i \in Id |-> IF i = 1 THEN first ELSE none]
        /\ t.tokens = [i \in Id |-> IF i = 1 THEN head ELSE none]
        /\ t.family.status = "active" /\ t.family.current_generation = 0
        /\ t.family \in FamilyRow
    BY <1>1, <1>2 DEF BackupInit, Fields, FamilyRow
  <1>5. 1 \in Id
    BY BackupBound DEF Id
  <1>6. Present(t.secrets) = {1} /\ Present(t.tokens) = {1}
    BY <1>3, <1>4, <1>5 DEF Present
  <1>7. usedIds["secrets"] = {1} /\ usedIds["tokens"] = {1} /\ usedIds \in [Lineages -> SUBSET Id]
    BY <1>5 DEF BackupInit, Lineages
  <1>8. /\ t.secrets \in [Id -> BackupRow] /\ t.tokens \in [Id -> BackupRow]
        /\ t.secrets[1].parent = 0 /\ t.tokens[1].parent = 0 /\ t.tokens[1].generation = 0
    BY <1>3, <1>4, <1>5
  <1>9. Sound(t)
    BY <1>4, <1>6, <1>7, <1>8 DEF Sound, Parented, TokensUnique
  <1>10. TokensValid(t.family, t.tokens)
    <2>1. Cardinality({1}) = 0 + 1
      BY FS_Singleton
    <2>2. {t.tokens[i].generation : i \in {1}} = 0..0
      BY <1>8
    <2> QED
      BY <1>4, <1>6, <1>8, <2>1, <2>2 DEF TokensValid
  <1>11. \A s \in Lineages : Dense(usedIds[s])
    BY <1>7 DEF Lineages, Dense, Id
  <1>12. Ids
    BY <1>7, <1>11 DEF BackupInit, Ids
  <1>13. Cardinality(files) <= MaxFiles
    BY FS_EmptySet, BackupBound DEF BackupInit
  <1>14. \A a \in Admin : op[a].kind # "export"
    BY DEF BackupInit, NoOp
  <1>15. Importable(tables) /\ files = {}
    BY <1>1, <1>9, <1>10 DEF Importable, BackupInit
  <1> QED
    BY <1>12, <1>13, <1>14, <1>15 DEF BackupInv

LEMMA BackupNextInv == ASSUME BackupInv, [BackupNext]_backupVars PROVE BackupInv'
  <1>1. CASE \E a \in Admin : ExportBegin(a) \/ ExportSection(a) \/ ExportEnd(a) \/ ExportFails(a)
    BY <1>1, ExportBeginInv, ExportSectionInv, ExportEndInv, ExportFailsInv
  <1>2. CASE \E a \in Admin : \/ \E file \in files : ImportMerge(a, file) \/ ImportReplace(a, file)
                              \/ ImportLegacyOnly(a)
    BY <1>2, ImportMergeInv, ImportReplaceInv, ImportLegacyOnlyInv
  <1>3. CASE \E i \in Id : RefreshRotates(i) \/ SecretRotates(i)
    BY <1>3, RefreshRotatesInv, SecretRotatesInv
  <1>4. CASE FamilyRevoked
    BY <1>4, FamilyRevokedInv
  <1>5. CASE UNCHANGED backupVars
    <2>1. /\ UNCHANGED tables /\ UNCHANGED usedIds /\ UNCHANGED files /\ UNCHANGED overlaid
          /\ UNCHANGED op
      BY <1>5 DEF backupVars
    <2>2. Grows
      BY <2>1, StandStill
    <2>3. PICK t : t = tables
      OBVIOUS
    <2>4. Importable(t)'
      BY <2>2, <2>3, StaysImportable DEF BackupInv
    <2> QED
      BY <2>1, <2>2, <2>3, <2>4, TablesMove
  <1> QED
    BY <1>1, <1>2, <1>3, <1>4, <1>5 DEF BackupNext

LEMMA BackupInvHolds == BackupSpec => []BackupInv
  <1> QED
    BY BackupInitInv, BackupNextInv, PTL DEF BackupSpec

LEMMA BackupTypesOK == ASSUME BackupInv PROVE BackupTypeOK
  <1>1. Sound(tables)
    BY DEF BackupInv, Importable
  <1>2. ASSUME NEW s \in Lineages, NEW i \in Present(tables[s])
        PROVE  tables[s][i].parent \in Present(tables[s]) \cup {0} /\ i \in usedIds[s]
    <2>1. CASE s = "secrets"
      BY <1>1, <2>1 DEF Sound, Parented
    <2>2. CASE s = "tokens"
      BY <1>1, <2>2 DEF Sound, Parented
    <2> QED
      BY <2>1, <2>2 DEF Lineages
  <1>3. tables.family.status \in {"none", "active", "revoked"}
    BY <1>1 DEF Sound, FamilyRow
  <1> QED
    BY <1>1, <1>2, <1>3 DEF BackupTypeOK, BackupInv, Sound

LEMMA ExportsAreValid == ASSUME BackupInv PROVE ExportsValidate
  BY ImportableValidates DEF BackupInv, ExportsValidate

\* The sections hold what their columns may, within the unique indexes, whatever is
\* exported, imported, refreshed and rotated at once.
THEOREM BackupTypes == BackupSpec => []BackupTypeOK
  <1> QED
    BY BackupTypesOK, BackupInvHolds, PTL

\* What is exported while tokens are refreshed, secrets rotated and files put back
\* passes the validators of an import, for as long as no merge has left rows that its
\* file does not have (src/repositories.ts:1183-1185, 130-250).
THEOREM ExportsPass == BackupSpec => []ExportsValidate
  <1> QED
    BY ExportsAreValid, BackupInvHolds, PTL

-----------------------------------------------------------------------------
(* The composition.                                                        *)

\* What the administrators are busy with.
GrantsOn == topic = "grants"
CredentialsOn == topic = "credentials"
RegistrationOn == topic = "registration"
NativeOn == topic = "native"
BackupOn == topic = "backup"

\* A step of the system is a step of its topic, and leaves the other rows alone.
LEMMA GrantsTurn ==
  ASSUME GrantsOn, [AdministrationNext]_administrationVars
  PROVE  GrantsOn' /\ [GrantsNext]_grantVars
  BY DEF GrantsOn, AdministrationNext, administrationVars, grantVars, grantRows
LEMMA GrantsRest ==
  ASSUME ~GrantsOn, [AdministrationNext]_administrationVars
  PROVE  (~GrantsOn)' /\ UNCHANGED grantRows
  BY DEF GrantsOn, AdministrationNext, administrationVars

LEMMA CredentialsTurn ==
  ASSUME CredentialsOn, [AdministrationNext]_administrationVars
  PROVE  CredentialsOn' /\ [CredentialsNext]_credentialVars
  BY DEF CredentialsOn, AdministrationNext, administrationVars, credentialVars, credentialRows
LEMMA CredentialsRest ==
  ASSUME ~CredentialsOn, [AdministrationNext]_administrationVars
  PROVE  (~CredentialsOn)' /\ UNCHANGED credentialRows
  BY DEF CredentialsOn, AdministrationNext, administrationVars

LEMMA RegistrationTurn ==
  ASSUME RegistrationOn, [AdministrationNext]_administrationVars
  PROVE  RegistrationOn' /\ [RegistrationNext]_registrationVars
  BY DEF RegistrationOn, AdministrationNext, administrationVars, registrationVars,
     registrationRows, registry
LEMMA RegistrationRest ==
  ASSUME ~RegistrationOn, [AdministrationNext]_administrationVars
  PROVE  (~RegistrationOn)' /\ UNCHANGED registrationRows
  BY DEF RegistrationOn, AdministrationNext, administrationVars

LEMMA NativeTurn ==
  ASSUME NativeOn, [AdministrationNext]_administrationVars
  PROVE  NativeOn' /\ [NativeNext]_nativeVars
  BY DEF NativeOn, AdministrationNext, administrationVars, nativeVars, nativeRows
LEMMA NativeRest ==
  ASSUME ~NativeOn, [AdministrationNext]_administrationVars
  PROVE  (~NativeOn)' /\ UNCHANGED nativeRows
  BY DEF NativeOn, AdministrationNext, administrationVars

LEMMA BackupTurn ==
  ASSUME BackupOn, [AdministrationNext]_administrationVars
  PROVE  BackupOn' /\ [BackupNext]_backupVars
  BY DEF BackupOn, AdministrationNext, administrationVars, backupVars, backupRows
LEMMA BackupRest ==
  ASSUME ~BackupOn, [AdministrationNext]_administrationVars
  PROVE  (~BackupOn)' /\ UNCHANGED backupRows
  BY DEF BackupOn, AdministrationNext, administrationVars

\* By the construction of AdministrationNext, one topic on is one module at work: this
\* takes what was proved of the modules over to the composition.
LEMMA EachTopicAlone ==
  AdministrationSpec =>
    /\ GrantsOn => GrantsSpec
    /\ CredentialsOn => CredentialsSpec
    /\ RegistrationOn => RegistrationSpec
    /\ NativeOn => NativeSpec
    /\ BackupOn => BackupSpec
  <1>1. AdministrationInit =>
          GrantsInit /\ CredentialsInit /\ RegistrationInit /\ NativeInit /\ BackupInit
    BY DEF AdministrationInit
  <1>2. GrantsOn /\ [AdministrationNext]_administrationVars =>
          GrantsOn' /\ [GrantsNext]_grantVars
    BY GrantsTurn
  <1>3. CredentialsOn /\ [AdministrationNext]_administrationVars =>
          CredentialsOn' /\ [CredentialsNext]_credentialVars
    BY CredentialsTurn
  <1>4. RegistrationOn /\ [AdministrationNext]_administrationVars =>
          RegistrationOn' /\ [RegistrationNext]_registrationVars
    BY RegistrationTurn
  <1>5. NativeOn /\ [AdministrationNext]_administrationVars =>
          NativeOn' /\ [NativeNext]_nativeVars
    BY NativeTurn
  <1>6. BackupOn /\ [AdministrationNext]_administrationVars =>
          BackupOn' /\ [BackupNext]_backupVars
    BY BackupTurn
  <1> QED
    BY <1>1, <1>2, <1>3, <1>4, <1>5, <1>6, PTL
       DEF AdministrationSpec, GrantsSpec, CredentialsSpec, RegistrationSpec, NativeSpec, BackupSpec

\* What every topic keeps of its rows, its own and when another is on.
GrantsKept == GrantsTypeOK /\ DecidedOnce
CredentialsKept == CredentialsTypeOK /\ OneActiveCredential /\ AnswersAreCurrent
BackupsKept == BackupTypeOK /\ ExportsValidate

LEMMA AllKeptAtFirst ==
  ASSUME AdministrationInit
  PROVE  GrantsKept /\ CredentialsKept /\ RegistrationTypeOK /\ NativeTypeOK /\ BackupsKept
  <1>1. /\ GrantsInit /\ CredentialsInit /\ RegistrationInit /\ NativeInit /\ BackupInit
    BY DEF AdministrationInit
  <1>2. GrantsKept
    <2>1. LegacyInv
      BY <1>1, LegacyInitInv
    <2> QED
      BY <2>1, LegacyTypes DEF GrantsKept, LegacyInv, AllDecided, Decided, About, DecidedOnce
  <1>3. CredentialsKept
    BY <1>1, SecretsInitInv DEF CredentialsKept, SecretsInv, Exclusion, SecretHeld, OwnerHeld,
       Using, Sharing, AnswersAreCurrent
  <1>4. RegistrationTypeOK
    BY <1>1, RegistryInitInv DEF RegistryInv, Tables, RowsRefer, RegistrationTypeOK
  <1>5. NativeTypeOK
    BY <1>1, NativeInitInv, NativeTypesOK
  <1>6. BackupsKept
    BY <1>1, BackupInitInv, BackupTypesOK, ExportsAreValid DEF BackupsKept
  <1> QED
    BY <1>2, <1>3, <1>4, <1>5, <1>6

LEMMA GrantsStand == ASSUME GrantsKept, UNCHANGED grantRows PROVE GrantsKept'
  BY DEF GrantsKept, grantRows, GrantsTypeOK, DecidedOnce, Pending

LEMMA CredentialsStand == ASSUME CredentialsKept, UNCHANGED credentialRows
  PROVE  CredentialsKept'
  BY DEF CredentialsKept, credentialRows, CredentialsTypeOK, OneActiveCredential,
     AnswersAreCurrent, Active, Working, Eligible

LEMMA RegistryStands ==
  ASSUME RegistrationTypeOK, UNCHANGED registrationRows PROVE RegistrationTypeOK'
  BY DEF registrationRows, registry, RegistrationTypeOK, Exists

LEMMA NativeGrantsStand == ASSUME NativeTypeOK, UNCHANGED nativeRows PROVE NativeTypeOK'
  BY DEF nativeRows, NativeTypeOK, Unique, Bounded, Count

LEMMA BackupsStand == ASSUME BackupsKept, UNCHANGED backupRows PROVE BackupsKept'
  BY DEF backupRows, BackupsKept, BackupTypeOK, ExportsValidate, Present, TokensUnique

LEMMA GrantsAlwaysKept == AdministrationSpec => []GrantsKept
  <1>1. AdministrationInit => GrantsKept
    BY AllKeptAtFirst
  <1>2. ~GrantsOn /\ [AdministrationNext]_administrationVars =>
          (~GrantsOn)' /\ UNCHANGED grantRows
    BY GrantsRest
  <1>3. GrantsKept /\ UNCHANGED grantRows => GrantsKept'
    BY GrantsStand
  <1>4. GrantsSpec => []GrantsKept
    BY GrantTypes, OneDecision, PTL DEF GrantsKept
  <1> QED
    BY <1>1, <1>2, <1>3, <1>4, EachTopicAlone, PTL DEF AdministrationSpec

LEMMA CredentialsAlwaysKept == AdministrationSpec => []CredentialsKept
  <1>1. AdministrationInit => CredentialsKept
    BY AllKeptAtFirst
  <1>2. ~CredentialsOn /\ [AdministrationNext]_administrationVars =>
          (~CredentialsOn)' /\ UNCHANGED credentialRows
    BY CredentialsRest
  <1>3. CredentialsKept /\ UNCHANGED credentialRows => CredentialsKept'
    BY CredentialsStand
  <1>4. CredentialsSpec => []CredentialsKept
    BY CredentialTypes, OneSecretWorks, AnswersToCurrentSecrets, PTL DEF CredentialsKept
  <1> QED
    BY <1>1, <1>2, <1>3, <1>4, EachTopicAlone, PTL DEF AdministrationSpec

LEMMA RegistrationAlwaysKept == AdministrationSpec => []RegistrationTypeOK
  <1>1. AdministrationInit => RegistrationTypeOK
    BY AllKeptAtFirst
  <1>2. ~RegistrationOn /\ [AdministrationNext]_administrationVars =>
          (~RegistrationOn)' /\ UNCHANGED registrationRows
    BY RegistrationRest
  <1>3. RegistrationTypeOK /\ UNCHANGED registrationRows => RegistrationTypeOK'
    BY RegistryStands
  <1>4. RegistrationSpec => []RegistrationTypeOK
    BY TablesHold, PTL
  <1> QED
    BY <1>1, <1>2, <1>3, <1>4, EachTopicAlone, PTL DEF AdministrationSpec

LEMMA NativeAlwaysKept == AdministrationSpec => []NativeTypeOK
  <1>1. AdministrationInit => NativeTypeOK
    BY AllKeptAtFirst
  <1>2. ~NativeOn /\ [AdministrationNext]_administrationVars =>
          (~NativeOn)' /\ UNCHANGED nativeRows
    BY NativeRest
  <1>3. NativeTypeOK /\ UNCHANGED nativeRows => NativeTypeOK'
    BY NativeGrantsStand
  <1>4. NativeSpec => []NativeTypeOK
    BY NativeTypes, PTL
  <1> QED
    BY <1>1, <1>2, <1>3, <1>4, EachTopicAlone, PTL DEF AdministrationSpec

LEMMA BackupAlwaysKept == AdministrationSpec => []BackupsKept
  <1>1. AdministrationInit => BackupsKept
    BY AllKeptAtFirst
  <1>2. ~BackupOn /\ [AdministrationNext]_administrationVars =>
          (~BackupOn)' /\ UNCHANGED backupRows
    BY BackupRest
  <1>3. BackupsKept /\ UNCHANGED backupRows => BackupsKept'
    BY BackupsStand
  <1>4. BackupSpec => []BackupsKept
    BY BackupTypes, ExportsPass, PTL DEF BackupsKept
  <1> QED
    BY <1>1, <1>2, <1>3, <1>4, EachTopicAlone, PTL DEF AdministrationSpec

\* The rows of all five topics hold what the code can put there, whichever of them the
\* administrators are busy with.
THEOREM AdministrationTypes == AdministrationSpec => []AdministrationTypeOK
  <1>1. /\ GrantsKept /\ CredentialsKept /\ RegistrationTypeOK /\ NativeTypeOK /\ BackupsKept
        => AdministrationTypeOK
    BY DEF GrantsKept, CredentialsKept, BackupsKept, AdministrationTypeOK
  <1> QED
    BY <1>1, GrantsAlwaysKept, CredentialsAlwaysKept, RegistrationAlwaysKept, NativeAlwaysKept,
       BackupAlwaysKept, PTL

\* One decision for a request, one secret that works, answers under a secret that works,
\* and exports that can be imported: all of them in the composed system.
THEOREM AdministrationIsSafe ==
  AdministrationSpec =>
          [](DecidedOnce /\ OneActiveCredential /\ AnswersAreCurrent /\ ExportsValidate)
  <1>1. GrantsKept /\ CredentialsKept /\ BackupsKept =>
          DecidedOnce /\ OneActiveCredential /\ AnswersAreCurrent /\ ExportsValidate
    BY DEF GrantsKept, CredentialsKept, BackupsKept
  <1> QED
    BY <1>1, GrantsAlwaysKept, CredentialsAlwaysKept, BackupAlwaysKept, PTL

\* Nobody is about to grant: no operation of another topic passes for the bulk grant of another topic.
NobodyGrants == \A a \in Admin : op[a].kind # "granting"

LEMMA NobodyElseGrants == AdministrationSpec => (~NativeOn => []NobodyGrants)
  <1>1. LegacyInv => NobodyGrants
    BY DEF LegacyInv, Types, Operation, ForPerson, ForGrant, ForGrants, ForRequest, Decision,
       NoOp, NobodyGrants
  <1>2. RegistryInv => NobodyGrants
    <2> SUFFICES ASSUME RegistryInv, NEW a \in Admin PROVE op[a].kind # "granting"
      BY DEF NobodyGrants
    <2>1. CASE op[a] = NoOp
      BY <2>1 DEF NoOp
    <2>2. CASE op[a] # NoOp
      <3>1. op[a].kind \in Kinds
        BY <2>2, KeptStanding DEF CheckStands
      <3> QED
        BY <3>1 DEF Kinds
    <2> QED
      BY <2>1, <2>2
  <1>3. BackupInv /\ NobodyGrants /\ [BackupNext]_backupVars => NobodyGrants'
    <2> SUFFICES ASSUME BackupInv, NobodyGrants, [BackupNext]_backupVars, NEW b \in Admin
                 PROVE  op'[b].kind # "granting"
      BY DEF NobodyGrants
    <2>1. CASE op' = op
      BY <2>1 DEF NobodyGrants
    <2>2. ASSUME NEW a \in Admin, NEW o, op' = [op EXCEPT ![a] = o], o.kind # "granting"
          PROVE  op'[b].kind # "granting"
      BY <2>2 DEF BackupInv, Ids, NobodyGrants
    <2>3. ASSUME NEW a \in Admin, ExportBegin(a) PROVE op'[b].kind # "granting"
      <3>1. PICK o : o = [kind |-> "export", snapshot |-> tables, file |-> <<>>]
        OBVIOUS
      <3>2. o.kind # "granting"
        BY <3>1
      <3>3. op' = [op EXCEPT ![a] = o]
        BY <2>3, <3>1 DEF ExportBegin, Begins
      <3> QED
        BY <2>2, <3>2, <3>3
    <2>4. ASSUME NEW a \in Admin, ExportSection(a) PROVE op'[b].kind # "granting"
      <3>1. op[a].kind = "export" /\ Exporting(op[a])
        BY <2>4 DEF ExportSection, Doing, BackupInv
      <3>2. PICK f : op' = [op EXCEPT ![a] = [op[a] EXCEPT !.file = f]]
        BY <2>4 DEF ExportSection, Goes
      <3>3. PICK o : o = [op[a] EXCEPT !.file = f]
        OBVIOUS
      <3>4. o.kind = "export"
        BY <3>1, <3>3 DEF Exporting
      <3> QED
        BY <2>2, <3>2, <3>3, <3>4
    <2>5. ASSUME NEW a \in Admin, Ends(a) PROVE op'[b].kind # "granting"
      <3>1. PICK none : none = NoOp
        OBVIOUS
      <3>2. none.kind # "granting"
        BY <3>1 DEF NoOp
      <3>3. op' = [op EXCEPT ![a] = none]
        BY <2>5, <3>1 DEF Ends
      <3> QED
        BY <2>2, <3>2, <3>3
    <2> QED
      BY <2>1, <2>3, <2>4, <2>5 DEF BackupNext, backupVars, ExportEnd, ExportFails, Fails,
         ImportMerge, ImportReplace, ImportLegacyOnly, RefreshRotates, SecretRotates, FamilyRevoked
  <1>4. AdministrationInit => NobodyGrants
    <2> SUFFICES ASSUME AdministrationInit, NEW a \in Admin PROVE op[a].kind # "granting"
      BY DEF NobodyGrants
    <2>1. op[a] = NoOp
      BY DEF AdministrationInit, BackupInit
    <2> QED
      BY <2>1 DEF NoOp
  <1>5. CredentialsOn /\ NobodyGrants /\ [AdministrationNext]_administrationVars =>
          CredentialsOn' /\ NobodyGrants'
    BY DEF CredentialsOn, NobodyGrants, AdministrationNext, administrationVars
  <1>6. BackupOn /\ [AdministrationNext]_administrationVars => BackupOn' /\ [BackupNext]_backupVars
    BY BackupTurn
  <1>7. AdministrationInit => GrantsOn \/ CredentialsOn \/ RegistrationOn \/ NativeOn \/ BackupOn
    BY DEF AdministrationInit, GrantsOn, CredentialsOn, RegistrationOn, NativeOn, BackupOn
  <1>8. GrantsSpec => []NobodyGrants
    BY <1>1, LegacyInvHolds, PTL
  <1>9. RegistrationSpec => []NobodyGrants
    BY <1>2, RegistryInvHolds, PTL
  <1>10. AdministrationSpec /\ CredentialsOn => []NobodyGrants
    BY <1>4, <1>5, PTL DEF AdministrationSpec
  <1>11. AdministrationSpec /\ BackupOn => []NobodyGrants
    BY <1>3, <1>4, <1>6, BackupInvHolds, EachTopicAlone, PTL DEF AdministrationSpec
  <1> QED
    BY <1>7, <1>8, <1>9, <1>10, <1>11, EachTopicAlone, PTL DEF AdministrationSpec

LEMMA DeniedIsQueuedComposed == AdministrationSpec => DeniedIsQueued
  <1>1. ASSUME ~GrantsOn, [AdministrationNext]_administrationVars
        PROVE  [\A p \in Person : login[p] # "out" /\ login'[p] = "out" =>
                  \E r \in Request :
                     /\ requests'[r].person = p
                     /\ \/ requests'[r].status = "pending"
                        \/ requests'[r].status \in {"rejected", "closed"} /\ requests'[r].fresh]_grantVars
    BY <1>1, GrantsRest DEF grantRows
  <1>2. ~GrantsOn /\ [AdministrationNext]_administrationVars => (~GrantsOn)'
    BY GrantsRest
  <1> QED
    BY <1>1, <1>2, EachTopicAlone, RefusalsAreQueued, PTL DEF AdministrationSpec, DeniedIsQueued

LEMMA RevivedByPatchOnlyComposed == AdministrationSpec => RevivedByPatchOnly
  <1>1. ASSUME ~GrantsOn, [AdministrationNext]_administrationVars
        PROVE  [\A g \in Grant :
                  grants[g].status \in {"revoked", "expired"}
                    /\ grants'[g].status \in {"active", "pending_user_link"} =>
                  \E a \in Admin : /\ op[a].kind = "patch" /\ op[a].grant = g
                                   /\ op[a].named \/ op[a].status # grants[g].status]_grantVars
    BY <1>1, GrantsRest DEF grantRows
  <1>2. ~GrantsOn /\ [AdministrationNext]_administrationVars => (~GrantsOn)'
    BY GrantsRest
  <1> QED
    BY <1>1, <1>2, EachTopicAlone, OnlyPatchRevives, PTL DEF AdministrationSpec, RevivedByPatchOnly

LEMMA CommitSeesPreviewComposed == AdministrationSpec => CommitSeesPreview
  <1>1. ASSUME ~RegistrationOn, [AdministrationNext]_administrationVars
        PROVE  [\A a \in Admin : Doing(a, "commit") /\ lists' # lists /\ op'[a] = NoOp
                                   => lists[op[a].list] = op[a].seen]_registrationVars
    BY <1>1, RegistrationRest DEF registrationRows, registry
  <1>2. ~RegistrationOn /\ [AdministrationNext]_administrationVars => (~RegistrationOn)'
    BY RegistrationRest
  <1> QED
    BY <1>1, <1>2, EachTopicAlone, CommitsAreOfTheSeen, PTL DEF AdministrationSpec, CommitSeesPreview

LEMMA LinksStandComposed == AdministrationSpec => LinksStand
  <1>1. ASSUME ~RegistrationOn, [AdministrationNext]_administrationVars
        PROVE  [/\ lists'["allowances"] # lists["allowances"] =>
                     \A e \in lists'["allowances"] : Registered(e)'
                /\ \A e \in Bridge \X Scope :
                     /\ mapping'[e].status = "active"
                     /\ binding'[e[1]] # NoTool
                     /\ mapping'[e] # mapping[e] \/ binding'[e[1]] # binding[e[1]]
                     => mapping'[e].key \in Permissions(binding[e[1]])'
                /\ \A e \in Entry : mapping'[e].status = "active" /\ mapping'[e] # mapping[e]
                                      => scopes'[e[2]] = "active"]_registrationVars
    BY <1>1, RegistrationRest DEF registrationRows, registry
  <1>2. ~RegistrationOn /\ [AdministrationNext]_administrationVars => (~RegistrationOn)'
    BY RegistrationRest
  <1> QED
    BY <1>1, <1>2, EachTopicAlone, WhatIsWrittenStands, PTL DEF AdministrationSpec, LinksStand

LEMMA BulkCoversComposed == AdministrationSpec => BulkCovers
  <1>1. ASSUME NobodyGrants
        PROVE  [\A a \in Admin :
                  Doing(a, "granting") /\ op[a].what = "bulk" /\ op'[a].kind = "told" =>
                    \A p \in op[a].people \X op[a].scopes :
                      /\ p[2] \in offered
                      /\ IF p[1] \in op[a].known
                         THEN /\ people[p[1]] = "active"
                              /\ Count(native', p, "active") = 1
                              /\ \A i \in DOMAIN native'[p] : native'[p][i].status = "active" =>
                                   native'[p][i].until = Forever \/ native'[p][i].until > op[a].checked
                         ELSE Count(native', p, "pending_user_link") = 1]_nativeVars
    BY <1>1 DEF NobodyGrants, Doing
  <1> QED
    BY <1>1, NobodyElseGrants, EachTopicAlone, BulkGrantsCover, PTL DEF AdministrationSpec, BulkCovers

\* What the steps of each topic may never do, no step of the composed system does: who is
\* refused is queued, only a PATCH revives a grant, a list is committed over what was
\* shown, what is written refers to what stands, and a bulk grant covers its matrix.
THEOREM AdministrationSteps ==
  AdministrationSpec =>
    DeniedIsQueued /\ RevivedByPatchOnly /\ CommitSeesPreview /\ LinksStand /\ BulkCovers
  <1> QED
    BY DeniedIsQueuedComposed, RevivedByPatchOnlyComposed, CommitSeesPreviewComposed,
       LinksStandComposed, BulkCoversComposed
=============================================================================
