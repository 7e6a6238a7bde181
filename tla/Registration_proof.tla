-------------------------- MODULE Registration_proof --------------------------
(***************************************************************************)
(* Proofs about Registration, for any number of administrators, scopes,    *)
(* resources, tools and permissions, and whatever work goes on at once.    *)
(*                                                                         *)
(* An operation that was checked waits to commit.  What its check found    *)
(* stands meanwhile (CheckStands) because the operation holds locks on it, *)
(* and no two operations hold locks that conflict (Compatible): a step of  *)
(* another administrator spares what those rows say (SparesRegistry).      *)
(***************************************************************************)
EXTENDS Registration, TLAPS

Tables ==
  /\ agenda \in Agendas
  /\ scopes \in [Scope -> Switch \cup {"none"}]
  /\ resources \in [Resource -> Status \cup {"none"}]
  /\ mapping \in [Entry -> [status : Switch \cup {"none"}, key : Key \cup {NoKey}]]
  /\ binding \in [Bridge -> Tool \cup {NoTool}]
  /\ tools \in [Tool -> (SUBSET Key) \cup {NotATool}]
  /\ client \in Status \cup {"none"}
  /\ lists \in [List -> (SUBSET Entry) \cup (SUBSET Uri)]
  /\ op = [a \in Admin |-> op[a]]

\* What the rows say of one another.
RowsRefer ==
  /\ \A e \in Entry : \/ mapping[e] = NoMapping
                      \/ /\ mapping[e].status \in Switch
                         /\ resources[e[1]] # "none" /\ scopes[e[2]] # "none"
                         /\ mapping[e].key = NoKey <=> e[1] \in Native
  /\ \A r \in Bridge : binding[r] # NoTool => binding[r] \in bound
  /\ bound \subseteq {t \in Tool : Exists(t)}
  /\ \A list \in List : lists[list] \subseteq Items(list)

-----------------------------------------------------------------------------
(* What the check of an operation found.                                   *)

ActiveScopes(o, S) ==
  S \subseteq Scope /\ \A s \in S : scopes[s] = "active" /\ ScopeRow(s) \in o.share
TargetsFit(o, E) ==
  /\ \A e \in E : Registered(e)
  /\ \A e \in E : {MappingRow(e), ResourceRow(e[1]), ScopeRow(e[2])} \subseteq o.share

NativeStands(o) ==
  o.resource \in Native /\ o.status \in Status /\ ActiveScopes(o, o.scopes)

BridgeStands(o) ==
  /\ o.resource \in Bridge /\ o.status \in Status /\ o.tool \in Tool
  /\ ActiveScopes(o, DOMAIN o.map)
  /\ Exists(o.tool) /\ ToolRow(o.tool) \in o.share
  /\ \A s \in DOMAIN o.map : o.map[s] \in Permissions(o.tool)

MappingStands(o) ==
  /\ o.entry \in Entry /\ o.status \in Switch /\ o.key \in Key \cup {NoKey}
  /\ resources[o.entry[1]] # "none" /\ ResourceRow(o.entry[1]) \in o.share
  /\ scopes[o.entry[2]] # "none" /\ ScopeRow(o.entry[2]) \in o.share
  /\ o.status = "active" => scopes[o.entry[2]] = "active"
  /\ o.entry[1] \in Native => o.key = NoKey
  /\ o.entry[1] \in Bridge =>
       /\ binding[o.entry[1]] # NoTool /\ BindingRow(o.entry[1]) \in o.share
       /\ o.key \in Permissions(binding[o.entry[1]])
       /\ PermissionRow(binding[o.entry[1]], o.key) \in o.share

BindingStands(o) ==
  /\ o.resource \in Bridge /\ o.tool \in Tool
  /\ resources[o.resource] # "none" /\ ResourceRow(o.resource) \in o.update
  /\ Exists(o.tool) /\ ToolRow(o.tool) \in o.share
  /\ o.status = "active" => Uncovered(o.resource, o.tool) = {}

ClientStands(o) ==
  /\ o.status \in Status /\ o.allowances \subseteq Entry /\ o.redirect_uris \subseteq Uri
  /\ TargetsFit(o, o.allowances)

ListStands(o) ==
  /\ o.list \in List /\ o.items \subseteq Items(o.list) /\ client # "none"
  /\ o.kind # "preview" => /\ TargetsFit(o, Named(o.list, o.items))
                           /\ ClientRow \in o.update
  /\ o.kind # "replace" => {"list", "items", "seen"} \subseteq DOMAIN o
  /\ o.kind = "commit" => lists[o.list] = o.seen

Kinds == {"native", "bridge", "mapping", "binding", "client", "preview", "commit", "replace"}

CheckStands(o) ==
  /\ o.kind \in Kinds /\ {"kind", "share", "update"} \subseteq DOMAIN o
  /\ o.kind = "native" => NativeStands(o)
  /\ o.kind = "bridge" => BridgeStands(o)
  /\ o.kind = "mapping" => MappingStands(o)
  /\ o.kind = "binding" => BindingStands(o)
  /\ o.kind = "client" => ClientStands(o)
  /\ o.kind \in {"preview", "commit", "replace"} => ListStands(o)

\* A row that one has locked FOR UPDATE no other has locked.
Compatible ==
  \A a, b \in Admin :
    a # b => (Holds(a, "share") \cup Holds(a, "update")) \cap Holds(b, "update") = {}

AllStand == \A a \in Admin : op[a] # NoOp => CheckStands(op[a])

RegistryInv == Tables /\ RowsRefer /\ Compatible /\ AllStand

-----------------------------------------------------------------------------
(* Locks.                                                                  *)

LEMMA Entries ==
  ASSUME NEW e \in Entry PROVE e[1] \in Resource /\ e[2] \in Scope /\ e = <<e[1], e[2]>>
  BY DEF Entry

LEMMA KeptStanding ==
  ASSUME RegistryInv, NEW a \in Admin, op[a] # NoOp
  PROVE  /\ CheckStands(op[a])
         /\ Holds(a, "share") = op[a].share /\ Holds(a, "update") = op[a].update
  BY DEF RegistryInv, AllStand, CheckStands, Holds

LEMMA KeptByNobody ==
  ASSUME NEW a, op[a] = NoOp PROVE Holds(a, "share") = {} /\ Holds(a, "update") = {}
  BY DEF Holds, NoOp

\* What a is granted, or holds, nobody else holds in a way that conflicts.
LEMMA NobodyElse ==
  ASSUME RegistryInv, NEW a \in Admin, NEW b \in Admin, a # b, op[b] # NoOp,
         NEW share, NEW update, CanLock(a, share, update), NEW row
  PROVE  /\ row \in update => row \notin op[b].share /\ row \notin op[b].update
         /\ row \in share => row \notin op[b].update
  BY KeptStanding DEF CanLock

LEMMA Holding ==
  ASSUME RegistryInv, NEW a \in Admin, NEW b \in Admin, a # b, op[a] # NoOp, op[b] # NoOp, NEW row
  PROVE  /\ row \in op[a].update => row \notin op[b].share /\ row \notin op[b].update
         /\ row \in op[a].share => row \notin op[b].update
  <1>1. /\ (op[a].share \cup op[a].update) \cap op[b].update = {}
        /\ (op[b].share \cup op[b].update) \cap op[a].update = {}
    BY KeptStanding DEF RegistryInv, Compatible
  <1> QED
    BY <1>1

-----------------------------------------------------------------------------
(* What the steps of others leave alone.                                   *)

SparesScopes(o) ==
  \A s \in Scope : scopes[s] # "none" =>
    scopes'[s] # "none" /\ (ScopeRow(s) \in o.share => scopes'[s] = scopes[s])
SparesResources(o) ==
  \A r \in Resource : resources[r] # "none" =>
    resources'[r] # "none" /\ (ResourceRow(r) \in o.share => resources'[r] = resources[r])
SparesMappings(o) ==
  \A e \in Entry :
    /\ resources[e[1]] # "none"
    /\ MappingRow(e) \in o.share \/ (e[1] \in Bridge /\ ResourceRow(e[1]) \in o.update)
    => mapping'[e] = mapping[e]
SparesBindings(o) ==
  \A r \in Bridge : resources[r] # "none" /\ BindingRow(r) \in o.share => binding'[r] = binding[r]
SparesTools(o) ==
  /\ \A t \in Tool : Exists(t) /\ ToolRow(t) \in o.share => tools'[t] = tools[t]
  /\ \A t \in Tool : \A k \in Permissions(t) :
        PermissionRow(t, k) \in o.share => k \in Permissions(t)'
SparesClient(o) ==
  client # "none" => client' # "none" /\ (ClientRow \in o.update => lists' = lists)

SparesRegistry(o) == /\ SparesScopes(o) /\ SparesResources(o) /\ SparesMappings(o)
                     /\ SparesBindings(o) /\ SparesTools(o) /\ SparesClient(o)

LEMMA TargetsStand ==
  ASSUME NEW o, NEW E \in SUBSET Entry, TargetsFit(o, E), SparesRegistry(o) PROVE TargetsFit(o, E)'
  <1>1. ASSUME NEW e \in E PROVE Registered(e)'
    <2>1. e[1] \in Resource /\ e[2] \in Scope /\ e \in Entry
      BY Entries
    <2>2. Registered(e) /\ MappingRow(e) \in o.share
          /\ ResourceRow(e[1]) \in o.share /\ ScopeRow(e[2]) \in o.share
      BY DEF TargetsFit
    <2>3. resources[e[1]] # "none" /\ scopes[e[2]] # "none"
      BY <2>2 DEF Registered
    <2>4. scopes'[e[2]] = scopes[e[2]]
      BY <2>1, <2>2, <2>3 DEF SparesRegistry, SparesScopes
    <2>5. resources'[e[1]] = resources[e[1]]
      BY <2>1, <2>2, <2>3 DEF SparesRegistry, SparesResources
    <2>6. mapping'[e] = mapping[e]
      BY <2>1, <2>2, <2>3 DEF SparesRegistry, SparesMappings
    <2> QED
      BY <2>2, <2>4, <2>5, <2>6 DEF Registered
  <1> QED
    BY <1>1 DEF TargetsFit

LEMMA ScopesStand ==
  ASSUME NEW o, NEW S, ActiveScopes(o, S), SparesRegistry(o) PROVE ActiveScopes(o, S)'
  BY DEF ActiveScopes, SparesRegistry, SparesScopes

LEMMA BridgeStaysSo ==
  ASSUME NEW o, BridgeStands(o), SparesRegistry(o) PROVE BridgeStands(o)'
  <1>1. ActiveScopes(o, DOMAIN o.map)'
    BY ScopesStand DEF BridgeStands
  <1>2. tools'[o.tool] = tools[o.tool]
    BY DEF BridgeStands, SparesRegistry, SparesTools
  <1> QED
    BY <1>1, <1>2 DEF BridgeStands, Exists, Permissions

LEMMA MappingStaysSo ==
  ASSUME NEW o, MappingStands(o), SparesRegistry(o), Tables PROVE MappingStands(o)'
  <1>1. PICK r \in Resource, s \in Scope : r = o.entry[1] /\ s = o.entry[2]
    BY Entries DEF MappingStands
  <1>2. resources[r] # "none" /\ ResourceRow(r) \in o.share /\ scopes[s] # "none" /\ ScopeRow(s) \in o.share
    BY <1>1 DEF MappingStands
  <1>3. resources'[r] # "none"
    BY <1>2 DEF SparesRegistry, SparesResources
  <1>4. scopes'[s] = scopes[s]
    BY <1>2 DEF SparesRegistry, SparesScopes
  <1>5. CASE r \in Bridge
    <2>1. binding'[r] = binding[r]
      BY <1>1, <1>2, <1>5 DEF MappingStands, SparesRegistry, SparesBindings
    <2>2. PICK t \in Tool : t = binding[r]
      BY <1>1, <1>5 DEF MappingStands, Tables
    <2>3. o.key \in Permissions(t) /\ PermissionRow(t, o.key) \in o.share
      BY <1>1, <1>5, <2>2 DEF MappingStands
    <2>4. o.key \in Permissions(t)'
      BY <2>3 DEF SparesRegistry, SparesTools
    <2>5. (Permissions(binding[r]))' = Permissions(t)'
      BY <2>1, <2>2 DEF Permissions, Exists
    <2> QED
      BY <1>1, <1>2, <1>3, <1>4, <1>5, <2>1, <2>2, <2>3, <2>4, <2>5 DEF MappingStands
  <1>6. CASE r \notin Bridge
    BY <1>1, <1>2, <1>3, <1>4, <1>6 DEF MappingStands
  <1> QED
    BY <1>5, <1>6

LEMMA BindingStaysSo ==
  ASSUME NEW o, BindingStands(o), SparesRegistry(o) PROVE BindingStands(o)'
  <1>1. PICK r \in Bridge, t \in Tool : r = o.resource /\ t = o.tool
    BY DEF BindingStands
  <1>2. /\ resources[r] # "none" /\ ResourceRow(r) \in o.update
        /\ Exists(t) /\ ToolRow(t) \in o.share
    BY <1>1 DEF BindingStands
  <1>3. resources'[r] # "none"
    BY <1>2 DEF SparesRegistry, SparesResources, Resource
  <1>4. tools'[t] = tools[t]
    BY <1>2 DEF SparesRegistry, SparesTools
  <1>5. ASSUME NEW e \in {r} \X Scope PROVE mapping'[e] = mapping[e]
    <2>1. e \in Entry /\ e[1] = r
      BY DEF Entry, Resource
    <2> QED
      BY <1>2, <2>1 DEF SparesRegistry, SparesMappings
  <1>6. Uncovered(r, t)' = Uncovered(r, t)
    BY <1>4, <1>5 DEF Uncovered, Permissions, Exists
  <1> QED
    BY <1>1, <1>2, <1>3, <1>4, <1>6 DEF BindingStands, Exists

LEMMA ListStaysSo ==
  ASSUME NEW o, o.kind \in {"preview", "commit", "replace"}, ListStands(o), SparesRegistry(o)
  PROVE  ListStands(o)'
  <1>1. client' # "none"
    BY DEF ListStands, SparesRegistry, SparesClient
  <1>2. CASE o.kind = "preview"
    BY <1>1, <1>2 DEF ListStands
  <1>3. CASE o.kind # "preview"
    <2>1. Named(o.list, o.items) \in SUBSET Entry
      BY DEF ListStands, Named, Items
    <2>2. TargetsFit(o, Named(o.list, o.items)) /\ ClientRow \in o.update
      BY <1>3 DEF ListStands
    <2>3. TargetsFit(o, Named(o.list, o.items))'
      BY <2>1, <2>2, TargetsStand
    <2>4. lists' = lists
      BY <2>2 DEF ListStands, SparesRegistry, SparesClient
    <2> QED
      BY <1>1, <1>3, <2>2, <2>3, <2>4 DEF ListStands
  <1> QED
    BY <1>2, <1>3

LEMMA StandsOn ==
  ASSUME NEW o, Tables, CheckStands(o), SparesRegistry(o) PROVE CheckStands(o)'
  <1>1. CASE o.kind = "native"
    BY <1>1, ScopesStand DEF CheckStands, NativeStands
  <1>2. CASE o.kind = "bridge"
    BY <1>2, BridgeStaysSo DEF CheckStands
  <1>3. CASE o.kind = "mapping"
    BY <1>3, MappingStaysSo DEF CheckStands
  <1>4. CASE o.kind = "binding"
    BY <1>4, BindingStaysSo DEF CheckStands
  <1>5. CASE o.kind = "client"
    BY <1>5, TargetsStand DEF CheckStands, ClientStands
  <1>6. CASE o.kind \in {"preview", "commit", "replace"}
    BY <1>6, ListStaysSo DEF CheckStands
  <1> QED
    BY <1>1, <1>2, <1>3, <1>4, <1>5, <1>6 DEF CheckStands, Kinds

-----------------------------------------------------------------------------
(* What the steps of one kind have in common.                              *)

LEMMA OpType == ASSUME RegistryInv PROVE op = [a \in Admin |-> op[a]]
  BY DEF RegistryInv, Tables

\* One that writes at once, and holds nothing after it.
LEMMA AtOnceInv ==
  ASSUME RegistryInv, UNCHANGED op, Tables', RowsRefer',
         \A b \in Admin : op[b] # NoOp => SparesRegistry(op[b])
  PROVE  RegistryInv'
  <1>1. Compatible'
    BY DEF RegistryInv, Compatible, Holds
  <1>2. ASSUME NEW b \in Admin, op[b] # NoOp PROVE CheckStands(op[b])'
    <2>1. PICK o : o = op[b]
      OBVIOUS
    <2>2. CheckStands(o)'
      BY <1>2, <2>1, KeptStanding, StandsOn DEF RegistryInv
    <2> QED
      BY <2>1, <2>2
  <1>3. AllStand'
    BY <1>2 DEF AllStand
  <1> QED
    BY <1>1, <1>3 DEF RegistryInv

\* One that ends, whatever it wrote.
LEMMA EndsInv ==
  ASSUME RegistryInv, NEW a \in Admin, Ends(a), Tables', RowsRefer',
         \A b \in Admin : b # a /\ op[b] # NoOp => SparesRegistry(op[b])
  PROVE  RegistryInv'
  <1>1. op'[a] = NoOp /\ \A b \in Admin : b # a => op'[b] = op[b]
    BY OpType DEF Ends
  <1>2. Compatible'
    <2>1. \A b \in Admin : /\ b # a => /\ Holds(b, "share")' = Holds(b, "share")
                                       /\ Holds(b, "update")' = Holds(b, "update")
                           /\ b = a => Holds(b, "share")' = {} /\ Holds(b, "update")' = {}
      BY <1>1 DEF Holds, NoOp
    <2> QED
      BY <2>1 DEF RegistryInv, Compatible
  <1>3. ASSUME NEW b \in Admin, op'[b] # NoOp PROVE CheckStands(op[b])'
    <2>1. b # a /\ op'[b] = op[b]
      BY <1>1, <1>3
    <2>2. PICK o : o = op[b]
      OBVIOUS
    <2>3. CheckStands(o)'
      BY <1>3, <2>1, <2>2, KeptStanding, StandsOn DEF RegistryInv
    <2> QED
      BY <2>1, <2>2, <2>3
  <1>4. AllStand'
    BY <1>3 DEF AllStand
  <1> QED
    BY <1>2, <1>4 DEF RegistryInv

\* One that has checked and goes on with what it found.
LEMMA ChecksInv ==
  ASSUME RegistryInv, NEW a \in Admin, NEW o, op' = [op EXCEPT ![a] = o],
         UNCHANGED <<agenda, registry>>, CheckStands(o), CanLock(a, o.share, o.update)
  PROVE  RegistryInv'
  <1>1. op'[a] = o /\ \A b \in Admin : b # a => op'[b] = op[b]
    BY OpType
  <1>2. /\ op' = [b \in Admin |-> op'[b]]
        /\ UNCHANGED <<scopes, resources, mapping, binding, bound, tools, client, lists, agenda>>
    BY <1>1, OpType DEF registry
  <1>3. Tables' /\ RowsRefer'
    BY <1>2 DEF RegistryInv, Tables, RowsRefer, Exists
  <1>4. \A b \in Admin : b # a => /\ Holds(b, "share")' = Holds(b, "share")
                                  /\ Holds(b, "update")' = Holds(b, "update")
    BY <1>1 DEF Holds
  <1>5. Holds(a, "share")' = o.share /\ Holds(a, "update")' = o.update
    BY <1>1 DEF Holds, CheckStands
  <1>6. Compatible'
    BY <1>4, <1>5 DEF RegistryInv, Compatible, CanLock
  <1>7. \A r : SparesRegistry(r)
    BY <1>2 DEF SparesRegistry, SparesScopes, SparesResources, SparesMappings, SparesBindings,
       SparesTools, SparesClient, Permissions, Exists
  <1>8. ASSUME NEW b \in Admin, op'[b] # NoOp PROVE CheckStands(op[b])'
    <2>1. PICK r : r = op'[b]
      OBVIOUS
    <2>2. CheckStands(r)
      BY <1>1, <1>8, <2>1, KeptStanding
    <2>3. CheckStands(r)'
      BY <1>7, <2>2, StandsOn DEF RegistryInv
    <2> QED
      BY <2>1, <2>3
  <1>9. AllStand'
    BY <1>8 DEF AllStand
  <1> QED
    BY <1>3, <1>6, <1>9 DEF RegistryInv

-----------------------------------------------------------------------------
(* Scopes.                                                                 *)

\* Scopes of S become active or disabled, with their rows locked.
LEMMA ScopesWritten ==
  ASSUME RegistryInv, NEW a \in Admin, op[a] = NoOp, NEW S \in SUBSET Scope,
         CanLock(a, {}, {ScopeRow(s) : s \in S}),
         scopes' = [s \in Scope |-> scopes'[s]],
         \A s \in S : scopes'[s] \in Switch \cup {scopes[s]},
         \A s \in Scope \ S : scopes'[s] = scopes[s],
         UNCHANGED <<agenda, resources, mapping, binding, bound, tools, client, lists, op>>
  PROVE  RegistryInv'
  <1>1. \A s \in Scope : /\ scopes'[s] \in Switch \cup {"none"}
                         /\ scopes[s] # "none" => scopes'[s] # "none"
    BY DEF RegistryInv, Tables, Switch
  <1>2. Tables'
    <2>1. scopes' \in [Scope -> Switch \cup {"none"}]
      BY <1>1
    <2> QED
      BY <2>1 DEF RegistryInv, Tables
  <1>3. RowsRefer'
    <2>1. \A e \in Entry : scopes[e[2]] # "none" => scopes'[e[2]] # "none"
      BY <1>1, Entries
    <2> QED
      BY <2>1 DEF RegistryInv, RowsRefer, Exists
  <1>4. ASSUME NEW b \in Admin, op[b] # NoOp PROVE SparesRegistry(op[b])
    <2>1. ASSUME NEW s \in Scope, ScopeRow(s) \in op[b].share PROVE scopes'[s] = scopes[s]
      <3>1. s \notin S
        BY <1>4, <2>1, NobodyElse
      <3> QED
        BY <3>1
    <2>2. SparesScopes(op[b])
      BY <1>1, <2>1 DEF SparesScopes
    <2> QED
      BY <2>2 DEF SparesRegistry, SparesResources, SparesMappings, SparesBindings,
         SparesTools, SparesClient, Permissions, Exists
  <1> QED
    BY <1>2, <1>3, <1>4, AtOnceInv

LEMMA CreateScopeInv ==
  ASSUME RegistryInv, NEW a \in Admin, NEW s \in Scope, CreateScope(a, s) PROVE RegistryInv'
  <1>1. PICK S \in SUBSET Scope : S = {s}
    OBVIOUS
  <1>2. /\ op[a] = NoOp /\ CanLock(a, {}, {ScopeRow(x) : x \in S})
        /\ scopes' = [scopes EXCEPT ![s] = "active"]
        /\ UNCHANGED <<agenda, resources, mapping, binding, bound, tools, client, lists, op>>
    <2>1. {ScopeRow(x) : x \in S} = {ScopeRow(s)}
      BY <1>1
    <2> QED
      BY <2>1 DEF CreateScope, AtOnce
  <1>3. scopes \in [Scope -> Switch \cup {"none"}]
    BY DEF RegistryInv, Tables
  <1> QED
    BY <1>1, <1>2, <1>3, ScopesWritten DEF Switch

LEMMA UpdateScopeInv ==
  ASSUME RegistryInv, NEW a \in Admin, NEW s \in Scope, NEW status \in Switch, UpdateScope(a, s, status)
  PROVE  RegistryInv'
  <1>1. PICK S \in SUBSET Scope : S = {s}
    OBVIOUS
  <1>2. /\ op[a] = NoOp /\ CanLock(a, {}, {ScopeRow(x) : x \in S})
        /\ scopes' = [scopes EXCEPT ![s] = status]
        /\ UNCHANGED <<agenda, resources, mapping, binding, bound, tools, client, lists, op>>
    <2>1. {ScopeRow(x) : x \in S} = {ScopeRow(s)}
      BY <1>1
    <2> QED
      BY <2>1 DEF UpdateScope, AtOnce
  <1>3. scopes \in [Scope -> Switch \cup {"none"}]
    BY DEF RegistryInv, Tables
  <1> QED
    BY <1>1, <1>2, <1>3, ScopesWritten

LEMMA BulkScopesInv ==
  ASSUME RegistryInv, NEW a \in Admin, NEW S \in SUBSET Scope, NEW again, BulkScopes(a, S, again)
  PROVE  RegistryInv'
  <1>1. /\ op[a] = NoOp /\ CanLock(a, {}, {ScopeRow(x) : x \in S})
        /\ UNCHANGED <<agenda, resources, mapping, binding, bound, tools, client, lists, op>>
    BY DEF BulkScopes, AtOnce
  <1>2. /\ scopes' = [s \in Scope |-> scopes'[s]]
        /\ \A s \in S : scopes'[s] \in Switch \cup {scopes[s]}
        /\ \A s \in Scope \ S : scopes'[s] = scopes[s]
    BY DEF BulkScopes, Switch
  <1> QED
    BY <1>1, <1>2, ScopesWritten

LEMMA BulkScopeStatusInv ==
  ASSUME RegistryInv, NEW a \in Admin, NEW S \in SUBSET Scope, NEW status \in Switch,
         BulkScopeStatus(a, S, status)
  PROVE  RegistryInv'
  <1>1. /\ op[a] = NoOp /\ CanLock(a, {}, {ScopeRow(x) : x \in S})
        /\ UNCHANGED <<agenda, resources, mapping, binding, bound, tools, client, lists, op>>
    BY DEF BulkScopeStatus, AtOnce
  <1>2. /\ scopes' = [s \in Scope |-> scopes'[s]]
        /\ \A s \in S : scopes'[s] \in Switch \cup {scopes[s]}
        /\ \A s \in Scope \ S : scopes'[s] = scopes[s]
    BY DEF BulkScopeStatus
  <1> QED
    BY <1>1, <1>2, ScopesWritten

-----------------------------------------------------------------------------
(* Resources and their scopes.                                             *)

LEMMA SetResourceStatusInv ==
  ASSUME RegistryInv, NEW a \in Admin, NEW r \in Resource, NEW status \in Status,
         SetResourceStatus(a, r, status)
  PROVE  RegistryInv'
  <1>1. /\ op[a] = NoOp /\ CanLock(a, {}, {ResourceRow(r)})
        /\ resources[r] # "none" /\ resources' = [resources EXCEPT ![r] = status]
        /\ UNCHANGED <<agenda, scopes, mapping, binding, bound, tools, client, lists, op>>
    BY DEF SetResourceStatus, AtOnce
  <1>2. resources \in [Resource -> Status \cup {"none"}]
    BY DEF RegistryInv, Tables
  <1>3. \A x \in Resource : /\ resources[x] # "none" => resources'[x] # "none"
                            /\ x # r => resources'[x] = resources[x]
    BY <1>1, <1>2 DEF Status
  <1>4. Tables'
    <2>1. resources' \in [Resource -> Status \cup {"none"}]
      BY <1>1, <1>2
    <2> QED
      BY <1>1, <2>1 DEF RegistryInv, Tables
  <1>5. RowsRefer'
    <2>1. \A e \in Entry : resources[e[1]] # "none" => resources'[e[1]] # "none"
      BY <1>3, Entries
    <2> QED
      BY <1>1, <2>1 DEF RegistryInv, RowsRefer, Exists
  <1>6. ASSUME NEW b \in Admin, op[b] # NoOp PROVE SparesRegistry(op[b])
    <2>1. ResourceRow(r) \notin op[b].share
      BY <1>1, <1>6, NobodyElse
    <2>2. SparesResources(op[b])
      BY <1>3, <2>1 DEF SparesResources
    <2> QED
      BY <1>1, <2>2 DEF SparesRegistry, SparesScopes, SparesMappings, SparesBindings,
         SparesTools, SparesClient, Permissions, Exists
  <1> QED
    BY <1>1, <1>4, <1>5, <1>6, AtOnceInv

\* What a mapping may be.
MappingRows == [status : Switch \cup {"none"}, key : Key \cup {NoKey}]
RowSound(e) ==
  \/ mapping[e] = NoMapping
  \/ /\ mapping[e].status \in Switch
     /\ resources[e[1]] # "none" /\ scopes[e[2]] # "none"
     /\ mapping[e].key = NoKey <=> e[1] \in Native

LEMMA PermissionsType ==
  ASSUME NEW t \in Tool, tools \in [Tool -> (SUBSET Key) \cup {NotATool}]
  PROVE  Permissions(t) \subseteq Key
  <1>1. tools[t] \in (SUBSET Key) \cup {NotATool}
    OBVIOUS
  <1>2. CASE Exists(t)
    <2>1. tools[t] \in SUBSET Key
      BY <1>1, <1>2 DEF Exists
    <2>2. Permissions(t) = tools[t]
      BY <1>2 DEF Permissions
    <2> QED
      BY <2>1, <2>2
  <1>3. CASE ~Exists(t)
    BY <1>3 DEF Permissions
  <1> QED
    BY <1>2, <1>3

\* A resource that is created has had no mapping.
LEMMA Unmapped ==
  ASSUME RegistryInv, NEW e \in Entry, resources[e[1]] = "none" PROVE mapping[e] = NoMapping
  BY DEF RegistryInv, RowsRefer

LEMMA CommitNativeInv == ASSUME RegistryInv, NEW a \in Admin, CommitNative(a) PROVE RegistryInv'
  <1>1. /\ op[a].kind = "native" /\ op[a] # NoOp
        /\ UNCHANGED <<scopes, binding, bound, tools, client, lists, agenda>> /\ Ends(a)
    BY DEF CommitNative, Doing, Commits, NoOp
  <1>2. NativeStands(op[a])
    BY <1>1, KeptStanding DEF CheckStands
  <1>3. PICK r \in Native, S \in SUBSET Scope, status \in Status :
          r = op[a].resource /\ S = op[a].scopes /\ status = op[a].status
    BY <1>2 DEF NativeStands, ActiveScopes
  <1>4. /\ resources[r] = "none" /\ resources' = [resources EXCEPT ![r] = status]
        /\ mapping' = [e \in Entry |-> IF e[1] = r /\ e[2] \in S THEN Mapped("active", NoKey)
                                       ELSE mapping[e]]
    BY <1>3 DEF CommitNative
  <1>5. resources \in [Resource -> Status \cup {"none"}] /\ mapping \in [Entry -> MappingRows]
    BY DEF RegistryInv, Tables, MappingRows
  <1>6. \A x \in Resource : /\ x # r => resources'[x] = resources[x]
                            /\ x = r => resources'[x] = status
    BY <1>4, <1>5 DEF Resource
  <1>7. Mapped("active", NoKey) \in MappingRows
    BY DEF Mapped, MappingRows, Switch
  <1>8. Tables'
    <2>1. resources' \in [Resource -> Status \cup {"none"}]
      BY <1>4, <1>5 DEF Resource
    <2>2. mapping' \in [Entry -> MappingRows]
      BY <1>4, <1>5, <1>7
    <2>3. op' = [b \in Admin |-> op'[b]]
      BY <1>1, OpType DEF Ends
    <2> QED
      BY <1>1, <2>1, <2>2, <2>3 DEF RegistryInv, Tables, MappingRows
  <1>9. ASSUME NEW e \in Entry PROVE RowSound(e)'
    <2>1. e[1] \in Resource /\ e[2] \in Scope
      BY Entries
    <2>2. CASE e[1] = r /\ e[2] \in S
      <3>1. mapping'[e] = Mapped("active", NoKey)
        BY <1>4, <2>2
      <3>2. mapping'[e].status \in Switch /\ mapping'[e].key = NoKey
        BY <3>1 DEF Mapped, Switch
      <3>3. resources'[e[1]] # "none" /\ scopes'[e[2]] # "none"
        BY <1>1, <1>2, <1>3, <1>6, <2>1, <2>2 DEF NativeStands, ActiveScopes, Status
      <3> QED
        BY <2>2, <3>2, <3>3 DEF RowSound
    <2>3. CASE ~(e[1] = r /\ e[2] \in S)
      <3>1. mapping'[e] = mapping[e] /\ UNCHANGED scopes
        BY <1>1, <1>4, <2>3
      <3>2. CASE e[1] = r
        BY <1>4, <3>1, <3>2, Unmapped DEF RowSound
      <3>3. CASE e[1] # r
        BY <1>6, <2>1, <3>1, <3>3 DEF RegistryInv, RowsRefer, RowSound
      <3> QED
        BY <3>2, <3>3
    <2> QED
      BY <2>2, <2>3
  <1>10. RowsRefer'
    BY <1>1, <1>9 DEF RegistryInv, RowsRefer, RowSound, Exists
  <1>11. ASSUME NEW b \in Admin PROVE SparesRegistry(op[b])
    <2>1. SparesResources(op[b])
      BY <1>4, <1>6 DEF SparesResources
    <2>2. SparesMappings(op[b])
      BY <1>4 DEF SparesMappings
    <2> QED
      BY <1>1, <2>1, <2>2 DEF SparesRegistry, SparesScopes, SparesBindings, SparesTools,
         SparesClient, Permissions, Exists
  <1> QED
    BY <1>1, <1>8, <1>10, <1>11, EndsInv

LEMMA CommitBridgeInv == ASSUME RegistryInv, NEW a \in Admin, CommitBridge(a) PROVE RegistryInv'
  <1>1. /\ op[a].kind = "bridge" /\ op[a] # NoOp
        /\ UNCHANGED <<scopes, tools, client, lists, agenda>> /\ Ends(a)
    BY DEF CommitBridge, Doing, Commits, NoOp
  <1>2. BridgeStands(op[a])
    BY <1>1, KeptStanding DEF CheckStands
  <1>3. PICK r \in Bridge, t \in Tool, status \in Status, f \in {op[a].map} :
          r = op[a].resource /\ t = op[a].tool /\ status = op[a].status /\ f = op[a].map
    BY <1>2 DEF BridgeStands
  <1>4. /\ resources[r] = "none" /\ resources' = [resources EXCEPT ![r] = status]
        /\ mapping' = [e \in Entry |-> IF e[1] = r /\ e[2] \in DOMAIN f
                                       THEN Mapped("active", f[e[2]]) ELSE mapping[e]]
        /\ binding' = [binding EXCEPT ![r] = t] /\ bound' = bound \cup {t}
    BY <1>3 DEF CommitBridge
  <1>5. /\ resources \in [Resource -> Status \cup {"none"}] /\ mapping \in [Entry -> MappingRows]
        /\ binding \in [Bridge -> Tool \cup {NoTool}] /\ tools \in [Tool -> (SUBSET Key) \cup {NotATool}]
    BY DEF RegistryInv, Tables, MappingRows
  <1>6. \A x \in Resource : /\ x # r => resources'[x] = resources[x]
                            /\ x = r => resources'[x] = status
    BY <1>4, <1>5 DEF Resource
  <1>7. /\ Exists(t) /\ \A s \in DOMAIN f : f[s] \in Permissions(t)
        /\ \A s \in DOMAIN f : scopes[s] = "active"
    BY <1>2, <1>3 DEF BridgeStands, ActiveScopes
  <1>8. \A s \in DOMAIN f : f[s] \in Key /\ f[s] # NoKey
    <2>1. Permissions(t) \subseteq Key
      BY <1>5, PermissionsType
    <2> QED
      BY <1>7, <2>1, RegistryAssumption
  <1>9. \A s \in DOMAIN f : Mapped("active", f[s]) \in MappingRows
    BY <1>8 DEF Mapped, MappingRows, Switch
  <1>10. Tables'
    <2>1. resources' \in [Resource -> Status \cup {"none"}]
      BY <1>4, <1>5 DEF Resource
    <2>2. mapping' \in [Entry -> MappingRows]
      BY <1>4, <1>5, <1>9
    <2>3. binding' \in [Bridge -> Tool \cup {NoTool}]
      BY <1>4, <1>5
    <2>4. op' = [b \in Admin |-> op'[b]]
      BY <1>1, OpType DEF Ends
    <2> QED
      BY <1>1, <2>1, <2>2, <2>3, <2>4 DEF RegistryInv, Tables, MappingRows
  <1>11. ASSUME NEW e \in Entry PROVE RowSound(e)'
    <2>1. e[1] \in Resource /\ e[2] \in Scope
      BY Entries
    <2>2. CASE e[1] = r /\ e[2] \in DOMAIN f
      <3>1. mapping'[e] = Mapped("active", f[e[2]])
        BY <1>4, <2>2
      <3>2. mapping'[e].status \in Switch /\ mapping'[e].key # NoKey
        BY <1>8, <2>2, <3>1 DEF Mapped, Switch
      <3>3. resources'[e[1]] # "none" /\ scopes'[e[2]] # "none"
        BY <1>1, <1>6, <1>7, <2>1, <2>2 DEF Status
      <3> QED
        BY <2>2, <3>2, <3>3, RegistryAssumption DEF RowSound
    <2>3. CASE ~(e[1] = r /\ e[2] \in DOMAIN f)
      <3>1. mapping'[e] = mapping[e] /\ UNCHANGED scopes
        BY <1>1, <1>4, <2>3
      <3>2. CASE e[1] = r
        BY <1>4, <3>1, <3>2, Unmapped DEF RowSound
      <3>3. CASE e[1] # r
        BY <1>6, <2>1, <3>1, <3>3 DEF RegistryInv, RowsRefer, RowSound
      <3> QED
        BY <3>2, <3>3
    <2> QED
      BY <2>2, <2>3
  <1>12. RowsRefer'
    <2>1. \A x \in Bridge : binding'[x] # NoTool => binding'[x] \in bound'
      BY <1>4, <1>5 DEF RegistryInv, RowsRefer
    <2>2. bound' \subseteq {x \in Tool : Exists(x)'}
      BY <1>1, <1>4, <1>7 DEF RegistryInv, RowsRefer, Exists
    <2> QED
      BY <1>1, <1>11, <2>1, <2>2 DEF RegistryInv, RowsRefer, RowSound, Exists
  <1>13. ASSUME NEW b \in Admin PROVE SparesRegistry(op[b])
    <2>1. SparesResources(op[b])
      BY <1>4, <1>6 DEF SparesResources
    <2>2. SparesMappings(op[b])
      BY <1>4 DEF SparesMappings
    <2>3. SparesBindings(op[b])
      BY <1>4, <1>5 DEF SparesBindings
    <2> QED
      BY <1>1, <2>1, <2>2, <2>3 DEF SparesRegistry, SparesScopes, SparesTools,
         SparesClient, Permissions, Exists
  <1> QED
    BY <1>1, <1>10, <1>12, <1>13, EndsInv

LEMMA CommitMappingInv == ASSUME RegistryInv, NEW a \in Admin, CommitMapping(a) PROVE RegistryInv'
  <1>1. /\ op[a].kind = "mapping" /\ op[a] # NoOp
        /\ UNCHANGED <<scopes, resources, binding, bound, tools, client, lists, agenda>> /\ Ends(a)
    BY DEF CommitMapping, Doing, Commits, NoOp
  <1>2. MappingStands(op[a])
    BY <1>1, KeptStanding DEF CheckStands
  <1>3. PICK e \in Entry, status \in Switch, key \in Key \cup {NoKey} :
          e = op[a].entry /\ status = op[a].status /\ key = op[a].key
    BY <1>2 DEF MappingStands
  <1>4. PICK r \in Resource, s \in Scope : r = e[1] /\ s = e[2]
    BY Entries
  <1>5. /\ mapping' = [mapping EXCEPT ![e] = Mapped(status, key)]
        /\ CanLock(a, {}, {MappingRow(e)})
    BY <1>3 DEF CommitMapping
  <1>6. /\ mapping \in [Entry -> MappingRows] /\ binding \in [Bridge -> Tool \cup {NoTool}]
        /\ tools \in [Tool -> (SUBSET Key) \cup {NotATool}]
    BY DEF RegistryInv, Tables, MappingRows
  <1>7. /\ resources[r] # "none" /\ scopes[s] # "none" /\ ResourceRow(r) \in op[a].share
        /\ r \in Native => key = NoKey
        /\ r \in Bridge => binding[r] # NoTool /\ key \in Permissions(binding[r])
    BY <1>2, <1>3, <1>4 DEF MappingStands
  <1>8. key = NoKey <=> r \in Native
    <2>1. CASE r \in Native
      BY <1>7, <2>1
    <2>2. CASE r \notin Native
      <3>1. r \in Bridge
        BY <2>2 DEF Resource
      <3>2. PICK t \in Tool : t = binding[r]
        BY <1>6, <1>7, <3>1
      <3>3. key \in Permissions(t)
        BY <1>7, <3>1, <3>2
      <3>4. Permissions(t) \subseteq Key
        BY <1>6, PermissionsType
      <3> QED
        BY <2>2, <3>3, <3>4, RegistryAssumption
    <2> QED
      BY <2>1, <2>2
  <1>9. /\ \A x \in Entry : x # e => mapping'[x] = mapping[x]
        /\ mapping'[e].status = status /\ mapping'[e].key = key
    BY <1>5, <1>6 DEF Mapped
  <1>10. Tables'
    <2>1. Mapped(status, key) \in MappingRows
      BY DEF Mapped, MappingRows
    <2>2. mapping' \in [Entry -> MappingRows]
      BY <1>5, <1>6, <2>1
    <2>3. op' = [b \in Admin |-> op'[b]]
      BY <1>1, OpType DEF Ends
    <2> QED
      BY <1>1, <2>2, <2>3 DEF RegistryInv, Tables, MappingRows
  <1>11. ASSUME NEW x \in Entry PROVE RowSound(x)'
    <2>1. CASE x = e
      BY <1>1, <1>4, <1>7, <1>8, <1>9, <2>1 DEF RowSound
    <2>2. CASE x # e
      BY <1>1, <1>9, <2>2 DEF RegistryInv, RowsRefer, RowSound
    <2> QED
      BY <2>1, <2>2
  <1>12. RowsRefer'
    BY <1>1, <1>11 DEF RegistryInv, RowsRefer, RowSound, Exists
  <1>13. ASSUME NEW b \in Admin, b # a, op[b] # NoOp PROVE SparesRegistry(op[b])
    <2>1. MappingRow(e) \notin op[b].share
      BY <1>5, <1>13, NobodyElse
    <2>2. ResourceRow(r) \notin op[b].update
      BY <1>1, <1>7, <1>13, Holding
    <2>3. SparesMappings(op[b])
      BY <1>4, <1>9, <2>1, <2>2 DEF SparesMappings
    <2> QED
      BY <1>1, <2>3 DEF SparesRegistry, SparesScopes, SparesResources, SparesBindings, SparesTools,
         SparesClient, Permissions, Exists
  <1> QED
    BY <1>1, <1>10, <1>12, <1>13, EndsInv

LEMMA BulkNativeMappingInv ==
  ASSUME RegistryInv, NEW a \in Admin, NEW r \in Native, NEW on \in SUBSET Scope, NEW off \in SUBSET Scope,
         BulkNativeMapping(a, r, on, off)
  PROVE  RegistryInv'
  <1>1. /\ op[a] = NoOp /\ resources[r] # "none"
        /\ CanLock(a, {ScopeRow(s) : s \in on \cup off},
                   {ResourceRow(r)} \cup {MappingRow(<<r, s>>) : s \in on \cup off})
        /\ UNCHANGED <<agenda, op, scopes, resources, binding, bound, tools, client, lists>>
    BY DEF BulkNativeMapping, AtOnce
  <1>2. /\ \A s \in on : scopes[s] = "active"
        /\ \A s \in off : mapping[<<r, s>>].status # "none"
        /\ mapping' = [e \in Entry |->
              IF e[1] # r THEN mapping[e]
              ELSE IF e[2] \in on THEN Mapped("active", NoKey)
              ELSE IF e[2] \in off THEN Mapped("disabled", mapping[e].key) ELSE mapping[e]]
    BY DEF BulkNativeMapping
  <1>3. mapping \in [Entry -> MappingRows]
    BY DEF RegistryInv, Tables, MappingRows
  <1>4. ASSUME NEW e \in Entry PROVE mapping'[e] \in MappingRows /\ RowSound(e)'
    <2>1. e[1] \in Resource /\ e[2] \in Scope /\ e = <<e[1], e[2]>>
      BY Entries
    <2>2. mapping[e] \in MappingRows /\ RowSound(e)
      BY <1>3 DEF RegistryInv, RowsRefer, RowSound
    <2>3. CASE e[1] = r /\ e[2] \in on
      <3>1. mapping'[e] = Mapped("active", NoKey)
        BY <1>2, <2>3
      <3>2. /\ mapping'[e].status = "active" /\ mapping'[e].key = NoKey
            /\ mapping'[e] \in MappingRows
        BY <3>1 DEF Mapped, MappingRows, Switch
      <3> QED
        BY <1>1, <1>2, <2>1, <2>3, <3>2 DEF RowSound, Switch
    <2>4. CASE e[1] = r /\ e[2] \notin on /\ e[2] \in off
      <3>1. mapping'[e] = Mapped("disabled", mapping[e].key)
        BY <1>2, <2>4
      <3>2. /\ mapping'[e].status = "disabled" /\ mapping'[e].key = mapping[e].key
            /\ mapping'[e] \in MappingRows
        BY <2>2, <3>1 DEF Mapped, MappingRows, Switch
      <3>3. mapping[e].status # "none"
        BY <1>2, <2>1, <2>4
      <3>4. mapping[e] # NoMapping
        BY <3>3 DEF NoMapping
      <3> QED
        BY <1>1, <2>2, <3>2, <3>4 DEF RowSound, Switch
    <2>5. CASE ~(e[1] = r /\ e[2] \in on \cup off)
      <3>1. mapping'[e] = mapping[e]
        BY <1>2, <2>5
      <3> QED
        BY <1>1, <2>2, <3>1 DEF RowSound
    <2> QED
      BY <2>3, <2>4, <2>5
  <1>5. Tables'
    <2>1. mapping' \in [Entry -> MappingRows]
      BY <1>2, <1>4
    <2> QED
      BY <1>1, <2>1 DEF RegistryInv, Tables, MappingRows
  <1>6. RowsRefer'
    BY <1>1, <1>4 DEF RegistryInv, RowsRefer, RowSound, Exists
  <1>7. ASSUME NEW b \in Admin, op[b] # NoOp PROVE SparesRegistry(op[b])
    <2>1. ASSUME NEW e \in Entry, MappingRow(e) \in op[b].share
                                  \/ (e[1] \in Bridge /\ ResourceRow(e[1]) \in op[b].update)
          PROVE  mapping'[e] = mapping[e]
      <3>1. ~(e[1] = r /\ e[2] \in on \cup off)
        <4>1. SUFFICES ASSUME e[1] = r, e[2] \in on \cup off PROVE FALSE
          OBVIOUS
        <4>2. e = <<r, e[2]>>
          BY <4>1, Entries
        <4>3. PICK share, update :
                /\ share = {ScopeRow(s) : s \in on \cup off}
                /\ update = {ResourceRow(r)} \cup {MappingRow(<<r, s>>) : s \in on \cup off}
          OBVIOUS
        <4>4. MappingRow(e) \notin op[b].share
          <5>1. MappingRow(e) \in update
            BY <4>1, <4>2, <4>3
          <5>2. CanLock(a, share, update) /\ a # b
            BY <1>1, <1>7, <4>3
          <5> QED
            BY <1>7, <5>1, <5>2, NobodyElse
        <4>5. e[1] \notin Bridge
          BY <4>1, RegistryAssumption
        <4> QED
          BY <2>1, <4>4, <4>5
      <3> QED
        BY <1>2, <3>1
    <2>2. SparesMappings(op[b])
      BY <2>1 DEF SparesMappings
    <2> QED
      BY <1>1, <2>2 DEF SparesRegistry, SparesScopes, SparesResources, SparesBindings, SparesTools,
         SparesClient, Permissions, Exists
  <1> QED
    BY <1>1, <1>5, <1>6, <1>7, AtOnceInv

LEMMA CommitBindingInv == ASSUME RegistryInv, NEW a \in Admin, CommitBinding(a) PROVE RegistryInv'
  <1>1. /\ op[a].kind = "binding" /\ op[a] # NoOp
        /\ UNCHANGED <<scopes, resources, mapping, tools, client, lists, agenda>> /\ Ends(a)
    BY DEF CommitBinding, Doing, Commits, NoOp
  <1>2. BindingStands(op[a])
    BY <1>1, KeptStanding DEF CheckStands
  <1>3. PICK r \in Bridge, t \in Tool : r = op[a].resource /\ t = op[a].tool
    BY <1>2 DEF BindingStands
  <1>4. PICK to \in {t, NoTool} : to = IF op[a].status = "active" THEN t ELSE NoTool
    OBVIOUS
  <1>5. /\ binding' = [binding EXCEPT ![r] = to] /\ CanLock(a, {}, {BindingRow(r)})
        /\ bound' \in {bound, bound \cup {t}} /\ (to # NoTool => bound' = bound \cup {t})
    BY <1>3, <1>4 DEF CommitBinding
  <1>6. binding \in [Bridge -> Tool \cup {NoTool}] /\ Exists(t)
    BY <1>2, <1>3 DEF RegistryInv, Tables, BindingStands
  <1>7. Tables'
    <2>1. binding' \in [Bridge -> Tool \cup {NoTool}]
      BY <1>5, <1>6
    <2>2. op' = [b \in Admin |-> op'[b]]
      BY <1>1, OpType DEF Ends
    <2> QED
      BY <1>1, <2>1, <2>2 DEF RegistryInv, Tables
  <1>8. RowsRefer'
    <2>1. \A x \in Bridge : binding'[x] # NoTool => binding'[x] \in bound'
      BY <1>5, <1>6 DEF RegistryInv, RowsRefer
    <2>2. bound' \subseteq {x \in Tool : Exists(x)'}
      BY <1>1, <1>5, <1>6 DEF RegistryInv, RowsRefer, Exists
    <2> QED
      BY <1>1, <2>1, <2>2 DEF RegistryInv, RowsRefer
  <1>9. ASSUME NEW b \in Admin, b # a, op[b] # NoOp PROVE SparesRegistry(op[b])
    <2>1. BindingRow(r) \notin op[b].share
      BY <1>5, <1>9, NobodyElse
    <2>2. SparesBindings(op[b])
      BY <1>5, <1>6, <2>1 DEF SparesBindings
    <2> QED
      BY <1>1, <2>2 DEF SparesRegistry, SparesScopes, SparesResources, SparesMappings, SparesTools,
         SparesClient, Permissions, Exists
  <1> QED
    BY <1>1, <1>7, <1>8, <1>9, EndsInv

-----------------------------------------------------------------------------
(* The client and its lists.                                               *)

LEMMA CommitClientInv == ASSUME RegistryInv, NEW a \in Admin, CommitClient(a) PROVE RegistryInv'
  <1>1. /\ op[a].kind = "client" /\ op[a] # NoOp /\ client = "none"
        /\ UNCHANGED <<scopes, resources, mapping, binding, bound, tools, agenda>> /\ Ends(a)
    BY DEF CommitClient, Doing, Commits, NoOp
  <1>2. ClientStands(op[a])
    BY <1>1, KeptStanding DEF CheckStands
  <1>3. PICK E \in SUBSET Entry, U \in SUBSET Uri, status \in Status :
          E = op[a].allowances /\ U = op[a].redirect_uris /\ status = op[a].status
    BY <1>2 DEF ClientStands
  <1>4. client' = status /\ lists' = [list \in List |-> op[a][list]]
    BY <1>3 DEF CommitClient
  <1>5. lists'["allowances"] = E /\ lists'["redirect_uris"] = U
    BY <1>3, <1>4 DEF List
  <1>6. Tables'
    <2>1. lists' \in [List -> (SUBSET Entry) \cup (SUBSET Uri)]
      BY <1>4, <1>5 DEF List
    <2>2. op' = [b \in Admin |-> op'[b]]
      BY <1>1, OpType DEF Ends
    <2> QED
      BY <1>1, <1>4, <2>1, <2>2 DEF RegistryInv, Tables
  <1>7. RowsRefer'
    <2>1. \A list \in List : lists'[list] \subseteq Items(list)
      BY <1>5 DEF List, Items
    <2> QED
      BY <1>1, <2>1 DEF RegistryInv, RowsRefer, Exists
  <1>8. ASSUME NEW b \in Admin PROVE SparesRegistry(op[b])
    BY <1>1 DEF SparesRegistry, SparesScopes, SparesResources, SparesMappings, SparesBindings,
       SparesTools, SparesClient, Permissions, Exists
  <1> QED
    BY <1>1, <1>6, <1>7, <1>8, EndsInv

LEMMA SetClientStatusInv ==
  ASSUME RegistryInv, NEW a \in Admin, NEW status \in Status, SetClientStatus(a, status) PROVE RegistryInv'
  <1>1. /\ client # "none" /\ client' = status
        /\ UNCHANGED <<agenda, op, scopes, resources, mapping, binding, bound, tools, lists>>
    BY DEF SetClientStatus, AtOnce
  <1>2. Tables' /\ RowsRefer'
    BY <1>1 DEF RegistryInv, Tables, RowsRefer, Exists
  <1>3. client' # "none"
    BY <1>1 DEF Status
  <1>4. ASSUME NEW b \in Admin PROVE SparesRegistry(op[b])
    BY <1>1, <1>3 DEF SparesRegistry, SparesScopes, SparesResources, SparesMappings, SparesBindings,
       SparesTools, SparesClient, Permissions, Exists
  <1> QED
    BY <1>1, <1>2, <1>4, AtOnceInv

\* What is written is what was checked, with the client locked.
LEMMA CommitsWhatStands ==
  ASSUME RegistryInv, NEW a \in Admin, CommitList(a)
  PROVE  /\ op[a].kind \in {"commit", "replace"} /\ op[a] # NoOp
         /\ ListStands(op[a]) /\ TargetsFit(op[a], Named(op[a].list, op[a].items))
         /\ ClientRow \in op[a].update
  <1>1. op[a].kind \in {"commit", "replace"} /\ op[a] # NoOp
    BY DEF CommitList, Doing, NoOp
  <1>2. ListStands(op[a])
    BY <1>1, KeptStanding DEF CheckStands
  <1> QED
    BY <1>1, <1>2 DEF ListStands

LEMMA CommitListInv == ASSUME RegistryInv, NEW a \in Admin, CommitList(a) PROVE RegistryInv'
  <1>1. /\ op[a] # NoOp /\ ListStands(op[a]) /\ ClientRow \in op[a].update
    BY CommitsWhatStands
  <1>2. /\ UNCHANGED <<scopes, resources, mapping, binding, bound, tools, client, agenda>> /\ Ends(a)
    BY DEF CommitList, Commits
  <1>3. PICK list \in List, items \in {op[a].items} : list = op[a].list /\ items = op[a].items
    BY <1>1 DEF ListStands
  <1>4. items \subseteq Items(list)
    BY <1>1, <1>3 DEF ListStands
  <1>5. lists' = [lists EXCEPT ![list] = items]
    BY <1>3 DEF CommitList
  <1>6. lists \in [List -> (SUBSET Entry) \cup (SUBSET Uri)]
    BY DEF RegistryInv, Tables
  <1>7. Tables'
    <2>1. items \in (SUBSET Entry) \cup (SUBSET Uri)
      BY <1>4 DEF Items
    <2>2. lists' \in [List -> (SUBSET Entry) \cup (SUBSET Uri)]
      BY <1>5, <1>6, <2>1
    <2>3. op' = [b \in Admin |-> op'[b]]
      BY <1>2, OpType DEF Ends
    <2> QED
      BY <1>2, <2>2, <2>3 DEF RegistryInv, Tables
  <1>8. RowsRefer'
    <2>1. \A x \in List : lists'[x] \subseteq Items(x)
      BY <1>4, <1>5, <1>6 DEF RegistryInv, RowsRefer
    <2> QED
      BY <1>2, <2>1 DEF RegistryInv, RowsRefer, Exists
  <1>9. ASSUME NEW b \in Admin, b # a, op[b] # NoOp PROVE SparesRegistry(op[b])
    <2>1. ClientRow \notin op[b].update
      BY <1>1, <1>9, Holding
    <2> QED
      BY <1>2, <2>1 DEF SparesRegistry, SparesScopes, SparesResources, SparesMappings, SparesBindings,
         SparesTools, SparesClient, Permissions, Exists
  <1> QED
    BY <1>2, <1>7, <1>8, <1>9, EndsInv

-----------------------------------------------------------------------------
(* Tools.                                                                  *)

\* A tool is written with its row and those of its permissions locked, and goes
\* only if no binding names it.
LEMMA ToolWritten ==
  ASSUME RegistryInv, NEW a \in Admin, op[a] = NoOp, NEW t \in Tool,
         NEW K \in (SUBSET Key) \cup {NotATool},
         CanLock(a, {}, {ToolRow(t)} \cup PermissionRows(t)),
         tools' = [tools EXCEPT ![t] = K], K = NotATool => t \notin bound,
         UNCHANGED <<agenda, op, scopes, resources, mapping, binding, bound, client, lists>>
  PROVE  RegistryInv'
  <1>1. tools \in [Tool -> (SUBSET Key) \cup {NotATool}]
    BY DEF RegistryInv, Tables
  <1>2. tools'[t] = K /\ \A x \in Tool : x # t => tools'[x] = tools[x]
    BY <1>1
  <1>3. Tables'
    <2>1. tools' \in [Tool -> (SUBSET Key) \cup {NotATool}]
      BY <1>1
    <2> QED
      BY <2>1 DEF RegistryInv, Tables
  <1>4. RowsRefer'
    <2>1. \A x \in bound : x \in Tool /\ Exists(x)
      BY DEF RegistryInv, RowsRefer
    <2>2. \A x \in bound : Exists(x)'
      BY <1>2, <2>1 DEF Exists
    <2>3. bound' \subseteq {x \in Tool : Exists(x)'}
      BY <2>1, <2>2
    <2> QED
      BY <2>3 DEF RegistryInv, RowsRefer
  <1>5. ASSUME NEW b \in Admin, b # a, op[b] # NoOp PROVE SparesRegistry(op[b])
    <2>1. ToolRow(t) \notin op[b].share
      <3>1. ToolRow(t) \in {ToolRow(t)} \cup PermissionRows(t)
        OBVIOUS
      <3> QED
        BY <1>5, <3>1, NobodyElse
    <2>2. ASSUME NEW k \in Permissions(t) PROVE PermissionRow(t, k) \notin op[b].share
      <3>1. PermissionRow(t, k) \in {ToolRow(t)} \cup PermissionRows(t)
        BY DEF PermissionRows
      <3> QED
        BY <1>5, <3>1, NobodyElse
    <2>3. ASSUME NEW x \in Tool, x # t PROVE Permissions(x)' = Permissions(x)
      BY <1>2, <2>3 DEF Permissions, Exists
    <2>4. SparesTools(op[b])
      BY <1>2, <2>1, <2>2, <2>3 DEF SparesTools
    <2> QED
      BY <2>4 DEF SparesRegistry, SparesScopes, SparesResources, SparesMappings, SparesBindings, SparesClient
  <1> QED
    BY <1>3, <1>4, <1>5, AtOnceInv

LEMMA Keys == ASSUME NEW K \in SUBSET Key PROVE K # NotATool
  BY RegistryAssumption DEF NotATool, NoTool, NoKey

LEMMA CreateToolInv ==
  ASSUME RegistryInv, NEW a \in Admin, NEW t \in Tool, NEW K \in SUBSET Key, CreateTool(a, t, K)
  PROVE  RegistryInv'
  <1>1. PermissionRows(t) = {}
    BY DEF CreateTool, PermissionRows, Permissions
  <1>2. op[a] = NoOp /\ CanLock(a, {}, {ToolRow(t)} \cup PermissionRows(t))
    BY <1>1 DEF CreateTool, AtOnce
  <1>3. /\ tools' = [tools EXCEPT ![t] = K]
        /\ UNCHANGED <<agenda, op, scopes, resources, mapping, binding, bound, client, lists>>
    BY DEF CreateTool, AtOnce
  <1> QED
    BY <1>2, <1>3, Keys, ToolWritten

LEMMA PatchToolInv ==
  ASSUME RegistryInv, NEW a \in Admin, NEW t \in Tool, NEW K \in SUBSET Key, PatchTool(a, t, K)
  PROVE  RegistryInv'
  <1>1. /\ op[a] = NoOp /\ CanLock(a, {}, {ToolRow(t)} \cup PermissionRows(t))
        /\ tools' = [tools EXCEPT ![t] = K]
        /\ UNCHANGED <<agenda, op, scopes, resources, mapping, binding, bound, client, lists>>
    BY DEF PatchTool, AtOnce
  <1> QED
    BY <1>1, Keys, ToolWritten

LEMMA DeleteToolInv ==
  ASSUME RegistryInv, NEW a \in Admin, NEW t \in Tool, DeleteTool(a, t) PROVE RegistryInv'
  <1>1. PICK K \in (SUBSET Key) \cup {NotATool} : K = NotATool
    OBVIOUS
  <1>2. /\ op[a] = NoOp /\ CanLock(a, {}, {ToolRow(t)} \cup PermissionRows(t))
        /\ tools' = [tools EXCEPT ![t] = K]
        /\ t \notin bound
        /\ UNCHANGED <<agenda, op, scopes, resources, mapping, binding, bound, client, lists>>
    BY <1>1 DEF DeleteTool, AtOnce
  <1> QED
    BY <1>2, ToolWritten

-----------------------------------------------------------------------------
(* What is checked stands.                                                 *)

LEMMA CheckNativeInv ==
  ASSUME RegistryInv, NEW a \in Admin, NEW r \in Native, NEW S \in SUBSET Scope, NEW status \in Status,
         CheckNative(a, r, S, status)
  PROVE  RegistryInv'
  <1>1. PICK o : o = [kind |-> "native", resource |-> r, scopes |-> S, status |-> status,
                      share |-> {ScopeRow(s) : s \in S}, update |-> {}]
    OBVIOUS
  <1>2. /\ o.kind = "native" /\ o.resource = r /\ o.scopes = S /\ o.status = status
        /\ o.share = {ScopeRow(s) : s \in S} /\ {"kind", "share", "update"} \subseteq DOMAIN o
    BY <1>1
  <1>3. /\ \A s \in S : scopes[s] = "active"
        /\ CanLock(a, o.share, o.update) /\ Goes(a, o) /\ UNCHANGED <<agenda, registry>>
    BY <1>1 DEF CheckNative, Checks
  <1>4. NativeStands(o)
    BY <1>2, <1>3 DEF NativeStands, ActiveScopes
  <1>5. CheckStands(o)
    BY <1>2, <1>4 DEF CheckStands, Kinds
  <1> QED
    BY <1>3, <1>5, ChecksInv DEF Goes

LEMMA CheckBridgeInv ==
  ASSUME RegistryInv, NEW a \in Admin, NEW r \in Bridge, NEW t \in Tool, NEW S \in SUBSET Scope,
         NEW f \in [S -> Key], NEW status \in Status, CheckBridge(a, r, t, f, status)
  PROVE  RegistryInv'
  <1>1. PICK rows : rows = {ScopeRow(s) : s \in S} \cup {ToolRow(t)} \cup PermissionRows(t)
    OBVIOUS
  <1>2. PICK o : o = [kind |-> "bridge", resource |-> r, tool |-> t, map |-> f,
                      status |-> status, share |-> rows, update |-> {}]
    OBVIOUS
  <1>3. /\ o.kind = "bridge" /\ o.resource = r /\ o.tool = t /\ o.map = f /\ o.status = status
        /\ o.share = rows /\ {"kind", "share", "update"} \subseteq DOMAIN o
    BY <1>2
  <1>4. DOMAIN f = S
    OBVIOUS
  <1>5. /\ Exists(t) /\ \A s \in S : f[s] \in Permissions(t) /\ scopes[s] = "active"
        /\ CanLock(a, o.share, o.update) /\ Goes(a, o) /\ UNCHANGED <<agenda, registry>>
    BY <1>1, <1>2, <1>4 DEF CheckBridge, Checks
  <1>6. BridgeStands(o)
    BY <1>1, <1>3, <1>4, <1>5 DEF BridgeStands, ActiveScopes
  <1>7. CheckStands(o)
    BY <1>3, <1>6 DEF CheckStands, Kinds
  <1> QED
    BY <1>5, <1>7, ChecksInv DEF Goes

LEMMA CheckMappingInv ==
  ASSUME RegistryInv, NEW a \in Admin, NEW e \in Entry, NEW status \in Switch,
         NEW key \in Key \cup {NoKey}, CheckMapping(a, e, status, key)
  PROVE  RegistryInv'
  <1>1. PICK rows :
          rows = {ResourceRow(e[1]), ScopeRow(e[2])}
                   \cup (IF e[1] \in Bridge
                         THEN {BindingRow(e[1]), PermissionRow(binding[e[1]], key)} ELSE {})
    OBVIOUS
  <1>2. PICK o : o = [kind |-> "mapping", entry |-> e, status |-> status, key |-> key,
                      share |-> rows, update |-> {}]
    OBVIOUS
  <1>3. /\ o.kind = "mapping" /\ o.entry = e /\ o.status = status /\ o.key = key
        /\ o.share = rows /\ {"kind", "share", "update"} \subseteq DOMAIN o
    BY <1>2
  <1>4. CanLock(a, o.share, o.update) /\ Goes(a, o) /\ UNCHANGED <<agenda, registry>>
    BY <1>1, <1>2 DEF CheckMapping, Checks
  <1>5. /\ resources[e[1]] # "none" /\ scopes[e[2]] # "none"
        /\ status = "active" => scopes[e[2]] = "active"
        /\ IF e[1] \in Bridge THEN binding[e[1]] # NoTool /\ key \in Permissions(binding[e[1]])
           ELSE key = NoKey
    BY DEF CheckMapping
  <1>6. e[1] \in Native => e[1] \notin Bridge
    BY RegistryAssumption
  <1>7. /\ ResourceRow(e[1]) \in rows /\ ScopeRow(e[2]) \in rows
        /\ e[1] \in Bridge => /\ BindingRow(e[1]) \in rows
                              /\ PermissionRow(binding[e[1]], key) \in rows
    BY <1>1
  <1>8. MappingStands(o)
    BY <1>3, <1>5, <1>6, <1>7 DEF MappingStands
  <1>9. CheckStands(o)
    BY <1>3, <1>8 DEF CheckStands, Kinds
  <1> QED
    BY <1>4, <1>9, ChecksInv DEF Goes

LEMMA CheckBindingInv ==
  ASSUME RegistryInv, NEW a \in Admin, NEW r \in Bridge, NEW t \in Tool, NEW status \in Switch,
         CheckBinding(a, r, t, status)
  PROVE  RegistryInv'
  <1>1. PICK o : o = [kind |-> "binding", resource |-> r, tool |-> t, status |-> status,
                      share |-> {ToolRow(t)}, update |-> {ResourceRow(r)}]
    OBVIOUS
  <1>2. /\ o.kind = "binding" /\ o.resource = r /\ o.tool = t /\ o.status = status
        /\ o.share = {ToolRow(t)} /\ o.update = {ResourceRow(r)}
        /\ {"kind", "share", "update"} \subseteq DOMAIN o
    BY <1>1
  <1>3. /\ resources[r] # "none" /\ Exists(t) /\ (status = "active" => Uncovered(r, t) = {})
        /\ CanLock(a, o.share, o.update) /\ Goes(a, o) /\ UNCHANGED <<agenda, registry>>
    BY <1>1 DEF CheckBinding, Checks
  <1>4. BindingStands(o)
    BY <1>2, <1>3 DEF BindingStands
  <1>5. CheckStands(o)
    BY <1>2, <1>4 DEF CheckStands, Kinds
  <1> QED
    BY <1>3, <1>5, ChecksInv DEF Goes

LEMMA TargetsFound ==
  ASSUME NEW o, NEW E, o.share = TargetRows(E), \A e \in E : Registered(e) PROVE TargetsFit(o, E)
  BY DEF TargetsFit, TargetRows

LEMMA CheckClientInv ==
  ASSUME RegistryInv, NEW a \in Admin, NEW E \in SUBSET Entry, NEW U \in SUBSET Uri,
         NEW status \in Status, CheckClient(a, E, U, status)
  PROVE  RegistryInv'
  <1>1. PICK o : o = [kind |-> "client", allowances |-> E, redirect_uris |-> U,
                      status |-> status, share |-> TargetRows(E), update |-> {}]
    OBVIOUS
  <1>2. /\ o.kind = "client" /\ o.allowances = E /\ o.redirect_uris = U /\ o.status = status
        /\ o.share = TargetRows(E) /\ {"kind", "share", "update"} \subseteq DOMAIN o
    BY <1>1
  <1>3. /\ \A e \in E : Registered(e)
        /\ CanLock(a, o.share, o.update) /\ Goes(a, o) /\ UNCHANGED <<agenda, registry>>
    BY <1>1 DEF CheckClient, Checks
  <1>4. ClientStands(o)
    BY <1>2, <1>3, TargetsFound DEF ClientStands
  <1>5. CheckStands(o)
    BY <1>2, <1>4 DEF CheckStands, Kinds
  <1> QED
    BY <1>3, <1>5, ChecksInv DEF Goes

LEMMA PreviewListInv ==
  ASSUME RegistryInv, NEW a \in Admin, NEW list \in List, NEW items \in SUBSET Items(list),
         PreviewList(a, list, items)
  PROVE  RegistryInv'
  <1>1. PICK seen : seen = lists[list]
    OBVIOUS
  <1>2. PICK o : o = [kind |-> "preview", list |-> list, items |-> items, seen |-> seen,
                      share |-> {}, update |-> {}]
    OBVIOUS
  <1>3. /\ o.kind = "preview" /\ o.list = list /\ o.items = items
        /\ {"kind", "share", "update", "list", "items", "seen"} \subseteq DOMAIN o
    BY <1>2
  <1>4. /\ client # "none"
        /\ CanLock(a, o.share, o.update) /\ Goes(a, o) /\ UNCHANGED <<agenda, registry>>
    BY <1>1, <1>2 DEF PreviewList, Checks
  <1>5. ListStands(o)
    BY <1>3, <1>4 DEF ListStands
  <1>6. CheckStands(o)
    BY <1>3, <1>5 DEF CheckStands, Kinds
  <1> QED
    BY <1>4, <1>6, ChecksInv DEF Goes

LEMMA CheckReplaceInv ==
  ASSUME RegistryInv, NEW a \in Admin, NEW list \in List, NEW items \in SUBSET Items(list),
         CheckReplace(a, list, items)
  PROVE  RegistryInv'
  <1>1. PICK o : o = [kind |-> "replace", list |-> list, items |-> items,
                      share |-> TargetRows(Named(list, items)), update |-> TheClient]
    OBVIOUS
  <1>2. /\ o.kind = "replace" /\ o.list = list /\ o.items = items
        /\ o.share = TargetRows(Named(list, items)) /\ o.update = TheClient
        /\ {"kind", "share", "update"} \subseteq DOMAIN o
    BY <1>1
  <1>3. /\ client # "none" /\ \A e \in Named(list, items) : Registered(e)
        /\ CanLock(a, o.share, o.update) /\ Goes(a, o) /\ UNCHANGED <<agenda, registry>>
    BY <1>1 DEF CheckReplace, Checks, Stand
  <1>4. TargetsFit(o, Named(list, items))
    BY <1>2, <1>3, TargetsFound
  <1>5. ListStands(o)
    BY <1>2, <1>3, <1>4 DEF ListStands, TheClient
  <1>6. CheckStands(o)
    BY <1>2, <1>5 DEF CheckStands, Kinds
  <1> QED
    BY <1>3, <1>6, ChecksInv DEF Goes

LEMMA CheckCommitInv == ASSUME RegistryInv, NEW a \in Admin, CheckCommit(a) PROVE RegistryInv'
  <1>1. PICK p : p = op[a]
    OBVIOUS
  <1>2. p.kind = "preview" /\ op[a] # NoOp
    BY <1>1 DEF CheckCommit, Doing, NoOp
  <1>3. CheckStands(p) /\ ListStands(p)
    BY <1>1, <1>2, KeptStanding DEF CheckStands
  <1>4. PICK rows : rows = TargetRows(Named(p.list, p.items))
    OBVIOUS
  <1>5. PICK o : o = [p EXCEPT !.kind = "commit", !.update = TheClient, !.share = rows]
    OBVIOUS
  <1>6. {"kind", "share", "update", "list", "items", "seen"} \subseteq DOMAIN p
    BY <1>2, <1>3 DEF CheckStands, ListStands
  <1>7. /\ o.kind = "commit" /\ o.list = p.list /\ o.items = p.items /\ o.seen = p.seen
        /\ o.share = rows /\ o.update = TheClient /\ DOMAIN o = DOMAIN p
    BY <1>5, <1>6
  <1>8. /\ \A e \in Named(p.list, p.items) : Registered(e)
        /\ lists[p.list] = p.seen
        /\ CanLock(a, rows, TheClient) /\ Goes(a, o) /\ UNCHANGED <<agenda, registry>>
    BY <1>1, <1>4, <1>5 DEF CheckCommit, Stand
  <1>9. TargetsFit(o, Named(p.list, p.items))
    BY <1>4, <1>7, <1>8, TargetsFound
  <1>10. ListStands(o)
    BY <1>3, <1>6, <1>7, <1>8, <1>9 DEF ListStands, TheClient
  <1>11. CheckStands(o)
    BY <1>6, <1>7, <1>10 DEF CheckStands, Kinds
  <1> QED
    BY <1>7, <1>8, <1>11, ChecksInv DEF Goes

LEMMA GiveUpInv == ASSUME RegistryInv, NEW a \in Admin, GiveUp(a) PROVE RegistryInv'
  <1>1. /\ Ends(a)
        /\ UNCHANGED <<scopes, resources, mapping, binding, bound, tools, client, lists, agenda>>
    BY DEF GiveUp, Fails, registry
  <1>2. Tables' /\ RowsRefer'
    <2>1. op' = [b \in Admin |-> op'[b]]
      BY <1>1, OpType DEF Ends
    <2> QED
      BY <1>1, <2>1 DEF RegistryInv, Tables, RowsRefer, Exists
  <1>3. ASSUME NEW b \in Admin PROVE SparesRegistry(op[b])
    BY <1>1 DEF SparesRegistry, SparesScopes, SparesResources, SparesMappings, SparesBindings,
       SparesTools, SparesClient, Permissions, Exists
  <1> QED
    BY <1>1, <1>2, <1>3, EndsInv

-----------------------------------------------------------------------------
(* Every behaviour.                                                        *)

LEMMA RegistryInitInv == ASSUME RegistrationInit PROVE RegistryInv
  <1>1. \A a \in Admin : op[a] = NoOp
    BY DEF RegistrationInit
  <1>2. Tables
    <2>1. mapping \in [Entry -> [status : Switch \cup {"none"}, key : Key \cup {NoKey}]]
      BY DEF RegistrationInit, NoMapping
    <2>2. lists \in [List -> (SUBSET Entry) \cup (SUBSET Uri)]
      BY DEF RegistrationInit
    <2>3. tools \in [Tool -> (SUBSET Key) \cup {NotATool}]
      BY DEF RegistrationInit
    <2> QED
      BY <2>1, <2>2, <2>3 DEF RegistrationInit, Tables
  <1>3. RowsRefer
    BY DEF RegistrationInit, RowsRefer
  <1>4. Compatible
    BY <1>1, KeptByNobody DEF Compatible
  <1> QED
    BY <1>1, <1>2, <1>3, <1>4 DEF RegistryInv, AllStand

LEMMA StepInv == ASSUME RegistryInv, NEW a \in Admin, Registers(a) PROVE RegistryInv'
  <1>1. CASE \E s \in Scope, status \in Switch : CreateScope(a, s) \/ UpdateScope(a, s, status)
    BY <1>1, CreateScopeInv, UpdateScopeInv
  <1>2. CASE \E S \in Some(Scope), status \in Switch :
               BulkScopes(a, S, {}) \/ BulkScopes(a, S, S) \/ BulkScopeStatus(a, S, status)
    BY <1>2, BulkScopesInv, BulkScopeStatusInv DEF Some
  <1>3. CASE \E r \in Native, S \in Some(Scope), status \in Status : CheckNative(a, r, S, status)
    BY <1>3, CheckNativeInv DEF Some
  <1>4. CASE \E r \in Native, S \in SUBSET Scope, T \in SUBSET Scope :
               BulkNativeMapping(a, r, S, T)
    BY <1>4, BulkNativeMappingInv
  <1>5. CASE \E r \in Bridge, t \in Tool, S \in Some(Scope), status \in Status :
               \E f \in [S -> Key] : CheckBridge(a, r, t, f, status)
    BY <1>5, CheckBridgeInv DEF Some
  <1>6. CASE CommitNative(a) \/ CommitBridge(a)
    BY <1>6, CommitNativeInv, CommitBridgeInv
  <1>7. CASE \E r \in Resource, status \in Status : SetResourceStatus(a, r, status)
    BY <1>7, SetResourceStatusInv
  <1>8. CASE \E e \in Entry, status \in Switch, key \in Key \cup {NoKey} :
               CheckMapping(a, e, status, key)
    BY <1>8, CheckMappingInv
  <1>9. CASE CommitMapping(a) \/ CommitBinding(a) \/ CommitClient(a)
    BY <1>9, CommitMappingInv, CommitBindingInv, CommitClientInv
  <1>10. CASE \E r \in Bridge, t \in Tool, status \in Switch : CheckBinding(a, r, t, status)
    BY <1>10, CheckBindingInv
  <1>11. CASE \E E \in Some(Entry), U \in Some(Uri), status \in Status :
                CheckClient(a, E, U, status)
    BY <1>11, CheckClientInv DEF Some
  <1>12. CASE \E status \in Status : SetClientStatus(a, status)
    BY <1>12, SetClientStatusInv
  <1>13. CASE \E list \in List : \E items \in SUBSET Items(list) :
                PreviewList(a, list, items) \/ CheckReplace(a, list, items)
    BY <1>13, PreviewListInv, CheckReplaceInv
  <1>14. CASE CheckCommit(a) \/ CommitList(a) \/ GiveUp(a)
    BY <1>14, CheckCommitInv, CommitListInv, GiveUpInv
  <1>15. CASE \E t \in Tool : \/ DeleteTool(a, t)
                              \/ \E K \in SUBSET Key : CreateTool(a, t, K) \/ PatchTool(a, t, K)
    BY <1>15, DeleteToolInv, CreateToolInv, PatchToolInv
  <1> QED
    BY <1>1, <1>2, <1>3, <1>4, <1>5, <1>6, <1>7, <1>8, <1>9, <1>10, <1>11, <1>12, <1>13,
       <1>14, <1>15 DEF Registers

LEMMA RegistryNextInv == ASSUME RegistryInv, [RegistrationNext]_registrationVars PROVE RegistryInv'
  <1>1. CASE RegistrationNext
    BY <1>1, StepInv DEF RegistrationNext
  <1>2. CASE UNCHANGED registrationVars
    BY <1>2 DEF registrationVars, registry, RegistryInv, Tables, RowsRefer, Compatible, AllStand, Holds,
       CheckStands, NativeStands, BridgeStands, MappingStands, BindingStands, ClientStands,
       ListStands, ActiveScopes, TargetsFit, Registered, Uncovered, Permissions, Exists
  <1> QED
    BY <1>1, <1>2

\* In every state the tables fit together, and what the operations have checked
\* stands until they commit it.
THEOREM RegistryInvHolds == RegistrationSpec => []RegistryInv
  <1> QED
    BY RegistryInitInv, RegistryNextInv, PTL DEF RegistrationSpec

\* The columns hold what they may, for any registry, and the rows that refer to
\* each other exist (migrations/003_oauth_dark_foundation.sql).
THEOREM TablesHold == RegistrationSpec => []RegistrationTypeOK
  <1>1. RegistryInv => RegistrationTypeOK
    BY DEF RegistryInv, Tables, RowsRefer, RegistrationTypeOK
  <1> QED
    BY <1>1, RegistryInvHolds, PTL

\* A commit of a list overwrites what its administrator was shown: the client is
\* locked from the comparison to the write (admin-repository.ts:435-522).
THEOREM CommitsAreOfTheSeen == RegistrationSpec => CommitSeesPreview
  <1>1. ASSUME RegistryInv, NEW a \in Admin, Doing(a, "commit")
        PROVE  lists[op[a].list] = op[a].seen
    <2>1. op[a].kind = "commit" /\ op[a] # NoOp
      BY <1>1 DEF Doing, NoOp
    <2> QED
      BY <1>1, <2>1, KeptStanding DEF CheckStands, ListStands
  <1>2. ASSUME RegistryInv, [RegistrationNext]_registrationVars
        PROVE  [\A a \in Admin : Doing(a, "commit") /\ lists' # lists /\ op'[a] = NoOp
                  => lists[op[a].list] = op[a].seen]_registrationVars
    BY <1>1, <1>2
  <1> QED
    BY <1>2, RegistryInvHolds, PTL DEF RegistrationSpec, CommitSeesPreview

-----------------------------------------------------------------------------
(* What a commit refers to.                                                *)

ListsLink ==
  lists'["allowances"] # lists["allowances"] => \A e \in lists'["allowances"] : Registered(e)'
KeysLink ==
  \A e \in Bridge \X Scope :
    /\ mapping'[e].status = "active"
    /\ binding'[e[1]] # NoTool
    /\ mapping'[e] # mapping[e] \/ binding'[e[1]] # binding[e[1]]
    => mapping'[e].key \in Permissions(binding[e[1]])'
ScopesLink ==
  \A e \in Entry : mapping'[e].status = "active" /\ mapping'[e] # mapping[e]
                     => scopes'[e[2]] = "active"

Links == ListsLink /\ KeysLink /\ ScopesLink

LEMMA NothingLinked == ASSUME UNCHANGED <<mapping, binding, lists>> PROVE Links
  BY DEF Links, ListsLink, KeysLink, ScopesLink

LEMMA BridgeEntries ==
  ASSUME NEW e \in Bridge \X Scope PROVE e \in Entry /\ e[1] \in Bridge /\ e[2] \in Scope
  BY DEF Entry, Resource

LEMMA NativeLinks == ASSUME RegistryInv, NEW a \in Admin, CommitNative(a) PROVE Links
  <1>1. op[a].kind = "native" /\ op[a] # NoOp /\ UNCHANGED <<scopes, binding, lists>>
    BY DEF CommitNative, Doing, NoOp
  <1>2. NativeStands(op[a])
    BY <1>1, KeptStanding DEF CheckStands
  <1>3. \A e \in Entry : mapping'[e] # mapping[e]
                           => e[1] = op[a].resource /\ e[2] \in op[a].scopes
    BY DEF CommitNative
  <1>4. ScopesLink
    BY <1>1, <1>2, <1>3 DEF ScopesLink, NativeStands, ActiveScopes
  <1>5. KeysLink
    <2>1. ASSUME NEW e \in Bridge \X Scope PROVE mapping'[e] = mapping[e]
      <3>1. e \in Entry /\ e[1] \notin Native
        BY BridgeEntries, RegistryAssumption
      <3> QED
        BY <1>2, <1>3, <3>1 DEF NativeStands
    <2> QED
      BY <1>1, <2>1 DEF KeysLink
  <1> QED
    BY <1>1, <1>4, <1>5 DEF Links, ListsLink

LEMMA BulkNativeLinks ==
  ASSUME RegistryInv, NEW a \in Admin, NEW r \in Native, NEW on \in SUBSET Scope, NEW off \in SUBSET Scope,
         BulkNativeMapping(a, r, on, off)
  PROVE  Links
  <1>1. UNCHANGED <<scopes, binding, lists>> /\ \A s \in on : scopes[s] = "active"
    BY DEF BulkNativeMapping
  <1>2. \A e \in Entry : mapping'[e] = IF e[1] # r THEN mapping[e]
                                       ELSE IF e[2] \in on THEN Mapped("active", NoKey)
                                       ELSE IF e[2] \in off THEN Mapped("disabled", mapping[e].key)
                                       ELSE mapping[e]
    BY DEF BulkNativeMapping
  <1>3. \A e \in Entry : mapping'[e].status = "active" /\ mapping'[e] # mapping[e]
                           => e[1] = r /\ e[2] \in on
    <2>1. ASSUME NEW e \in Entry, e[1] = r, e[2] \notin on, e[2] \in off
          PROVE  mapping'[e].status = "disabled"
      <3>1. mapping'[e] = Mapped("disabled", mapping[e].key)
        BY <1>2, <2>1
      <3> QED
        BY <3>1 DEF Mapped
    <2>2. \A e \in Entry : e[1] # r \/ e[2] \notin on \cup off => mapping'[e] = mapping[e]
      BY <1>2
    <2> QED
      BY <2>1, <2>2
  <1>4. ScopesLink
    BY <1>1, <1>3 DEF ScopesLink
  <1>5. KeysLink
    <2>1. ASSUME NEW e \in Bridge \X Scope PROVE mapping'[e] = mapping[e]
      <3>1. e \in Entry /\ e[1] # r
        BY BridgeEntries, RegistryAssumption
      <3> QED
        BY <1>2, <3>1
    <2> QED
      BY <1>1, <2>1 DEF KeysLink
  <1> QED
    BY <1>1, <1>4, <1>5 DEF Links, ListsLink

LEMMA BridgeLinks == ASSUME RegistryInv, NEW a \in Admin, CommitBridge(a) PROVE Links
  <1>1. op[a].kind = "bridge" /\ op[a] # NoOp /\ UNCHANGED <<scopes, tools, lists>>
    BY DEF CommitBridge, Doing, NoOp
  <1>2. BridgeStands(op[a])
    BY <1>1, KeptStanding DEF CheckStands
  <1>3. PICK r \in Bridge, t \in Tool, f \in {op[a].map} : r = op[a].resource /\ t = op[a].tool /\ f = op[a].map
    BY <1>2 DEF BridgeStands
  <1>4. /\ resources[r] = "none" /\ binding' = [binding EXCEPT ![r] = t]
        /\ mapping' = [e \in Entry |-> IF e[1] = r /\ e[2] \in DOMAIN f
                                       THEN Mapped("active", f[e[2]]) ELSE mapping[e]]
    BY <1>3 DEF CommitBridge
  <1>5. \A s \in DOMAIN f : f[s] \in Permissions(t) /\ scopes[s] = "active"
    BY <1>2, <1>3 DEF BridgeStands, ActiveScopes
  <1>6. ScopesLink
    BY <1>1, <1>4, <1>5 DEF ScopesLink
  <1>7. ASSUME NEW e \in Bridge \X Scope, mapping'[e].status = "active",
               mapping'[e] # mapping[e] \/ binding'[e[1]] # binding[e[1]]
        PROVE  mapping'[e].key \in Permissions(binding[e[1]])'
    <2>1. e \in Entry /\ e[1] \in Bridge
      BY BridgeEntries
    <2>2. binding \in [Bridge -> Tool \cup {NoTool}]
      BY DEF RegistryInv, Tables
    <2>3. e[1] = r
      BY <1>4, <1>7, <2>1, <2>2
    <2>4. e[2] \in DOMAIN f
      <3>1. mapping[e] = NoMapping
        BY <1>4, <2>1, <2>3, Unmapped
      <3>2. mapping'[e] # mapping[e]
        BY <1>7, <3>1 DEF NoMapping
      <3> QED
        BY <1>4, <2>1, <3>2
    <2>5. mapping'[e] = Mapped("active", f[e[2]])
      BY <1>4, <2>1, <2>3, <2>4
    <2>6. mapping'[e].key \in Permissions(t)
      BY <1>5, <2>4, <2>5 DEF Mapped
    <2>7. Permissions(t)' = Permissions(t)
      BY <1>1 DEF Permissions, Exists
    <2>8. binding'[e[1]] = t
      BY <1>4, <2>2, <2>3
    <2> QED
      BY <2>6, <2>7, <2>8 DEF Permissions, Exists
  <1>8. KeysLink
    BY <1>7 DEF KeysLink
  <1> QED
    BY <1>1, <1>6, <1>8 DEF Links, ListsLink

LEMMA MappingLinks == ASSUME RegistryInv, NEW a \in Admin, CommitMapping(a) PROVE Links
  <1>1. op[a].kind = "mapping" /\ op[a] # NoOp /\ UNCHANGED <<scopes, binding, tools, lists>>
    BY DEF CommitMapping, Doing, NoOp
  <1>2. MappingStands(op[a])
    BY <1>1, KeptStanding DEF CheckStands
  <1>3. PICK e \in Entry : e = op[a].entry
    BY <1>2 DEF MappingStands
  <1>4. mapping' = [mapping EXCEPT ![e] = Mapped(op[a].status, op[a].key)]
    BY <1>3 DEF CommitMapping
  <1>5. mapping \in [Entry -> MappingRows]
    BY DEF RegistryInv, Tables, MappingRows
  <1>6. /\ \A x \in Entry : mapping'[x] # mapping[x] => x = e
        /\ mapping'[e].status = op[a].status /\ mapping'[e].key = op[a].key
    BY <1>4, <1>5 DEF Mapped
  <1>7. /\ op[a].status = "active" => scopes[e[2]] = "active"
        /\ e[1] \in Bridge => op[a].key \in Permissions(binding[e[1]])
    BY <1>2, <1>3 DEF MappingStands
  <1>8. ScopesLink
    BY <1>1, <1>6, <1>7 DEF ScopesLink
  <1>9. KeysLink
    <2>1. ASSUME NEW x \in Bridge \X Scope,
                 mapping'[x] # mapping[x] \/ binding'[x[1]] # binding[x[1]]
          PROVE  mapping'[x].key \in Permissions(binding[x[1]])
      <3>1. x = e /\ e[1] \in Bridge
        BY <1>1, <1>6, <2>1, BridgeEntries
      <3> QED
        BY <1>6, <1>7, <3>1
    <2>2. ASSUME NEW x \in Bridge \X Scope
          PROVE  Permissions(binding[x[1]])' = Permissions(binding[x[1]])
      BY <1>1 DEF Permissions, Exists
    <2> QED
      BY <2>1, <2>2 DEF KeysLink
  <1> QED
    BY <1>1, <1>8, <1>9 DEF Links, ListsLink

LEMMA BindingLinks == ASSUME RegistryInv, NEW a \in Admin, CommitBinding(a) PROVE Links
  <1>1. op[a].kind = "binding" /\ op[a] # NoOp /\ UNCHANGED <<scopes, mapping, tools, lists>>
    BY DEF CommitBinding, Doing, NoOp
  <1>2. BindingStands(op[a])
    BY <1>1, KeptStanding DEF CheckStands
  <1>3. PICK r \in Bridge, t \in Tool : r = op[a].resource /\ t = op[a].tool
    BY <1>2 DEF BindingStands
  <1>4. binding' = [binding EXCEPT ![r] = IF op[a].status = "active" THEN t ELSE NoTool]
    BY <1>3 DEF CommitBinding
  <1>5. binding \in [Bridge -> Tool \cup {NoTool}]
    BY DEF RegistryInv, Tables
  <1>6. op[a].status = "active" => Uncovered(r, t) = {}
    BY <1>2, <1>3 DEF BindingStands
  <1>7. ASSUME NEW e \in Bridge \X Scope, mapping'[e].status = "active", binding'[e[1]] # NoTool,
               mapping'[e] # mapping[e] \/ binding'[e[1]] # binding[e[1]]
        PROVE  mapping'[e].key \in Permissions(binding[e[1]])'
    <2>1. e[1] \in Bridge /\ e[2] \in Scope /\ e = <<e[1], e[2]>>
      BY BridgeEntries, Entries
    <2>2. e[1] = r /\ binding'[r] = t /\ op[a].status = "active"
      BY <1>1, <1>4, <1>5, <1>7, <2>1
    <2>3. e \in {r} \X Scope
      BY <2>1, <2>2
    <2>4. mapping[e].key \in Permissions(t)
      BY <1>1, <1>6, <1>7, <2>2, <2>3 DEF Uncovered
    <2>5. Permissions(t)' = Permissions(t)
      BY <1>1 DEF Permissions, Exists
    <2> QED
      BY <1>1, <2>2, <2>4, <2>5 DEF Permissions, Exists
  <1>8. KeysLink
    BY <1>7 DEF KeysLink
  <1> QED
    BY <1>1, <1>8 DEF Links, ListsLink, ScopesLink

LEMMA ClientLinks == ASSUME RegistryInv, NEW a \in Admin, CommitClient(a) PROVE Links
  <1>1. /\ op[a].kind = "client" /\ op[a] # NoOp
        /\ UNCHANGED <<scopes, resources, mapping, binding>>
    BY DEF CommitClient, Doing, NoOp
  <1>2. TargetsFit(op[a], op[a].allowances)
    BY <1>1, KeptStanding DEF CheckStands, ClientStands
  <1>3. lists'["allowances"] = op[a].allowances
    BY DEF CommitClient, List
  <1>4. ListsLink
    BY <1>1, <1>2, <1>3 DEF ListsLink, TargetsFit, Registered
  <1> QED
    BY <1>1, <1>4 DEF Links, KeysLink, ScopesLink

LEMMA ListLinks == ASSUME RegistryInv, NEW a \in Admin, CommitList(a) PROVE Links
  <1>1. UNCHANGED <<scopes, resources, mapping, binding>>
        /\ lists' = [lists EXCEPT ![op[a].list] = op[a].items]
    BY DEF CommitList
  <1>2. TargetsFit(op[a], Named(op[a].list, op[a].items)) /\ ListStands(op[a])
    BY CommitsWhatStands
  <1>3. lists \in [List -> (SUBSET Entry) \cup (SUBSET Uri)]
    BY DEF RegistryInv, Tables
  <1>4. CASE op[a].list = "allowances"
    <2>1. lists'["allowances"] = op[a].items
      BY <1>1, <1>3, <1>4 DEF List
    <2>2. \A e \in op[a].items : Registered(e)
      BY <1>2, <1>4 DEF TargetsFit, Named
    <2>3. ListsLink
      BY <1>1, <2>1, <2>2 DEF ListsLink, Registered
    <2> QED
      BY <1>1, <2>3 DEF Links, KeysLink, ScopesLink
  <1>5. CASE op[a].list # "allowances"
    <2>1. lists'["allowances"] = lists["allowances"]
      BY <1>1, <1>3, <1>5 DEF List
    <2> QED
      BY <1>1, <2>1 DEF Links, ListsLink, KeysLink, ScopesLink
  <1> QED
    BY <1>4, <1>5

LEMMA StepLinks == ASSUME RegistryInv, NEW a \in Admin, Registers(a) PROVE Links
  <1>1. CASE \E s \in Scope, status \in Switch : CreateScope(a, s) \/ UpdateScope(a, s, status)
    BY <1>1, NothingLinked DEF CreateScope, UpdateScope
  <1>2. CASE \E S \in Some(Scope), status \in Switch :
               BulkScopes(a, S, {}) \/ BulkScopes(a, S, S) \/ BulkScopeStatus(a, S, status)
    BY <1>2, NothingLinked DEF BulkScopes, BulkScopeStatus
  <1>3. CASE \E r \in Native, S \in Some(Scope), status \in Status : CheckNative(a, r, S, status)
    BY <1>3, NothingLinked DEF CheckNative, Checks, registry
  <1>4. CASE \E r \in Native, S \in SUBSET Scope, T \in SUBSET Scope :
               BulkNativeMapping(a, r, S, T)
    BY <1>4, BulkNativeLinks
  <1>5. CASE \E r \in Bridge, t \in Tool, S \in Some(Scope), status \in Status :
               \E f \in [S -> Key] : CheckBridge(a, r, t, f, status)
    BY <1>5, NothingLinked DEF CheckBridge, Checks, registry
  <1>6. CASE CommitNative(a) \/ CommitBridge(a)
    BY <1>6, NativeLinks, BridgeLinks
  <1>7. CASE \E r \in Resource, status \in Status : SetResourceStatus(a, r, status)
    BY <1>7, NothingLinked DEF SetResourceStatus
  <1>8. CASE \E e \in Entry, status \in Switch, key \in Key \cup {NoKey} :
               CheckMapping(a, e, status, key)
    BY <1>8, NothingLinked DEF CheckMapping, Checks, registry
  <1>9. CASE CommitMapping(a) \/ CommitBinding(a) \/ CommitClient(a)
    BY <1>9, MappingLinks, BindingLinks, ClientLinks
  <1>10. CASE \E r \in Bridge, t \in Tool, status \in Switch : CheckBinding(a, r, t, status)
    BY <1>10, NothingLinked DEF CheckBinding, Checks, registry
  <1>11. CASE \E E \in Some(Entry), U \in Some(Uri), status \in Status :
                CheckClient(a, E, U, status)
    BY <1>11, NothingLinked DEF CheckClient, Checks, registry
  <1>12. CASE \E status \in Status : SetClientStatus(a, status)
    BY <1>12, NothingLinked DEF SetClientStatus
  <1>13. CASE \E list \in List : \E items \in SUBSET Items(list) :
                PreviewList(a, list, items) \/ CheckReplace(a, list, items)
    BY <1>13, NothingLinked DEF PreviewList, CheckReplace, Checks, registry
  <1>14. CASE CheckCommit(a) \/ GiveUp(a)
    BY <1>14, NothingLinked DEF CheckCommit, GiveUp, registry
  <1>15. CASE CommitList(a)
    BY <1>15, ListLinks
  <1>16. CASE \E t \in Tool : \/ DeleteTool(a, t)
                              \/ \E K \in SUBSET Key : CreateTool(a, t, K) \/ PatchTool(a, t, K)
    BY <1>16, NothingLinked DEF DeleteTool, CreateTool, PatchTool
  <1> QED
    BY <1>1, <1>2, <1>3, <1>4, <1>5, <1>6, <1>7, <1>8, <1>9, <1>10, <1>11, <1>12, <1>13,
       <1>14, <1>15, <1>16 DEF Registers

\* Whatever an allowance, a mapping or a binding refers to stands at the commit
\* that writes it, however many administrators changed what since the check: the
\* rows the check read stay locked (admin-repository.ts:262-380, 403-433, 525-610).
THEOREM WhatIsWrittenStands == RegistrationSpec => LinksStand
  <1>1. ASSUME RegistryInv, RegistrationNext PROVE Links
    BY <1>1, StepLinks DEF RegistrationNext
  <1>2. ASSUME RegistryInv, [RegistrationNext]_registrationVars
        PROVE  [/\ lists'["allowances"] # lists["allowances"] =>
                     \A e \in lists'["allowances"] : Registered(e)'
                /\ \A e \in Bridge \X Scope :
                     /\ mapping'[e].status = "active"
                     /\ binding'[e[1]] # NoTool
                     /\ mapping'[e] # mapping[e] \/ binding'[e[1]] # binding[e[1]]
                     => mapping'[e].key \in Permissions(binding[e[1]])'
                /\ \A e \in Entry : mapping'[e].status = "active" /\ mapping'[e] # mapping[e]
                                      => scopes'[e[2]] = "active"]_registrationVars
    BY <1>1, <1>2 DEF Links, ListsLink, KeysLink, ScopesLink
  <1> QED
    BY <1>2, RegistryInvHolds, PTL DEF RegistrationSpec, LinksStand
=============================================================================
