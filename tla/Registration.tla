---------------------------- MODULE Registration ----------------------------
(***************************************************************************)
(* The registry of the OAuth issuer, written by several administrators at  *)
(* once: scopes, resources with their scopes (native, or mapped to the     *)
(* permissions of a legacy tool the resource is bound to), one client with *)
(* its allowances and redirect URIs (src/oauth/admin-repository.ts:103-610 *)
(* behind admin-service.ts and admin-http.ts), and the tools those         *)
(* mappings rest on (src/app.ts:2044-2195).                                *)
(*                                                                         *)
(* Concurrency.  An operation that reads only rows it keeps locked is one  *)
(* step, at its COMMIT.  One that reads rows of others and then writes its *)
(* own takes two: Check reads and locks, FOR SHARE what it refers to and   *)
(* FOR UPDATE what it replaces, and Commit writes what Check decided.  A   *)
(* check that fails refuses the operation and changes nothing.             *)
(*                                                                         *)
(* Left out: descriptions and display names, owners, disabled allowances   *)
(* (no handler writes one), and validation of formats.                     *)
(***************************************************************************)
EXTENDS Administrators, Integers, FiniteSets

CONSTANTS Scope,          \* names of scopes
          Native,         \* resources with entitlement_mode native
          Bridge,         \* resources with entitlement_mode legacy_bridge
          Tool,           \* legacy tools
          Key,            \* permission keys of tools
          Uri,            \* redirect URIs
          Agendas         \* the kinds of work that go on at the same time

VARIABLES agenda,         \* the one of them going on
          scopes,         \* oauth_scopes
          resources,      \* oauth_resources
          mapping,        \* oauth_resource_scopes
          binding,        \* oauth_resource_entitlement_bindings, the active one
          bound,          \* tools that any binding row refers to (ON DELETE RESTRICT)
          tools,          \* tool_permissions of each tool, or NotATool
          client,         \* oauth_clients.status
          lists           \* oauth_client_resource_scopes and ..._redirect_uris

registry == <<scopes, resources, mapping, binding, bound, tools, client, lists>>
registrationVars == <<agenda, registry, op>>

Resource == Native \cup Bridge
Entry == Resource \X Scope
List == {"allowances", "redirect_uris"}
Some(S) == (SUBSET S) \ {{}}
Items(list) == IF list = "allowances" THEN Entry ELSE Uri
Status == {"draft", "active", "disabled"}
Switch == {"active", "disabled"}

NoKey == "none"
NoTool == "none"
NotATool == {NoTool}
NoMapping == [status |-> "none", key |-> NoKey]
Mapped(status, key) == [status |-> status, key |-> key]

\* A resource has one entitlement mode, and a missing permission or tool is NULL.
ASSUME RegistryAssumption == Native \cap Bridge = {} /\ NoKey \notin Key /\ NoTool \notin Tool

RegistrationInit ==
  /\ agenda \in Agendas
  /\ scopes = [s \in Scope |-> "none"]
  /\ resources = [r \in Resource |-> "none"]
  /\ mapping = [e \in Entry |-> NoMapping]
  /\ binding = [r \in Bridge |-> NoTool]
  /\ bound = {}
  /\ tools = [t \in Tool |-> NotATool]
  /\ client = "none"
  /\ lists = [list \in List |-> {}]
  /\ op = [a \in Admin |-> NoOp]

-----------------------------------------------------------------------------
(* Rows, as they are locked.                                               *)

ScopeRow(s) == <<"scope", s>>
ResourceRow(r) == <<"resource", r>>
MappingRow(e) == <<"mapping", e>>
BindingRow(r) == <<"binding", r>>
ToolRow(t) == <<"tool", t>>
PermissionRow(t, k) == <<"permission", <<t, k>>>>
ClientRow == <<"client", "it">>

Exists(t) == tools[t] # NotATool
Permissions(t) == IF Exists(t) THEN tools[t] ELSE {}
PermissionRows(t) == {PermissionRow(t, k) : k \in Permissions(t)}

\* What an allowance may name: an active scope registered on a resource that is
\* not disabled.
Registered(e) == /\ mapping[e].status = "active"
                 /\ resources[e[1]] \in {"draft", "active"}
                 /\ scopes[e[2]] = "active"

\* FOR SHARE OF rs, r, s.  Mutant: nothing.
NoRows(E) == {}
TargetRows(E) == UNION {{MappingRow(e), ResourceRow(e[1]), ScopeRow(e[2])} : e \in E}

AtOnce(a, kind, share, update) ==
  kind \in agenda /\ op[a] = NoOp /\ CanLock(a, share, update) /\ UNCHANGED <<agenda, op>>
Checks(a, o) ==
  o.kind \in agenda /\ CanLock(a, o.share, o.update) /\ Goes(a, o) /\ UNCHANGED <<agenda, registry>>
Commits(a) == Ends(a) /\ UNCHANGED agenda

-----------------------------------------------------------------------------
(* Scopes.                                                                 *)

CreateScope(a, s) ==
  /\ AtOnce(a, "scopes", {}, {ScopeRow(s)})
  /\ scopes[s] = "none"
  /\ scopes' = [scopes EXCEPT ![s] = "active"]
  /\ UNCHANGED <<resources, mapping, binding, bound, tools, client, lists>>

UpdateScope(a, s, status) ==
  /\ AtOnce(a, "scopes", {}, {ScopeRow(s)})
  /\ scopes[s] # "none"
  /\ scopes' = [scopes EXCEPT ![s] = status]
  /\ UNCHANGED <<resources, mapping, binding, bound, tools, client, lists>>

\* bulkScopes: create what is missing, reactivate what is disabled if asked to
\* (and its description permits: `again'), leave the rest.
BulkScopes(a, S, again) ==
  /\ AtOnce(a, "scopes", {}, {ScopeRow(s) : s \in S})
  /\ again \subseteq {s \in S : scopes[s] = "disabled"}
  /\ scopes' = [s \in Scope |-> IF s \in S /\ (scopes[s] = "none" \/ s \in again)
                                THEN "active" ELSE scopes[s]]
  /\ UNCHANGED <<resources, mapping, binding, bound, tools, client, lists>>

\* bulkScopeStatus: all of them exist, or none changes.
BulkScopeStatus(a, S, status) ==
  /\ AtOnce(a, "scopes", {}, {ScopeRow(s) : s \in S})
  /\ \A s \in S : scopes[s] # "none"
  /\ scopes' = [s \in Scope |-> IF s \in S THEN status ELSE scopes[s]]
  /\ UNCHANGED <<resources, mapping, binding, bound, tools, client, lists>>

-----------------------------------------------------------------------------
(* Resources.                                                              *)

\* createResource, native.
CheckNative(a, r, S, status) ==
  /\ op[a] = NoOp
  /\ \A s \in S : scopes[s] = "active"
  /\ LET o == [kind |-> "native", resource |-> r, scopes |-> S, status |-> status,
               share |-> {ScopeRow(s) : s \in S}, update |-> {}]
     IN  Checks(a, o)

CommitNative(a) ==
  /\ Doing(a, "native")
  /\ resources[op[a].resource] = "none"
  /\ resources' = [resources EXCEPT ![op[a].resource] = op[a].status]
  /\ mapping' = [e \in Entry |-> IF e[1] = op[a].resource /\ e[2] \in op[a].scopes
                                 THEN Mapped("active", NoKey) ELSE mapping[e]]
  /\ UNCHANGED <<scopes, binding, bound, tools, client, lists>>
  /\ Commits(a)

\* createResource, legacy_bridge; `f' maps each of its scopes to a permission.
CheckBridge(a, r, t, f, status) ==
  /\ op[a] = NoOp
  /\ Exists(t)
  /\ \A s \in DOMAIN f : f[s] \in Permissions(t) /\ scopes[s] = "active"
  /\ LET o == [kind |-> "bridge", resource |-> r, tool |-> t, map |-> f, status |-> status,
               share |-> {ScopeRow(s) : s \in DOMAIN f} \cup {ToolRow(t)} \cup PermissionRows(t),
               update |-> {}]
     IN  Checks(a, o)

CommitBridge(a) ==
  LET r == op[a].resource
  IN  /\ Doing(a, "bridge")
      /\ resources[r] = "none"
      /\ resources' = [resources EXCEPT ![r] = op[a].status]
      /\ mapping' = [e \in Entry |-> IF e[1] = r /\ e[2] \in DOMAIN op[a].map
                                     THEN Mapped("active", op[a].map[e[2]]) ELSE mapping[e]]
      /\ binding' = [binding EXCEPT ![r] = op[a].tool]
      /\ bound' = bound \cup {op[a].tool}
      /\ UNCHANGED <<scopes, tools, client, lists>>
      /\ Commits(a)

\* updateRegistrationStatus, of a resource.
SetResourceStatus(a, r, status) ==
  /\ AtOnce(a, "status", {}, {ResourceRow(r)})
  /\ resources[r] # "none"
  /\ resources' = [resources EXCEPT ![r] = status]
  /\ UNCHANGED <<scopes, mapping, binding, bound, tools, client, lists>>

\* setResourceScope.  The binding and the permission are read and locked for a
\* legacy_bridge resource only.
CheckMapping(a, e, status, key) ==
  LET r == e[1]
      bridge == r \in Bridge
      o == [kind |-> "mapping", entry |-> e, status |-> status, key |-> key,
            share |-> {ResourceRow(r), ScopeRow(e[2])}
                        \cup (IF bridge THEN {BindingRow(r), PermissionRow(binding[r], key)}
                              ELSE {}),
            update |-> {}]
  IN  /\ op[a] = NoOp
      /\ resources[r] # "none" /\ scopes[e[2]] # "none"
      /\ status = "active" => scopes[e[2]] = "active"
      /\ IF bridge THEN binding[r] # NoTool /\ key \in Permissions(binding[r]) ELSE key = NoKey
      /\ Checks(a, o)

CommitMapping(a) ==
  /\ Doing(a, "mapping")
  /\ CanLock(a, {}, {MappingRow(op[a].entry)})
  /\ mapping' = [mapping EXCEPT ![op[a].entry] = Mapped(op[a].status, op[a].key)]
  /\ UNCHANGED <<scopes, resources, binding, bound, tools, client, lists>>
  /\ Commits(a)

\* bulkNativeResourceScopes: one that cannot be done refuses all.
BulkNativeMapping(a, r, on, off) ==
  /\ AtOnce(a, "mapping", {ScopeRow(s) : s \in on \cup off},
            {ResourceRow(r)} \cup {MappingRow(<<r, s>>) : s \in on \cup off})
  /\ resources[r] # "none"
  /\ on \cup off # {} /\ on \cap off = {}
  /\ \A s \in on : scopes[s] = "active"
  /\ \A s \in off : mapping[<<r, s>>].status # "none"
  /\ mapping' = [e \in Entry |->
        IF e[1] # r THEN mapping[e]
        ELSE IF e[2] \in on THEN Mapped("active", NoKey)
        ELSE IF e[2] \in off THEN Mapped("disabled", mapping[e].key) ELSE mapping[e]]
  /\ UNCHANGED <<scopes, resources, binding, bound, tools, client, lists>>

\* setEntitlementBinding.  The query for uncovered mappings locks what it returns,
\* that is nothing when the binding goes on: setResourceScope waits for the
\* resource's row.  Mutant of Uncovered: any permission will do.
NoneUncovered(r, t) == {}
Uncovered(r, t) == {e \in {r} \X Scope : /\ mapping[e].status = "active"
                                         /\ mapping[e].key \notin Permissions(t)}

CheckBinding(a, r, t, status) ==
  LET o == [kind |-> "binding", resource |-> r, tool |-> t, status |-> status,
            share |-> {ToolRow(t)}, update |-> {ResourceRow(r)}]
  IN  /\ op[a] = NoOp
      /\ resources[r] # "none"
      /\ Exists(t)
      /\ status = "active" => Uncovered(r, t) = {}
      /\ Checks(a, o)

CommitBinding(a) ==
  LET r == op[a].resource
  IN  /\ Doing(a, "binding")
      /\ CanLock(a, {}, {BindingRow(r)})
      /\ binding' = [binding EXCEPT ![r] = IF op[a].status = "active" THEN op[a].tool ELSE NoTool]
      /\ bound' = IF op[a].status = "active" THEN bound \cup {op[a].tool} ELSE bound
      /\ UNCHANGED <<scopes, resources, mapping, tools, client, lists>>
      /\ Commits(a)

-----------------------------------------------------------------------------
(* The client.                                                             *)

\* createClient.
CheckClient(a, allowed, uris, status) ==
  LET o == [kind |-> "client", allowances |-> allowed, redirect_uris |-> uris, status |-> status,
            share |-> TargetRows(allowed), update |-> {}]
  IN  /\ op[a] = NoOp
      /\ \A e \in allowed : Registered(e)
      /\ Checks(a, o)

CommitClient(a) ==
  /\ Doing(a, "client")
  /\ client = "none"
  /\ client' = op[a].status
  /\ lists' = [list \in List |-> op[a][list]]
  /\ UNCHANGED <<scopes, resources, mapping, binding, bound, tools>>
  /\ Commits(a)

\* updateRegistrationStatus, of the client.
SetClientStatus(a, status) ==
  /\ AtOnce(a, "status", {}, {ClientRow})
  /\ client # "none"
  /\ client' = status
  /\ UNCHANGED <<scopes, resources, mapping, binding, bound, tools, lists>>

\* Only allowances refer to other rows.
Named(list, items) == IF list = "allowances" THEN items ELSE {}
Stand(list, items) == \A e \in Named(list, items) : Registered(e)

\* FOR UPDATE of the client.  Mutant: nothing.
Unlocked == {}
TheClient == {ClientRow}

\* previewCommitAllowances and previewCommitRedirectUris without commit: what
\* the administrator has seen is what the page sends back as expected_current.
PreviewList(a, list, items) ==
  /\ op[a] = NoOp
  /\ list = "redirect_uris" => items # {}
  /\ client # "none"
  /\ Stand(list, items)
  /\ Checks(a, [kind |-> "preview", list |-> list, items |-> items, seen |-> lists[list],
                share |-> {}, update |-> {}])

\* ... and with commit; a list that is not as seen is refused (Fails).
CheckCommit(a) ==
  /\ Doing(a, "preview")
  /\ Stand(op[a].list, op[a].items)
  /\ lists[op[a].list] = op[a].seen
  /\ CanLock(a, TargetRows(Named(op[a].list, op[a].items)), TheClient)
  /\ Goes(a, [op[a] EXCEPT !.kind = "commit", !.update = TheClient,
                           !.share = TargetRows(Named(op[a].list, op[a].items))])
  /\ UNCHANGED <<agenda, registry>>

\* replaceAllowances and replaceRedirectUris: no preview.
CheckReplace(a, list, items) ==
  /\ op[a] = NoOp
  /\ items # {}
  /\ client # "none"
  /\ Stand(list, items)
  /\ Checks(a, [kind |-> "replace", list |-> list, items |-> items,
                share |-> TargetRows(Named(list, items)), update |-> TheClient])

CommitList(a) ==
  /\ Doing(a, "commit") \/ Doing(a, "replace")
  /\ lists' = [lists EXCEPT ![op[a].list] = op[a].items]
  /\ UNCHANGED <<scopes, resources, mapping, binding, bound, tools, client>>
  /\ Commits(a)

-----------------------------------------------------------------------------
(* Tools and their permissions, as the mappings see them.                  *)

\* POST /v1/admin/tools.
CreateTool(a, t, K) ==
  /\ AtOnce(a, "tools", {}, {ToolRow(t)})
  /\ ~Exists(t)
  /\ tools' = [tools EXCEPT ![t] = K]
  /\ UNCHANGED <<scopes, resources, mapping, binding, bound, client, lists>>

\* PATCH /v1/admin/tools/:tool_id with permission_keys.
PatchTool(a, t, K) ==
  /\ AtOnce(a, "tools", {}, {ToolRow(t)} \cup PermissionRows(t))
  /\ Exists(t)
  /\ tools' = [tools EXCEPT ![t] = K]
  /\ UNCHANGED <<scopes, resources, mapping, binding, bound, client, lists>>

\* DELETE /v1/admin/tools/:tool_id.
DeleteTool(a, t) ==
  /\ AtOnce(a, "tools", {}, {ToolRow(t)} \cup PermissionRows(t))
  /\ Exists(t)
  /\ t \notin bound
  /\ tools' = [tools EXCEPT ![t] = NotATool]
  /\ UNCHANGED <<scopes, resources, mapping, binding, bound, client, lists>>

-----------------------------------------------------------------------------
GiveUp(a) == Fails(a) /\ UNCHANGED <<agenda, registry>>

Registers(a) ==
  \/ \E s \in Scope, status \in Switch : CreateScope(a, s) \/ UpdateScope(a, s, status)
  \/ \E S \in Some(Scope), status \in Switch :
       BulkScopes(a, S, {}) \/ BulkScopes(a, S, S) \/ BulkScopeStatus(a, S, status)
  \/ \E r \in Native, S \in Some(Scope), status \in Status : CheckNative(a, r, S, status)
  \/ \E r \in Native, S \in SUBSET Scope, T \in SUBSET Scope : BulkNativeMapping(a, r, S, T)
  \/ \E r \in Bridge, t \in Tool, S \in Some(Scope), status \in Status :
       \E f \in [S -> Key] : CheckBridge(a, r, t, f, status)
  \/ CommitNative(a) \/ CommitBridge(a)
  \/ \E r \in Resource, status \in Status : SetResourceStatus(a, r, status)
  \/ \E e \in Entry, status \in Switch, key \in Key \cup {NoKey} : CheckMapping(a, e, status, key)
  \/ CommitMapping(a)
  \/ \E r \in Bridge, t \in Tool, status \in Switch : CheckBinding(a, r, t, status)
  \/ CommitBinding(a)
  \/ \E E \in Some(Entry), U \in Some(Uri), status \in Status : CheckClient(a, E, U, status)
  \/ CommitClient(a)
  \/ \E status \in Status : SetClientStatus(a, status)
  \/ \E list \in List : \E items \in SUBSET Items(list) :
       PreviewList(a, list, items) \/ CheckReplace(a, list, items)
  \/ CheckCommit(a) \/ CommitList(a)
  \/ \E t \in Tool : \/ DeleteTool(a, t)
                     \/ \E K \in SUBSET Key : CreateTool(a, t, K) \/ PatchTool(a, t, K)
  \/ GiveUp(a)

RegistrationNext == \E a \in Admin : Registers(a)

RegistrationSpec == RegistrationInit /\ [][RegistrationNext]_registrationVars

-----------------------------------------------------------------------------
(* Properties.                                                             *)

\* The tables hold what their columns may; a mapping of a native resource has
\* no permission, and a resource is bound to a tool that exists.
RegistrationTypeOK ==
  /\ agenda \in Agendas
  /\ scopes \in [Scope -> Switch \cup {"none"}]
  /\ resources \in [Resource -> Status \cup {"none"}]
  /\ \A e \in Entry : \/ mapping[e] = NoMapping
                      \/ /\ mapping[e].status \in Switch
                         /\ resources[e[1]] # "none" /\ scopes[e[2]] # "none"
                         /\ mapping[e].key = NoKey <=> e[1] \in Native
  /\ \A r \in Bridge : binding[r] # NoTool => Exists(binding[r])
  /\ \A t \in Tool : tools[t] \in (SUBSET Key) \cup {NotATool}
  /\ client \in Status \cup {"none"}
  /\ \A list \in List : lists[list] \subseteq Items(list)

\* Between the preview and the commit of a list other administrators may replace
\* it.  A commit overwrites exactly what its administrator was shown, never an
\* entry that somebody added or removed meanwhile (admin-repository.ts:435-522).
CommitSeesPreview ==
  [][\A a \in Admin : Doing(a, "commit") /\ lists' # lists /\ op'[a] = NoOp
                        => lists[op[a].list] = op[a].seen]_registrationVars

\* What a commit of the registry refers to still stands when it commits, whoever
\* changed what since it was checked: allowances name active scopes registered on
\* resources that are not disabled; a mapping that is activated, and every active
\* mapping of a resource that is bound to another tool, names a permission of the
\* tool (admin-repository.ts:262-380, 403-433, 525-610).
LinksStand ==
  [][/\ lists'["allowances"] # lists["allowances"] =>
          \A e \in lists'["allowances"] : Registered(e)'
     /\ \A e \in Bridge \X Scope :
          /\ mapping'[e].status = "active"
          /\ binding'[e[1]] # NoTool
          /\ mapping'[e] # mapping[e] \/ binding'[e[1]] # binding[e[1]]
          => mapping'[e].key \in Permissions(binding[e[1]])'
     /\ \A e \in Entry : mapping'[e].status = "active" /\ mapping'[e] # mapping[e]
                           => scopes'[e[2]] = "active"]_registrationVars
=============================================================================
