---------------------------- MODULE PolicyTables ----------------------------
(***************************************************************************)
(* The tables that hold one realm's policy, and what the authorization     *)
(* services believe they hold.                                             *)
(*                                                                         *)
(* A service applies a mutation to the policy it has cached, validates the *)
(* result, and hands the mutation, not the result, to the store.  The      *)
(* store changes rows spread over a dozen tables, with foreign keys and    *)
(* cascades, rebuilds the closures, and the policy is read back from the   *)
(* rows.  Provisioning and plugins write the same tables without a         *)
(* revision, so caches differ from the rows though revisions agree.        *)
(*                                                                         *)
(* A rule of a role is kept as what may be read; names, ranks' meaning,    *)
(* windows and protection are those of AccessPolicy and left out here.     *)
(***************************************************************************)
EXTENDS Naturals, FiniteSets

CONSTANTS Seeds,         \* the policies a realm may have had so far
          Asks,          \* the mutations that the services may ask for
          PolicyServers,
          PluginKey,     \* the permission of a plugin
          Protected,     \* permissions that cannot be delegated
          Unrestricted,  \* a role without field rules
          NoIdentity, NoPolicyYet,
          MaxTableRevision

VARIABLES tables, cached, log

tvars == <<tables, cached, log>>

OwnerRole == "owner"
TreeRoot == "root"

-----------------------------------------------------------------------------
(* The policy: functions from ids to records.                              *)

Edit(table, m) ==
    CASE m.op \in {"create", "update"} ->
           [x \in DOMAIN table \cup {m.id} |-> IF x = m.id THEN m.value ELSE table[x]]
      [] m.op = "delete" -> [x \in DOMAIN table \ {m.id} |-> table[x]]
      [] m.op = "reconcile" ->
           [x \in (DOMAIN table \ m.deletes) \cup DOMAIN m.upserts |->
              IF x \in DOMAIN m.upserts THEN m.upserts[x] ELSE table[x]]
      [] m.op = "replace-owner" ->
           [x \in {y \in DOMAIN table : table[y].role # OwnerRole} \cup {m.id} |->
              IF x = m.id THEN m.value ELSE table[x]]

(* A resource is upserted, so it is created or updated alike.              *)
Finds(table, m) ==
    CASE m.op = "create" -> m.table = "resources" \/ m.id \notin DOMAIN table
      [] m.op \in {"update", "delete"} -> m.id \in DOMAIN table
      [] m.op = "reconcile" -> m.deletes \cap DOMAIN m.upserts = {}
      [] OTHER -> TRUE

ApplyPolicyMutation(p, m) ==
    [p EXCEPT ![m.table] = Edit(p[m.table], m), !.revision = p.revision + 1]

(* The pairs that a chain of edges leads through, every node with itself;  *)
(* and those that at least one edge leads through.                         *)
Below(nodes, edges) ==
    LET through[K \in SUBSET nodes] ==
          IF K = {} THEN edges
          ELSE LET k == CHOOSE k \in K : TRUE
                   R == through[K \ {k}]
               IN R \cup {e \in nodes \X nodes : <<e[1], k>> \in R /\ <<k, e[2]>> \in R}
    IN through[nodes]
Chains(nodes, edges) == Below(nodes, edges) \cup {<<x, x>> : x \in nodes}
HasCycle(nodes, edges) == \E x \in nodes : <<x, x>> \in Below(nodes, edges)

GroupEdges(members) == {<<members[m].group, members[m].member>> : m \in DOMAIN members}
TreeEdges(resources) ==
    {<<resources[r].parent, r>> : r \in {r \in DOMAIN resources : r # TreeRoot}}

(* createPolicySnapshot                                                    *)
IsSnapshot(p) ==
    /\ \A l, k \in DOMAIN p.levels : p.levels[l] = p.levels[k] => l = k
    /\ \A r \in DOMAIN p.roles :
         LET role == p.roles[r] IN
         /\ role.level \in DOMAIN p.levels
         /\ role.delegates \subseteq role.permissions \ Protected
         /\ role.permissions \subseteq p.permissions
         /\ role.fields # Unrestricted => DOMAIN role.fields \subseteq DOMAIN p.resources
    /\ \A b \in DOMAIN p.bindings :
         /\ p.bindings[b].subject \in DOMAIN p.subjects
         /\ p.bindings[b].role \in DOMAIN p.roles
         /\ p.bindings[b].resource \in DOMAIN p.resources
    /\ \A m \in DOMAIN p.members :
         /\ {p.members[m].group, p.members[m].member} \subseteq DOMAIN p.subjects
         /\ p.subjects[p.members[m].group].type = "group"
         /\ \A n \in DOMAIN p.members : p.members[n] = p.members[m] => n = m
    /\ ~HasCycle(DOMAIN p.subjects, GroupEdges(p.members))
    /\ TreeRoot \in DOMAIN p.resources
    /\ \A e \in TreeEdges(p.resources) : e[1] \in DOMAIN p.resources
    /\ ~HasCycle(DOMAIN p.resources, TreeEdges(p.resources))

(* The shape of the records, of a mutation (AuthorizationPolicyMutation)   *)
(* and of the policy that a realm starts with.                             *)
IsRow(table, v) ==
    /\ table = "subjects" => v = [type |-> v.type, identity |-> v.identity]
    /\ table = "resources" => v = [kind |-> v.kind, parent |-> v.parent]
    /\ table = "roles" =>
         /\ v = [level |-> v.level, permissions |-> v.permissions,
                 delegates |-> v.delegates, fields |-> v.fields]
         /\ v.fields = Unrestricted \/ v.fields = [x \in DOMAIN v.fields |-> v.fields[x]]

PolicyParts == {"subjects", "members", "resources", "levels", "roles", "bindings"}

IsMutation(m) ==
    \/ /\ m.op \in {"create", "update"} /\ m.table \in PolicyParts /\ IsRow(m.table, m.value)
       /\ m.op = "update" => m.table # "resources"
       /\ m = [op |-> m.op, table |-> m.table, id |-> m.id, value |-> m.value]
    \/ /\ m.op = "delete" /\ m.table \in PolicyParts
       /\ m = [op |-> m.op, table |-> m.table, id |-> m.id]
    \/ /\ m.op = "replace-owner" /\ m.table = "bindings"
       /\ m = [op |-> m.op, table |-> m.table, id |-> m.id, value |-> m.value]
    \/ /\ m.op = "reconcile" /\ m.table = "resources" /\ IsFiniteSet(DOMAIN m.upserts)
       /\ m = [op |-> m.op, table |-> m.table, deletes |-> m.deletes, upserts |-> m.upserts]
       /\ \A x \in DOMAIN m.upserts : IsRow("resources", m.upserts[x])

(* It was validated, and no two of its subjects are one person.            *)
IsSeed(p) ==
    /\ p = [revision |-> 1, subjects |-> p.subjects, members |-> p.members,
            resources |-> p.resources, levels |-> p.levels, permissions |-> p.permissions,
            roles |-> p.roles, bindings |-> p.bindings]
    /\ IsFiniteSet(DOMAIN p.subjects) /\ IsFiniteSet(DOMAIN p.resources)
    /\ \A s \in DOMAIN p.subjects : IsRow("subjects", p.subjects[s])
    /\ \A s, z \in DOMAIN p.subjects :
         p.subjects[s].identity = p.subjects[z].identity /\ s # z => p.subjects[s].identity = NoIdentity
    /\ \A r \in DOMAIN p.resources : IsRow("resources", p.resources[r])
    /\ \A r \in DOMAIN p.roles : IsRow("roles", p.roles[r])
    /\ p.members = [e \in DOMAIN p.members |-> p.members[e]]
    /\ p.roles = [r \in DOMAIN p.roles |-> p.roles[r]]
    /\ IsSnapshot(p)

ASSUME SeedsAssumption == \A p \in Seeds : IsSeed(p)
ASSUME AsksAssumption == \A m \in Asks : IsMutation(m)
ASSUME PluginAssumption == PluginKey \notin Protected

-----------------------------------------------------------------------------
(* The rows.                                                               *)

RoleRow(role) == [level |-> role.level, restricted |-> role.fields # Unrestricted]
RuleRows(r, role) ==
    IF role.fields = Unrestricted THEN {}
    ELSE {[role |-> r, resource |-> x, fields |-> role.fields[x]] : x \in DOMAIN role.fields}

\* Mutant of ReplaceRoleRelations: the old rules of the role stay.
KeepRoleRules(t, r, role) ==
    [t EXCEPT
        !.rolePermissions = {g \in @ : g[1] # r} \cup {<<r, k>> : k \in role.permissions},
        !.roleDelegations = {g \in @ : g[1] # r} \cup {<<r, k>> : k \in role.delegates},
        !.fieldAccess = @ \cup RuleRows(r, role)]

ReplaceRoleRelations(t, r, role) ==
    [t EXCEPT
        !.rolePermissions = {g \in @ : g[1] # r} \cup {<<r, k>> : k \in role.permissions},
        !.roleDelegations = {g \in @ : g[1] # r} \cup {<<r, k>> : k \in role.delegates},
        !.fieldAccess = {f \in @ : f.role # r} \cup RuleRows(r, role)]

(* insertRole, updateRole, and the delete that cascades.                   *)
WriteRole(t, m) ==
    IF m.op = "delete"
    THEN [t EXCEPT !.roles = Edit(@, m),
                   !.rolePermissions = {g \in @ : g[1] # m.id},
                   !.roleDelegations = {g \in @ : g[1] # m.id},
                   !.fieldAccess = {f \in @ : f.role # m.id}]
    ELSE ReplaceRoleRelations(
             [t EXCEPT !.roles = Edit(@, [m EXCEPT !.value = RoleRow(m.value)])], m.id, m.value)

(* insertSubject, updateSubject; a deleted subject takes its rows along.   *)
WriteSubjectRow(t, m) ==
    LET about(e) == m.op = "delete" /\ m.id \in {t.members[e].group, t.members[e].member}
    IN [t EXCEPT !.subjects = Edit(@, m),
                 !.members = [e \in {e \in DOMAIN @ : ~about(e)} |-> @[e]]]

GroupAncestors(subjects, members) ==
    {c \in Chains(DOMAIN subjects, GroupEdges(members)) : subjects[c[1]].type = "group"}

\* Mutant of RebuildGroupClosure: only what joins, nothing that leaves.
AddToGroupClosure(t) ==
    [t EXCEPT !.groupAncestors = @ \cup GroupAncestors(t.subjects, t.members)]

RebuildGroupClosure(t) ==
    [t EXCEPT !.groupAncestors = GroupAncestors(t.subjects, t.members)]

RebuildResourceClosure(t) ==
    [t EXCEPT !.resourceAncestors = Chains(DOMAIN t.resources, TreeEdges(t.resources))]

(* applyMutation and the rebuilds after it.                                *)
RowsAfter(t, m) ==
    CASE m.table = "roles" -> WriteRole(t, m)
      [] m.table = "subjects" -> RebuildGroupClosure(WriteSubjectRow(t, m))
      [] m.table = "members" -> RebuildGroupClosure([t EXCEPT !.members = Edit(@, m)])
      [] m.table = "resources" -> RebuildResourceClosure([t EXCEPT !.resources = Edit(@, m)])
      [] OTHER -> [t EXCEPT ![m.table] = Edit(@, m)]

(* What the database refuses: unique indexes and foreign keys.             *)
Constraints(t) ==
    /\ \A s, z \in DOMAIN t.subjects :
         t.subjects[s].identity = t.subjects[z].identity /\ s # z => t.subjects[s].identity = NoIdentity
    /\ \A l, k \in DOMAIN t.levels : t.levels[l] = t.levels[k] => l = k
    /\ \A r \in DOMAIN t.roles : t.roles[r].level \in DOMAIN t.levels
    /\ \A g \in t.rolePermissions : g[1] \in DOMAIN t.roles /\ g[2] \in t.permissions
    /\ t.roleDelegations \subseteq t.rolePermissions
    /\ \A f \in t.fieldAccess : f.role \in DOMAIN t.roles /\ f.resource \in DOMAIN t.resources
    /\ \A b \in DOMAIN t.bindings :
         /\ t.bindings[b].subject \in DOMAIN t.subjects
         /\ t.bindings[b].role \in DOMAIN t.roles
         /\ t.bindings[b].resource \in DOMAIN t.resources
    /\ \A e \in DOMAIN t.members :
         /\ t.members[e].group # t.members[e].member
         /\ {t.members[e].group, t.members[e].member} \subseteq DOMAIN t.subjects
         /\ \A f \in DOMAIN t.members : t.members[e] = t.members[f] => e = f
    /\ \A r \in DOMAIN t.resources \ {TreeRoot} : t.resources[r].parent \in DOMAIN t.resources
    /\ \A s \in DOMAIN t.memberships :
         s \in DOMAIN t.subjects /\ t.subjects[s].identity = t.memberships[s]

(* What the store itself refuses: a group that is none, a permission that  *)
(* cannot be delegated, cycles, resources that are referenced.             *)
StoreAccepts(t, m) ==
    /\ m.table = "members" /\ m.op # "delete" =>
         m.value.group \in DOMAIN t.subjects /\ t.subjects[m.value.group].type = "group"
    /\ m.table = "roles" /\ m.op # "delete" =>
         m.value.delegates \subseteq t.permissions \ Protected
    /\ m.table \in {"members", "subjects"} =>
         ~HasCycle(DOMAIN t.subjects, GroupEdges(RowsAfter(t, m).members))
    /\ m.table = "resources" =>
         ~HasCycle(DOMAIN Edit(t.resources, m), TreeEdges(Edit(t.resources, m)))
    /\ m.op = "reconcile" =>
         /\ m.deletes \subseteq DOMAIN t.resources
         /\ \A b \in DOMAIN t.bindings : t.bindings[b].resource \notin m.deletes
         /\ \A f \in t.fieldAccess : f.resource \notin m.deletes

\* Mutant of RoleFromRow: an empty list of rules is no list.
RoleFromRules(t, r) ==
    LET rules == {f \in t.fieldAccess : f.role = r}
    IN [level |-> t.roles[r].level,
        permissions |-> {g[2] : g \in {g \in t.rolePermissions : g[1] = r}},
        delegates |-> {g[2] : g \in {g \in t.roleDelegations : g[1] = r}},
        fields |-> IF rules # {}
                   THEN [x \in {f.resource : f \in rules} |->
                           (CHOOSE f \in rules : f.resource = x).fields]
                   ELSE Unrestricted]

RoleFromRow(t, r) ==
    LET rules == {f \in t.fieldAccess : f.role = r}
    IN [level |-> t.roles[r].level,
        permissions |-> {g[2] : g \in {g \in t.rolePermissions : g[1] = r}},
        delegates |-> {g[2] : g \in {g \in t.roleDelegations : g[1] = r}},
        fields |-> IF t.roles[r].restricted
                   THEN [x \in {f.resource : f \in rules} |->
                           (CHOOSE f \in rules : f.resource = x).fields]
                   ELSE Unrestricted]

LoadPolicyWith(t) ==
    [revision |-> t.revision, subjects |-> t.subjects, members |-> t.members,
     resources |-> t.resources, levels |-> t.levels, permissions |-> t.permissions,
     roles |-> [r \in DOMAIN t.roles |-> RoleFromRow(t, r)], bindings |-> t.bindings]

(* insertSeed                                                              *)
InsertSeed(p) ==
    LET empty == [revision |-> 1, subjects |-> p.subjects, members |-> p.members,
                  groupAncestors |-> {}, resources |-> p.resources, resourceAncestors |-> {},
                  levels |-> p.levels, permissions |-> p.permissions,
                  roles |-> [r \in DOMAIN p.roles |-> RoleRow(p.roles[r])],
                  rolePermissions |-> UNION {{r} \X p.roles[r].permissions : r \in DOMAIN p.roles},
                  roleDelegations |-> UNION {{r} \X p.roles[r].delegates : r \in DOMAIN p.roles},
                  fieldAccess |-> UNION {RuleRows(r, p.roles[r]) : r \in DOMAIN p.roles},
                  bindings |-> p.bindings, memberships |-> <<>>]
    IN RebuildResourceClosure(RebuildGroupClosure(empty))

-----------------------------------------------------------------------------
(* createInitialAuthorizationPolicy, its permissions by areas.  The system *)
(* realm and a content realm are rooted in a level, a role and a binding   *)
(* of their own; otherwise the owner's are the first.                      *)
Areas == {"authorization.read", "authorization.manage", "content.read", "content.update", "schema",
          "role", "levels", "identity", "media", "apps", "audit", "plugins"}
InitialRoles(rooted) ==
    LET all == Areas \ Protected
        role(level, can, gives) == [level |-> level, permissions |-> can, delegates |-> gives,
                                    fields |-> Unrestricted]
        content == {"content.read", "content.update"}
        manages == {"authorization.read", "role", "levels", "identity", "audit"}
        fixed == [r \in {"owner", "content-administrator", "security-administrator", "editor",
                         "viewer", "public"} |->
            CASE r = "owner" -> role("owner", Areas, all)
              [] r = "content-administrator" ->
                   role("administrator", content \cup manages \cup {"schema", "media", "apps"},
                        content \cup {"schema", "role", "media", "apps"})
              [] r = "security-administrator" -> role("administrator", manages, {"identity", "role"})
              [] r = "editor" -> role("editor", content \cup {"schema", "media"}, {})
              [] r = "viewer" -> role("viewer", {"content.read", "schema", "media"}, {})
              [] r = "public" -> role("public", {"content.read", "media"}, {})]
    IN IF rooted
       THEN [r \in DOMAIN fixed \cup {"policy-root"} |->
               IF r = "policy-root" THEN role("policy-root", Areas, all) ELSE fixed[r]]
       ELSE fixed

InitialPolicy(rooted, owner) ==
    LET rank(l) == CASE l = "policy-root" -> 110 [] l = "owner" -> 100 [] l = "administrator" -> 80
                     [] l = "editor" -> 40 [] l = "viewer" -> 10 [] l = "public" -> 0
        bound(s, r) == [subject |-> s, role |-> r, resource |-> TreeRoot,
                        propagation |-> "self-and-children"]
        roles == InitialRoles(rooted)
    IN [revision |-> 1, roles |-> roles, permissions |-> Areas, members |-> <<>>,
        subjects |-> [s \in {owner, "public"} |->
            [type |-> IF s = owner /\ ~rooted THEN "user" ELSE "service-account",
             identity |-> NoIdentity]],
        resources |-> [r \in {TreeRoot, "schema", "content", "authorization", "audit"} |->
            [kind |-> r, parent |-> IF r = TreeRoot THEN "none" ELSE TreeRoot]],
        levels |-> [l \in {roles[r].level : r \in DOMAIN roles} |-> rank(l)],
        bindings |-> [b \in {IF rooted THEN "policy-root" ELSE "primary", "public"} |->
            IF b = "public" THEN bound("public", "public")
            ELSE bound(owner, IF rooted THEN "policy-root" ELSE "owner")]]

TablesInit ==
    /\ \E seed \in Seeds : tables = InsertSeed(seed)
    /\ cached = [s \in PolicyServers |-> NoPolicyYet]
    /\ log = [revision |-> 1, mutation |-> "policy.initialize", actor |-> "root"]

(* load: what is cached is used as long as the revision is the same.       *)
LoadPolicy(s) ==
    /\ cached[s] # NoPolicyYet => cached[s].revision # tables.revision
    /\ cached' = [cached EXCEPT ![s] = LoadPolicyWith(tables)]
    /\ UNCHANGED <<tables, log>>

(* An update keeps the identity of the subject as the service knows it.    *)
AsKnown(p, m) ==
    IF m.table = "subjects" /\ m.op = "update" /\ m.id \in DOMAIN p.subjects
    THEN [m EXCEPT !.value.identity = p.subjects[m.id].identity] ELSE m

(* mutatePolicyInTransaction, given what the service has applied.          *)
Store(s, m, a) ==
    /\ cached[s].revision = tables.revision /\ tables.revision < MaxTableRevision
    /\ Finds(tables[m.table], m) /\ StoreAccepts(tables, m)
    /\ LET t == [RowsAfter(tables, m) EXCEPT !.revision = tables.revision + 1]
       IN /\ Constraints(t)
          /\ tables' = t
          /\ cached' = [cached EXCEPT ![s] = LoadPolicyWith(t)]
          /\ log' = [revision |-> t.revision, mutation |-> m, actor |-> a]

Applies(p, m) == Finds(p[m.table], m) /\ IsSnapshot(ApplyPolicyMutation(p, m))

CommitPolicy(s, ask) ==
    LET m == AsKnown(cached[s], ask)
    IN /\ cached[s] # NoPolicyYet /\ Applies(cached[s], m)
       /\ Store(s, m, "manager")

(* createMembership, createPendingMembership: no revision.                 *)
LinkIdentity(s, i) ==
    /\ s \in DOMAIN tables.subjects /\ tables.subjects[s].type = "user"
    /\ tables.subjects[s].identity \in {NoIdentity, i} /\ s \notin DOMAIN tables.memberships
    /\ \A z \in DOMAIN tables.subjects \ {s} : tables.subjects[z].identity # i
    /\ tables' = [tables EXCEPT !.subjects[s].identity = i,
                    !.memberships = [x \in DOMAIN @ \cup {s} |-> IF x = s THEN i ELSE @[x]]]
    /\ UNCHANGED <<cached, log>>

(* A plugin's permission comes, for the owner to delegate, and goes.       *)
InstallPlugin ==
    LET Owns == (DOMAIN tables.roles \cap {OwnerRole}) \X {PluginKey} IN
    /\ PluginKey \notin tables.permissions
    /\ tables' = [tables EXCEPT !.permissions = @ \cup {PluginKey},
                    !.rolePermissions = @ \cup Owns, !.roleDelegations = @ \cup Owns]
    /\ UNCHANGED <<cached, log>>
UninstallPlugin ==
    /\ PluginKey \in tables.permissions
    /\ \A g \in tables.rolePermissions : g[2] = PluginKey => g[1] = OwnerRole
    /\ tables' = [tables EXCEPT !.permissions = @ \ {PluginKey},
                    !.rolePermissions = {g \in @ : g[2] # PluginKey},
                    !.roleDelegations = {g \in @ : g[2] # PluginKey}]
    /\ UNCHANGED <<cached, log>>

TablesNext(asks) ==
    \/ \E s \in PolicyServers : LoadPolicy(s) \/ \E m \in asks : CommitPolicy(s, m)
    \/ \E s \in DOMAIN tables.subjects : LinkIdentity(s, "person")
    \/ InstallPlugin \/ UninstallPlugin

-----------------------------------------------------------------------------
(* Reaches(E, a, d): whatever set holds a and follows the edges holds d.   *)
Reaches(nodes, edges, a, d) ==
    \A C \in SUBSET nodes :
        a \in C /\ (\A e \in edges : e[1] \in C => e[2] \in C) => d \in C

(* Whatever was written, by the services or past them, the rows can be     *)
(* loaded, so no server is shut out of the realm; the closures are those   *)
(* of the rows; a member's subject keeps its identity (rebuildGroupClosure,*)
(* rebuildResourceClosure, loadPolicyWith).                                *)
TablesAreSound ==
    /\ IsSnapshot(LoadPolicyWith(tables)) /\ Constraints(tables)
    /\ log.revision = tables.revision
    /\ tables.groupAncestors =
         {c \in (DOMAIN tables.subjects) \X (DOMAIN tables.subjects) :
            /\ tables.subjects[c[1]].type = "group"
            /\ Reaches(DOMAIN tables.subjects, GroupEdges(tables.members), c[1], c[2])}
    /\ tables.resourceAncestors =
         {c \in (DOMAIN tables.resources) \X (DOMAIN tables.resources) :
            Reaches(DOMAIN tables.resources, TreeEdges(tables.resources), c[1], c[2])}

(* A mutation makes of the policy in the rows exactly what the service     *)
(* that validated it made of the one it had: the statements, the cascades  *)
(* and the way back agree with applyPolicyMutation.                        *)
StoresWhatWasDecided ==
    [][tables'.revision # tables.revision =>
         LoadPolicyWith(tables') = ApplyPolicyMutation(LoadPolicyWith(tables), log'.mutation)]_tvars
=============================================================================
