---------------------------- MODULE AccessPolicy ----------------------------
(***************************************************************************)
(* The authorization kernel (packages/authorization): what a realm's       *)
(* policy allows, and the guards a change of the policy passes.            *)
(*                                                                         *)
(* A subject holds roles through bindings, its own and those of the groups *)
(* it is in.  A binding has a scope, a resource and a propagation.  A role *)
(* stands at an authority level, has permissions, and may delegate some of *)
(* them.  A permission with a hierarchy guard is granted only against a    *)
(* target: one single grant of the actor must contain the target's scopes, *)
(* outrank it and may delegate everything the change affects.              *)
(*                                                                         *)
(* Left out: field access rules, other realms, wildcards and names.  A     *)
(* validity window is the flag "active", at one fixed instant; the         *)
(* constraints of a binding are the flag "constrained".  The resource tree *)
(* is fixed: Above[r] is what the resource closure holds of r.             *)
(***************************************************************************)
EXTENDS Naturals, FiniteSets

CONSTANTS
    Subjects, LevelIds, RoleIds, BindingIds, MembershipIds,
    Resources, Above, RootResource,
    Permissions, Guard, Delegatable,   \* the catalog; the rest is protected or stays put
    FullAccess, CmsOwner               \* actors that are not subjects of the realm

Manage == "authorization.manage"
SystemRoot == "system-policy-root"     \* id of a level, a role and a binding
Owner == "owner"                       \* id of a level and a role
PrimaryOwner == "primary-owner"        \* id of a binding
Everywhere == "self-and-children"

SubjectRecord == [type: {"user", "group", "service-account"}, protected: BOOLEAN,
                  disabled: BOOLEAN, identity: {"none", "person", "cms-owner"}]
LevelRecord == [rank: Nat, protected: BOOLEAN]
RoleRecord == [level: LevelIds, permissions: SUBSET Permissions,
               delegates: SUBSET Permissions, protected: BOOLEAN]
Scope == [resource: Resources, propagation: {"self", "children", Everywhere}]
BindingRecord == [subject: Subjects, role: RoleIds, scope: Scope,
                  active: BOOLEAN, constrained: BOOLEAN, protected: BOOLEAN]
MembershipRecord == [member: Subjects, group: Subjects]

IsPartial(f, S, T) == DOMAIN f \subseteq S /\ f \in [DOMAIN f -> T]

IsPolicy(p) ==
    /\ p = [revision |-> p.revision, subjects |-> p.subjects, levels |-> p.levels,
            roles |-> p.roles, bindings |-> p.bindings, groups |-> p.groups]
    /\ p.revision \in Nat
    /\ IsPartial(p.subjects, Subjects, SubjectRecord)
    /\ IsPartial(p.levels, LevelIds, LevelRecord)
    /\ IsPartial(p.roles, RoleIds, RoleRecord)
    /\ IsPartial(p.bindings, BindingIds, BindingRecord)
    /\ IsPartial(p.groups, MembershipIds, MembershipRecord)

ASSUME KernelAssumption ==
    /\ IsFiniteSet(Subjects)
    /\ RootResource \in Resources
    /\ Above \in [Resources -> SUBSET Resources]
    /\ Above[RootResource] = {}
    /\ \A r \in Resources \ {RootResource} : RootResource \in Above[r]
    /\ \A r \in Resources : r \notin Above[r] /\ \A s \in Above[r] : Above[s] \subseteq Above[r]
    /\ Guard \in [Permissions -> {"none", "target-role", "target-binding", "target-subject"}]
    /\ Manage \in Permissions \ Delegatable /\ Guard[Manage] = "none"
    /\ FullAccess \notin Subjects /\ CmsOwner \notin Subjects

-----------------------------------------------------------------------------
(* Scopes *)

\* Mutant of ScopeApplies: "children" reaches the resource itself.
ScopeAppliesToSelf(scope, r) ==
    \/ scope.resource = r
    \/ scope.resource \in Above[r] /\ scope.propagation # "self"

ScopeApplies(scope, r) ==
    \/ scope.resource = r /\ scope.propagation # "children"
    \/ scope.resource \in Above[r] /\ scope.propagation # "self"

ScopeContains(container, candidate) ==
    \/ /\ container.resource = candidate.resource
       /\ container.propagation \in {candidate.propagation, Everywhere}
    \/ /\ container.resource \in Above[candidate.resource]
       /\ container.propagation # "self"

WholeRealm == [resource |-> RootResource, propagation |-> Everywhere]

-----------------------------------------------------------------------------
(* Evaluation *)

(* s itself and the groups a membership path of enabled groups leads to.   *)
Principals(groups, subjects, s) ==
    LET enabled == {m \in DOMAIN groups : ~subjects[groups[m].group].disabled}
        up[n \in 0..Cardinality(enabled)] ==
          IF n = 0 THEN {s}
          ELSE LET below == up[n-1]
               IN below \cup {groups[m].group : m \in {m \in enabled : groups[m].member \in below}}
    IN up[Cardinality(enabled)]

EffectiveBindings(p, s) ==
    LET who == Principals(p.groups, p.subjects, s)
    IN {b \in DOMAIN p.bindings : p.bindings[b].subject \in who}

PermissionsOf(p, b) == p.roles[p.bindings[b].role].permissions
DelegatedBy(p, b) == p.roles[p.bindings[b].role].delegates
RankOf(p, role) == p.levels[role.level].rank
SourceRank(p, b) == RankOf(p, p.roles[p.bindings[b].role])

CanAct(p, s) == s \in DOMAIN p.subjects /\ ~p.subjects[s].disabled

(* The bindings that grant the action; met: the context meets constraints. *)
MatchedGrants(p, s, action, r, met) ==
    {b \in EffectiveBindings(p, s) :
        /\ action \in PermissionsOf(p, b)
        /\ p.bindings[b].active
        /\ ScopeApplies(p.bindings[b].scope, r)
        /\ p.bindings[b].constrained => met}

EvaluateAccess(p, s, action, r, met) ==
    /\ action \in Permissions /\ Guard[action] = "none"
    /\ CanAct(p, s)
    /\ MatchedGrants(p, s, action, r, met) # {}

-----------------------------------------------------------------------------
(* Management: a single grant must contain, outrank and delegate.          *)

Manages(p, a, action, guard, scopes, ranks, affected) ==
    /\ action \in Permissions /\ Guard[action] = guard
    /\ CanAct(p, a)
    /\ affected \subseteq Delegatable
    /\ \E b \in EffectiveBindings(p, a) :
         /\ action \in PermissionsOf(p, b)
         /\ p.bindings[b].active /\ ~p.bindings[b].constrained
         /\ \A scope \in scopes : ScopeContains(p.bindings[b].scope, scope)
         /\ \A rank \in ranks : SourceRank(p, b) > rank
         /\ affected \subseteq DelegatedBy(p, b)

RoleIsProtected(p, role) == role.protected \/ p.levels[role.level].protected

ValidRole(p, role) ==
    /\ role.level \in DOMAIN p.levels
    /\ role.delegates \subseteq role.permissions \cap Delegatable

BindingResolves(p, b) == b.subject \in DOMAIN p.subjects /\ b.role \in DOMAIN p.roles

BindingIsProtected(p, b) ==
    b.protected \/ p.subjects[b.subject].protected \/ RoleIsProtected(p, p.roles[b.role])

MayCreateRole(p, a, role) ==
    Manages(p, a, "role.create", "target-role", {WholeRealm}, {RankOf(p, role)},
            role.permissions)

\* Mutant of MayUpdateRole: the role is judged by what it was.
MayUpdateCurrentRole(p, a, current, next) ==
    Manages(p, a, "role.update", "target-role", {WholeRealm}, {RankOf(p, current)},
            current.permissions)

MayUpdateRole(p, a, current, next) ==
    Manages(p, a, "role.update", "target-role", {WholeRealm},
            {RankOf(p, current), RankOf(p, next)}, current.permissions \cup next.permissions)

MayDeleteRole(p, a, role) ==
    Manages(p, a, "role.delete", "target-role", {WholeRealm}, {RankOf(p, role)},
            role.permissions)

(* Creating, changing or removing bindings: bs is what is there before and *)
(* after.  Nobody touches a binding of their own.                          *)
MayAssign(p, a, bs) ==
    /\ \A b \in bs : b.subject # a
    /\ Manages(p, a, "role.assign", "target-binding", {b.scope : b \in bs},
               {RankOf(p, p.roles[b.role]) : b \in bs},
               UNION {p.roles[b.role].permissions : b \in bs})

-----------------------------------------------------------------------------
(* createPolicySnapshot: the graph a server is willing to load.            *)

Acyclic(groups) ==
    LET Member(m) == groups[m].member
        Group(m) == groups[m].group
    IN \A C \in SUBSET DOMAIN groups \ {{}} :
         \E m \in C : \A n \in C : Member(n) # Group(m)

ValidPolicy(p) ==
    /\ \A l, k \in DOMAIN p.levels : p.levels[l].rank = p.levels[k].rank => l = k
    /\ \A r \in DOMAIN p.roles : ValidRole(p, p.roles[r])
    /\ \A b \in DOMAIN p.bindings : BindingResolves(p, p.bindings[b])
    /\ \A m \in DOMAIN p.groups :
         /\ {p.groups[m].member, p.groups[m].group} \subseteq DOMAIN p.subjects
         /\ p.subjects[p.groups[m].group].type = "group"
         /\ \A n \in DOMAIN p.groups : p.groups[n] = p.groups[m] => n = m
    /\ Acyclic(p.groups)

=============================================================================
