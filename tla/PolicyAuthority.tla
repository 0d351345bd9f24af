--------------------------- MODULE PolicyAuthority ---------------------------
(***************************************************************************)
(* What the authorization services promise: a content realm has one policy *)
(* and one revision of it at a time.  A revision is made from the one      *)
(* before it by one mutation, which its actor was allowed to make by that  *)
(* very revision, and the audit row of the revision names both.            *)
(*                                                                         *)
(* The module PolicyRegister, where servers decide on cached policies and  *)
(* commit later, implements this.  Servers keep the seed of the realm:     *)
(* the system policy root is a protected service account.                  *)
(***************************************************************************)
EXTENDS AccessPolicy

CONSTANTS Mutations,      \* mutations anybody may ask for: [op, id] or [op, id, value]
          InitialPolicy,  \* a policy that provisioning left, at revision 1
          MaxRevision     \* bound: policy revisions

VARIABLES policy,  \* the realm's rows, and current_revision of _xecms_auth_policy_state
          audit    \* the row of _xecms_auth_policy_revisions of the current revision

vars == <<policy, audit>>

Actors == Subjects \cup {FullAccess, CmsOwner}

Put(f, x, v) == [y \in DOMAIN f \cup {x} |-> IF y = x THEN v ELSE f[y]]
Without(f, x) == [y \in DOMAIN f \ {x} |-> f[y]]

-----------------------------------------------------------------------------
(* Levels, subjects and memberships: for the protected owner only.         *)

(* requireOwnerManagement: holding the permission is not enough, the grant *)
(* must come from the binding of the system policy root or of the owner.   *)
OwnerManagement(p, a) ==
    \/ a = FullAccess
    \/ /\ EvaluateAccess(p, a, Manage, RootResource, FALSE)
       /\ \E b \in MatchedGrants(p, a, Manage, RootResource, FALSE) :
            LET s == p.subjects[a]
                role == p.bindings[b].role
            IN \/ /\ s.protected /\ s.type = "service-account"
                  /\ b = SystemRoot /\ role = SystemRoot /\ p.roles[role].level = SystemRoot
               \/ /\ ~s.protected /\ s.type = "user" /\ s.identity # "none"
                  /\ b = PrimaryOwner /\ role = Owner /\ p.roles[role].level = Owner

ManageableLevel(p, id, level) ==
    /\ ~level.protected
    /\ Owner \in DOMAIN p.levels => level.rank < p.levels[Owner].rank
    /\ \A l \in DOMAIN p.levels \ {id} : p.levels[l].rank # level.rank

MayChangeLevel(p, a, m) ==
    /\ OwnerManagement(p, a)
    /\ m.op = "level.create" => m.id \notin DOMAIN p.levels
    /\ m.op # "level.create" => m.id \in DOMAIN p.levels /\ ~p.levels[m.id].protected
    /\ m.op # "level.delete" => ManageableLevel(p, m.id, m.value)
    /\ m.op = "level.delete" => \A r \in DOMAIN p.roles : p.roles[r].level # m.id

SubjectIsProtected(p, s) ==
    \/ s \in DOMAIN p.subjects /\ p.subjects[s].protected
    \/ \E b \in DOMAIN p.bindings : /\ p.bindings[b].subject = s
                                    /\ BindingIsProtected(p, p.bindings[b])

(* Only provisioning, which acts as the root, links an identity.           *)
MayChangeSubject(p, a, m) ==
    /\ OwnerManagement(p, a)
    /\ m.op = "subject.create" =>
         /\ m.id \notin DOMAIN p.subjects /\ ~m.value.protected
         /\ m.value.identity # "none" => a \in Subjects /\ m.value.type = "user"
    /\ m.op # "subject.create" => m.id \in DOMAIN p.subjects /\ ~SubjectIsProtected(p, m.id)
    /\ m.op = "subject.update" =>
         /\ ~m.value.protected
         /\ m.value.type = p.subjects[m.id].type /\ m.value.identity = p.subjects[m.id].identity
    /\ m.op = "subject.delete" =>
         /\ m.id # a
         /\ \A b \in DOMAIN p.bindings : p.bindings[b].subject # m.id
         /\ \A g \in DOMAIN p.groups : m.id \notin {p.groups[g].member, p.groups[g].group}

MayChangeMembership(p, a, m) ==
    LET open(g) == ~SubjectIsProtected(p, g.member) /\ ~SubjectIsProtected(p, g.group)
    IN /\ OwnerManagement(p, a)
       /\ m.op = "membership.create" => m.id \notin DOMAIN p.groups
       /\ m.op # "membership.create" => m.id \in DOMAIN p.groups /\ open(p.groups[m.id])
       /\ m.op # "membership.delete" => open(m.value)

-----------------------------------------------------------------------------
(* Roles and bindings: decided by the kernel, except for full access,      *)
(* which only meets the protections.                                       *)

MayChangeRole(p, a, m) ==
    LET unprotected(role) == role.level \in DOMAIN p.levels /\ ~RoleIsProtected(p, role)
    IN /\ m.op = "role.create" =>
            /\ m.id \notin DOMAIN p.roles /\ unprotected(m.value) /\ ValidRole(p, m.value)
            /\ a = FullAccess \/ MayCreateRole(p, a, m.value)
       /\ m.op = "role.update" =>
            /\ m.id \in DOMAIN p.roles /\ unprotected(p.roles[m.id])
            /\ unprotected(m.value) /\ ValidRole(p, m.value)
            /\ a = FullAccess \/ MayUpdateRole(p, a, p.roles[m.id], m.value)
       /\ m.op = "role.delete" =>
            /\ m.id \in DOMAIN p.roles /\ unprotected(p.roles[m.id])
            /\ \A b \in DOMAIN p.bindings : p.bindings[b].role # m.id
            /\ a = FullAccess \/ MayDeleteRole(p, a, p.roles[m.id])

MayChangeBinding(p, a, m) ==
    LET before == IF m.op = "binding.create" THEN {} ELSE {p.bindings[m.id]}
        after == IF m.op = "binding.delete" THEN {} ELSE {m.value}
    IN /\ (m.id \in DOMAIN p.bindings) <=> (m.op # "binding.create")
       /\ \A b \in before \cup after : BindingResolves(p, b) /\ ~BindingIsProtected(p, b)
       /\ a = FullAccess \/ MayAssign(p, a, before \cup after)

-----------------------------------------------------------------------------
(* The primary owner *)

OwnerBindings(p) == {b \in DOMAIN p.bindings : p.bindings[b].role = Owner}

OwnerBinding(s) == [subject |-> s, role |-> Owner, scope |-> WholeRealm,
                    active |-> TRUE, constrained |-> FALSE, protected |-> TRUE]

EligibleOwner(p, s) ==
    /\ CanAct(p, s) /\ ~p.subjects[s].protected
    /\ p.subjects[s].type = "user" /\ p.subjects[s].identity # "none"

RootIsSound(p) ==
    /\ \A x \in {SystemRoot, Owner} :
         /\ x \in DOMAIN p.levels /\ p.levels[x].protected
         /\ x \in DOMAIN p.roles /\ p.roles[x].protected
         /\ p.roles[x].level = x /\ Manage \in p.roles[x].permissions
    /\ p.levels[Owner].rank = 100 /\ p.levels[SystemRoot].rank > 100
    /\ \E b \in DOMAIN p.bindings :
         /\ {c \in DOMAIN p.bindings : p.bindings[c].role = SystemRoot} = {b}
         /\ p.bindings[b].protected

OwnerIsSound(p) ==
    /\ OwnerBindings(p) = {PrimaryOwner}
    /\ EligibleOwner(p, p.bindings[PrimaryOwner].subject)
    /\ p.bindings[PrimaryOwner] = OwnerBinding(p.bindings[PrimaryOwner].subject)

(* setTrustedPrimaryRealmOwner: m.id is the new owner.                     *)
MayChangeOwner(p, a, m) ==
    /\ RootIsSound(p)
    /\ m.op = "owner.assign" => OwnerBindings(p) = {}
    /\ m.op = "owner.transfer" => OwnerIsSound(p)
    /\ a # CmsOwner => /\ OwnerIsSound(p) /\ a = p.bindings[PrimaryOwner].subject
                       /\ m.op = "owner.transfer"
    /\ EligibleOwner(p, m.id)
    /\ a = CmsOwner => p.subjects[m.id].identity # "cms-owner"
    /\ OwnerIsSound(p) => p.bindings[PrimaryOwner].subject # m.id

-----------------------------------------------------------------------------
(* What provisioning leaves and every mutation keeps.                      *)

RootBinding(s) == [subject |-> s, role |-> SystemRoot, scope |-> WholeRealm,
                   active |-> TRUE, constrained |-> FALSE, protected |-> TRUE]

RootHolds(p) ==
    /\ SystemRoot \in DOMAIN p.bindings
    /\ LET s == p.bindings[SystemRoot].subject
       IN /\ p.bindings[SystemRoot] = RootBinding(s)
          /\ CanAct(p, s) /\ p.subjects[s].protected /\ p.subjects[s].type = "service-account"

RealmStands(p) ==
    /\ IsPolicy(p) /\ ValidPolicy(p)
    /\ RootIsSound(p) /\ RootHolds(p)
    /\ \A l \in DOMAIN p.levels : ~p.levels[l].protected => p.levels[l].rank < 100
    /\ OwnerBindings(p) # {} => OwnerIsSound(p)

ASSUME InitialAssumption ==
    /\ RealmStands(InitialPolicy)
    /\ MaxRevision \in Nat /\ InitialPolicy.revision <= MaxRevision

-----------------------------------------------------------------------------
RoleOps == {"role.create", "role.update", "role.delete"}
BindingOps == {"binding.create", "binding.update", "binding.delete"}
LevelOps == {"level.create", "level.update", "level.delete"}
SubjectOps == {"subject.create", "subject.update", "subject.delete"}
MembershipOps == {"membership.create", "membership.update", "membership.delete"}
OwnerOps == {"owner.assign", "owner.transfer", "owner.recover"}
DeleteOps == {"role.delete", "binding.delete", "level.delete", "subject.delete",
              "membership.delete"}

ASSUME MutationAssumption ==
    \A m \in Mutations :
        \/ m.op \in RoleOps /\ (m.op \in DeleteOps \/ (m.id \in RoleIds /\ m.value \in RoleRecord))
        \/ /\ m.op \in BindingOps
           /\ m.op \in DeleteOps \/ (m.id \in BindingIds /\ m.value \in BindingRecord)
        \/ m.op \in LevelOps /\ (m.op \in DeleteOps \/ (m.id \in LevelIds /\ m.value \in LevelRecord))
        \/ /\ m.op \in SubjectOps
           /\ m.op \in DeleteOps \/ (m.id \in Subjects /\ m.value \in SubjectRecord)
        \/ /\ m.op \in MembershipOps
           /\ m.op \in DeleteOps \/ (m.id \in MembershipIds /\ m.value \in MembershipRecord)
        \/ m.op \in OwnerOps /\ m.id \in Subjects /\ PrimaryOwner \in BindingIds

Change(table, m) ==
    IF m.op \in DeleteOps THEN Without(table, m.id) ELSE Put(table, m.id, m.value)

\* Mutant of Revised: replacing the owner forgets the revision.
RevisedByRows(p, m) == IF m.op \in OwnerOps THEN p.revision ELSE p.revision + 1

Revised(p, m) == p.revision + 1

(* applyPolicyMutation, and applyMutation in the store.                    *)
Applied(p, m) ==
    [revision |-> Revised(p, m),
     subjects |-> IF m.op \in SubjectOps THEN Change(p.subjects, m) ELSE p.subjects,
     levels |-> IF m.op \in LevelOps THEN Change(p.levels, m) ELSE p.levels,
     roles |-> IF m.op \in RoleOps THEN Change(p.roles, m) ELSE p.roles,
     bindings |-> IF m.op \in BindingOps THEN Change(p.bindings, m)
                  ELSE IF m.op \in OwnerOps
                  THEN Put([b \in DOMAIN p.bindings \ OwnerBindings(p) |-> p.bindings[b]],
                           PrimaryOwner, OwnerBinding(m.id))
                  ELSE p.bindings,
     groups |-> IF m.op \in MembershipOps THEN Change(p.groups, m) ELSE p.groups]

(* What a service checks before it commits, on the policy it has.          *)
Permitted(p, a, m) ==
    /\ \/ m.op \in RoleOps /\ MayChangeRole(p, a, m)
       \/ m.op \in BindingOps /\ MayChangeBinding(p, a, m)
       \/ m.op \in LevelOps /\ MayChangeLevel(p, a, m)
       \/ m.op \in SubjectOps /\ MayChangeSubject(p, a, m)
       \/ m.op \in MembershipOps /\ MayChangeMembership(p, a, m)
       \/ m.op \in OwnerOps /\ MayChangeOwner(p, a, m)
    /\ a = CmsOwner => m.op \in OwnerOps
    /\ ValidPolicy(Applied(p, m))

Row(a, m) == [actor |-> a, mutation |-> m]
Initialization == [op |-> "policy.initialize"]

-----------------------------------------------------------------------------
Init == policy = InitialPolicy /\ audit = Row(CmsOwner, Initialization)

Mutate(a, m) ==
    /\ policy.revision < MaxRevision
    /\ Permitted(policy, a, m)
    /\ policy' = Applied(policy, m)
    /\ audit' = Row(a, m)

Next == \E a \in Actors, m \in Mutations : Mutate(a, m)

Spec == Init /\ [][Next]_vars

-----------------------------------------------------------------------------
(* TypeOK: the tables hold records of their types. *)
TypeOK == /\ IsPolicy(policy) /\ policy.revision <= MaxRevision
          /\ audit.actor \in Actors

(* The realm keeps its root: an enabled protected service account holds    *)
(* the one binding of the root role, on the whole realm, so it can always  *)
(* manage; nothing unprotected stands as high as the owner; and there is   *)
(* at most one owner, an enabled human (setTrustedPrimaryRealmOwner).      *)
RootStands ==
    /\ TypeOK
    /\ RealmStands(policy)
    /\ OwnerManagement(policy, policy.bindings[SystemRoot].subject)

(* What s could do, windows and constraints apart, and what s surely can.  *)
Potential(p, s) ==
    {x \in Permissions \X Resources : \E b \in EffectiveBindings(p, s) :
        x[1] \in PermissionsOf(p, b) /\ ScopeApplies(p.bindings[b].scope, x[2])}
Sure(p, s) ==
    {x \in Permissions \X Resources : \E b \in EffectiveBindings(p, s) :
        /\ x[1] \in PermissionsOf(p, b) /\ ScopeApplies(p.bindings[b].scope, x[2])
        /\ p.bindings[b].active /\ ~p.bindings[b].constrained}
Ranks(p, s) == {SourceRank(p, b) : b \in EffectiveBindings(p, s)}

(* From p to q nobody gains what the actor does not hold or outrank.       *)
ClimbsNobody(p, q, a) ==
    \A s \in DOMAIN p.subjects :
       /\ Potential(q, s) \subseteq Potential(p, s) \cup Sure(p, a)
       /\ \A k \in Ranks(q, s) \ Ranks(p, s) : \E j \in Ranks(p, a) : k < j

(* Nobody gives what they do not hold, nor as high as they stand: when a   *)
(* subject changes a role or a binding, whatever any subject could do      *)
(* after and not before, through groups and at any time, the actor can do  *)
(* for sure; and a rank that anybody gains is below one of the actor's.    *)
NobodyClimbs ==
    [][audit'.mutation.op \in RoleOps \cup BindingOps /\ audit'.actor \in Subjects /\ policy' # policy
       => ClimbsNobody(policy, policy', audit'.actor)]_vars

=============================================================================
