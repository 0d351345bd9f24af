------------------------ MODULE PolicyRegister_proofs -------------------------
(***************************************************************************)
(* What the authorization services keep, for any realm, catalog, servers   *)
(* and requests.                                                           *)
(*                                                                         *)
(* The inductive invariant, RegisterInv: the stored policy stands, a       *)
(* policy that a server has cached or is about to cache is of an older     *)
(* revision or is the stored one, and a mutation whose expected revision   *)
(* is still the current one is permitted by the stored policy.             *)
(*                                                                         *)
(* That the root can always manage, and that the kernel decides as the     *)
(* policy is defined, needs the principals of a subject, which are         *)
(* computed by recursion: as many steps as there are enabled memberships   *)
(* reach every group, because each step that finds a new group uses up one *)
(* more of them.                                                           *)
(***************************************************************************)
EXTENDS PolicyRegister, NaturalRecursion, FiniteSetTheorems

-----------------------------------------------------------------------------
(* Principals *)

Enabled(groups, subjects) == {m \in DOMAIN groups : ~subjects[groups[m].group].disabled}

(* The groups that one more membership leads to.                           *)
Step(groups, E, below) ==
    below \cup {groups[m].group : m \in {m \in E : groups[m].member \in below}}

Climbs(up, groups, E, s, N) ==
    /\ up[0] = {s}
    /\ \A n \in 0 .. N : n < N => n + 1 \in 0 .. N /\ up[n + 1] = Step(groups, E, up[n])

(* Principals climbs as many steps as there are enabled memberships.       *)
LEMMA PrincipalsClimb ==
    ASSUME NEW groups, NEW subjects, NEW s,
           Cardinality(Enabled(groups, subjects)) \in Nat
    PROVE  \E up : /\ Climbs(up, groups, Enabled(groups, subjects), s,
                             Cardinality(Enabled(groups, subjects)))
                   /\ Principals(groups, subjects, s) = up[Cardinality(Enabled(groups, subjects))]
<1> DEFINE E == Enabled(groups, subjects)
           N == Cardinality(E)
           S == SUBSET ({s} \cup {groups[m].group : m \in E})
           F == [below \in S |-> Step(groups, E, below)]
           up == CHOOSE f : f = [n \in 0 .. N |->
                    IF n = 0 THEN {s}
                    ELSE f[n-1] \cup {groups[m].group : m \in {m \in E : groups[m].member \in f[n-1]}}]
<1>1. Principals(groups, subjects, s) = up[N]
  BY DEF Principals, Enabled
<1>2. {s} \in S /\ F \in [S -> S] /\ N \in Nat
  BY DEF Step
<1>3. PICK h \in [0 .. N -> S] : Solves(h, {s}, F, N)
  <2> HIDE DEF S, F, N
  <2> QED
    BY <1>2, Recursion
<1>4. \A n \in 0 .. N : n # 0 => n - 1 \in 0 .. N /\ h[n - 1] \in S
  BY <1>2, <1>3
<1>5. \A n \in 0 .. N : h[n] = IF n = 0 THEN {s} ELSE Step(groups, E, h[n - 1])
  BY <1>3, <1>4 DEF Solves
<1>6. h = [n \in 0 .. N |->
             IF n = 0 THEN {s}
             ELSE h[n-1] \cup {groups[m].group : m \in {m \in E : groups[m].member \in h[n-1]}}]
  <2> HIDE DEF N, S, E
  <2> QED
    BY <1>3, <1>5 DEF Step
<1>7. up = [n \in 0 .. N |->
             IF n = 0 THEN {s}
             ELSE up[n-1] \cup {groups[m].group : m \in {m \in E : groups[m].member \in up[n-1]}}]
  <2> HIDE DEF N, S, E
  <2> QED
    BY <1>6, Zenon
<1>8. \A n \in 0 .. N : up[n] = IF n = 0 THEN {s} ELSE Step(groups, E, up[n - 1])
  <2> HIDE DEF up, N, S, E
  <2> QED
    BY <1>7 DEF Step
<1>9. Climbs(up, groups, E, s, N)
  <2> HIDE DEF up, N, S, E, F
  <2> QED
    BY <1>2, <1>8 DEF Climbs
<1> HIDE DEF up
<1> QED
  BY <1>1, <1>9

LEMMA ClimbersStay ==
    ASSUME NEW groups, NEW E, NEW s, NEW N \in Nat, NEW up, Climbs(up, groups, E, s, N)
    PROVE  \A n \in 0 .. N : s \in up[n]
<1> DEFINE T == {n \in Nat : n <= N => s \in up[n]}
<1>1. 0 \in T
  BY DEF Climbs
<1>2. ASSUME NEW n \in Nat, n \in T
      PROVE  n + 1 \in T
  BY <1>2 DEF Climbs, Step
<1>3. Nat \subseteq T
  <2> HIDE DEF T
  <2> QED
    BY <1>1, <1>2, SetInduction
<1> QED
  BY <1>3

(* No membership leads out of C.                                           *)
ClosedUnder(C, groups, E) == \A m \in E : groups[m].member \in C => groups[m].group \in C

(* After as many steps as there are memberships no membership leads out:   *)
(* each step that still finds a new group uses up one more membership.     *)
LEMMA ClimbEnds ==
    ASSUME NEW groups, NEW E, IsFiniteSet(E), NEW s,
           NEW up, Climbs(up, groups, E, s, Cardinality(E))
    PROVE  ClosedUnder(up[Cardinality(E)], groups, E)
<1> DEFINE N == Cardinality(E)
           Used(n) == {m \in E : groups[m].member \in up[n] /\ groups[m].group \in up[n]}
           T == {n \in Nat : n <= N => \/ ClosedUnder(up[n], groups, E)
                                      \/ Cardinality(Used(n)) >= n}
<1>1. N \in Nat
  BY FS_CardinalityType
<1>2. \A n \in Nat : IsFiniteSet(Used(n)) /\ Cardinality(Used(n)) \in Nat
  BY FS_Subset, FS_CardinalityType
<1>3. 0 \in T
  BY <1>2
<1>4. ASSUME NEW n \in Nat, n \in T
      PROVE  n + 1 \in T
  <2> SUFFICES ASSUME n + 1 <= N
               PROVE  \/ ClosedUnder(up[n + 1], groups, E)
                      \/ Cardinality(Used(n + 1)) >= n + 1
    OBVIOUS
  <2>1. n \in 0 .. N /\ n < N
    BY <1>1
  <2>2. up[n + 1] = Step(groups, E, up[n])
    BY <2>1 DEF Climbs
  <2>3. CASE ClosedUnder(up[n], groups, E)
    <3>1. up[n + 1] = up[n]
      BY <2>2, <2>3 DEF Step, ClosedUnder
    <3> QED
      BY <2>3, <3>1
  <2>4. CASE ~ ClosedUnder(up[n], groups, E)
    <3>1. Cardinality(Used(n)) >= n
      BY <1>1, <1>4, <2>1, <2>4
    <3>2. PICK m \in E : groups[m].member \in up[n] /\ groups[m].group \notin up[n]
      BY <2>4 DEF ClosedUnder
    <3>3. m \in Used(n + 1) /\ m \notin Used(n) /\ Used(n) \subseteq Used(n + 1)
      BY <2>2, <3>2 DEF Step
    <3>4. Cardinality(Used(n) \cup {m}) = Cardinality(Used(n)) + 1
      BY <1>2, <3>3, FS_AddElement
    <3>5. Cardinality(Used(n) \cup {m}) <= Cardinality(Used(n + 1))
      <4>1. Used(n) \cup {m} \subseteq Used(n + 1) /\ IsFiniteSet(Used(n + 1))
        BY <1>2, <3>3
      <4> HIDE DEF Used
      <4> QED
        BY <4>1, FS_Subset
    <3>6. Cardinality(Used(n)) \in Nat /\ Cardinality(Used(n + 1)) \in Nat
      <4> HIDE DEF Used
      <4> QED
        BY <1>2
    <3>7. Cardinality(Used(n + 1)) >= n + 1
      <4> HIDE DEF Used, N, T
      <4> QED
        BY ONLY n \in Nat, <3>1, <3>4, <3>5, <3>6
    <3> QED
      BY <3>7
  <2> QED
    BY <2>3, <2>4
<1>5. N \in T
  <2> HIDE DEF T, N
  <2> QED
    BY <1>1, <1>3, <1>4, SetInduction
<1>6. CASE Cardinality(Used(N)) >= N
  <2>1. Used(N) \subseteq E
    OBVIOUS
  <2>2. Cardinality(Used(N)) <= Cardinality(E) /\ Cardinality(Used(N)) \in Nat
    BY <1>1, <1>2, <2>1, FS_Subset
  <2>3. Used(N) = E
    <3> HIDE DEF Used
    <3> QED
      BY <1>1, <1>6, <2>1, <2>2, FS_Subset
  <2> QED
    BY <2>3 DEF ClosedUnder
<1> QED
  BY <1>1, <1>5, <1>6

(* The principals of s are s and the groups that are in every set of groups *)
(* closed under enabled membership.                                        *)
LEMMA PrincipalsAreDefined ==
    ASSUME NEW p, NEW s, IsFiniteSet(DOMAIN p.groups)
    PROVE  /\ s \in Principals(p.groups, p.subjects, s)
           /\ Principals(p.groups, p.subjects, s) = PrincipalsByDefinition(p, s)
<1> DEFINE groups == p.groups
           E == Enabled(groups, p.subjects)
           N == Cardinality(E)
           All == {groups[m].group : m \in DOMAIN groups}
           Closed(C) == \A m \in DOMAIN groups :
               groups[m].member \in C \cup {s} /\ ~p.subjects[groups[m].group].disabled
               => groups[m].group \in C
           Least == {s} \cup {g \in All : \A C \in SUBSET All : Closed(C) => g \in C}
<1>1. IsFiniteSet(E) /\ N \in Nat
  BY FS_Subset, FS_CardinalityType DEF Enabled
<1>2. PICK up : Climbs(up, groups, E, s, N) /\ Principals(groups, p.subjects, s) = up[N]
  BY <1>1, PrincipalsClimb
<1>3. s \in up[N] /\ ClosedUnder(up[N], groups, E)
  BY <1>1, <1>2, ClimbersStay, ClimbEnds
<1>4. up[N] \subseteq Least
  <2> DEFINE T == {n \in Nat : n <= N => up[n] \subseteq Least}
  <2>1. 0 \in T
    BY <1>2 DEF Climbs
  <2>2. ASSUME NEW n \in Nat, n \in T
        PROVE  n + 1 \in T
    <3> SUFFICES ASSUME n + 1 <= N, NEW g \in up[n + 1]
                 PROVE  g \in Least
      OBVIOUS
    <3>1. up[n + 1] = Step(groups, E, up[n]) /\ up[n] \subseteq Least
      BY <1>1, <1>2, <2>2 DEF Climbs
    <3>2. CASE g \in up[n]
      BY <3>1, <3>2
    <3>3. CASE \E m \in E : groups[m].member \in up[n] /\ g = groups[m].group
      <4>1. PICK m \in E : groups[m].member \in Least /\ g = groups[m].group
        BY <3>1, <3>3
      <4>2. m \in DOMAIN groups /\ ~p.subjects[groups[m].group].disabled
        BY DEF Enabled
      <4> QED
        BY <4>1, <4>2
    <3> QED
      BY <3>1, <3>2, <3>3 DEF Step
  <2>3. Nat \subseteq T
    <3> HIDE DEF T
    <3> QED
      BY <2>1, <2>2, SetInduction
  <2> QED
    BY <1>1, <2>3
<1>5. Least \subseteq up[N]
  <2> DEFINE C == All \cap up[N]
  <2>1. Closed(C)
    BY <1>3 DEF ClosedUnder, Enabled
  <2> QED
    BY <1>3, <2>1
<1>6. Least = PrincipalsByDefinition(p, s)
  BY DEF PrincipalsByDefinition
<1> QED
  BY <1>2, <1>3, <1>4, <1>5, <1>6

-----------------------------------------------------------------------------
(* The realm keeps its root and its owner *)

(* A subject is in a group by one membership at most.                      *)
LEMMA GroupsAreFinite ==
    ASSUME NEW p, IsPolicy(p), ValidPolicy(p)
    PROVE  IsFiniteSet(DOMAIN p.groups)
<1> DEFINE f == [m \in DOMAIN p.groups |-> <<p.groups[m].member, p.groups[m].group>>]
<1>1. p.groups \in [DOMAIN p.groups -> MembershipRecord]
  BY DEF IsPolicy, IsPartial
<1>2. f \in [DOMAIN p.groups -> Subjects \X Subjects]
  BY <1>1 DEF MembershipRecord
<1>3. ASSUME NEW m \in DOMAIN p.groups, NEW n \in DOMAIN p.groups, f[m] = f[n]
      PROVE  m = n
  <2>1. p.groups[m] = p.groups[n]
    BY <1>1, <1>3 DEF MembershipRecord
  <2> QED
    BY <2>1 DEF ValidPolicy
<1>4. f \in Injection(DOMAIN p.groups, Subjects \X Subjects)
  <2> HIDE DEF f
  <2> QED
    BY <1>2, <1>3 DEF Injection, IsInjective
<1>5. IsFiniteSet(Subjects \X Subjects)
  BY KernelAssumption, FS_Product
<1> HIDE DEF f
<1> QED
  BY <1>4, <1>5, FS_Injection

(* The root's binding is in force and its own, so the root can manage.     *)
LEMMA RootManages ==
    ASSUME NEW p, RealmStands(p)
    PROVE  OwnerManagement(p, p.bindings[SystemRoot].subject)
<1> DEFINE s == p.bindings[SystemRoot].subject
<1>1. /\ SystemRoot \in DOMAIN p.bindings
      /\ p.bindings[SystemRoot] = RootBinding(s)
      /\ CanAct(p, s) /\ p.subjects[s].protected /\ p.subjects[s].type = "service-account"
  BY DEF RealmStands, RootHolds
<1>2. /\ p.bindings[SystemRoot].role = SystemRoot
      /\ p.bindings[SystemRoot].scope = WholeRealm
      /\ p.bindings[SystemRoot].active /\ ~p.bindings[SystemRoot].constrained
  BY <1>1 DEF RootBinding
<1>3. p.roles[SystemRoot].level = SystemRoot /\ Manage \in p.roles[SystemRoot].permissions
  BY DEF RealmStands, RootIsSound
<1>4. s \in Principals(p.groups, p.subjects, s)
  BY GroupsAreFinite, PrincipalsAreDefined DEF RealmStands
<1>5. SystemRoot \in EffectiveBindings(p, s)
  BY <1>1, <1>4 DEF EffectiveBindings
<1>6. ScopeApplies(WholeRealm, RootResource)
  BY DEF ScopeApplies, WholeRealm, Everywhere
<1>7. SystemRoot \in MatchedGrants(p, s, Manage, RootResource, FALSE)
  BY <1>2, <1>3, <1>5, <1>6 DEF MatchedGrants, PermissionsOf
<1>8. EvaluateAccess(p, s, Manage, RootResource, FALSE)
  BY <1>1, <1>7, KernelAssumption DEF EvaluateAccess
<1> QED
  BY <1>1, <1>2, <1>3, <1>7, <1>8 DEF OwnerManagement

LEMMA AppliedIs ==
    ASSUME NEW p, NEW m
    PROVE  LET q == Applied(p, m)
           IN /\ q = [revision |-> q.revision, subjects |-> q.subjects, levels |-> q.levels,
                      roles |-> q.roles, bindings |-> q.bindings, groups |-> q.groups]
              /\ q.revision = p.revision + 1
              /\ q.subjects = IF m.op \in SubjectOps THEN Change(p.subjects, m) ELSE p.subjects
              /\ q.levels = IF m.op \in LevelOps THEN Change(p.levels, m) ELSE p.levels
              /\ q.roles = IF m.op \in RoleOps THEN Change(p.roles, m) ELSE p.roles
              /\ q.bindings = IF m.op \in BindingOps THEN Change(p.bindings, m)
                              ELSE IF m.op \in OwnerOps
                              THEN Put([b \in DOMAIN p.bindings \ OwnerBindings(p) |-> p.bindings[b]],
                                       PrimaryOwner, OwnerBinding(m.id))
                              ELSE p.bindings
              /\ q.groups = IF m.op \in MembershipOps THEN Change(p.groups, m) ELSE p.groups
BY Zenon DEF Applied, Revised

(* Nothing but the row that m names differs, and that is gone or is m's.   *)
Differs(old, new, m) ==
    /\ \A x \in DOMAIN old : x # m.id => x \in DOMAIN new /\ new[x] = old[x]
    /\ \A x \in DOMAIN new :
         \/ x # m.id /\ x \in DOMAIN old
         \/ x = m.id /\ m.op \notin DeleteOps /\ new[x] = m.value

LEMMA ChangeIsPartial ==
    ASSUME NEW table, NEW m, NEW S, NEW T, IsPartial(table, S, T),
           m.op \in DeleteOps \/ (m.id \in S /\ m.value \in T)
    PROVE  IsPartial(Change(table, m), S, T) /\ Differs(table, Change(table, m), m)
<1>1. CASE m.op \in DeleteOps
  BY <1>1 DEF Change, Without, IsPartial, Differs
<1>2. CASE m.op \notin DeleteOps
  BY <1>2 DEF Change, Put, IsPartial, Differs
<1> QED
  BY <1>1, <1>2

(* What the parts of a standing realm say, where the cases need them.      *)
LEMMA Standing ==
    ASSUME NEW p, RealmStands(p)
    PROVE  /\ p.revision \in Nat
           /\ IsPartial(p.subjects, Subjects, SubjectRecord)
           /\ IsPartial(p.levels, LevelIds, LevelRecord)
           /\ IsPartial(p.roles, RoleIds, RoleRecord)
           /\ IsPartial(p.bindings, BindingIds, BindingRecord)
           /\ IsPartial(p.groups, MembershipIds, MembershipRecord)
           /\ \A x \in {SystemRoot, Owner} :
                 /\ x \in DOMAIN p.levels /\ p.levels[x].protected
                 /\ x \in DOMAIN p.roles /\ p.roles[x].protected
                 /\ p.roles[x].level = x /\ Manage \in p.roles[x].permissions
           /\ p.levels[Owner].rank = 100 /\ p.levels[SystemRoot].rank > 100
           /\ SystemRoot \in DOMAIN p.bindings
           /\ p.bindings[SystemRoot].role = SystemRoot /\ p.bindings[SystemRoot].protected
           /\ {c \in DOMAIN p.bindings : p.bindings[c].role = SystemRoot} = {SystemRoot}
<1>1. /\ SystemRoot \in DOMAIN p.bindings
      /\ p.bindings[SystemRoot].role = SystemRoot /\ p.bindings[SystemRoot].protected
  BY DEF RealmStands, RootHolds, RootBinding
<1>2. \E b \in DOMAIN p.bindings :
         {c \in DOMAIN p.bindings : p.bindings[c].role = SystemRoot} = {b}
  BY DEF RealmStands, RootIsSound
<1>3. {c \in DOMAIN p.bindings : p.bindings[c].role = SystemRoot} = {SystemRoot}
  BY <1>1, <1>2
<1> QED
  BY <1>1, <1>3 DEF RealmStands, RootIsSound, IsPolicy

(* When the tables keep the rows that hold the realm up, it stands.        *)
LEMMA StandsOn ==
    ASSUME NEW p, RealmStands(p), NEW q, IsPolicy(q), ValidPolicy(q),
           \A x \in {SystemRoot, Owner} :
              /\ x \in DOMAIN q.levels /\ q.levels[x] = p.levels[x]
              /\ x \in DOMAIN q.roles /\ q.roles[x] = p.roles[x],
           SystemRoot \in DOMAIN q.bindings, q.bindings[SystemRoot] = p.bindings[SystemRoot],
           {c \in DOMAIN q.bindings : q.bindings[c].role = SystemRoot} = {SystemRoot},
           LET s == p.bindings[SystemRoot].subject
           IN s \in DOMAIN q.subjects /\ q.subjects[s] = p.subjects[s],
           \A l \in DOMAIN q.levels : ~q.levels[l].protected => q.levels[l].rank < 100,
           OwnerBindings(q) # {} => OwnerIsSound(q)
    PROVE  RealmStands(q)
<1>1. RootIsSound(q)
  <2>1. \A x \in {SystemRoot, Owner} :
           /\ x \in DOMAIN q.levels /\ q.levels[x].protected
           /\ x \in DOMAIN q.roles /\ q.roles[x].protected
           /\ q.roles[x].level = x /\ Manage \in q.roles[x].permissions
    BY Standing
  <2>2. q.levels[Owner].rank = 100 /\ q.levels[SystemRoot].rank > 100
    BY Standing
  <2>3. q.bindings[SystemRoot].protected
    BY Standing
  <2> QED
    BY <2>1, <2>2, <2>3 DEF RootIsSound
<1>2. RootHolds(q)
  BY DEF RealmStands, RootHolds, CanAct
<1> QED
  BY <1>1, <1>2 DEF RealmStands

(* The owner stays sound when the bindings of the owner role and the       *)
(* owner's subject stay.                                                   *)
LEMMA OwnerStays ==
    ASSUME NEW p, RealmStands(p), NEW q,
           OwnerBindings(q) = OwnerBindings(p),
           \A b \in OwnerBindings(p) :
              /\ b \in DOMAIN q.bindings /\ q.bindings[b] = p.bindings[b]
              /\ p.bindings[b].subject \in DOMAIN p.subjects
                 => /\ p.bindings[b].subject \in DOMAIN q.subjects
                    /\ q.subjects[p.bindings[b].subject] = p.subjects[p.bindings[b].subject]
    PROVE  OwnerBindings(q) # {} => OwnerIsSound(q)
BY DEF RealmStands, OwnerIsSound, EligibleOwner, CanAct

LEMMA KindsDiffer ==
    ASSUME NEW op
    PROVE  /\ op \in RoleOps => op \notin BindingOps \cup LevelOps \cup SubjectOps \cup MembershipOps \cup OwnerOps
           /\ op \in BindingOps => op \notin RoleOps \cup LevelOps \cup SubjectOps \cup MembershipOps \cup OwnerOps
           /\ op \in LevelOps => op \notin RoleOps \cup BindingOps \cup SubjectOps \cup MembershipOps \cup OwnerOps
           /\ op \in SubjectOps => op \notin RoleOps \cup BindingOps \cup LevelOps \cup MembershipOps \cup OwnerOps
           /\ op \in MembershipOps => op \notin RoleOps \cup BindingOps \cup LevelOps \cup SubjectOps \cup OwnerOps
           /\ op \in OwnerOps => op \notin RoleOps \cup BindingOps \cup LevelOps \cup SubjectOps \cup MembershipOps
BY DEF RoleOps, BindingOps, LevelOps, SubjectOps, MembershipOps, OwnerOps

LEMMA RolesKeepTheRealm ==
    ASSUME NEW p, RealmStands(p), NEW a \in Actors, NEW m \in Mutations, Permitted(p, a, m),
           m.op \in RoleOps
    PROVE  RealmStands(Applied(p, m))
<1> DEFINE q == Applied(p, m)
<1>1. /\ q = [revision |-> q.revision, subjects |-> q.subjects, levels |-> q.levels,
              roles |-> q.roles, bindings |-> q.bindings, groups |-> q.groups]
      /\ q.revision = p.revision + 1
      /\ q.subjects = p.subjects /\ q.levels = p.levels /\ q.groups = p.groups
      /\ q.bindings = p.bindings /\ q.roles = Change(p.roles, m)
  BY AppliedIs, KindsDiffer
<1>2. MayChangeRole(p, a, m) /\ ValidPolicy(q)
  BY KindsDiffer DEF Permitted
<1>3. m.op \in DeleteOps \/ (m.id \in RoleIds /\ m.value \in RoleRecord)
  BY MutationAssumption, KindsDiffer
<1>4. \A x \in {SystemRoot, Owner} : m.id # x
  <2>1. m.op = "role.create" => m.id \notin DOMAIN p.roles
    BY <1>2 DEF MayChangeRole
  <2>2. m.op # "role.create" => ~p.roles[m.id].protected
    BY <1>2 DEF MayChangeRole, RoleIsProtected, RoleOps
  <2> QED
    BY <2>1, <2>2, Standing
<1> HIDE DEF q
<1>5. /\ IsPartial(q.roles, RoleIds, RoleRecord)
      /\ \A x \in DOMAIN p.roles : x # m.id => x \in DOMAIN q.roles /\ q.roles[x] = p.roles[x]
  <2>1. IsPartial(p.roles, RoleIds, RoleRecord)
    BY Standing
  <2>2. IsPartial(q.roles, RoleIds, RoleRecord) /\ Differs(p.roles, q.roles, m)
    BY <1>1, <1>3, <2>1, ChangeIsPartial
  <2> QED
    BY <2>2 DEF Differs
<1>6. IsPolicy(q)
  BY <1>1, <1>5, Standing DEF IsPolicy
<1>7. OwnerBindings(q) # {} => OwnerIsSound(q)
  BY <1>1, OwnerStays DEF OwnerBindings
<1>8. /\ \A x \in {SystemRoot, Owner} :
            /\ x \in DOMAIN q.levels /\ q.levels[x] = p.levels[x]
            /\ x \in DOMAIN q.roles /\ q.roles[x] = p.roles[x]
      /\ \A l \in DOMAIN q.levels : ~q.levels[l].protected => q.levels[l].rank < 100
      /\ p.bindings[SystemRoot].subject \in DOMAIN q.subjects
  BY <1>1, <1>4, <1>5, Standing DEF RealmStands, RootHolds, CanAct
<1>9. RealmStands(q)
  BY <1>1, <1>2, <1>6, <1>7, <1>8, Standing, StandsOn
<1> QED
  BY <1>9 DEF q

LEMMA BindingsKeepTheRealm ==
    ASSUME NEW p, RealmStands(p), NEW a \in Actors, NEW m \in Mutations, Permitted(p, a, m),
           m.op \in BindingOps
    PROVE  RealmStands(Applied(p, m))
<1> DEFINE q == Applied(p, m)
<1>1. /\ q = [revision |-> q.revision, subjects |-> q.subjects, levels |-> q.levels,
              roles |-> q.roles, bindings |-> q.bindings, groups |-> q.groups]
      /\ q.revision = p.revision + 1
      /\ q.subjects = p.subjects /\ q.levels = p.levels /\ q.groups = p.groups
      /\ q.roles = p.roles /\ q.bindings = Change(p.bindings, m)
  BY AppliedIs, KindsDiffer
<1>2. MayChangeBinding(p, a, m) /\ ValidPolicy(q)
  BY KindsDiffer DEF Permitted
<1>3. m.op \in DeleteOps \/ (m.id \in BindingIds /\ m.value \in BindingRecord)
  BY MutationAssumption, KindsDiffer
<1>4. m.op \in DeleteOps <=> m.op = "binding.delete"
  BY DEF BindingOps, DeleteOps
(* Neither the row that goes nor the one that comes has a protected role.  *)
<1>5. /\ m.id \in DOMAIN p.bindings =>
            ~p.bindings[m.id].protected /\ p.bindings[m.id].role \notin {SystemRoot, Owner}
      /\ m.op \notin DeleteOps => m.value.role \notin {SystemRoot, Owner}
  <2>1. m.id \in DOMAIN p.bindings => ~BindingIsProtected(p, p.bindings[m.id])
    BY <1>2 DEF MayChangeBinding
  <2>2. m.op \notin DeleteOps => ~BindingIsProtected(p, m.value)
    BY <1>2, <1>4 DEF MayChangeBinding
  <2> QED
    BY <2>1, <2>2, Standing DEF BindingIsProtected, RoleIsProtected
<1>6. m.id # SystemRoot /\ m.id \notin OwnerBindings(p)
  <2>1. m.id # SystemRoot
    BY <1>5, Standing
  <2> QED
    BY <1>5, <2>1 DEF OwnerBindings
<1> HIDE DEF q
<1>7. /\ IsPartial(q.bindings, BindingIds, BindingRecord)
      /\ \A x \in DOMAIN p.bindings : x # m.id => x \in DOMAIN q.bindings /\ q.bindings[x] = p.bindings[x]
      /\ \A x \in DOMAIN q.bindings : \/ x # m.id /\ x \in DOMAIN p.bindings
                                      \/ /\ x = m.id
                                         /\ q.bindings[x].role \notin {SystemRoot, Owner}
  <2>1. IsPartial(p.bindings, BindingIds, BindingRecord)
    BY Standing
  <2>2. IsPartial(q.bindings, BindingIds, BindingRecord) /\ Differs(p.bindings, q.bindings, m)
    BY <1>1, <1>3, <2>1, ChangeIsPartial
  <2> QED
    BY <1>5, <2>2 DEF Differs
<1>8. IsPolicy(q)
  BY <1>1, <1>7, Standing DEF IsPolicy
<1>9. /\ OwnerBindings(q) = OwnerBindings(p)
      /\ \A b \in OwnerBindings(p) : b \in DOMAIN q.bindings /\ q.bindings[b] = p.bindings[b]
  BY <1>6, <1>7 DEF OwnerBindings
<1>10. OwnerBindings(q) # {} => OwnerIsSound(q)
  BY <1>1, <1>9, OwnerStays
<1>11. /\ SystemRoot \in DOMAIN q.bindings /\ q.bindings[SystemRoot] = p.bindings[SystemRoot]
       /\ {c \in DOMAIN q.bindings : q.bindings[c].role = SystemRoot} = {SystemRoot}
  BY <1>6, <1>7, Standing
<1>12. /\ \A l \in DOMAIN q.levels : ~q.levels[l].protected => q.levels[l].rank < 100
       /\ p.bindings[SystemRoot].subject \in DOMAIN q.subjects
  BY <1>1 DEF RealmStands, RootHolds, CanAct
<1>13. RealmStands(q)
  BY <1>1, <1>2, <1>8, <1>10, <1>11, <1>12, Standing, StandsOn
<1> QED
  BY <1>13 DEF q

LEMMA LevelsKeepTheRealm ==
    ASSUME NEW p, RealmStands(p), NEW a \in Actors, NEW m \in Mutations, Permitted(p, a, m),
           m.op \in LevelOps
    PROVE  RealmStands(Applied(p, m))
<1> DEFINE q == Applied(p, m)
<1>1. /\ q = [revision |-> q.revision, subjects |-> q.subjects, levels |-> q.levels,
              roles |-> q.roles, bindings |-> q.bindings, groups |-> q.groups]
      /\ q.revision = p.revision + 1
      /\ q.subjects = p.subjects /\ q.roles = p.roles /\ q.groups = p.groups
      /\ q.bindings = p.bindings /\ q.levels = Change(p.levels, m)
  BY AppliedIs, KindsDiffer
<1>2. MayChangeLevel(p, a, m) /\ ValidPolicy(q)
  BY KindsDiffer DEF Permitted
<1>3. m.op \in DeleteOps \/ (m.id \in LevelIds /\ m.value \in LevelRecord)
  BY MutationAssumption, KindsDiffer
<1>4. m.op \in DeleteOps <=> m.op = "level.delete"
  BY DEF LevelOps, DeleteOps
<1>5. \A x \in {SystemRoot, Owner} : m.id # x
  BY <1>2, Standing DEF MayChangeLevel
<1>6. m.op \notin DeleteOps => ~m.value.protected /\ m.value.rank < 100
  BY <1>2, <1>4, Standing DEF MayChangeLevel, ManageableLevel
<1> HIDE DEF q
<1>7. IsPartial(q.levels, LevelIds, LevelRecord) /\ Differs(p.levels, q.levels, m)
  <2>1. IsPartial(p.levels, LevelIds, LevelRecord)
    BY Standing
  <2> QED
    BY <1>1, <1>3, <2>1, ChangeIsPartial
<1>8. IsPolicy(q)
  BY <1>1, <1>7, Standing DEF IsPolicy
<1>9. OwnerBindings(q) # {} => OwnerIsSound(q)
  BY <1>1, OwnerStays DEF OwnerBindings
<1>10. \A x \in {SystemRoot, Owner} :
          /\ x \in DOMAIN q.levels /\ q.levels[x] = p.levels[x]
          /\ x \in DOMAIN q.roles /\ q.roles[x] = p.roles[x]
  BY <1>1, <1>5, <1>7, Standing DEF Differs
<1>11. ASSUME NEW l \in DOMAIN q.levels, ~q.levels[l].protected
       PROVE  q.levels[l].rank < 100
  BY <1>6, <1>7, <1>11 DEF Differs, RealmStands
<1>12. p.bindings[SystemRoot].subject \in DOMAIN q.subjects
  BY <1>1 DEF RealmStands, RootHolds, CanAct
<1>13. RealmStands(q)
  BY <1>1, <1>2, <1>8, <1>9, <1>10, <1>11, <1>12, Standing, StandsOn
<1> QED
  BY <1>13 DEF q

(* The subjects of the root's and the owner's binding are protected, for   *)
(* these bindings are.                                                     *)
LEMMA SubjectsKeepTheRealm ==
    ASSUME NEW p, RealmStands(p), NEW a \in Actors, NEW m \in Mutations, Permitted(p, a, m),
           m.op \in SubjectOps
    PROVE  RealmStands(Applied(p, m))
<1> DEFINE q == Applied(p, m)
           s == p.bindings[SystemRoot].subject
<1>1. /\ q = [revision |-> q.revision, subjects |-> q.subjects, levels |-> q.levels,
              roles |-> q.roles, bindings |-> q.bindings, groups |-> q.groups]
      /\ q.revision = p.revision + 1
      /\ q.levels = p.levels /\ q.roles = p.roles /\ q.groups = p.groups
      /\ q.bindings = p.bindings /\ q.subjects = Change(p.subjects, m)
  BY AppliedIs, KindsDiffer
<1>2. MayChangeSubject(p, a, m) /\ ValidPolicy(q)
  BY KindsDiffer DEF Permitted
<1>3. m.op \in DeleteOps \/ (m.id \in Subjects /\ m.value \in SubjectRecord)
  BY MutationAssumption, KindsDiffer
<1>4. \A b \in DOMAIN p.bindings :
         p.bindings[b].role \in {SystemRoot, Owner} /\ p.bindings[b].subject \in DOMAIN p.subjects
         => m.id # p.bindings[b].subject
  <2> SUFFICES ASSUME NEW b \in DOMAIN p.bindings, p.bindings[b].role \in {SystemRoot, Owner},
                      m.id = p.bindings[b].subject, m.id \in DOMAIN p.subjects
               PROVE  FALSE
    OBVIOUS
  <2>1. BindingIsProtected(p, p.bindings[b])
    BY Standing DEF BindingIsProtected, RoleIsProtected
  <2>2. SubjectIsProtected(p, m.id)
    BY <2>1 DEF SubjectIsProtected
  <2> QED
    BY <1>2, <2>2 DEF MayChangeSubject
<1>5. s \in DOMAIN p.subjects
  BY DEF RealmStands, RootHolds, CanAct
<1> HIDE DEF q
<1>6. IsPartial(q.subjects, Subjects, SubjectRecord) /\ Differs(p.subjects, q.subjects, m)
  <2>1. IsPartial(p.subjects, Subjects, SubjectRecord)
    BY Standing
  <2> QED
    BY <1>1, <1>3, <2>1, ChangeIsPartial
<1>7. IsPolicy(q)
  BY <1>1, <1>6, Standing DEF IsPolicy
<1>8. s \in DOMAIN q.subjects /\ q.subjects[s] = p.subjects[s]
  BY <1>4, <1>5, <1>6, Standing DEF Differs
<1>9. \A b \in OwnerBindings(p) :
         p.bindings[b].subject \in DOMAIN p.subjects
         => /\ p.bindings[b].subject \in DOMAIN q.subjects
            /\ q.subjects[p.bindings[b].subject] = p.subjects[p.bindings[b].subject]
  BY <1>4, <1>6 DEF Differs, OwnerBindings
<1>10. OwnerBindings(q) # {} => OwnerIsSound(q)
  <2>1. OwnerBindings(q) = OwnerBindings(p) /\ OwnerBindings(p) \subseteq DOMAIN q.bindings
    BY <1>1 DEF OwnerBindings
  <2> QED
    BY <1>1, <1>9, <2>1, OwnerStays
<1>11. \A l \in DOMAIN q.levels : ~q.levels[l].protected => q.levels[l].rank < 100
  BY <1>1 DEF RealmStands
<1>12. RealmStands(q)
  BY <1>1, <1>2, <1>7, <1>8, <1>10, <1>11, Standing, StandsOn
<1> QED
  BY <1>12 DEF q

LEMMA MembershipsKeepTheRealm ==
    ASSUME NEW p, RealmStands(p), NEW a \in Actors, NEW m \in Mutations, Permitted(p, a, m),
           m.op \in MembershipOps
    PROVE  RealmStands(Applied(p, m))
<1> DEFINE q == Applied(p, m)
<1>1. /\ q = [revision |-> q.revision, subjects |-> q.subjects, levels |-> q.levels,
              roles |-> q.roles, bindings |-> q.bindings, groups |-> q.groups]
      /\ q.revision = p.revision + 1
      /\ q.levels = p.levels /\ q.roles = p.roles /\ q.subjects = p.subjects
      /\ q.bindings = p.bindings /\ q.groups = Change(p.groups, m)
  BY AppliedIs, KindsDiffer
<1>2. ValidPolicy(q)
  BY DEF Permitted
<1>3. m.op \in DeleteOps \/ (m.id \in MembershipIds /\ m.value \in MembershipRecord)
  BY MutationAssumption, KindsDiffer
<1> HIDE DEF q
<1>4. IsPartial(q.groups, MembershipIds, MembershipRecord)
  <2>1. IsPartial(p.groups, MembershipIds, MembershipRecord)
    BY Standing
  <2> QED
    BY <1>1, <1>3, <2>1, ChangeIsPartial
<1>5. IsPolicy(q)
  BY <1>1, <1>4, Standing DEF IsPolicy
<1>6. OwnerBindings(q) # {} => OwnerIsSound(q)
  BY <1>1, OwnerStays DEF OwnerBindings
<1>7. /\ p.bindings[SystemRoot].subject \in DOMAIN q.subjects
      /\ \A l \in DOMAIN q.levels : ~q.levels[l].protected => q.levels[l].rank < 100
  BY <1>1 DEF RealmStands, RootHolds, CanAct
<1>8. RealmStands(q)
  BY <1>1, <1>2, <1>5, <1>6, <1>7, Standing, StandsOn
<1> QED
  BY <1>8 DEF q

(* The new owner is eligible, and his is the one binding of the role.      *)
LEMMA OwnersKeepTheRealm ==
    ASSUME NEW p, RealmStands(p), NEW a \in Actors, NEW m \in Mutations, Permitted(p, a, m),
           m.op \in OwnerOps
    PROVE  RealmStands(Applied(p, m))
<1> DEFINE q == Applied(p, m)
           rest == [b \in DOMAIN p.bindings \ OwnerBindings(p) |-> p.bindings[b]]
<1>1. /\ q = [revision |-> q.revision, subjects |-> q.subjects, levels |-> q.levels,
              roles |-> q.roles, bindings |-> q.bindings, groups |-> q.groups]
      /\ q.revision = p.revision + 1
      /\ q.levels = p.levels /\ q.roles = p.roles /\ q.subjects = p.subjects
      /\ q.groups = p.groups
      /\ q.bindings = Put(rest, PrimaryOwner, OwnerBinding(m.id))
  BY AppliedIs, KindsDiffer
<1>2. MayChangeOwner(p, a, m) /\ ValidPolicy(q)
  BY KindsDiffer DEF Permitted
<1>3. m.id \in Subjects /\ PrimaryOwner \in BindingIds
  BY MutationAssumption, KindsDiffer
<1>4. EligibleOwner(p, m.id)
  BY <1>2 DEF MayChangeOwner
<1>5. OwnerBinding(m.id) \in BindingRecord
  <2>1. Owner \in RoleIds
    BY Standing DEF IsPartial
  <2>2. WholeRealm \in Scope
    BY KernelAssumption DEF WholeRealm, Scope
  <2> QED
    BY <1>3, <2>1, <2>2 DEF OwnerBinding, BindingRecord
<1>6. /\ DOMAIN q.bindings = (DOMAIN p.bindings \ OwnerBindings(p)) \cup {PrimaryOwner}
      /\ q.bindings[PrimaryOwner] = OwnerBinding(m.id)
      /\ \A b \in DOMAIN p.bindings \ OwnerBindings(p) :
            b # PrimaryOwner => q.bindings[b] = p.bindings[b]
  BY <1>1 DEF Put
<1> HIDE DEF q
<1>7. IsPartial(q.bindings, BindingIds, BindingRecord)
  <2>1. IsPartial(p.bindings, BindingIds, BindingRecord)
    BY Standing
  <2>2. q.bindings = [b \in DOMAIN q.bindings |-> q.bindings[b]]
    BY <1>1 DEF Put
  <2> QED
    BY <1>3, <1>5, <1>6, <2>1, <2>2 DEF IsPartial
<1>8. IsPolicy(q)
  BY <1>1, <1>7, Standing DEF IsPolicy
<1>9. OwnerBinding(m.id).role = Owner /\ OwnerBinding(m.id).subject = m.id
  BY DEF OwnerBinding
<1>10. OwnerBindings(q) = {PrimaryOwner}
  BY <1>6, <1>9 DEF OwnerBindings
<1>11. OwnerIsSound(q)
  <2>1. q.bindings[PrimaryOwner].subject = m.id
    BY <1>6, <1>9
  <2>2. EligibleOwner(q, m.id)
    BY <1>1, <1>4 DEF EligibleOwner, CanAct
  <2> QED
    BY <1>6, <1>10, <2>1, <2>2 DEF OwnerIsSound
<1>12. SystemRoot \notin OwnerBindings(p) /\ SystemRoot # PrimaryOwner /\ SystemRoot # Owner
  BY Standing DEF OwnerBindings, SystemRoot, Owner, PrimaryOwner
<1>13. /\ SystemRoot \in DOMAIN q.bindings /\ q.bindings[SystemRoot] = p.bindings[SystemRoot]
       /\ {c \in DOMAIN q.bindings : q.bindings[c].role = SystemRoot} = {SystemRoot}
  BY <1>6, <1>9, <1>12, Standing
<1>14. /\ p.bindings[SystemRoot].subject \in DOMAIN q.subjects
       /\ q.subjects[p.bindings[SystemRoot].subject] = p.subjects[p.bindings[SystemRoot].subject]
       /\ \A l \in DOMAIN q.levels : ~q.levels[l].protected => q.levels[l].rank < 100
       /\ \A x \in {SystemRoot, Owner} :
             /\ x \in DOMAIN q.levels /\ q.levels[x] = p.levels[x]
             /\ x \in DOMAIN q.roles /\ q.roles[x] = p.roles[x]
  BY <1>1, Standing DEF RealmStands, RootHolds, CanAct
<1>15. RealmStands(q)
  BY <1>2, <1>8, <1>11, <1>13, <1>14, StandsOn
<1> QED
  BY <1>15 DEF q

(* Whatever is permitted keeps the realm, and makes the next revision.     *)
LEMMA MutationsKeepTheRealm ==
    ASSUME NEW p, RealmStands(p), NEW a \in Actors, NEW m \in Mutations, Permitted(p, a, m)
    PROVE  RealmStands(Applied(p, m)) /\ Applied(p, m).revision = p.revision + 1
<1>1. m.op \in RoleOps \cup BindingOps \cup LevelOps \cup SubjectOps \cup MembershipOps \cup OwnerOps
  BY DEF Permitted
<1> QED
  BY <1>1, AppliedIs, RolesKeepTheRealm, BindingsKeepTheRealm, LevelsKeepTheRealm,
     SubjectsKeepTheRealm, MembershipsKeepTheRealm, OwnersKeepTheRealm

LEMMA BumpsKeepTheRealm ==
    ASSUME NEW p, RealmStands(p)
    PROVE  /\ RealmStands([p EXCEPT !.revision = @ + 1])
           /\ [p EXCEPT !.revision = @ + 1].revision = p.revision + 1
<1> DEFINE q == [p EXCEPT !.revision = @ + 1]
<1>1. p = [revision |-> p.revision, subjects |-> p.subjects, levels |-> p.levels,
           roles |-> p.roles, bindings |-> p.bindings, groups |-> p.groups]
  BY DEF RealmStands, IsPolicy
<1>2. q = [revision |-> p.revision + 1, subjects |-> p.subjects, levels |-> p.levels,
           roles |-> p.roles, bindings |-> p.bindings, groups |-> p.groups]
  BY ONLY <1>1
<1>3. /\ q = [revision |-> q.revision, subjects |-> q.subjects, levels |-> q.levels,
              roles |-> q.roles, bindings |-> q.bindings, groups |-> q.groups]
      /\ q.revision = p.revision + 1
      /\ q.subjects = p.subjects /\ q.levels = p.levels /\ q.roles = p.roles
      /\ q.bindings = p.bindings /\ q.groups = p.groups
  BY <1>2
<1> HIDE DEF q
<1>4. IsPolicy(q) /\ ValidPolicy(q)
  BY <1>3, Standing DEF IsPolicy, ValidPolicy, ValidRole, BindingResolves, RealmStands
<1>5. OwnerBindings(q) # {} => OwnerIsSound(q)
  BY <1>3, OwnerStays DEF OwnerBindings
<1>6. /\ p.bindings[SystemRoot].subject \in DOMAIN q.subjects
      /\ \A l \in DOMAIN q.levels : ~q.levels[l].protected => q.levels[l].rank < 100
  BY <1>3 DEF RealmStands, RootHolds, CanAct
<1>7. RealmStands(q)
  BY <1>3, <1>4, <1>5, <1>6, Standing, StandsOn
<1> QED
  BY <1>3, <1>7 DEF q

-----------------------------------------------------------------------------
(* Nobody climbs *)

(* What the contained scope reaches, the container reaches.                *)
LEMMA ScopesReach ==
    ASSUME NEW c \in Scope, NEW d \in Scope, NEW r \in Resources,
           ScopeContains(c, d), ScopeApplies(d, r)
    PROVE  ScopeApplies(c, r)
<1>1. /\ c.resource \in Resources /\ d.resource \in Resources
      /\ \A x \in Above[r] : Above[x] \subseteq Above[r]
  BY KernelAssumption DEF Scope
<1>2. CASE c.resource = d.resource /\ c.propagation \in {d.propagation, Everywhere}
  BY <1>2 DEF ScopeApplies, Everywhere
<1>3. CASE c.resource \in Above[d.resource] /\ c.propagation # "self"
  BY <1>1, <1>3 DEF ScopeApplies
<1> QED
  BY <1>2, <1>3 DEF ScopeContains

LEMMA WholeRealmReaches ==
    ASSUME NEW r \in Resources
    PROVE  WholeRealm \in Scope /\ ScopeApplies(WholeRealm, r)
BY KernelAssumption DEF WholeRealm, Scope, ScopeApplies, Everywhere

(* Who may manage holds for sure what is affected, wherever it applies,    *)
(* and stands higher than every rank in question.                          *)
LEMMA ManagersHold ==
    ASSUME NEW p, RealmStands(p), NEW a, NEW action, NEW guard, NEW scopes, NEW ranks, NEW affected,
           Manages(p, a, action, guard, scopes, ranks, affected), scopes \subseteq Scope
    PROVE  /\ \A x \in Permissions \X Resources, c \in scopes :
                 x[1] \in affected /\ ScopeApplies(c, x[2]) => x \in Sure(p, a)
           /\ \A k \in ranks : \E j \in Ranks(p, a) : k < j
<1>1. PICK b \in EffectiveBindings(p, a) :
         /\ p.bindings[b].active /\ ~p.bindings[b].constrained
         /\ \A c \in scopes : ScopeContains(p.bindings[b].scope, c)
         /\ \A k \in ranks : SourceRank(p, b) > k
         /\ affected \subseteq DelegatedBy(p, b)
  BY DEF Manages
<1>2. b \in DOMAIN p.bindings /\ p.bindings[b].scope \in Scope
  BY Standing DEF EffectiveBindings, IsPartial, BindingRecord
<1>3. affected \subseteq PermissionsOf(p, b)
  <2>1. p.bindings[b].role \in DOMAIN p.roles
    BY <1>2 DEF RealmStands, ValidPolicy, BindingResolves
  <2>2. ValidRole(p, p.roles[p.bindings[b].role])
    BY <2>1 DEF RealmStands, ValidPolicy
  <2> QED
    BY <1>1, <2>2 DEF DelegatedBy, PermissionsOf, ValidRole
<1>4. ASSUME NEW x \in Permissions \X Resources, NEW c \in scopes,
             x[1] \in affected, ScopeApplies(c, x[2])
      PROVE  x \in Sure(p, a)
  <2>1. ScopeApplies(p.bindings[b].scope, x[2])
    BY <1>1, <1>2, <1>4, ScopesReach
  <2> QED
    BY <1>1, <1>3, <1>4, <2>1 DEF Sure
<1>5. ASSUME NEW k \in ranks
      PROVE  \E j \in Ranks(p, a) : k < j
  <2>1. SourceRank(p, b) \in Ranks(p, a) /\ SourceRank(p, b) > k
    BY <1>1 DEF Ranks
  <2> QED
    BY <2>1
<1> QED
  BY <1>4, <1>5

LEMMA RolesClimbNobody ==
    ASSUME NEW p, RealmStands(p), NEW a \in Subjects, NEW m \in Mutations, Permitted(p, a, m),
           m.op \in RoleOps
    PROVE  ClimbsNobody(p, Applied(p, m), a)
<1> DEFINE q == Applied(p, m)
<1>1. /\ q.subjects = p.subjects /\ q.levels = p.levels /\ q.groups = p.groups
      /\ q.bindings = p.bindings /\ q.roles = Change(p.roles, m)
  BY AppliedIs, KindsDiffer
<1>2. MayChangeRole(p, a, m) /\ a # FullAccess
  BY KindsDiffer, KernelAssumption DEF Permitted
<1>3. Differs(p.roles, q.roles, m)
  <2>1. m.op \in DeleteOps \/ (m.id \in RoleIds /\ m.value \in RoleRecord)
    BY MutationAssumption, KindsDiffer
  <2>2. IsPartial(p.roles, RoleIds, RoleRecord)
    BY Standing
  <2> QED
    BY <1>1, <2>1, <2>2, ChangeIsPartial
<1> HIDE DEF q
<1>4. \A s : EffectiveBindings(q, s) = EffectiveBindings(p, s)
  BY <1>1 DEF EffectiveBindings
<1>5. \A b \in DOMAIN p.bindings : p.bindings[b].role \in DOMAIN p.roles
  BY DEF RealmStands, ValidPolicy, BindingResolves
(* A role that somebody holds is changed by an update only.                *)
<1>6. ASSUME NEW b \in DOMAIN p.bindings, p.bindings[b].role = m.id
      PROVE  /\ m.op = "role.update" /\ q.roles[m.id] = m.value
             /\ MayUpdateRole(p, a, p.roles[m.id], m.value)
  <2>1. m.op # "role.create" /\ m.op # "role.delete"
    BY <1>2, <1>5, <1>6 DEF MayChangeRole
  <2>2. m.op = "role.update" /\ m.op \notin DeleteOps
    BY <2>1 DEF RoleOps, DeleteOps
  <2>3. m.id \in DOMAIN q.roles
    <3>1. q.roles = Put(p.roles, m.id, m.value)
      BY <1>1, <2>2 DEF Change
    <3> QED
      BY <3>1 DEF Put
  <2> QED
    BY <1>2, <1>3, <2>2, <2>3 DEF Differs, MayChangeRole
<1>7. ASSUME MayUpdateRole(p, a, p.roles[m.id], m.value)
      PROVE  /\ \A x \in Permissions \X Resources : x[1] \in m.value.permissions => x \in Sure(p, a)
             /\ \E j \in Ranks(p, a) : RankOf(p, m.value) < j
  <2>1. Manages(p, a, "role.update", "target-role", {WholeRealm},
                {RankOf(p, p.roles[m.id]), RankOf(p, m.value)},
                p.roles[m.id].permissions \cup m.value.permissions)
    BY <1>7 DEF MayUpdateRole
  <2>2. {WholeRealm} \subseteq Scope /\ \A r \in Resources : ScopeApplies(WholeRealm, r)
    BY KernelAssumption, WholeRealmReaches
  <2>3. \A x \in Permissions \X Resources, c \in {WholeRealm} :
           x[1] \in p.roles[m.id].permissions \cup m.value.permissions /\ ScopeApplies(c, x[2])
           => x \in Sure(p, a)
    BY <2>1, <2>2, ManagersHold
  <2>4. \A k \in {RankOf(p, p.roles[m.id]), RankOf(p, m.value)} : \E j \in Ranks(p, a) : k < j
    BY <2>1, <2>2, ManagersHold
  <2> QED
    BY <2>2, <2>3, <2>4
<1>8. ASSUME NEW s, NEW x \in Potential(q, s)
      PROVE  x \in Potential(p, s) \cup Sure(p, a)
  <2>1. PICK b \in EffectiveBindings(p, s) :
           /\ x[1] \in q.roles[p.bindings[b].role].permissions
           /\ ScopeApplies(p.bindings[b].scope, x[2])
    BY <1>1, <1>4, <1>8 DEF Potential, PermissionsOf
  <2>2. b \in DOMAIN p.bindings /\ x \in Permissions \X Resources
    BY <1>8, <2>1 DEF EffectiveBindings, Potential
  <2>3. CASE p.bindings[b].role = m.id
    BY <1>6, <1>7, <2>1, <2>2, <2>3
  <2>4. CASE p.bindings[b].role # m.id
    <3>1. q.roles[p.bindings[b].role] = p.roles[p.bindings[b].role]
      BY <1>3, <1>5, <2>2, <2>4 DEF Differs
    <3> QED
      BY <2>1, <2>2, <3>1 DEF Potential, PermissionsOf
  <2> QED
    BY <2>3, <2>4
<1>9. ASSUME NEW s, NEW k \in Ranks(q, s), k \notin Ranks(p, s)
      PROVE  \E j \in Ranks(p, a) : k < j
  <2>1. PICK b \in EffectiveBindings(p, s) : k = RankOf(p, q.roles[p.bindings[b].role])
    BY <1>1, <1>4, <1>9 DEF Ranks, SourceRank, RankOf
  <2>2. b \in DOMAIN p.bindings
    BY <2>1 DEF EffectiveBindings
  <2>3. CASE p.bindings[b].role = m.id
    BY <1>6, <1>7, <2>1, <2>2, <2>3
  <2>4. CASE p.bindings[b].role # m.id
    <3>1. q.roles[p.bindings[b].role] = p.roles[p.bindings[b].role]
      BY <1>3, <1>5, <2>2, <2>4 DEF Differs
    <3> QED
      BY <1>9, <2>1, <3>1 DEF Ranks, SourceRank
  <2> QED
    BY <2>3, <2>4
<1>10. ClimbsNobody(p, q, a)
  BY <1>8, <1>9 DEF ClimbsNobody
<1> QED
  BY <1>10 DEF q

LEMMA BindingsClimbNobody ==
    ASSUME NEW p, RealmStands(p), NEW a \in Subjects, NEW m \in Mutations, Permitted(p, a, m),
           m.op \in BindingOps
    PROVE  ClimbsNobody(p, Applied(p, m), a)
<1> DEFINE q == Applied(p, m)
           before == IF m.op = "binding.create" THEN {} ELSE {p.bindings[m.id]}
           after == IF m.op = "binding.delete" THEN {} ELSE {m.value}
           bs == before \cup after
<1>1. /\ q.subjects = p.subjects /\ q.levels = p.levels /\ q.groups = p.groups
      /\ q.roles = p.roles /\ q.bindings = Change(p.bindings, m)
  BY AppliedIs, KindsDiffer
<1>2. MayChangeBinding(p, a, m) /\ a # FullAccess
  BY KindsDiffer, KernelAssumption DEF Permitted
<1>3. IsPartial(p.bindings, BindingIds, BindingRecord)
  BY Standing
<1>4. m.op \in DeleteOps \/ (m.id \in BindingIds /\ m.value \in BindingRecord)
  BY MutationAssumption, KindsDiffer
<1>5. m.op \in DeleteOps <=> m.op = "binding.delete"
  BY DEF BindingOps, DeleteOps
<1>6. Differs(p.bindings, q.bindings, m)
  BY <1>1, <1>3, <1>4, ChangeIsPartial
<1>7. MayAssign(p, a, bs)
  BY <1>2 DEF MayChangeBinding
<1>8. Manages(p, a, "role.assign", "target-binding", {b.scope : b \in bs},
              {RankOf(p, p.roles[b.role]) : b \in bs},
              UNION {p.roles[b.role].permissions : b \in bs})
  BY <1>7, Zenon DEF MayAssign
<1>9. \A b \in bs : b \in BindingRecord
  <2>1. m.op # "binding.create" => m.id \in DOMAIN p.bindings
    BY <1>2 DEF MayChangeBinding
  <2>2. m.op # "binding.create" => p.bindings[m.id] \in BindingRecord
    BY <1>3, <2>1 DEF IsPartial
  <2> QED
    BY <1>4, <1>5, <2>2
<1> HIDE DEF q
<1>10. {b.scope : b \in bs} \subseteq Scope
  <2> HIDE DEF bs
  <2> QED
    BY <1>9 DEF BindingRecord
(* What the new row brings, the actor holds.                               *)
<1>11. ASSUME m.op \notin DeleteOps
       PROVE  /\ \A x \in Permissions \X Resources :
                    x[1] \in p.roles[m.value.role].permissions /\ ScopeApplies(m.value.scope, x[2])
                    => x \in Sure(p, a)
              /\ \E j \in Ranks(p, a) : RankOf(p, p.roles[m.value.role]) < j
  <2>1. m.value \in bs
    BY <1>5, <1>11
  <2> DEFINE scopes == {b.scope : b \in bs}
             ranks == {RankOf(p, p.roles[b.role]) : b \in bs}
             affected == UNION {p.roles[b.role].permissions : b \in bs}
  <2>2. /\ m.value.scope \in scopes
        /\ RankOf(p, p.roles[m.value.role]) \in ranks
        /\ p.roles[m.value.role].permissions \subseteq affected
    <3> HIDE DEF bs
    <3> QED
      BY <2>1
  <2>3. /\ Manages(p, a, "role.assign", "target-binding", scopes, ranks, affected)
        /\ scopes \subseteq Scope
    BY <1>8, <1>10
  <2> HIDE DEF scopes, ranks, affected
  <2>4. /\ \A x \in Permissions \X Resources, c \in scopes :
              x[1] \in affected /\ ScopeApplies(c, x[2]) => x \in Sure(p, a)
        /\ \A k \in ranks : \E j \in Ranks(p, a) : k < j
    BY <2>3, ManagersHold
  <2> QED
    BY <2>2, <2>4
<1>12. ASSUME NEW s, NEW b \in EffectiveBindings(q, s)
       PROVE  \/ b \in EffectiveBindings(p, s) /\ q.bindings[b] = p.bindings[b]
              \/ m.op \notin DeleteOps /\ q.bindings[b] = m.value
  BY <1>1, <1>6, <1>12 DEF EffectiveBindings, Differs
<1>13. ASSUME NEW s, NEW x \in Potential(q, s)
       PROVE  x \in Potential(p, s) \cup Sure(p, a)
  <2>1. PICK b \in EffectiveBindings(q, s) :
           /\ x[1] \in p.roles[q.bindings[b].role].permissions
           /\ ScopeApplies(q.bindings[b].scope, x[2])
    BY <1>1, <1>13 DEF Potential, PermissionsOf
  <2>2. x \in Permissions \X Resources
    BY <1>13 DEF Potential
  <2>3. CASE b \in EffectiveBindings(p, s) /\ q.bindings[b] = p.bindings[b]
    BY <2>1, <2>2, <2>3 DEF Potential, PermissionsOf
  <2>4. CASE m.op \notin DeleteOps /\ q.bindings[b] = m.value
    BY <1>11, <2>1, <2>2, <2>4
  <2> QED
    BY <1>12, <2>3, <2>4
<1>14. ASSUME NEW s, NEW k \in Ranks(q, s), k \notin Ranks(p, s)
       PROVE  \E j \in Ranks(p, a) : k < j
  <2>1. PICK b \in EffectiveBindings(q, s) : k = RankOf(p, p.roles[q.bindings[b].role])
    BY <1>1, <1>14 DEF Ranks, SourceRank, RankOf
  <2>2. CASE b \in EffectiveBindings(p, s) /\ q.bindings[b] = p.bindings[b]
    BY <1>14, <2>1, <2>2 DEF Ranks, SourceRank
  <2>3. CASE m.op \notin DeleteOps /\ q.bindings[b] = m.value
    BY <1>11, <2>1, <2>3
  <2> QED
    BY <1>12, <2>2, <2>3
<1>15. ClimbsNobody(p, q, a)
  BY <1>13, <1>14 DEF ClimbsNobody
<1> QED
  BY <1>15 DEF q

-----------------------------------------------------------------------------
(* The register *)

(* A policy that a server holds is one the store had, and the current one  *)
(* if the revision is the current one.                                     *)
Held(p) == /\ p.revision \in Nat /\ p.revision <= policy.revision
           /\ p.revision = policy.revision => p = policy

JobOK(j) ==
    /\ j.step = "commit" =>
         /\ j.actor \in Actors /\ j.mutation \in Mutations
         /\ j.expected \in Nat /\ j.expected < workload.last /\ j.expected <= policy.revision
         /\ j.expected = policy.revision => Permitted(policy, j.actor, j.mutation)
    /\ j.step = "reply" => Held(j.persisted)

RegisterInv ==
    /\ RealmStands(policy) /\ policy.revision <= MaxRevision /\ audit.actor \in Actors
    /\ workload \in Workloads
    /\ DOMAIN cache = Servers /\ DOMAIN job = Servers
    /\ \A sv \in Servers : cache[sv] # None => Held(cache[sv])
    /\ \A sv \in Servers : JobOK(job[sv])

(* A decision is taken from the stored policy: the cached one is used only *)
(* when it is of the current revision.                                     *)
LEMMA LoadIsCurrent ==
    ASSUME RegisterInv, NEW sv \in Servers
    PROVE  Load(sv) = policy
BY DEF RegisterInv, Load, Held

LEMMA RegisterInitInv == RegisterInit => RegisterInv
<1> SUFFICES ASSUME RegisterInit PROVE RegisterInv
  OBVIOUS
<1>1. \A sv \in Servers : cache[sv] = None /\ job[sv] = Idle
  BY DEF RegisterInit
<1>2. Idle.step # "commit" /\ Idle.step # "reply"
  BY DEF Idle
<1> QED
  BY <1>1, <1>2, InitialAssumption DEF RegisterInit, RegisterInv, Init, Row, Actors, JobOK

(* The realm is at the same or at the next revision.                       *)
Advances ==
    /\ RealmStands(policy') /\ policy'.revision <= MaxRevision /\ audit'.actor \in Actors
    /\ \/ policy' = policy
       \/ policy'.revision = policy.revision + 1

(* What was held or asked for before stays so.                             *)
LEMMA OthersStay ==
    ASSUME RegisterInv, Advances, UNCHANGED workload
    PROVE  /\ \A x : Held(x) => Held(x)'
           /\ \A sv \in Servers : job'[sv] = job[sv] => JobOK(job[sv])'
<1>1. policy.revision \in Nat /\ policy'.revision \in Nat
  BY Standing DEF RegisterInv, Advances
<1>2. ASSUME NEW x, Held(x)
      PROVE  Held(x)'
  BY <1>1, <1>2 DEF Advances, Held
<1>3. ASSUME NEW sv \in Servers, job'[sv] = job[sv]
      PROVE  JobOK(job[sv])'
  <2>1. JobOK(job[sv])
    BY DEF RegisterInv
  <2>2. Held(job[sv].persisted) => /\ job[sv].persisted.revision \in Nat
                                   /\ job[sv].persisted.revision <= policy'.revision
                                   /\ job[sv].persisted.revision = policy'.revision
                                      => job[sv].persisted = policy'
    BY <1>1 DEF Held, Advances
  <2>3. job[sv].step = "commit" =>
         /\ job[sv].actor \in Actors /\ job[sv].mutation \in Mutations
         /\ job[sv].expected \in Nat /\ job[sv].expected < workload.last
         /\ job[sv].expected <= policy'.revision
         /\ job[sv].expected = policy'.revision => Permitted(policy', job[sv].actor, job[sv].mutation)
    BY <1>1, <2>1 DEF JobOK, Advances
  <2> QED
    BY <1>3, <2>1, <2>2, <2>3 DEF JobOK, Held
<1> QED
  BY <1>2, <1>3

LEMMA DecideInv ==
    ASSUME RegisterInv, UNCHANGED workload, NEW sv \in Servers, NEW a \in Actors,
           NEW m \in Mutations, Decide(sv, a, m)
    PROVE  RegisterInv' /\ Advances
<1>1. Load(sv) = policy
  BY LoadIsCurrent
<1>2. /\ Permitted(policy, a, m) /\ policy.revision < workload.last
      /\ cache' = [cache EXCEPT ![sv] = policy]
      /\ job' = [job EXCEPT ![sv] = [step |-> "commit", actor |-> a, mutation |-> m,
                                     expected |-> policy.revision]]
      /\ policy' = policy /\ audit' = audit
  BY <1>1 DEF Decide, register
<1>3. Advances
  BY <1>2 DEF Advances, RegisterInv
<1>4. policy.revision \in Nat
  BY Standing DEF RegisterInv
<1>5. ASSUME NEW tv \in Servers, cache'[tv] # None
      PROVE  Held(cache[tv])'
  BY <1>2, <1>4, <1>5 DEF RegisterInv, Held
<1>6. ASSUME NEW tv \in Servers
      PROVE  JobOK(job[tv])'
  <2>1. CASE tv = sv
    BY <1>2, <1>4, <2>1 DEF JobOK, RegisterInv
  <2>2. CASE tv # sv
    BY <1>2, <1>3, <2>2, OthersStay DEF RegisterInv
  <2> QED
    BY <2>1, <2>2
<1> QED
  BY <1>2, <1>3, <1>5, <1>6 DEF RegisterInv, Advances

(* A mutation whose expected revision is still the current one was decided *)
(* on the stored policy, so what is committed is permitted by it.          *)
LEMMA CommitIsPermitted ==
    ASSUME RegisterInv, NEW sv \in Servers, Commit(sv), RevisionIsExpected(sv)
    PROVE  /\ job[sv].actor \in Actors /\ job[sv].mutation \in Mutations
           /\ policy.revision < MaxRevision
           /\ Permitted(policy, job[sv].actor, job[sv].mutation)
           /\ policy' = Applied(policy, job[sv].mutation)
           /\ audit' = Row(job[sv].actor, job[sv].mutation)
           /\ job' = [job EXCEPT ![sv] = [step |-> "reply", persisted |-> policy']]
           /\ cache' = cache
<1>1. job[sv].step = "commit" /\ JobOK(job[sv]) /\ policy.revision = job[sv].expected
  BY DEF Commit, RegisterInv, RevisionIsExpected
<1>2. workload.last \in Nat /\ workload.last <= MaxRevision
  BY WorkloadAssumption, InitialAssumption DEF RegisterInv
<1>3. policy.revision \in Nat
  BY Standing DEF RegisterInv
<1> QED
  BY <1>1, <1>2, <1>3, InitialAssumption DEF JobOK, Commit

LEMMA CommitInv ==
    ASSUME RegisterInv, UNCHANGED workload, NEW sv \in Servers, Commit(sv)
    PROVE  RegisterInv' /\ Advances
<1>1. policy.revision \in Nat
  BY Standing DEF RegisterInv
<1>2. CASE RevisionIsExpected(sv)
  <2>1. /\ policy' = Applied(policy, job[sv].mutation)
        /\ audit' = Row(job[sv].actor, job[sv].mutation)
        /\ job[sv].actor \in Actors /\ policy.revision < MaxRevision
        /\ job' = [job EXCEPT ![sv] = [step |-> "reply", persisted |-> policy']]
        /\ cache' = cache
    BY <1>2, CommitIsPermitted
  <2>2. RealmStands(policy') /\ policy'.revision = policy.revision + 1
    BY <1>2, <2>1, CommitIsPermitted, MutationsKeepTheRealm DEF RegisterInv
  <2>3. Advances
    BY <1>1, <2>1, <2>2, InitialAssumption DEF Advances, Row
  <2>4. ASSUME NEW tv \in Servers, cache'[tv] # None
        PROVE  Held(cache[tv])'
    <3>1. cache[tv] # None /\ Held(cache[tv])
      BY <2>1, <2>4 DEF RegisterInv
    <3> QED
      BY <1>1, <2>1, <2>2, <3>1 DEF Held
  <2>5. ASSUME NEW tv \in Servers
        PROVE  JobOK(job[tv])'
    <3>1. CASE tv = sv
      BY <1>1, <2>1, <2>2, <3>1 DEF JobOK, Held, RegisterInv
    <3>2. CASE tv # sv
      BY <2>1, <2>3, <3>2, OthersStay DEF RegisterInv
    <3> QED
      BY <3>1, <3>2
  <2> QED
    BY <2>1, <2>3, <2>4, <2>5 DEF RegisterInv, Advances
<1>3. CASE ~RevisionIsExpected(sv)
  <2>1. /\ policy' = policy /\ audit' = audit /\ cache' = cache
        /\ job' = [job EXCEPT ![sv] = Idle]
    BY <1>3 DEF Commit, register
  <2>2. Idle.step = "idle"
    BY DEF Idle
  <2>3. \A tv \in Servers : JobOK(job[tv])'
    BY <2>1, <2>2 DEF JobOK, RegisterInv, Held
  <2>4. \A tv \in Servers : cache'[tv] # None => Held(cache[tv])'
    BY <2>1 DEF RegisterInv, Held
  <2> QED
    BY <2>1, <2>3, <2>4 DEF RegisterInv, Advances
<1> QED
  BY <1>2, <1>3

(* A reply, a lost one and a restart change nothing but what a server      *)
(* holds and works on.                                                     *)
LEMMA ServerInv ==
    ASSUME RegisterInv, UNCHANGED workload, NEW sv \in Servers,
           Reply(sv) \/ LoseReply(sv) \/ Restart(sv)
    PROVE  RegisterInv' /\ Advances
<1>1. policy' = policy /\ audit' = audit
  BY DEF Reply, LoseReply, Restart, register
<1>2. \E c : /\ DOMAIN cache' = Servers
             /\ \A tv \in Servers : cache'[tv] = IF tv = sv THEN c ELSE cache[tv]
             /\ c # None => Held(c)
  <2>1. CASE Reply(sv)
    BY <2>1 DEF Reply, RegisterInv, JobOK
  <2>2. CASE LoseReply(sv)
    BY <2>2 DEF LoseReply, RegisterInv
  <2>3. CASE Restart(sv)
    BY <2>3 DEF Restart, RegisterInv
  <2> QED
    BY <2>1, <2>2, <2>3
<1>3. job' = [job EXCEPT ![sv] = Idle]
  BY DEF Reply, LoseReply, Restart
<1>4. Idle.step = "idle"
  BY DEF Idle
<1>5. \A tv \in Servers : JobOK(job[tv])'
  BY <1>1, <1>3, <1>4 DEF JobOK, RegisterInv, Held
<1>6. \A tv \in Servers : cache'[tv] # None => Held(cache[tv])'
  BY <1>1, <1>2 DEF RegisterInv, Held
<1> QED
  BY <1>1, <1>2, <1>3, <1>5, <1>6 DEF RegisterInv, Advances

LEMMA BumpInv ==
    ASSUME RegisterInv, UNCHANGED workload, BumpSubjectPolicy
    PROVE  RegisterInv' /\ Advances
<1>1. policy.revision \in Nat
  BY Standing DEF RegisterInv
<1>2. /\ policy' = [policy EXCEPT !.revision = @ + 1] /\ policy.revision < workload.last
      /\ audit' = Row(CmsOwner, IdentityMutation) /\ cache' = cache /\ job' = job
  BY DEF BumpSubjectPolicy
<1>3. workload.last \in Nat /\ workload.last <= MaxRevision
  BY WorkloadAssumption, InitialAssumption DEF RegisterInv
<1>4. RealmStands(policy') /\ policy'.revision = policy.revision + 1
  BY <1>2, BumpsKeepTheRealm DEF RegisterInv
<1>5. audit'.actor \in Actors
  BY <1>2 DEF Row, Actors
<1>6. Advances
  BY <1>1, <1>2, <1>3, <1>4, <1>5, InitialAssumption DEF Advances
<1>7. \A tv \in Servers : JobOK(job[tv])'
  BY <1>2, <1>6, OthersStay
<1>8. ASSUME NEW tv \in Servers, cache'[tv] # None
      PROVE  Held(cache[tv])'
  <2>1. Held(cache[tv])
    BY <1>2, <1>8 DEF RegisterInv
  <2> QED
    BY <1>1, <1>2, <1>4, <2>1 DEF Held
<1> QED
  BY <1>2, <1>6, <1>7, <1>8 DEF RegisterInv, Advances

LEMMA RegisterNextInv ==
    ASSUME RegisterInv, [RegisterNext]_rvars
    PROVE  RegisterInv' /\ Advances
<1>1. CASE RegisterNext
  <2>1. UNCHANGED workload /\ workload.servers \subseteq Servers /\ workload.mutations \subseteq Mutations
    BY <1>1, WorkloadAssumption DEF RegisterNext, RegisterInv
  <2>2. ASSUME NEW sv \in workload.servers, NEW a \in Actors, NEW m \in workload.mutations,
               Decide(sv, a, m)
        PROVE  RegisterInv' /\ Advances
    BY <2>1, <2>2, DecideInv
  <2>3. ASSUME NEW sv \in workload.servers,
               Commit(sv) \/ Reply(sv) \/ LoseReply(sv) \/ Restart(sv)
        PROVE  RegisterInv' /\ Advances
    BY <2>1, <2>3, CommitInv, ServerInv
  <2>4. CASE BumpSubjectPolicy
    BY <2>1, <2>4, BumpInv
  <2> QED
    BY <1>1, <2>2, <2>3, <2>4 DEF RegisterNext
<1>2. CASE UNCHANGED rvars
  BY <1>2 DEF rvars, RegisterInv, Advances, Held, JobOK
<1> QED
  BY <1>1, <1>2

(* RegisterInvariance: what a server decides on, or has cached, is the     *)
(* stored policy whenever its revision is the current one, and the realm   *)
(* keeps its root and its owner (mutatePolicyInTransaction, load).         *)
THEOREM RegisterInvariance == RegisterSpec => []RegisterInv
<1>1. RegisterInv /\ [RegisterNext]_rvars => RegisterInv'
  BY RegisterNextInv
<1> QED
  BY <1>1, RegisterInitInv, PTL DEF RegisterSpec

(* RootRemains: whatever the servers do with old policies, the realm keeps *)
(* a root that can manage, at most one owner, and tables of their types.   *)
THEOREM RootRemains == RegisterSpec => []RootStands
<1>1. RegisterInv => RootStands
  BY RootManages DEF RegisterInv, RootStands, TypeOK, RealmStands
<1> QED
  BY <1>1, RegisterInvariance, PTL

LEMMA ReachedIsApplied ==
    ASSUME NEW scope \in Scope, NEW r \in Resources
    PROVE  r \in Reached(scope) <=> ScopeApplies(scope, r)
<1>1. CASE scope.propagation = "self"
  BY <1>1 DEF Reached, ScopeApplies, Scope
<1>2. CASE scope.propagation = "children"
  BY <1>2 DEF Reached, ScopeApplies, Scope
<1>3. CASE scope.propagation = Everywhere
  BY <1>3 DEF Reached, ScopeApplies, Scope, Everywhere
<1> QED
  BY <1>1, <1>2, <1>3 DEF Scope

(* The kernel decides as a policy that stands is defined.                  *)
LEMMA KernelDecides ==
    ASSUME RealmStands(policy)
    PROVE  DecidesAsDefined
<1> SUFFICES ASSUME NEW s \in DOMAIN policy.subjects,
                    NEW action \in {q \in Permissions : Guard[q] = "none"},
                    NEW r \in Resources, NEW met \in BOOLEAN
             PROVE  LET principals == PrincipalsByDefinition(policy, s)
                        bindings == {policy.bindings[b] : b \in DOMAIN policy.bindings}
                        inForce == {c \in bindings : c.active /\ c.subject \in principals}
                    IN EvaluateAccess(policy, s, action, r, met) <=>
                         /\ CanAct(policy, s)
                         /\ \E c \in inForce : /\ action \in policy.roles[c.role].permissions
                                               /\ met \/ ~c.constrained
                                               /\ r \in Reached(c.scope)
  BY DEF DecidesAsDefined
<1> DEFINE principals == PrincipalsByDefinition(policy, s)
           bindings == {policy.bindings[b] : b \in DOMAIN policy.bindings}
           inForce == {c \in bindings : c.active /\ c.subject \in principals}
           Grants(c) == /\ c.active /\ c.subject \in principals
                        /\ action \in policy.roles[c.role].permissions
                        /\ met \/ ~c.constrained
                        /\ r \in Reached(c.scope)
<1>1. Principals(policy.groups, policy.subjects, s) = principals
  BY GroupsAreFinite, PrincipalsAreDefined DEF RealmStands
<1>2. \A b \in DOMAIN policy.bindings : policy.bindings[b].scope \in Scope
  BY Standing DEF IsPartial, BindingRecord
<1>3. \A b : b \in MatchedGrants(policy, s, action, r, met) <=>
             b \in DOMAIN policy.bindings /\ Grants(policy.bindings[b])
  BY <1>1, <1>2, ReachedIsApplied DEF MatchedGrants, EffectiveBindings, PermissionsOf
<1>4. MatchedGrants(policy, s, action, r, met) # {} <=>
        \E b \in DOMAIN policy.bindings : Grants(policy.bindings[b])
  BY <1>3
<1>5. (\E b \in DOMAIN policy.bindings : Grants(policy.bindings[b])) <=>
        (\E c \in inForce : /\ action \in policy.roles[c.role].permissions
                            /\ met \/ ~c.constrained
                            /\ r \in Reached(c.scope))
  <2> HIDE DEF principals
  <2> QED
    OBVIOUS
<1>6. EvaluateAccess(policy, s, action, r, met) <=>
        CanAct(policy, s) /\ MatchedGrants(policy, s, action, r, met) # {}
  BY DEF EvaluateAccess
<1> HIDE DEF principals, inForce, Grants
<1> QED
  BY <1>4, <1>5, <1>6 DEF principals, inForce

(* DecisionsAreThePolicys: what servers decide from was committed, and     *)
(* what the kernel decides is what the policy means: a binding in force of *)
(* a principal reaches the resource with a role that has the permission    *)
(* (evaluateAccess, AuthorizationPolicyContext.load).                      *)
THEOREM DecisionsAreThePolicys == RegisterSpec => []DecidesByThePolicy
<1>1. RegisterInv => RootStands
  BY RootManages DEF RegisterInv, RootStands, TypeOK, RealmStands
<1>2. ASSUME RegisterInv, NEW sv \in Servers
      PROVE  RootIsSound(Load(sv))
  BY <1>2, LoadIsCurrent DEF RegisterInv, RealmStands
<1>3. RegisterInv => CachesAreRevisions
  BY <1>1, <1>2 DEF RegisterInv, CachesAreRevisions, Held
<1>4. RegisterInv => DecidesByThePolicy
  BY <1>3, KernelDecides DEF DecidesByThePolicy, RegisterInv
<1> QED
  BY <1>4, RegisterInvariance, PTL

(* A step of the servers is a step of the authority, a bump or none.       *)
LEMMA StepOfAuthority ==
    ASSUME RegisterInv, [RegisterNext]_rvars
    PROVE  \/ /\ audit'.actor \in Actors /\ audit'.mutation \in Mutations
              /\ Mutate(audit'.actor, audit'.mutation)
           \/ /\ audit'.mutation = IdentityMutation
              /\ policy' = [policy EXCEPT !.revision = @ + 1]
           \/ UNCHANGED vars
<1>1. ASSUME NEW sv \in Servers, Commit(sv), RevisionIsExpected(sv)
      PROVE  /\ audit'.actor \in Actors /\ audit'.mutation \in Mutations
             /\ Mutate(audit'.actor, audit'.mutation)
  <2>1. audit' = Row(job[sv].actor, job[sv].mutation)
    BY <1>1, CommitIsPermitted
  <2>2. audit'.actor = job[sv].actor /\ audit'.mutation = job[sv].mutation
    BY <2>1 DEF Row
  <2> QED
    BY <1>1, <2>1, <2>2, CommitIsPermitted DEF Mutate
<1>2. ASSUME NEW sv \in Servers, Commit(sv), ~RevisionIsExpected(sv)
      PROVE  UNCHANGED vars
  BY <1>2 DEF Commit, register, vars
<1>3. ASSUME NEW sv \in Servers, Reply(sv) \/ LoseReply(sv) \/ Restart(sv)
      PROVE  UNCHANGED vars
  BY <1>3 DEF Reply, LoseReply, Restart, register, vars
<1>4. ASSUME NEW sv, NEW a, NEW m, Decide(sv, a, m)
      PROVE  UNCHANGED vars
  BY <1>4 DEF Decide, register, vars
<1>5. CASE BumpSubjectPolicy
  BY <1>5 DEF BumpSubjectPolicy, Row
<1>6. CASE UNCHANGED rvars
  BY <1>6 DEF rvars, vars
<1>7. CASE RegisterNext
  <2>1. workload.servers \subseteq Servers
    BY WorkloadAssumption DEF RegisterInv
  <2> QED
    BY <1>1, <1>2, <1>3, <1>4, <1>5, <1>7, <2>1 DEF RegisterNext
<1> QED
  BY <1>6, <1>7

(* RegisterIsTheAuthority: servers that decide on cached policies and      *)
(* commit later implement one policy that is changed one permitted         *)
(* mutation at a time (loadForMutation, mutatePolicyInTransaction).        *)
THEOREM RegisterIsTheAuthority == RegisterSpec => ImplementsAuthority
<1>1. RegisterInit => Init
  BY DEF RegisterInit
<1>2. RegisterInv /\ [RegisterNext]_rvars =>
        [\/ /\ audit'.actor \in Actors /\ audit'.mutation \in Mutations
            /\ Mutate(audit'.actor, audit'.mutation)
         \/ /\ audit'.mutation = IdentityMutation
            /\ policy' = [policy EXCEPT !.revision = @ + 1]]_vars
  BY StepOfAuthority
<1> QED
  BY <1>1, <1>2, RegisterInvariance, PTL DEF RegisterSpec, ImplementsAuthority

(* NobodyEverClimbs: a subject that changes a role or a binding gives      *)
(* nobody what it does not surely hold, nor a rank as high as its own,     *)
(* through whatever groups, scopes and stale decisions                     *)
(* (authorizeManagement).                                                  *)
THEOREM NobodyEverClimbs == RegisterSpec => NobodyClimbs
<1>1. ASSUME RegisterInv, [RegisterNext]_rvars
      PROVE  [audit'.mutation.op \in RoleOps \cup BindingOps /\ audit'.actor \in Subjects /\ policy' # policy
              => ClimbsNobody(policy, policy', audit'.actor)]_vars
  <2> SUFFICES ASSUME audit'.mutation.op \in RoleOps \cup BindingOps, audit'.actor \in Subjects,
                      policy' # policy
               PROVE  ClimbsNobody(policy, policy', audit'.actor)
    OBVIOUS
  <2>1. IdentityMutation.op \notin RoleOps \cup BindingOps
    BY DEF IdentityMutation, RoleOps, BindingOps
  <2>2. audit'.mutation \in Mutations /\ Mutate(audit'.actor, audit'.mutation)
    BY <1>1, <2>1, StepOfAuthority DEF vars
  <2>3. /\ RealmStands(policy) /\ Permitted(policy, audit'.actor, audit'.mutation)
        /\ policy' = Applied(policy, audit'.mutation)
    BY <1>1, <2>2 DEF RegisterInv, Mutate
  <2> QED
    BY <2>2, <2>3, RolesClimbNobody, BindingsClimbNobody
<1>2. RegisterInv /\ [RegisterNext]_rvars =>
        [audit'.mutation.op \in RoleOps \cup BindingOps /\ audit'.actor \in Subjects /\ policy' # policy
         => ClimbsNobody(policy, policy', audit'.actor)]_vars
  BY <1>1
<1> QED
  BY <1>2, RegisterInvariance, PTL DEF RegisterSpec, NobodyClimbs

=============================================================================
