-------------------------- MODULE MCPolicyRegister --------------------------
(* A realm after provisioning and a first round of assignments: ann owns   *)
(* it, bob manages roles and bindings, cal is in a group of editors.  One  *)
(* server is asked anything, or two servers are asked little at once.      *)
EXTENDS PolicyRegister, TLC

CONSTANTS s1, s2
ServersDef == {s1, s2}
Symmetry == Permutations(ServersDef)

SubjectsDef == {"sys", "ann", "bob", "cal", "grp"}
LevelsDef == {SystemRoot, Owner, "administrator", "editor"}
RolesDef == {SystemRoot, Owner, "manager", "editor", "aux"}
BindingsDef == {SystemRoot, PrimaryOwner, "bob", "grp", "new"}
MembershipsDef == {"m1", "m2"}
ResourcesDef == {"realm", "posts", "post"}
AboveDef == [r \in ResourcesDef |->
    IF r = "realm" THEN {} ELSE IF r = "posts" THEN {"realm"} ELSE {"realm", "posts"}]
PermissionsDef == {Manage, "edit", "role.create", "role.update", "role.delete", "role.assign"}
GuardDef == [q \in PermissionsDef |->
    IF q = "role.assign" THEN "target-binding"
    ELSE IF q \in {Manage, "edit"} THEN "none" ELSE "target-role"]
DelegatableDef == PermissionsDef \ {Manage}

Person(type) == [type |-> type, protected |-> FALSE, disabled |-> FALSE,
                 identity |-> IF type = "user" THEN "person" ELSE "none"]
Role(l, q, d, p) == [level |-> l, permissions |-> q, delegates |-> d, protected |-> p]
Binding(s, r, res, prop) ==
    [subject |-> s, role |-> r, scope |-> [resource |-> res, propagation |-> prop],
     active |-> TRUE, constrained |-> FALSE, protected |-> FALSE]

InitialPolicyDef ==
    [revision |-> 1,
     subjects |-> [s \in SubjectsDef |->
        IF s = "sys" THEN [type |-> "service-account", protected |-> TRUE,
                           disabled |-> FALSE, identity |-> "none"]
        ELSE Person(IF s = "grp" THEN "group" ELSE "user")],
     levels |-> [l \in LevelsDef |->
        [rank |-> IF l = SystemRoot THEN 110 ELSE IF l = Owner THEN 100
                  ELSE IF l = "administrator" THEN 80 ELSE 40,
         protected |-> l \in {SystemRoot, Owner}]],
     roles |-> [r \in RolesDef \ {"aux"} |->
        IF r \in {SystemRoot, Owner} THEN Role(r, PermissionsDef, DelegatableDef, TRUE)
        ELSE IF r = "manager"
        THEN Role("administrator", DelegatableDef, {"edit", "role.assign"}, FALSE)
        ELSE Role("editor", {"edit"}, {}, FALSE)],
     bindings |-> [b \in BindingsDef \ {"new"} |->
        IF b = SystemRoot
        THEN [Binding("sys", SystemRoot, "realm", Everywhere) EXCEPT !.protected = TRUE]
        ELSE IF b = PrimaryOwner THEN OwnerBinding("ann")
        ELSE IF b = "bob" THEN Binding("bob", "manager", "realm", Everywhere)
        ELSE Binding("grp", "editor", "posts", "children")],
     groups |-> [m \in {"m1"} |-> [member |-> "cal", group |-> "grp"]]]

Create(table, id, v) == [op |-> table, id |-> id, value |-> v]
MutationsDef ==
    {Create("role.create", "aux", Role("editor", {"edit", "role.assign"}, {"edit"}, FALSE)),
     Create("role.update", "editor", Role("editor", {"edit", "role.assign"}, {"edit"}, FALSE)),
     Create("role.update", "aux", Role("administrator", {"edit"}, {}, FALSE)),
     [op |-> "role.delete", id |-> "aux"],
     Create("binding.create", "new", Binding("cal", "aux", "posts", Everywhere)),
     Create("binding.create", "new", Binding("grp", "manager", "posts", "self")),
     Create("binding.update", "grp", Binding("grp", "editor", "realm", Everywhere)),
     Create("binding.update", "bob",
            [Binding("bob", "manager", "posts", Everywhere) EXCEPT !.constrained = TRUE]),
     Create("binding.update", "new", [Binding("cal", "editor", "post", "self") EXCEPT !.active = FALSE]),
     [op |-> "binding.delete", id |-> "grp"],
     [op |-> "binding.delete", id |-> SystemRoot],
     Create("level.update", "editor", [rank |-> 90, protected |-> FALSE]),
     Create("level.update", "editor", [rank |-> 100, protected |-> FALSE]),
     Create("subject.update", "grp", [Person("group") EXCEPT !.disabled = TRUE]),
     Create("subject.update", "ann", [Person("user") EXCEPT !.disabled = TRUE]),
     Create("membership.create", "m2", [member |-> "bob", group |-> "grp"]),
     [op |-> "membership.delete", id |-> "m1"],
     [op |-> "owner.transfer", id |-> "bob"],
     [op |-> "owner.recover", id |-> "cal"]}

FewMutations ==
    {Create("role.update", "editor", Role("editor", {"edit", "role.assign"}, {"edit"}, FALSE)),
     Create("binding.create", "new", Binding("cal", "editor", "posts", Everywhere)),
     Create("subject.update", "grp", [Person("group") EXCEPT !.disabled = TRUE]),
     [op |-> "binding.delete", id |-> "new"],
     [op |-> "owner.transfer", id |-> "bob"]}
AllMutations == MutationsDef \cup FewMutations

WorkloadsDef ==
    {[servers |-> {s}, mutations |-> MutationsDef, bumps |-> FALSE, last |-> 5] : s \in Servers}
    \cup {[servers |-> Servers, mutations |-> FewMutations, bumps |-> TRUE, last |-> 4]}
=============================================================================
