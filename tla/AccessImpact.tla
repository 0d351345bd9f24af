---------------------------- MODULE AccessImpact ----------------------------
(***************************************************************************)
(* What a policy lets a subject do with a document and its fields, and     *)
(* what moving a document in the resource tree does to that.               *)
(*                                                                         *)
(* Documents inherit: a binding or a field rule above a document reaches   *)
(* it.  An editor may move documents without managing the authorization,   *)
(* as long as the move does not change what bindings and rules cover.  The *)
(* server judges that by the moved document and the bindings below it, on  *)
(* the policy it has, and projects the tree afterwards, if the revision is *)
(* still the same.                                                         *)
(***************************************************************************)
EXTENDS PolicyTables

CONSTANT Fields

Action == "content.read"

(* createKernelSnapshot: the policy, the groups above each subject, and    *)
(* what is below each resource.                                            *)
KernelSnapshot(p) ==
    LET above == Chains(DOMAIN p.subjects, GroupEdges(p.members))
        below == Below(DOMAIN p.resources, TreeEdges(p.resources))
    IN [policy |-> p,
        principals |-> [s \in DOMAIN p.subjects |-> {g \in DOMAIN p.subjects : <<g, s>> \in above}],
        below |-> [r \in DOMAIN p.resources |-> {x \in DOMAIN p.resources : <<r, x>> \in below}]]

(* scopeAppliesToResource                                                  *)
AppliesTo(k, resource, propagation, r) ==
    \/ resource = r /\ propagation # "children"
    \/ r \in k.below[resource] /\ propagation # "self"

BindingAppliesTo(k, b, r) ==
    AppliesTo(k, k.policy.bindings[b].resource, k.policy.bindings[b].propagation, r)

RelevantBindings(k, s, action, r) ==
    {b \in DOMAIN k.policy.bindings :
        /\ k.policy.bindings[b].subject \in k.principals[s]
        /\ action \in k.policy.roles[k.policy.bindings[b].role].permissions
        /\ BindingAppliesTo(k, b, r)}

IsAllowed(k, s, action, r) == RelevantBindings(k, s, action, r) # {}

RulesFor(k, role, r) ==
    LET fields == k.policy.roles[role].fields
    IN IF fields = Unrestricted THEN {}
       ELSE {x \in DOMAIN fields : AppliesTo(k, x, "self-and-children", r)}

(* evaluateFieldAccess: a grant without a rule that applies is whole.      *)
IsFieldAllowed(k, s, r, field) ==
    \E b \in RelevantBindings(k, s, Action, r) :
        LET role == k.policy.bindings[b].role IN
        \/ RulesFor(k, role, r) = {}
        \/ \E x \in RulesFor(k, role, r) : field \in k.policy.roles[role].fields[x]

(* filterReadableData                                                      *)
ReadableFields(k, s, r) == {f \in Fields : IsFieldAllowed(k, s, r, f)}

Subtree(k, r) == {r} \cup k.below[r]

MoveOf(p, r, parent) ==
    [op |-> "reconcile", table |-> "resources", deletes |-> {},
     upserts |-> [x \in {r} |-> [p.resources[r] EXCEPT !.parent = parent]]]

\* Mutant of CoverageChanges: field rules are no matter of coverage.
BindingCoverageChanges(k, n, r) ==
    \E b \in DOMAIN k.policy.bindings :
        \/ k.policy.bindings[b].resource \in Subtree(k, r)
        \/ BindingAppliesTo(k, b, r) # BindingAppliesTo(n, b, r)

(* previewResourceParentChange, from kernel k to n: what the move changes  *)
(* for the document itself; what is attached below it counts as a change.  *)
CoverageChanges(k, n, r) ==
    \/ \E b \in DOMAIN k.policy.bindings :
         \/ k.policy.bindings[b].resource \in Subtree(k, r)
         \/ BindingAppliesTo(k, b, r) # BindingAppliesTo(n, b, r)
    \/ \E role \in DOMAIN k.policy.roles :
         \/ RulesFor(k, role, r) # RulesFor(n, role, r)
         \/ /\ k.policy.roles[role].fields # Unrestricted
            /\ DOMAIN k.policy.roles[role].fields \cap Subtree(k, r) # {}

(* What the preview lists for those who may see it.                        *)
EffectiveChanges(k, n, r) ==
    {c \in (DOMAIN k.policy.subjects) \X k.policy.permissions \X Subtree(k, r) :
        IsAllowed(k, c[1], c[2], c[3]) # IsAllowed(n, c[1], c[2], c[3])}
EffectiveFieldChanges(k, n, r) ==
    {c \in (DOMAIN k.policy.subjects) \X Subtree(k, r) :
        ReadableFields(k, c[1], c[2]) # ReadableFields(n, c[1], c[2])}

(* moveHierarchyDocument, as far as the policy is concerned.               *)
MoveDocument(s, r, parent, mover) ==
    LET p == cached[s]
        m == MoveOf(p, r, parent)
        q == ApplyPolicyMutation(p, m)
    IN /\ p # NoPolicyYet
       /\ {r, parent} \subseteq DOMAIN p.resources
       /\ p.resources[r].kind = "document" /\ p.resources[r].parent # parent
       /\ Applies(p, m)
       /\ CoverageChanges(KernelSnapshot(p), KernelSnapshot(q), r) => mover = "manager"
       /\ Store(s, m, mover)

ImpactNext(asks) ==
    \/ TablesNext(asks)
    \/ \E s \in PolicyServers, r, parent \in DOMAIN tables.resources, mover \in {"editor", "manager"} :
         MoveDocument(s, r, parent, mover)

(* The policy tables of a realm, whatever is asked and moved.              *)
TablesSpec == TablesInit /\ [][ImpactNext(Asks)]_tvars

-----------------------------------------------------------------------------
(* Who only edits moves nobody's rights: neither what any subject may do   *)
(* with the document and all that is below it, nor what it reads of it,    *)
(* changes by the move of an editor, even if the server's policy was not   *)
(* the one in the rows (content-hierarchy-runtime.ts, "calculateMove-      *)
(* Preview"; resource-impact.ts).                                          *)
EditorsMoveNoRights ==
    [][log'.revision # log.revision /\ log'.actor = "editor" =>
         LET k == KernelSnapshot(LoadPolicyWith(tables))
             n == KernelSnapshot(LoadPolicyWith(tables'))
         IN \A r \in DOMAIN log'.mutation.upserts :
              EffectiveChanges(k, n, r) = {} /\ EffectiveFieldChanges(k, n, r) = {}]_tvars

(* What was validated is what is stored, and an editor's move is no grant. *)
StoredAsDecided == StoresWhatWasDecided /\ EditorsMoveNoRights
=============================================================================
