------------------------ MODULE HierarchyProjection ------------------------
(***************************************************************************)
(* The content tree and its projection into the authorization graph.       *)
(*                                                                         *)
(* In a collection with permission inheritance a document's resource has   *)
(* the resource of its parent document as parent, so what may be done with *)
(* a document depends on the tree.  Tree and graph are written by separate *)
(* transactions: the tree first, then a reconcile copies the whole tree    *)
(* into the graph.  In between, the resources whose ancestors change are   *)
(* quarantined: rows in _xecms_auth_resource_quarantine and, in the server *)
(* that wrote them, a set in memory.  A check on a quarantined resource is *)
(* answered 503.                                                           *)
(*                                                                         *)
(* Servers share the database.  An advisory lock, the content projection   *)
(* lock, is held by one operation at a time and lost when its server       *)
(* stops.  Servers stop at any step and are started again, and any call on *)
(* the database may fail.                                                  *)
(*                                                                         *)
(* One collection and one realm.  Of the policy only the parents of the    *)
(* document resources are kept; whether a subject is granted an operation  *)
(* is left open.  Sibling order is left out.                               *)
(***************************************************************************)
EXTENDS Naturals, FiniteSets

CONSTANTS
    Docs,        \* document identities
    Servers,     \* server processes on the database
    Collection,  \* the parent of the documents at the top of the tree
    Nobody,      \* holder of a lock that is free
    Scenarios    \* the documents requests name, and the rarer faults they meet

ASSUME ConstantsAssumption ==
    /\ Collection \notin Docs
    /\ Nobody \notin Servers
    /\ IsFiniteSet(Docs)
    /\ Scenarios \subseteq [docs: SUBSET Docs, faults: SUBSET {"refusal", "lost reply"}]

VARIABLES
    scenario,    \* one of Scenarios, once and for all
    tree,        \* tree[d]: parent of d in _xecms_content_hierarchy_nodes
    graph,       \* graph[d]: parent of d's resource in _xecms_auth_resources
    quarantine,  \* documents in _xecms_auth_resource_quarantine
    memory,      \* memory[s]: the quarantinedResources of server s
    lock,        \* the server which holds the content projection lock
    op           \* op[s]: the operation server s is in

vars == <<scenario, tree, graph, quarantine, memory, lock, op>>

Parents == Docs \cup {Collection}
InTree == DOMAIN tree
Projected == DOMAIN graph

Idle == [step |-> "idle"]
Down == [step |-> "down"]
Reconcile(starting) == [step |-> "read", starting |-> starting]
Reconciling(s) == op[s].step \in {"read", "project", "release"}
Starting(s) == Reconciling(s) /\ op[s].starting
Serving(s) == op[s] # Down /\ ~Starting(s)

\* The resources d inherits from, in a forest given by its parents.
Ancestors(parents, d) ==
    LET up[n \in 0..Cardinality(Docs)] ==
          IF n = 0 THEN {}
          ELSE {parents[e] : e \in (up[n - 1] \cup {d}) \cap DOMAIN parents}
    IN up[Cardinality(Docs)]

Subtree(d) == {e \in InTree : e = d \/ d \in Ancestors(tree, e)}

\* assertProjectionAvailable, and a resource that is not there grants nothing.
Available(s, d) == d \in Projected \ (memory[s] \cup quarantine)

-----------------------------------------------------------------------------
(* Requests.  Each one takes the lock and ends with it released. *)

\* Mutant of Acquire: the lock does not exclude.
AcquireShared(s, what) ==
    /\ lock' = s
    /\ op' = [op EXCEPT ![s] = what]

Acquire(s, what) ==
    /\ lock = Nobody
    /\ lock' = s
    /\ op' = [op EXCEPT ![s] = what]

EndOperation(s) ==
    /\ lock' = Nobody
    /\ op' = [op EXCEPT ![s] = Idle]

\* documents.create commits document and position; no resource, no access.
Create(s, d, p) ==
    /\ op[s] = Idle
    /\ d \in scenario.docs \ InTree
    /\ p \in InTree \cup {Collection}
    /\ tree' = [e \in InTree \cup {d} |-> IF e = d THEN p ELSE tree[e]]
    /\ Acquire(s, Reconcile(FALSE))
    /\ UNCHANGED <<graph, quarantine, memory>>

\* calculateMovePreview: the caller must be allowed to see all of the subtree
\* and both paths, which no quarantined resource lets anybody do.
StartMove(s, d, p) ==
    /\ op[s] = Idle
    /\ d \in InTree
    /\ p \in (InTree \cup {Collection}) \ Subtree(d)
    /\ \A e \in Subtree(d) \cup ((Ancestors(tree, d) \cup Ancestors(tree, p) \cup {p})
                                  \ {Collection}) : Available(s, e)
    /\ Acquire(s, [step |-> "fence", kind |-> "move", doc |-> d, parent |-> p,
                   fenced |-> Subtree(d)])
    /\ UNCHANGED <<tree, graph, quarantine, memory>>

StartPurge(s, d) ==
    /\ op[s] = Idle
    /\ d \in InTree
    /\ Available(s, d)
    /\ Acquire(s, [step |-> "fence", kind |-> "purge", doc |-> d, parent |-> Collection,
                   fenced |-> Projected])
    /\ UNCHANGED <<tree, graph, quarantine, memory>>

\* applySchemaWithProjection; what it changes of the schema is not of the tree.
StartApply(s) ==
    /\ op[s] = Idle
    /\ Acquire(s, [step |-> "fence", kind |-> "apply", doc |-> Collection,
                   parent |-> Collection, fenced |-> Projected])
    /\ UNCHANGED <<tree, graph, quarantine, memory>>

-----------------------------------------------------------------------------
(* A move, a purge and a schema apply: fence, commit, reconcile. *)

\* Mutant of Fence: what is under the document is not fenced.
FenceDocument(s) ==
    /\ op[s].step = "fence"
    /\ quarantine' = quarantine \cup (op[s].fenced \cap {op[s].doc})
    /\ memory' = [memory EXCEPT ![s] = @ \cup (op[s].fenced \cap {op[s].doc})]
    /\ op' = [op EXCEPT ![s].step = "commit"]
    /\ UNCHANGED <<tree, graph, lock>>

Fence(s) ==
    /\ op[s].step = "fence"
    /\ quarantine' = quarantine \cup op[s].fenced
    /\ memory' = [memory EXCEPT ![s] = @ \cup op[s].fenced]
    /\ op' = [op EXCEPT ![s].step = "commit"]
    /\ UNCHANGED <<tree, graph, lock>>

\* The children of a purged document are promoted to its parent.
Changed(o) ==
    CASE o.kind = "move" -> [tree EXCEPT ![o.doc] = o.parent]
      [] o.kind = "purge" -> [e \in InTree \ {o.doc} |->
                                IF tree[e] = o.doc THEN tree[o.doc] ELSE tree[e]]
      [] o.kind = "apply" -> tree

Commit(s) ==
    /\ op[s].step = "commit"
    /\ tree' = Changed(op[s])
    /\ op' = [op EXCEPT ![s] = Reconcile(FALSE)]
    /\ UNCHANGED <<graph, quarantine, memory, lock>>

\* A conflict, a refused relation or a lost connection before the COMMIT.
CommitRefused(s) ==
    /\ op[s].step = "commit"
    /\ op[s].kind = "move" \/ "refusal" \in scenario.faults
    /\ op' = [op EXCEPT ![s].step = "unfence"]
    /\ UNCHANGED <<tree, graph, quarantine, memory, lock>>

\* The COMMIT takes place and its reply is lost; the code sees an error.
CommitReplyLost(s) ==
    /\ "lost reply" \in scenario.faults
    /\ op[s].step = "commit"
    /\ tree' = Changed(op[s])
    /\ op' = [op EXCEPT ![s].step = "unfence"]
    /\ UNCHANGED <<graph, quarantine, memory, lock>>

Unfence(s) ==
    /\ op[s].step = "unfence"
    /\ quarantine' = quarantine \ op[s].fenced
    /\ memory' = [memory EXCEPT ![s] = @ \ op[s].fenced]
    /\ EndOperation(s)
    /\ UNCHANGED <<tree, graph>>

-----------------------------------------------------------------------------
(* reconcileAuthorizationHierarchy. *)

ReadTree(s) ==
    /\ op[s].step = "read"
    /\ op' = [op EXCEPT ![s] = [step |-> "project", starting |-> @.starting, desired |-> tree]]
    /\ UNCHANGED <<tree, graph, quarantine, memory, lock>>

\* Mutant of Project: resources no longer in the tree are not deleted.
ProjectUpserts(s) ==
    /\ op[s].step = "project"
    /\ graph' = [d \in InTree \cup Projected |->
                   IF d \in InTree THEN op[s].desired[d] ELSE graph[d]]
    /\ op' = [op EXCEPT ![s].step = "release"]
    /\ UNCHANGED <<tree, quarantine, memory, lock>>

\* mutatePolicy: a deleted resource takes its quarantine row along.
Project(s) ==
    /\ op[s].step = "project"
    /\ graph' = op[s].desired
    /\ quarantine' = quarantine \cap DOMAIN graph'
    /\ op' = [op EXCEPT ![s].step = "release"]
    /\ UNCHANGED <<tree, memory, lock>>

ReleaseQuarantine(s) ==
    /\ op[s].step = "release"
    /\ quarantine' = quarantine \ DOMAIN op[s].desired
    /\ memory' = [memory EXCEPT ![s] = @ \ DOMAIN op[s].desired]
    /\ EndOperation(s)
    /\ UNCHANGED <<tree, graph>>

\* Any call above but the COMMIT fails: the request ends where it is, and the
\* quarantine stays.  The policy may also have another revision than expected.
\* A server which is starting exits.
Fails(s) ==
    /\ op[s].step \in {"fence", "unfence"} \/ Reconciling(s)
    /\ lock' = Nobody
    /\ op' = [op EXCEPT ![s] = IF Starting(s) THEN Down ELSE Idle]
    /\ UNCHANGED <<tree, graph, quarantine, memory>>

-----------------------------------------------------------------------------
Stop(s) ==
    /\ op[s] # Down
    /\ op' = [op EXCEPT ![s] = Down]
    /\ memory' = [memory EXCEPT ![s] = {}]
    /\ lock' = IF lock = s THEN Nobody ELSE lock
    /\ UNCHANGED <<tree, graph, quarantine>>

\* A server reconciles before it listens.
StartServer(s) ==
    /\ op[s] = Down
    /\ Acquire(s, Reconcile(TRUE))
    /\ UNCHANGED <<tree, graph, quarantine, memory>>

Init ==
    /\ scenario \in Scenarios
    /\ tree = [d \in {} |-> Collection]
    /\ graph = tree
    /\ quarantine = {}
    /\ memory = [s \in Servers |-> {}]
    /\ lock = Nobody
    /\ op = [s \in Servers |-> Idle]

Step(s) ==
    \/ Fence(s) \/ Commit(s) \/ CommitRefused(s) \/ CommitReplyLost(s) \/ Unfence(s)
    \/ ReadTree(s) \/ Project(s) \/ ReleaseQuarantine(s)

Request(s) ==
    \/ \E d \in Docs, p \in Parents : Create(s, d, p) \/ StartMove(s, d, p)
    \/ \E d \in Docs : StartPurge(s, d)
    \/ StartApply(s)

Fault(s) == Fails(s) \/ Stop(s)

Next ==
    /\ \E s \in Servers : Request(s) \/ Step(s) \/ Fault(s) \/ StartServer(s)
    /\ UNCHANGED scenario

Spec == Init /\ [][Next]_vars

\* A request is carried on; a server that stopped is started again, and
\* PostgreSQL hands an advisory lock to those who wait in their order.
FairSpec ==
    /\ Spec
    /\ \A s \in Servers : WF_vars(Step(s) /\ UNCHANGED scenario)
                          /\ SF_vars(StartServer(s) /\ UNCHANGED scenario)

-----------------------------------------------------------------------------
(* Properties. *)

Forest(parents) == \A d \in DOMAIN parents : Collection \in Ancestors(parents, d)

\* Tree and graph are forests over the documents; at most one server is inside
\* an operation, and it holds the lock.
TypeOK ==
    /\ scenario \in Scenarios
    /\ InTree \subseteq Docs /\ Forest(tree)
    /\ Projected \subseteq Docs /\ Forest(graph)
    /\ quarantine \subseteq Projected
    /\ memory \in [Servers -> SUBSET Docs]
    /\ \A s \in Servers : (lock = s) = (op[s].step \notin {"idle", "down"})

\* "Makes a stale content projection fail closed until a successful reconcile":
\* no server answers for a document with the permissions of ancestors the
\* document no longer has, whatever failed or stopped half way.
\* Not so where a purge or a schema apply is refused, or the reply to a COMMIT is
\* lost: both lift quarantines of changes nobody has projected.
StaleFailsClosed ==
    /\ TypeOK
    /\ scenario.faults = {} =>
         \A s \in Servers, d \in InTree :
           Serving(s) /\ Available(s, d) => Ancestors(graph, d) = Ancestors(tree, d)

\* The graph is only ever set to the tree as it is: the tree one server has read
\* is not changed by another before it is projected.
ProjectsTheTree == [][graph' # graph => graph' = tree]_vars

\* When a server stopped in the middle of an operation, tree and graph agree
\* again later and nothing is left in quarantine, unless faults go on for ever.
CrashIsRepaired ==
    \/ []<><<\E s \in Servers : Fault(s)>>_vars
    \/ \A s \in Servers : op[s] = Down ~> quarantine = {} /\ graph = tree

\* "... until a successful reconcile": when tree and graph agree and no row of
\* the quarantine is left, no idle server refuses a document.
ReconcileReopens ==
    graph = tree /\ quarantine = {} =>
        \A s \in Servers : op[s] = Idle => \A d \in InTree : Available(s, d)
=============================================================================
