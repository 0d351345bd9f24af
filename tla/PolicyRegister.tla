--------------------------- MODULE PolicyRegister ---------------------------
(***************************************************************************)
(* The authorization services of several servers on one realm's policy.    *)
(*                                                                         *)
(* A server keeps the last policy it loaded.  A request reads the current  *)
(* revision, takes the cached policy if it is of that revision and loads   *)
(* the policy otherwise, compares with the revision its client named, and  *)
(* decides.  The store then locks the policy row, compares the revision    *)
(* again, applies the mutation, writes revision and audit rows, and bumps  *)
(* the revision.  Last, the server caches what the store returned.         *)
(* Meanwhile Identity administration may bump the revision of a realm      *)
(* without changing what is modelled here (bumpSubjectPolicy).             *)
(***************************************************************************)
EXTENDS PolicyAuthority

CONSTANTS Servers, None,
          Workloads  \* [servers, mutations, bumps, last]: who is asked what, up to which revision

VARIABLES cache,    \* AuthorizationPolicyContext.#cache of each server
          job,      \* the request each server is working on
          workload

register == <<policy, audit>>
rvars == <<policy, audit, cache, job, workload>>

ASSUME WorkloadAssumption ==
    \A l \in Workloads : /\ l.servers \subseteq Servers /\ l.mutations \subseteq Mutations
                         /\ l.bumps \in BOOLEAN /\ l.last \in 1 .. MaxRevision

Idle == [step |-> "idle"]

RegisterInit ==
    /\ Init
    /\ cache = [sv \in Servers |-> None]
    /\ job = [sv \in Servers |-> Idle]
    /\ workload \in Workloads

(* load *)
Load(sv) == IF cache[sv] # None /\ cache[sv].revision = policy.revision
            THEN cache[sv] ELSE policy

(* loadForMutation, the service's checks and commit up to mutatePolicy.    *)
Decide(sv, a, m) ==
    /\ job[sv] = Idle
    /\ Load(sv).revision < workload.last
    /\ Permitted(Load(sv), a, m)
    /\ cache' = [cache EXCEPT ![sv] = Load(sv)]
    /\ job' = [job EXCEPT ![sv] = [step |-> "commit", actor |-> a, mutation |-> m,
                                   expected |-> Load(sv).revision]]
    /\ UNCHANGED register

\* Mutant of RevisionIsExpected: the last writer wins.
RevisionIsAny(sv) == TRUE

RevisionIsExpected(sv) == policy.revision = job[sv].expected

(* mutatePolicyInTransaction *)
Commit(sv) ==
    LET m == job[sv].mutation
    IN /\ job[sv].step = "commit"
       /\ IF RevisionIsExpected(sv)
          THEN /\ policy' = Applied(policy, m)
               /\ audit' = Row(job[sv].actor, m)
               /\ job' = [job EXCEPT ![sv] = [step |-> "reply", persisted |-> policy']]
          ELSE /\ job' = [job EXCEPT ![sv] = Idle]
               /\ UNCHANGED register
       /\ UNCHANGED cache

(* cachePersistedState, which may come after other servers' commits.       *)
Reply(sv) ==
    /\ job[sv].step = "reply"
    /\ cache' = [cache EXCEPT ![sv] = job[sv].persisted]
    /\ job' = [job EXCEPT ![sv] = Idle]
    /\ UNCHANGED register

(* The answer of the store is lost; the mutation stands or was never made. *)
LoseReply(sv) ==
    /\ job[sv].step \in {"commit", "reply"}
    /\ job' = [job EXCEPT ![sv] = Idle]
    /\ UNCHANGED <<policy, audit, cache>>

Restart(sv) ==
    /\ cache' = [cache EXCEPT ![sv] = None]
    /\ job' = [job EXCEPT ![sv] = Idle]
    /\ cache[sv] # None \/ job[sv] # Idle
    /\ UNCHANGED register

IdentityMutation == [op |-> "identity"]
BumpSubjectPolicy ==
    /\ workload.bumps /\ policy.revision < workload.last
    /\ policy' = [policy EXCEPT !.revision = @ + 1]
    /\ audit' = Row(CmsOwner, IdentityMutation)
    /\ UNCHANGED <<cache, job>>

RegisterNext ==
    /\ \/ \E sv \in workload.servers :
             \/ \E a \in Actors, m \in workload.mutations : Decide(sv, a, m)
             \/ Commit(sv) \/ Reply(sv) \/ LoseReply(sv) \/ Restart(sv)
       \/ BumpSubjectPolicy
    /\ UNCHANGED workload

RegisterSpec == RegisterInit /\ [][RegisterNext]_rvars

-----------------------------------------------------------------------------
(* Every cached policy is the one the store had at that revision, never    *)
(* newer, whatever was lost or came late: so a cached policy of the        *)
(* current revision is the stored policy (AuthorizationPolicyContext.load) *)
(* and decisions taken from it are decisions of the stored policy.         *)
CachesAreRevisions ==
    /\ RootStands
    /\ \A sv \in Servers :
         /\ cache[sv] # None => /\ cache[sv].revision <= policy.revision
                                /\ cache[sv].revision = policy.revision => cache[sv] = policy
         /\ RootIsSound(Load(sv))

-----------------------------------------------------------------------------
(* Principals and scopes from their definitions: a principal of s is s or  *)
(* is in every set of groups that is closed under enabled membership; a    *)
(* scope is the set of resources it reaches.                               *)
PrincipalsByDefinition(p, s) ==
    LET Groups == {p.groups[m].group : m \in DOMAIN p.groups}
        Closed(C) == \A m \in DOMAIN p.groups :
            p.groups[m].member \in C \cup {s} /\ ~p.subjects[p.groups[m].group].disabled
            => p.groups[m].group \in C
    IN {s} \cup {g \in Groups : \A C \in SUBSET Groups : Closed(C) => g \in C}
Reached(scope) ==
    LET under == {r \in Resources : scope.resource \in Above[r]}
    IN CASE scope.propagation = "self" -> {scope.resource}
         [] scope.propagation = "children" -> under
         [] OTHER -> under \cup {scope.resource}

(* The kernel decides what the definition of a policy says: an enabled     *)
(* subject may do an unguarded action on a resource exactly when a binding *)
(* in force, its own or inherited, reaches the resource with a role that   *)
(* has the permission (evaluateAccess).  The policy alone decides, so it   *)
(* is looked at when no request is under way.                              *)
DecidesAsDefined ==
  (\A sv \in Servers : job[sv] = Idle) =>
    \A s \in DOMAIN policy.subjects :
      LET principals == PrincipalsByDefinition(policy, s)
          bindings == {policy.bindings[b] : b \in DOMAIN policy.bindings}
          inForce == {c \in bindings : c.active /\ c.subject \in principals}
      IN \A action \in {q \in Permissions : Guard[q] = "none"}, r \in Resources, met \in BOOLEAN :
           EvaluateAccess(policy, s, action, r, met) <=>
             /\ CanAct(policy, s)
             /\ \E c \in inForce : /\ action \in policy.roles[c.role].permissions
                                   /\ met \/ ~c.constrained
                                   /\ r \in Reached(c.scope)

(* What a server decides from is a policy that was committed, and what it  *)
(* decides is what that policy means.                                      *)
DecidesByThePolicy == CachesAreRevisions /\ DecidesAsDefined

(* What is committed was permitted by the policy it replaced, and is what  *)
(* was asked for: the register implements PolicyAuthority.                 *)
ImplementsAuthority ==
    Init /\ [][\/ /\ audit'.actor \in Actors /\ audit'.mutation \in Mutations
                 /\ Mutate(audit'.actor, audit'.mutation)
              \/ /\ audit'.mutation = IdentityMutation
                 /\ policy' = [policy EXCEPT !.revision = @ + 1]]_vars
=============================================================================
