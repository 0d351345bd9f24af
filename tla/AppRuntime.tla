----------------------------- MODULE AppRuntime -----------------------------
(***************************************************************************)
(* What a visitor is shown of a page of an admin app, while authors apply, *)
(* move and archive apps and administrators change who may see what.       *)
(*                                                                         *)
(* A request reads the app by its route key twice, once to learn whose     *)
(* session it needs and once to load it, then the permissions of the       *)
(* visitor in batches, and last the documents.  It holds no lock: each     *)
(* read sees what is committed at its moment.  The batches are wanted at   *)
(* one revision of the policy; two attempts are made.  Revisions are only  *)
(* compared by equality, so a request counts them from its own beginning   *)
(* and keeps what was granted at each; the last is in force.               *)
(***************************************************************************)
EXTENDS AdminApps

CONSTANTS Visitors, Keys,
          Realms,     \* the realms of audiences
          Batches,    \* sequence of sets of permissions: what is asked at once
          MaxPolicy   \* bound on the revisions of a policy during a request

VARIABLE view  \* what the request of each visitor is at

rvars == <<avars, view>>

ASSUME RuntimeAssumption ==
    /\ {m.realm : m \in Manifests} \subseteq Realms
    /\ Batches \in Seq(SUBSET {"access", "read", "unmask"})
    /\ UNION {Batches[i] : i \in DOMAIN Batches} = {"access", "read", "unmask"}

NoView == [step |-> "none"]

RuntimeInit ==
    /\ AppsInit
    /\ view = [v \in Visitors |-> NoView]

-----------------------------------------------------------------------------
GrantedIn(realm, bindings) == {b \in bindings : b.resource.realm = realm}
ResourcesIn(realm, resources) == {r \in resources : r.realm = realm}

(* mutatePolicyInTransaction: what changes the resources or the bindings   *)
(* of a realm makes the next revision of its policy.                       *)
PolicyChanges(realm) ==
    \/ GrantedIn(realm, roleBinding') # GrantedIn(realm, roleBinding)
    \/ ResourcesIn(realm, appResource') # ResourcesIn(realm, appResource)

Administer ==
    /\ AppsNext
    /\ view' = [v \in Visitors |->
          IF view[v].step \notin {"none", "served"} /\ PolicyChanges(view[v].realm)
          THEN [view[v] EXCEPT !.policies = Append(@, GrantedIn(view[v].realm, roleBinding'))]
          ELSE view[v]]
    /\ \A v \in Visitors : view'[v] # NoView => Len(view'[v].policies) <= MaxPolicy

Revision(v) == Len(view[v].policies)
\* A role bound on an app holds for its pages.
Holds(policy, a, x) ==
    \E b \in policy : b.resource.app = a /\ x \in b.role /\ (x = "access" => b.resource.node = "app")
Allowed(policy, a, checks) == {x \in checks : Holds(policy, a, x)}

Turn(v, next) == view' = [view EXCEPT ![v] = next] /\ UNCHANGED avars
Deny(v) == Turn(v, NoView)

(* getAppByKey, of an app that runs.                                       *)
Running(key) == {a \in DOMAIN app : app[a].key = key /\ ~app[a].archived /\ app[a].active # 0}

-----------------------------------------------------------------------------
(* audience, and the session of its realm.                                 *)
Enter(v, key) ==
    /\ view[v] = NoView
    /\ \E a \in Running(key) :
         Turn(v, [step |-> "entered", key |-> key, realm |-> app[a].realm,
                  policies |-> <<GrantedIn(app[a].realm, roleBinding)>>])

IsOfAudience(v, a) == app[a].realm = view[v].realm

(* load: the app is found by its key again.                                *)
LoadApp(v) ==
    /\ view[v].step = "entered"
    /\ IF \E a \in Running(view[v].key) : IsOfAudience(v, a)
       THEN \E a \in Running(view[v].key) :
              Turn(v, [step |-> "found", realm |-> view[v].realm, policies |-> view[v].policies,
                       app |-> a, revision |-> app[a].revisions[app[a].active]])
       ELSE Deny(v)

(* ... and the visitor needs access to it; revisions never change.         *)
RequireAccess(v) ==
    /\ view[v].step = "found"
    /\ IF Holds(view[v].policies[Revision(v)], view[v].app, "access")
       THEN Turn(v, [step |-> "loaded", realm |-> view[v].realm, policies |-> view[v].policies,
                     app |-> view[v].app, revision |-> view[v].revision, attempt |-> 1])
       ELSE Deny(v)

(* evaluateStable: the revision before, one batch after another, and the   *)
(* revision after.                                                         *)
ReadBefore(v) ==
    /\ view[v].step = "loaded"
    /\ Turn(v, [step |-> "evaluating", realm |-> view[v].realm, policies |-> view[v].policies,
                app |-> view[v].app, revision |-> view[v].revision,
                attempt |-> view[v].attempt, before |-> Revision(v), results |-> <<>>])

EvaluateBatch(v) ==
    LET w == view[v]
        n == Revision(v)
    IN /\ w.step = "evaluating" /\ Len(w.results) < Len(Batches)
       /\ Turn(v, [w EXCEPT !.results = Append(@,
             [at |-> n, allowed |-> Allowed(w.policies[n], w.app, Batches[Len(@) + 1])])])

\* Mutant of IsStable: the revisions are not compared.
IsStableAnyway(w) == TRUE

IsStable(w) ==
    /\ Len(w.policies) = w.before
    /\ \A i \in DOMAIN w.results : w.results[i].at = w.before

ReadAfter(v) ==
    LET w == view[v]
    IN /\ w.step = "evaluating" /\ Len(w.results) = Len(Batches)
       /\ IF IsStable(w)
          THEN Turn(v, [step |-> "profiled", realm |-> w.realm, policies |-> w.policies,
                        app |-> w.app, revision |-> w.revision,
                        allowed |-> UNION {w.results[i].allowed : i \in DOMAIN w.results}])
          ELSE IF w.attempt < 2
          THEN Turn(v, [step |-> "loaded", realm |-> w.realm, policies |-> w.policies,
                        app |-> w.app, revision |-> w.revision, attempt |-> w.attempt + 1])
          ELSE Deny(v)

(* The page has to be readable; then sensitive fields are masked, or not.  *)
Serve(v) ==
    LET w == view[v]
    IN /\ w.step = "profiled"
       /\ IF "read" \in w.allowed
          THEN Turn(v, [step |-> "served", realm |-> w.realm, policies |-> w.policies,
                        app |-> w.app, revision |-> w.revision, plain |-> "unmask" \in w.allowed])
          ELSE Deny(v)
Leave(v) == view[v].step = "served" /\ Deny(v)

-----------------------------------------------------------------------------
Visit(v) ==
    \/ \E key \in Keys : Enter(v, key)
    \/ LoadApp(v) \/ RequireAccess(v) \/ ReadBefore(v) \/ EvaluateBatch(v) \/ ReadAfter(v)
    \/ Serve(v) \/ Leave(v)
RuntimeNext == Administer \/ \E v \in Visitors : Visit(v)

RuntimeSpec == RuntimeInit /\ [][RuntimeNext]_rvars

-----------------------------------------------------------------------------
(* A page is shown to a session of the realm its revision is made for, and *)
(* what is shown of it, masked or plain, some revision of the policy that  *)
(* was in force during the request allows as a whole: no permission taken  *)
(* away is combined with one given later (load, evaluateStable,            *)
(* projectDocumentData).                                                   *)
ServedAsGranted ==
    \A v \in Visitors : view[v].step = "served" =>
        LET w == view[v]
        IN /\ w.revision.manifest.realm = w.realm
           /\ \E n \in DOMAIN w.policies :
                /\ Holds(w.policies[n], w.app, "read")
                /\ w.plain <=> Holds(w.policies[n], w.app, "unmask")
           /\ \E n \in DOMAIN w.policies : Holds(w.policies[n], w.app, "access")
=============================================================================
