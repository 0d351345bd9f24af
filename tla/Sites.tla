------------------------------- MODULE Sites -------------------------------
(***************************************************************************)
(* The sites of a workspace, the collections bound to them, and the        *)
(* authorization resources of the collections.                             *)
(*                                                                         *)
(* A request of an administrator is a transaction: it locks the row of its *)
(* site, compares the revision the administrator read, and goes on with    *)
(* statements that may wait for other rows.  What it writes is seen by     *)
(* others at its commit, the last of its actions here, which waits for the *)
(* rows it needs besides; the policy row is only held by that action.      *)
(* Deadlocks, lost connections and crashes roll a transaction back (Abort).*)
(*                                                                         *)
(* Servers project the collections of the active schema to authorization   *)
(* resources in passes, one at a time under the projection lock; requests  *)
(* do not take that lock and run between the reads and writes of a pass.   *)
(***************************************************************************)
EXTENDS Naturals, FiniteSets

CONSTANTS SiteIds, SiteCollections, Admins,
          Content,          \* the resource collections without a site hang on
          MaxSiteRevision,  \* requests start while every site is below it
          MaxSitePolicy     \* bound on the policy revision a pass or a request starts at

VARIABLES site,        \* _xecms_sites: id -> [active, default, revision]
          binding,     \* _xecms_collection_sites: collection -> site
          resource,    \* _xecms_auth_resources: collection -> [type, parent]
          sitePolicy,  \* current_revision of the policy of the system realm
          configured,  \* the collections of the active schema
          request,     \* what each administrator's transaction is at
          pass         \* the projection pass

svars == <<site, binding, resource, sitePolicy, configured, request, pass>>

ASSUME SitesAssumption ==
    /\ MaxSiteRevision \in Nat /\ MaxSitePolicy \in Nat
    /\ Content \notin SiteIds

NoRequest == [step |-> "none"]
Override(f, g) == [x \in DOMAIN f \cup DOMAIN g |-> IF x \in DOMAIN g THEN g[x] ELSE f[x]]
Without(f, S) == [x \in DOMAIN f \ S |-> f[x]]
ParentOf(b, c) == IF c \in DOMAIN b THEN b[c] ELSE Content
Bumped(S) == [s \in S |-> [site[s] EXCEPT !.revision = @ + 1]]

SitesInit ==
    /\ site = <<>> /\ binding = <<>>
    /\ configured = SiteCollections
    /\ resource = [c \in SiteCollections |-> [type |-> "collection", parent |-> Content]]
    /\ sitePolicy = 1
    /\ request = [t \in Admins |-> NoRequest]
    /\ pass = [step |-> "idle"]

\* Mutant of LockedBy: lockSite without FOR UPDATE.
LockedByUpdates(t) == IF request[t].step = "cleared" THEN request[t].seen ELSE {}

(* The rows a transaction has locked.                                      *)
LockedBy(t) ==
    CASE request[t].step \in {"none", "asked"} -> {}
      [] request[t].step = "cleared" -> {request[t].site} \cup request[t].seen
      [] OTHER -> {request[t].site}
Free(s, t) == \A u \in Admins \ {t} : s \notin LockedBy(u)

Finish(t) == request' = [request EXCEPT ![t] = NoRequest]
Refuse(t) == Finish(t) /\ UNCHANGED <<site, binding, resource, sitePolicy>>
Goto(t, step, seen) ==
    /\ request' = [request EXCEPT ![t].step = step, ![t].seen = seen]
    /\ UNCHANGED <<site, binding, resource, sitePolicy>>

-----------------------------------------------------------------------------
(* create: under the lock of the workspace.                                *)
CreateSite(s) ==
    /\ s \in SiteIds \ DOMAIN site
    /\ site' = Override(site, [x \in {s} |->
                   [active |-> TRUE, default |-> DOMAIN site = {}, revision |-> 1]])
    /\ sitePolicy < MaxSitePolicy /\ sitePolicy' = sitePolicy + 1
    /\ UNCHANGED <<binding, resource, configured, request, pass>>

(* An administrator has read the sites and the policy, and asks.  "other"  *)
(* is the replacement of setArchived and the collection of a binding.      *)
Operations(s) ==
    [op : {"update", "setDefault", "reactivate"}, site : {s}, other : {s}]
    \cup [op : {"archive"}, site : {s}, other : DOMAIN site]
    \cup [op : {"bind", "unbind"}, site : {s}, other : SiteCollections]

Ask(t, s) ==
    /\ request[t] = NoRequest
    /\ \A x \in DOMAIN site : site[x].revision < MaxSiteRevision
    /\ sitePolicy < MaxSitePolicy
    /\ \E o \in Operations(s) :
         request' = [request EXCEPT ![t] =
             [step |-> "asked", op |-> o.op, site |-> s, other |-> o.other,
              revision |-> site[s].revision, policy |-> sitePolicy, seen |-> {}]]
    /\ UNCHANGED <<site, binding, resource, sitePolicy>>

(* lockSite, assertRevision and what is decided on the locked row.         *)
Acceptable(q) ==
    CASE q.op = "archive"    -> site[q.site].active
      [] q.op = "reactivate" -> ~site[q.site].active
      [] q.op = "setDefault" -> site[q.site].active /\ ~site[q.site].default
      [] q.op = "update"     -> TRUE
      [] OTHER               -> site[q.site].active
LockSite(t) ==
    LET q == request[t]
    IN /\ q.step = "asked" /\ Free(q.site, t)
       /\ IF site[q.site].revision = q.revision /\ Acceptable(q)
          THEN Goto(t, "locked", {})
          ELSE Refuse(t)

(* update of the address or of the name, which the resource has too.       *)
UpdateSite(t) ==
    /\ request[t].step = "locked" /\ request[t].op = "update"
    /\ site' = Override(site, Bumped({request[t].site}))
    /\ sitePolicy' \in {sitePolicy, sitePolicy + 1}
    /\ Finish(t)
    /\ UNCHANGED <<binding, resource>>

\* Mutant of DefaultIsFree: no unique index on the default of a workspace.
DefaultIsUnchecked(s, cleared) == TRUE

(* _xecms_sites_one_default: no other row is default when s becomes it.    *)
DefaultIsFree(s, cleared) == \A x \in DOMAIN site \ (cleared \cup {s}) : ~site[x].default

(* setArchived: a default site needs a replacement, locked second.         *)
SetArchived(t) ==
    LET q == request[t]
        archive == q.op = "archive"
        replaced == IF archive /\ site[q.site].default THEN {q.other} ELSE {}
    IN /\ q.step = "locked" /\ q.op \in {"archive", "reactivate"}
       /\ \A r \in replaced : Free(r, t)
       /\ IF \A r \in replaced : r # q.site /\ site[r].active /\ DefaultIsFree(r, {q.site})
          THEN /\ site' = [s \in DOMAIN site |->
                     IF s = q.site
                     THEN [site[s] EXCEPT !.active = ~archive, !.default = @ /\ ~archive,
                                          !.revision = @ + 1]
                     ELSE IF s \in replaced
                     THEN [site[s] EXCEPT !.default = TRUE, !.revision = @ + 1]
                     ELSE site[s]]
               /\ Finish(t)
               /\ UNCHANGED <<binding, resource, sitePolicy>>
          ELSE Refuse(t)

(* setDefault.  The UPDATE ... WHERE is_default finds its rows when it     *)
(* starts, waits for their locks, and looks at them again.                 *)
FindDefault(t) ==
    /\ request[t].step = "locked" /\ request[t].op = "setDefault"
    /\ Goto(t, "clearing", {s \in DOMAIN site : site[s].default})
ClearDefault(t) ==
    /\ request[t].step = "clearing"
    /\ \A s \in request[t].seen : Free(s, t)
    /\ Goto(t, "cleared", {s \in request[t].seen : site[s].default})
SetDefault(t) ==
    LET q == request[t]
    IN /\ q.step = "cleared"
       /\ IF DefaultIsFree(q.site, q.seen)
          THEN /\ site' = [s \in DOMAIN site |->
                     IF s \in q.seen \cup {q.site}
                     THEN [site[s] EXCEPT !.default = (s = q.site), !.revision = @ + 1]
                     ELSE site[s]]
               /\ Finish(t)
               /\ UNCHANGED <<binding, resource, sitePolicy>>
          ELSE Refuse(t)

(* setCollectionBinding after the site is locked: the policy row and its   *)
(* revision, the resource, the binding, the parent, the revisions.         *)
SetCollectionBinding(t) ==
    LET q == request[t]
        c == q.other
        previous == IF q.op = "bind" /\ c \in DOMAIN binding THEN {binding[c]} ELSE {}
    IN /\ q.step = "locked" /\ q.op \in {"bind", "unbind"}
       /\ \A s \in previous : Free(s, t)
       /\ IF /\ sitePolicy = q.policy
             /\ c \in DOMAIN resource /\ resource[c].type = "collection"
             /\ q.op = "unbind" => c \in DOMAIN binding /\ binding[c] = q.site
          THEN /\ binding' = IF q.op = "bind"
                             THEN Override(binding, [x \in {c} |-> q.site])
                             ELSE Without(binding, {c})
               /\ resource' = [resource EXCEPT ![c].parent = IF q.op = "bind" THEN q.site ELSE Content]
               /\ site' = Override(site, Bumped(previous \cup {q.site}))
               /\ sitePolicy' = sitePolicy + 1
               /\ Finish(t)
          ELSE Refuse(t)

(* A deadlock, an error or a lost connection: the transaction is undone.   *)
Abort(t) == request[t] # NoRequest /\ Refuse(t)

-----------------------------------------------------------------------------
(* applySchemaWithProjection with another schema, and the server's start   *)
(* or the first login with the schema there is.                            *)
BeginPass(S) ==
    /\ pass.step \in {"idle", "done"} /\ sitePolicy < MaxSitePolicy
    /\ configured' = S
    /\ pass' = [step |-> "reconcile"]
    /\ UNCHANGED <<site, binding, resource, sitePolicy, request>>

(* reconcileCollections: bindings of collections that are gone.            *)
ReconcileCollections ==
    LET stale == DOMAIN binding \ configured
        sites == {binding[c] : c \in stale}
    IN /\ pass.step = "reconcile"
       /\ \A s \in sites, t \in Admins : s \notin LockedBy(t)
       /\ binding' = Without(binding, stale)
       /\ site' = Override(site, Bumped(sites))
       /\ pass' = [step |-> "list"]
       /\ UNCHANGED <<resource, sitePolicy, configured, request>>

(* syncAuthorizationResources: sites.list, then getPolicy.  "listed" is    *)
(* the bindings of the first; "seen" those at the second, kept only for    *)
(* ParentsFollowBindings.                                                  *)
ListSites ==
    /\ pass.step = "list"
    /\ pass' = [step |-> "policy", listed |-> binding]
    /\ UNCHANGED <<site, binding, resource, sitePolicy, configured, request>>
GetPolicy ==
    /\ pass.step = "policy"
    /\ pass' = [step |-> "sync", listed |-> pass.listed, seen |-> binding,
                revision |-> sitePolicy, resources |-> resource]
    /\ UNCHANGED <<site, binding, resource, sitePolicy, configured, request>>

\* Mutant of PolicyIsAsRead: a pass does not name the revision it expects.
PolicyIsAnything == TRUE

PolicyIsAsRead == sitePolicy = pass.revision

(* syncCoreResources: each resource that is not as desired is written by   *)
(* a transaction of its own that compares the policy revision.             *)
Desired(c) == IF c \in configured
              THEN [type |-> "collection", parent |-> ParentOf(pass.listed, c)]
              ELSE [type |-> "retired", parent |-> Content]
Outdated == {c \in configured \cup DOMAIN pass.resources :
                c \notin DOMAIN pass.resources \/ pass.resources[c] # Desired(c)}
SyncResource(c) ==
    /\ pass.step = "sync" /\ c \in Outdated
    /\ IF PolicyIsAsRead
       THEN /\ resource' = Override(resource, [x \in {c} |-> Desired(c)])
            /\ sitePolicy' = sitePolicy + 1
            /\ pass' = [pass EXCEPT !.revision = sitePolicy', !.resources = resource']
       ELSE /\ pass' = [step |-> "idle"]
            /\ UNCHANGED <<resource, sitePolicy>>
    /\ UNCHANGED <<site, binding, configured, request>>
EndPass ==
    /\ pass.step = "sync" /\ Outdated = {}
    /\ pass' = [step |-> "done", listed |-> pass.listed, seen |-> pass.seen]
    /\ UNCHANGED <<site, binding, resource, sitePolicy, configured, request>>
AbandonPass ==
    /\ pass.step \notin {"idle", "done"}
    /\ pass' = [step |-> "idle"]
    /\ UNCHANGED <<site, binding, resource, sitePolicy, configured, request>>

-----------------------------------------------------------------------------
SiteRequest(t) ==
    /\ \/ \E s \in DOMAIN site : Ask(t, s)
       \/ LockSite(t) \/ UpdateSite(t) \/ SetArchived(t)
       \/ FindDefault(t) \/ ClearDefault(t) \/ SetDefault(t)
       \/ SetCollectionBinding(t) \/ Abort(t)
    /\ UNCHANGED <<configured, pass>>
SitesNext ==
    \/ \E s \in SiteIds : CreateSite(s)
    \/ \E t \in Admins : SiteRequest(t)
    \/ \E S \in SUBSET SiteCollections : BeginPass(S)
    \/ \E c \in SiteCollections : SyncResource(c)
    \/ ReconcileCollections \/ ListSites \/ GetPolicy \/ EndPass \/ AbandonPass

SitesSpec == SitesInit /\ [][SitesNext]_svars

-----------------------------------------------------------------------------
(* As soon as there is a site exactly one of them is the default, and it   *)
(* is active, however requests that move the default interleave.           *)
DefaultStands ==
    /\ DOMAIN site # {} => \E s \in DOMAIN site :
         /\ site[s].default /\ site[s].active
         /\ \A x \in DOMAIN site : site[x].default => x = s

(* When a pass has ended, a collection hangs on the site it is bound to,   *)
(* and binding it elsewhere moves it: unless it was bound or unbound       *)
(* between the pass's reads of the sites and of the policy.                *)
ParentsFollowBindings ==
    pass.step = "done" =>
        \A c \in configured :
            ParentOf(pass.listed, c) = ParentOf(pass.seen, c)
            => resource[c] = [type |-> "collection", parent |-> ParentOf(binding, c)]

(* "Archived Sites cannot change Collection bindings": none is given to a  *)
(* site that is archived, although the site was looked at some statements  *)
(* before and others archive it meanwhile; a collection an archived site   *)
(* has already may stay, or be bound elsewhere.                            *)
ArchivedSitesGainNothing ==
    [][\A c \in DOMAIN binding' :
         \/ c \in DOMAIN binding /\ binding[c] = binding'[c]
         \/ site[binding'[c]].active /\ site'[binding'[c]].active]_svars

(* One default site, and every collection below the site it is bound to.   *)
SitesAreWhole == DefaultStands /\ ParentsFollowBindings
=============================================================================
