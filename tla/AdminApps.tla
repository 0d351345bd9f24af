----------------------------- MODULE AdminApps -----------------------------
(***************************************************************************)
(* Admin apps: generated administration screens with drafts, revisions and *)
(* authorization resources.                                                *)
(*                                                                         *)
(* Every operation of the store locks the row of the workspace first, so   *)
(* it is one step.  An operation carries the versions its caller has read; *)
(* apply is the one whose caller acts on more than versions: it was shown  *)
(* a plan, and the service makes the plan again before it calls the store. *)
(* A plan is made from two queries that run side by side, in any order.    *)
(* An import into an app is createDraft and saveDraft, with others in      *)
(* between.                                                                *)
(***************************************************************************)
EXTENDS Naturals, Sequences

CONSTANTS AppIds, Authors,
          Roles,          \* sets of permissions
          Manifests,      \* [key, realm, pages]; ids, fields and layout are left out
          MaxRoute, MaxRevisions, MaxDraftVersion, MaxDrafts

VARIABLES app,         \* _xecms_admin_apps with its revisions: id -> row
          draft,       \* _xecms_admin_app_drafts: id -> row
          appResource, \* rows of _xecms_auth_resources: [app, realm, node]
          roleBinding, \* rows of _xecms_auth_role_bindings on such resources
          made,        \* drafts made so far, by every id ever given to an app
          author       \* what each author was shown

avars == <<app, draft, appResource, roleBinding, made, author>>

ASSUME AppsAssumption ==
    /\ MaxRoute \in Nat /\ MaxRevisions \in Nat
    /\ MaxDraftVersion \in Nat /\ MaxDrafts \in Nat
    /\ \A m \in Manifests : "app" \notin m.pages

NoApply == [step |-> "none"]
Row(f, a, v) == [x \in DOMAIN f \cup {a} |-> IF x = a THEN v ELSE f[x]]
Delete(f, a) == [x \in DOMAIN f \ {a} |-> f[x]]

AppsInit ==
    /\ app = <<>> /\ draft = <<>> /\ appResource = {}
    /\ roleBinding = {} /\ made = <<>>
    /\ author = [t \in Authors |-> NoApply]

\* Mutant of RouteIsFree: only the keys of apps are reserved.
RouteIsNoAppKey(a, key) == \A b \in DOMAIN app \ {a} : app[b].key # key

(* assertRouteAvailable: the keys of apps, archived ones too, and drafts.  *)
RouteIsFree(a, key) ==
    /\ \A b \in DOMAIN app \ {a} : app[b].key # key
    /\ \A b \in DOMAIN draft \ {a} : draft[b].manifest.key # key

Editable(a) == a \in DOMAIN app /\ ~app[a].archived
RouteBumped(a) == app[a].route < MaxRoute

-----------------------------------------------------------------------------
(* createAppDraft                                                          *)
CreateApp(a, m) ==
    /\ a \notin DOMAIN made /\ RouteIsFree(a, m.key)
    /\ app' = Row(app, a, [key |-> m.key, realm |-> m.realm, archived |-> FALSE,
                           active |-> 0, route |-> 1, revisions |-> <<>>])
    /\ draft' = Row(draft, a, [base |-> 0, version |-> 1, manifest |-> m, serial |-> 1])
    /\ made' = Row(made, a, 1)
    /\ UNCHANGED <<appResource, roleBinding, author>>

(* createDraft.  "serial" counts the drafts of an app; the row has none.   *)
CreateDraft(a) ==
    /\ Editable(a) /\ app[a].active # 0 /\ a \notin DOMAIN draft
    /\ made[a] < MaxDrafts /\ made' = [made EXCEPT ![a] = @ + 1]
    /\ LET m == app[a].revisions[app[a].active].manifest
       IN /\ RouteIsFree(a, m.key)
          /\ draft' = Row(draft, a, [base |-> app[a].active, version |-> 1,
                                     manifest |-> m, serial |-> made[a] + 1])
    /\ UNCHANGED <<app, appResource, roleBinding, author>>

SaveAppDraft(a, m) ==
    /\ Editable(a) /\ a \in DOMAIN draft
    /\ draft[a].base = app[a].active
    /\ draft[a].version < MaxDraftVersion
    /\ RouteIsFree(a, m.key)
    /\ draft' = [draft EXCEPT ![a].version = @ + 1, ![a].manifest = m]
    /\ UNCHANGED <<app, appResource, roleBinding, made, author>>

DiscardDraft(a) ==
    /\ a \in DOMAIN draft
    /\ draft' = Delete(draft, a)
    /\ UNCHANGED <<app, appResource, roleBinding, made, author>>

\* Mutant of MovedAway: only the resource of the app itself is deleted.
MovedAwayAlone(a, realm) ==
    {r \in appResource : r.app = a /\ r.node = "app" /\ r.realm # realm}

(* syncAuthorizationResource: the tree in another realm is deleted; in the *)
(* same realm the pages that a revision no longer has are left.            *)
MovedAway(a, realm) ==
    {r \in appResource : /\ r.app = a /\ r.realm # realm
                         /\ [r EXCEPT !.node = "app"] \in appResource}
ResourcesOf(a, m) == {[app |-> a, realm |-> m.realm, node |-> n] : n \in {"app"} \cup m.pages}
Staying(a, m) == appResource \ MovedAway(a, m.realm)
Syncable(a, m) ==
    /\ \A b \in roleBinding : b.resource \in Staying(a, m)    \* AUTHORIZATION_RESOURCE_REFERENCED
    /\ \A r \in Staying(a, m), d \in ResourcesOf(a, m) :      \* ADMIN_APP_RESOURCE_ID_CONFLICT
         r.app = d.app /\ r.node = d.node => r.realm = d.realm
SyncAppResources(a, m) == appResource' = Staying(a, m) \cup ResourcesOf(a, m)

(* The app points to the revision and has its key and audience.            *)
Activated(a, revisions, r) ==
    [app EXCEPT ![a] = [@ EXCEPT !.key = revisions[r].manifest.key,
                                 !.realm = revisions[r].manifest.realm,
                                 !.revisions = revisions, !.active = r,
                                 !.route = app[a].route + 1]]

(* preview and apply: both look at the app and at its draft, and go on if  *)
(* the draft is based on the active revision.  apply goes on only if what  *)
(* it sees is the plan shown before, which names the hash of the manifest; *)
(* dependencies that block an apply are left out.                          *)
StartPreview(t, a) ==
    /\ author[t] = NoApply /\ a \in DOMAIN app
    /\ author' = [author EXCEPT ![t] = [step |-> "preview", on |-> a, shown |-> <<>>,
                                        seen |-> <<>>, serial |-> 0]]
    /\ UNCHANGED <<app, draft, appResource, roleBinding, made>>
StartApply(t) ==
    /\ author[t].step = "shown"
    /\ author' = [author EXCEPT ![t].step = "apply"]
    /\ UNCHANGED <<app, draft, appResource, roleBinding, made>>

Rows(a) ==
    [table \in {"app" : x \in DOMAIN app \cap {a}} \cup {"draft" : x \in DOMAIN draft \cap {a}} |->
        IF table = "app" THEN [active |-> app[a].active, route |-> app[a].route]
        ELSE [base |-> draft[a].base, version |-> draft[a].version,
              manifest |-> draft[a].manifest]]

Concluded(look) ==
    IF look.seen["draft"].base # look.seen["app"].active THEN NoApply
    ELSE CASE look.step = "preview" ->
                [look EXCEPT !.step = "shown", !.shown = look.seen, !.seen = <<>>]
           [] look.step = "apply" /\ look.seen = look.shown ->
                [look EXCEPT !.step = "checked", !.seen = <<>>]
           [] OTHER -> NoApply

Look(t, table) ==
    LET a == author[t].on
        look == [author[t] EXCEPT !.seen = Row(@, table, Rows(a)[table]),
                                  !.serial = IF table = "draft" THEN draft[a].serial ELSE @]
    IN /\ author[t].step \in {"preview", "apply"}
       /\ table \in {"app", "draft"} \ DOMAIN author[t].seen
       /\ author' = [author EXCEPT ![t] =
              IF table \notin DOMAIN Rows(a) THEN NoApply
              ELSE IF DOMAIN look.seen = {"app", "draft"} THEN Concluded(look)
              ELSE look]
       /\ UNCHANGED <<app, draft, appResource, roleBinding, made>>

\* Mutant of DraftIsAsShown: the store does not compare the draft again.
DraftIsAny(t) == TRUE

DraftIsAsShown(t) == draft[author[t].on].version = author[t].shown["draft"].version

(* ... and applyDraft compares the versions, not the manifest.             *)
ApplyDraft(t) ==
    LET a == author[t].on
        d == draft[a]
        revisions == Append(app[a].revisions, [manifest |-> d.manifest, parent |-> app[a].active])
    IN /\ author[t].step = "checked"
       /\ author' = [author EXCEPT ![t] = NoApply]
       /\ IF /\ Editable(a) /\ author[t].shown["app"] = Rows(a)["app"]
             /\ a \in DOMAIN draft /\ DraftIsAsShown(t) /\ d.base = app[a].active
             /\ RouteIsFree(a, d.manifest.key) /\ RouteBumped(a)
             /\ Len(app[a].revisions) < MaxRevisions
             /\ Syncable(a, d.manifest)
          THEN /\ SyncAppResources(a, d.manifest)
               /\ app' = Activated(a, revisions, Len(revisions))
               /\ draft' = Delete(draft, a)
          ELSE UNCHANGED <<app, draft, appResource>>
       /\ UNCHANGED <<roleBinding, made>>

(* rollback                                                                *)
ActivateRevision(a, r) ==
    /\ Editable(a) /\ RouteBumped(a)
    /\ app[a].active # 0 /\ r \in DOMAIN app[a].revisions \ {app[a].active}
    /\ a \notin DOMAIN draft
    /\ RouteIsFree(a, app[a].revisions[r].manifest.key)
    /\ Syncable(a, app[a].revisions[r].manifest)
    /\ SyncAppResources(a, app[a].revisions[r].manifest)
    /\ app' = Activated(a, app[a].revisions, r)
    /\ UNCHANGED <<draft, roleBinding, made, author>>

SetAppArchived(a, archived) ==
    /\ a \in DOMAIN app /\ app[a].archived # archived /\ RouteBumped(a)
    /\ app' = [app EXCEPT ![a].archived = archived, ![a].route = @ + 1]
    /\ UNCHANGED <<draft, appResource, roleBinding, made, author>>

(* Drafts go with their app, revisions would keep it.                      *)
DeleteUnappliedApp(a) ==
    /\ a \in DOMAIN app /\ app[a].active = 0
    /\ app' = Delete(app, a) /\ draft' = Delete(draft, a)
    /\ UNCHANGED <<appResource, roleBinding, made, author>>

(* Policy mutations that bind a role on a resource, and take it back.      *)
BindRole(r, role) ==
    /\ [resource |-> r, role |-> role] \notin roleBinding
    /\ roleBinding' = roleBinding \cup {[resource |-> r, role |-> role]}
    /\ UNCHANGED <<app, draft, appResource, made, author>>
UnbindRole(b) ==
    /\ roleBinding' = roleBinding \ {b}
    /\ UNCHANGED <<app, draft, appResource, made, author>>

-----------------------------------------------------------------------------
AppRequest(a) ==
    \/ \E m \in Manifests : CreateApp(a, m) \/ SaveAppDraft(a, m)
    \/ \E r \in 1..MaxRevisions : ActivateRevision(a, r)
    \/ \E archived \in BOOLEAN : SetAppArchived(a, archived)
    \/ CreateDraft(a) \/ DiscardDraft(a) \/ DeleteUnappliedApp(a)
AppsNext ==
    \/ \E a \in AppIds : AppRequest(a) \/ \E t \in Authors : StartPreview(t, a)
    \/ \E t \in Authors : \/ StartApply(t) \/ ApplyDraft(t)
                         \/ \E table \in {"app", "draft"} : Look(t, table)
    \/ \E r \in appResource, role \in Roles : BindRole(r, role)
    \/ \E b \in roleBinding : UnbindRole(b)

AppsSpec == AppsInit /\ [][AppsNext]_avars

-----------------------------------------------------------------------------
Reserved(a) == {app[a].key} \cup (IF a \in DOMAIN draft THEN {draft[a].manifest.key} ELSE {})

(* No two apps lay claim to a route, by what they are or by what their     *)
(* drafts want, whatever is applied, rolled back, archived or deleted; and *)
(* a draft is always based on the revision that is active.                 *)
RoutesAreReserved ==
    /\ \A a, b \in DOMAIN app : a # b => Reserved(a) \cap Reserved(b) = {}
    /\ \A a \in DOMAIN draft : a \in DOMAIN app /\ draft[a].base = app[a].active

(* The app, its audience and its authorization resources are those of the  *)
(* active revision: all of them in the realm of the audience, and none of  *)
(* an app that was never applied.                                          *)
ResourcesFollowRevisions ==
    /\ \A a \in DOMAIN app : app[a].active # 0 =>
         LET m == app[a].revisions[app[a].active].manifest
         IN app[a].key = m.key /\ app[a].realm = m.realm /\ ResourcesOf(a, m) \subseteq appResource
    /\ \A b \in roleBinding : b.resource \in appResource
    /\ \A r \in appResource : /\ r.app \in DOMAIN app /\ app[r.app].active # 0
                              /\ r.realm = app[r.app].realm

AppsAreWhole == RoutesAreReserved /\ ResourcesFollowRevisions

(* What is applied is what the author was shown, on the revision it was    *)
(* shown on: unless the draft was discarded and made again after the       *)
(* service looked, when only its version number is the same.               *)
AppliesWhatWasShown ==
    [][\A a \in DOMAIN app \cap DOMAIN app' :
         Len(app'[a].revisions) > Len(app[a].revisions) =>
           \E t \in Authors :
             /\ author[t].step = "checked" /\ author[t].on = a /\ author'[t] = NoApply
             /\ author[t].serial = draft[a].serial =>
                  app'[a].revisions[app'[a].active] =
                    [manifest |-> author[t].shown["draft"].manifest,
                     parent |-> author[t].shown["app"].active]]_avars
=============================================================================
