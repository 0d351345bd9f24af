------------------------- MODULE MCContentServices -------------------------
(***************************************************************************)
(* Small instances of the services around documents that share no state:   *)
(* the media library, the admin apps with their pages, the queries, and    *)
(* the policy tables with what moving a document does to them.  A          *)
(* behaviour explores one of them, its focus, as in MCWorkspaceServices.   *)
(***************************************************************************)
EXTENDS MediaLibrary, AppRuntime, DocumentQuery, AccessImpact, TLC

CONSTANTS a1, a2, t1, t2   \* admin apps and their authors

VARIABLE focus

AppIdsDef == {a1, a2}
AuthorsDef == {t1, t2}
Manifest(k, r, n) == [key |-> k, realm |-> r, pages |-> {n}]
ManifestsDef ==
    {Manifest("x", "system", "p"), Manifest("y", "system", "q"), Manifest("x", "staff", "p")}
RolesDef == {{"access", "read"}, {"access", "unmask"}}
BatchesDef == <<{"access", "read"}, {"unmask"}>>
By(column, kind, desc) == [by |-> column, kind |-> kind, desc |-> desc]
RowsDef == 1..3
SortsDef ==
    {DefaultSort, <<By("data", "date", FALSE)>>,
     <<By("data", "number", TRUE), By("updated", "datetime", FALSE)>>}
User == [type |-> "user", identity |-> NoIdentity]
Group == [type |-> "group", identity |-> NoIdentity]
RoleOf(l, ks, ds, f) == [level |-> l, permissions |-> ks, delegates |-> ds, fields |-> f]
Bound(s, r, x, p) == [subject |-> s, role |-> r, resource |-> x, propagation |-> p]
Node(kind, p) == [kind |-> kind, parent |-> p]
Under(x, fs) == [y \in {x} |-> fs]
Joins(g, s) == [group |-> g, member |-> s]
Tree == ("list" :> Node("collection", "content")) @@ ("one" :> Node("document", "list"))
        @@ ("two" :> Node("document", "one")) @@ ("three" :> Node("document", "list"))
\* A realm just initialized, once it has documents.
NewRealm(rooted) ==
    LET p == InitialPolicy(rooted, "ann")
    IN [p EXCEPT !.resources = @ @@ Tree, !.subjects = @ @@ ("desk" :> Group)]
\* A small one: ann is in the crew, who read the documents.
Crew ==
    [revision |-> 1,
     subjects |-> [s \in {"ann", "crew", "desk"} |-> IF s = "ann" THEN User ELSE Group],
     members |-> ("in-crew" :> Joins("crew", "ann")),
     resources |-> ("root" :> Node("root", "none")) @@ [Tree EXCEPT !["list"].parent = "root"],
     levels |-> ("owner" :> 2) @@ ("viewer" :> 1),
     permissions |-> {"content.read", "authorization.manage"},
     roles |-> ("owner" :> RoleOf("owner", {"authorization.manage"}, {}, Unrestricted))
        @@ ("viewer" :> RoleOf("viewer", {"content.read"}, {}, Unrestricted)),
     bindings |-> ("primary" :> Bound("ann", "owner", "root", "self-and-children"))
        @@ ("reads" :> Bound("crew", "viewer", "list", "self-and-children"))]
\* The least, for the services that leave the policy alone.
Alone ==
    [Crew EXCEPT !.subjects = "ann" :> User, !.members = <<>>, !.resources = "root" :> Node("root", "none"),
        !.levels = "owner" :> 2, !.permissions = {"authorization.manage"},
        !.roles = "owner" :> @["owner"], !.bindings = "primary" :> @["primary"]]
SeedsDef == {NewRealm(FALSE), NewRealm(TRUE), Crew, Alone}
Change(op, t, id, v) == [op |-> op, table |-> t, id |-> id, value |-> v]
Deletion(t, id) == [op |-> "delete", table |-> t, id |-> id]
GroupAsks ==
    {Change("create", "members", "more", Joins("desk", "crew")),
     Change("create", "members", "back", Joins("crew", "desk")),
     Change("update", "members", "in-crew", Joins("desk", "ann")),
     Deletion("members", "in-crew"), Deletion("members", "more"),
     Change("create", "subjects", "club", Group), Deletion("subjects", "club"), Deletion("subjects", "ann"),
     Change("create", "members", "clubbed", Joins("club", "desk")),
     Change("update", "subjects", "ann", User)}
RoleAsks ==
    {Change("create", "roles", "new", RoleOf("viewer", {"content.read"}, {}, Unrestricted)),
     Change("update", "roles", "new", RoleOf("viewer", {"content.read"}, {"content.read"}, <<>>)),
     Change("update", "roles", "new", RoleOf("mid", {PluginKey, "content.read"}, {PluginKey}, Under("one", {"title"}))),
     Change("update", "roles", "viewer", RoleOf("viewer", {"content.read"}, {}, Under("two", {}))),
     Deletion("roles", "new"), Deletion("levels", "mid"), Change("create", "levels", "mid", 80), Change("create", "levels", "mid", 50),
     Change("create", "bindings", "extra", Bound("desk", "new", "two", "self")), Deletion("bindings", "extra"),
     [op |-> "replace-owner", table |-> "bindings", id |-> "primary", value |-> Bound("desk", "owner", "root", "self-and-children")],
     [op |-> "reconcile", table |-> "resources", deletes |-> {"two"}, upserts |-> <<>>],
     [op |-> "reconcile", table |-> "resources", deletes |-> {"one", "two"}, upserts |-> ("four" :> Node("document", "three"))]}
MoveAsks ==
    {Deletion("bindings", "reads"),
     Change("update", "bindings", "reads", Bound("crew", "viewer", "three", "self-and-children")),
     Change("create", "bindings", "more", Bound("ann", "viewer", "one", "children")),
     Change("update", "roles", "viewer", RoleOf("viewer", {"content.read"}, {}, Under("two", {"title"}))),
     Change("update", "roles", "viewer", RoleOf("viewer", {"content.read"}, {}, Under("one", {"title"}))),
     Change("create", "resources", "three", Node("document", "two"))}
AsksDef == GroupAsks \cup RoleAsks \cup MoveAsks
Symmetry == Permutations(Media) \cup Permutations(Docs)

Foci == {"media", "authoring", "routes", "pages", "queries", "groups", "roles", "moves"}
ServicesInit ==
    /\ Init /\ RuntimeInit /\ QueryInit /\ TablesInit /\ focus \in Foci
    /\ tables \in CASE focus \in {"groups", "moves"} -> {InsertSeed(Crew)}
                    [] focus = "roles" -> {InsertSeed(NewRealm(rooted)) : rooted \in BOOLEAN}
                    [] OTHER -> {InsertSeed(Alone)}
    /\ IF focus = "queries" THEN /\ \A d \in RowIds : row[d].data # 2
            /\ Cardinality(hidden) <= 1 /\ Cardinality({d \in RowIds : row[d] = NoRow}) <= 1
       ELSE row = [d \in RowIds |-> NoRow] /\ hidden = {}

OneApp == DOMAIN made' \subseteq {a1}
OneAuthor == \A t \in Authors \ {t1} : author'[t] = NoApply
AtMostDrafts(n) == \A app1 \in DOMAIN made' : made'[app1] <= n

Drafting(S) == {draft'[app1].manifest : app1 \in DOMAIN draft'} \subseteq S

(* Uploads, deletions and a backup; one reference at a time is published.  *)
Library ==
    /\ focus = "media" /\ Next
    /\ Cardinality(UNION {{d} \X documents'[d].published : d \in Docs}) <= 1
(* Two authors of one app, which moves to another realm with other pages.  *)
Authoring ==
    /\ focus = "authoring" /\ AppsNext /\ OneApp /\ AtMostDrafts(2)
    /\ Drafting({Manifest("y", "system", "q"), Manifest("x", "staff", "p")})
    /\ roleBinding' = roleBinding /\ UNCHANGED view
(* Two apps that want the same routes.                                     *)
Routes ==
    /\ focus = "routes" /\ AppsNext /\ OneAuthor /\ AtMostDrafts(1)
    /\ roleBinding' = roleBinding /\ UNCHANGED view
(* A visitor of an app that is moved between audiences while roles are     *)
(* bound on it and taken back.  Drafts are written and looked at between   *)
(* visits, and applied, rolled back and archived at any time.              *)
Pages ==
    /\ focus = "pages" /\ RuntimeNext /\ OneApp /\ OneAuthor /\ AtMostDrafts(2) /\ Cardinality(roleBinding') <= 1
    /\ Drafting({m \in Manifests : m.key = "x"})
    /\ <<author', draft'>> # <<author, draft>> =>
         app' # app \/ \A v \in Visitors : view[v] = NoView
    /\ \A r \in roleBinding' : r.resource.node = "app"

(* Members of groups change while identities are linked to subjects.       *)
Groups ==
    /\ focus = "groups" /\ TablesNext(GroupAsks)
    /\ tables'.permissions = tables.permissions
(* Roles, levels and bindings change while a plugin comes and goes.        *)
RoleChanges ==
    /\ focus = "roles" /\ TablesNext(RoleAsks)
    /\ tables'.memberships = tables.memberships /\ tables'.revision < MaxTableRevision
(* Documents are moved while what is granted on them changes.              *)
Moves ==
    /\ focus = "moves" /\ ImpactNext(MoveAsks)
    /\ tables'.memberships = tables.memberships /\ tables'.permissions = tables.permissions
    /\ tables'.revision < MaxTableRevision

ServicesNext ==
    /\ \/ Library /\ UNCHANGED <<rvars, qvars, tvars>>
       \/ (Authoring \/ Routes \/ Pages) /\ UNCHANGED <<vars, qvars, tvars>>
       \/ focus = "queries" /\ QueryNext /\ UNCHANGED <<vars, rvars, tvars>>
       \/ (Groups \/ RoleChanges \/ Moves) /\ UNCHANGED <<vars, rvars, qvars>>
    /\ UNCHANGED focus
Services == ServicesInit /\ [][ServicesNext]_<<vars, rvars, qvars, tvars, focus>>
=============================================================================
