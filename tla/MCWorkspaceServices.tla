------------------------ MODULE MCWorkspaceServices ------------------------
(***************************************************************************)
(* Small instances of the services that share no state: the sites of a     *)
(* workspace, the ceilings of a realm and the delegations between realms.  *)
(* A behaviour explores one of them, its focus; the others stay as they    *)
(* are at first.  So the states of the run are the sum of those of the     *)
(* instances, not their product.                                           *)
(***************************************************************************)
EXTENDS Sites, CollectionCeilings, RealmDelegations, CoreMigrations, RealmProvisioning, TLC

CONSTANTS a, b, third,        \* sites
          p, news,            \* collections of the sites
          x, y,               \* administrators, who are owners of the CMS
          posts, pages, users,\* collections under ceilings
          k1, k2,               \* concurrent requests of a server
          u, m1,                \* an account, and a manager
          h1, h2,               \* people in the databases of earlier releases
          r1, r2, s1, s2        \* requests for membership, and passwords

VARIABLE focus

SiteIdsDef == {a, b, third}
SiteCollectionsDef == {p, news}
AdminsDef == {x, y}
OwnersDef == {x, y}
ChecksDef == {k1, k2}
TermsDef == {[actions |-> {"read"}, ownerOnly |-> o] : o \in BOOLEAN}
GrantedDef == [s \in {posts, pages, users} |-> [actions |-> {"read"}, ownerOnly |-> FALSE]]
SchemasDef ==
    {[collections |-> {posts, pages}, auth |-> {}],
     [collections |-> {posts, pages, users}, auth |-> {}],
     [collections |-> {posts, pages, users}, auth |-> {pages}]}
HomeDef == m1 :> "staff"
ScopesDef ==
    {[act1 \in DelegableActions |-> IF act1 = "identity.disable" THEN rule ELSE "all"] :
        rule \in {"any", "all", "none"}}
(* What earlier releases left: a database brought to a release, seeded by its *)
(* server, and changed by its people.  The families vary one thing each.      *)
PeopleDef == {h1, h2}
FitPerson ==
    [subject |-> TRUE, content |-> "active", human |-> TRUE, cmsOwner |-> FALSE, enabled |-> TRUE,
     system |-> "active"]
Empty(kind) ==
    [tables |-> {}, applied |-> {}, kind |-> kind, revision |-> 0, catalog |-> {"manage", "apply", "assign", "content"},
     role |-> [r \in {"owner", "content", "security", "custom"} |->
        [permissions |-> CASE r = "owner" -> {"manage", "apply", "assign", "content"}
                           [] r = "content" -> {"content"}
                           [] r = "security" -> {"assign"} [] r = "custom" -> {"content"},
         delegates |-> {}]],
     provisioner |-> "service-account", subjects |-> PeopleDef, bindings |-> {}, sessions |-> {},
     person |-> [h \in PeopleDef |-> FitPerson], auth |-> {"users"}, ceiling |-> <<>>,
     enforced |-> 0, fullAccess |-> {}]
Binding(id, who, r, on, prop) ==
    [id |-> id, who |-> who, role |-> r, on |-> on, propagation |-> prop, protected |-> FALSE]
Seeded(d, who) ==
    [d EXCEPT !.revision = 1, !.bindings = @ \cup {OnRoot("owner", who, "owner")}]
\* The database an earlier release, whose last migration is n, leaves behind.
Upgraded(d, n) ==
    LET after[i \in 0..n] ==
            CASE i = 0 -> d
              [] i \in d.applied -> after[i - 1]
              [] OTHER -> Marked(i, Apply(i, after[i - 1]))
    IN after[n]
\* A realm that was seeded by a release of the age 13 and then upgraded.
ContentAt(n, owner) == Upgraded(Seeded(Upgraded(Empty("content"), 13), owner), n)

PeopleKinds ==
    {FitPerson, [FitPerson EXCEPT !.subject = FALSE], [FitPerson EXCEPT !.content = "suspended"],
     [FitPerson EXCEPT !.human = FALSE], [FitPerson EXCEPT !.cmsOwner = TRUE],
     [FitPerson EXCEPT !.enabled = FALSE], [FitPerson EXCEPT !.system = "none"]}
StrayBindings ==
    {{}, {Binding("b2", h2, "owner", "posts", "self")}, {Binding("b2", h2, "root", "root", "self")},
     {Binding("primary-owner", h2, "owner", "root", "self")},
     {Binding("primary-owner", h2, "content", "posts", "self")}}
Owned ==
    {[ContentAt(n, who) EXCEPT
        !.person[h1] = k, !.person[h2].enabled = fine, !.bindings = @ \cup stray,
        !.role = IF \E s \in stray : s.role = "root" THEN ("root" :> @["content"]) @@ @ ELSE @] :
        n \in {13, 21}, who \in {Provisioner, h1}, k \in PeopleKinds, fine \in BOOLEAN, stray \in StrayBindings}
\* As postgres-realm-owner-migration.test.ts damages them: the historical binding
\* of an owner grants another role, that of the root another one or the root's.
DamagedOwner ==
    {[ContentAt(21, h1) EXCEPT
        !.person[h1] = k, !.bindings = {Binding("owner", h1, "content", "posts", "self")} \cup root,
        !.role = ("root" :> @["content"]) @@ @] :
        k \in PeopleKinds,
        root \in {{}, {Binding("system-policy-root", h2, "root", "posts", "children")},
                 {Binding("system-policy-root", h2, "content", "posts", "self")}}}
Damaged ==
    {[ContentAt(21, Provisioner) EXCEPT !.provisioner = kind, !.role["owner"].permissions = @ \ lost] :
        kind \in {"service-account", "user", "missing", "disabled"}, lost \in {{}, {"apply"}}}
Bound ==
    {[ContentAt(n, Provisioner) EXCEPT
        !.role["custom"] = [permissions |-> {"content"} \cup known, delegates |-> known],
        !.bindings = @ \cup {Binding("b1", h1, "custom", on, prop), Binding("b2", h2, r, "root", "self-and-children")},
        !.auth = auth] :
        n \in {21, 24, 27, 28}, known \in {{}, {"access"}}, on \in {"root", "posts", "users"},
        prop \in {"self", "children", "self-and-children"}, r \in {"custom", "content"},
        auth \in {{"users"}, {"posts", "users"}}}
BreakGlass ==
    {[ContentAt(n, Provisioner) EXCEPT !.fullAccess =
        {[to |-> "identity", ended |-> FALSE, why |-> "none"], [to |-> to, ended |-> ended, why |-> "none"]}] :
        n \in {13, 20, 21, 23}, to \in {"identity", "subject"}, ended \in BOOLEAN}
System ==
    {[Upgraded(Empty("system"), n) EXCEPT !.sessions = PeopleDef, !.subjects = S,
        !.person = [h \in PeopleDef |->
            [FitPerson EXCEPT !.content = "none", !.system = "none", !.subject = h = h1 => on, !.enabled = h = h1 => able]]] :
        n \in {1, 4, 12}, S \in {{h1}, {h1, h2}}, on \in BOOLEAN, able \in BOOLEAN}
DatabasesDef ==
    {Empty("system")} \cup Owned \cup DamagedOwner \cup Damaged \cup Bound \cup System
    \cup {d \in BreakGlass : (\E g \in d.fullAccess : g.to = "subject") => Cardinality(d.applied) < 21}
JoinersDef == {r1, r2}
PasswordsDef == {s1, s2}
Symmetry == Permutations({a, b, third}) \cup Permutations({p, news}) \cup Permutations({x, y})

Foci == {"defaults", "bindings", "archives", "grants", "passes", "delegates", "upgrades", "signups", "claims"}
Init ==
    /\ SitesInit /\ CeilingsInit /\ DelegationsInit /\ MigrationsInit /\ ProvisioningInit /\ focus \in Foci
    /\ focus \notin {"signups", "claims"} => admission = [active |-> TRUE, open |-> TRUE, accepts |-> "jit", defaults |-> {}]
    /\ focus # "upgrades" => database = Empty("system")
    /\ focus # "delegates" => account = [i \in Accounts |->
         [enabled |-> TRUE, system |-> FALSE, realms |-> {}, revision |-> 1]]

Asks(ops) == \A t \in Admins : request'[t].step = "asked" => request'[t].op \in ops

(* Two administrators move the default of three sites.                     *)
Defaults ==
    /\ focus = "defaults" /\ SitesNext /\ pass' = pass
    /\ Asks({"update", "setDefault", "archive", "reactivate"})
(* One binds collections while passes run.                                 *)
Bindings ==
    /\ focus = "bindings" /\ SitesNext
    /\ Asks({"bind", "unbind"})
    /\ Cardinality({t \in Admins : request'[t] # NoRequest}) <= 1
    /\ Cardinality(DOMAIN site') <= 2
(* Two bind one collection to two sites and archive these, between passes. *)
Archives ==
    /\ focus = "archives" /\ SitesNext /\ pass' = pass
    /\ Asks({"bind", "unbind", "archive", "reactivate"})
    /\ Cardinality(DOMAIN site') <= 2 /\ Cardinality(DOMAIN binding') <= 1
(* Two owners of one ceiling and two requests, the first pass under way.   *)
Grants ==
    /\ focus = "grants" /\ CeilingsNext
    /\ \A t \in Owners : grant'[t] # NoGrant => grant'[t].collection = posts
    /\ projection.step = "none" => projection' = projection
(* One owner and one request, passes of every kind.  What the owner puts is *)
(* never what a pass seeds.                                                 *)
Passes ==
    /\ focus = "passes" /\ CeilingsNext
    /\ \A t \in Owners : grant'[t].step \in {"put", "absent", "locked"} =>
         grant'[t].terms \notin {Granted[c] : c \in DOMAIN Granted}
    /\ Cardinality({t \in Owners : grant'[t] # NoGrant}) <= 1
    /\ check'[k2] = NoRow

(* One manager, whose realm is delegated the shop; the account may be      *)
(* anywhere, and join and leave the club.                                  *)
Delegates ==
    /\ focus = "delegates" /\ DelegationsNext
    /\ \A o \in Delegators : change'[o] # NoAct =>
         change'[o].of = [managing |-> "staff", managed |-> "shop"]
    /\ \A i \in Accounts : account'[i].realms \ {"club"} = account[i].realms \ {"club"}

(* Two requests for one identifier, known by one password.                 *)
Signups ==
    /\ focus = "signups" /\ ProvisioningNext
    /\ admission' = admission /\ admission = [active |-> TRUE, open |-> TRUE, accepts |-> "jit", defaults |-> {"member"}]
    /\ \A r \in Joiners : saga'[r] # NoSaga => saga'[r].password \in {s1, "none"}
    /\ identity' # NoIdentity => identity'.password = s1 /\ identity'.enabled
    /\ (\E r \in Joiners : saga[r] # NoSaga) => saga' # saga
(* One request for it, by somebody who may or may not know the password,   *)
(* and an administrator who does everything meanwhile.                     *)
Claims ==
    /\ focus = "claims" /\ ProvisioningNext /\ saga'[r2] = NoSaga
    /\ admission.accepts # "none"
    /\ admission'.open /\ admission'.accepts = admission.accepts /\ admission'.defaults = {"member"}
    /\ saga[r1] = NoSaga => identity = NoIdentity \/ saga'[r1] # NoSaga

Next ==
    /\ \/ (Defaults \/ Bindings \/ Archives) /\ UNCHANGED <<cvars, dvars, mvars, pvars>>
       \/ (Grants \/ Passes) /\ UNCHANGED <<svars, dvars, mvars, pvars>>
       \/ Delegates /\ UNCHANGED <<svars, cvars, mvars, pvars>>
       \/ focus = "upgrades" /\ MigrationsNext /\ UNCHANGED <<svars, cvars, dvars, pvars>>
       \/ (Signups \/ Claims) /\ UNCHANGED <<svars, cvars, dvars, mvars>>
    /\ UNCHANGED focus
Spec == Init /\ [][Next]_<<svars, cvars, dvars, mvars, pvars, focus>>
=============================================================================
