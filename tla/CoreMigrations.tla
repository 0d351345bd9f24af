--------------------------- MODULE CoreMigrations ---------------------------
(***************************************************************************)
(* migrateCore: every server that starts takes the migration lock and, in  *)
(* one transaction, applies what the database has no marker of.  Modelled  *)
(* is what the migrations do to the policy of one realm, to its people,    *)
(* sessions, ceilings and break-glass grants.  Permissions stand for the   *)
(* group a migration introduces; columns, indexes and constraints on data  *)
(* no property looks at are left out.                                      *)
(***************************************************************************)
EXTENDS Integers, FiniteSets

CONSTANTS Migrators,   \* servers that start
          People,      \* accounts of the workspace
          Databases    \* what earlier releases may have left

VARIABLES database,    \* what is committed
          upgrade,     \* the transaction that holds the lock, or NoUpgrade
          ready        \* servers whose migrateCore has returned

mvars == <<database, upgrade, ready>>

Ids == 1..30
NoUpgrade == [by |-> "nobody"]
Refused == [refused |-> TRUE]

SeedPermissions == {"manage", "apply", "assign", "content"}
Delegatable == {"content", "assign", "service", "site", "retention", "plugin", "appAdmin",
                "access", "page"}
Collections == {"posts", "users"}    \* users holds the profiles of the realm
Provisioner == "provisioner"

Has(d, T) == T \subseteq d.tables
Creating(d, T) == [d EXCEPT !.tables = @ \cup T]
Cataloged(d, P) == [d EXCEPT !.catalog = @ \cup P]
Granting(d, R, P) ==
    [d EXCEPT !.role = [r \in DOMAIN d.role |->
        [permissions |-> d.role[r].permissions \cup (IF r \in R THEN P ELSE {}),
         delegates |-> d.role[r].delegates]]]
\* A row of role_delegations refers to one of role_permissions.
Entrusting(d, R, P) ==
    [d EXCEPT !.role = [r \in DOMAIN d.role |->
        [permissions |-> d.role[r].permissions,
         delegates |-> d.role[r].delegates
                       \cup (IF r \in R THEN P \cap d.role[r].permissions ELSE {})]]]

-----------------------------------------------------------------------------
(* The migrations, each on the database of its transaction. *)

Core(d) ==
    Creating(d, {"workspaces", "realms", "identities", "sessions", "audit", "schema",
                 "drafts", "documents", "revisions"})
DraftVersions(d) == IF Has(d, {"drafts"}) THEN d ELSE Refused
DocumentEvents(d) == Creating(d, {"document_events"})

\* Every realm gets a policy state of revision 0; the server seeds the policy.
Authorization(d) ==
    IF Has(d, {"realms", "identities"})
    THEN Creating(d, {"subjects", "groups", "resources", "levels", "permissions", "roles",
                      "bindings", "policy", "policy_audit"})
    ELSE Refused
AuthorizationContract(d) == IF Has(d, {"resources", "roles", "groups", "policy"}) THEN d ELSE Refused
StorageFinalization(d) == IF Has(d, {"levels", "roles"}) THEN d ELSE Refused
AuditRetained(d) == IF Has(d, {"policy_audit"}) THEN d ELSE Refused
SchemaObjects(d) == IF Has(d, {"schema"}) THEN d ELSE Refused
Relations(d) == IF Has(d, {"documents"}) THEN Creating(d, {"relations"}) ELSE Refused
Media(d) == IF Has(d, {"documents", "workspaces"}) THEN Creating(d, {"media"}) ELSE Refused
Hierarchies(d) == IF Has(d, {"documents"}) THEN Creating(d, {"hierarchy"}) ELSE Refused
Quarantine(d) == IF Has(d, {"resources"}) THEN Creating(d, {"quarantine"}) ELSE Refused

\* Everybody with a subject in the realm becomes a member of it.
MembersJoined(d) ==
    LET joining(h) == d.kind = "system" /\ h \in d.subjects /\ d.person[h].system = "none"
        joined(h) == [d.person[h] EXCEPT !.system = IF d.person[h].subject THEN "active" ELSE "suspended"]
    IN [d EXCEPT !.person = [h \in People |-> IF joining(h) THEN joined(h) ELSE d.person[h]]]

\* A session stays only if an active member of the system realm opened it.
SessionsBound(d) ==
    [d EXCEPT !.sessions = {h \in @ : d.person[h].enabled /\ d.person[h].system = "active"}]

IdentityRealms(d) ==
    IF ~Has(d, {"realms", "subjects", "sessions", "documents", "schema"}) THEN Refused
    ELSE Creating(SessionsBound(MembersJoined(d)),
                  {"identifiers", "memberships", "auth_collections", "full_access"})

EventWorkers(d) == Creating(d, {"outbox", "deliveries", "receipts"})

UserIdentities(d) ==
    IF ~Has(d, {"identities", "sessions", "permissions", "roles"}) THEN Refused
    ELSE LET known == Cataloged(d, {"service", "transfer"})
             given == Granting(Granting(known, {"owner", "security"}, {"service"}), {"owner"}, {"transfer"})
         IN Creating(Entrusting(given, {"owner", "security"}, {"service"}), {"tokens", "api_keys"})

\* The role administrator the next three name is in no policy.
SiteSettings(d) ==
    IF ~Has(d, {"outbox", "permissions"}) THEN Refused
    ELSE Creating(Granting(Cataloged(d, {"site"}), {"owner", "administrator"}, {"site"}), {"sites"})
AuditRetention(d) ==
    IF ~Has(d, {"outbox", "deliveries", "sessions", "document_events"}) THEN Refused
    ELSE Creating(Granting(Cataloged(d, {"retention"}), {"owner", "administrator"}, {"retention"}),
                  {"retention"})
Plugins(d) ==
    IF ~Has(d, {"outbox", "permissions"}) THEN Refused
    ELSE Creating(Granting(Cataloged(d, {"plugin"}), {"owner", "administrator"}, {"plugin"}), {"plugins"})

OwnerDelegations(d) ==
    [d EXCEPT !.role["owner"].delegates = d.role["owner"].permissions \cap d.catalog \cap Delegatable]

\* Owner and Content Administrator of the system realm only.
AdminAppStore(d) ==
    LET known == Creating(Cataloged(d, {"appAdmin", "access"}), {"apps"}) IN
    IF ~Has(d, {"permissions", "roles"}) THEN Refused
    ELSE IF d.kind = "content" THEN known
    ELSE Entrusting(Granting(known, {"owner", "content"}, {"appAdmin", "access"}), {"owner"}, Delegatable)

\* Grants to subjects of the realm are archived, never turned into grants to
\* identities of the system realm.
ControlPlaneAccess(d) ==
    [d EXCEPT !.fullAccess = {g \in @ : g.to = "identity"}, !.tables = @ \cup {"full_access"}]

(* 0022: the provisioner moves from Owner to the hidden System Policy Root.  *)

\* Mutant of FoundationIsSound: whoever the provisioner is.
FoundationIsAny(d) == {"manage", "apply", "assign"} \subseteq d.role["owner"].permissions

FoundationIsSound(d) ==
    /\ d.provisioner = "service-account"
    /\ {"manage", "apply", "assign"} \subseteq d.role["owner"].permissions

\* Mutant of EligibleOwners: any member, whatever has become of the account.
AnyMember(d) == {h \in d.subjects : d.person[h].content = "active"}

\* The realms themselves being active: in an archived one nobody is active.
EligibleOwners(d) ==
    {h \in d.subjects :
        /\ d.person[h].subject /\ d.person[h].content = "active"
        /\ d.person[h].human /\ ~d.person[h].cmsOwner /\ d.person[h].enabled
        /\ d.person[h].system = "active"}

OnRoot(id, who, r) ==
    [id |-> id, who |-> who, role |-> r, on |-> "root", propagation |-> "self-and-children",
     protected |-> TRUE]

\* The root role is made, or made again, as a copy of Owner, for the provisioner.
RootGranted(d) ==
    [d EXCEPT
        !.role = [r \in DOMAIN @ \cup {"root"} |-> IF r = "root" THEN @["owner"] ELSE @[r]],
        !.bindings = {b \in @ : b.role # "root" /\ b.id # "system-policy-root"}
                     \cup {OnRoot("system-policy-root", Provisioner, "root")}]

\* The binding primary-owner, or else the historical one, is kept for a person
\* who is eligible; every other grant of Owner goes.
OwnersSettled(d) ==
    LET primary == {b \in d.bindings : b.id = "primary-owner" /\ b.who \in EligibleOwners(d)}
        legacy == {b \in d.bindings : b.id = "owner" /\ b.who \in EligibleOwners(d)}
        kept == IF primary # {} THEN primary ELSE legacy
    IN [d EXCEPT !.bindings =
            {b \in @ : b.role # "owner" /\ b.id # "primary-owner" /\ b \notin kept}
            \cup {OnRoot("primary-owner", b.who, "owner") : b \in kept}]

RealmOwners(d) ==
    IF d.kind = "system" \/ d.revision = 0 THEN d
    ELSE IF ~FoundationIsSound(d) THEN Refused
    ELSE [OwnersSettled(RootGranted(d)) EXCEPT !.revision = @ + 1]

-----------------------------------------------------------------------------
ControlPlaneAudit(d) == IF Has(d, {"policy_audit"}) THEN d ELSE Refused

\* A grant that ended before endings had reasons was revoked.
FullAccessLifecycle(d) ==
    [d EXCEPT !.fullAccess =
        {IF g.ended /\ g.why = "none" THEN [g EXCEPT !.why = "revoked"] ELSE g : g \in @}]

\* Mutant of Reaches: only what is bound on the collection itself.
ReachesSelf(b, c) == b.on = c

Reaches(b, c) ==
    CASE b.propagation = "self" -> b.on = c
      [] b.propagation = "children" -> b.on = "root" /\ c # "root"
      [] b.propagation = "self-and-children" -> b.on \in {c, "root"}

\* What some binding grants on a collection becomes its ceiling, so that turning
\* enforcement on takes nothing away.  Profiles are under no ceiling.
CollectionEntitlements(d) ==
    LET grantedOn(c) == UNION {d.role[b.role].permissions \cap {"content"} :
                                 b \in {b \in d.bindings : Reaches(b, c)}}
        made == {c \in Collections \ d.auth : grantedOn(c) # {}}
    IN IF ~Has(d, {"auth_collections", "resources"}) THEN Refused
       ELSE IF d.kind = "system" THEN Creating(d, {"entitlements"})
       ELSE [Creating(d, {"entitlements"}) EXCEPT
                !.ceiling = [c \in made |-> grantedOn(c)], !.enforced = @ + 1]

ManagementDelegations(d) == Creating(d, {"delegations"})

AdminAppAccess(d) ==
    Entrusting(Granting(d, {"owner", "content"}, {"access"}), {"owner", "content"}, {"access"})

EntitlementCleanup(d) ==
    LET stale == DOMAIN d.ceiling \cap d.auth IN
    IF stale = {} THEN d
    ELSE [d EXCEPT !.ceiling = [c \in DOMAIN @ \ stale |-> @[c]], !.enforced = @ + 1]

\* Mutant of AdminAppPages: only the seeded roles.
AdminAppPagesSeeded(d) ==
    Entrusting(Granting(Cataloged(d, {"page"}), {"owner", "content"}, {"page"}), {"owner", "content"}, {"page"})

\* Whoever could open apps can read and use the pages, as before there were any.
AdminAppPages(d) ==
    LET having == {"owner", "content"} \cup {r \in DOMAIN d.role : "access" \in d.role[r].permissions}
        delegating == {"owner", "content"} \cup {r \in DOMAIN d.role : "access" \in d.role[r].delegates}
    IN Entrusting(Granting(Cataloged(d, {"page"}), having, {"page"}), delegating, {"page"})

MaskPolicies(d) == IF Has(d, {"apps"}) THEN d ELSE Refused

Apply(i, d) ==
    CASE i = 1 -> Core(d) [] i = 2 -> DraftVersions(d) [] i = 3 -> DocumentEvents(d)
      [] i = 4 -> Authorization(d) [] i = 5 -> AuthorizationContract(d)
      [] i = 6 -> StorageFinalization(d) [] i = 7 -> AuditRetained(d)
      [] i = 8 -> SchemaObjects(d) [] i = 9 -> Relations(d) [] i = 10 -> Media(d)
      [] i = 11 -> Hierarchies(d) [] i = 12 -> Quarantine(d) [] i = 13 -> IdentityRealms(d)
      [] i = 14 -> EventWorkers(d) [] i = 15 -> UserIdentities(d) [] i = 16 -> SiteSettings(d)
      [] i = 17 -> AuditRetention(d) [] i = 18 -> Plugins(d) [] i = 19 -> OwnerDelegations(d)
      [] i = 20 -> AdminAppStore(d) [] i = 21 -> ControlPlaneAccess(d)
      [] i = 22 -> RealmOwners(d) [] i = 23 -> ControlPlaneAudit(d)
      [] i = 24 -> FullAccessLifecycle(d) [] i = 25 -> CollectionEntitlements(d)
      [] i = 26 -> ManagementDelegations(d) [] i = 27 -> AdminAppAccess(d)
      [] i = 28 -> EntitlementCleanup(d) [] i = 29 -> AdminAppPages(d) [] i = 30 -> MaskPolicies(d)

Marked(i, d) == [d EXCEPT !.applied = @ \cup {i}]

-----------------------------------------------------------------------------
(* migrateCore of one server *)

\* BEGIN and pg_advisory_xact_lock: only then the markers are read.
Begin(s) ==
    /\ s \notin ready /\ upgrade = NoUpgrade
    /\ upgrade' = [by |-> s, database |-> database]
    /\ UNCHANGED <<database, ready>>

Pending(d) == Ids \ d.applied
Earliest(S) == CHOOSE i \in S : \A j \in S : i <= j

ApplyMigration(s) ==
    /\ upgrade # NoUpgrade /\ upgrade.by = s /\ Pending(upgrade.database) # {}
    /\ LET i == Earliest(Pending(upgrade.database))
           after == Apply(i, upgrade.database)
       IN upgrade' = IF after = Refused THEN NoUpgrade
                     ELSE [upgrade EXCEPT !.database = Marked(i, after)]
    /\ UNCHANGED <<database, ready>>

Commit(s) ==
    /\ upgrade # NoUpgrade /\ upgrade.by = s /\ Pending(upgrade.database) = {}
    /\ database' = upgrade.database
    /\ upgrade' = NoUpgrade
    /\ ready' = ready \cup {s}

\* An error or the end of the process: the transaction is rolled back.
Rollback(s) ==
    /\ upgrade # NoUpgrade /\ upgrade.by = s
    /\ upgrade' = NoUpgrade
    /\ UNCHANGED <<database, ready>>

MigrationsInit ==
    /\ database \in Databases
    /\ upgrade = NoUpgrade
    /\ ready = {}

MigrationsNext ==
    \E s \in Migrators : Begin(s) \/ ApplyMigration(s) \/ Commit(s) \/ Rollback(s)

-----------------------------------------------------------------------------
(* Properties. *)

Covers(b, c) ==
    \/ b.on = c /\ b.propagation # "children"
    \/ b.on = "root" /\ c # "root" /\ b.propagation # "self"
HoldsBy(d, b, h, p, c) == b \in d.bindings /\ b.who = h /\ Covers(b, c) /\ p \in d.role[b.role].permissions
Holds(d, h, p, c) == \E b \in d.bindings : HoldsBy(d, b, h, p, c)

\* Who may be the owner of a realm.
Fit(d, h) ==
    LET is == d.person[h] IN
    /\ h \in d.subjects /\ is.subject /\ is.human /\ is.enabled /\ ~is.cmsOwner
    /\ is.content = "active" /\ is.system = "active"
ChosenOwner(d, h) == Fit(d, h) /\ \E b \in d.bindings : b.who = h /\ b.id \in {"owner", "primary-owner"}

\* The root role of the provisioner, and at most one owner, a person.
OwnersAreSettled(d) ==
    LET owners == {b \in d.bindings : b.role = "owner"} IN
    /\ d.provisioner = "service-account"
    /\ {"manage", "apply", "assign"} \subseteq d.role["owner"].permissions
    /\ "root" \in DOMAIN d.role /\ "manage" \in d.role["root"].permissions
    /\ OnRoot("system-policy-root", Provisioner, "root") \in d.bindings
    /\ Cardinality(owners) <= 1
    /\ \A b \in owners : b = OnRoot("primary-owner", b.who, "owner") /\ d.person[b.who].subject

\* What ensureRealmPolicy asks of the policy of a content realm: otherwise the
\* realm could provision nobody (REALM_AUTHORIZATION_POLICY_CONFLICT).
PolicyIsAccepted(d) == OwnersAreSettled(d) /\ "access" \in d.role["owner"].permissions

\* A server that starts finds a policy it accepts and sessions of members only,
\* whatever release left the database.
ReadyIsUpgraded ==
    ready # {} =>
        /\ database.applied = Ids
        /\ database.kind = "content" /\ database.revision > 0 => PolicyIsAccepted(database)
        /\ database.kind = "system" =>
             \A h \in database.sessions : database.person[h].system = "active"
        /\ \A g \in database.fullAccess : g.to = "identity" /\ (g.ended <=> g.why # "none")

\* Nobody gets what he did not have, but for the owner chosen earlier, if he is
\* fit, and for the access to apps, which the release before had forgotten.
NobodyGains(d, e) ==
    \A h \in People, c \in Collections \cup {"root"}, p \in d.catalog :
        Holds(e, h, p, c) =>
            \/ Holds(d, h, p, c) \/ ChosenOwner(d, h)
            \/ p = "access" /\ \E b \in d.bindings :
                  b.who = h /\ b.role \in {"owner", "content"} /\ Covers(b, c)

\* What 0022 takes: every grant of Owner and of the root role, whatever the two
\* bindings it makes have stood for, and, from whom it makes the owner, the
\* historical binding, even if a damaged one grants another role.
Takes(d, b) ==
    \/ b.role \in {"owner", "root"}
    \/ b.id \in {"primary-owner", "system-policy-root"}
    \/ b.id = "owner" /\ Fit(d, b.who)

\* Nobody loses what he had, but for what 0022 takes; who reached a collection
\* is not stopped by its new ceiling, and who could open apps reads their pages.
NobodyLoses(d, e) ==
    \A h \in People, c \in Collections \cup {"root"} :
        /\ \A b \in d.bindings, p \in d.catalog :
             HoldsBy(d, b, h, p, c) /\ ~Takes(d, b) => Holds(e, h, p, c)
        /\ /\ Holds(e, h, "content", c) /\ c \in Collections \ e.auth
           /\ e.kind = "content" /\ 25 \notin d.applied
           => c \in DOMAIN e.ceiling /\ "content" \in e.ceiling[c]
        /\ Holds(e, h, "access", c) /\ 29 \notin d.applied => Holds(e, h, "page", c)

\* An upgrade is all of its migrations at once, of one server, and leaves
\* everybody with what he had: 0022, 0025, 0027 and 0029 together.
UpgradesAreSound ==
    /\ []ReadyIsUpgraded
    /\ [][database' # database => NobodyGains(database, database') /\ NobodyLoses(database, database')]_mvars

\* Does not hold: 0027 gives Owner a permission after 0022 copied the role.
RootCopiesOwner ==
    ready # {} /\ database.kind = "content" /\ database.revision > 0 =>
        database.role["owner"].delegates \subseteq database.role["root"].delegates

-----------------------------------------------------------------------------
(* What is assumed of a database that a release left behind.               *)

\* The rows have the columns, a binding names a role there is, and the role of
\* the owner is protected.
IsDatabase(d) ==
    /\ d = [tables |-> d.tables, applied |-> d.applied, kind |-> d.kind, revision |-> d.revision,
            catalog |-> d.catalog, role |-> d.role, provisioner |-> d.provisioner,
            subjects |-> d.subjects, bindings |-> d.bindings, sessions |-> d.sessions,
            person |-> d.person, auth |-> d.auth, ceiling |-> d.ceiling,
            enforced |-> d.enforced, fullAccess |-> d.fullAccess]
    /\ d.kind \in {"system", "content"} /\ d.revision \in Nat
    /\ d.role = [r \in DOMAIN d.role |->
         [permissions |-> d.role[r].permissions, delegates |-> d.role[r].delegates]]
    /\ "owner" \in DOMAIN d.role
    /\ \A b \in d.bindings :
         b.role \in DOMAIN d.role /\ b.propagation \in {"self", "children", "self-and-children"}
    /\ d.person = [h \in People |->
         [subject |-> d.person[h].subject, content |-> d.person[h].content,
          human |-> d.person[h].human, cmsOwner |-> d.person[h].cmsOwner,
          enabled |-> d.person[h].enabled, system |-> d.person[h].system]]
    /\ \A g \in d.fullAccess : g = [to |-> g.to, ended |-> g.ended, why |-> g.why]

\* The permissions that come into the catalog with a migration.
Introduces(i) ==
    CASE i = 15 -> {"service", "transfer"} [] i = 16 -> {"site"} [] i = 17 -> {"retention"}
      [] i = 18 -> {"plugin"} [] i = 20 -> {"appAdmin", "access"} [] i = 29 -> {"page"}
      [] OTHER -> {}

\* The primary key of the bindings, which may stand for anything: some builds
\* damaged those of the seed.
IdsAreKeys(d) == \A b1, b2 \in d.bindings : b1.id = b2.id => b1 = b2

\* What a migration established is kept by the constraints it added and by the
\* servers of the releases since.
IsKept(d) ==
    /\ 13 \in d.applied /\ d.kind = "system" => \A h \in d.sessions : d.person[h].system = "active"
    /\ 21 \in d.applied => \A g \in d.fullAccess : g.to = "identity"
    /\ \A g \in d.fullAccess : IF 24 \in d.applied THEN g.ended <=> g.why # "none" ELSE g.why = "none"
    /\ d.kind = "content" /\ d.revision > 0 =>
         /\ 22 \in d.applied => OwnersAreSettled(d)
         /\ 27 \in d.applied => "access" \in d.role["owner"].permissions

LeftByARelease(d) ==
    /\ IsDatabase(d) /\ IsKept(d)
    /\ \E n \in 0..30 : d.applied = 1..n
    /\ \A i \in Ids \ d.applied : Introduces(i) \cap d.catalog = {}
    /\ 22 \notin d.applied => IdsAreKeys(d)

ASSUME DatabasesAssumption ==
    Provisioner \notin People /\ \A d \in Databases : LeftByARelease(d)
=============================================================================
