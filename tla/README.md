# Verification of XeCMS

XeCMS is a content management system: a Node server (`apps/server`) over PostgreSQL
(`packages/database`), with its rules in pure packages (`packages/core`,
`packages/schema`, `packages/authorization`) and its use cases in
`packages/application`. This directory holds TLA+ modules translated from that code,
TLC configurations that check them on small instances, and proofs that TLAPS checks
for every value of the constants. `PROJECT.json` says, definition by definition, which
lines of the code are modelled, and lists the hazards with the properties that are
about them.

Contents: 1 the system, 2 the modules, 3 the runs and their bounds, 4 fairness,
5 the proofs, 6 what is only model-checked, 7 what does not hold, 8 plan,
9 what is not modelled.

## 1. The system

| Component | State | Operations | What makes it correct |
|---|---|---|---|
| Document aggregate (`core/document`) | revisions, draft / publication / deletion / archive pointers, version | create, draft, publish, unpublish, restore revision, archive, unarchive, delete, restore | a command on a well-formed document yields a well-formed one; edits are private until published |
| Document service and store (`application/documents`, `database/postgres/document-*`) | document and revision rows, outbox | load (two queries), compute, hooks, conditional write | the optimistic protocol behaves as one atomic register: no torn load, no lost update; the events tell the state |
| Relations, hard purge (`documents.ts`, `postgres-relations`, `document-store`) | edge rows beside document data | restrict / nullify / cascade planning, one transaction | edges are those of the data, nothing dangles, a purge does what it planned, nobody waits for ever |
| Event worker (`event-worker`, `postgres-event-worker`) | outbox, deliveries, receipts, search index, lease clocks | fan-out, claim, handle, settle, operator retry, stop | attempts are accounted, a lease belongs to one claim, projections take place once, everything is settled |
| Retention (`retention`, `postgres-retention`) | policy, plans | preview, apply | what is removed is what was shown and is not needed |
| Content hierarchy (`core/hierarchy`, `postgres-hierarchy`) | node rows (parent, sort key, depth), closure rows, structure version, depth limit | create, move, reorder, purge with promotion, enable / disable | rows always encode an ordered forest; stale editors are refused |
| Hierarchy projection (`content-hierarchy-runtime`, `resource-projection`) | authorization resources, quarantine rows, stale sets in memory | mutate tree, fence, reconcile, recover | a stale projection fails closed until it is reconciled |
| Media and backup (`media`, `postgres-media`, `local-media-storage`, `cli/backup`) | records, files, reference rows, dump and archive | upload, delete, save references, back up | what a document refers to can be served, also from a backup |
| Schema registry (`schema-store`, `planner`, `schema`) | draft, revisions, issued ids, plans, runs | save draft, import, preview, apply | a plan is applied once, to what it was made for; ids are never reused; registry, tables and realms agree |
| Authorization kernel (`packages/authorization`) | none | evaluate, guard a change | what is allowed is what some binding of some group of the subject grants; nobody manages what stands above |
| Authorization services and store (`application/authorization`, `postgres-authorization`) | one policy per realm with a revision, tables, closures, caches | 19 mutations by compare-and-swap | what is committed was permitted by the policy it replaced; root and owner remain; rows are what was validated |
| Identities, sessions, realms (`auth`, `identity-realms`, `identity-administration`) | identities, credentials, sessions, tokens, memberships, owner | login, reset, disable, suspend, hand over, provision | a session is in force only for who proved what is still so; the owner of a realm is fit |
| Provisioning (`identity-realms`, `realm-authorization-provisioning`) | identity, subject, membership, profile, roles | sagas of sign-up, first login, administration | a saga that stops leaves nobody with more than asked, and can be taken up again |
| Entitlements and delegations (`realm-collection-entitlements`, `realm-management-delegations`) | ceilings with a version per realm, caches; delegations between realms | put, remove, reconcile, decide; reset, disable, sign out across realms | nothing stays allowed after it was withdrawn; accounts of the CMS are out of reach |
| Sites (`sites`, `postgres-sites`) | sites, bindings of collections, resources | default, archive, bind, projection passes | one active default; every collection hangs below the site it is bound to |
| Admin apps (`admin-apps`, `postgres-admin-apps`, `admin-app-*-routes`) | apps, revisions, drafts, routes, resources | draft, preview, apply, roll back, archive, serve a page | what is applied is what was shown; a page shows what one policy allows |
| Queries (`document-query`, `query-sql`) | none | keyset walks and aggregation | a walk over changing documents misses nothing that stays |
| Migrations (`migrate`, `*-migration.ts`) | markers, the migration lock | 30 core migrations at startup | all at once, of one server, and everybody keeps what they had |

How they interact. A route of the server calls an application service, which reads
through one store call, computes with a pure package and writes by one transaction of
the store. Five kinds of state cross those boundaries. (1) The *version* a client read
comes back with its command and is compared in the write. (2) The *outbox*: a document
command inserts its events in its own transaction, and workers, in the same or another
process, take them from there. (3) The *relation and media edges*: rows written beside
the document data, which restrict deletions elsewhere. (4) The *policy of a realm*, one
row with a revision that every change of subjects, roles, bindings and resources compares
and bumps, and that servers cache. (5) The *projections*: schema, trees, sites and apps are
copied into authorization resources by later transactions, under a session-level advisory
lock that only some of the writers take; every server keeps, in memory, which collections
it must not trust.

Hard behaviours: servers and clients interleaving between a read and the conditional
write; leases that expire under a live handler; crashes between two transactions or between
a transaction and a file operation; replies lost after COMMIT; previews applied to a world
that moved on; row locks taken in different orders; caches that are valid by a number;
sagas that stop in the middle; counters (sort keys, depths, attempts, versions) over long
command sequences. Each of them is in the `hazards` list of `PROJECT.json` with the line
where it bites.

## 2. Modules

| Module | Models | Relation to others |
|---|---|---|
| `DocumentAggregate` | commands, guards, selectors and assertion of `core/document` as operators; what events tell | |
| `DocumentRegister` | what documents promise: one register, changed by one command at a time | EXTENDS `DocumentAggregate` |
| `Documents` | requests of concurrent clients against the tables | implements `DocumentRegister` |
| `Delivery` | what the outbox promises for an event and a handler | |
| `EventWorker` | outbox, leases and worker processes | implements `Delivery` |
| `Retention` | preview and apply beside the workers | EXTENDS `EventWorker` |
| `HardPurge` | planning, locks and the transaction of a purge beside edits | |
| `OrderedForest` | what a hierarchy promises: sequences of children | |
| `ContentTree` | node rows, sort keys, depths, closure, structure version | implements `OrderedForest` |
| `ContentEditors` | clients that state the structure version they read | EXTENDS `ContentTree` |
| `HierarchyProjection` | tree, authorization graph, quarantine and server memory | |
| `MediaLibrary` | records, files, references, backup | |
| `SchemaRegistry` | drafts, previews, plans, runs, tables and realms | |
| `AccessPolicy` | the authorization kernel as operators | |
| `PolicyAuthority` | what the services promise: one policy, changed by permitted mutations | EXTENDS `AccessPolicy` |
| `PolicyRegister` | servers that decide on cached policies and commit later | EXTENDS and implements `PolicyAuthority` |
| `PolicyTables` | the dozen tables that hold a policy, their keys, cascades and closures | |
| `AccessImpact` | what moving a document does to what policies cover | EXTENDS `PolicyTables` |
| `RealmIdentities` | identities, credentials, sessions, memberships and owners | |
| `RealmProvisioning` | the sagas that make somebody a member of a realm | |
| `CollectionCeilings` | ceilings of a realm, caches, passes | |
| `RealmDelegations` | managers who act on accounts of other realms | |
| `Sites` | sites, bindings of collections, projection passes | |
| `AdminApps`, `AppRuntime` | apps, drafts and routes; the pages served to a visitor | `AppRuntime` EXTENDS `AdminApps` |
| `DocumentQuery` | keyset walks over documents that change | |
| `CoreMigrations` | the core migrations on databases of earlier releases | |
| `MCWorkspaceServices`, `MCContentServices` | small instances of services without common state, side by side | EXTEND those services |
| `NaturalRecursion` | induction over the natural numbers, for the proofs | |
| `*_proofs` | the proofs (section 5) | EXTEND what they are about |

`MC*` modules give the constants that are functions or symmetries. A comment that begins
"Mutant of" marks a definition that is not the code: it is a plausible bug, substituted
for the real definition to see that a property notices.

### Documents
`DocumentAggregate` keeps the guards in the order of the code and the assertion
(`AggregateOK`) conjunct by conjunct. Revision ids are pairs of a client and a version,
which stand for UUIDs. `DocumentRegister` applies a command atomically and appends its
event. `Documents` splits a request as the code does: `LoadIdentity` reads the document
row, `LoadRevisions` the revisions (`loadDocument` is two queries without a snapshot) and
the assertion fails the request when they do not fit together; the command is computed on
the copy; `CommitUpdate` is the conditional UPDATE of `updateDocumentWithClient`, which
succeeds only if the version is still the one read. `Abort` ends a request anywhere. Field
data is a function from fields to values; validation, authorization and singleton
creation are left out. `Replayed` is what a consumer of the outbox knows after a number of
events; it is a recursive function, so that it can be reasoned about.

### Event worker and retention
One action per transaction of the store: `FanOut`, `Claim` (which also releases expired
leases and buries exhausted deliveries), `Handle`, `Succeed`, `Fail`, `OperatorRetry`.
A process is a small machine over the phases of a cycle. `Crash` empties it; `Stop` and
`DrainTimeout` are the two halves of `stop(timeout)`; `DatabaseError` fails a call before
it took effect, `ReplyLost` after. Time is one global clock in seconds of which a process
holds a reading that is taken once per cycle and may be stale; it advances only while
some deadline runs, which loses nothing since nothing else compares with it. The effects
of a handler are counted up to 2. A process that restarts takes its old name, a fresh
UUID in the code. `Retention` adds the operator and reads the same tables; it has one
worker in the run (any number in the proof) and leaves stop, database errors and lost replies to
the runs of `EventWorker`.

### Hard purge
A purge reads its plan document by document (`prepareHardPurge`), then its transaction locks
the plan's rows, checks every version, checks restriction against the edges as they are
now, rewrites the nullified sources and deletes. An edit locks its document and its
targets (`FOR KEY SHARE`) and rewrites data and edges. All documents exist at the start,
with any legal references; a creation would only add a document nobody refers to yet. A
revision restored is an edit with arbitrary references. An UPDATE on a stale version
changes nothing, so edits are modelled from a matching one. An invalid target refuses at
once where the code refuses after locking the rest. Publication is left out:
edges are those of the working revision.

### Content tree
A row holds parent, sort key and depth as `commands.ts` computes them; normalising the
siblings left behind (`Normalized`), the depths of the subtree and the rebuilt closure
(`Store`) are part of every command. `enabled` and the limit come and go with
applied schemas (`planner.ts` deletes the state row when a hierarchy is disabled, so the
structure version starts again). A purged id used again stands for a fresh one. The
routes that change a tree all hold the projection lock, so each command is one action.
`addNode` and `removeNode` are part of the service and of the model though no route of the
server calls them; until one does, a document created before its hierarchy was enabled
gets no node. `ContentEditors` adds what each client has read. Turning a hierarchy off
makes every version read so far name no tree, because versions start again: what a client
then states may match by accident (section 7).

### Hierarchy projection
`op[s]` is the step server `s` has reached: under the lock, quarantine what is about to
change (memory, then rows), commit the tree, read it and project it onto the graph,
release the quarantine. `Fails` is an error at any
step, `Stop` a crash, after which PostgreSQL drops the session lock, and `StartServer` is
the repair at startup. `scenario` fixes the documents requests name and whether refused
purges and lost replies occur. One realm and one collection; policy decisions are open
(`StaleFailsClosed` compares the ancestors a decision would inherit from); parents of
created documents are not checked, which allows more than the code. Not modelled:
a session that loses its lock while its process lives, the COMMIT of a dead session
after its lock went, retired resources, and a cascade of purges in one request (one
document at a time).

### Media
Uploads are named by the media id minted for them. Each call of `upload` and `delete` is
an action, each may fail, and `Abandon*` stops a request anywhere. When the completing UPDATE
fails in the client without an answer, the upload compensates while the database may still
execute it, before or after (`CommitUnanswered`): `unanswered` holds such uploads, and the
properties say that what goes wrong with bytes befalls only those. Left out: type and size inspection (before the
reservation), temporary files (nothing lists them), trash and restore of media owners, the
read-only consistency check, and power loss between `link` and the directory's sync.

### Schema registry
A schema is what its tables must have: collections, fields with type, need and default,
hierarchy, the realm whose profiles a collection holds. `SaveDraft`, an import included, compares the draft
version and the active revision under the workspace lock; `Preview` reads draft and active
revision in two queries; `Apply` previews again, compares what the editor approved, records
a pending run and executes the plan in one transaction. A run mints the id of the revision
it is for, so a revision is named by its run. Documents are written with the columns of a
schema read earlier, and people register meanwhile. A table holds at most one row; relations,
components, uniqueness and names are left out, and a conversion of data may only fail.

### Policy: kernel, services, tables
`AccessPolicy` translates the kernel: `EvaluateAccess` grants when a binding of the subject,
or of a group it is in by enabled memberships, applies to the resource; the guards of management
ask for one single grant of the actor that contains, outranks and may delegate what the change
affects. `PolicyAuthority` states who may ask for each of the 19 mutations and applies it in one
step. `PolicyRegister` is how it is done: a server reads the revision, takes the cached policy or
loads it, decides, and the store compares the revision under the policy row's lock (`Commit`);
`LoseReply` is a COMMIT whose answer does not arrive, `BumpSubjectPolicy` the revision bumped by
Identity administration. The assumption `InitialAssumption` says of the first policy what
`initial-policy.ts` seeds: a protected service account holds the system policy root, and ranks
below 100 are for everybody else. `Workloads` bounds who is asked what in a run.

`PolicyTables` is below it: mutations are applied to the policy a service has cached, the
result is validated, and the mutation itself goes to rows in a dozen tables with foreign keys,
cascades and closures; provisioning and plugins write the same tables without a revision.
`AccessImpact` adds documents that inherit, editors who move them without managing the
authorization as long as nothing changes in what bindings and rules cover, and the projection
of the move afterwards.

### Identities, realms and provisioning
In `RealmIdentities` each transaction that locks what it changes is one step; logins,
suspensions and handing over the realm take several, and a request keeps in `stale` what
changed since it read (a version is only compared for equality). A session is dropped from the
model when no lookup finds it any more. `RealmProvisioning` follows one identifier through the
sagas that make it a member (`signup`, first login, administrator, registration), commit by
commit: identity, subject, pending membership, profile, activation, default roles; a saga may
stop between any two and others may resume it.

### Ceilings and delegations
`CollectionCeilings`: one realm, the cache of one server and its requests. A check reads the
version first (`ReadVersion`) and the rows only if the cache is of another version (`ReadCeilings`);
owners change rows under the realm's row lock and bump it; `Pass` reconciles after an applied schema. `denied` is a history
variable. In `RealmDelegations` a manager's request reads the account, then the delegations,
decides, and acts by comparing the revision of the identity; others change everything in between.

### Sites
A request of an administrator is a transaction of several statements: it locks its site's row
and compares the revision read, then takes further rows; its writes are seen at its last action.
`Pass` is the projection of the active schema's collections, which reads sites and policy and
commits by comparing the policy revision. Requests do not take the projection lock.

### Admin apps
Every operation of the store locks the workspace row first and is one step; apply is the
one whose caller was shown a plan and whose service makes the plan again. `AppRuntime` adds a
visitor: the app is read by route key twice, then permissions in batches that must be of one
policy revision (two attempts), then the documents.

### Queries
A walk asks for pages; the server fetches batches, drops what the client may not read, and
goes on after the last row until a page is full. A cursor holds the sort values as they were
read. `RowIds` are numbers in the order of the database; filters are left out.

### Migrations
`MigrationsNext` starts servers that take the lock and apply, in one transaction, all that has
no marker; `Apply(n, d)` is what migration `n` does to roles, bindings, owners, sessions,
ceilings and break-glass grants of database `d`, or the refusal of its precondition. `Databases`
are made by bringing a fresh database to an earlier release and changing what its people could.

### Two modules of instances
`MCWorkspaceServices` and `MCContentServices` put services that share no state into one run: each
behaviour explores one `focus` and the other services stay at their first state, so their state
spaces add up instead of multiplying. A focus narrows what is asked, as its comment says.


## 3. The runs and their bounds

All twelve runs pass: TLC exhausts the instance. No run expects a violation; what was found
not to hold is in section 7, as prose.

| Run | Question | Instance |
|---|---|---|
| `documents` | Do two-query loads and conditional writes behave as one register, and do the events tell what it holds? | 2 clients, 1 field, 2 values, versions ≤ 4, 1 instant |
| `event_worker` | Are attempts, leases and projections right under every interleaving and fault? | 2 workers, 1 handler, 2 attempts, lease 1, 2 events of one document, 1 fault, clock ≤ 3 |
| `event_worker_liveness` | Is every delivery settled? | plugin loaded in one of 2 workers, 2 deliveries in a batch, 1 fault amid a batch or 1 retry once all is settled |
| `retention` | Does apply remove what preview showed, and nothing needed? | 1 worker, 2 plans, clock 2, TTL 1, 2 policy revisions |
| `hard_purge` | Are references whole, does a purge what it planned, is everybody answered? | 3 documents, a collection that cascades, nullifies and restricts, 1 editor, versions ≤ 2, any legal references at the start |
| `content_tree` | Do rows encode an ordered forest, and are stale editors refused? | 4 documents, limits 1 and 3, structure versions ≤ 6, 1 client |
| `hierarchy_projection` | Does a stale projection fail closed, and is it repaired? | 2 servers; 3 documents without faults, or 2 with refusals and lost replies |
| `content_services` | Media, apps, queries, policy tables: one focus at a time | *media* 2 media, 2 documents, one published reference at a time; *authoring* one app, two authors, a valid and a forbidden draft; *routes* two apps, one author; *pages* a visitor, one key, one binding; *queries* 3 rows, at most one hidden and one absent, 1 write, page sizes 1–2, scan limits 2 and 5; *groups*, *roles*, *moves* 2 servers, table revision ≤ 4 |
| `schema_registry` | Is the registry sound, is what was approved what is applied? | 2 editors, 3 proposals, 3 saves, 3 runs, so that an object can go and its proposal come back |
| `policy_register` | Is what is decided on a cache what the policy decides? | 5 subjects; 19 mutations and one server up to revision 5, or 5 mutations, bumps and two servers up to revision 4 |
| `realm_identities` | Are sessions and owners what the realm holds? | the first owner and 2 operators, 2 servers, one login at a time, 1 session |
| `workspace_services` | Sites, ceilings, delegations, migrations, provisioning: one focus at a time | *defaults* 3 sites, 2 administrators; *bindings* 2 sites, 2 collections, passes; *archives* 2 sites, a binding beside archiving; *grants* two owners about one collection; *passes*; *delegates* 1 account, 1 manager, 1 delegation; *upgrades* families of databases, 2 servers; *signups* 2 requests, 1 password; *claims* 1 request and the administrator |

Why these are enough. The hazards of section 1 need two actors about one thing and one
change in between; every run has the two actors, room for a change, for the repeat of it
(the ABA cases) and for one fault. Numbers of versions are bounded above what two
overlapping requests can reach. Where two actors are too many for TLC beside everything else
(`hard_purge`, `retention`), the second actor is the system whose tables are read. Where
a theorem exists (section 5) the instance does not matter.

`CHECK_DEADLOCK FALSE` is stated where bounds on versions, runs or ids stop the system and,
for `event_worker`, where the outbox is idle. `TypeOK` of each module is part of its
composed invariant or, for the modules with proofs, a theorem.

## 4. Fairness

Safety is checked without fairness. Three properties need it:

- `EventuallySettled` (`Fairness` of `EventWorker`, under `LiveSpec` of the run): weak fairness of each worker's step (the
  loop of `event-worker.ts` never stops while the process lives; a process that died is
  started again by its supervisor) and of the clock. Faults are finite, and
  `LiveSpec` only bounds when they and retries occur, never what the workers do.
- `EverybodyIsAnswered` (`HardPurge`): weak fairness of every edit that has begun, of the
  purge and of the database's deadlock detection, which aborts one party. Nothing is asked of
  behaviours in which requests keep arriving.
- `CrashIsRepaired` (`HierarchyProjection`): weak fairness of what a running server does;
  strong fairness of the start of a server, since PostgreSQL grants an advisory lock in order of
  arrival. The property is conditional on faults ceasing.

## 5. The proofs

Every theorem is about the same definitions the runs check, for every value of the constants
that satisfies the named assumptions of the module (`ASSUME`); nothing else is assumed.
`PROJECT.json` lists the theorems.

| Module | Theorems | Inductive invariant, and why it is needed |
|---|---|---|
| `Documents_proofs` | `Invariance`, `TypeCorrect`, `StoredAlwaysOK`, `CommandsNeverFail`, `RequestsAreDecided`, `DocumentIsARegister`, `EditsStayInvisible`, `EventsAlwaysTell`; of the content tree `TreeInvHolds`, `TreeStaysWhole`, `ForestIsImplemented`; of its editors `ReadsInvariance`, `EditsApplyToWhatWasRead` | A copy is never newer than the row; the identity row a request read is the stored one as long as the versions agree; a prepared result extends its copy by at most one revision (`Inv`). What is prepared is what one command makes of its copy, and a refused request leaves nothing (`DecidedInv`, `NothingLeft`): that is the step simulation of `DocumentRegister`. Between the two queries everything but the number of revisions is known from the events, and the last known revision is the working one, which stays stored (`ToldInv`). A command of the aggregate keeps `AggregateOK`: one lemma per command. The structure version of a tree grows with every tree that is stored, so while the hierarchy stays on a version names one tree. The rows of a tree are finitely many, a parent is one level above its children, siblings are numbered from 0 without gaps, and the closure is what a rebuild computes (`TreeInv`). Depths bound the walk to the root, so that a path exists and is the only one; the sort keys of siblings, being 0 to n-1, determine their order, so the order of children that the abstract forest keeps is a function of the rows, and each command is one of its steps. |
| `EventWorker_proofs` | `Invariance`, `LeasesStayAccounted`, `IndexStaysRight`, `ProcessesYield`, `DeliveriesKeepThePromise`; of retention `RetentionInvariance`, `PlansTakeWhatTheyShow` | A lease carries the limit its holder knows; no process is ahead of the clock; who acknowledges has had the effect; receipts equal effects. `Delivery` follows step by step under the mapping of the run. For retention: no revision names two policies, so the cutoffs of a plan of the current revision are the policy's as of its preview, and a delivery has its event. |
| `ContentServices_proofs` | of media `TypeCorrect`, `Invariance`, `ReadyMediaHaveBytes`, `SavedMediaAreServed`, `BackupsHaveWhatStays`, `LibraryStaysWhole`; of apps `AppsStayWhole`, `AppliedIsWhatWasShown`; of pages `PagesAreServedAsGranted`; of the policy's tables `TablesInvHolds`, `TablesStaySound`, `StoresTheDecision`, `EditorsSpareRights`, `StoresAsDecided`; of queries `QueryInvHolds`, `WalksNeverMiss` | The phase of an upload says which of record and bytes there are, unless its completing UPDATE was left unanswered; what a dump holds and was not deleted since has its bytes still. Rows of apps and drafts have their columns, ids and route claims are used once, and a draft an author saw is the one of its version and serial number. A request knows the revisions of the policy since it began, the last of which is in force, and what it has found is what one of them grants. Rows of the policy's tables have their columns and their references, closures are the paths of the rows they are of, nothing protected is delegated, and a server's copy is of an older revision or agrees with the tables in all but identities and a plugin's permissions (`TablesInv`): so what a mutation makes of the copy, once it passed validation, is what its rows and cascades make of the tables. A walk has read rows in order up to its cursor, and a document nobody touched, were it never so far back in the order, has been read, is in the batch at hand or comes after the cursor (`QueryInv`). |
| `PolicyRegister_proofs` | `RegisterInvariance`, `RootRemains`, `DecisionsAreThePolicys`, `RegisterIsTheAuthority`, `NobodyEverClimbs` | What a server holds is the stored policy or an older one; a pending mutation whose expected revision is current is permitted by the stored policy; root and owner remain. The groups of a subject (`Principals`, by recursion over the number of groups) are the least closed set, so that a change of the policy elsewhere leaves them. |
| `Realms_proofs` | `Invariance`, `RealmStaysWhole`, `OwnerStaysFit`, `CeilingsInvariance`, `CeilingsStand`, `DelegationsInvariance`, `CmsAccountsStayOutOfReach`; of provisioning `ProvisioningInvariance`, `MembersAreMadeSafely`; of upgrades `MigrationsInvariance`, `EveryUpgradeIsSound` | A password that was proved and then replaced always shows as outdated credentials; what a request marked stale it does not commit on. The version grows with each ceiling that changes or goes, so rows cached under the current version are as stored, apart from ceilings seeded since; a pass seeds only what nobody removed. An account whose revision is unchanged since it was read is as enabled and as much of the CMS as it was. A saga's stamp is the version of the password it was asked with; what it has read of a policy is so if the revision is; roles it is done with stay bound; who comes alone past the membership finds no profile but his own. What a transaction has made of a database so far (`MadeOf`) has its roles, grown only by what migrations introduce or by the access to apps, and its bindings, but for those of owners and of the hidden root once 0022 has run; it covers what is granted once 0025 has run, and gives pages with apps once 0029 has. Each of the 30 migrations keeps that, one lemma for those that only create tables or grant what they introduce and one for each of the others. |
| `ResourceHierarchy_proofs` | of sites `SitesInvariance`, `SitesStayWhole`, `ArchivedSitesAreLeftAlone`; of the projection `ProjectionIsSound`, `StaleChecksFailClosed`, `TheTreeIsProjected`; of the schema registry `RegistryInvariance`, `RegistryStaysSound`, `AppliesAreApproved` | No row is locked by two requests; a pass whose policy revision is current has seen all there is. Outside the quarantine the graph has the parents of the tree; what an operation is about to change is fenced first, and what a reconcile has read is the tree, since nobody else has the lock. Ancestors are the least set closed upwards, so fencing the subtree of what moves is enough. Revisions are one line, each named by its applied run; the ids of what a revision dropped are retired for good; a row has the columns of its table; a held preview is the plan from a revision that stays, so the comparison in the transaction makes it the plan from the active one; a pending request has a run and, where the plan needs one, an approval of its own. |
| `HardPurge_proofs` | `PurgeInvariance`, `ReferencesStayWhole`, `PurgesArePlanned` | Locks that exclude each other are not held together; an edit has locked its document and the references it is done with, a purge the rows it is done with; from the comparison to the commit what was compared is still so. A planned removal is the named document or cascades, and nothing is both removed and rewritten. |
| `NaturalRecursion` | lemmas only | Functions defined by recursion over the natural numbers exist, and induction over a number, stated about a set of numbers so that no prover has to instantiate an operator; the things of a finite set that an order compares can be numbered in that order (`OrdersAreNumbered`). |

How to read them: the steps that an action preserves the invariant are one lemma or one step
per action; what an action changes is a lemma of its own where several need it; the
temporal step is the last.

What is assumed of the constants is what the code or the database guarantees of them, and TLC
evaluates it on the instances:

- `ContentTree`: the documents are finitely many, and the root is none of them.
- `PolicyTables`: a policy that a realm starts with (`IsSeed`) was validated and no two of its subjects
  are one identity (the unique index); a mutation (`IsMutation`) has the columns of its table; a plugin's
  permission is none of the protected ones (`validatePluginModule` asks for keys in the namespace of
  the plugin, and `install` delegates nothing that is protected).
- `DocumentQuery`: rows are finitely many, a sort is a list of columns the service lets sort by.
- `CoreMigrations`: the account that provisions is nobody's, and a database was left by a release
  (`LeftByARelease`): its markers are those of the first migrations, rows have their columns and
  bindings name roles (foreign keys), a permission is not in the catalog before the migration that
  introduces it, ids of bindings are unique (they may grant anything: the runs have the owner and root
  bindings that `postgres-realm-owner-migration.test.ts` damages), and what a migration established still holds (`IsKept`). The last leaves
  out two kinds of databases, in which the theorem would be false before any upgrade: those where a
  race of section 7 left a session of somebody who is no member any more, and those whose realm is
  refused already, as its primary owner's subject is disabled.

## 6. What is only model-checked

- Liveness (`EventuallySettled`, `EverybodyIsAnswered`, `CrashIsRepaired`): fairness and ENABLED are
  out of reach of the prover.
- Every other property of a run has a theorem. The theorems are about each component's own
  specification; that the runs of `MCWorkspaceServices` and `MCContentServices` put components side by side
  is a matter of the runs.
- What recursive definitions compute on all inputs cannot be proved by induction over data; where a
  proof needs a recursion it is over natural numbers (`NaturalRecursion`).
- What the substituted definitions show (each property fails when a mapped definition is
  replaced by its mutant) is checked by TLC only.

## 7. What does not hold

Met while translating. Each is what the code does, and the models do it too; the properties
are stated so that they are about what does hold.

Documents, worker, retention, purge
- `fanOut` does not look at `dispatched_at`: an event whose deliveries were removed by retention
  is offered and handled again (`postgres-retention.ts:238`). Receipts go with
  deliveries, so a projection may then take place twice.
- A document whose reference was taken away between the two reads of a purge is still
  cascaded; nullify rewrites from the list read earlier.
- Receipts have no foreign key. A handler that reports after its lease was taken over, and after
  retention removed the delivery the other worker settled, leaves a receipt no rule removes.
- `docs/operations.md:156` speaks of retention of old revisions; no rule removes any.

Content tree and projection
- A version read before a hierarchy was turned off and on may match another tree.
- Once a limit is lowered below the depth of two branches, every purge is refused.
- A move whose COMMIT was not acknowledged releases its quarantine over the stale graph
  (`content-hierarchy-runtime.ts:297`); a refused purge or apply lifts the quarantine of
  another server's change that was not projected; a server goes on refusing
  documents after another one reconciled them.
- Coverage of a move is weighed in the actor's realm only; if the policy changed between
  preview and reconcile, a later reconcile at startup projects the move without weighing it.

Media and queries
- An upload whose completion was committed but not acknowledged deletes the bytes of a ready
  record (`media.ts:331`); `ReadyHasBytes`, `WorkingIsServed` and `BackupHasWhatStays` except the
  uploads in `unanswered` and no other. A deletion between dump and archive leaves a ready record without
  bytes in the backup. Media of the published revision can be deleted once the draft drops them.
- Sorting by `system:version` or by dates makes the next page refused; a client that may not
  read 5000 consecutive documents gets 503 for ever; a document edited during a walk may be
  missed.

Policies, identities, realms
- Links of identities and the installation of plugins change policy tables without a revision
  (`postgres-plugins.ts:27,29`, `postgres-identity-realms.ts:466,559`). A rename from a stale
  cache would unlink an identity; only the foreign key refuses it.
- `changeOwnPassword` does not check again what it verified; decisions about subjects and across
  realms are not checked again at commit; updating a subject may enable one whose identity is
  disabled.
- A registration opens its session under the newest credential version though an older password
  was proved. A session inserted just after its member was suspended is in force again on
  reactivation. Creating a realm is not atomic. A primary owner whose subject is disabled
  blocks all provisioning of the realm.
- A saga that stopped leaves a pending membership with which logins fail until a sign-up or
  `provisionMembership` resumes it; a crash between activation and default roles leaves a
  member without roles; two sagas at once can create two profiles; reactivating a pending
  membership activates it without a profile.
- A realm may name the administrator role among its default roles; appointment and default
  binding are then one row (`realm-authorization-provisioning.ts:545`), so a saga under way may
  bind again what was just revoked. `RolesAreGiven` and `SagasRespect` allow for it.

Ceilings, delegations, sites
- Two creations with `expectedRevision` null both succeed (so in delegations); the revision
  starts at 1 again after a removal; collections seeded by a pass do not bump the version, so
  caches go on denying; a crash between apply and reconcile loses the seed; a ceiling removed
  during the apply that adds its collection comes back; `put` does not ask whether the
  collection is active; `put` and `reconcile` can deadlock.
- Delegations are not checked again at commit; `revokeAllSessions` has no revision.
- A binding changed between the two reads of a pass is overwritten by it. Binding a collection
  elsewhere takes it out of an archived site, though "Archived Sites cannot change Collection
  bindings"; binding a collection just removed leaves a stale row; two pairs of requests
  deadlock and are broken by the database.

Admin apps
- `draftVersion` starts at 1 again (ABA); apply and activation of a revision do not resolve
  dependencies again; removed pages keep their resources; discarding the initial draft leaves an
  app that never gets another; import is not atomic; masking rules come from a schema read
  before the documents.

Migrations
- Migration 0022 makes the hidden root an exact copy of Owner (`realm-owner-migration.ts`);
  0027 and 0029 then grant Owner more. Migrations 0015, 0017, 0027 and 0029 change
  the permissions of roles without a policy revision. 0016–0018 grant to a role whose name no
  policy has.

## 8. Plan

Proofs: none of the checked safety properties is left; new modules bring their own.
Modules: the schema language
(validation, planning of a diff), manifests and dependencies of apps, document access (projection
of fields, masking), service identities, the walk over the audit log, the lifecycle of plugins.

## 9. What is not modelled

The schema language but for what `diffSchemas` calls destructive and what makes a schema
well-formed in field ids and claimed realms; plugins, the audit log (appended inside the modelled
transactions), the command line and scaffolding, client, contracts and user interface, rate
limits, the authentication of a request before a service is called, presenters, generated SQL
(its effect is modelled), restoring a backup, the media consistency check. Fields whose
values no property tells apart are left out: names, labels, timestamps, formatting.
