--------------------------- MODULE SchemaRegistry ---------------------------
(***************************************************************************)
(* The schema registry: the draft, its preview, and the application of a   *)
(* previewed migration.                                                    *)
(*                                                                         *)
(* A schema says which collections there are, which fields they have,      *)
(* whether a collection is a hierarchy and which realm's profiles it       *)
(* holds.  The workspace has one draft.  A save, under the workspace lock, *)
(* states the active revision and the draft version it started from.  A    *)
(* preview reads the draft and the active revision in two queries and      *)
(* plans operations on the physical tables; to apply, the editor states    *)
(* the plan, the server previews again, records a pending run, and executes *)
(* the plan in one transaction.  A failure leaves the run failed, a crash  *)
(* leaves it pending.  Meanwhile documents are written into the tables     *)
(* with the columns of a schema read earlier, and people join realms.      *)
(*                                                                         *)
(* A migration run mints the id of the revision it is for: a revision is   *)
(* named by its run.  A table holds at most one row.  Relations,           *)
(* components, nested fields, uniqueness and names are left out; so is the *)
(* conversion of data when a type changes, which may only fail.            *)
(***************************************************************************)
EXTENDS Naturals, Sequences, FiniteSets, Functions

CONSTANTS
    Collections, Fields,  \* ids of schema objects
    Realms,               \* content realms of the workspace
    Editors,              \* clients that edit the schema
    Proposals,            \* schemas a client may propose; decodeSchema accepts them
    Batches,              \* sets of ids one issueIds request asks for
    MaxSaves, MaxRuns,    \* bounds: drafts saved, migration runs
    None                  \* null

Ids == Collections \cup Fields
FieldDefs == [type: {"text", "json"}, required: BOOLEAN, default: BOOLEAN]
PartialFunctions(S, T) == UNION {[D -> T] : D \in SUBSET S}
CollectionDefs == [fields: PartialFunctions(Fields, FieldDefs),
                   hierarchy: BOOLEAN, auth: Realms \cup {None}]
Rows == [values: PartialFunctions(Fields, BOOLEAN), placed: BOOLEAN]
EmptySchema == [c \in {} |-> None]

FieldsOf(s, c) == IF c \in DOMAIN s THEN DOMAIN s[c].fields ELSE {}

\* decodeSchema refuses a field id used twice and a realm claimed twice.
WellFormed(s) ==
    \A c, d \in DOMAIN s : c # d =>
        /\ FieldsOf(s, c) \cap FieldsOf(s, d) = {}
        /\ s[c].auth # None => s[c].auth # s[d].auth

ASSUME SchemaAssumption ==
    /\ Collections \cap Fields = {}
    /\ \A s \in Proposals : /\ s \in PartialFunctions(Collections, CollectionDefs)
                            /\ WellFormed(s)
    /\ \A B \in Batches : B \subseteq Ids
    /\ MaxSaves \in Nat /\ MaxRuns \in Nat
    /\ None \notin Realms \cup Collections \cup Rows

VARIABLES
    active,     \* _xecms_schema_state.active_revision_id, 0 when null
    revisions,  \* rows of _xecms_schema_revisions, oldest first
    draft,      \* the workspace's row of _xecms_schema_drafts
    saves,      \* drafts saved so far; a draft version is a fresh id
    ids,        \* state of the rows of _xecms_schema_object_ids
    runs,       \* status of the rows of _xecms_migration_runs
    tables,     \* physical tables: columns and the row they hold
    realms,     \* rows of _xecms_realms: status, profile collection, policy
    configs,    \* rows of _xecms_auth_collection_configs: collection -> realm
    members,    \* realms with a row in _xecms_realm_memberships
    joining,    \* realms checked by a request that will insert a membership
    writer,     \* a document write: its collection as it was read
    editor      \* editor[e]: step of e's request and the preview e holds

registry == <<active, revisions, draft, saves, ids, runs>>
identity == <<realms, configs, members, joining>>
registryVars == <<active, revisions, draft, saves, ids, runs, tables, realms, configs,
          members, joining, writer, editor>>

Objects(s) == DOMAIN s \cup UNION {DOMAIN s[c].fields : c \in DOMAIN s}

SchemaAt(r) ==
    IF r = 0 THEN EmptySchema
    ELSE LET k == CHOOSE k \in DOMAIN revisions : revisions[k].id = r
         IN  revisions[k].schema
ActiveSchema == SchemaAt(active)

-----------------------------------------------------------------------------
(* Planning: PostgresMigrationPlanner and diffSchemas. *)

Op(kind, c, f) == [kind |-> kind, collection |-> c, field |-> f]

\* The statements of alterCollection depend on the type and the constraint.
Altered(d, e) == d.type # e.type \/ d.required # e.required

Both(p, n) == DOMAIN p \cap DOMAIN n
DroppedColumns(p, n, c) == DOMAIN p[c].fields \ DOMAIN n[c].fields
AlteredColumns(p, n, c) ==
    {f \in DOMAIN p[c].fields \cap DOMAIN n[c].fields : Altered(p[c].fields[f], n[c].fields[f])}

PlannedOperations(p, n) ==
    {Op("drop-table", c, None) : c \in DOMAIN p \ DOMAIN n}
    \cup {Op("create-table", c, None) : c \in DOMAIN n \ DOMAIN p}
    \cup {Op("drop-hierarchy", c, None) : c \in {d \in Both(p, n) : p[d].hierarchy /\ ~n[d].hierarchy}}
    \cup (UNION {{Op("drop-column", c, f) : f \in DroppedColumns(p, n, c)} : c \in Both(p, n)})
    \cup (UNION {{Op("add-column", c, f) : f \in DroppedColumns(n, p, c)} : c \in Both(p, n)})
    \cup (UNION {{Op("alter-column", c, f) : f \in AlteredColumns(p, n, c)} : c \in Both(p, n)})

AuthOf(s, c) == IF c \in DOMAIN s THEN s[c].auth ELSE None
AuthTaken(p, n, c) == AuthOf(p, c) # None /\ AuthOf(n, c) # AuthOf(p, c)

Owner(s, f) == CHOOSE c \in DOMAIN s : f \in DOMAIN s[c].fields

\* A change diffSchemas classifies as destructive.
DestructiveChange(p, n) ==
    \/ \E o \in Objects(p) : o \notin Objects(n)
    \/ \E f \in Fields \cap Objects(p) \cap Objects(n) :
          \/ Owner(p, f) # Owner(n, f)
          \/ p[Owner(p, f)].fields[f].type # n[Owner(n, f)].fields[f].type
    \/ \E c \in DOMAIN p : AuthTaken(p, n, c)

\* An operation the planner classifies as destructive.
DestructiveOperation(p, n) ==
    \/ \E op \in PlannedOperations(p, n) :
          \/ op.kind \in {"drop-table", "drop-column", "drop-hierarchy"}
          \/ /\ op.kind = "alter-column"
             /\ p[op.collection].fields[op.field].type # n[op.collection].fields[op.field].type
    \/ \E c \in DOMAIN p : AuthTaken(p, n, c)

\* Mutant of RequiresApproval: the severity of operations is not asked.
RequiresApprovalByChanges(p, n) == DestructiveChange(p, n)

RequiresApproval(p, n) == DestructiveChange(p, n) \/ DestructiveOperation(p, n)

-----------------------------------------------------------------------------
(* Physical tables.  A row keeps, per column, whether it holds a value, and  *)
(* whether the document has a position in a hierarchy.                      *)

Columns(def) == [f \in DOMAIN def.fields |->
                    [type |-> def.fields[f].type, notNull |-> def.fields[f].required]]

\* What an operation needs of the tables for its statements to be executed.
Executable(op) ==
    LET c == op.collection
    IN  CASE op.kind = "create-table" -> c \notin DOMAIN tables
          [] op.kind \in {"drop-table", "drop-hierarchy"} -> c \in DOMAIN tables
          [] op.kind = "add-column" -> c \in DOMAIN tables /\ op.field \notin DOMAIN tables[c].columns
          [] OTHER -> c \in DOMAIN tables /\ op.field \in DOMAIN tables[c].columns

Touched(ops, c, kinds) == {op.field : op \in {o \in ops : o.collection = c /\ o.kind \in kinds}}
Has(ops, kind, c) == \E op \in ops : op.kind = kind /\ op.collection = c

\* addField fills existing rows only where the field is required.
MigratedRow(row, cols, ops, c, def) ==
    IF row = None THEN None
    ELSE [values |-> [f \in cols |-> IF f \in DOMAIN row.values
                                     THEN row.values[f]
                                     ELSE def.fields[f].required /\ def.fields[f].default],
          placed |-> row.placed /\ ~Has(ops, "drop-hierarchy", c)]

MigratedTable(ops, c, def) ==
    LET new == Touched(ops, c, {"add-column", "alter-column"})
        cols == (DOMAIN tables[c].columns \ Touched(ops, c, {"drop-column"})) \cup new
    IN  [columns |-> [f \in cols |-> IF f \in new THEN Columns(def)[f] ELSE tables[c].columns[f]],
         row |-> MigratedRow(tables[c].row, cols, ops, c, def)]

Migrated(ops, s) ==
    [c \in {c \in DOMAIN tables : ~Has(ops, "drop-table", c)}
           \cup {c \in DOMAIN s : Has(ops, "create-table", c)} |->
        IF Has(ops, "create-table", c) THEN [columns |-> Columns(s[c]), row |-> None]
        ELSE MigratedTable(ops, c, s[c])]

\* Mutant of ConstraintsHold: the column stays nullable.
ConstraintsUnset(t) == TRUE

\* SET NOT NULL fails where a row has no value.
ConstraintsHold(t) ==
    \A c \in DOMAIN t : t[c].row # None =>
        \A f \in DOMAIN t[c].columns : t[c].columns[f].notNull => t[c].row.values[f]

-----------------------------------------------------------------------------
(* Auth collections: preflightAuthMaterialization, materializeCollectionAuth. *)

Linked(r, c) == realms[r].profile \notin {None, c} \/ \E d \in DOMAIN configs : d # c /\ configs[d] = r

PreflightAccepts(p, n) ==
    \A c \in DOMAIN p \cup DOMAIN n :
        LET before == AuthOf(p, c)
            after == AuthOf(n, c)
        IN  /\ before = None /\ after # None =>
                  ~(c \in DOMAIN tables /\ tables[c].row # None)
            /\ AuthTaken(p, n, c) => before \notin members
            /\ before # None => ~Linked(before, c)
            /\ after # None => /\ ~Linked(after, c)
                               /\ c \in DOMAIN configs => configs[c] \in {before, after}
                               /\ realms[after].policy

\* Realms whose collection gives them up are disabled, then the others linked.
MaterializedRealms(p, n) ==
    LET left == {r \in Realms : \E c \in DOMAIN p : AuthOf(p, c) = r /\ AuthOf(n, c) # r}
        released == [r \in Realms |-> IF r \in left
                        THEN [realms[r] EXCEPT !.profile = None, !.status = "disabled"]
                        ELSE realms[r]]
    IN  [r \in Realms |->
            IF \E c \in DOMAIN n : n[c].auth = r
            THEN [released[r] EXCEPT
                    !.profile = CHOOSE c \in DOMAIN n : n[c].auth = r,
                    !.status = IF @ = "provisioning" THEN "active" ELSE @]
            ELSE released[r]]

MaterializedConfigs(p, n) ==
    LET kept == {c \in DOMAIN configs : ~(AuthOf(p, c) = configs[c] /\ AuthTaken(p, n, c))}
        set == {c \in DOMAIN n : n[c].auth # None}
    IN  [c \in kept \cup set |-> IF c \in set THEN n[c].auth ELSE configs[c]]

-----------------------------------------------------------------------------
(* Ids and the draft. *)

AtRest == [step |-> "idle"]

\* issueSchemaIds
IssueIds(B) ==
    /\ \A i \in B : ids[i] = "none"
    /\ ids' = [i \in Ids |-> IF i \in B THEN "issued" ELSE ids[i]]
    /\ UNCHANGED <<active, revisions, draft, saves, runs, tables, identity, writer, editor>>

\* Mutant of Usable: a retired id is only looked up.
UsableOnceIssued(state, s) == \A i \in Objects(s) : state[i] # "none"

Claimed(s) == [i \in Ids |-> IF i \in Objects(s) /\ ids[i] = "none" THEN "issued" ELSE ids[i]]
Usable(state, s) == \A i \in Objects(s) : state[i] \in {"issued", "active"}

\* saveSchemaDraft under the workspace lock.  The base and the version a client
\* states must be the current ones, so the transaction writes these; an import
\* claims the ids nobody has issued.
SaveDraft(s, import) ==
    /\ saves < MaxSaves
    /\ LET state == IF import THEN Claimed(s) ELSE ids
       IN  /\ Usable(state, s)
           /\ ids' = state
    /\ saves' = saves + 1
    /\ draft' = [base |-> active, version |-> saves + 1, schema |-> s]
    /\ UNCHANGED <<active, revisions, runs, tables, identity, writer, editor>>

-----------------------------------------------------------------------------
(* Preview and apply. *)

\* A preview names the base, the version and the plan: its hash is the plan id.
PreviewOf(d) ==
    [base |-> d.base, version |-> d.version, schema |-> d.schema,
     operations |-> PlannedOperations(SchemaAt(d.base), d.schema),
     destructive |-> RequiresApproval(SchemaAt(d.base), d.schema)]

\* preview reads the draft and then the active revision, and is refused unless the
\* one starts from the other.  A draft is deleted when its base stops being
\* active, so what an accepted preview shows was current when the draft was read.
Preview(e) ==
    /\ editor[e].request = AtRest
    /\ draft # None /\ draft.base = active
    /\ editor' = [editor EXCEPT ![e].held = PreviewOf(draft)]
    /\ UNCHANGED <<registry, tables, identity, writer>>

\* requireDraft: an apply previews again, beginning with the draft.
ReadDraft(e) ==
    /\ editor[e].request = AtRest /\ editor[e].held # None
    /\ draft # None /\ draft.version = editor[e].held.version
    /\ editor' = [editor EXCEPT ![e].request = [step |-> "apply", draft |-> draft]]
    /\ UNCHANGED <<registry, tables, identity, writer>>

\* It goes on with the active revision, compares with what the editor states,
\* wants the approval where one is required, and inserts the pending run in a
\* statement of its own.
RecordRun(e, approve) ==
    LET d == editor[e].request.draft
        p == editor[e].held
    IN  /\ editor[e].request.step = "apply"
        /\ approve => p.destructive
        /\ d.base = active /\ d.version = p.version
        /\ p.base = d.base /\ PreviewOf(d) = p
        /\ p.destructive => approve
        /\ Len(runs) < MaxRuns
        /\ runs' = Append(runs, "pending")
        /\ editor' = [editor EXCEPT ![e].request =
                [step |-> "pending", run |-> Len(runs) + 1, approved |-> approve]]
        /\ UNCHANGED <<active, revisions, draft, saves, ids, tables, identity, writer>>

\* Mutant of ApplyIsCurrent: the draft is compared by base and content.
ApplyIsCurrentByBase(p) == draft # None /\ draft.base = p.base /\ draft.schema = p.schema

\* What the transaction compares with the request under the workspace lock.
ApplyIsCurrent(p) ==
    /\ active = p.base
    /\ draft # None
    /\ draft.base = p.base /\ draft.schema = p.schema
    /\ draft.version = p.version

\* activateSchemaIds: what is not part of the schema any more is retired.
Activated(s) ==
    [i \in Ids |-> IF i \in Objects(s) /\ ids[i] \in {"issued", "active"} THEN "active"
                   ELSE IF ids[i] = "active" THEN "retired" ELSE ids[i]]

Applies(p) ==
    /\ ApplyIsCurrent(p)
    /\ Usable(ids, p.schema)
    /\ PreflightAccepts(ActiveSchema, p.schema)
    /\ \A op \in p.operations : Executable(op)
    /\ ConstraintsHold(Migrated(p.operations, p.schema))

\* applySchemaDraft commits.
CommitApply(e) ==
    LET p == editor[e].held
        run == editor[e].request.run
    IN  /\ editor[e].request.step = "pending"
        /\ Applies(p)
        /\ tables' = Migrated(p.operations, p.schema)
        /\ revisions' = Append(revisions, [id |-> run, parent |-> p.base, schema |-> p.schema])
        /\ realms' = MaterializedRealms(ActiveSchema, p.schema)
        /\ configs' = MaterializedConfigs(ActiveSchema, p.schema)
        /\ ids' = Activated(p.schema)
        /\ active' = run
        /\ draft' = None
        /\ runs' = [runs EXCEPT ![run] = "applied"]
        /\ editor' = [editor EXCEPT ![e].request = AtRest]
        /\ UNCHANGED <<saves, members, joining, writer>>

\* ROLLBACK, then the run is marked: a comparison failed or a statement did.
FailApply(e) ==
    /\ editor[e].request.step = "pending"
    /\ runs' = [runs EXCEPT ![editor[e].request.run] = "failed"]
    /\ editor' = [editor EXCEPT ![e].request = AtRest]
    /\ UNCHANGED <<active, revisions, draft, saves, ids, tables, identity, writer>>

\* A request ends early: refused, or the server is gone.
Abandon(e) ==
    /\ editor[e].request.step \in {"apply", "pending"}
    /\ editor' = [editor EXCEPT ![e].request = AtRest]
    /\ UNCHANGED <<registry, tables, identity, writer>>

-----------------------------------------------------------------------------
(* Documents and memberships, written meanwhile. *)

\* resolveCollection
ReadCollection(c) ==
    /\ writer = None
    /\ c \in DOMAIN ActiveSchema
    /\ writer' = [collection |-> c, def |-> ActiveSchema[c]]
    /\ UNCHANGED <<registry, tables, identity, editor>>

\* The INSERT names the columns of the schema that was read; it fails when one
\* is missing or one that must have a value is not named.  The document gives
\* every field a value, or only those that need one.
WriteRow(full) ==
    LET c == writer.collection
        cols == DOMAIN writer.def.fields
        given == {f \in cols : full \/ writer.def.fields[f].required}
        fits == /\ c \in DOMAIN tables
                /\ cols \subseteq DOMAIN tables[c].columns
                /\ \A f \in DOMAIN tables[c].columns : tables[c].columns[f].notNull => f \in given
    IN  /\ writer # None
        /\ writer' = None
        /\ tables' = IF ~fits THEN tables
                     ELSE [tables EXCEPT ![c].row =
                            [values |-> [f \in DOMAIN tables[c].columns |-> f \in given],
                             placed |-> writer.def.hierarchy]]
        /\ UNCHANGED <<registry, identity, editor>>

\* A request finds the realm active, and inserts the membership afterwards.
CheckRealm(r) ==
    /\ realms[r].status = "active"
    /\ r \notin members \cup joining
    /\ joining' = joining \cup {r}
    /\ UNCHANGED <<registry, tables, realms, configs, members, writer, editor>>

InsertMembership(r) ==
    /\ r \in joining
    /\ joining' = joining \ {r}
    /\ members' = members \cup {r}
    /\ UNCHANGED <<registry, tables, realms, configs, writer, editor>>

-----------------------------------------------------------------------------
RegistryInit ==
    /\ active = 0 /\ revisions = <<>> /\ draft = None /\ saves = 0
    /\ ids = [i \in Ids |-> "none"]
    /\ runs = <<>>
    /\ tables = EmptySchema
    /\ realms \in [Realms -> [status: {"provisioning"}, profile: {None}, policy: BOOLEAN]]
    /\ configs = EmptySchema
    /\ members = {} /\ joining = {}
    /\ writer = None
    /\ editor = [e \in Editors |-> [request |-> AtRest, held |-> None]]

RegistryNext ==
    \/ \E B \in Batches : IssueIds(B)
    \/ \E s \in Proposals, import \in BOOLEAN : SaveDraft(s, import)
    \/ \E e \in Editors :
          \/ Preview(e) \/ ReadDraft(e)
          \/ \E approve \in BOOLEAN : RecordRun(e, approve)
          \/ CommitApply(e) \/ FailApply(e) \/ Abandon(e)
    \/ \E c \in Collections : ReadCollection(c)
    \/ \E full \in BOOLEAN : WriteRow(full)
    \/ \E r \in Realms : CheckRealm(r) \/ InsertMembership(r)

RegistrySpec == RegistryInit /\ [][RegistryNext]_registryVars

-----------------------------------------------------------------------------
(* Properties. *)

Schemas == PartialFunctions(Collections, CollectionDefs)

\* The shape of revisions, drafts, plans, realms and of what editors hold.
RegistryTypeOK ==
    /\ active \in 0..MaxRuns
    /\ \A k \in DOMAIN revisions : /\ revisions[k].id \in 1..MaxRuns
                                   /\ revisions[k].schema \in Proposals
    /\ draft = None \/ (draft.schema \in Proposals /\ draft.version \in 1..saves)
    /\ ids \in [Ids -> {"none", "issued", "active", "retired"}]
    /\ runs \in Seq({"pending", "applied", "failed"})
    /\ DOMAIN tables \subseteq Collections
    /\ realms \in [Realms -> [status: {"provisioning", "active", "disabled"},
                              profile: Collections \cup {None}, policy: BOOLEAN]]
    /\ configs \in PartialFunctions(Collections, Realms)
    /\ members \subseteq Realms /\ joining \subseteq Realms

\* Revisions form one line that ends in the active one, and each is the work of
\* the one applied run it is named by; the active ids are those of the active
\* schema; the draft starts from the active revision and can be applied as far
\* as ids go.  So no draft is saved over an apply, no apply happens twice, and
\* a failed or abandoned run leaves nothing behind.
RevisionsAreOneLine ==
    /\ \A k \in DOMAIN revisions :
          revisions[k].parent = IF k = 1 THEN 0 ELSE revisions[k - 1].id
    /\ active = IF revisions = <<>> THEN 0 ELSE revisions[Len(revisions)].id
    /\ {r \in DOMAIN runs : runs[r] = "applied"} = {revisions[k].id : k \in DOMAIN revisions}
    /\ {i \in Ids : ids[i] = "active"} = Objects(ActiveSchema)
    /\ draft # None => draft.base = active /\ Usable(ids, draft.schema)

\* The physical tables are those of the active schema, and every row satisfies
\* it, whatever schema its writer had read.
TablesAreTheSchema ==
    /\ DOMAIN tables = DOMAIN ActiveSchema
    /\ \A c \in DOMAIN tables : tables[c].columns = Columns(ActiveSchema[c])
    /\ \A c \in {d \in DOMAIN tables : tables[d].row # None} :
          \A f \in DOMAIN ActiveSchema[c].fields :
              ActiveSchema[c].fields[f].required => tables[c].row.values[f]

\* An object that a revision dropped is in no later revision: its id is never
\* given a second meaning.
ObjectsNeverReturn ==
    \A j, k, l \in DOMAIN revisions :
        j < k /\ k < l =>
            (Objects(revisions[j].schema) \ Objects(revisions[k].schema))
                \cap Objects(revisions[l].schema) = {}

\* The registry's own tables are right.
RegistryOK == RegistryTypeOK /\ RevisionsAreOneLine /\ ObjectsNeverReturn

\* The profile collection of a realm, the configuration row and the auth of the
\* active schema are one relation, one to one; and a realm is in use only with one.
ProfilesMatch ==
    /\ \A c \in Collections, r \in Realms :
          /\ AuthOf(ActiveSchema, c) = r <=> c \in DOMAIN configs /\ configs[c] = r
          /\ AuthOf(ActiveSchema, c) = r <=> realms[r].profile = c
    /\ \A r \in Realms : realms[r].status = "active" => realms[r].profile # None /\ realms[r].policy

\* The database is what the active schema says: its tables, its rows, and the
\* configuration of the realms.
DatabaseFollowsSchema == TablesAreTheSchema /\ ProfilesMatch

\* However applies, registrations, crashes and retries fall together, the
\* registry, the database and the realms say the same.
RegistryIsSound == RegistryOK /\ DatabaseFollowsSchema

\* What becomes active is a draft as an editor saw it in a preview, made for the
\* revision it replaces, with the operations that were shown.
AppliesWhatWasPreviewed ==
    [][active' # active =>
        \E e \in Editors :
            /\ editor[e].held # None
            /\ editor[e].held.base = active
            /\ SchemaAt(active)' = editor[e].held.schema
            /\ draft # None /\ draft.version = editor[e].held.version
            /\ editor[e].held.operations =
                  PlannedOperations(ActiveSchema, editor[e].held.schema)]_registryVars

Stored(t) ==
    UNION {{c} \X {f \in DOMAIN t[c].columns : t[c].row.values[f]} :
              c \in {d \in DOMAIN t : t[d].row # None}}
Placed(t) == {c \in DOMAIN t : t[c].row # None /\ t[c].row.placed}

\* A migration takes values or positions away, or a realm's profiles, only when
\* the one who applies it approved of that.
NothingLostUnapproved ==
    [][active' # active =>
        \/ \E e \in Editors : editor[e].request.step = "pending" /\ editor[e].request.approved
                              /\ runs'[editor[e].request.run] = "applied"
        \/ /\ Stored(tables) \subseteq Stored(tables')
           /\ Placed(tables) \subseteq Placed(tables')
           /\ \A r \in Realms : realms[r].profile # None =>
                  realms'[r].profile = realms[r].profile]_registryVars

\* What is applied, and what is lost by it, was shown and approved.
AppliesWhatWasApproved == AppliesWhatWasPreviewed /\ NothingLostUnapproved

\* Does not hold: the membership is inserted after the realm was found active,
\* and waits for the lock of a migration that unlinks the realm.
MembersHaveProfiles == \A r \in members : realms[r].profile # None

=============================================================================
