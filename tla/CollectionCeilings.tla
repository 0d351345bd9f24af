------------------------ MODULE CollectionCeilings ------------------------
(***************************************************************************)
(* What a content realm may do with the collections of the CMS at most.    *)
(*                                                                         *)
(* An owner of the CMS puts and removes the ceilings of a realm.  A server *)
(* creates them too: all of them when the realm comes under enforcement,   *)
(* and those of collections a schema apply adds, so that nobody loses      *)
(* access.  It deletes those of Auth collections and of retired ones.      *)
(* Requests are decided on ceilings cached under the version of the realm, *)
(* which is read first.                                                    *)
(*                                                                         *)
(* One realm, one server's cache and its concurrent requests.  Passes of   *)
(* all servers exclude each other (projection lock); owners do not take    *)
(* that lock.  The realm keeps its own Auth collection once it has it.     *)
(***************************************************************************)
EXTENDS Naturals, FiniteSets

CONSTANTS Owners, Checks,
          Schemas,            \* [collections, auth]: what may be applied; auth: foreign Auth collections
          ProfileCollection,  \* the Auth collection of the realm itself
          Granted,            \* what the realm's policy grants: collection -> terms
          Terms,              \* [actions, ownerOnly] an owner may put
          NoRow, MaxVersion

VARIABLES schema,       \* the active schema
          projected,    \* collections with a resource in the realm's policy
          enforcement,  \* _xecms_realm_entitlement_enforcement: NoRow or its version
          ceiling,      \* _xecms_realm_collection_entitlements: collection -> [terms, revision]
          grant,        \* what each owner's request is at
          projection,   \* the pass that is under way
          check,        \* the version each request of the server has read
          ceilings,     \* #entitlementCache of the server
          denied        \* history: collections whose ceiling an owner removed

cvars == <<schema, projected, enforcement, ceiling, grant, projection, check, ceilings, denied>>
stored == <<schema, projected, enforcement, ceiling, denied>>

ASSUME CeilingsAssumption ==
    /\ MaxVersion \in Nat /\ NoRow \notin Nat
    /\ \A s \in Schemas : s.auth \subseteq s.collections /\ ProfileCollection \notin s.auth

CeilingCollections == UNION {s.collections : s \in Schemas}
NoGrant == [step |-> "none"]
Kept(f, S) == [c \in DOMAIN f \cap S |-> f[c]]
Set(f, c, v) == [x \in DOMAIN f \cup {c} |-> IF x = c THEN v ELSE f[x]]
RevisionOf(c) == IF c \in DOMAIN ceiling THEN ceiling[c].revision ELSE 0

Startup == [step |-> "resources", next |-> schema, added |-> {}, applies |-> FALSE]

(* A realm has been created; its first projection is under way.            *)
CeilingsInit ==
    /\ schema \in Schemas /\ ProfileCollection \notin schema.collections
    /\ projected = {} /\ enforcement = NoRow /\ ceiling = <<>> /\ denied = {}
    /\ grant = [t \in Owners |-> NoGrant]
    /\ projection = Startup
    /\ check = [k \in Checks |-> NoRow] /\ ceilings = NoRow

-----------------------------------------------------------------------------
(* putRealmEntitlement and deleteRealmEntitlement up to the store.  The    *)
(* owner has read the row; revision 0 stands for null.                     *)
ForeignAuth(c) == c \in schema.auth
AskGrant(t, c, terms) ==
    /\ grant[t] = NoGrant /\ ~ForeignAuth(c)
    /\ enforcement # NoRow => enforcement < MaxVersion
    /\ grant' = [grant EXCEPT ![t] = [step |-> "put", collection |-> c, terms |-> terms,
                                      expected |-> RevisionOf(c)]]
    /\ UNCHANGED <<stored, projection, check, ceilings>>
AskRemoval(t, c) ==
    /\ grant[t] = NoGrant /\ c \in DOMAIN ceiling
    /\ enforcement < MaxVersion
    /\ grant' = [grant EXCEPT ![t] = [step |-> "remove", collection |-> c,
                                      expected |-> RevisionOf(c)]]
    /\ UNCHANGED <<stored, projection, check, ceilings>>

(* A row is locked by the SELECT ... FOR UPDATE of a put if it is there.   *)
Locked(c) == \E t \in Owners : grant[t].step = "locked" /\ grant[t].collection = c
EndGrant(t) == grant' = [grant EXCEPT ![t] = NoGrant]

(* put: the row is compared, and locked if there is one ...                *)
ReadCeiling(t) ==
    LET q == grant[t]
    IN /\ q.step = "put" /\ ~Locked(q.collection)
       /\ IF q.expected = RevisionOf(q.collection)
          THEN grant' = [grant EXCEPT ![t].step = IF q.expected = 0 THEN "absent" ELSE "locked"]
          ELSE EndGrant(t)
       /\ UNCHANGED <<stored, projection, check, ceilings>>
(* ... and inserted or, whatever it is by now, updated.                    *)
PutCeiling(t) ==
    LET q == grant[t]
    IN /\ q.step \in {"absent", "locked"}
       /\ q.step = "absent" => ~Locked(q.collection)
       /\ IF enforcement = NoRow
          THEN UNCHANGED stored
          ELSE /\ ceiling' = Set(ceiling, q.collection,
                                 [terms |-> q.terms, revision |-> q.expected + 1])
               /\ enforcement' = enforcement + 1
               /\ denied' = denied \ {q.collection}
               /\ UNCHANGED <<schema, projected>>
       /\ EndGrant(t)
       /\ UNCHANGED <<projection, check, ceilings>>

\* Mutant of AfterRemoval: the version is bumped by put only.
SameVersion == enforcement

AfterRemoval == enforcement + 1

RemoveCeiling(t) ==
    LET q == grant[t]
        c == q.collection
        settled == c \in schema.collections /\ ~(projection.step # "none" /\ c \in projection.added)
    IN /\ q.step = "remove" /\ ~Locked(c)
       /\ IF c \in DOMAIN ceiling /\ q.expected = RevisionOf(c)
          THEN /\ ceiling' = Kept(ceiling, DOMAIN ceiling \ {c})
               /\ enforcement' = AfterRemoval
               /\ denied' = IF settled THEN denied \cup {c} ELSE denied
               /\ UNCHANGED <<schema, projected>>
          ELSE UNCHANGED stored
       /\ EndGrant(t)
       /\ UNCHANGED <<projection, check, ceilings>>
AbortGrant(t) ==
    /\ grant[t] # NoGrant /\ EndGrant(t)
    /\ UNCHANGED <<stored, projection, check, ceilings>>

-----------------------------------------------------------------------------
\* Mutant of SeedOf: access is preserved by every pass.
SeedOfEverything(added) == projected

(* What reconcileRealmFromPolicy creates ceilings for.                     *)
SeedOf(added) == IF enforcement = NoRow THEN projected ELSE added \cap projected

(* reconcileRealmFromPolicy                                                *)
Reconcile(added) ==
    LET auth == schema.auth \cup (schema.collections \cap {ProfileCollection})
        kept == Kept(ceiling, DOMAIN ceiling \ auth)
        seed == {c \in SeedOf(added) \ auth : Granted[c].actions # {}} \ DOMAIN kept
    IN /\ \A c \in DOMAIN ceiling \cap auth : ~Locked(c)
       /\ ceiling' = [c \in DOMAIN kept \cup seed |->
                         IF c \in seed THEN [terms |-> Granted[c], revision |-> 1] ELSE kept[c]]
       /\ enforcement' = IF enforcement = NoRow THEN 1
                         ELSE IF DOMAIN kept # DOMAIN ceiling THEN enforcement + 1
                         ELSE enforcement
       /\ UNCHANGED <<schema, projected, denied>>

Step(s) == projection' = [projection EXCEPT !.step = s]

(* A start of this server or of another one projects what there is.        *)
StartServer ==
    /\ projection.step = "none"
    /\ projection' = Startup
    /\ \/ ceilings' = NoRow /\ check' = [k \in Checks |-> NoRow]
       \/ UNCHANGED <<check, ceilings>>
    /\ UNCHANGED <<stored, grant>>

(* applySchemaWithProjection up to schema.apply.  A realm that has no Auth *)
(* collection yet is projected from the draft first.                       *)
BeginApply(s) ==
    /\ projection.step = "none" /\ s # schema
    /\ enforcement # NoRow => enforcement < MaxVersion
    /\ ProfileCollection \in schema.collections => ProfileCollection \in s.collections
    /\ projection' = [step |-> IF ProfileCollection \in s.collections \ schema.collections
                               THEN "prepare" ELSE "apply",
                      next |-> s, added |-> s.collections \ schema.collections,
                      applies |-> TRUE]
    /\ UNCHANGED <<stored, grant, check, ceilings>>
PrepareRealm ==
    /\ projection.step = "prepare"
    /\ projected' = projection.next.collections
    /\ Step("seed")
    /\ UNCHANGED <<schema, enforcement, ceiling, denied, grant, check, ceilings>>
SeedRealm ==
    /\ projection.step = "seed"
    /\ Reconcile({})
    /\ Step("apply")
    /\ UNCHANGED <<grant, check, ceilings>>
ApplySchema ==
    /\ projection.step = "apply"
    /\ schema' = projection.next
    /\ denied' = denied \cap projection.next.collections
    /\ Step(IF ProfileCollection \in projection.next.collections THEN "resources" ELSE "prune")
    /\ UNCHANGED <<projected, enforcement, ceiling, grant, check, ceilings>>

(* syncCollectionResources, then the ceilings, then prune after an apply.  *)
SyncResources ==
    /\ projection.step = "resources"
    /\ projected' = schema.collections
    /\ Step("ceilings")
    /\ UNCHANGED <<schema, enforcement, ceiling, denied, grant, check, ceilings>>
ReconcileCeilings ==
    /\ projection.step = "ceilings"
    /\ Reconcile(projection.added)
    /\ IF projection.applies THEN Step("prune") ELSE projection' = [step |-> "none"]
    /\ UNCHANGED <<grant, check, ceilings>>
Prune ==
    LET retired == DOMAIN ceiling \ schema.collections
    IN /\ projection.step = "prune"
       /\ \A c \in retired : ~Locked(c)
       /\ ceiling' = Kept(ceiling, schema.collections)
       /\ enforcement' = IF retired = {} THEN enforcement ELSE enforcement + 1
       /\ projection' = [step |-> "none"]
       /\ UNCHANGED <<schema, projected, denied, grant, check, ceilings>>
FailPass ==
    /\ projection.step # "none"
    /\ projection' = [step |-> "none"]
    /\ UNCHANGED <<stored, grant, check, ceilings>>

-----------------------------------------------------------------------------
(* applyActionGate                                                         *)
Allows(terms, action, owns) == action \in terms.actions /\ (terms.ownerOnly => owns)

(* loadEntitlements: the version; the cached rows are used if they are of  *)
(* that version, otherwise the rows are read and cached under it.          *)
ReadVersion(k) ==
    /\ check[k] = NoRow /\ enforcement # NoRow
    /\ ceilings # NoRow => ceilings.version # enforcement
    /\ check' = [check EXCEPT ![k] = enforcement]
    /\ UNCHANGED <<stored, grant, projection, ceilings>>
ReadCeilings(k) ==
    /\ check[k] # NoRow
    /\ ceilings' = [version |-> check[k], rows |-> [c \in DOMAIN ceiling |-> ceiling[c].terms]]
    /\ check' = [check EXCEPT ![k] = NoRow]
    /\ UNCHANGED <<stored, grant, projection>>

OwnerRequest(t) ==
    \/ \E c \in CeilingCollections, terms \in Terms : AskGrant(t, c, terms)
    \/ \E c \in CeilingCollections : AskRemoval(t, c)
    \/ ReadCeiling(t) \/ PutCeiling(t) \/ RemoveCeiling(t) \/ AbortGrant(t)
Pass ==
    \/ StartServer \/ PrepareRealm \/ SeedRealm \/ ApplySchema
    \/ SyncResources \/ ReconcileCeilings \/ Prune \/ FailPass
    \/ \E s \in Schemas : BeginApply(s)
CeilingsNext ==
    \/ \E t \in Owners : OwnerRequest(t)
    \/ Pass
    \/ \E k \in Checks : ReadVersion(k) \/ ReadCeilings(k)

CeilingsSpec == CeilingsInit /\ [][CeilingsNext]_cvars

-----------------------------------------------------------------------------
(* A decision taken from the cache never allows what the stored ceilings   *)
(* forbid: rows cached under the current version are no wider than the     *)
(* rows there are, in whatever order versions and rows were read while     *)
(* ceilings changed (loadEntitlements, gateDecision).                      *)
CacheNeverWidens ==
    ceilings # NoRow /\ ceilings.version = enforcement =>
        \A c \in DOMAIN ceilings.rows, owns \in BOOLEAN :
          \A action \in ceilings.rows[c].actions :
            Allows(ceilings.rows[c], action, owns)
            => c \in DOMAIN ceiling /\ Allows(ceiling[c].terms, action, owns)

(* A ceiling that an owner removed does not come back by itself: not by a  *)
(* restart, an apply of another schema, a failed pass that is repeated.    *)
(* (Removed while an apply that adds its collection is under way, it may.) *)
DenialsSurvive == denied \cap DOMAIN ceiling = {}

(* Nothing goes on being allowed after it was withdrawn, neither by a cache *)
(* nor by a pass.                                                          *)
CeilingsHold == CacheNeverWidens /\ DenialsSurvive
=============================================================================
