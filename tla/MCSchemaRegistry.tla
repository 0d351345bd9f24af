-------------------------- MODULE MCSchemaRegistry --------------------------
EXTENDS SchemaRegistry, TLC

CONSTANTS posts, users, title, body, r1

MCCollections == {posts, users}
MCFields == {title, body}
MCRealms == {r1}

Plain == [type |-> "text", required |-> FALSE, default |-> FALSE]
Needed == [Plain EXCEPT !.required = TRUE]
Filled == [Needed EXCEPT !.default = TRUE]
Json == [Plain EXCEPT !.type = "json"]

Coll(fields, hierarchy, auth) == [fields |-> fields, hierarchy |-> hierarchy, auth |-> auth]
NoFields == [f \in {} |-> None]

\* One collection, which gets required fields with and without a default and
\* loses its hierarchy with that, and hands a field, whose type changes, over to
\* a collection of profiles.  Three runs let a field go and come back.
MCProposals == {
    posts :> Coll(title :> Plain, TRUE, None),
    posts :> Coll(title :> Needed @@ body :> Filled, FALSE, None),
    posts :> Coll(NoFields, TRUE, None) @@ users :> Coll(title :> Json, FALSE, r1)}
MCBatches == {{posts, users, title, body}}
Symmetry == Permutations(Editors)
=============================================================================
