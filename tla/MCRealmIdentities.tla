------------------------- MODULE MCRealmIdentities -------------------------
(* The first owner and two operators that are members of the realm.        *)
EXTENDS RealmIdentities, TLC

CONSTANTS cms, ann, ben, s1, s2
IdentitiesDef == {cms, ann, ben}
ServersDef == {s1, s2}
\* Two logins have nothing to tell each other: one at a time is under way.
MCNext == Next /\ Cardinality({s \in Servers : request'[s].kind \in Logins}) <= 1
MCSpec == Init /\ [][MCNext]_vars
Symmetry == Permutations({ann, ben}) \cup Permutations(ServersDef)
=============================================================================
