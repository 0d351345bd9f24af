-------------------------- MODULE MCContentEditors --------------------------
EXTENDS ContentEditors

Symmetry == Permutations(Docs) \cup Permutations(Editors)
=============================================================================
