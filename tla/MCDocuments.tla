----------------------------- MODULE MCDocuments -------------------------------
(* Two concurrent requests, each free to run any operation again and again. *)
(* Clients and values are interchangeable in the specification and in every *)
(* property, so states that differ by a permutation are checked once.       *)
EXTENDS Documents, TLC

Symmetry == Permutations(Clients) \cup Permutations(Values)
================================================================================
