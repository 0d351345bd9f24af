----------------------------- MODULE MCHardPurge -----------------------------
(* Three documents which may all refer to each other; each configuration     *)
(* chooses what the relation of each one is.                                 *)
EXTENDS HardPurge, TLC

Anything == [d \in Docs |-> Docs \ {d}]
Upwards == (1 :> {} @@ 2 :> {1, 3} @@ 3 :> {1, 2})
Mixed == (1 :> "cascade" @@ 2 :> "nullify" @@ 3 :> "restrict")
Rewriting == [d \in Docs |-> IF d = 3 THEN "cascade" ELSE "nullify"]
==============================================================================
