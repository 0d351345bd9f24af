----------------------- MODULE MCHierarchyProjection -----------------------
EXTENDS HierarchyProjection, TLC

CONSTANTS d1, d2, d3
DocsDef == {d1, d2, d3}

(* Three documents, so that one moved has another below; two where requests *)
(* also meet a refused purge or apply and lost replies.                    *)
ScenariosDef ==
    {[docs |-> DocsDef, faults |-> {}],
     [docs |-> {d1, d2}, faults |-> {"refusal", "lost reply"}]}
============================================================================
