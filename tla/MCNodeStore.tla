----------------------------- MODULE MCNodeStore -----------------------------
EXTENDS NodeStore, TLC

CONSTANTS A, B

Symmetry == Permutations({A, B})

MCObjs == [n \in Nodes |-> IF n \in Calcs THEN {"x"} ELSE IF n = "a" THEN {"y", "z"} ELSE {"y"}]
MCOutputs ==
    [k \in Calcs |-> [x \in {"out"} |-> CASE k = "k1" -> "o1" [] k = "k2" -> "o2" [] k = "k3" -> "o3"]]
MCTwins == [k \in Calcs |-> Calcs \ {k}]
=============================================================================
