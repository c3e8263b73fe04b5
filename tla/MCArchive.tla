------------------------------ MODULE MCArchive ------------------------------
EXTENDS Archive

Link(s, ty, t, x) == [src |-> s, tgt |-> t, type |-> ty, label |-> x]

MCKind == [n \in Nodes |-> CASE n \in {"d1", "d2"} -> "data" [] n = "w" -> "work" [] OTHER -> "calc"]
MCLike == [x \in {"a_b", "acb"} |-> IF x = "a_b" THEN {"a_b", "acb"} ELSE {"acb"}]
MCHome == [n \in Nodes |-> IF n \in {"k2", "d2"} THEN "B" ELSE "A"]
MCEarlyLinks == {Link("d1", "INPUT_CALC", "k1", "acb"), Link("w", "CALL_CALC", "k1", "acb")}
MCRequests ==
    {Link("k1", "CREATE", "d2", "acb"), Link("d2", "INPUT_CALC", "k2", "a_b"),
     Link("k2", "CREATE", "d1", "a_b"), Link("k2", "CREATE", "d2", "acb"),
     Link("w", "RETURN", "d2", "acb")}
MCToggles == {{}, {"CREATE"}}
MCExportToggles == {[on |-> {}, off |-> {}]}
=============================================================================
