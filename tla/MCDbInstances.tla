--------------------------- MODULE MCDbInstances ---------------------------
EXTENDS DbInstances, TLC

CONSTANTS c1, c2, o1, o2, shop

MCCreate    == {c1, c2}
MCOneCreate == {c1}
MCOp        == {o1, o2}
MCOneOp     == {o1}
MCName      == {shop}

MCSymmetry == Permutations(MCCreate) \cup Permutations(MCOp)
=============================================================================
