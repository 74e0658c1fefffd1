----------------------------- MODULE MCSessions -----------------------------
(***************************************************************************)
(* Two tabs, one of them with two requests at a time.                      *)
(***************************************************************************)
EXTENDS Sessions, TLC

CONSTANTS t1, t2, l1, l2, r1, r2, r3

MCTab     == {t1, t2}
MCLogin   == {l1, l2}
MCRequest == {r1, r2, r3}
MCOwner   == r1 :> t1 @@ r2 :> t1 @@ r3 :> t2

Symmetry == Permutations(MCLogin) \cup Permutations({r1, r2})
=============================================================================
