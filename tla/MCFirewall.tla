----------------------------- MODULE MCFirewall -----------------------------
(***************************************************************************)
(* Two rows are the fewest that can compete for one rule; liveness, which  *)
(* concerns each row by itself, uses one row and one more death.           *)
(***************************************************************************)
EXTENDS Firewall, TLC

CONSTANTS m1, m2, allowWeb, denyPanel

MCOneId == {m1}
MCMetaId == {m1, m2}
MCRule == {allowWeb, denyPanel}
MCLockout == {denyPanel}
MCNoExternal == {}
IdSymmetry == Permutations(MCMetaId)
=============================================================================
