------------------------------ MODULE MCNexus -------------------------------
(***************************************************************************)
(* Two polls, overlapping, of one instance: instances share only the list. *)
(***************************************************************************)
EXTENDS Nexus, TLC

CONSTANTS i1, p1, p2

MCInstance == {i1}
MCPoll     == {p1, p2}
MCSymmetry == Permutations(MCPoll)
=============================================================================
