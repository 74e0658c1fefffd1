------------------------------- MODULE MCSites -------------------------------
(***************************************************************************)
(* Two sites, so that one's file stands in the way of the other's          *)
(* validation, and three kinds of configuration.                           *)
(***************************************************************************)
EXTENDS Sites, TLC

CONSTANTS c1, c2, c3, blog, shop, static, php, broken

MCCall    == {c1, c2, c3}
MCTwoCalls == {c1, c2}
MCSite    == {blog, shop}
MCOneSite == {blog}
MCContent == {static, php, broken}
MCBad     == {broken}
MCPhp     == {php}

\* States that no property and no step of a call tells apart: what an ended call
\* worked on, and what reconcile() has listed and flagged.
MCView ==
  LET open == {c \in Call : pc[c] \notin Ended} IN
  <<[c \in Call |-> IF c \in open THEN <<pc[c], kind[c], site[c], want[c], rowRead[c]>>
                    ELSE <<pc[c]>>],
    had \cap open, row, owner, fileVars, scan, fault, crashes, fpmVars>>

MCSymmetry == Permutations(MCCall) \cup Permutations(MCSite)
=============================================================================
