------------------------------- MODULE MCAcme -------------------------------
(***************************************************************************)
(* Two sites, two issuances and a client, all under way together.          *)
(***************************************************************************)
EXTENDS Acme, TLC

CONSTANTS s1, s2, j1, j2, cl, me

MCSite  == {s1, s2}
MCJob   == {j1, j2}
MCClient == {cl}
MCEmail == {me}

\* States that no property and no later step tells apart: what an order that is not
\* a success says, what the outcome is on a site out of the property's reach, and
\* what a call has read once it has used it.
MCView ==
  <<[s \in Site |-> last[s] = "success" /\ ~Contended(s)],
    [s \in Site |-> IF Contended(s) THEN None ELSE served[s]],
    {w \in paths : pc[w] = "swap"}, {w \in old : pc[w] = "test"},
    exists, cert, due, chain, key, tls, acctVars, pc, jobData, runVars, fault, crashes>>

Symmetry == Permutations(MCSite) \cup Permutations(MCJob)
=============================================================================
