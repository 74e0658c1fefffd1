---------------------------- MODULE StagedRules ----------------------------
(***************************************************************************)
(* What the staging protocol promises for each row, free of timers, child  *)
(* processes, deaths and sweeps: a proposed rule is either kept, in one    *)
(* step and for good, or withdrawn; a kept one ends only at the request of *)
(* a client (docs/firewall.md:49-51).                                      *)
(***************************************************************************)
CONSTANT Id

VARIABLES
  life,  \* each row: unused, pending, kept or gone
  asked  \* the rows a client has asked to remove

Init ==
  /\ life = [m \in Id |-> "unused"]
  /\ asked = {}

Turn(m, from, to) ==
  /\ life[m] = from
  /\ life' = [life EXCEPT ![m] = to]
  /\ UNCHANGED asked

Propose(m)  == Turn(m, "unused", "pending")
Keep(m)     == Turn(m, "pending", "kept")
Withdraw(m) == Turn(m, "pending", "gone")
Remove(m)   == m \in asked /\ Turn(m, "kept", "gone")

Ask(m) ==
  /\ life[m] \in {"pending", "kept"}
  /\ asked' = asked \cup {m}
  /\ UNCHANGED life

Next ==
  \E m \in Id : Propose(m) \/ Keep(m) \/ Withdraw(m) \/ Remove(m) \/ Ask(m)

Spec == Init /\ [][Next]_<<life, asked>>
=============================================================================
