----------------------------- MODULE MCGateways -----------------------------
(***************************************************************************)
(* One connection of each kind.                                            *)
(***************************************************************************)
EXTENDS Gateways, TLC

CONSTANTS a, s, t

MCConn == {a, s, t}
MCKind == a :> "action" @@ s :> "stream" @@ t :> "terminal"
=============================================================================
