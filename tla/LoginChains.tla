---------------------------- MODULE LoginChains ----------------------------
(***************************************************************************)
(* What the rotation of refresh tokens promises, free of requests, awaits  *)
(* and tabs: a login is a chain of token pairs of which only the last is   *)
(* worth anything, a pair is issued once, and a chain that has ended,      *)
(* expired or revoked, is not taken up again (auth.service.ts 86-123).     *)
(***************************************************************************)
CONSTANTS
  Login,  \* logins, each the name of its first pair
  Pair    \* pairs

VARIABLES
  holder,  \* the pairs of each login that are worth a new one: none or one
  issued   \* the pairs issued so far

Init ==
  /\ holder = [l \in Login |-> {}]
  /\ issued = {}

\* A pair never issued before becomes the only one of its login.
Grant(l, p) ==
  /\ p \notin issued
  /\ issued' = issued \cup {p}
  /\ holder' = [holder EXCEPT ![l] = {p}]

Open(l) == Grant(l, l)

Renew(l, p) == holder[l] # {} /\ Grant(l, p)

End(l) ==
  /\ holder[l] # {}
  /\ holder' = [holder EXCEPT ![l] = {}]
  /\ UNCHANGED issued

Next ==
  \E l \in Login : Open(l) \/ End(l) \/ \E p \in Pair \ Login : Renew(l, p)

Spec == Init /\ [][Next]_<<holder, issued>>
=============================================================================
