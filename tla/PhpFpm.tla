------------------------------- MODULE PhpFpm -------------------------------
(***************************************************************************)
(* The managed php-fpm container: PhpFpmService (php-fpm.service.ts), with *)
(* the timer that stops it once no PHP site is left.                       *)
(*                                                                         *)
(* Each operator is the part of a method between two awaits of the Docker  *)
(* daemon; Sites says who calls them.  The mode in which an operator runs  *)
(* php-fpm himself does nothing and is left out.                           *)
(***************************************************************************)
EXTENDS Integers

VARIABLES
  box,      \* the container: "none", "stopped" or "running"
  handle,   \* idleStopTimer: "null", or a timer that is "armed" or has "fired"
  stray,    \* how many timers are armed that idleStopTimer does not refer to
  stopping  \* how many docker stops the panel awaits

timerVars == <<handle, stray>>
fpmVars == <<box, timerVars, stopping>>

FpmTypeOK ==
  /\ box \in {"none", "stopped", "running"}
  /\ handle \in {"null", "armed", "fired"}
  /\ stray \in Nat
  /\ stopping \in Nat

FpmInit ==
  /\ box = "none"
  /\ handle = "null"
  /\ stray = 0
  /\ stopping = 0

\* ensureRunning() up to its first await: an armed timer is cleared.
ClearTimer ==
  /\ handle' = "null"
  /\ UNCHANGED <<box, stray, stopping>>

\* inspect() finds the container running.
FindsRunning == box = "running"

\* start() of the container that is there.
StartBox ==
  /\ box # "none"
  /\ box' = "running"
  /\ UNCHANGED <<timerVars, stopping>>

\* docker restart fails: nothing was done, or the stop was and the start was not.
RestartFails ==
  /\ box' = box \/ (box = "running" /\ box' = "stopped")
  /\ UNCHANGED <<timerVars, stopping>>

\* createContainer(): refused with 409 when another call was first.
MakeBox ==
  /\ box = "none"
  /\ box' = "stopped"
  /\ UNCHANGED <<timerVars, stopping>>

\* scheduleIdleStop(): nothing while a PHP site remains; else the old timer
\* is cleared and a new one armed.
ArmIdleStop(phpSites) ==
  /\ handle' = IF phpSites = {} THEN "armed" ELSE handle
  /\ UNCHANGED <<box, stray, stopping>>

\* The idle time of a timer is over: stopManagedContainer() asks for the stop.
TimerFires ==
  /\ \/ handle = "armed" /\ handle' = "fired" /\ UNCHANGED stray
     \/ stray > 0 /\ stray' = stray - 1 /\ UNCHANGED handle
  /\ stopping' = stopping + 1
  /\ UNCHANGED box

\* A mistake the checks exclude: the spent timer is kept, marked as such.
StopDoneMarked ==
  /\ stopping > 0
  /\ box' = IF box = "running" THEN "stopped" ELSE box
  /\ handle' = "spent"
  /\ stopping' = stopping - 1
  /\ UNCHANGED stray

\* The stop has ended: idleStopTimer is nulled, whichever timer it holds by
\* now.
StopDone ==
  /\ stopping > 0
  /\ box' = IF box = "running" THEN "stopped" ELSE box
  /\ handle' = "null"
  /\ stray' = IF handle = "armed" THEN stray + 1 ELSE stray
  /\ stopping' = stopping - 1

\* The stop fails and is only logged.
StopFails ==
  /\ stopping > 0
  /\ stopping' = stopping - 1
  /\ UNCHANGED <<box, timerVars>>

\* The panel dies with its timers; a stop under way is carried out or not.
FpmDies ==
  /\ handle' = "null"
  /\ stray' = 0
  /\ stopping' = 0
  /\ \/ UNCHANGED box
     \/ stopping > 0 /\ box = "running" /\ box' = "stopped"

=============================================================================
