------------------------------ MODULE Firewall ------------------------------
(***************************************************************************)
(* Staged firewall rules: FirewallService (firewall.service.ts) over the   *)
(* firewall_rule_meta table and a host firewall driven by child processes. *)
(*                                                                         *)
(* A rule is staged: a row is inserted, the daemon is told to add the      *)
(* rule, and a 30 s timer is armed in memory.  It is then confirmed, or    *)
(* cancelled, or reverted by the timer, or (after a restart) by the boot   *)
(* sweep.  The panel is one event loop: everything between two awaits on a *)
(* child process is one step, except that the process may die between two  *)
(* autocommitted statements, which only confirm() has.                     *)
(***************************************************************************)
EXTENDS Integers, FiniteSets

CONSTANTS
  MetaId,       \* ids of firewall_rule_meta; AUTOINCREMENT never reuses one
  Rule,         \* (port, proto, source, action) combinations
  Lockout,      \* the deny rules on the panel or the SSH port
  External,     \* rules put in force outside the panel
  ConfirmTicks, \* STAGE_CONFIRM_MS
  OrphanTicks,  \* STARTUP_ORPHAN_THRESHOLD_MS
  MaxCrashes,   \* bound: process deaths in a behaviour
  NoId          \* no id

ASSUME ConstantsAssumption ==
  /\ Rule # {}
  /\ Lockout \subseteq Rule
  /\ External \subseteq Rule
  /\ ConfirmTicks \in Nat
  /\ OrphanTicks \in Nat
  /\ ConfirmTicks < OrphanTicks
  /\ MaxCrashes \in Nat
  /\ NoId \notin MetaId

VARIABLES
  meta,    \* the row of each id: which of its timestamps are set
  ruleOf,  \* the row's rule
  age,     \* ticks since staged_at, saturating just above OrphanTicks
  kernel,  \* the rules the host firewall enforces
  staged,  \* keys of the in-memory map of staged entries
  left,    \* ticks until the timer of a staged entry is due
  cmd,     \* the driver command each operation is waiting for
  turn,    \* the id whose confirm() is between its two writes
  server,  \* the panel process
  orphans, \* rows the running boot sweep selected and has not reverted
  crashes, \* deaths so far
  leaked,  \* history: rules left in force by an error the code logs or rethrows
  asked    \* history: ids a client asked to remove

tableVars == <<meta, ruleOf, age>>
procVars  == <<staged, left, turn, server, orphans, crashes>>
ghostVars == <<leaked, asked>>
vars == <<tableVars, kernel, cmd, procVars, ghostVars>>

Undo  == {"revert", "remove", "sweep"}
Kind  == Undo \cup {"stage"}
Phase == {"none", "run", "ok", "err"}

RowState == {"unused", "staged", "confirming", "confirmed", "deleted"}
Live(m) == meta[m] \in {"staged", "confirming", "confirmed"}
Serving == server \in {"up", "stopping"}
Settled(k, m) == cmd[m][k] \in {"ok", "err"}

TypeOK ==
  /\ meta \in [MetaId -> RowState]
  /\ ruleOf \in [MetaId -> Rule]
  /\ age \in [MetaId -> 0 .. OrphanTicks + 1]
  /\ kernel \subseteq Rule
  /\ staged \subseteq MetaId
  /\ left \in [MetaId -> 0 .. ConfirmTicks]
  /\ cmd \in [MetaId -> [Kind -> Phase]]
  /\ turn \in MetaId \cup {NoId}
  /\ server \in {"down", "booting", "up", "stopping"}
  /\ orphans \subseteq MetaId
  /\ crashes \in 0 .. MaxCrashes
  /\ leaked \subseteq Rule
  /\ asked \subseteq MetaId

Init ==
  /\ meta = [m \in MetaId |-> "unused"]
  /\ ruleOf = [m \in MetaId |-> CHOOSE r \in Rule : TRUE]  \* until it is inserted
  /\ age = [m \in MetaId |-> 0]
  /\ kernel = External
  /\ staged = {}
  /\ left = [m \in MetaId |-> 0]
  /\ cmd = [m \in MetaId |-> [k \in Kind |-> "none"]]
  /\ turn = NoId
  /\ server = "up"
  /\ orphans = {}
  /\ crashes = 0
  /\ leaked = {}
  /\ asked = {}

-----------------------------------------------------------------------------
(* Steps shared by the handlers.                                           *)

\* Spawn the driver command of operation k on row m.
Spawn(k, m) == cmd' = [cmd EXCEPT ![m][k] = "run"]

\* The handler waiting for (k, m) resumes.
Resume(k, m) == cmd' = [cmd EXCEPT ![m][k] = "none"]

\* DELETE FROM firewall_rule_meta WHERE id = m.
DeleteRow(m) ==
  /\ meta' = [meta EXCEPT ![m] = "deleted"]
  /\ age' = [age EXCEPT ![m] = 0]

\* staged.delete(m) and clearTimeout.
DropEntries(S) ==
  /\ staged' = staged \ S
  /\ left' = [m \in MetaId |-> IF m \in S THEN 0 ELSE left[m]]

\* A mistake the checks exclude: arming the timer with the wrong constant.
ArmTimerLate(m) ==
  /\ staged' = staged \cup {m}
  /\ left' = [left EXCEPT ![m] = OrphanTicks]

\* A mistake the checks exclude: the timer finds no entry and returns.
ArmTimerNoEntry(m) ==
  /\ left' = [left EXCEPT ![m] = ConfirmTicks]
  /\ UNCHANGED staged

\* setTimeout and staged.set.
ArmTimer(m) ==
  /\ staged' = staged \cup {m}
  /\ left' = [left EXCEPT ![m] = ConfirmTicks]

\* The driver failed and the row goes all the same: what is still in force
\* is no longer described by that row.
Forget(k, m) ==
  leaked' = IF cmd[m][k] = "err" /\ ruleOf[m] \in kernel
              THEN leaked \cup {ruleOf[m]} ELSE leaked

-----------------------------------------------------------------------------
(* The host.                                                               *)

\* A driver command ends.  It may fail without having touched the rules, or
\* after having changed them: firewall-cmd --permanent succeeded and the
\* --reload did not, or the command was killed at its timeout.
DriverCommand(k, m) ==
  /\ cmd[m][k] = "run"
  /\ \E outcome \in {"ok", "err"}, effect \in BOOLEAN :
       /\ outcome = "ok" => effect
       /\ cmd' = [cmd EXCEPT ![m][k] = outcome]
       /\ kernel' = IF ~effect THEN kernel
                    ELSE IF k = "stage" THEN kernel \cup {ruleOf[m]}
                    ELSE kernel \ {ruleOf[m]}
  /\ UNCHANGED <<tableVars, procVars, ghostVars>>

Tick ==
  /\ age' = [m \in MetaId |->
               IF meta[m] \in {"staged", "confirming"} /\ age[m] <= OrphanTicks
                 THEN age[m] + 1 ELSE age[m]]
  /\ left' = [m \in MetaId |->
               IF m \in staged /\ left[m] > 0 THEN left[m] - 1 ELSE left[m]]
  /\ UNCHANGED <<meta, ruleOf, kernel, staged, cmd, turn, server, orphans,
                 crashes, ghostVars>>

-----------------------------------------------------------------------------
(* Handlers of the running panel.                                          *)

\* stage(): self-protection, insert the row, spawn driver.addRule.
Stage(m, r, ack) ==
  /\ Serving /\ turn = NoId
  /\ meta[m] = "unused"
  /\ r \in Lockout => ack
  /\ meta' = [meta EXCEPT ![m] = "staged"]
  /\ ruleOf' = [ruleOf EXCEPT ![m] = r]
  /\ age' = [age EXCEPT ![m] = 0]
  /\ Spawn("stage", m)
  /\ UNCHANGED <<kernel, procVars, ghostVars>>

\* stage() after addRule: arm the timer, or roll the row back and rethrow.
StageSettled(m) ==
  /\ Serving /\ turn = NoId
  /\ Settled("stage", m)
  /\ Resume("stage", m)
  /\ Forget("stage", m)
  /\ \/ /\ cmd[m]["stage"] = "ok"
        /\ ArmTimer(m)
        /\ UNCHANGED <<meta, age>>
     \/ /\ cmd[m]["stage"] = "err"
        /\ DeleteRow(m)
        /\ UNCHANGED <<staged, left>>
  /\ UNCHANGED <<ruleOf, kernel, turn, server, orphans, crashes, asked>>

\* A mistake the checks exclude: the entry and its timer outlive the confirmation.
ConfirmKeepsTimer(m) ==
  /\ Serving /\ turn = NoId
  /\ m \in staged
  /\ meta' = [meta EXCEPT ![m] = IF Live(m) THEN "confirming" ELSE @]
  /\ turn' = m
  /\ UNCHANGED <<ruleOf, age, kernel, cmd, staged, left, server, orphans, crashes,
                 ghostVars>>

\* confirm(), first write: confirming_at, then the timer and the entry go.
\* Without an entry the handler only answers.
ConfirmBegin(m) ==
  /\ Serving /\ turn = NoId
  /\ m \in staged
  /\ meta' = [meta EXCEPT ![m] = IF Live(m) THEN "confirming" ELSE @]
  /\ DropEntries({m})
  /\ turn' = m
  /\ UNCHANGED <<ruleOf, age, kernel, cmd, server, orphans, crashes, ghostVars>>

\* confirm(), second write: confirmed_at.
ConfirmEnd(m) ==
  /\ Serving /\ turn = m
  /\ meta' = [meta EXCEPT ![m] = IF Live(m) THEN "confirmed" ELSE @]
  /\ turn' = NoId
  /\ UNCHANGED <<ruleOf, age, kernel, cmd, staged, left, server, orphans, crashes,
                 ghostVars>>

\* A mistake the checks exclude: the row goes before the rule does.
UnstageRowFirst(m) ==
  /\ Serving /\ turn = NoId
  /\ m \in staged
  /\ DropEntries({m})
  /\ Spawn("revert", m)
  /\ DeleteRow(m)
  /\ UNCHANGED <<ruleOf, kernel, turn, server, orphans, crashes, ghostVars>>

\* Drop the entry, then driver.removeRule: shared by cancel and the timer.
Unstage(m) ==
  /\ Serving /\ turn = NoId
  /\ m \in staged
  /\ DropEntries({m})
  /\ Spawn("revert", m)
  /\ UNCHANGED <<tableVars, kernel, turn, server, orphans, crashes, ghostVars>>

CancelStage(m) == Unstage(m)

AutoRevert(m) == left[m] = 0 /\ Unstage(m)

\* Both then delete the row, whether or not the driver succeeded.
RevertSettled(m) ==
  /\ Serving /\ turn = NoId
  /\ Settled("revert", m)
  /\ Resume("revert", m)
  /\ Forget("revert", m)
  /\ DeleteRow(m)
  /\ UNCHANGED <<ruleOf, kernel, procVars, asked>>

\* removeRule(): the id is one a client has seen, so its stage() has answered.
\* At most one request at a time per id.
RemoveRule(m) ==
  /\ Serving /\ turn = NoId
  /\ Live(m)
  /\ cmd[m]["stage"] = "none" /\ cmd[m]["remove"] = "none"
  /\ Spawn("remove", m)
  /\ asked' = asked \cup {m}
  /\ UNCHANGED <<tableVars, kernel, procVars, leaked>>

\* removeRule() after the driver: a failure is rethrown and the row stays.
RemoveSettled(m) ==
  /\ Serving /\ turn = NoId
  /\ Settled("remove", m)
  /\ Resume("remove", m)
  /\ \/ cmd[m]["remove"] = "ok" /\ DeleteRow(m)
     \/ cmd[m]["remove"] = "err" /\ UNCHANGED <<meta, age>>
  /\ UNCHANGED <<ruleOf, kernel, procVars, ghostVars>>

-----------------------------------------------------------------------------
(* The process and its boot sweep.                                         *)

\* onModuleDestroy(): every timer is cleared, requests in flight go on.
Stop ==
  /\ server = "up" /\ turn = NoId
  /\ crashes < MaxCrashes
  /\ server' = "stopping"
  /\ DropEntries(MetaId)
  /\ UNCHANGED <<tableVars, kernel, cmd, turn, orphans, crashes, ghostVars>>

\* The process ends, at any point.
Crash ==
  /\ server # "down"
  /\ crashes < MaxCrashes
  /\ crashes' = crashes + 1
  /\ server' = "down"
  /\ DropEntries(MetaId)
  /\ turn' = NoId
  /\ orphans' = {}
  /\ cmd' = [m \in MetaId |-> [k \in Kind |-> "none"]]
  /\ UNCHANGED <<tableVars, kernel, ghostVars>>

\* A mistake the checks exclude: a sweep with no grace after the timer.
OrphanedNoGrace == {m \in MetaId : meta[m] = "staged" /\ age[m] > ConfirmTicks}

\* A mistake the checks exclude: confirming_at is not looked at.
OrphanedUnconfirmed ==
  {m \in MetaId : meta[m] \in {"staged", "confirming"} /\ age[m] > OrphanTicks}

\* The rows recoverySweep() selects for reversal.
Orphaned == {m \in MetaId : meta[m] = "staged" /\ age[m] > OrphanTicks}

\* Boot: recoverySweep() selects the orphans once.  No request is served
\* before every bootstrap hook has returned.
Boot ==
  /\ server = "down"
  /\ server' = "booting"
  /\ orphans' = Orphaned
  /\ UNCHANGED <<tableVars, kernel, cmd, staged, left, turn, crashes, ghostVars>>

SweepRevert(m) ==
  /\ server = "booting"
  /\ m \in orphans
  /\ \A n \in MetaId : cmd[n]["sweep"] = "none"
  /\ Spawn("sweep", m)
  /\ UNCHANGED <<tableVars, kernel, procVars, ghostVars>>

SweepSettled(m) ==
  /\ server = "booting"
  /\ Settled("sweep", m)
  /\ Resume("sweep", m)
  /\ Forget("sweep", m)
  /\ DeleteRow(m)
  /\ orphans' = orphans \ {m}
  /\ UNCHANGED <<ruleOf, kernel, staged, left, turn, server, crashes, asked>>

\* Every confirm() cut short by the crash is completed; requests are served.
SweepPromote ==
  /\ server = "booting"
  /\ orphans = {}
  /\ meta' = [m \in MetaId |->
                IF meta[m] = "confirming" THEN "confirmed" ELSE meta[m]]
  /\ server' = "up"
  /\ UNCHANGED <<ruleOf, age, kernel, cmd, staged, left, turn, orphans, crashes,
                 ghostVars>>

-----------------------------------------------------------------------------
Handler(m) ==
  \/ StageSettled(m)
  \/ ConfirmEnd(m)
  \/ AutoRevert(m)
  \/ RevertSettled(m)
  \/ RemoveSettled(m)

Request(m) ==
  \/ \E r \in Rule, ack \in BOOLEAN : Stage(m, r, ack)
  \/ ConfirmBegin(m)
  \/ CancelStage(m)
  \/ RemoveRule(m)

Recovery ==
  \/ Boot
  \/ \E m \in MetaId : SweepRevert(m) \/ SweepSettled(m)
  \/ SweepPromote

Next ==
  \/ \E m \in MetaId : Handler(m) \/ Request(m)
  \/ \E k \in Kind, m \in MetaId : DriverCommand(k, m)
  \/ Recovery
  \/ Tick
  \/ Stop
  \/ Crash

Spec == Init /\ [][Next]_vars

\* Timers fire, runCommand() kills a command at its timeout, promises resume
\* and systemd restarts the panel.  No client is obliged to do anything, and
\* nothing obliges the process to die.
Fairness ==
  /\ WF_vars(Tick)
  /\ \A m \in MetaId :
       /\ WF_vars(StageSettled(m))
       /\ WF_vars(ConfirmEnd(m))
       /\ WF_vars(AutoRevert(m))
       /\ WF_vars(RevertSettled(m))
       /\ WF_vars(RemoveSettled(m))
       /\ \A k \in Kind : WF_vars(DriverCommand(k, m))
  /\ WF_vars(Recovery)

FairSpec == Spec /\ Fairness
-----------------------------------------------------------------------------
(* Safety.                                                                 *)

\* Every rule in force that the panel added has a row, unless an error the
\* code only logs or rethrows left it behind: whatever the interleaving of
\* stages, timers, cancels, removals, deaths and sweeps, no rule is stranded
\* outside the table (stage 176-209, cancelStage, autoRevert, recoverySweep).
NoStrayRule ==
  \A r \in kernel :
    \/ r \in External \cup leaked
    \/ \E m \in MetaId : Live(m) /\ ruleOf[m] = r

\* No other row was ever staged for the same rule.
Unshared(m) ==
  \A n \in MetaId \ {m} : meta[n] # "unused" => ruleOf[n] # ruleOf[m]

\* From the moment confirming_at is written, a rule stays in force until a
\* client asks to remove it: no timer, cancel, sweep or restart takes it away
\* (confirm 231-250, autoRevert 490-491, recoverySweep 441-456).
ConfirmedInForce ==
  \A m \in MetaId :
    meta[m] \in {"confirming", "confirmed"} /\ m \notin asked /\ Unshared(m)
      => ruleOf[m] \in kernel

\* A row is deleted only by its own operations, and each within its right:
\* the boot sweep never takes a row staged less than OrphanTicks before, and
\* once confirming_at is written only a client's removal deletes the row.
DeletedByRight ==
  \A m \in MetaId : Live(m) /\ meta'[m] = "deleted" =>
    /\ server = "booting" => age[m] > OrphanTicks
    /\ meta[m] \in {"confirming", "confirmed"} => m \in asked

RowsDeletedByRight == [][DeletedByRight]_vars

\* The life of each row as StagedRules tells it: the two writes of confirm(),
\* and the sweep that completes one cut short, are one decision; every way of
\* losing a row before it is one withdrawal.
LifeOf(s) ==
  CASE s = "unused"                     -> "unused"
    [] s = "staged"                     -> "pending"
    [] s \in {"confirming", "confirmed"} -> "kept"
    [] s = "deleted"                    -> "gone"

Lives == [m \in MetaId |-> LifeOf(meta[m])]

Staging == INSTANCE StagedRules WITH Id <- MetaId, life <- Lives

\* Timers, cancels, deaths, sweeps and the split confirmation keep to the
\* abstract protocol: nothing revives a row that is gone, and only a client
\* ends a rule once confirming_at is written (confirm 231-250, recoverySweep).
ImplementsStaging == Staging!Spec

\* A confirmed rule stays in force until a client removes that very row
\* (docs/firewall.md:49-50, "staged for 30 seconds before being permanently kept").
ConfirmedKept ==
  \A m \in MetaId :
    meta[m] = "confirmed" /\ m \notin asked => ruleOf[m] \in kernel

-----------------------------------------------------------------------------
(* Liveness.                                                               *)

\* The process that staged the row still answers for it.
Tracked(m) == m \in staged \/ cmd[m]["stage"] # "none" \/ cmd[m]["revert"] # "none"

\* While the panel lives, every staged rule is resolved: confirmed, or its
\* row deleted, whatever the driver answers (setTimeout 203-209, autoRevert).
StagedResolved ==
  \A m \in MetaId :
    meta[m] = "staged" /\ Tracked(m)
      ~> meta[m] # "staged" \/ server \in {"down", "stopping"}

\* What StagedResolved rests on besides fairness: from its command to its timer
\* and from there to its reversal or confirmation, a staged row never drops out
\* of the hands of the process that staged it, while that process lives.
StaysTracked ==
  \A m \in MetaId :
    /\ meta[m] = "staged" /\ Tracked(m)
    /\ meta'[m] = "staged" /\ server' \notin {"down", "stopping"}
    => Tracked(m)'

StagedStaysTracked == [][StaysTracked]_vars

\* A rule in force that nobody confirmed does not stay so for ever: its row is
\* confirmed or deleted, or a client asks to remove it (docs/firewall.md:49-51,
\* "staged for 30 seconds before being permanently kept").
EveryStageResolved ==
  \A m \in MetaId :
    meta[m] = "staged" /\ ruleOf[m] \in kernel
      ~> meta[m] # "staged" \/ m \in asked
-----------------------------------------------------------------------------
(* The inductive invariant behind the safety properties.                   *)

\* A process that serves no request has no entry and no command of one; only
\* a booting one sweeps.
ProcessInv ==
  /\ ~Serving =>
       /\ staged = {} /\ turn = NoId
       /\ \A m \in MetaId, k \in {"stage", "revert", "remove"} : cmd[m][k] = "none"
  /\ server # "booting" =>
       /\ orphans = {}
       /\ \A m \in MetaId : cmd[m]["sweep"] = "none"

\* An id passes from its stage command to its entry, then to one owner: the
\* confirmation, the reversal or the sweep.
RowInv(m) ==
  /\ meta[m] = "unused" =>
       m \notin staged /\ m \notin asked /\ \A k \in Kind : cmd[m][k] = "none"
  /\ cmd[m]["stage"] # "none" =>
       /\ meta[m] = "staged" /\ m \notin staged /\ m \notin asked
       /\ \A k \in Undo : cmd[m][k] = "none"
  /\ m \in staged => meta[m] \in {"staged", "deleted"} /\ cmd[m]["revert"] = "none"
  /\ cmd[m]["revert"] # "none" => meta[m] \in {"staged", "deleted"}
  /\ cmd[m]["remove"] # "none" => m \in asked
  /\ cmd[m]["sweep"] # "none" => m \in orphans
  /\ m \in orphans => meta[m] = "staged" /\ age[m] > OrphanTicks
  /\ turn = m =>
       /\ meta[m] \in {"confirming", "deleted"} /\ m \notin staged
       /\ cmd[m]["stage"] = "none" /\ cmd[m]["revert"] = "none"

\* A row some removal has already taken out of the kernel excuses no rule.
StrayInv ==
  \A r \in kernel :
    \/ r \in External \cup leaked
    \/ \E m \in MetaId :
         Live(m) /\ ruleOf[m] = r /\ \A k \in Undo : cmd[m][k] # "ok"

\* Rows whose rule the driver has reported added and nothing is taking out.
Enforced(m) ==
  \/ cmd[m]["stage"] = "ok"
  \/ m \in staged
  \/ meta[m] \in {"confirming", "confirmed"}

ForceInv ==
  \A m \in MetaId :
    Enforced(m) /\ m \notin asked /\ Unshared(m) => ruleOf[m] \in kernel

IInv ==
  /\ TypeOK
  /\ ProcessInv
  /\ \A m \in MetaId : RowInv(m)
  /\ StrayInv
  /\ ForceInv
=============================================================================
