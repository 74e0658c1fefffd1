--------------------------- MODULE FirewallProofs ---------------------------
(***************************************************************************)
(* The safety properties of Firewall, for every set of ids and of rules,   *)
(* every timing and any number of deaths.                                  *)
(***************************************************************************)
EXTENDS Firewall, TLAPS

\* The timer is not armed for longer than the sweep waits, and every
\* variable keeps its type under each step of the handlers of one row.
LEMMA RowTypes ==
  ASSUME TypeOK, NEW m \in MetaId, Handler(m) \/ Request(m)
  PROVE  TypeOK'
<1> USE ConstantsAssumption DEF TypeOK, Kind, Undo, Phase, RowState, procVars,
       tableVars, ghostVars
<1>1. CASE StageSettled(m)
  BY <1>1 DEF StageSettled, Resume, Forget, ArmTimer, DeleteRow
<1>2. CASE ConfirmEnd(m)
  BY <1>2 DEF ConfirmEnd
<1>3. CASE AutoRevert(m)
  BY <1>3 DEF AutoRevert, Unstage, DropEntries, Spawn
<1>4. CASE RevertSettled(m)
  BY <1>4 DEF RevertSettled, Resume, Forget, DeleteRow
<1>5. CASE RemoveSettled(m)
  BY <1>5 DEF RemoveSettled, Resume, DeleteRow
<1>6. CASE \E r \in Rule, ack \in BOOLEAN : Stage(m, r, ack)
  BY <1>6 DEF Stage, Spawn
<1>7. CASE ConfirmBegin(m)
  BY <1>7 DEF ConfirmBegin, DropEntries
<1>8. CASE CancelStage(m)
  BY <1>8 DEF CancelStage, Unstage, DropEntries, Spawn
<1>9. CASE RemoveRule(m)
  BY <1>9 DEF RemoveRule, Spawn
<1> QED
  BY <1>1, <1>2, <1>3, <1>4, <1>5, <1>6, <1>7, <1>8, <1>9 DEF Handler, Request

\* Every step keeps every type.
LEMMA TypeStep ==
  ASSUME TypeOK, Next
  PROVE  TypeOK'
<1> USE ConstantsAssumption DEF TypeOK, Kind, Undo, Phase, RowState, procVars,
       tableVars, ghostVars
<1>1. CASE \E m \in MetaId : Handler(m) \/ Request(m)
  BY <1>1, RowTypes
<1>2. CASE \E k \in Kind, m \in MetaId : DriverCommand(k, m)
  BY <1>2 DEF DriverCommand
<1>3. CASE Recovery
  <2>1. CASE Boot
    BY <2>1 DEF Boot, Orphaned
  <2>2. CASE \E m \in MetaId : SweepRevert(m)
    BY <2>2 DEF SweepRevert, Spawn
  <2>3. CASE \E m \in MetaId : SweepSettled(m)
    BY <2>3 DEF SweepSettled, Resume, Forget, DeleteRow
  <2>4. CASE SweepPromote
    BY <2>4 DEF SweepPromote
  <2> QED
    BY <1>3, <2>1, <2>2, <2>3, <2>4 DEF Recovery
<1>4. CASE Tick
  BY <1>4 DEF Tick
<1>5. CASE Stop
  BY <1>5 DEF Stop, DropEntries
<1>6. CASE Crash
  BY <1>6 DEF Crash, DropEntries
<1> QED
  BY <1>1, <1>2, <1>3, <1>4, <1>5, <1>6 DEF Next

\* Every variable keeps its type: the type invariant is inductive on its own
\* (the table, the map of staged entries and the driver commands of
\* firewall.service.ts).
THEOREM TypeInvariance == Spec => []TypeOK
<1>1. Init => TypeOK
  BY ConstantsAssumption DEF Init, TypeOK, Kind, Undo, Phase, RowState
<1>2. TypeOK /\ [Next]_vars => TypeOK'
  <2>1. ASSUME TypeOK, Next PROVE TypeOK'
    BY <2>1, TypeStep
  <2>2. ASSUME TypeOK, UNCHANGED vars PROVE TypeOK'
    BY <2>2 DEF TypeOK, vars, tableVars, procVars, ghostVars
  <2> QED
    BY <2>1, <2>2
<1> QED
  BY <1>1, <1>2, PTL DEF Spec

-----------------------------------------------------------------------------
(* The inductive invariant, one lemma per part of it.                      *)

\* Each step keeps the process and every row where IInv says they are.
LEMMA ControlStep ==
  ASSUME TypeOK, ProcessInv, \A n \in MetaId : RowInv(n), Next
  PROVE  ProcessInv' /\ \A n \in MetaId : RowInv(n)'
<1> USE ConstantsAssumption DEF TypeOK, ProcessInv, RowInv, Serving, Kind, Undo,
       Phase, RowState, procVars, tableVars, ghostVars
<1>1. ASSUME NEW m \in MetaId, StageSettled(m)
      PROVE  ProcessInv' /\ \A n \in MetaId : RowInv(n)'
  BY <1>1 DEF StageSettled, Settled, Resume, ArmTimer, DeleteRow
<1>2. ASSUME NEW m \in MetaId, ConfirmEnd(m)
      PROVE  ProcessInv' /\ \A n \in MetaId : RowInv(n)'
  BY <1>2 DEF ConfirmEnd, Live
<1>3. ASSUME NEW m \in MetaId, AutoRevert(m)
      PROVE  ProcessInv' /\ \A n \in MetaId : RowInv(n)'
  BY <1>3 DEF AutoRevert, Unstage, DropEntries, Spawn
<1>4. ASSUME NEW m \in MetaId, RevertSettled(m)
      PROVE  ProcessInv' /\ \A n \in MetaId : RowInv(n)'
  BY <1>4 DEF RevertSettled, Settled, Resume, DeleteRow
<1>5. ASSUME NEW m \in MetaId, RemoveSettled(m)
      PROVE  ProcessInv' /\ \A n \in MetaId : RowInv(n)'
  BY <1>5 DEF RemoveSettled, Settled, Resume, DeleteRow
<1>6. ASSUME NEW m \in MetaId, NEW r \in Rule, NEW ack \in BOOLEAN, Stage(m, r, ack)
      PROVE  ProcessInv' /\ \A n \in MetaId : RowInv(n)'
  BY <1>6 DEF Stage, Spawn
<1>7. ASSUME NEW m \in MetaId, ConfirmBegin(m)
      PROVE  ProcessInv' /\ \A n \in MetaId : RowInv(n)'
  BY <1>7 DEF ConfirmBegin, Live, DropEntries
<1>8. ASSUME NEW m \in MetaId, CancelStage(m)
      PROVE  ProcessInv' /\ \A n \in MetaId : RowInv(n)'
  BY <1>8 DEF CancelStage, Unstage, DropEntries, Spawn
<1>9. ASSUME NEW m \in MetaId, RemoveRule(m)
      PROVE  ProcessInv' /\ \A n \in MetaId : RowInv(n)'
  BY <1>9 DEF RemoveRule, Live, Spawn
<1>10. ASSUME NEW k \in Kind, NEW m \in MetaId, DriverCommand(k, m)
      PROVE  ProcessInv' /\ \A n \in MetaId : RowInv(n)'
  BY <1>10 DEF DriverCommand
<1>11. ASSUME Boot
      PROVE  ProcessInv' /\ \A n \in MetaId : RowInv(n)'
  BY <1>11 DEF Boot, Orphaned
<1>12. ASSUME NEW m \in MetaId, SweepRevert(m)
      PROVE  ProcessInv' /\ \A n \in MetaId : RowInv(n)'
  BY <1>12 DEF SweepRevert, Spawn
<1>13. ASSUME NEW m \in MetaId, SweepSettled(m)
      PROVE  ProcessInv' /\ \A n \in MetaId : RowInv(n)'
  BY <1>13 DEF SweepSettled, Settled, Resume, DeleteRow
<1>14. ASSUME SweepPromote
      PROVE  ProcessInv' /\ \A n \in MetaId : RowInv(n)'
  BY <1>14 DEF SweepPromote
<1>15. ASSUME Tick
      PROVE  ProcessInv' /\ \A n \in MetaId : RowInv(n)'
  BY <1>15 DEF Tick
<1>16. ASSUME Stop
      PROVE  ProcessInv' /\ \A n \in MetaId : RowInv(n)'
  BY <1>16 DEF Stop, DropEntries
<1>17. ASSUME Crash
      PROVE  ProcessInv' /\ \A n \in MetaId : RowInv(n)'
  BY <1>17 DEF Crash, DropEntries
<1> QED
  BY <1>1, <1>2, <1>3, <1>4, <1>5, <1>6, <1>7, <1>8, <1>9, <1>10, <1>11, <1>12,
     <1>13, <1>14, <1>15, <1>16, <1>17 DEF Next, Handler, Request, Recovery

\* A row that goes either had its rule taken out, so it excused none, or its
\* rule is recorded as leaked; a rule that comes in comes with a live row.
LEMMA StrayStep ==
  ASSUME TypeOK, ProcessInv, \A n \in MetaId : RowInv(n), StrayInv, Next
  PROVE  StrayInv'
<1> USE ConstantsAssumption DEF TypeOK, ProcessInv, RowInv, Serving, Kind, Undo,
       Phase, RowState, procVars, tableVars, ghostVars,
       StrayInv, Live, Forget
<1>1. ASSUME NEW m \in MetaId, StageSettled(m)
      PROVE  StrayInv'
  BY <1>1 DEF StageSettled, Settled, Resume, ArmTimer, DeleteRow
<1>2. ASSUME NEW m \in MetaId, ConfirmEnd(m)
      PROVE  StrayInv'
  BY <1>2 DEF ConfirmEnd, Live
<1>3. ASSUME NEW m \in MetaId, AutoRevert(m)
      PROVE  StrayInv'
  BY <1>3 DEF AutoRevert, Unstage, DropEntries, Spawn
<1>4. ASSUME NEW m \in MetaId, RevertSettled(m)
      PROVE  StrayInv'
  BY <1>4 DEF RevertSettled, Settled, Resume, DeleteRow
<1>5. ASSUME NEW m \in MetaId, RemoveSettled(m)
      PROVE  StrayInv'
  BY <1>5 DEF RemoveSettled, Settled, Resume, DeleteRow
<1>6. ASSUME NEW m \in MetaId, NEW r \in Rule, NEW ack \in BOOLEAN, Stage(m, r, ack)
      PROVE  StrayInv'
  BY <1>6 DEF Stage, Spawn
<1>7. ASSUME NEW m \in MetaId, ConfirmBegin(m)
      PROVE  StrayInv'
  BY <1>7 DEF ConfirmBegin, Live, DropEntries
<1>8. ASSUME NEW m \in MetaId, CancelStage(m)
      PROVE  StrayInv'
  BY <1>8 DEF CancelStage, Unstage, DropEntries, Spawn
<1>9. ASSUME NEW m \in MetaId, RemoveRule(m)
      PROVE  StrayInv'
  BY <1>9 DEF RemoveRule, Live, Spawn
<1>10. ASSUME NEW k \in Kind, NEW m \in MetaId, DriverCommand(k, m)
      PROVE  StrayInv'
  BY <1>10 DEF DriverCommand
<1>11. ASSUME Boot
      PROVE  StrayInv'
  BY <1>11 DEF Boot, Orphaned
<1>12. ASSUME NEW m \in MetaId, SweepRevert(m)
      PROVE  StrayInv'
  BY <1>12 DEF SweepRevert, Spawn
<1>13. ASSUME NEW m \in MetaId, SweepSettled(m)
      PROVE  StrayInv'
  BY <1>13 DEF SweepSettled, Settled, Resume, DeleteRow
<1>14. ASSUME SweepPromote
      PROVE  StrayInv'
  BY <1>14 DEF SweepPromote
<1>15. ASSUME Tick
      PROVE  StrayInv'
  BY <1>15 DEF Tick
<1>16. ASSUME Stop
      PROVE  StrayInv'
  BY <1>16 DEF Stop, DropEntries
<1>17. ASSUME Crash
      PROVE  StrayInv'
  BY <1>17 DEF Crash, DropEntries
<1> QED
  BY <1>1, <1>2, <1>3, <1>4, <1>5, <1>6, <1>7, <1>8, <1>9, <1>10, <1>11, <1>12,
     <1>13, <1>14, <1>15, <1>16, <1>17 DEF Next, Handler, Request, Recovery

\* Only an operation on a row of the same rule takes the rule out, and no
\* such operation is under way on a row that is enforced.
LEMMA ForceStep ==
  ASSUME TypeOK, ProcessInv, \A n \in MetaId : RowInv(n), ForceInv, Next
  PROVE  ForceInv'
<1> USE ConstantsAssumption DEF TypeOK, ProcessInv, RowInv, Serving, Kind, Undo,
       Phase, RowState, procVars, tableVars, ghostVars,
       ForceInv, Enforced, Unshared
<1>1. ASSUME NEW m \in MetaId, StageSettled(m)
      PROVE  ForceInv'
  BY <1>1 DEF StageSettled, Settled, Resume, ArmTimer, DeleteRow
<1>2. ASSUME NEW m \in MetaId, ConfirmEnd(m)
      PROVE  ForceInv'
  BY <1>2 DEF ConfirmEnd, Live
<1>3. ASSUME NEW m \in MetaId, AutoRevert(m)
      PROVE  ForceInv'
  BY <1>3 DEF AutoRevert, Unstage, DropEntries, Spawn
<1>4. ASSUME NEW m \in MetaId, RevertSettled(m)
      PROVE  ForceInv'
  BY <1>4 DEF RevertSettled, Settled, Resume, DeleteRow
<1>5. ASSUME NEW m \in MetaId, RemoveSettled(m)
      PROVE  ForceInv'
  BY <1>5 DEF RemoveSettled, Settled, Resume, DeleteRow
<1>6. ASSUME NEW m \in MetaId, NEW r \in Rule, NEW ack \in BOOLEAN, Stage(m, r, ack)
      PROVE  ForceInv'
  BY <1>6 DEF Stage, Spawn
<1>7. ASSUME NEW m \in MetaId, ConfirmBegin(m)
      PROVE  ForceInv'
  BY <1>7 DEF ConfirmBegin, Live, DropEntries
<1>8. ASSUME NEW m \in MetaId, CancelStage(m)
      PROVE  ForceInv'
  BY <1>8 DEF CancelStage, Unstage, DropEntries, Spawn
<1>9. ASSUME NEW m \in MetaId, RemoveRule(m)
      PROVE  ForceInv'
  BY <1>9 DEF RemoveRule, Live, Spawn
<1>10. ASSUME NEW k \in Kind, NEW m \in MetaId, DriverCommand(k, m)
      PROVE  ForceInv'
  BY <1>10 DEF DriverCommand
<1>11. ASSUME Boot
      PROVE  ForceInv'
  BY <1>11 DEF Boot, Orphaned
<1>12. ASSUME NEW m \in MetaId, SweepRevert(m)
      PROVE  ForceInv'
  BY <1>12 DEF SweepRevert, Spawn
<1>13. ASSUME NEW m \in MetaId, SweepSettled(m)
      PROVE  ForceInv'
  BY <1>13 DEF SweepSettled, Settled, Resume, DeleteRow
<1>14. ASSUME SweepPromote
      PROVE  ForceInv'
  BY <1>14 DEF SweepPromote
<1>15. ASSUME Tick
      PROVE  ForceInv'
  BY <1>15 DEF Tick
<1>16. ASSUME Stop
      PROVE  ForceInv'
  BY <1>16 DEF Stop, DropEntries
<1>17. ASSUME Crash
      PROVE  ForceInv'
  BY <1>17 DEF Crash, DropEntries
<1> QED
  BY <1>1, <1>2, <1>3, <1>4, <1>5, <1>6, <1>7, <1>8, <1>9, <1>10, <1>11, <1>12,
     <1>13, <1>14, <1>15, <1>16, <1>17 DEF Next, Handler, Request, Recovery

\* IInv holds in every reachable state.
THEOREM InductiveInvariance == Spec => []IInv
<1>1. Init => IInv
  BY ConstantsAssumption DEF Init, IInv, TypeOK, ProcessInv, RowInv, StrayInv, ForceInv,
     Enforced, Serving, Kind, Undo, Phase, RowState
<1>2. IInv /\ [Next]_vars => IInv'
  <2>1. ASSUME IInv, Next PROVE ProcessInv' /\ (\A n \in MetaId : RowInv(n)')
    BY <2>1, ControlStep DEF IInv
  <2>2. ASSUME IInv, Next PROVE StrayInv'
    BY <2>2, StrayStep DEF IInv
  <2>3. ASSUME IInv, Next PROVE ForceInv'
    BY <2>3, ForceStep DEF IInv
  <2>4. ASSUME IInv, Next PROVE TypeOK'
    BY <2>4, TypeStep DEF IInv
  <2>5. ASSUME IInv, UNCHANGED vars PROVE IInv'
    BY <2>5 DEF IInv, TypeOK, ProcessInv, RowInv, StrayInv, ForceInv, Enforced,
       Unshared, Live, Serving, vars, tableVars, procVars, ghostVars
  <2> QED
    BY <2>1, <2>2, <2>3, <2>4, <2>5 DEF IInv
<1> QED
  BY <1>1, <1>2, PTL DEF Spec

-----------------------------------------------------------------------------
(* What the invariant gives.                                               *)

\* No rule the panel added is in force without a row, except those an error
\* of the driver left behind (firewall.service.ts, stage to autoRevert).
THEOREM NoStrayRuleHolds == Spec => []NoStrayRule
<1>1. IInv => NoStrayRule
  BY DEF IInv, StrayInv, NoStrayRule
<1> QED
  BY <1>1, InductiveInvariance, PTL

\* What confirm() has begun to record stays in force until a removal is asked
\* for, if the rule was staged once (confirm 231-250).
THEOREM ConfirmedInForceHolds == Spec => []ConfirmedInForce
<1>1. IInv => ConfirmedInForce
  BY DEF IInv, ForceInv, Enforced, ConfirmedInForce
<1> QED
  BY <1>1, InductiveInvariance, PTL

\* The boot sweep spares the rows inside its window, and nothing but a
\* removal deletes a row confirm() has touched (recoverySweep 441-474).
THEOREM RowsDeletedByRightHolds == Spec => RowsDeletedByRight
<1>1. IInv /\ [Next]_vars => [DeletedByRight]_vars
  <2> SUFFICES ASSUME IInv, Next PROVE DeletedByRight
    OBVIOUS
  <2> USE DEF DeletedByRight, IInv, TypeOK, RowInv, Live
  <2>1. CASE \E n \in MetaId : StageSettled(n)
    BY <2>1 DEF StageSettled, DeleteRow, Settled, Serving
  <2>2. CASE \E n \in MetaId : RevertSettled(n)
    BY <2>2 DEF RevertSettled, DeleteRow, Settled, Serving
  <2>3. CASE \E n \in MetaId : RemoveSettled(n)
    BY <2>3 DEF RemoveSettled, DeleteRow, Settled, Serving
  <2>4. CASE \E n \in MetaId : SweepSettled(n)
    BY <2>4 DEF SweepSettled, DeleteRow, Settled
  <2>5. CASE \E n \in MetaId : ConfirmBegin(n) \/ ConfirmEnd(n)
    BY <2>5 DEF ConfirmBegin, ConfirmEnd
  <2>6. CASE \E n \in MetaId, r \in Rule, ack \in BOOLEAN : Stage(n, r, ack)
    BY <2>6 DEF Stage
  <2>7. CASE SweepPromote
    BY <2>7 DEF SweepPromote
  <2>8. CASE UNCHANGED meta
    BY <2>8
  <2>9. \/ \E n \in MetaId : \/ StageSettled(n) \/ RevertSettled(n) \/ RemoveSettled(n)
                             \/ SweepSettled(n) \/ ConfirmBegin(n) \/ ConfirmEnd(n)
        \/ \E n \in MetaId, r \in Rule, ack \in BOOLEAN : Stage(n, r, ack)
        \/ SweepPromote
        \/ UNCHANGED meta
    BY DEF Next, Handler, Request, Recovery, AutoRevert, CancelStage, Unstage,
       RemoveRule, DriverCommand, Boot, SweepRevert, Tick, Stop, Crash, tableVars
  <2> QED
    BY <2>1, <2>2, <2>3, <2>4, <2>5, <2>6, <2>7, <2>8, <2>9
<1> QED
  BY <1>1, InductiveInvariance, PTL DEF Spec, RowsDeletedByRight

\* A staged row of a living panel never drops out of the hands of the process
\* that staged it: each handler passes it on or resolves it (stage to autoRevert).
THEOREM StagedStaysTrackedHolds == Spec => StagedStaysTracked
<1>1. IInv /\ [Next]_vars => [StaysTracked]_vars
  <2> SUFFICES ASSUME IInv, Next, NEW m \in MetaId,
                      meta[m] = "staged", Tracked(m), meta'[m] = "staged",
                      server' \notin {"down", "stopping"}
               PROVE  Tracked(m)'
    BY DEF StaysTracked
  <2> USE DEF IInv, TypeOK, RowInv, RowState, Kind, Undo, Phase, Tracked
  <2>1. ASSUME NEW n \in MetaId, Handler(n) PROVE Tracked(m)'
    <3>1. CASE StageSettled(n)
      BY <2>1, <3>1 DEF StageSettled, Settled, Resume, ArmTimer, DeleteRow
    <3>2. CASE ConfirmEnd(n)
      BY <2>1, <3>2 DEF ConfirmEnd
    <3>3. CASE AutoRevert(n)
      BY <2>1, <3>3 DEF AutoRevert, Unstage, DropEntries, Spawn
    <3>4. CASE RevertSettled(n)
      BY <2>1, <3>4 DEF RevertSettled, Settled, Resume, DeleteRow, procVars
    <3>5. CASE RemoveSettled(n)
      BY <2>1, <3>5 DEF RemoveSettled, Settled, Resume, procVars
    <3> QED
      BY <2>1, <3>1, <3>2, <3>3, <3>4, <3>5 DEF Handler
  <2>2. ASSUME NEW n \in MetaId, Request(n) PROVE Tracked(m)'
    <3>1. CASE \E r \in Rule, ack \in BOOLEAN : Stage(n, r, ack)
      BY <2>2, <3>1 DEF Stage, Spawn, procVars
    <3>2. CASE ConfirmBegin(n)
      BY <2>2, <3>2 DEF ConfirmBegin, DropEntries, Live
    <3>3. CASE CancelStage(n)
      BY <2>2, <3>3 DEF CancelStage, Unstage, DropEntries, Spawn
    <3>4. CASE RemoveRule(n)
      BY <2>2, <3>4 DEF RemoveRule, Spawn, procVars
    <3> QED
      BY <2>2, <3>1, <3>2, <3>3, <3>4 DEF Request
  <2>3. ASSUME NEW k \in Kind, NEW n \in MetaId, DriverCommand(k, n) PROVE Tracked(m)'
    BY <2>3 DEF DriverCommand, procVars
  <2>4. CASE Boot \/ Tick \/ SweepPromote
    BY <2>4 DEF Boot, Tick, SweepPromote, tableVars
  <2>5. ASSUME NEW n \in MetaId, SweepRevert(n) \/ SweepSettled(n) PROVE Tracked(m)'
    BY <2>5 DEF SweepRevert, SweepSettled, Spawn, Resume, procVars
  <2>6. CASE Stop \/ Crash
    BY <2>6 DEF Stop, Crash
  <2> QED
    BY <2>1, <2>2, <2>3, <2>4, <2>5, <2>6 DEF Next, Recovery
<1> QED
  BY <1>1, InductiveInvariance, PTL DEF Spec, StagedStaysTracked

\* What a step does to one row, in the words of StagedRules.
LifeStep(m) ==
  \/ LifeOf(meta'[m]) = LifeOf(meta[m])
  \/ LifeOf(meta[m]) = "unused" /\ LifeOf(meta'[m]) = "pending"
  \/ LifeOf(meta[m]) = "pending" /\ LifeOf(meta'[m]) \in {"kept", "gone"}
  \/ m \in asked /\ LifeOf(meta[m]) = "kept" /\ LifeOf(meta'[m]) = "gone"

\* A step that touches only row m, in one of those ways, is one of StagedRules.
LEMMA OneRowStep ==
  ASSUME NEW m \in MetaId, LifeStep(m), UNCHANGED asked,
         \A n \in MetaId \ {m} : meta'[n] = meta[n]
  PROVE  Staging!Next \/ UNCHANGED <<Lives, asked>>
<1>1. Lives' = [Lives EXCEPT ![m] = LifeOf(meta'[m])]
  BY DEF Lives
<1>2. Lives[m] = LifeOf(meta[m])
  BY DEF Lives
<1>3. CASE LifeOf(meta'[m]) = LifeOf(meta[m])
  BY <1>1, <1>2, <1>3 DEF Lives
<1>4. CASE LifeOf(meta[m]) = "unused" /\ LifeOf(meta'[m]) = "pending"
  BY <1>1, <1>2, <1>4 DEF Staging!Next, Staging!Propose, Staging!Turn
<1>5. CASE LifeOf(meta[m]) = "pending" /\ LifeOf(meta'[m]) \in {"kept", "gone"}
  BY <1>1, <1>2, <1>5 DEF Staging!Next, Staging!Keep, Staging!Withdraw, Staging!Turn
<1>6. CASE m \in asked /\ LifeOf(meta[m]) = "kept" /\ LifeOf(meta'[m]) = "gone"
  BY <1>1, <1>2, <1>6 DEF Staging!Next, Staging!Remove, Staging!Turn
<1> QED
  BY <1>3, <1>4, <1>5, <1>6 DEF LifeStep

\* The staging protocol with its timers, deaths and sweeps implements the
\* abstract one (firewall.service.ts, stage to autoRevert).
THEOREM ImplementsStagingHolds == Spec => ImplementsStaging
<1>1. Init => Staging!Init
  BY DEF Init, Staging!Init, Lives, LifeOf
<1>2. IInv /\ [Next]_vars => [Staging!Next]_<<Lives, asked>>
  <2> SUFFICES ASSUME IInv, Next PROVE Staging!Next \/ UNCHANGED <<Lives, asked>>
    BY DEF vars, tableVars, ghostVars, Lives
  <2> USE DEF IInv, TypeOK, RowInv, RowState, LifeStep, LifeOf
  <2>1. ASSUME NEW n \in MetaId, StageSettled(n) \/ RevertSettled(n)
        PROVE  LifeStep(n) /\ UNCHANGED asked /\ \A o \in MetaId \ {n} : meta'[o] = meta[o]
    BY <2>1 DEF StageSettled, RevertSettled, DeleteRow, Settled
  <2>2. ASSUME NEW n \in MetaId, RemoveSettled(n) \/ SweepSettled(n)
        PROVE  LifeStep(n) /\ UNCHANGED asked /\ \A o \in MetaId \ {n} : meta'[o] = meta[o]
    BY <2>2 DEF RemoveSettled, SweepSettled, DeleteRow, Settled, ghostVars
  <2>3. ASSUME NEW n \in MetaId, ConfirmBegin(n) \/ ConfirmEnd(n)
        PROVE  LifeStep(n) /\ UNCHANGED asked /\ \A o \in MetaId \ {n} : meta'[o] = meta[o]
    BY <2>3 DEF ConfirmBegin, ConfirmEnd, Live, ghostVars
  <2>4. ASSUME NEW n \in MetaId, NEW r \in Rule, NEW ack \in BOOLEAN, Stage(n, r, ack)
        PROVE  LifeStep(n) /\ UNCHANGED asked /\ \A o \in MetaId \ {n} : meta'[o] = meta[o]
    BY <2>4 DEF Stage, ghostVars
  <2>5. CASE SweepPromote
    BY <2>5 DEF SweepPromote, ghostVars, Lives
  <2>6. ASSUME NEW n \in MetaId, RemoveRule(n) PROVE Staging!Ask(n)
    BY <2>6 DEF RemoveRule, Live, Staging!Ask, tableVars, Lives
  <2>7. CASE UNCHANGED <<meta, asked>>
    BY <2>7 DEF Lives
  <2>8. \/ \E n \in MetaId : StageSettled(n) \/ RevertSettled(n)
        \/ \E n \in MetaId : RemoveSettled(n) \/ SweepSettled(n)
        \/ \E n \in MetaId : ConfirmBegin(n) \/ ConfirmEnd(n)
        \/ \E n \in MetaId, r \in Rule, ack \in BOOLEAN : Stage(n, r, ack)
        \/ SweepPromote
        \/ \E n \in MetaId : RemoveRule(n)
        \/ UNCHANGED <<meta, asked>>
    BY DEF Next, Handler, Request, Recovery, AutoRevert, CancelStage, Unstage,
       DriverCommand, Boot, SweepRevert, Tick, Stop, Crash, tableVars, ghostVars
  <2> HIDE DEF IInv, TypeOK, RowInv, RowState, LifeStep, LifeOf
  <2> QED
    BY <2>1, <2>2, <2>3, <2>4, <2>5, <2>6, <2>7, <2>8, OneRowStep DEF Staging!Next
<1> QED
  BY <1>1, <1>2, InductiveInvariance, PTL DEF Spec, ImplementsStaging, Staging!Spec
=============================================================================
