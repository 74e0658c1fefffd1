-------------------------- MODULE SchedulerProofs --------------------------
(***************************************************************************)
(* The safety properties of Scheduler, for every set of tasks and of runs  *)
(* and any number of restarts.                                             *)
(***************************************************************************)
EXTENDS Scheduler, TLAPS

\* Requests and executions keep the invariant.
LEMMA RequestStep ==
  ASSUME IInv, NEW t \in UserTask, NEW ty \in {"core", "db_backup"},
         NEW en \in BOOLEAN, NEW sched \in BOOLEAN,
         Create(t, ty, en, sched) \/ Update(t, ty, en, sched) \/ Remove(t)
  PROVE  IInv'
<1> USE ConstantsAssumption DEF IInv, TypeOK, HandleInv, RunInv, Task, Builtin, TaskType,
       PluginType, Final, RunState, Exists, Alive, Serving, taskVars, runVars
<1>1. CASE Create(t, ty, en, sched)
  BY <1>1 DEF Create, Register
<1>2. CASE Update(t, ty, en, sched)
  BY <1>2 DEF Update, Register
<1>3. CASE Remove(t)
  BY <1>3 DEF Remove, Unregister, RunsAfterRemoval
<1> QED
  BY <1>1, <1>2, <1>3

\* A run starts only for a task that exists, and ends once.
LEMMA RunStep ==
  ASSUME IInv, NEW t \in Task, NEW r \in Run, NEW status \in {"success", "failed"},
         CronFire(t, r) \/ RunNow(t, r) \/ Finish(r, status)
  PROVE  IInv'
<1> USE ConstantsAssumption DEF IInv, TypeOK, HandleInv, RunInv, Task, Builtin, TaskType,
       PluginType, Final, RunState, Exists, Alive, Serving, taskVars, runVars
<1>1. CASE CronFire(t, r)
  BY <1>1 DEF CronFire, Execute
<1>2. CASE RunNow(t, r)
  BY <1>2 DEF RunNow, Execute
<1>3. CASE Finish(r, status)
  BY <1>3 DEF Finish
<1> QED
  BY <1>1, <1>2, <1>3

\* So does everything that starts or ends the process.
LEMMA ProcessStep ==
  ASSUME IInv, Boot \/ Stop \/ Crash \/ \E t \in Task : CronFault(t)
  PROVE  IInv'
<1> USE ConstantsAssumption DEF IInv, TypeOK, HandleInv, RunInv, Task, Builtin, TaskType,
       PluginType, Final, RunState, Exists, Alive, Serving, taskVars, runVars
<1>1. CASE BootScheduler
  BY <1>1 DEF BootScheduler, RunsAtBoot
<1>2. CASE BootAcme
  BY <1>2 DEF BootAcme, Register
<1>3. CASE BootBackups
  BY <1>3 DEF BootBackups
<1>4. CASE Listen
  BY <1>4 DEF Listen
<1>5. CASE Stop
  BY <1>5 DEF Stop
<1>6. CASE Crash
  BY <1>6 DEF Crash, Die
<1>7. CASE \E t \in Task : CronFault(t)
  BY <1>7 DEF CronFault, Die
<1> QED
  BY <1>1, <1>2, <1>3, <1>4, <1>5, <1>6, <1>7 DEF Boot

\* IInv holds in every reachable state.
THEOREM InductiveInvariance == Spec => []IInv
<1>1. Init => IInv
  BY ConstantsAssumption DEF Init, IInv, TypeOK, HandleInv, RunInv, Task, Builtin,
     TaskType, PluginType, Final, RunState, Exists, Alive
<1>2. IInv /\ [Next]_vars => IInv'
  <2>1. ASSUME IInv, Next PROVE IInv'
    <3>1. CASE \E t \in UserTask, ty \in {"core", "db_backup"}, en, sched \in BOOLEAN :
                 Create(t, ty, en, sched) \/ Update(t, ty, en, sched)
      BY <2>1, <3>1, RequestStep
    <3>2. CASE \E t \in UserTask : Remove(t)
      BY <2>1, <3>2, RequestStep
    <3>3. CASE \E t \in Task, r \in Run : CronFire(t, r) \/ RunNow(t, r)
      BY <2>1, <3>3, RunStep
    <3>4. CASE \E r \in Run, status \in {"success", "failed"} : Finish(r, status)
      <4>1. Purge \in Task
        BY DEF Task
      <4> QED
        BY <2>1, <3>4, <4>1, RunStep
    <3>5. CASE Boot \/ Stop \/ Crash \/ \E t \in Task : CronFault(t)
      BY <2>1, <3>5, ProcessStep
    <3> QED
      BY <2>1, <3>1, <3>2, <3>3, <3>4, <3>5 DEF Next
  <2>2. ASSUME IInv, UNCHANGED vars PROVE IInv'
    BY <2>2 DEF IInv, TypeOK, HandleInv, RunInv, Exists, Alive, vars, taskVars, runVars
  <2> QED
    BY <2>1, <2>2
<1> QED
  BY <1>1, <1>2, PTL DEF Spec

\* The handles in memory are those of the rows that can be scheduled
\* (register, unregister, loadFromDb).
THEOREM HandlesMatchRowsHolds == Spec => []HandlesMatchRows
<1>1. IInv => HandlesMatchRows
  BY DEF IInv, HandleInv, HandlesMatchRows
<1> QED
  BY <1>1, InductiveInvariance, PTL

\* A cron tick never ends a panel that serves requests (executeTask 146-161).
THEOREM CronFindsRunnerHolds == Spec => []CronFindsRunner
<1>1. IInv => CronFindsRunner
  BY DEF IInv, TypeOK, HandleInv, CronFindsRunner
<1> QED
  BY <1>1, InductiveInvariance, PTL

\* A row says "running" while, and only while, its execution is under way.
THEOREM RunningIsExecutingHolds == Spec => []RunningIsExecuting
<1>1. IInv => RunningIsExecuting
  BY DEF IInv, RunInv, RunningIsExecuting
<1> QED
  BY <1>1, InductiveInvariance, PTL

\* The outcome of a run is written once (executeTask 184-192, abortStaleRunningRuns).
THEOREM OutcomeIsFinalHolds == Spec => OutcomeIsFinal
<1>1. IInv /\ [Next]_vars => [OutcomeKept]_vars
  <2> SUFFICES ASSUME IInv, Next PROVE OutcomeKept
    OBVIOUS
  <2> USE DEF OutcomeKept, IInv, TypeOK, RunInv, Final, RunState, taskVars, runVars
  <2>1. CASE \E t \in UserTask : Remove(t)
    BY <2>1 DEF Remove, RunsAfterRemoval
  <2>2. CASE \E t \in Task, r \in Run : Execute(t, r)
    BY <2>2 DEF Execute
  <2>3. CASE \E r \in Run, status \in {"success", "failed"} : Finish(r, status)
    BY <2>3 DEF Finish
  <2>4. CASE BootScheduler
    BY <2>4 DEF BootScheduler, RunsAtBoot
  <2>5. CASE UNCHANGED run
    BY <2>5
  <2> QED
    BY <2>1, <2>2, <2>3, <2>4, <2>5 DEF Next, Boot, Create, Update, CronFire, RunNow,
       CronFault, Crash, Die, BootAcme, BootBackups, Listen, Stop
<1> QED
  BY <1>1, InductiveInvariance, PTL DEF Spec, OutcomeIsFinal

\* The state of the scheduler (scheduler.service.ts) keeps its
\* shape.
THEOREM TypeInvariance == Spec => []TypeOK
<1>1. IInv => TypeOK
  BY DEF IInv
<1> QED
  BY <1>1, InductiveInvariance, PTL
============================================================================
