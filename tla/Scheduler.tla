----------------------------- MODULE Scheduler -----------------------------
(***************************************************************************)
(* Cron tasks: SchedulerService and SchedulerController over the tables    *)
(* scheduled_tasks and scheduled_runs, and the modules that plug a runner  *)
(* in at their own bootstrap (AcmeModule, BackupsModule).                  *)
(*                                                                         *)
(* The scheduler awaits nothing but SQLite, which answers within the same  *)
(* turn of the event loop, except in executeTask, which awaits the runner. *)
(* Each handler is therefore one step and an execution is two.             *)
(***************************************************************************)
EXTENDS Integers, FiniteSets

CONSTANTS
  UserTask,   \* ids of tasks created through the API
  Purge,      \* the row system.purge_operation_log
  Renew,      \* the row system.acme_renew
  Run,        \* ids of scheduled_runs
  MaxCrashes  \* bound: process deaths in a behaviour

ASSUME ConstantsAssumption ==
  /\ Purge \notin UserTask /\ Renew \notin UserTask /\ Purge # Renew
  /\ MaxCrashes \in Nat

Task    == UserTask \cup {Purge, Renew}
Builtin == {Purge, Renew}

\* The type of a task matters by who brings its runner.
PluginType == {"acme_renew", "db_backup"}
TaskType   == {"core"} \cup PluginType

VARIABLES
  row,         \* each task's row: "none" before insertion, "deleted" after
  type,        \* its type
  enabled,     \* tasks whose row is enabled
  schedulable, \* tasks whose cron string node-cron accepts too
  entries,     \* tasks with a cron handle in memory
  runners,     \* types with a registered runner
  run,         \* each run's row: its status
  taskOf,      \* the task of each run
  executing,   \* runs whose executeTask() awaits its runner
  server,      \* the panel process
  crashes      \* deaths so far

taskVars == <<row, type, enabled, schedulable>>
runVars  == <<run, taskOf>>
vars == <<taskVars, entries, runners, runVars, executing, server, crashes>>

Final     == {"success", "failed", "aborted"}
RunState  == Final \cup {"none", "running", "deleted"}
Exists(t) == row[t] = "live"
Serving   == server \in {"up", "stopping"}
Alive     == server \in {"loaded", "up", "stopping"}

TypeOK ==
  /\ row \in [Task -> {"none", "live", "deleted"}]
  /\ type \in [Task -> TaskType]
  /\ enabled \subseteq Task
  /\ schedulable \subseteq Task
  /\ entries \subseteq Task
  /\ runners \subseteq TaskType
  /\ run \in [Run -> RunState]
  /\ taskOf \in [Run -> Task]
  /\ executing \subseteq Run
  /\ server \in {"down", "loaded", "up", "stopping"}
  /\ crashes \in 0 .. MaxCrashes

Init ==
  /\ row = [t \in Task |-> "none"]
  /\ type = [t \in Task |-> IF t = Renew THEN "acme_renew" ELSE "core"]
  /\ enabled = Builtin
  /\ schedulable = Builtin
  /\ entries = {}
  /\ runners = {}
  /\ run = [r \in Run |-> "none"]
  /\ taskOf = [r \in Run |-> Purge]
  /\ executing = {}
  /\ server = "down"
  /\ crashes = 0

-----------------------------------------------------------------------------
\* A mistake the checks exclude: a handle that is not stopped first survives
\* the task being disabled.
RegisterAddsOnly(t, en, sched) ==
  entries' = IF en /\ sched THEN entries \cup {t} ELSE entries

\* register(t) on a row that is now enabled or not, schedulable or not: the
\* old handle is stopped in every case.
Register(t, en, sched) ==
  entries' = IF en /\ sched THEN entries \cup {t} ELSE entries \ {t}

\* A mistake the checks exclude: the handle outlives the task.
UnregisterNothing(t) == entries' = entries

\* unregister(t).
Unregister(t) == entries' = entries \ {t}

\* POST tasks.
Create(t, ty, en, sched) ==
  /\ Serving
  /\ row[t] = "none"
  /\ row' = [row EXCEPT ![t] = "live"]
  /\ type' = [type EXCEPT ![t] = ty]
  /\ enabled' = IF en THEN enabled \cup {t} ELSE enabled
  /\ schedulable' = IF sched THEN schedulable \cup {t} ELSE schedulable
  /\ Register(t, en, sched)
  /\ UNCHANGED <<runners, runVars, executing, server, crashes>>

\* PATCH tasks/:id of a task that is not built in, whichever fields it sets.
Update(t, ty, en, sched) ==
  /\ Serving
  /\ Exists(t) /\ t \notin Builtin
  /\ type' = [type EXCEPT ![t] = ty]
  /\ enabled' = IF en THEN enabled \cup {t} ELSE enabled \ {t}
  /\ schedulable' = IF sched THEN schedulable \cup {t} ELSE schedulable \ {t}
  /\ Register(t, en, sched)
  /\ UNCHANGED <<row, runners, runVars, executing, server, crashes>>

\* A mistake the checks exclude: runs outlive their task.
RunsWithoutCascade(t) == run

\* ON DELETE CASCADE from scheduled_tasks to scheduled_runs.
RunsAfterRemoval(t) ==
  [r \in Run |-> IF run[r] # "none" /\ taskOf[r] = t THEN "deleted" ELSE run[r]]

\* DELETE tasks/:id: unregister, delete the row and its runs.  Executions in
\* flight go on.
Remove(t) ==
  /\ Serving
  /\ Exists(t) /\ t \notin Builtin
  /\ Unregister(t)
  /\ row' = [row EXCEPT ![t] = "deleted"]
  /\ run' = RunsAfterRemoval(t)
  /\ UNCHANGED <<type, enabled, schedulable, runners, taskOf, executing, server, crashes>>

-----------------------------------------------------------------------------
\* executeTask(t) up to the runner: nothing keeps two executions of a task
\* apart.
Execute(t, r) ==
  /\ Exists(t) /\ type[t] \in runners
  /\ run[r] = "none"
  /\ run' = [run EXCEPT ![r] = "running"]
  /\ taskOf' = [taskOf EXCEPT ![r] = t]
  /\ executing' = executing \cup {r}
  /\ UNCHANGED <<taskVars, entries, runners, server, crashes>>

\* The cron handle fires.
CronFire(t, r) ==
  /\ Alive
  /\ t \in entries
  /\ Execute(t, r)

\* POST tasks/:id/run.  Without a task or a runner it only answers.
RunNow(t, r) ==
  /\ Serving
  /\ Execute(t, r)

\* The process is gone and its memory with it.
Die ==
  /\ server' = "down"
  /\ entries' = {}
  /\ runners' = {}
  /\ executing' = {}
  /\ crashes' = crashes + 1
  /\ UNCHANGED <<taskVars, runVars>>

\* The cron handle fires and executeTask() throws, the task or its runner
\* missing: the callback drops the promise, so the rejection ends the process.
CronFault(t) ==
  /\ Alive
  /\ t \in entries
  /\ ~Exists(t) \/ type[t] \notin runners
  /\ crashes < MaxCrashes
  /\ Die

\* The runner's result, or its error, is written to the run's row if the row
\* is still there.
Finish(r, status) ==
  /\ Alive
  /\ r \in executing
  /\ executing' = executing \ {r}
  /\ run' = [run EXCEPT ![r] = IF @ = "deleted" THEN @ ELSE status]
  /\ UNCHANGED <<taskVars, entries, runners, taskOf, server, crashes>>

-----------------------------------------------------------------------------
\* A mistake the checks exclude: runs cut short by a restart stay running.
RunsKeptAtBoot == run

\* A mistake the checks exclude: an abort that does not look at the status.
RunsAllAborted ==
  [r \in Run |-> IF run[r] \in {"none", "deleted"} THEN run[r] ELSE "aborted"]

\* A mistake the checks exclude: a status the column does not have.
RunsInterrupted == [r \in Run |-> IF run[r] = "running" THEN "stopped" ELSE run[r]]

\* abortStaleRunningRuns().
RunsAtBoot == [r \in Run |-> IF run[r] = "running" THEN "aborted" ELSE run[r]]

\* onApplicationBootstrap() of the scheduler: abort, insert the purge task if
\* it is missing, register every enabled task.  The runners of the
\* constructor are those of the core types.
BootScheduler ==
  /\ server = "down"
  /\ run' = RunsAtBoot
  /\ row' = [row EXCEPT ![Purge] = "live"]
  /\ entries' = {t \in Task : row'[t] = "live" /\ t \in enabled \cap schedulable}
  /\ runners' = {"core"}
  /\ server' = "loaded"
  /\ UNCHANGED <<type, enabled, schedulable, taskOf, executing, crashes>>

\* onApplicationBootstrap() of AcmeModule: the runner, then the built-in task
\* if it is missing, then its handle.
BootAcme ==
  /\ server = "loaded"
  /\ "acme_renew" \notin runners
  /\ runners' = runners \cup {"acme_renew"}
  /\ row' = [row EXCEPT ![Renew] = "live"]
  /\ Register(Renew, TRUE, TRUE)
  /\ UNCHANGED <<type, enabled, schedulable, runVars, executing, server, crashes>>

\* onApplicationBootstrap() of BackupsModule.
BootBackups ==
  /\ server = "loaded"
  /\ "db_backup" \notin runners
  /\ runners' = runners \cup {"db_backup"}
  /\ UNCHANGED <<taskVars, entries, runVars, executing, server, crashes>>

\* Every module has bootstrapped; requests are served.
Listen ==
  /\ server = "loaded"
  /\ PluginType \subseteq runners
  /\ server' = "up"
  /\ UNCHANGED <<taskVars, entries, runners, runVars, executing, crashes>>

\* onModuleDestroy(): every handle is stopped; what is under way goes on.
Stop ==
  /\ server = "up"
  /\ crashes < MaxCrashes
  /\ server' = "stopping"
  /\ entries' = {}
  /\ UNCHANGED <<taskVars, runners, runVars, executing, crashes>>

Crash ==
  /\ Alive
  /\ crashes < MaxCrashes
  /\ Die

-----------------------------------------------------------------------------
Boot == BootScheduler \/ BootAcme \/ BootBackups \/ Listen

Next ==
  \/ \E t \in UserTask, ty \in {"core", "db_backup"}, en, sched \in BOOLEAN :
       Create(t, ty, en, sched) \/ Update(t, ty, en, sched)
  \/ \E t \in UserTask : Remove(t)
  \/ \E t \in Task, r \in Run : CronFire(t, r) \/ RunNow(t, r)
  \/ \E t \in Task : CronFault(t)
  \/ \E r \in Run, status \in {"success", "failed"} : Finish(r, status)
  \/ Boot
  \/ Stop
  \/ Crash

Spec == Init /\ [][Next]_vars

\* systemd restarts the panel, bootstraps return and every runner settles: the
\* runners bound their commands and requests by timeouts.
Fairness ==
  /\ WF_vars(Boot)
  /\ \A r \in Run : WF_vars(\E status \in {"success", "failed"} : Finish(r, status))

FairSpec == Spec /\ Fairness

-----------------------------------------------------------------------------
(* Properties.                                                             *)

\* While requests are served, the handles in memory are those of the rows
\* that are enabled and that node-cron can schedule, after any sequence of
\* creations, edits, removals and restarts (register 95-116, unregister,
\* loadFromDb); a stopping panel has no other handle.
HandlesMatchRows ==
  /\ server = "up" =>
       entries = {t \in Task : Exists(t) /\ t \in enabled \cap schedulable}
  /\ server = "stopping" =>
       entries \subseteq {t \in Task : Exists(t) /\ t \in enabled \cap schedulable}

\* Once requests are served, a handle that fires finds its task and its
\* runner: it never ends the process (executeTask 146-161, register 111-115).
CronFindsRunner ==
  server = "up" => \A t \in entries : Exists(t) /\ type[t] \in runners

\* While the process lives, a row says "running" exactly while its execution
\* is under way; after a restart none is left (abortStaleRunningRuns), and a
\* removed task leaves no run (schema.ts 94, on delete cascade).
RunningIsExecuting ==
  /\ Alive => \A r \in Run : run[r] = "running" => r \in executing
  /\ \A r \in executing : run[r] \in {"running", "deleted"}
  /\ \A r \in Run : run[r] \notin {"none", "deleted"} => Exists(taskOf[r])

\* A run's outcome is written once: no late runner overwrites an abort, and
\* no restart aborts a finished run.
OutcomeKept ==
  \A r \in Run : run[r] \in Final => run'[r] \in {run[r], "deleted"}

OutcomeIsFinal == [][OutcomeKept]_vars

\* Every run ends, whatever crashes, restarts and removals do to it.
EveryRunEnds == \A r \in Run : run[r] = "running" ~> run[r] # "running"

\* A handle exists only once the runner of its task does (scheduler.service.ts
\* 60-64: loadFromDb "does not pick up rows inserted by other modules").
HandleHasRunner == \A t \in entries : type[t] \in runners

-----------------------------------------------------------------------------
(* The inductive invariant behind the safety properties.                   *)

\* Handles and runners, phase by phase of the process.
HandleInv ==
  /\ entries \subseteq {t \in Task : Exists(t) /\ t \in enabled \cap schedulable}
  /\ server \in {"loaded", "up"} =>
       entries = {t \in Task : Exists(t) /\ t \in enabled \cap schedulable}
  /\ Alive => "core" \in runners
  /\ server = "up" => TaskType \subseteq runners
  /\ Builtin \subseteq enabled \cap schedulable
  /\ \A t \in UserTask : row[t] = "none" => t \notin enabled \cup schedulable

\* Runs, their executions and their tasks.
RunInv ==
  /\ Alive => \A r \in Run : run[r] = "running" => r \in executing
  /\ ~Alive => executing = {}
  /\ \A r \in executing : run[r] \in {"running", "deleted"}
  /\ \A r \in Run : run[r] \notin {"none", "deleted"} => Exists(taskOf[r])

IInv == TypeOK /\ HandleInv /\ RunInv
=============================================================================
