---------------------------- MODULE MCScheduler ----------------------------
(***************************************************************************)
(* One task of the user's beside the two built-in ones, and two runs, so   *)
(* that executions overlap and a task is removed under one of them.  Run   *)
(* ids are spent for good, so a behaviour may come to rest.                *)
(***************************************************************************)
EXTENDS Scheduler

CONSTANTS t1, r1, r2

MCUserTask == {t1}
MCRun == {r1, r2}
============================================================================
