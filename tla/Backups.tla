------------------------------ MODULE Backups ------------------------------
(***************************************************************************)
(* Database backups: BackupsService (backups.service.ts) over the backups  *)
(* table and the files under BACKUPS_ROOT.                                 *)
(*                                                                         *)
(* A create() streams a dump into a file, then inserts a row, then prunes  *)
(* its retention group; a delete and a prune unlink the file, then delete  *)
(* the row; a restore reads the row, then opens the file.  No lock relates *)
(* these requests: they interleave wherever they await the container or    *)
(* the file system, and the process may die there.                         *)
(***************************************************************************)
EXTENDS Integers, FiniteSets

CONSTANTS
  Backup,      \* calls of create(), each inserting at most one row
  Instance,    \* ids of db_instances
  Request,     \* arguments of create(): [inst, source, group, keep]
  NoGroup,     \* retentionGroup and keepLastN both null
  File,        \* file names under BACKUPS_ROOT
  NoFile,      \* no file name
  NoBackup,    \* no row
  SameInstant, \* whether two creates may read the same Date.now()
  MaxStuck,    \* bound: creates whose file withstands unlinks
  MaxCrashes   \* bound: process deaths in a behaviour

ASSUME ConstantsAssumption ==
  /\ \A q \in Request : q.inst \in Instance /\ q.keep \in Nat \ {0}
  /\ Request # {}
  /\ NoFile \notin File
  /\ NoBackup \notin Backup
  /\ SameInstant \in BOOLEAN
  /\ MaxStuck \in Nat
  /\ MaxCrashes \in Nat

VARIABLES
  instances, \* the rows of db_instances
  req,       \* the arguments of each create
  path,      \* its file name, once computed
  phase,     \* how far it has come
  row,       \* its row: the status, "none" before insertion, "deleted" after
  created,   \* the row's createdAt
  clock,     \* the latest createdAt, counted from 1
  writers,   \* for each file on disk, the creates whose bytes it holds
  surplus,   \* rows the create's prune has yet to drop
  victim,    \* the row whose file the create's prune has just unlinked
  deleting,  \* rows between the unlink and the delete of delete()
  restoring, \* rows a restore() has read and whose file it is about to open
  unlinked,  \* history: rows whose file a delete or a prune has unlinked
  stuck,     \* history: creates whose file withstood an unlink
  crashes    \* deaths so far

createVars == <<req, path, phase>>
pruneVars  == <<surplus, victim>>
vars == <<instances, createVars, row, created, clock, writers, pruneVars, deleting,
          restoring, unlinked, stuck, crashes>>

Phase  == {"idle", "dump", "write", "prune", "done", "lost", "cut"}
Status == {"success", "failed"}
InRow(b) == row[b] \in Status

TypeOK ==
  /\ instances \subseteq Instance
  /\ req \in [Backup -> Request]
  /\ path \in [Backup -> File \cup {NoFile}]
  /\ phase \in [Backup -> Phase]
  /\ row \in [Backup -> Status \cup {"none", "deleted"}]
  /\ created \in [Backup -> Nat]
  /\ clock \in Nat
  /\ writers \in [File -> SUBSET Backup]
  /\ surplus \in [Backup -> SUBSET Backup]
  /\ victim \in [Backup -> Backup \cup {NoBackup}]
  /\ deleting \subseteq Backup
  /\ restoring \subseteq Backup
  /\ unlinked \subseteq Backup
  /\ stuck \subseteq Backup
  /\ crashes \in 0 .. MaxCrashes

Init ==
  /\ instances = Instance
  /\ req = [b \in Backup |-> CHOOSE q \in Request : TRUE]  \* until it starts
  /\ path = [b \in Backup |-> NoFile]
  /\ phase = [b \in Backup |-> "idle"]
  /\ row = [b \in Backup |-> "none"]
  /\ created = [b \in Backup |-> 0]
  /\ clock = 1
  /\ writers = [f \in File |-> {}]
  /\ surplus = [b \in Backup |-> {}]
  /\ victim = [b \in Backup |-> NoBackup]
  /\ deleting = {}
  /\ restoring = {}
  /\ unlinked = {}
  /\ stuck = {}
  /\ crashes = 0

-----------------------------------------------------------------------------
\* unlink(...).catch(() => undefined): the file is gone, or the error is
\* swallowed and it stays.
Unlink(b) ==
  \/ /\ writers' = [writers EXCEPT ![path[b]] = {}]
     /\ UNCHANGED stuck
  \/ /\ stuck' = stuck \cup {b}
     /\ Cardinality(stuck') <= MaxStuck
     /\ writers[path[b]] # {}
     /\ UNCHANGED writers

\* The unlink of a row's file, with what it came to.
UnlinkRow(x) ==
  /\ Unlink(x)
  /\ unlinked' = IF writers'[path[x]] = {} THEN unlinked \cup {x} ELSE unlinked

\* <Date.now()>-<source> under the instance's directory: a new name, unless
\* another create of that instance and source computed its own just before.
MayName(f, q) ==
  \/ \A a \in Backup : path[a] # f
  \/ /\ SameInstant
     /\ \E a \in Backup :
          /\ path[a] = f /\ phase[a] = "dump"
          /\ req[a].inst = q.inst /\ req[a].source = q.source

\* create(): read the instance, name the file, ask the driver for a dump.
Create(b, q, f) ==
  /\ phase[b] = "idle"
  /\ q.inst \in instances
  /\ MayName(f, q)
  /\ req' = [req EXCEPT ![b] = q]
  /\ path' = [path EXCEPT ![b] = f]
  /\ phase' = [phase EXCEPT ![b] = "dump"]
  /\ UNCHANGED <<instances, row, created, clock, writers, pruneVars, deleting,
                 restoring, unlinked, stuck, crashes>>

\* The dump stream is there: open the file, truncating what another create has
\* finished writing to it.
Open(b) ==
  /\ phase[b] = "dump"
  /\ phase' = [phase EXCEPT ![b] = "write"]
  /\ writers' = [writers EXCEPT ![path[b]] =
                   {b} \cup {a \in @ : phase[a] = "write"}]
  /\ UNCHANGED <<instances, req, path, row, created, clock, pruneVars, deleting,
                 restoring, unlinked, stuck, crashes>>

\* The successful rows of b's retention group.
GroupRows(b, status) ==
  {x \in Backup : /\ status[x] = "success"
                  /\ req[x].inst = req[b].inst /\ req[x].group = req[b].group}

\* A mistake the checks exclude: the newest rows are dropped, not the oldest.
SurplusNewest(b, status, at, S) ==
  LET rows == GroupRows(b, status) IN
  /\ S \subseteq rows
  /\ Cardinality(rows \ S) =
       IF Cardinality(rows) < req[b].keep THEN Cardinality(rows) ELSE req[b].keep
  /\ \A x \in S, y \in rows \ S : at[x] >= at[y]

\* A mistake the checks exclude: one row too many is kept.
SurplusLate(b, status, at, S) ==
  LET rows == GroupRows(b, status) IN
  /\ S \subseteq rows
  /\ Cardinality(rows \ S) =
       IF Cardinality(rows) < req[b].keep + 1 THEN Cardinality(rows) ELSE req[b].keep + 1
  /\ \A x \in S, y \in rows \ S : at[x] <= at[y]

\* rows.slice(keepLastN) of the group by descending createdAt: the order of
\* rows of one millisecond is the database's choice.
Surplus(b, status, at, S) ==
  LET rows == GroupRows(b, status) IN
  /\ S \subseteq rows
  /\ Cardinality(rows \ S) =
       IF Cardinality(rows) < req[b].keep THEN Cardinality(rows) ELSE req[b].keep
  /\ \A x \in S, y \in rows \ S : at[x] <= at[y]

\* The pipeline has flushed its last byte, chmod and stat found the file:
\* insert the row at this or a later millisecond, and select what the prune
\* will drop.
Insert(b) ==
  /\ phase[b] = "write"
  /\ writers[path[b]] # {}
  /\ req[b].inst \in instances
  /\ row' = [row EXCEPT ![b] = "success"]
  /\ clock' \in {clock, clock + 1}
  /\ created' = [created EXCEPT ![b] = clock']
  /\ \/ /\ req[b].group # NoGroup
        /\ \E S \in SUBSET Backup :
             /\ Surplus(b, row', created', S)
             /\ surplus' = [surplus EXCEPT ![b] = S]
             /\ phase' = [phase EXCEPT ![b] = IF S = {} THEN "done" ELSE "prune"]
     \/ /\ req[b].group = NoGroup
        /\ phase' = [phase EXCEPT ![b] = "done"]
        /\ UNCHANGED surplus
  /\ UNCHANGED <<instances, req, path, writers, victim, deleting, restoring,
                 unlinked, stuck, crashes>>

\* A mistake the checks exclude: a failing prune falls into create()'s catch.
FailAfterPrune(b) ==
  /\ phase[b] \in {"dump", "write", "prune"}
  /\ Unlink(b)
  /\ row' = [row EXCEPT ![b] = IF @ = "success" THEN @ ELSE "failed"]
  /\ phase' = [phase EXCEPT ![b] = "done"]
  /\ surplus' = [surplus EXCEPT ![b] = {}]
  /\ victim' = [victim EXCEPT ![b] = NoBackup]
  /\ UNCHANGED <<instances, req, path, created, clock, deleting, restoring,
                 unlinked, crashes>>

\* A mistake the checks exclude: the status of another table.
RowAfterFailError(b) == IF req[b].inst \in instances THEN "error" ELSE row[b]

\* A failed row is recorded, unless its instance is gone and the foreign key
\* refuses it.
RowAfterFail(b) == IF req[b].inst \in instances THEN "failed" ELSE row[b]

\* create()'s catch: the dump, the write, chmod, stat or the insert failed.
\* The partial file is unlinked and a failed row is tried.
Fail(b) ==
  /\ phase[b] \in {"dump", "write"}
  /\ Unlink(b)
  /\ row' = [row EXCEPT ![b] = RowAfterFail(b)]
  /\ phase' = [phase EXCEPT ![b] = "done"]
  /\ UNCHANGED <<instances, req, path, created, clock, pruneVars, deleting,
                 restoring, unlinked, crashes>>

-----------------------------------------------------------------------------
\* pruneRetention() unlinks the newest row left to drop ...
PruneUnlink(b, x) ==
  /\ phase[b] = "prune" /\ victim[b] = NoBackup
  /\ x \in surplus[b]
  /\ \A y \in surplus[b] : created[y] <= created[x]
  /\ victim' = [victim EXCEPT ![b] = x]
  /\ UnlinkRow(x)
  /\ UNCHANGED <<instances, createVars, row, created, clock, surplus, deleting,
                 restoring, crashes>>

\* ... and then deletes its row, if it is still there.
PruneDelete(b, x) ==
  /\ victim[b] = x
  /\ row' = [row EXCEPT ![x] = IF InRow(x) THEN "deleted" ELSE @]
  /\ surplus' = [surplus EXCEPT ![b] = @ \ {x}]
  /\ victim' = [victim EXCEPT ![b] = NoBackup]
  /\ phase' = [phase EXCEPT ![b] = IF surplus[b] \subseteq {x} THEN "done" ELSE @]
  /\ UNCHANGED <<instances, req, path, created, clock, writers, deleting, restoring,
                 unlinked, stuck, crashes>>

\* A mistake the checks exclude: the row goes before the file does.
DeleteRowFirst(x) ==
  /\ InRow(x)
  /\ row' = [row EXCEPT ![x] = "deleted"]
  /\ deleting' = deleting \cup {x}
  /\ UNCHANGED <<instances, createVars, created, clock, writers, pruneVars,
                 restoring, unlinked, stuck, crashes>>

\* delete(): the file first, ...
DeleteUnlink(x) ==
  /\ InRow(x)
  /\ UnlinkRow(x)
  /\ deleting' = deleting \cup {x}
  /\ UNCHANGED <<instances, createVars, row, created, clock, pruneVars, restoring,
                 crashes>>

\* ... then the row.
DeleteRow(x) ==
  /\ x \in deleting
  /\ row' = [row EXCEPT ![x] = IF InRow(x) THEN "deleted" ELSE @]
  /\ deleting' = deleting \ {x}
  /\ UNCHANGED <<instances, createVars, created, clock, writers, pruneVars,
                 restoring, unlinked, stuck, crashes>>

\* The last statement of DbInstancesService.remove(): the rows of the
\* instance's backups go with it, their files stay.
RemoveInstance(i) ==
  /\ i \in instances
  /\ instances' = instances \ {i}
  /\ row' = [b \in Backup |-> IF InRow(b) /\ req[b].inst = i THEN "deleted" ELSE row[b]]
  /\ UNCHANGED <<createVars, created, clock, writers, pruneVars, deleting, restoring,
                 unlinked, stuck, crashes>>

\* restore(): the row is a successful one; the file is opened later.  Restores
\* change nothing here but by the death a missing file causes, so one at a time
\* stands for all, and none is followed after the last death (MaxCrashes).
Restore(x) ==
  /\ restoring = {}
  /\ crashes < MaxCrashes
  /\ row[x] = "success"
  /\ restoring' = {x}
  /\ UNCHANGED <<instances, createVars, row, created, clock, writers, pruneVars,
                 deleting, unlinked, stuck, crashes>>

\* The file is open: its bytes stay readable to the end.
RestoreOpen(x) ==
  /\ x \in restoring
  /\ writers[path[x]] # {}
  /\ restoring' = {}
  /\ UNCHANGED <<instances, createVars, row, created, clock, writers, pruneVars,
                 deleting, unlinked, stuck, crashes>>

-----------------------------------------------------------------------------
\* The process dies and starts again with nothing to recover.
Die ==
  /\ crashes < MaxCrashes
  /\ crashes' = crashes + 1
  /\ phase' = [b \in Backup |->
                 IF phase[b] \in {"dump", "write"} THEN "lost"
                 ELSE IF phase[b] = "prune" THEN "cut" ELSE phase[b]]
  /\ surplus' = [b \in Backup |-> {}]
  /\ victim' = [b \in Backup |-> NoBackup]
  /\ deleting' = {}
  /\ restoring' = {}
  /\ UNCHANGED <<instances, req, path, row, created, clock, writers, unlinked, stuck>>

Crash == Die

\* restore() opens a file that is gone: nothing listens to the stream's error
\* event, and an unheard error event ends the process.
RestoreFault(x) ==
  /\ x \in restoring
  /\ writers[path[x]] = {}
  /\ Die

-----------------------------------------------------------------------------
CreateStep(b) ==
  \/ \E q \in Request, f \in File : Create(b, q, f)
  \/ Open(b)
  \/ Insert(b)
  \/ Fail(b)
  \/ \E x \in Backup : PruneUnlink(b, x) \/ PruneDelete(b, x)

RowStep(x) ==
  \/ DeleteUnlink(x)
  \/ DeleteRow(x)
  \/ Restore(x)
  \/ RestoreOpen(x)
  \/ RestoreFault(x)

Next ==
  \/ \E b \in Backup : CreateStep(b) \/ RowStep(b)
  \/ \E i \in Instance : RemoveInstance(i)
  \/ Crash

Spec == Init /\ [][Next]_vars

-----------------------------------------------------------------------------
(* Properties.                                                             *)

\* Two creates computed the file name of b in one millisecond.
Shared(b) == \E a \in Backup \ {b} : path[a] = path[b]

\* A successful row whose file no delete and no prune has unlinked has that
\* file, with its own bytes and no others: no failing create, prune, restart
\* or concurrent backup takes it away (create 125-180, pruneRetention).  Rows
\* whose name another create computed too are left out; FileOfOneRow is about
\* them.
RowHasFile ==
  \A b \in Backup :
    row[b] = "success" /\ b \notin unlinked /\ ~Shared(b) => writers[path[b]] = {b}

\* Every file on disk is reachable from the panel: a successful row names it,
\* or its create is under way.  The code leaves three exceptions and no more:
\* a death before the insert, the cascade that takes a finished backup's row
\* with its instance, and an unlink that fails, whose error is swallowed while
\* the row goes on to be deleted or written as failed (create 159, prune 215,
\* delete 276; delete 272-275: the reverse order "would leave an orphaned file
\* on disk").  A create that is under way when its instance goes is not one of
\* them: both its inserts are refused, and its file has to go.
NoOrphanFile ==
  \A f \in File : writers[f] # {} =>
    \E b \in writers[f] :
      \/ row[b] = "success"
      \/ phase[b] \in {"write", "lost"}
      \/ row[b] = "deleted" /\ req[b].inst \notin instances
      \/ b \in stuck

\* Rows of b's group ever inserted that are no older than x.
NoOlder(x) ==
  {y \in Backup \ {x} :
     /\ created[y] > 0 /\ created[y] >= created[x]
     /\ req[y].inst = req[x].inst /\ req[y].group = req[x].group}

\* A prune drops a row only if as many rows as it is to keep were inserted no
\* earlier in the same group, whatever other creates, prunes and deletes do
\* between its selection and its deletes (pruneRetention 202-217).
PruneDropsOldest ==
  \A x \in Backup : row[x] = "success" /\ row'[x] = "deleted" =>
    \/ x \in deleting
    \/ req[x].inst \notin instances'
    \/ \E b \in Backup :
         /\ victim[b] = x /\ req[b].group = req[x].group
         /\ Cardinality(NoOlder(x)) >= req[b].keep

RetentionKeepsNewest == [][PruneDropsOldest]_vars

\* Once the prunes of a group have run, none cut short by a death, the group
\* holds no more than one of its own keepLastN (docs/backups.md:142-143).
GroupTrimmed ==
  \A b \in Backup :
    LET rows == GroupRows(b, row) IN
    /\ row[b] = "success" /\ req[b].group # NoGroup
    /\ \A a \in Backup :
         req[a].inst = req[b].inst /\ req[a].group = req[b].group
           => phase[a] \notin {"prune", "cut"}
    => \E a \in rows : Cardinality(rows) <= req[a].keep

\* Each backup has a file of its own (docs/backups.md:17, "A backup is a
\* single compressed dump file plus a row").
FileOfOneRow ==
  \A a, b \in Backup :
    a # b /\ row[a] = "success" /\ row[b] = "success" => path[a] # path[b]

\* A restore of a successful row finds its file (backups.service.ts:272-274,
\* "the row points at a missing file (UI handles this), which is recoverable").
RestoreFindsFile == \A x \in restoring : writers[path[x]] # {}

-----------------------------------------------------------------------------
(* The inductive invariant behind RowHasFile and NoOrphanFile.               *)

\* A create is named when it starts, and its row comes after its file.
PathInv ==
  \A b \in Backup :
    /\ phase[b] = "idle" <=> path[b] = NoFile
    /\ row[b] # "none" => phase[b] \in {"prune", "done", "cut"}

\* Every create whose bytes are on disk accounts for them.
FileInv ==
  \A f \in File : \A b \in writers[f] :
    /\ path[b] = f /\ phase[b] # "dump"
    /\ \/ row[b] = "success"
       \/ phase[b] \in {"write", "lost"}
       \/ row[b] = "deleted" /\ req[b].inst \notin instances
       \/ b \in stuck

\* Rows about to be deleted have no bytes on disk, unless the unlink failed.
DropInv ==
  /\ \A x \in Backup :
       x \in deleting \/ (\E b \in Backup : victim[b] = x)
         => row[x] # "none" /\ (x \in stuck \/ x \notin writers[path[x]])
  /\ \A b \in Backup :
       /\ b \in unlinked => row[b] # "none"
       /\ victim[b] # NoBackup => phase[b] = "prune"
       /\ surplus[b] \subseteq {x \in Backup : row[x] # "none"}

\* A create with a name of its own has the file it writes to itself.
OwnFileInv ==
  \A b \in Backup : phase[b] = "write" /\ ~Shared(b) => writers[path[b]] = {b}

IInv == TypeOK /\ PathInv /\ FileInv /\ DropInv /\ OwnFileInv /\ RowHasFile

-----------------------------------------------------------------------------
(* The inductive invariant behind RetentionKeepsNewest and GroupTrimmed.     *)

SameGroup(a, b) == req[a].inst = req[b].inst /\ req[a].group = req[b].group

\* Creates that have inserted a successful row, be it deleted since.
Inserted == {b \in Backup : created[b] > 0}

InsertedInv ==
  /\ IsFiniteSet(Inserted)
  /\ clock > 0
  /\ \A b \in Backup :
       /\ b \in Inserted => phase[b] \in {"prune", "done", "cut"}
       /\ row[b] = "success" => b \in Inserted

\* What a prune has yet to drop is of its own group, and as many rows as it is
\* to keep were inserted no earlier.
SurplusInv ==
  \A b \in Backup :
    /\ victim[b] # NoBackup => victim[b] \in surplus[b]
    /\ \A x \in surplus[b] :
         /\ phase[b] = "prune"
         /\ x \in Inserted /\ SameGroup(x, b)
         /\ Cardinality(NoOlder(x)) >= req[b].keep

\* Successful rows of one group, none of them about to be dropped, in a group
\* none of whose prunes was cut short.
Settled(R) ==
  /\ \A x \in R :
       /\ row[x] = "success" /\ req[x].group # NoGroup
       /\ \A a \in Backup : x \notin surplus[a] /\ (SameGroup(a, x) => phase[a] # "cut")
  /\ \A x, y \in R : SameGroup(x, y)

\* Of any such rows one asks to keep that many: the one inserted last, whose
\* prune has spared the others.  It is for every set of them, since a delete may
\* take any row away.
TrimInv ==
  \A R \in SUBSET Backup :
    R # {} /\ Settled(R) => \E a \in R : Cardinality(R) <= req[a].keep

RetentionInv == InsertedInv /\ SurplusInv /\ TrimInv
=============================================================================
