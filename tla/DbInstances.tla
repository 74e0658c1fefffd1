---------------------------- MODULE DbInstances ----------------------------
(***************************************************************************)
(* Database instances: DbInstancesService (db-instances.service.ts) over   *)
(* the db_instances table, the Docker daemon and the bind-mounted data     *)
(* directories.                                                            *)
(*                                                                         *)
(* Every call awaits the daemon or the file system between its statements, *)
(* nothing serialises two calls, and the process may die at any await.     *)
(* The row of an instance is named by the create() that inserts it.        *)
(***************************************************************************)
EXTENDS Integers, FiniteSets

CONSTANTS
  Create,     \* calls of create()
  Op,         \* calls of the other methods
  Name,       \* instance names, each of one engine: they fix container and directory
  Nobody,     \* no container, no call
  InitOnly,   \* the engine takes the password only when it initialises the
              \* directory (mysql.driver.ts:25-28), not at every start (redis)
  MaxCrashes  \* bound: process deaths in a behaviour

ASSUME ConstantsAssumption ==
  /\ Create \cap Op = {}
  /\ Nobody \notin Create \cup Op
  /\ Name # {}
  /\ Create # {}
  /\ InitOnly \in BOOLEAN
  /\ MaxCrashes \in Nat

Call == Create \cup Op

VARIABLES
  pc,      \* where each call is
  kind,    \* what it is
  name,    \* the instance name it works on
  target,  \* the row it works on
  secret,  \* whose password it hands to the container it makes
  row,     \* each create's row: "none" before insertion, "deleted" after
  pw,      \* the row's password: the call that generated it
  status,  \* the row's status
  maker,   \* the call that made the container of each name, or Nobody
  boxPw,   \* that container's password
  state,   \* that container's state
  dir,     \* the data directory: absent, empty, or initialised
  dirPw,   \* the password it was initialised with
  rowsSeen,  \* the rows a reconcile() has read
  boxesSeen, \* the container states it has been told
  kept,    \* history: names whose instance was removed and its data kept
  crashes  \* deaths so far

callVars == <<pc, kind, name, target, secret>>
rowVars  == <<row, pw, status>>
boxVars  == <<maker, boxPw, state>>
dirVars  == <<dir, dirPw>>
scanVars == <<rowsSeen, boxesSeen>>
vars == <<callVars, rowVars, boxVars, dirVars, scanVars, kept, crashes>>

Recreate == {"patch", "rotate"}
Removal  == {"remove", "drop"}
Power    == {"start", "stop"}
Kind     == {"create", "reconcile"} \cup Recreate \cup Removal \cup Power
Ended    == {"idle", "done", "cut", "leak"}
Busy     == {"image", "clear", "make", "made", "started", "undo", "wipe", "unbox",
             "unrow", "ask", "mark", "list", "apply"}
BoxState == {"created", "running", "exited"}
RowStatus == {"running", "stopped", "restarting", "creating", "error"}

TypeOK ==
  /\ pc \in [Call -> Ended \cup Busy]
  /\ kind \in [Call -> Kind]
  /\ name \in [Call -> Name]
  /\ target \in [Call -> Create]
  /\ secret \in [Call -> Call]
  /\ row \in [Create -> {"none", "live", "deleted"}]
  /\ pw \in [Create -> Call]
  /\ status \in [Create -> RowStatus]
  /\ maker \in [Name -> Call \cup {Nobody}]
  /\ boxPw \in [Name -> Call]
  /\ state \in [Name -> BoxState]
  /\ dir \in [Name -> {"absent", "empty", "init"}]
  /\ dirPw \in [Name -> Call]
  /\ rowsSeen \subseteq Create
  /\ boxesSeen \in [Name -> BoxState \cup {"none"}]
  /\ kept \subseteq Name
  /\ crashes \in 0 .. MaxCrashes

\* A row or a container that is not there has arbitrary, fixed contents.
AnyCall == CHOOSE c \in Create : TRUE
AnyName == CHOOSE n \in Name : TRUE
NoBoxes == [n \in Name |-> "none"]

Init ==
  /\ pc = [o \in Call |-> "idle"]
  /\ kind = [o \in Call |-> IF o \in Create THEN "create" ELSE "reconcile"]
  /\ name = [o \in Call |-> AnyName]
  /\ target = [o \in Call |-> IF o \in Create THEN o ELSE AnyCall]
  /\ secret = [o \in Call |-> AnyCall]
  /\ row = [c \in Create |-> "none"]
  /\ pw = [c \in Create |-> AnyCall]
  /\ status = [c \in Create |-> "creating"]
  /\ maker = [n \in Name |-> Nobody]
  /\ boxPw = [n \in Name |-> AnyCall]
  /\ state = [n \in Name |-> "created"]
  /\ dir = [n \in Name |-> "absent"]
  /\ dirPw = [n \in Name |-> AnyCall]
  /\ rowsSeen = {}
  /\ boxesSeen = NoBoxes
  /\ kept = {}
  /\ crashes = 0

Goto(o, l) == pc' = [pc EXCEPT ![o] = l]

-----------------------------------------------------------------------------
(* The Docker daemon.                                                      *)

HasBox(n) == maker[n] # Nobody

\* createContainer: refused when the name is taken.
NewBox(o) ==
  /\ ~HasBox(name[o])
  /\ maker' = [maker EXCEPT ![name[o]] = o]
  /\ boxPw' = [boxPw EXCEPT ![name[o]] = secret[o]]
  /\ state' = [state EXCEPT ![name[o]] = "created"]

DropBox(n) ==
  /\ maker' = [maker EXCEPT ![n] = Nobody]
  /\ UNCHANGED <<boxPw, state>>

\* A container starts: its entrypoint initialises a directory that is not.
RunBox(n) ==
  /\ HasBox(n)
  /\ state' = [state EXCEPT ![n] = "running"]
  /\ dir' = [dir EXCEPT ![n] = "init"]
  /\ dirPw' = [dirPw EXCEPT ![n] = IF dir[n] = "init" THEN @ ELSE boxPw[n]]
  /\ UNCHANGED <<maker, boxPw>>

\* Someone stops the container outside the panel.
BoxExits(n) ==
  /\ HasBox(n) /\ state[n] = "running"
  /\ state' = [state EXCEPT ![n] = "exited"]
  /\ UNCHANGED <<callVars, rowVars, maker, boxPw, dirVars, scanVars, kept, crashes>>

-----------------------------------------------------------------------------
(* create().                                                               *)

NameTaken(n) == \E c \in Create : row[c] = "live" /\ name[c] = n

\* The checks on name and port, then ensureImage.
CreateBegin(o, n) ==
  /\ pc[o] = "idle"
  /\ ~NameTaken(n)
  /\ Goto(o, "image")
  /\ name' = [name EXCEPT ![o] = n]
  /\ secret' = [secret EXCEPT ![o] = o]
  /\ UNCHANGED <<kind, target, rowVars, boxVars, dirVars, scanVars, kept, crashes>>

\* mkdir -p and the relabel: the directory may well be there already.
MakeDir(o) ==
  /\ pc[o] = "image"
  /\ Goto(o, "make")
  /\ dir' = [dir EXCEPT ![name[o]] = IF @ = "absent" THEN "empty" ELSE @]
  /\ UNCHANGED <<kind, name, target, secret, rowVars, boxVars, dirPw, scanVars, kept, crashes>>

\* The image or the directory is not to be had.
ImageFails(o) ==
  /\ pc[o] = "image"
  /\ Goto(o, "done")
  /\ UNCHANGED <<kind, name, target, secret, rowVars, boxVars, dirVars, scanVars, kept, crashes>>

\* docker.createContainer, shared with patch() and rotatePassword().
MakeBox(o) ==
  /\ pc[o] = "make"
  /\ NewBox(o)
  /\ Goto(o, "made")
  /\ UNCHANGED <<kind, name, target, secret, rowVars, dirVars, scanVars, kept, crashes>>

\* A mistake the checks exclude: what holds the name is cleared away.
MakeFailsByName(o) ==
  /\ pc[o] = "make"
  /\ Goto(o, IF kind[o] = "create" THEN "wipe" ELSE "done")
  /\ DropBox(name[o])
  /\ UNCHANGED <<kind, name, target, secret, rowVars, dirVars, scanVars, kept, crashes>>

\* It fails, the name being taken or otherwise (as the relabel may).  create()
\* goes on to remove the directory; the others throw.
MakeFails(o) ==
  /\ pc[o] = "make"
  /\ Goto(o, IF kind[o] = "create" THEN "wipe" ELSE "done")
  /\ UNCHANGED <<kind, name, target, secret, rowVars, boxVars, dirVars, scanVars, kept, crashes>>

\* container.start(), by the id of the container this call made.
StartBox(o) ==
  /\ pc[o] = "made"
  /\ maker[name[o]] = o
  /\ RunBox(name[o])
  /\ Goto(o, "started")
  /\ UNCHANGED <<kind, name, target, secret, rowVars, scanVars, kept, crashes>>

StartFails(o) ==
  /\ pc[o] = "made"
  /\ Goto(o, IF kind[o] = "create" THEN "undo" ELSE "done")
  /\ UNCHANGED <<kind, name, target, secret, rowVars, boxVars, dirVars, scanVars, kept, crashes>>

\* The insert, which the unique indexes may refuse.
Insert(o) ==
  /\ pc[o] = "started" /\ kind[o] = "create"
  /\ ~NameTaken(name[o])
  /\ Goto(o, "done")
  /\ row' = [row EXCEPT ![o] = "live"]
  /\ pw' = [pw EXCEPT ![o] = o]
  /\ status' = [status EXCEPT ![o] = "running"]
  /\ UNCHANGED <<kind, name, target, secret, boxVars, dirVars, scanVars, kept, crashes>>

InsertFails(o) ==
  /\ pc[o] = "started" /\ kind[o] = "create"
  /\ Goto(o, "undo")
  /\ UNCHANGED <<kind, name, target, secret, rowVars, boxVars, dirVars, scanVars, kept, crashes>>

\* Rollback: the container of this very call, by id.
Undo(o) ==
  /\ pc[o] = "undo"
  /\ Goto(o, "wipe")
  /\ IF maker[name[o]] = o THEN DropBox(name[o]) ELSE UNCHANGED boxVars
  /\ UNCHANGED <<kind, name, target, secret, rowVars, dirVars, scanVars, kept, crashes>>

\* The error of that removal is swallowed and the container stays.
UndoFails(o) ==
  /\ pc[o] = "undo"
  /\ Goto(o, "leak")
  /\ dir' = [dir EXCEPT ![name[o]] = "absent"] \/ UNCHANGED dir
  /\ UNCHANGED <<kind, name, target, secret, rowVars, boxVars, dirPw, scanVars, kept, crashes>>

\* safeRmrf, whose own errors are only logged: create()'s rollback, and
\* remove() with dropData.
Wipe(o) ==
  /\ pc[o] = "wipe"
  /\ Goto(o, IF kind[o] = "create" THEN "done" ELSE "unrow")
  /\ \/ dir' = [dir EXCEPT ![name[o]] = "absent"]
     \/ UNCHANGED dir
  /\ kept' = IF kind[o] = "drop" THEN kept \ {name[o]} ELSE kept
  /\ UNCHANGED <<kind, name, target, secret, rowVars, boxVars, dirPw, scanVars, crashes>>

-----------------------------------------------------------------------------
(* Calls on an instance: fetchRow, then the daemon.                        *)

FirstStop(k) ==
  CASE k \in Recreate -> "clear"
    [] k \in Removal  -> "unbox"
    [] k \in Power    -> "ask"

\* The row is read once and what it said is used to the end.
OpBegin(o, c, k) ==
  /\ pc[o] = "idle"
  /\ row[c] = "live"
  /\ Goto(o, FirstStop(k))
  /\ kind' = [kind EXCEPT ![o] = k]
  /\ name' = [name EXCEPT ![o] = name[c]]
  /\ target' = [target EXCEPT ![o] = c]
  /\ secret' = [secret EXCEPT ![o] = IF k = "rotate" THEN o ELSE pw[c]]
  /\ status' = [status EXCEPT ![c] = IF k = "rotate" THEN "restarting" ELSE @]
  /\ UNCHANGED <<row, pw, boxVars, dirVars, scanVars, kept, crashes>>

\* patch() and rotatePassword(): stop and remove by name, errors swallowed.
Clear(o) ==
  /\ pc[o] = "clear"
  /\ Goto(o, "make")
  /\ DropBox(name[o]) \/ UNCHANGED boxVars
  /\ UNCHANGED <<kind, name, target, secret, rowVars, dirVars, scanVars, kept, crashes>>

\* Their last statement; the row may be gone.
Save(o) ==
  /\ pc[o] = "started" /\ kind[o] \in Recreate
  /\ Goto(o, "done")
  /\ IF row[target[o]] = "live"
       THEN /\ status' = [status EXCEPT ![target[o]] = "running"]
            /\ pw' = [pw EXCEPT ![target[o]] = IF kind[o] = "rotate" THEN o ELSE @]
       ELSE UNCHANGED <<status, pw>>
  /\ UNCHANGED <<kind, name, target, secret, row, boxVars, dirVars, scanVars, kept, crashes>>

\* start(), restart() and stop(): by name; an error is rethrown.
Ask(o) ==
  /\ pc[o] = "ask"
  /\ \/ /\ kind[o] = "start" /\ RunBox(name[o])
        /\ Goto(o, "mark")
     \/ /\ kind[o] = "stop" /\ HasBox(name[o])
        /\ state' = [state EXCEPT ![name[o]] = IF @ = "running" THEN "exited" ELSE @]
        /\ Goto(o, "mark")
        /\ UNCHANGED <<maker, boxPw, dirVars>>
     \/ /\ Goto(o, "done")
        /\ UNCHANGED <<boxVars, dirVars>>
  /\ UNCHANGED <<kind, name, target, secret, rowVars, scanVars, kept, crashes>>

\* markStatus().
Mark(o) ==
  /\ pc[o] = "mark"
  /\ Goto(o, "done")
  /\ status' = [status EXCEPT ![target[o]] =
                  IF row[target[o]] # "live" THEN @
                  ELSE IF kind[o] = "start" THEN "running" ELSE "stopped"]
  /\ UNCHANGED <<kind, name, target, secret, row, pw, boxVars, dirVars, scanVars, kept, crashes>>

\* A mistake the checks exclude: remove() goes on when the daemon refuses.
UnboxAnyway(o) ==
  /\ pc[o] = "unbox"
  /\ Goto(o, IF kind[o] = "drop" THEN "wipe" ELSE "unrow")
  /\ DropBox(name[o]) \/ UNCHANGED boxVars
  /\ UNCHANGED <<kind, name, target, secret, rowVars, dirVars, scanVars, kept, crashes>>

\* remove(): the container by name, missing being fine; other errors end it.
Unbox(o) ==
  /\ pc[o] = "unbox"
  /\ \/ /\ DropBox(name[o])
        /\ Goto(o, IF kind[o] = "drop" THEN "wipe" ELSE "unrow")
     \/ /\ Goto(o, "done")
        /\ UNCHANGED boxVars
  /\ UNCHANGED <<kind, name, target, secret, rowVars, dirVars, scanVars, kept, crashes>>

\* remove(), at last: the row.
Unrow(o) ==
  /\ pc[o] = "unrow"
  /\ Goto(o, "done")
  /\ row' = [row EXCEPT ![target[o]] = "deleted"]
  /\ kept' = IF kind[o] = "remove" /\ dir[name[o]] # "absent"
               THEN kept \cup {name[o]} ELSE kept
  /\ UNCHANGED <<kind, name, target, secret, pw, status, boxVars, dirVars, scanVars, crashes>>

-----------------------------------------------------------------------------
(* reconcile(), one at a time: its rows and its listing are two snapshots. *)

ReconcileBegin(o) ==
  /\ pc[o] = "idle"
  /\ \A p \in Op : pc[p] \notin {"list", "apply"}
  /\ Goto(o, "list")
  /\ rowsSeen' = {c \in Create : row[c] = "live"}
  /\ UNCHANGED <<kind, name, target, secret, rowVars, boxVars, dirVars, boxesSeen, kept,
                 crashes>>

ReconcileList(o) ==
  /\ pc[o] = "list"
  /\ Goto(o, "apply")
  /\ boxesSeen' = [n \in Name |-> IF HasBox(n) THEN state[n] ELSE "none"]
  /\ UNCHANGED <<kind, name, target, secret, rowVars, boxVars, dirVars, rowsSeen, kept,
                 crashes>>

\* A mistake the checks exclude: Docker's word is stored as it is.
StatusRaw(s) == s

\* stateMap, and container_missing.
StatusOf(s) ==
  CASE s = "running" -> "running"
    [] s = "exited"  -> "stopped"
    [] s = "created" -> "creating"
    [] s = "none"    -> "error"

ReconcileApply(o) ==
  /\ pc[o] = "apply"
  /\ Goto(o, "done")
  /\ status' = [c \in Create |->
                  IF c \in rowsSeen /\ row[c] = "live"
                    THEN StatusOf(boxesSeen[name[c]]) ELSE status[c]]
  /\ rowsSeen' = {}
  /\ boxesSeen' = NoBoxes
  /\ UNCHANGED <<kind, name, target, secret, row, pw, boxVars, dirVars, kept, crashes>>

-----------------------------------------------------------------------------
\* The process dies and starts again; it reconciles nothing by itself.
Crash ==
  /\ crashes < MaxCrashes
  /\ crashes' = crashes + 1
  /\ pc' = [o \in Call |-> IF pc[o] \in Busy THEN "cut" ELSE pc[o]]
  /\ rowsSeen' = {}
  /\ boxesSeen' = NoBoxes
  /\ UNCHANGED <<kind, name, target, secret, rowVars, boxVars, dirVars, kept>>

CreateStep(o) ==
  \/ \E n \in Name : CreateBegin(o, n)
  \/ MakeDir(o) \/ ImageFails(o)
  \/ Insert(o) \/ InsertFails(o)
  \/ Undo(o) \/ UndoFails(o)

OpStep(o) ==
  \/ \E c \in Create, k \in Recreate \cup Removal \cup Power : OpBegin(o, c, k)
  \/ Clear(o) \/ Save(o)
  \/ Ask(o) \/ Mark(o)
  \/ Unbox(o) \/ Unrow(o)
  \/ ReconcileBegin(o) \/ ReconcileList(o) \/ ReconcileApply(o)

BoxStep(o) == MakeBox(o) \/ MakeFails(o) \/ StartBox(o) \/ StartFails(o) \/ Wipe(o)

Next ==
  \/ \E o \in Create : CreateStep(o)
  \/ \E o \in Op : OpStep(o)
  \/ \E o \in Call : BoxStep(o)
  \/ \E n \in Name : BoxExits(n)
  \/ Crash

Spec == Init /\ [][Next]_vars

-----------------------------------------------------------------------------
(* Properties.                                                             *)

\* A call other than a create or a reconcile has started on this name.
Meddled(n) ==
  \E o \in Op : kind[o] \in Recreate \cup Removal /\ pc[o] # "idle" /\ name[o] = n

\* An instance nobody patches, rotates or removes keeps the container its own
\* create made, with the password of its row: no failing create of the same
\* name takes it away (rollbacks 161-166, 200-205).
RowKeepsContainer ==
  \A c \in Create : row[c] = "live" /\ ~Meddled(name[c]) =>
    maker[name[c]] = c /\ boxPw[name[c]] = pw[c]

\* A container of ours has a row, or a call under way that made it.  The
\* exceptions are those reconcile() counts as orphans (423-434): the process
\* died under the call, the rollback's removal failed, or the instance was
\* removed while a patch or a rotation was about to make its container anew.
NoStrayContainer ==
  \A n \in Name : HasBox(n) =>
    LET m == maker[n] IN
    \/ NameTaken(n)
    \/ pc[m] \in Busy \cup {"cut", "leak"}
    \/ kind[m] \in Recreate /\ row[target[m]] = "deleted"

\* Data kept by a removal without dropData stays until a removal with dropData
\* (docs/databases.md:286, "Delete (keep data dir)").
KeptDataStays == \A n \in kept : dir[n] # "absent"

\* The directory half of RowKeepsContainer: an instance nobody removes keeps its
\* data directory, whatever another create of its name comes to.
LiveDataStays ==
  \A c \in Create : row[c] = "live" /\ ~Meddled(name[c]) => dir[name[c]] # "absent"

\* What the engine accepts as the password of name n.
Accepted(n) == IF InitOnly THEN dirPw[n] ELSE boxPw[n]

\* With no call under way, a running instance accepts the password its row
\* shows (en.json:812, "Password rotated. Use the reveal action in the drawer
\* to see the new value").
PasswordWorks ==
  (\A o \in Call : pc[o] \notin Busy) =>
    \A c \in Create :
      LET n == name[c] IN
      row[c] = "live" /\ status[c] = "running" /\ HasBox(n) /\ state[n] = "running"
        => Accepted(n) = pw[c]

-----------------------------------------------------------------------------
(* The inductive invariant behind the safety properties.                   *)

\* Where a call may be, and what it remembers of its row.
CallInv ==
  /\ \A c \in Create :
       /\ kind[c] = "create"
       /\ pc[c] \in Ended \cup {"image", "make", "made", "started", "undo", "wipe"}
       /\ pc[c] # "idle" => secret[c] = c
       /\ row[c] # "none" => pc[c] = "done"
  /\ \A o \in Op :
       /\ kind[o] # "create"
       /\ pc[o] \in {"clear", "make", "made", "started"} => kind[o] \in Recreate
       /\ pc[o] \in {"unbox", "wipe", "unrow"} => kind[o] \in Removal
       /\ pc[o] = "idle" => kind[o] = "reconcile"
       /\ kind[o] \in Recreate \cup Removal =>
            row[target[o]] # "none" /\ name[o] = name[target[o]]

\* A container is its maker's, which has not undone it, and bears its secret.
BoxInv ==
  \A n \in Name : HasBox(n) =>
    LET m == maker[n] IN
    /\ name[m] = n
    /\ boxPw[n] = secret[m]
    /\ pc[m] \in {"made", "started", "undo", "done", "cut", "leak"}
    /\ kind[m] \in Recreate \/ m \in Create
    /\ m \in Create /\ pc[m] = "done" => row[m] = "live"

\* What remove() has taken down is not the container of its row's create.
RemovalInv ==
  \A o \in Op : kind[o] \in Removal /\ pc[o] \in {"wipe", "unrow"} =>
    maker[name[o]] # target[o]

\* Until somebody meddles with its name, a create keeps what it made.
MakerInv ==
  \A c \in Create :
    /\ pc[c] \in {"made", "started"} /\ ~Meddled(name[c]) => maker[name[c]] = c
    /\ row[c] = "live" /\ ~Meddled(name[c]) => maker[name[c]] = c /\ pw[c] = c

IInv == TypeOK /\ CallInv /\ BoxInv /\ RemovalInv /\ MakerInv
=============================================================================
