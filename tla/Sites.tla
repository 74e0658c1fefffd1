------------------------------- MODULE Sites -------------------------------
(***************************************************************************)
(* Websites: SitesService (sites.service.ts) over the sites table, the     *)
(* nginx configuration files and `nginx -t`, and the php-fpm container it  *)
(* relies on (PhpFpm).                                                     *)
(*                                                                         *)
(* Every call awaits the file system, nginx or Docker between its          *)
(* statements; nothing in the service keeps two calls on one site apart.   *)
(***************************************************************************)
EXTENDS PhpFpm, FiniteSets

CONSTANTS
  Call,       \* calls of create(), update(), remove() and restart()
  Site,       \* names
  Content,    \* what a configuration can be rendered to
  Bad,        \* those nginx rejects
  Php,        \* those of PHP sites
  Nothing,    \* no row, no file
  OneWriter,  \* bound: calls on one site do not overlap
  MaxCrashes  \* bound: process deaths in a behaviour

ASSUME SitesAssumption ==
  /\ Bad \subseteq Content /\ Php \subseteq Content
  /\ Content # {} /\ Site # {}
  /\ Nothing \notin Content
  /\ OneWriter \in BOOLEAN
  /\ MaxCrashes \in Nat

VARIABLES
  pc,      \* where each call is
  kind,    \* what it is
  site,    \* the site it works on
  want,    \* what it writes; for a removal, what the row held when read
  had,     \* calls that found a previous file to copy
  row,     \* each site's row: the content it describes, or Nothing
  orphaned,\* sites whose row is flagged orphaned
  owner,   \* the call that inserted it, as the row's id
  rowRead, \* the owner of the row each call has read
  conf,    \* the site's .conf: its content, or Nothing
  bak,     \* its .conf.bak
  tmp,     \* its .conf.tmp
  scan,    \* the reconcile under way has its listing of the directory
  listed,  \* the sites whose file that listing has
  fault,   \* history: what may have left a site's row and file apart
  crashes  \* deaths so far

callVars == <<pc, kind, site, want, had, rowRead>>
rowVars  == <<row, owner, orphaned>>
fileVars == <<conf, bak, tmp>>
scanVars == <<scan, listed>>
sitesVars == <<callVars, rowVars, fileVars, scanVars, fault, crashes>>
vars == <<sitesVars, fpmVars>>

Ended == {"idle", "done"}
Writing == {"backup", "write", "swap", "validate", "rollback", "settle", "reload", "insert"}
Step  == Ended \cup Writing
         \cup {"access", "inspect", "start", "make", "restart", "unlink", "unload"}

File == Content \cup {Nothing}

\* A failure past the swap, an edit by hand or a death left row and file apart;
\* so did a rollback that failed or was cut short; two calls overlapped, which
\* puts no end to what they may have left.
Fault == {"none", "apart", "stranded", "contended"}

TypeOK ==
  /\ pc \in [Call -> Step]
  /\ kind \in [Call -> {"create", "update", "remove", "restart"}]
  /\ site \in [Call -> Site]
  /\ want \in [Call -> Content]
  /\ had \subseteq Call
  /\ row \in [Site -> File]
  /\ orphaned \subseteq Site
  /\ owner \in [Site -> Call \cup {Nothing}]
  /\ rowRead \in [Call -> Call \cup {Nothing}]
  /\ conf \in [Site -> File]
  /\ bak \in [Site -> File]
  /\ tmp \in [Site -> File]
  /\ scan \in BOOLEAN
  /\ listed \subseteq Site
  /\ fault \in [Site -> Fault]
  /\ crashes \in 0 .. MaxCrashes
  /\ FpmTypeOK

\* A call that has not begun has an arbitrary, fixed argument.
AnySite == CHOOSE s \in Site : TRUE
AnyContent == CHOOSE k \in Content : TRUE

Init ==
  /\ pc = [c \in Call |-> "idle"]
  /\ kind = [c \in Call |-> "restart"]
  /\ site = [c \in Call |-> AnySite]
  /\ want = [c \in Call |-> AnyContent]
  /\ had = {}
  /\ row = [s \in Site |-> Nothing]
  /\ orphaned = {}
  /\ owner = [s \in Site |-> Nothing]
  /\ rowRead = [c \in Call |-> Nothing]
  /\ conf = [s \in Site |-> Nothing]
  /\ bak = [s \in Site |-> Nothing]
  /\ tmp = [s \in Site |-> Nothing]
  /\ scan = FALSE
  /\ listed = {}
  /\ fault = [s \in Site |-> "none"]
  /\ crashes = 0
  /\ FpmInit

Goto(c, l) == pc' = [pc EXCEPT ![c] = l]

\* Calls at work on a site.
WorksOn(c, s) == pc[c] \notin Ended /\ kind[c] # "restart" /\ site[c] = s
Busy(s) == \E c \in Call : WorksOn(c, s)

Contended(s) == fault[s] = "contended"

Mark(s, f) == fault' = [fault EXCEPT ![s] = IF @ = "contended" THEN @ ELSE f]

\* Sites whose row is of a PHP site.
PhpRows(r) == {s \in Site : r[s] \in Php}

-----------------------------------------------------------------------------
(* The calls and the rows they read.                                       *)

Begin(c, k, s, w, l) ==
  /\ pc[c] = "idle"
  /\ OneWriter => ~Busy(s)
  /\ kind' = [kind EXCEPT ![c] = k]
  /\ site' = [site EXCEPT ![c] = s]
  /\ want' = [want EXCEPT ![c] = w]
  /\ rowRead' = [rowRead EXCEPT ![c] = owner[s]]
  /\ Goto(c, l)
  /\ fault' = IF Busy(s) THEN [fault EXCEPT ![s] = "contended"] ELSE fault
  /\ UNCHANGED <<had, rowVars, fileVars, scanVars, crashes, fpmVars>>

\* create(): the name has no row.  With one it only answers.
Create(c, s, w) == row[s] = Nothing /\ Begin(c, "create", s, w, "access")

\* update(), also an empty one (the configuration is written anew).
Update(c, s, w) == row[s] # Nothing /\ Begin(c, "update", s, w, "backup")

\* remove().
Remove(c, s) == row[s] # Nothing /\ Begin(c, "remove", s, row[s], "unlink")

\* POST php-fpm/restart.
Restart(c) ==
  /\ pc[c] = "idle"
  /\ Goto(c, "restart")
  /\ UNCHANGED <<kind, site, want, had, rowRead, rowVars, fileVars, scanVars, fault, crashes, fpmVars>>

\* ensureNameAvailable() ends: with a file of that name the call is refused,
\* without one a PHP site goes on to ensureRunning().
Access(c) ==
  /\ pc[c] = "access"
  /\ IF conf[site[c]] # Nothing
     THEN Goto(c, "done") /\ UNCHANGED fpmVars
     ELSE IF want[c] \in Php
     THEN Goto(c, "inspect") /\ ClearTimer
     ELSE Goto(c, "backup") /\ UNCHANGED fpmVars
  /\ UNCHANGED <<kind, site, want, had, rowRead, rowVars, fileVars, scanVars, fault, crashes>>

-----------------------------------------------------------------------------
(* ensureRunning() and restart() of php-fpm on behalf of a call.           *)

\* Where the call goes on: create() catches a failure and logs it.
AfterFpm(c) == IF kind[c] = "create" THEN "backup" ELSE "done"

Inspect(c) ==
  /\ pc[c] = "inspect"
  /\ IF FindsRunning
     THEN Goto(c, AfterFpm(c))
     ELSE Goto(c, IF box = "none" THEN "make" ELSE "start")
  /\ UNCHANGED fpmVars

Start(c) ==
  /\ pc[c] = "start"
  /\ StartBox
  /\ Goto(c, AfterFpm(c))

Make(c) ==
  /\ pc[c] = "make"
  /\ MakeBox
  /\ Goto(c, "start")

\* The daemon refuses a command, or carries out a part of it.
FpmFails(c) ==
  /\ \/ pc[c] \in {"inspect", "start", "make"} /\ UNCHANGED fpmVars
     \/ pc[c] = "restart" /\ RestartFails
  /\ Goto(c, AfterFpm(c))

\* docker restart; on 404 ensureRunning().
RestartBox(c) ==
  /\ pc[c] = "restart"
  /\ IF box = "none"
     THEN Goto(c, "inspect") /\ ClearTimer
     ELSE Goto(c, "done") /\ StartBox

FpmStep(c) ==
  /\ Inspect(c) \/ Start(c) \/ Make(c) \/ FpmFails(c) \/ RestartBox(c)
  /\ UNCHANGED <<kind, site, want, had, rowRead, rowVars, fileVars, scanVars, fault, crashes>>

-----------------------------------------------------------------------------
(* writeConfWithRollback().                                                *)

\* A mistake the checks exclude: no copy is kept of the previous file.
BackupNothing(c) ==
  /\ pc[c] = "backup"
  /\ Goto(c, "write")
  /\ UNCHANGED <<had, fileVars, fault>>

\* access() and copyFile(): a file that goes in between counts as missing.
Backup(c) ==
  /\ pc[c] = "backup"
  /\ IF conf[site[c]] # Nothing
     THEN /\ bak' = [bak EXCEPT ![site[c]] = conf[site[c]]]
          /\ had' = had \cup {c}
     ELSE UNCHANGED <<bak, had>>
  /\ Goto(c, "write")
  /\ UNCHANGED <<conf, tmp, fault>>

Write(c) ==
  /\ pc[c] = "write"
  /\ tmp' = [tmp EXCEPT ![site[c]] = want[c]]
  /\ Goto(c, "swap")
  /\ UNCHANGED <<conf, bak, had, fault>>

\* rename() of whatever .conf.tmp holds; another writer may have taken it.
Swap(c) ==
  LET s == site[c] IN
  /\ pc[c] = "swap"
  /\ IF tmp[s] # Nothing
     THEN /\ conf' = [conf EXCEPT ![s] = tmp[s]]
          /\ tmp' = [tmp EXCEPT ![s] = Nothing]
          /\ Goto(c, "validate")
     ELSE Goto(c, "done") /\ UNCHANGED <<conf, tmp>>
  /\ UNCHANGED <<bak, had, fault>>

\* A call that fails before the new file is in place.
WriteFails(c) ==
  /\ pc[c] \in {"backup", "write", "swap", "unlink"}
  /\ Goto(c, "done")
  /\ UNCHANGED <<fileVars, had, fault>>

\* nginx -t reads the configurations of all sites.
TreeValid == \A s \in Site : conf[s] \notin Bad

\* It accepts them and the copy is dropped.
Accept(c) ==
  /\ pc[c] = "validate"
  /\ TreeValid
  /\ bak' = IF c \in had THEN [bak EXCEPT ![site[c]] = Nothing] ELSE bak
  /\ Goto(c, "reload")
  /\ UNCHANGED <<conf, tmp, had, fault>>

\* It rejects them, for another site's sake perhaps, or does not end in time.
Reject(c) ==
  /\ pc[c] = "validate"
  /\ Goto(c, "rollback")
  /\ UNCHANGED <<fileVars, had, fault>>

\* A mistake the checks exclude: a new site's rejected file is left behind.
RollbackKeepsNew(c) ==
  LET s == site[c] IN
  /\ pc[c] = "rollback"
  /\ IF c \in had /\ bak[s] # Nothing
     THEN conf' = [conf EXCEPT ![s] = bak[s]] /\ bak' = [bak EXCEPT ![s] = Nothing]
     ELSE UNCHANGED <<conf, bak>>
  /\ Goto(c, IF c \in had THEN "settle" ELSE "done")
  /\ UNCHANGED <<tmp, had, fault>>

\* The copy is moved back, or the new file of a new site unlinked.
Rollback(c) ==
  LET s == site[c] IN
  /\ pc[c] = "rollback"
  /\ IF c \notin had
     THEN conf' = [conf EXCEPT ![s] = Nothing] /\ UNCHANGED bak
     ELSE IF bak[s] # Nothing
     THEN conf' = [conf EXCEPT ![s] = bak[s]] /\ bak' = [bak EXCEPT ![s] = Nothing]
     ELSE UNCHANGED <<conf, bak>>
  /\ Goto(c, IF c \in had THEN "settle" ELSE "done")
  /\ UNCHANGED <<tmp, had, fault>>

\* The file system refuses: logged, or ignored for a new site.
RollbackFails(c) ==
  /\ pc[c] = "rollback"
  /\ Mark(site[c], "stranded")
  /\ Goto(c, IF c \in had THEN "settle" ELSE "done")
  /\ UNCHANGED <<fileVars, had>>

\* The reload after a rollback, whatever it answers; the call is refused.
Settle(c) ==
  /\ pc[c] = "settle"
  /\ Goto(c, "done")
  /\ UNCHANGED <<fileVars, had, fault>>

WriteStep(c) ==
  /\ \/ Backup(c) \/ Write(c) \/ Swap(c) \/ WriteFails(c) \/ Accept(c) \/ Reject(c)
     \/ Rollback(c) \/ RollbackFails(c) \/ Settle(c)
  /\ UNCHANGED <<kind, site, want, rowRead, rowVars, scanVars, crashes, fpmVars>>

-----------------------------------------------------------------------------
(* What follows the swap, in the table.                                    *)

\* The reload succeeds.  create() makes the content directory first, update()
\* writes the row it read; a row that is gone is an error.
Reload(c) ==
  LET s == site[c] IN
  /\ pc[c] = "reload"
  /\ IF kind[c] = "create"
     THEN Goto(c, "insert") /\ UNCHANGED <<row, orphaned, fault>>
     ELSE /\ Goto(c, "done")
          /\ IF row[s] # Nothing /\ owner[s] = rowRead[c]
             THEN /\ row' = [row EXCEPT ![s] = want[c]]
                  /\ orphaned' = orphaned \ {s}
                  /\ Mark(s, "none")
             ELSE Mark(s, "apart") /\ UNCHANGED <<row, orphaned>>
  /\ UNCHANGED <<owner, conf, fpmVars>>

\* The reload fails, or the directory cannot be made: the call fails with the
\* new file in place.
ReloadFails(c) ==
  /\ pc[c] \in {"reload", "insert"}
  /\ Goto(c, "done")
  /\ Mark(site[c], "apart")
  /\ UNCHANGED <<rowVars, conf, fpmVars>>

\* The insert of create(); names are unique.
Insert(c) ==
  LET s == site[c] IN
  /\ pc[c] = "insert"
  /\ IF row[s] = Nothing
     THEN /\ row' = [row EXCEPT ![s] = want[c]]
          /\ owner' = [owner EXCEPT ![s] = c]
          /\ Mark(s, "none")
     ELSE Mark(s, "apart") /\ UNCHANGED rowVars
  /\ Goto(c, "done")
  /\ UNCHANGED <<orphaned, conf, fpmVars>>

\* remove(): the file goes first.
Unlink(c) ==
  /\ pc[c] = "unlink"
  /\ conf' = [conf EXCEPT ![site[c]] = Nothing]
  /\ Goto(c, "unload")
  /\ UNCHANGED <<rowVars, fault, fpmVars>>

\* Then, whatever the reload answers, the row it read; the removal of a PHP
\* site may arm the idle stop.
Unload(c) ==
  LET s == site[c] IN
  /\ pc[c] = "unload"
  /\ row' = IF owner[s] = rowRead[c] THEN [row EXCEPT ![s] = Nothing] ELSE row
  /\ Mark(s, IF owner[s] = rowRead[c] THEN "none" ELSE "apart")
  /\ orphaned' = IF owner[s] = rowRead[c] THEN orphaned \ {s} ELSE orphaned
  /\ owner' = IF owner[s] = rowRead[c] THEN [owner EXCEPT ![s] = Nothing] ELSE owner
  /\ IF want[c] \in Php THEN ArmIdleStop(PhpRows(row')) ELSE UNCHANGED fpmVars
  /\ Goto(c, "done")
  /\ UNCHANGED conf

RowStep(c) ==
  /\ Reload(c) \/ ReloadFails(c) \/ Insert(c) \/ Unlink(c) \/ Unload(c)
  /\ UNCHANGED <<kind, site, want, had, rowRead, bak, tmp, scanVars, crashes>>

-----------------------------------------------------------------------------
\* reconcile() on the managed rows: first it lists the directory, ...
ReconcileList ==
  /\ ~scan
  /\ scan' = TRUE
  /\ listed' = {s \in Site : conf[s] # Nothing}
  /\ UNCHANGED <<callVars, rowVars, fileVars, fault, crashes, fpmVars>>

\* ... then it reads the rows, flags those the listing has no file of, and
\* clears the flag of the others.
ReconcileApply ==
  /\ scan
  /\ scan' = FALSE
  /\ listed' = {}
  /\ orphaned' = {s \in Site : row[s] # Nothing /\ s \notin listed}
  /\ UNCHANGED <<callVars, row, owner, fileVars, fault, crashes, fpmVars>>

\* The operator deletes a file, or puts back the row's.
Tamper(s) ==
  /\ row[s] # Nothing /\ ~Busy(s)
  /\ \/ conf' = [conf EXCEPT ![s] = Nothing]
     \/ conf' = [conf EXCEPT ![s] = row[s]]
  /\ Mark(s, "apart")
  /\ UNCHANGED <<callVars, rowVars, bak, tmp, scanVars, crashes, fpmVars>>

IdleStop ==
  /\ TimerFires \/ StopDone \/ StopFails
  /\ UNCHANGED sitesVars

\* A file nginx has yet to accept is in place, or was left so.
CheckedOn(s) ==
  \/ fault[s] = "stranded"
  \/ \E c \in Call : site[c] = s /\ pc[c] \in {"validate", "rollback"}

\* The process dies: calls, timers and the memory of both are gone.
Crash ==
  /\ crashes < MaxCrashes
  /\ crashes' = crashes + 1
  /\ pc' = [c \in Call |-> IF pc[c] = "idle" THEN "idle" ELSE "done"]
  /\ scan' = FALSE
  /\ listed' = {}
  /\ fault' = [s \in Site |->
       IF ~Busy(s) \/ Contended(s) THEN fault[s]
       ELSE IF CheckedOn(s) THEN "stranded" ELSE "apart"]
  /\ FpmDies
  /\ UNCHANGED <<kind, site, want, had, rowRead, rowVars, fileVars>>

Next ==
  \/ \E c \in Call, s \in Site, w \in Content : Create(c, s, w) \/ Update(c, s, w)
  \/ \E c \in Call, s \in Site : Remove(c, s)
  \/ \E c \in Call : Restart(c) \/ Access(c) \/ FpmStep(c) \/ WriteStep(c) \/ RowStep(c)
  \/ ReconcileList \/ ReconcileApply
  \/ \E s \in Site : Tamper(s)
  \/ IdleStop
  \/ Crash

Spec == Init /\ [][Next]_vars

-----------------------------------------------------------------------------
(* Properties.                                                             *)

\* A site on which no call is at work has the file its row describes, and no
\* file without a row, whatever other sites do meanwhile: a rejected write
\* restores the previous file (writeConfWithRollback 518-579; class comment
\* 29-36).  Set apart are the sites on which two calls have overlapped, for good,
\* and, until a call on them succeeds, those a death, an edit by hand or a
\* failure past the swap (the reload, the directory, the rollback) has left.
RowMatchesFile ==
  \A s \in Site : fault[s] # "none" \/ Busy(s) \/ conf[s] = row[s]

\* A configuration nginx rejects is on disk only while its writer is about to
\* validate it or to take it back, even if the reload or a death under another
\* step failed the site before.  It stays there, to make nginx -t fail for every
\* site, in three cases: the rollback itself failed, the process died between the
\* swap and the end of the rollback, or two calls have overlapped on the site.
BadFileIsTransient ==
  \A s \in Site : conf[s] \in Bad =>
    \/ fault[s] \in {"stranded", "contended"}
    \/ \E c \in Call : site[c] = s /\ pc[c] \in {"validate", "rollback"}

\* The idle stop is asked for only while there is no PHP site
\* (docs/websites.md 265; php-fpm.service.ts 30).
IdleStopOnlyWhenIdle == [][stopping' > stopping => PhpRows(row) = {}]_vars

\* It takes the container down only while there is no PHP site.
StopEndsWhenIdle == [][stopping' < stopping /\ box' # box => PhpRows(row) = {}]_vars

\* A row is flagged as orphaned only while its file is missing (reconcile()'s
\* comment 208-209, "marks rows whose conf file is missing as orphaned").
OrphanHasNoFile ==
  [][\A s \in orphaned' \ orphaned : conf[s] = Nothing]_vars

-----------------------------------------------------------------------------
(* The inductive invariant behind the safety properties.                     *)

\* What kind of call may be where, and which row it has read.
CallInv ==
  /\ \A c \in Call :
       /\ pc[c] \in {"idle", "restart"} => kind[c] = "restart"
       /\ pc[c] \in {"idle", "access", "inspect", "start", "make", "restart", "backup"} => c \notin had
       /\ pc[c] \in Writing \cup {"access", "unlink", "unload"} => kind[c] # "restart"
       /\ pc[c] \in {"access", "insert"} => kind[c] = "create"
       /\ pc[c] \in {"inspect", "start", "make"} => kind[c] \in {"create", "restart"}
       /\ pc[c] \in {"unlink", "unload"} <=> kind[c] = "remove" /\ pc[c] # "done"
       /\ pc[c] \notin Ended /\ kind[c] \in {"update", "remove"} =>
            \/ Contended(site[c])
            \/ row[site[c]] # Nothing /\ owner[site[c]] = rowRead[c]
       /\ pc[c] \notin Ended /\ kind[c] = "create" =>
            Contended(site[c]) \/ row[site[c]] = Nothing
  /\ \A c, d \in Call :
       WorksOn(c, site[c]) /\ WorksOn(d, site[c]) => c = d \/ Contended(site[c])

\* What the files of a site hold while the one call on it is at work.
PhaseInv ==
  \A c \in Call : LET s == site[c] IN Contended(s) \/
    /\ pc[c] = "swap" => tmp[s] = want[c]
    /\ pc[c] \in {"validate", "rollback", "reload", "insert"} => conf[s] = want[c]
    /\ pc[c] \in {"reload", "insert"} => want[c] \notin Bad
    /\ pc[c] = "unload" => conf[s] = Nothing
    /\ pc[c] \in {"access", "inspect", "start", "make", "backup", "write", "swap", "settle", "unlink"}
       /\ kind[c] # "restart" => fault[s] # "none" \/ conf[s] = row[s]
    /\ pc[c] \in {"write", "swap", "validate", "rollback"} =>
         \/ fault[s] # "none"
         \/ IF c \in had THEN bak[s] = row[s] /\ row[s] # Nothing ELSE row[s] = Nothing
    /\ pc[c] \in {"write", "swap", "validate", "rollback"} /\ c \in had =>
         bak[s] # Nothing /\ (fault[s] = "stranded" \/ bak[s] \notin Bad)

\* Rows are of accepted configurations.
RowInv == \A s \in Site : Contended(s) \/ row[s] \notin Bad

SiteInv == CallInv /\ PhaseInv /\ RowInv /\ RowMatchesFile /\ BadFileIsTransient

IInv == TypeOK /\ SiteInv
=============================================================================
