# DinoPanel: formal models

DinoPanel is a self-hosted server panel: a NestJS server (`src/apps/server`) with
a SQLite database, a React client (`src/apps/web`), and the host it manages
(firewall daemon, Docker, nginx, files). This directory holds TLA+ models of the
parts of the server whose correctness depends on the order of events, TLC
configurations that check them on small instances, and TLAPS proofs for every
value of the constants.

Paths below are relative to `src/apps/server/src/` unless they start with
`docs/` or `deploy/`.

## 1. Inventory

### 1.1 How the server runs, and what that means for a model

* One Node process, one event loop. `better-sqlite3` is synchronous and every
  statement autocommits; the `await` in front of a query yields only to
  microtasks. A handler therefore runs as one step from one *real* await (child
  process, Docker, file system, network) to the next. The one exception
  kept in the models is a death *between* two statements, where two statements
  of one handler must agree (`FirewallService.confirm`).
* Nothing serialises requests. Two requests, a timer, a cron tick and a boot hook
  interleave at every real await.
* The process may die at any moment. `deploy/systemd/dinopanel.service` restarts
  it after 5 seconds (lines 14-15). In-memory maps, timers and pending promises are
  gone; SQLite rows, host firewall rules, containers and files stay.
* Unhandled `error` events and unhandled rejections end the process.
* NestJS awaits the `onApplicationBootstrap` hooks of one module after another;
  requests are served only after the last (`main.ts` 78-88).

### 1.2 Components

| Component | State | Operations | Interacts with | Hard behaviour |
|---|---|---|---|---|
| **Staged firewall rules** `modules/firewall` | table `firewall_rule_meta` (`staged_at`, `confirming_at`, `confirmed_at`); map `staged` with a 30 s timer each; the host's rules | `stage`, `confirm`, `cancelStage`, `removeRule`, `autoRevert`, `recoverySweep` | `firewall-cmd`/`ufw` through `runCommand` with a timeout | timers against requests, driver errors before or after the effect, death at each step, boot sweep |
| Firewall backend switch, Fail2Ban | none of the panel's | `enable`, `disable`, ban, unban | host commands | one command per request |
| **Task scheduler** `modules/scheduler` | `scheduled_tasks`, `scheduled_runs`; map of cron handles; map of runners | create, update, remove, run now, cron tick, boot, stop | runners of ACME and Backups, plugged in at *their* bootstrap | overlapping runs, removal under a run, boot order, death under a run |
| Task runners | none | one bounded command or call each | shell, `operation_logs`, ACME, Backups | timeouts |
| **Database backups** `modules/backups` | table `backups`; files under `BACKUPS_ROOT` | `create` + `pruneRetention`, `delete`, `restore`, cascade | Scheduler (`db_backup`), database instances, `docker exec` streams | concurrent creates, prunes and deletes; death between file and row |
| Backup drivers | files in containers | dump and load per engine | `docker exec` | partial streams; redis stops, swaps and starts a container |
| **Database instances** `modules/databases` | table `db_instances`; containers; data directories | `create`, `patch`, `start`, `stop`, `restart`, `remove`, `rotatePassword`, `reconcile` | Docker, file system, metrics cache | check-then-act over minutes (image pull), rollbacks that may hit another's container |
| Database metrics cache | map of cached answers | `get`, `invalidate` | instances | a fetch under way when its instance changes |
| **Websites and nginx** `modules/websites` | `sites`; `.conf`, `.conf.bak`, `.conf.tmp` files | create, update, remove, reconcile | nginx test and reload, PHP-FPM, ACME | two writers of one site; a validation of all sites at once; reload failing after the swap |
| **PHP-FPM container** | the managed container; idle-stop timer | ensure, restart, stop when idle | websites | the idle stop racing a new site |
| **ACME** `modules/acme` | `acme_accounts`, `acme_orders`; certificate and key files | issue, renew, status | scheduler, websites | split write of the pair; two first issuances; one site's torn pair in everybody's reload; a save of the site under an issuance |
| **Sessions** `modules/auth` and the web client | `sessions` (refresh tokens); one pair in `localStorage`; `refreshPromise` of each tab | login, refresh, logout | several tabs of one browser | rotations of one token; logout in between; answers lost; a page left in mid-refresh |
| **Nexus monitoring** `modules/nexus` | instances, samples, cached state | poll, add, remove, series | HTTP scrapes | overlapping polls; removal during a scrape; counters that restart |
| **Containers, compose, exec gateways** `modules/containers` | connections with a child process or stream, kill timers | actions, exec, logs, stats | Docker | a client leaving before or after the spawn; shutdown |
| Toolbox, nodes, system, monitoring | rows edited in one statement | reads, host commands | host | none to speak of |
| Files, logs, **terminal** | connections with a pty; none for the others | file system I/O, streams | host | a client that vanishes (terminal) |
| **Web client**, shared schemas | the token pair; none | forms; input validation | REST, WebSocket | token refresh, in `Sessions` |

### 1.3 What makes each component correct

* **Firewall**: no rule is left in force that no row answers for; a rule whose
  confirmation has begun is never reverted; the sweep touches only rows past their
  window; every staged rule is eventually confirmed or removed.
* **Scheduler**: handles = enabled, schedulable rows; a tick always finds its task
  and runner; a run reads `running` exactly while it runs; an outcome is final;
  every run ends.
* **Backups**: a successful row has its file, with its own bytes; every file has a
  row, but for the exceptions the code accepts; retention drops the oldest and trims the group.
* **Instances**: a failing create never harms another's
  container; every container has a row or an explanation; kept data stays; the
  stored password is the one the engine accepts.
* **Websites**: the file on disk is the row's configuration and one nginx accepted; a
  rejected one is taken back. **PHP-FPM**: the container is stopped only while there is no
  PHP site (it is not so, see the further configurations). **ACME**: a successful order means that the row,
  the two files and nginx have one pair; no certificate is asked for under an account key
  that is lost. **Sessions**: one live pair per login; a refresh is refused only for a
  cause; nobody waits for a refresh that is over. **Nexus**: nothing is left of what was
  removed; the series accounts for every request once. **Gateways**: nothing runs on for a
  client that has left, and it ends.

The hazards, each at its line with the properties that cover it, are in
`PROJECT.json`.

## 2. Plan

All of the first eight steps are done.

1. **`Firewall`** with its abstract specification **`StagedRules`**.
2. **`Scheduler`**, with the plug-in boot order.
3. **`Backups`**.
4. **`DbInstances`**.
5. **`PhpFpm`**, and **`Sites`**, which extends it: the configuration swap with its rollback,
   `nginx -t` over all sites, the reload, and the container the sites rely on.
6. **`Acme`**: account, order, the two files, row, configuration, and the renewal task.
7. **`Sessions`** with its abstract specification **`LoginChains`**: the server's rotation of
   refresh tokens and the tabs of one browser.
8. **`Gateways`**: child processes, streams and terminals held for a WebSocket client;
   **`Nexus`**: polls against removal, and the series of rates.

What remains: the import of external nginx configurations by `reconcile()`; the metrics
cache of the database instances; the redis backup driver, which stops and starts a
container; abstract specifications for `Backups` (a backup is absent, present or gone) and
`DbInstances` (a registry of names).

Conventions: parameters are CONSTANTS with a named assumption in the module that
declares them; one action per operation, split at its real awaits; invariants are
conjunctions of named parts; no RECURSIVE operator; the proofs of module `M` are in
`MProofs` (those of `Gateways` and of `Nexus` share `GatewaysNexusProofs`, for which the
definitions of `Nexus` carry its name where the two would clash); `MCM` gives the
constants for TLC. A definition introduced by "a mistake
the checks exclude" is a plausible bug, used only to show that a property would
notice it.

## 3. The modules

### Firewall (`firewall.service.ts`, drivers, `run-command.ts`)

| TLA+ | Code |
|---|---|
| `meta`, `ruleOf`, `age` | the row: which timestamps are set; the rule; time since `staged_at`, saturating |
| `kernel` | the rules of the host |
| `staged`, `left` | the map `staged`, and the timers |
| `cmd[m][k]` | the driver command operation `k` on row `m` awaits: `none`, `run`, `ok`, `err` |
| `turn` | the row between the two writes of `confirm()` |
| `Stage`, `StageSettled` | `stage()` before and after `driver.addRule` |
| `ConfirmBegin`, `ConfirmEnd` | first write with timer and entry dropped; second write |
| `CancelStage`, `AutoRevert`, `RevertSettled` | `cancelStage()`, the timer, the rest of `cancelStage()` |
| `RemoveRule`, `RemoveSettled` | `removeRule()` around `driver.removeRule` |
| `DriverCommand` | a driver call: it may take effect or not, and report success or an error, independently (firewalld: `--permanent` succeeds, `--reload` fails) |
| `Boot`, `SweepRevert`, `SweepSettled`, `SweepPromote` | `recoverySweep()`: select orphans, remove each, then promote the half-confirmed |
| `Stop`, `Crash` | `onModuleDestroy`, death |

`leaked` and `asked` are history variables: rules an error left in force (the code
logs and goes on), and rows a client asked to remove. Clients remove only rows they
have seen, and one removal of a row is under way at a time. Edits of the host's
firewall by other programs are not modelled beyond the rules present at the start,
and a driver command that outlives a death is taken as done or not done at the
death. `Tick` is a coarse clock: `ConfirmTicks` for 30 s, `OrphanTicks` for 60 s; only
their order matters.

`StagedRules` is the promise: a row is proposed, then kept in one step or withdrawn,
and a kept one ends only at a client's request. `Firewall` implements it with `life`
mapped to `Lives` (`confirming` and `confirmed` are both *kept*).

### Scheduler (`scheduler.service.ts`, `scheduler.controller.ts`, `acme.module.ts`, `backups.module.ts`)

`row`, `type`, `enabled`, `schedulable` are the task's row (`schedulable`: the cron
string the schema accepts may still be refused by `node-cron`, and `register` then
leaves no handle); `entries` the cron handles; `runners` the registry; `run`, `taskOf`
the run rows; `executing` the pending `executeTask` promises. `Create`, `Update`,
`Remove` are the controller's handlers with the register or unregister they end
in; `CronFire`, `RunNow` start an execution and `Finish` writes its outcome; `CronFault`
is the throw of `executeTask` out of the cron callback, whose promise nobody awaits. Boot is four
steps: `BootScheduler` (builtins, abort of stale runs, handles), `BootAcme` and
`BootBackups` in either order, `Listen`. A user task with the name of a built-in one, and
a death in the middle of one bootstrap hook, are not modelled.

### Backups (`backups.service.ts`, `paths.ts`)

A create goes through `dump` (name computed, dump starting), `write` (file open,
streaming), `prune`, `done`; a create that fails is `done` too. A death turns `dump` and
`write` into `lost` and `prune` into `cut`. `writers[f]` is the set of
creates whose bytes file `f` holds: it tells a missing file from one's own and from another's.
`Create`, `Open`, `Insert` (`chmod`, `stat`, the insert and the selection of the surplus),
`Fail`, `PruneUnlink`/`PruneDelete`, `DeleteUnlink`/`DeleteRow`, `Restore`/`RestoreOpen`,
`RestoreFault` (the unheard `error` event), `RemoveInstance` (the cascade), `Crash`.
`Unlink` is `unlink(...).catch(() => undefined)` of all three callers: the file goes, or stays, and
the caller goes on; `stuck` is the history of those that stayed, `unlinked` of the rows whose file
has gone. `created` is a counter in the order of the inserts, as `createdAt` is for a clock that
does not go back. `SameInstant` says whether two creates may read the same `Date.now()`.
One restore of a row is under way at a time.

### DbInstances (`db-instances.service.ts`)

`Create` and `Op` are calls; a row is named by the create that inserts it. `pc` is the await a call
is at; `maker`, `boxPw`, `state` describe the container of each name; `dir`, `dirPw` its data
directory. `MakeDir`, `MakeBox`, `StartBox`, `Insert` are the steps of `create()`, each with the
failure and rollback the code gives it (`ImageFails`, `MakeFails`, `StartFails`, `InsertFails`,
`Undo`, `UndoFails`, `Wipe`). `patch()` and `rotatePassword()` are `Clear`, `MakeBox`, `StartBox`,
`Save`; `remove()` is `Unbox`, `Wipe` (with `dropData`), `Unrow`; `start`, `stop`, `restart` are
`Ask` and `Mark`; `reconcile()` reads the rows, lists the containers and writes the statuses. A
container may stop outside the panel (`BoxExits`); containers are not made or removed by others.
Docker and the image entrypoint are external: they are modelled from how the service uses them. That
the unique index keeps two live rows from sharing a name is part of `Insert`, not a property.
`InitOnly` is the engines that read the password only when they initialise their directory. Port
conflicts are among the failures any step may have. Each name has one engine: two engines competing
for one name differ in container and directory, and meet only at the unique index. One reconcile
runs at a time.

### PhpFpm and Sites (`php-fpm.service.ts`, `sites.service.ts`, `nginx.service.ts`)

`PhpFpm` has the container (`box`), the timer (`handle`: what `idleStopTimer` refers to;
`stray`: timers still armed that it does not refer to, because the end of a stop nulls it)
and the stops under way. Its operators are the parts of `ensureRunning`, `scheduleIdleStop`
and `stopManagedContainer` between two awaits of Docker. `Sites` extends it and calls them.

| TLA+ | Code |
|---|---|
| `row`, `owner`, `orphaned` | the rows of `sites`: the configuration a row describes, its id, its flag |
| `conf`, `bak`, `tmp` | the three files of a site |
| `pc`, `kind`, `site`, `want`, `had`, `rowRead` | the calls and their locals (`had` is `hadPrevious`) |
| `Create`, `Access` | `create()` to the check of the file; a PHP site goes on to `ensureRunning()` |
| `Update`, `Remove`, `Restart` | the other entry points, up to their first await |
| `Inspect`, `Start`, `Make`, `FpmFails`, `RestartBox` | `ensureRunning()` and `restart()`; `create()` ignores a failure |
| `Backup`, `Write`, `Swap`, `WriteFails` | `writeConfWithRollback()` up to the rename |
| `Accept`, `Reject`, `Rollback`, `RollbackFails`, `Settle` | `nginx -t` and what follows |
| `Reload`, `ReloadFails`, `Insert` | the reload and the row |
| `Unlink`, `Unload` | `remove()`: the file; then reload, row and idle stop |
| `ReconcileList`, `ReconcileApply` | `reconcile()` on managed rows: the listing of the directory; then the rows, read and flagged by a listing that may be stale |

A configuration is one of a small set of contents; some are rejected by nginx (`Bad`), some
are of PHP sites. `nginx -t` reads the files of *all* sites, and may also fail for reasons
of its own; `docker restart` may fail before or after its stop. Calls overlap freely, on one site
too, for the service does not serialise: two writers share `.conf.bak` and `.conf.tmp`.
`OneWriter` is a bound of the configurations run by hand, and no property or theorem assumes it.

`fault` is a history variable, what may have left row and file of a site apart: `apart` after
a failure past the swap, an edit by hand or a death; `stranded` after a rollback that failed or
was cut short; `contended` once two calls have overlapped. A call that succeeds puts an end to the
first two. `RowMatchesFile` leaves the sites with a fault out, `BadFileIsTransient` only the
stranded and the contended. What the properties say of the others holds with any faults around them.

### Acme (`acme-orchestrator.service.ts`, `acme-account.service.ts`, `acme-renew.runner.ts`)

A job is one `runIssuance()`, and its name is also that of the pair it makes. `chain`, `key`
are what `fullchain.pem` and `privkey.pem` hold, `cert` what the row records, `tls` the sites
whose configuration refers to the files, `served` what nginx has loaded, `last` the last
status written to an order. `Start` inserts the order and reads the address; `Register` is
the rest of `ensureAccount()`; `RunAutoFlow` the dialogue with the authority; `WriteChain`,
`WriteKey`, `RecordCert` the steps after it. `SweepStart`, `SweepNext` are the renewal task: one
site after the other, each failure skipped. The challenge (`http-01` or `dns-01`) is abstracted to
success or failure.

An issuance ends in `SitesService.update()`; a *client* may call that, or `remove()`, of any site at
any moment. Both go through the same steps: the row is read (`ReadRow` of an issuance, `SaveSite` of a
client; `paths` is whether it had a certificate), the configuration replaced (`Swap`), validated with
those of all sites (`Accept`, or `Reject` with the rollback and `Settle` with its reload), loaded (`Reload`),
and the row written (`Finish`, for an issuance with the success of its order). `RemoveSite`, `Unlink`, `Unload`,
`Delete` are the parts of `remove()`. `Fails` is an error in any step that does not handle it: what is
done is done. nginx refuses a configuration whose pair does not fit, of whatever site. The bytes of the
configuration, `.bak` and `.tmp` are in `Sites`; here a configuration refers to the pair or not.

`fault` is a history variable: `contended`, for good, once two issuances, or two writers of the
configuration, have met on a site, which nothing in the code prevents; `apart` when a death cut a removal
short, until a save. `SuccessIsServed` leaves these sites out, and `MCAcmeOverlap.cfg` shows why it must.

### Sessions (`auth.service.ts`, `web/src/lib/api.ts`, `web/src/stores/auth.ts`)

A pair is named after the login or the refresh it was issued for. `live` is the table, `root` the
login a pair descends from, `ended` the pairs that expired or were logged out of. `stored` is
`localStorage`, shared by the tabs; `promise` a tab's `refreshPromise`. `Rotate` is `refresh()` up
to the deletion of the row, `Answer` the signing and the insert; the lookup and the deletion are one
step because nothing is awaited between but SQLite. `Refused` is the 401 branch of the response
interceptor, `Settle`, `Rejected`, `AnswerLost` the three ends of the post, `Redirect` the way back
to the login, which drops the tokens and ends the page and all it waits for (`PageGoes`) but not
what the server does. `Leave` is a reload or the closing of the tab by the user: no `catch` runs, so
that the tokens stay, perhaps with a pair the server has just replaced. The next page of the tab
starts with `Resume` like any other; `left` is the history of the refreshes so abandoned.
`LoginChains` is what the server promises of a login: a chain of pairs, each issued once and in the
place of the one before, which is not taken up again once it has ended. `Sessions` implements it
with `holder` mapped to the heirs of each login (`Heir`: a pair with a row, or one whose refresh has
deleted the row and not yet inserted the next), so that both halves of a refresh together are one
renewal. `Resume`, `ResumeFails` are `refreshMe()`; `SignOut`, `Revoke`, `SignedOut` are `logout()`.
Whether an access token has expired is a choice at each request.

### Gateways (`compose-action.gateway.ts`, `exec`, `logs`, `stats`, `terminal.gateway.ts`)

A connection is for a compose *action*, a container *stream* or a *terminal*. `ws` is the
server's end of the socket, `sessions` the map of the gateway, `opening` the lookups under
way, `handle` the sessions whose child, stream or pty is set, `work` the process itself,
`timer` the kill timers. `Opened` is the continuation that finds the client there or gone;
`Close` and `WsError` run the same cleanup, the second before the first; `Destroy` is
`onModuleDestroy()`; `Exit` the end of the process, with its timers. The work of an exec is its stream: the
process Docker started inside the container may outlive it, and the panel keeps no hold on it.

### Nexus (`nexus.service.ts`, `metrics.ts`)

`PollStart`, `Scrape`, `ScrapeFails`, `Store`, `Prune` are the parts of `poll()` between requests;
two polls may overlap. `RemoveInstance` deletes the entry, the cached state and the rows.
`samples` is the table as a set of rows, each with the id (`key`) it was given; `stored`, the
autoincrement, is the last id. `Rows` are those of the range a client asks for, a range of any
length; `toSeries()` walks over them in the order of their times, which is that of their ids
(`Follows`, for a clock that does not go back). `Cuts` are the rows the loop takes as `first` or flushes with: the
ends, and the first row of each bucket. A point of `ToSeries` leads from one cut to the next, unless
`Charted` (`flush()`'s early returns) drops it; a rate is kept as a difference and a time.
`Serve`, `NexusRestarts` are the server that is scraped. `late` is a
history variable: instances removed while a poll had them ahead.

## 4. The runs

| Run | Question | Bounds |
|---|---|---|
| `firewall` | no stranded rule, confirmed rules stay, rows deleted only by right, `StagedRules` implemented | 2 rows, 2 rules (one a lockout), 1 death |
| `firewall_live` | a staged row of a living panel is resolved | 1 row, 2 rules, 2 deaths |
| `firewall_restart` | *(violated)* every staged rule is resolved, across restarts | 1 row, 1 death |
| `scheduler` | handles, runners, runs, outcomes; every run ends | 1 user task, 2 built-in, 2 runs, 2 deaths |
| `backups` | rows and files agree; retention keeps the newest and trims | 3 creates, 1 instance, 3 requests (keep 1, keep 2, manual), 1 unlink that fails (`MaxStuck`), 1 death |
| `db_instances` | containers, rollbacks | 2 creates, 2 other calls, 1 name, 1 death |
| `db_kept_data` | *(violated)* data kept by a removal stays | 2 creates, 1 removal |
| `sites` | rows and files agree, rejected configurations go | 3 calls, also on one site, 2 sites, 3 contents (static, PHP, rejected), 1 death |
| `acme` | a success is served; account keys are stored | 2 sites, 2 issuances, 1 client (any number of calls, one at a time), 1 address, 1 death |
| `sessions` | `LoginChains` implemented, causes of a rejection, nobody waits in vain | 2 tabs, 3 requests, 2 logins, 1 lost answer or page left |
| `gateways` | nothing runs on for a client that left, and it ends | one connection of each kind |
| `nexus` | removal leaves nothing; the series is complete for every range | 1 instance, 2 polls, 3 samples, 4 ticks, 2 requests served, 1 restart of Nexus |

**Why the bounds are enough to be interesting.** Two rows are the fewest that can share a rule; one
lockout rule exercises the acknowledgement. One death reaches every crash point of one protocol run;
a second (liveness, scheduler) reaches a death during the recovery. Two runs overlap and are cut at
different points. Three backups are the fewest with which retention of two drops one while another
create of the group is under way. Instance names are independent, so the interference is among the
calls on one name: two creates race for it, and two other calls race each other and the creates. Two
sites are the fewest with which one's rejected file meets the validation of the other, and three
calls let a third come while two are under way, on one site or on both. Two issuances overlap, race
for one account or are a first one and a renewal; the client's calls come at any await of them. Two
requests of one tab are the fewest that share a refresh, and the third belongs to the tab that
competes with it. Connections do not interact but through the shutdown. Nexus instances share only
the list; three samples make a bucket closed by the next, an empty interval and the end of the
range. The proofs remove the bounds for the invariants they cover.

**Symmetry** (`IdSymmetry`, `MCSymmetry`, `Symmetry`) is over the identifiers of rows, backups,
calls, sites, jobs, polls, logins and requests of one tab, which the modules only compare; it is
used for safety runs only. **Views** (`MCView` of `MCSites` and of `MCAcme`) leave out of a state
what no property and no later step reads: the locals of a call that is over, and flags nothing
depends on.

**Deadlock** is checked for `Firewall`, whose clock always ticks. The others
spend their identifiers and may rest.

**Fairness.** `Firewall`: the clock, timers that are due, driver commands (killed at
`runCommand`'s timeout), the resumption of a handler whose command settled, and the
boot with its sweep (`Restart=on-failure`, `RestartSec=5s`). `Scheduler`: the boot, and
the end of a runner (all bound their commands or requests by timeouts); an operator who
stops the panel is taken to start it again. `Gateways`: timers, the watchdog interval, lookups
(Docker answers or fails), a closing handshake (`ws` destroys the socket 30 s after
`close()`), and the end of a process that was killed or of a pty that was hung up. A child may ignore
SIGTERM for ever: the kill timer is what `EndsWhenGone` rests on. No client is ever obliged to act. `StagedResolved`
does not speak about a panel that is down or stopping.

### What the violated runs show

* `firewall_restart`: `docs/firewall.md` 49-51 promises 30 seconds to confirm or revert. A
  row staged less than 60 s before a restart is spared by the only sweep of that boot,
  and no timer is armed again: the rule stays in force, unconfirmed, until a later boot.
* `db_kept_data`: a create that reuses the name of a removed instance whose data were kept,
  and fails, deletes the kept directory.

### Further configurations

These are kept beside the runs, for a reader to execute by hand
(`tlc -config <cfg> <module>`). Each ends in the violation described.

* `MCFirewallDuplicate.cfg` (`MCFirewall`, `ConfirmedKept`): `stage()` accepts a rule with a
  confirmed row; the lapse of the second stage removes the rule both share.
* `MCSchedulerBootGap.cfg` (`MCScheduler`, `HandleHasRunner`): on every boot but the first the handle
  of an ACME or backup task is registered before its runner is; a tick in between ends
  the process.
* `MCBackupsSameName.cfg` (`MCBackups`, `FileOfOneRow`): two tasks of one instance on one cron line
  compute one file name, and each inserts a row for it.
* `MCBackupsRestore.cfg` (`MCBackups`, `RestoreFindsFile`): the comment at `backups.service.ts` 272-274
  calls a row without a file recoverable; restoring it ends the process.
* `MCDbInstancesRotate.cfg` (`MCDbInstances`, `PasswordWorks`): rotation stores a password that an
  engine with an initialised directory never reads.
* `MCDbInstancesLiveData.cfg` (`MCDbInstances`, `LiveDataStays`): two creates of one name share a data directory, and the
  rollback of the one that fails deletes it under the instance of the other.
* `MCSitesIdle.cfg` (`MCSites`, `IdleStopOnlyWhenIdle`): `create()` of a PHP site calls `ensureRunning()`, which
  clears the idle timer, before its row is inserted. A removal of the last other PHP
  site in between counts no PHP site and arms the timer, and nothing disarms it: the
  container is stopped under the new site (`docs/websites.md` 265). `update()` of a site to PHP
  never calls `ensureRunning()` at all.
* `MCSitesLateStop.cfg` (`MCSites`, `StopEndsWhenIdle`): the other half. A stop asked for while there was no PHP site
  is still awaited when `create()` of a new one finds the container running; it is stopped under that site.
* `MCSitesStaleList.cfg` (`MCSites`, `OrphanHasNoFile`): the comment at `sites.service.ts` 208-209
  says that `reconcile()` flags the rows whose file is missing. It reads the rows after the listing:
  a site created in between is flagged with its file there.
* `MCAcmeOverlap.cfg` (`MCAcme`, `SuccessIsServedAnyway`): a save reads the row before an issuance
  records its certificate and renames its configuration, without TLS, over the issuance's. The order
  says success, and nothing serves the certificate.
* `MCNexusReset.cfg` (`MCNexus`, `NoNegativeRate`): `metrics.ts` 191-192 says a bucket whose counters
  went backwards is dropped. `flush()` compares `requests` and the bytes, not the responses: a
  restart of Nexus followed by enough successful requests charts a negative error rate.

### Smaller divergences

Met while reading, with no configuration of their own: the comment at `db-instances.service.ts` 376
says reconcile runs at boot, and nothing calls it there; `docs/backups.md` 142-144 says the prune
goes oldest first, the code deletes the newest of the surplus first; `acme-orchestrator.service.ts`
takes the oldest order where its comment says the latest successful; a metrics fetch under way when
its database instance is removed or its password rotated puts the old answer back into the cache
after `invalidate()` (`db-metrics.service.ts` 89), for seconds; the comment at `metrics.ts` 188-190
speaks of the samples that fall in a bucket, where the code and its test also take the first sample
of the next; the comment at `firewall.service.ts` 197 says a failed add left no rule, which a failed
reload disproves; the sweep promotes with the current time where `docs/firewall.md` copies
`confirming_at`; a PATCH of a task validates its payload only when type and payload are both given;
`scanExternalConfs()` collects the paths it has seen and never reads them, so the rows of deleted
external files stay (`sites.service.ts` 237-238 says their freshness is handled); a failure of the
reload at the end of an issuance leaves a renewed row and files, so that the site is no longer due
and nginx goes on with the old pair; pending orders of a dead process stay pending; a logout that
crosses a refresh leaves the new session live, and `changePassword()` ends none; any failure of
`refreshMe()`, a network error included, drops the stored tokens; on shutdown the process ends
before the 10 s kill timers, so a compose child that ignores SIGTERM survives (`docs/containers.md`
350).

## 5. What is proved

All theorems hold for every value of the constants that satisfies the module's named
assumption, which says no more than that some sets are disjoint or not empty and the bounds are numbers. What a
property leaves out it leaves out by name, through a history variable its comment explains.

* **`FirewallProofs`** — `TypeOK`, `NoStrayRule`, `ConfirmedInForce`, `RowsDeletedByRight` and the
  refinement `ImplementsStaging`. None is inductive alone. `ProcessInv` says which phases of the
  process may hold entries and commands; `RowInv` that one owner at a time (stage, entry,
  confirmation, reversal, sweep) answers for a row; `StrayInv` strengthens `NoStrayRule` by
  ruling out as a witness a row whose rule a removal has already taken out; `ForceInv` extends
  `ConfirmedInForce` to rows that can still be confirmed. The sweep's right to a row comes
  from `orphans` in `RowInv`.
* **`SchedulerProofs`** — `TypeOK`, `HandlesMatchRows`, `CronFindsRunner`, `RunningIsExecuting`,
  `OutcomeIsFinal`, from `HandleInv` (handles and runners in each phase of the boot) and
  `RunInv` (runs, executions and tasks).
* **`BackupsProofs`** — `RowHasFile`, `NoOrphanFile`, with or without `SameInstant` and whichever
  unlinks fail. `RowHasFile` leaves out the rows of a shared name (`Shared`), `NoOrphanFile` the
  files that withstood an unlink (`stuck`). `FileInv` accounts for every create whose bytes are in a
  file; `OwnFileInv` gives a create with a name of its own the file it writes; `DropInv` says that a
  row about to be deleted has no bytes on disk unless its unlink failed; `PathInv` what a name and a
  row say of the phase. `TypeOK`, `GroupTrimmed` and the action property `RetentionKeepsNewest`,
  with or without `SameInstant`, from `RetentionInv`. `SurplusInv`: for a row in a pending surplus,
  `keep` rows of its group were inserted no earlier; later inserts only add to them. `TrimInv`
  cannot speak of the whole group, because deletes take rows out of it one by one: it says of
  *every* set of settled rows (of one group, in no pending surplus, no prune of the group cut short)
  that one of them asks to keep at least as many. The witness is the row inserted last, whose
  selection left no more than `keep` (`SurplusSpares`); `InsertRetention` is the step that makes it.
* **`DbInstancesProofs`** — `TypeOK`, `RowKeepsContainer`, `NoStrayContainer`, from `CallInv`
  (where a call may be), `BoxInv` (a container is its maker's, which has not undone it),
  `RemovalInv` and `MakerInv`. The lemma `BoxFrame` serves the many actions that leave
  containers and names alone.

* **`SitesProofs`** — `TypeOK`, `RowMatchesFile` and `BadFileIsTransient`, for any number of calls
  on a site at a time. `SiteInv` is said of the sites that are not contended: there `CallInv` gives
  one call at work, and that the row it has read is still there; `PhaseInv` what the three files
  hold at each step of a write (the copy is the row's configuration, the accepted file is the wanted
  one), faults of before included; `RowInv` that rows are of accepted configurations.
* **`AcmeProofs`** — `TypeOK` and `AccountKeyStored` from `JobsInv` (where a call may be, and the key an issuance
  holds); `SuccessIsServed`, whatever issuances and clients overlap. `OwnSite` and `OwnConf` say that on a site that
  is not contended there is one issuance, and one writer of the configuration. `Progress`: while the issuance works,
  the last order of the site is not a success, and files and row are as far as its phase says. `SaveInv`: a save of a
  site whose order has succeeded keeps to the certificate. `FilesMatch`, `ConfMatches`: whatever a reload by another
  site loads of a site whose last order is a success is the pair its row records.
* **`SessionsProofs`** — `TypeOK`, the invariants (`OneLivePerLogin` among them), and the refinement
  `ImplementsChains`. Only `Answer` and `SignIn` issue, and by `HeirOfLogin` a login has one pair to
  lose, so that an expiry or a logout ends it or changes nothing (`LossEnds`). `HeirInv` counts a
  refresh between deletion and insert as the heir of its login; `CauseInv` is `RejectedForCause`
  from the moment of the post; `SpentInv` says that a tab spends a pair once but for the pages left
  in mid-refresh, `RootInv` that a refresh under way has taken its row for good, `StoredInv` and
  `CallInv` where a request, its refresh and the stored pair may be.
* **`GatewaysNexusProofs`** — for `Gateways`, `TypeOK`, `NoOrphanWork`, `TimerIsForChild`, from
  `HandleInv`: running work has its handle, and a handle its connection. For `Nexus`, `NexusTypeOK` (with
  the order of ids and times, on which the series rests), `RemovedLeavesNothing`, from
  `PendingInv` (a poll deals with instances on the list or removed under it), and `SeriesIsComplete`
  for any number of samples and any bucket. The series needs no induction over rows: two rows in a row
  lie between a latest cut and an earliest one (`CutsAround`, from the least element of a set of naturals, which
  the well-foundedness of `<` gives), nothing is cut between these (`SeriesTiles`), and a point
  leads from row to row (`SeriesCounts`).

The temporal steps combine `Init => IInv`, `IInv /\ [Next]_vars => IInv'` and
`IInv => Inv`.

**Only model-checked**: the liveness properties (`StagedResolved`, `EveryRunEnds`, `EndsWhenGone`), since
fairness and ENABLED are beyond the prover; the violations. What the liveness rests on besides fairness is
proved: `StagedStaysTracked` (a staged row never drops out of the hands of a living process),
`RunningIsExecuting`, and `ToldIsKilled` (a child told to end has its kill timer). Every invariant and action property
of a passing run is a theorem.

## 6. What is not modelled

* **External nginx configurations** (`scanExternalConfs`, 150 lines): an import into rows of its own
  that no other operation acts on.
* **Metrics cache**, **redis backup driver**: see the plan and the smaller divergences.
* **Limits and repositories of Nexus**, the **challenge responders** of ACME, **users and passwords**:
  single statements or requests beside the modelled protocol.
* **Pull and system-metrics gateways**: a pull goes on when its client leaves, and the metrics gateway
  holds one interval per client, which `close` clears.
* **Toolbox, nodes, system, monitoring, files, host logs**: single host commands, reads or streams
  without a protocol.
* **The pages of the web client** (some 15 000 lines) render what the server answers and
  post forms; nothing in them is of record but the tokens, which `Sessions` has. They and the
  command parsers are most of the code the map leaves out.

Input validation, parsing of command output,
logging and wording are abstracted: the models start from inputs that pass the schemas.
The dump and load formats of the backup drivers are a stream that ends or fails.
