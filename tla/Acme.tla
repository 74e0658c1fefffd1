-------------------------------- MODULE Acme --------------------------------
(***************************************************************************)
(* Certificates: AcmeOrchestratorService, AcmeAccountService and the       *)
(* renewal task (acme-orchestrator.service.ts, acme-account.service.ts,    *)
(* runners/acme-renew.runner.ts) over the tables sites, acme_orders and    *)
(* acme_accounts, the two files of a site and nginx.                       *)
(*                                                                         *)
(* An issuance ends in SitesService.update(); a client may call that, or   *)
(* remove(), at the same time.  The two are as in the module Sites, with   *)
(* less of the files: whether the site's configuration refers to the pair. *)
(***************************************************************************)
EXTENDS Integers, FiniteSets

CONSTANTS
  Site,       \* ids of sites; an id is never used twice
  Job,        \* bound: issuances; each makes a pair, a key and a certificate for it
  Client,     \* bound: saves and removals of sites under way at one time
  Email,      \* addresses an account can be registered with
  None,       \* nothing
  MaxCrashes  \* bound: process deaths in a behaviour

ASSUME AcmeAssumption ==
  /\ Site # {} /\ Email # {}
  /\ None \notin Job \cup Email \cup Site
  /\ Job \cap Client = {}
  /\ MaxCrashes \in Nat

VARIABLES
  exists,   \* sites with a row
  cert,     \* the pair whose expiry the row records, or None
  due,      \* sites whose recorded expiry is within the renewal window
  last,     \* the status last written to an order of the site
  chain,    \* the pair fullchain.pem is of
  key,      \* the pair privkey.pem is of
  tls,      \* sites whose configuration refers to the two files
  served,   \* the pair nginx has loaded for the site
  email,    \* the configured address
  account,  \* the job whose account key is stored for an address
  pc,       \* where each issuance and each client is
  site,     \* its site
  paths,    \* whether the row it has read, and so what it writes, has a certificate
  old,      \* whether the configuration it has replaced did
  mail,     \* the address it has read
  acct,     \* the account key it signs with
  todo,     \* sites a renewal run still has to renew
  current,  \* the job it awaits
  fault,    \* history: what else has been at a site's files
  crashes   \* deaths so far

rowVars  == <<exists, cert, due, last>>
fileVars == <<chain, key, tls, served>>
acctVars == <<email, account>>
jobData  == <<site, mail, acct>>
confVars == <<paths, old>>
jobVars  == <<pc, jobData, confVars>>
runVars  == <<todo, current>>
vars == <<rowVars, fileVars, acctVars, jobVars, runVars, fault, crashes>>

Worker == Job \cup Client

\* The phases of update().
Saving == {"swap", "test", "settle", "reload", "row"}
Phase == {"new", "over", "register", "auto", "chain", "key", "record", "read"} \cup Saving
           \cup {"idle", "unlink", "unload", "delete"}

\* Calls that write the site's files have met, which puts no end to what they may
\* have left; or a death cut a removal short.
Fault == {"none", "apart", "contended"}

TypeOK ==
  /\ exists \subseteq Site /\ due \subseteq exists /\ tls \subseteq Site /\ todo \subseteq Site
  /\ cert \in [Site -> Job \cup {None}]
  /\ \A s \in Site : cert[s] # None => s \in exists
  /\ last \in [Site -> {"none", "pending", "success", "failed"}]
  /\ chain \in [Site -> Job \cup {None}]
  /\ key \in [Site -> Job \cup {None}]
  /\ served \in [Site -> Job \cup {None}]
  /\ email \in Email \cup {None}
  /\ account \in [Email -> Job \cup {None}]
  /\ pc \in [Worker -> Phase]
  /\ site \in [Worker -> Site \cup {None}]
  /\ paths \subseteq Worker /\ old \subseteq Worker
  /\ mail \in [Job -> Email \cup {None}]
  /\ acct \in [Job -> Job \cup {None}]
  /\ current \in Job \cup {None}
  /\ fault \in [Site -> Fault]
  /\ crashes \in 0 .. MaxCrashes

Init ==
  /\ exists = Site
  /\ cert = [s \in Site |-> None]
  /\ due = {}
  /\ last = [s \in Site |-> "none"]
  /\ chain = [s \in Site |-> None]
  /\ key = [s \in Site |-> None]
  /\ tls = {}
  /\ served = [s \in Site |-> None]
  /\ email = None
  /\ account = [e \in Email |-> None]
  /\ pc = [w \in Worker |-> IF w \in Job THEN "new" ELSE "idle"]
  /\ site = [w \in Worker |-> None]
  /\ paths = {} /\ old = {}
  /\ mail = [j \in Job |-> None]
  /\ acct = [j \in Job |-> None]
  /\ todo = {}
  /\ current = None
  /\ fault = [s \in Site |-> "none"]
  /\ crashes = 0

Busy(w) == pc[w] \notin {"new", "over", "idle"}
OnSite(s) == {w \in Worker : site[w] = s}
Free(s) == OnSite(s) = {}

\* Calls of update() and remove() on a site.
Writers(s) == {w \in OnSite(s) : w \in Client \/ pc[w] \in Saving}

Contended(s) == fault[s] = "contended"
Meet(s, met) == fault' = IF met THEN [fault EXCEPT ![s] = "contended"] ELSE fault
Mark(s, f) == fault' = [fault EXCEPT ![s] = IF @ = "contended" THEN @ ELSE f]

Goto(w, l) == pc' = [pc EXCEPT ![w] = l]

\* The row of an order goes with its site.
SetStatus(s, st) == last' = IF s \in exists THEN [last EXCEPT ![s] = st] ELSE last

-----------------------------------------------------------------------------
(* nginx.                                                                  *)

\* A configuration loads only if every pair it refers to fits together.
Loads(t) == \A s \in t : chain[s] = key[s] /\ chain[s] # None

\* A reload takes the files of all sites.
Reloaded(t) == [s \in Site |-> IF s \in t THEN chain[s] ELSE None]

\* One whose failure is only logged.
TryReload ==
  \/ Loads(tls) /\ served' = Reloaded(tls)
  \/ UNCHANGED served

-----------------------------------------------------------------------------
(* runIssuance().                                                          *)

\* The order is inserted, the address read and its account looked up.
Start(j, s) ==
  /\ pc[j] = "new"
  /\ s \in exists
  /\ IF email = None
     THEN /\ last' = [last EXCEPT ![s] = "failed"]
          /\ Goto(j, "over")
          /\ UNCHANGED <<jobData, fault>>
     ELSE /\ last' = [last EXCEPT ![s] = "pending"]
          /\ site' = [site EXCEPT ![j] = s]
          /\ mail' = [mail EXCEPT ![j] = email]
          /\ acct' = [acct EXCEPT ![j] = account[email]]
          /\ Goto(j, IF account[email] = None THEN "register" ELSE "auto")
          /\ Meet(s, OnSite(s) \cap Job # {})
  /\ UNCHANGED <<exists, cert, due, fileVars, acctVars, confVars, crashes>>

\* POST ssl/issue and ssl/renew.
Issue(j, s) == Start(j, s) /\ UNCHANGED runVars

\* Nothing is left of the local variables of the calls in W.
Forget(W) ==
  /\ pc'   = [w \in Worker |-> IF w \notin W THEN pc[w] ELSE IF w \in Job THEN "over" ELSE "idle"]
  /\ site' = [w \in Worker |-> IF w \in W THEN None ELSE site[w]]
  /\ mail' = [j \in Job |-> IF j \in W THEN None ELSE mail[j]]
  /\ acct' = [j \in Job |-> IF j \in W THEN None ELSE acct[j]]
  /\ paths' = paths \ W
  /\ old' = old \ W

\* A call is over; an issuance writes its outcome to its order.
End(w, st) ==
  /\ IF w \in Job THEN SetStatus(site[w], st) ELSE UNCHANGED last
  /\ Forget({w})
  /\ current' = IF current = w THEN None ELSE current
  /\ UNCHANGED todo

\* A mistake the checks exclude: a row that is there already is ignored, and
\* the job goes on with the key it has made.
RegisterOwnKey(j) ==
  /\ pc[j] = "register"
  /\ account' = IF account[mail[j]] = None THEN [account EXCEPT ![mail[j]] = j] ELSE account
  /\ acct' = [acct EXCEPT ![j] = j]
  /\ Goto(j, "auto")
  /\ UNCHANGED <<rowVars, runVars, fileVars, email, site, mail, confVars, fault, crashes>>

\* ensureAccount() has made a key and registered it; the insert fails when
\* another issuance has stored its own for the address.
Register(j) ==
  /\ pc[j] = "register"
  /\ IF account[mail[j]] = None
     THEN /\ account' = [account EXCEPT ![mail[j]] = j]
          /\ acct' = [acct EXCEPT ![j] = j]
          /\ Goto(j, "auto")
          /\ UNCHANGED <<last, site, mail, confVars, runVars>>
     ELSE End(j, "failed") /\ UNCHANGED account
  /\ UNCHANGED <<exists, cert, due, fileVars, email, fault, crashes>>

\* The authority signs the certificate for the key the issuance has made.
RunAutoFlow(j) ==
  /\ pc[j] = "auto"
  /\ Goto(j, "chain")
  /\ UNCHANGED <<rowVars, fileVars, acctVars, jobData, confVars, runVars, fault, crashes>>

\* writeCertFiles(): the certificate.
WriteChain(j) ==
  /\ pc[j] = "chain"
  /\ chain' = [chain EXCEPT ![site[j]] = j]
  /\ Goto(j, "key")
  /\ UNCHANGED <<rowVars, key, tls, served, acctVars, jobData, confVars, runVars, fault, crashes>>

\* writeCertFiles(): the key.
WriteKey(j) ==
  /\ pc[j] = "key"
  /\ key' = [key EXCEPT ![site[j]] = j]
  /\ Goto(j, "record")
  /\ UNCHANGED <<rowVars, chain, tls, served, acctVars, jobData, confVars, runVars, fault, crashes>>

\* A mistake the checks exclude: the certificate is put back on a row that is gone.
RecordCertAnyway(j) ==
  /\ pc[j] = "record"
  /\ cert' = [cert EXCEPT ![site[j]] = j]
  /\ due' = due \ {site[j]}
  /\ Goto(j, "read")
  /\ UNCHANGED <<exists, last, jobData, confVars, runVars, fileVars, acctVars, fault, crashes>>

\* recordCertOnSite(): the update touches no row when the site is gone.
RecordCert(j) ==
  /\ pc[j] = "record"
  /\ IF site[j] \in exists
     THEN /\ cert' = [cert EXCEPT ![site[j]] = j]
          /\ due' = due \ {site[j]}
     ELSE UNCHANGED <<cert, due>>
  /\ Goto(j, "read")
  /\ UNCHANGED <<exists, last, jobData, confVars, runVars, fileVars, acctVars, fault, crashes>>

\* regenerateConfWithCert() calls update(), which fails without a row.
ReadRow(j) ==
  /\ pc[j] = "read"
  /\ site[j] \in exists
  /\ paths' = IF cert[site[j]] # None THEN paths \cup {j} ELSE paths
  /\ Meet(site[j], Writers(site[j]) # {})
  /\ Goto(j, "swap")
  /\ UNCHANGED <<rowVars, fileVars, acctVars, jobData, old, runVars, crashes>>

-----------------------------------------------------------------------------
(* update() and remove(), of an issuance or of a client.                   *)

\* A client saves a site.
SaveSite(c, s) ==
  /\ pc[c] = "idle"
  /\ s \in exists
  /\ Meet(s, Writers(s) # {})
  /\ site' = [site EXCEPT ![c] = s]
  /\ paths' = IF cert[s] # None THEN paths \cup {c} ELSE paths
  /\ Goto(c, "swap")
  /\ UNCHANGED <<rowVars, fileVars, acctVars, mail, acct, old, runVars, crashes>>

\* The configuration rendered from the row that was read takes the place of the
\* one that is there.
Swap(w) ==
  LET s == site[w] IN
  /\ pc[w] = "swap"
  /\ tls' = IF w \in paths THEN tls \cup {s} ELSE tls \ {s}
  /\ old' = IF s \in tls THEN old \cup {w} ELSE old
  /\ Goto(w, "test")
  /\ UNCHANGED <<rowVars, chain, key, served, acctVars, jobData, paths, runVars, fault, crashes>>

\* nginx -t accepts it.
Accept(w) ==
  /\ pc[w] = "test"
  /\ Loads(tls)
  /\ Goto(w, "reload")
  /\ UNCHANGED <<rowVars, fileVars, acctVars, jobData, confVars, runVars, fault, crashes>>

\* It does not, for another site's pair perhaps: the old one is put back, if the
\* file system lets it.
Reject(w) ==
  LET s == site[w] IN
  /\ pc[w] = "test"
  /\ tls' \in {tls, IF w \in old THEN tls \cup {s} ELSE tls \ {s}}
  /\ Goto(w, "settle")
  /\ UNCHANGED <<rowVars, chain, key, served, acctVars, jobData, confVars, runVars, fault, crashes>>

\* The reload after that, whatever it answers; the call fails.
Settle(w) ==
  /\ pc[w] = "settle"
  /\ TryReload
  /\ End(w, "failed")
  /\ UNCHANGED <<exists, cert, due, chain, key, tls, acctVars, fault, crashes>>

Reload(w) ==
  /\ pc[w] = "reload"
  /\ Loads(tls)
  /\ served' = Reloaded(tls)
  /\ Goto(w, "row")
  /\ UNCHANGED <<rowVars, chain, key, tls, acctVars, jobData, confVars, runVars, fault, crashes>>

\* The row, unless it is gone, and with it the outcome of an issuance.
Finish(w) ==
  LET s == site[w] IN
  /\ pc[w] = "row"
  /\ IF s \in exists
     THEN End(w, "success") /\ Mark(s, "none")
     ELSE End(w, "failed") /\ UNCHANGED fault
  /\ UNCHANGED <<exists, cert, due, fileVars, acctVars, crashes>>

\* A mistake the checks exclude: a reload that fails is only logged.
FailsUnseen(w) ==
  /\ Busy(w) /\ pc[w] \notin {"test", "settle", "row", "unload", "delete"}
  /\ IF pc[w] = "reload"
     THEN Goto(w, "row") /\ UNCHANGED <<last, jobData, confVars, runVars>>
     ELSE End(w, "failed")
  /\ UNCHANGED <<exists, cert, due, fileVars, acctVars, fault, crashes>>

\* Any of these steps fails: the order fails, what is done is done.
Fails(w) ==
  /\ Busy(w) /\ pc[w] \notin {"test", "settle", "row", "unload", "delete"}
  /\ End(w, "failed")
  /\ UNCHANGED <<exists, cert, due, fileVars, acctVars, fault, crashes>>

\* A client removes a site: the row is read, ...
RemoveSite(c, s) ==
  /\ pc[c] = "idle"
  /\ s \in exists
  /\ Meet(s, Writers(s) # {})
  /\ site' = [site EXCEPT ![c] = s]
  /\ Goto(c, "unlink")
  /\ UNCHANGED <<rowVars, fileVars, acctVars, mail, acct, confVars, runVars, crashes>>

\* ... the configuration goes, the certificate's files stay, ...
Unlink(c) ==
  /\ pc[c] = "unlink"
  /\ tls' = tls \ {site[c]}
  /\ Goto(c, "unload")
  /\ UNCHANGED <<rowVars, chain, key, served, acctVars, jobData, confVars, runVars, fault, crashes>>

\* ... nginx is reloaded, or that fails, ...
Unload(c) ==
  /\ pc[c] = "unload"
  /\ TryReload
  /\ Goto(c, "delete")
  /\ UNCHANGED <<rowVars, chain, key, tls, acctVars, jobData, confVars, runVars, fault, crashes>>

\* ... and the row goes with its orders.
Delete(c) ==
  LET s == site[c] IN
  /\ pc[c] = "delete"
  /\ exists' = exists \ {s}
  /\ cert' = [cert EXCEPT ![s] = None]
  /\ due' = due \ {s}
  /\ last' = [last EXCEPT ![s] = "none"]
  /\ Forget({c})
  /\ UNCHANGED <<fileVars, acctVars, runVars, fault, crashes>>

JobStep(j) ==
  \/ Register(j) \/ RunAutoFlow(j) \/ WriteChain(j) \/ WriteKey(j)
  \/ RecordCert(j) \/ ReadRow(j)

SiteStep(w) ==
  \/ Swap(w) \/ Accept(w) \/ Reject(w) \/ Settle(w) \/ Reload(w) \/ Finish(w) \/ Fails(w)
  \/ Unlink(w) \/ Unload(w) \/ Delete(w)

-----------------------------------------------------------------------------
(* The renewal task: one run at a time.                                    *)

SweepStart ==
  /\ todo = {} /\ current = None
  /\ due # {}
  /\ todo' = due
  /\ UNCHANGED <<rowVars, fileVars, acctVars, jobVars, current, fault, crashes>>

\* The next site is renewed, whatever became of the one before.
SweepNext(j, s) ==
  /\ current = None
  /\ s \in todo
  /\ todo' = todo \ {s}
  /\ IF s \in exists
     THEN Start(j, s) /\ current' = IF email = None THEN None ELSE j
     ELSE UNCHANGED <<rowVars, fileVars, acctVars, jobVars, current, fault, crashes>>

-----------------------------------------------------------------------------
(* The rest of the panel, the clock and deaths.                            *)

\* PUT of the settings.
SetEmail(e) ==
  /\ email # e
  /\ email' = e
  /\ UNCHANGED <<rowVars, fileVars, account, jobVars, runVars, fault, crashes>>

\* A recorded expiry comes near.
Expire(s) ==
  /\ s \in exists \ due /\ cert[s] # None
  /\ due' = due \cup {s}
  /\ UNCHANGED <<exists, cert, last, fileVars, acctVars, jobVars, runVars, fault, crashes>>

\* The process dies; nothing takes up a pending order or a removal again.
Crash ==
  /\ crashes < MaxCrashes
  /\ crashes' = crashes + 1
  /\ Forget({w \in Worker : Busy(w)})
  /\ todo' = {} /\ current' = None
  /\ fault' = [s \in Site |->
       IF ~Contended(s) /\ \E c \in OnSite(s) : pc[c] \in {"unload", "delete"}
       THEN "apart" ELSE fault[s]]
  /\ UNCHANGED <<rowVars, fileVars, acctVars>>

Next ==
  \/ \E j \in Job, s \in Site : Issue(j, s) \/ SweepNext(j, s)
  \/ \E j \in Job : JobStep(j)
  \/ \E w \in Worker : SiteStep(w)
  \/ SweepStart
  \/ \E c \in Client, s \in Site : SaveSite(c, s) \/ RemoveSite(c, s)
  \/ \E s \in Site : Expire(s)
  \/ \E e \in Email \cup {None} : SetEmail(e)
  \/ Crash

Spec == Init /\ [][Next]_vars

-----------------------------------------------------------------------------
(* Properties.                                                             *)

\* One pair for the row, the files, the configuration and nginx.
Served(s) ==
  /\ cert[s] # None /\ s \in tls
  /\ chain[s] = cert[s] /\ key[s] = cert[s] /\ served[s] = cert[s]

\* When no call is at work on a site and its last order says success, the
\* certificate the row describes, the two files and what nginx serves are one and
\* the same pair, whatever happened to other sites, with a torn pair of theirs in
\* every validation, and whenever the process died (runIssuance 200-234,
\* writeCertFiles, recordCertOnSite, SitesService.update and remove).  Set apart
\* are the sites on which two issuances, or two writers of the configuration, have
\* met, for good, and those with a removal a death cut short, until a save.
SuccessIsServed ==
  \A s \in exists : fault[s] = "none" /\ Free(s) /\ last[s] = "success" => Served(s)

\* The same of the sites set apart: a save that has read the row before the
\* certificate was recorded puts its configuration in the place of the issuance's.
SuccessIsServedAnyway ==
  \A s \in exists : Free(s) /\ last[s] = "success" => Served(s)

\* No certificate is asked for under an account key that the panel has not
\* stored, two first issuances for one address included (ensureAccount 45-87).
AccountKeyStored ==
  \A j \in Job : Busy(j) /\ pc[j] # "register" =>
    acct[j] # None /\ acct[j] = account[mail[j]]
=============================================================================
