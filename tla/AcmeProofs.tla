----------------------------- MODULE AcmeProofs -----------------------------
(***************************************************************************)
(* For all sites, addresses and any number of issuances, saves, removals   *)
(* and deaths, whichever of them overlap: an issuance signs with the       *)
(* stored account key, and a site whose last order succeeded is served the *)
(* certificate its row describes unless calls have met on it.              *)
(***************************************************************************)
EXTENDS Acme, TLAPS

\* A call works on one site, an issuance also with one address, from its start
\* to its end.
CallInv ==
  /\ \A w \in Worker : Busy(w) <=> site[w] # None
  /\ \A j \in Job : /\ Busy(j) => mail[j] # None
                    /\ pc[j] \notin {"idle", "unlink", "unload", "delete"}
  /\ \A c \in Client : pc[c] \in {"idle", "unlink", "unload", "delete"} \cup Saving

\* What holds of any calls.
JobsInv == TypeOK /\ CallInv /\ AccountKeyStored

\* Issuances of one site, and writers of its configuration, have not met unless
\* that is on record.
OwnSite ==
  \A i, j \in Job : Busy(j) /\ i # j /\ site[i] = site[j] => Contended(site[j])

OwnConf ==
  \A v, w \in Worker : Busy(w) /\ v # w /\ {v, w} \subseteq Writers(site[w]) => Contended(site[w])

\* While an issuance works on a site, the order of the site is not the finished
\* one, and the files, the row, the configuration and nginx are as far as the
\* phase says.
Progress ==
  \A j \in Job : LET s == site[j] IN Busy(j) => Contended(s) \/
    /\ last[s] # "success"
    /\ pc[j] \in {"key", "record", "read"} \cup Saving => chain[s] = j
    /\ pc[j] \in {"record", "read"} \cup Saving => key[s] = j
    /\ pc[j] \in {"read"} \cup Saving /\ s \in exists => cert[s] = j
    /\ pc[j] \in Saving => s \in exists
    /\ pc[j] = "swap" => j \in paths
    /\ pc[j] \in {"test", "reload", "row"} => s \in tls
    /\ pc[j] = "row" => served[s] = j

\* A save keeps to the certificate of a site whose order has succeeded.
SaveInv ==
  \A c \in Client : LET s == site[c] IN Busy(c) => Contended(s) \/
    /\ s \in exists
    /\ last[s] = "success" =>
         /\ pc[c] = "swap" => c \in paths
         /\ pc[c] = "test" /\ fault[s] = "none" => c \in old
         /\ pc[c] \in {"test", "reload", "row"} => s \in tls
         /\ pc[c] = "row" => served[s] = chain[s]

\* After a success the row and the files are of one pair ...
FilesMatch ==
  \A s \in exists : ~Contended(s) /\ last[s] = "success" =>
    cert[s] # None /\ chain[s] = cert[s] /\ key[s] = cert[s]

\* ... and nginx has it, unless a removal has begun.
ConfMatches ==
  \A s \in exists : fault[s] = "none" /\ last[s] = "success" =>
    \/ \E c \in OnSite(s) : pc[c] \in {"unload", "delete"}
    \/ s \in tls /\ served[s] = cert[s]

IInv == JobsInv /\ OwnSite /\ OwnConf /\ Progress /\ SaveInv /\ FilesMatch /\ ConfMatches

\* It holds at the start.
LEMMA InitInv == Init => IInv
<1> USE AcmeAssumption DEF Init, Worker, Busy, Saving
<1>1. Init => TypeOK
  BY DEF TypeOK, Phase, Fault
<1>2. Init => CallInv /\ AccountKeyStored /\ OwnSite
  BY DEF CallInv, AccountKeyStored, OwnSite
<1>3. Init => OwnConf /\ Progress /\ SaveInv
  BY DEF OwnConf, Progress, SaveInv
<1>4. Init => FilesMatch /\ ConfMatches
  BY DEF FilesMatch, ConfMatches
<1> QED BY <1>1, <1>2, <1>3, <1>4 DEF IInv, JobsInv

\* The type invariant is inductive.
LEMMA TypeStep == IInv /\ [Next]_vars => TypeOK'
<1> SUFFICES ASSUME TypeOK, CallInv, [Next]_vars PROVE TypeOK'
  BY DEF IInv, JobsInv
<1> USE AcmeAssumption DEF TypeOK, Phase, CallInv, Worker, Saving, Busy, Goto, Contended, Fault,
       rowVars, fileVars, acctVars, jobData, confVars, jobVars, runVars
<1>1. ASSUME NEW j \in Job, NEW s \in Site, Start(j, s),
             todo' \subseteq Site, current' \in Job \cup {None}
      PROVE  TypeOK'
  BY <1>1 DEF Start, Meet
<1>2. ASSUME NEW j \in Job, NEW s \in Site, Issue(j, s) PROVE TypeOK'
  BY <1>1, <1>2 DEF Issue
<1>3. ASSUME NEW j \in Job, NEW s \in Site, SweepNext(j, s) PROVE TypeOK'
  <2>1. CASE s \in exists
    BY <1>1, <1>3, <2>1 DEF SweepNext
  <2>2. CASE s \notin exists
    BY <1>3, <2>2 DEF SweepNext
  <2> QED BY <2>1, <2>2
<1>4. ASSUME NEW j \in Job, JobStep(j) PROVE TypeOK'
  <2>1. CASE Register(j)
    BY <2>1 DEF Register, End, Forget, SetStatus
  <2>2. CASE RunAutoFlow(j) \/ WriteChain(j) \/ WriteKey(j)
    BY <2>2 DEF RunAutoFlow, WriteChain, WriteKey
  <2>3. CASE RecordCert(j) \/ ReadRow(j)
    BY <2>3 DEF RecordCert, ReadRow, Meet
  <2> QED BY <1>4, <2>1, <2>2, <2>3 DEF JobStep
<1>5. ASSUME NEW w \in Worker, SiteStep(w) PROVE TypeOK'
  <2>1. CASE Swap(w) \/ Accept(w) \/ Reject(w)
    BY <2>1 DEF Swap, Accept, Reject
  <2>2. CASE Settle(w) \/ Reload(w)
    BY <2>2 DEF Settle, Reload, End, Forget, SetStatus, TryReload, Reloaded, Loads
  <2>3. CASE Finish(w) \/ Fails(w)
    BY <2>3 DEF Finish, Fails, End, Forget, SetStatus, Mark
  <2>4. CASE Unlink(w) \/ Unload(w) \/ Delete(w)
    BY <2>4 DEF Unlink, Unload, Delete, Forget, TryReload, Reloaded, Loads
  <2> QED BY <1>5, <2>1, <2>2, <2>3, <2>4 DEF SiteStep
<1>6. ASSUME NEW c \in Client, NEW s \in Site, SaveSite(c, s) \/ RemoveSite(c, s) PROVE TypeOK'
  BY <1>6 DEF SaveSite, RemoveSite, Meet
<1>7. ASSUME NEW s \in Site, Expire(s) PROVE TypeOK'
  BY <1>7 DEF Expire
<1>8. ASSUME NEW e \in Email \cup {None}, SetEmail(e) PROVE TypeOK'
  BY <1>8 DEF SetEmail
<1>9. CASE Crash
  BY <1>9 DEF Crash, Forget
<1>10. CASE SweepStart \/ UNCHANGED vars
  BY <1>10 DEF SweepStart, vars
<1> HIDE DEF TypeOK
<1> QED BY <1>2, <1>3, <1>4, <1>5, <1>6, <1>7, <1>8, <1>9, <1>10 DEF Next

\* A call keeps to its site and address.
LEMMA CallStep == IInv /\ [Next]_vars => CallInv'
<1> SUFFICES ASSUME TypeOK, CallInv, [Next]_vars PROVE CallInv'
  BY DEF IInv, JobsInv
<1> USE AcmeAssumption DEF CallInv, TypeOK, Worker, Saving, Busy, Goto, Contended, Fault,
       rowVars, fileVars, acctVars, jobData, confVars, jobVars, runVars
<1>1. ASSUME NEW j \in Job, NEW s \in Site, Start(j, s),
             todo' \subseteq Site, current' \in Job \cup {None}
      PROVE  CallInv'
  BY <1>1 DEF Start, Meet
<1>2. ASSUME NEW j \in Job, NEW s \in Site, Issue(j, s) PROVE CallInv'
  BY <1>1, <1>2 DEF Issue
<1>3. ASSUME NEW j \in Job, NEW s \in Site, SweepNext(j, s) PROVE CallInv'
  <2>1. CASE s \in exists
    BY <1>1, <1>3, <2>1 DEF SweepNext
  <2>2. CASE s \notin exists
    BY <1>3, <2>2 DEF SweepNext
  <2> QED BY <2>1, <2>2
<1>4. ASSUME NEW j \in Job, JobStep(j) PROVE CallInv'
  <2>1. CASE Register(j)
    BY <2>1 DEF Register, End, Forget, SetStatus
  <2>2. CASE RunAutoFlow(j) \/ WriteChain(j) \/ WriteKey(j)
    BY <2>2 DEF RunAutoFlow, WriteChain, WriteKey
  <2>3. CASE RecordCert(j) \/ ReadRow(j)
    BY <2>3 DEF RecordCert, ReadRow, Meet
  <2> QED BY <1>4, <2>1, <2>2, <2>3 DEF JobStep
<1>5. ASSUME NEW w \in Worker, SiteStep(w) PROVE CallInv'
  <2>1. CASE Swap(w) \/ Accept(w) \/ Reject(w)
    BY <2>1 DEF Swap, Accept, Reject
  <2>2. CASE Settle(w) \/ Reload(w)
    BY <2>2 DEF Settle, Reload, End, Forget, SetStatus, TryReload, Reloaded, Loads
  <2>3. CASE Finish(w) \/ Fails(w)
    BY <2>3 DEF Finish, Fails, End, Forget, SetStatus, Mark
  <2>4. CASE Unlink(w) \/ Unload(w) \/ Delete(w)
    BY <2>4 DEF Unlink, Unload, Delete, Forget, TryReload, Reloaded, Loads
  <2> QED BY <1>5, <2>1, <2>2, <2>3, <2>4 DEF SiteStep
<1>6. ASSUME NEW c \in Client, NEW s \in Site, SaveSite(c, s) \/ RemoveSite(c, s) PROVE CallInv'
  BY <1>6 DEF SaveSite, RemoveSite, Meet
<1>7. ASSUME NEW s \in Site, Expire(s) PROVE CallInv'
  BY <1>7 DEF Expire
<1>8. ASSUME NEW e \in Email \cup {None}, SetEmail(e) PROVE CallInv'
  BY <1>8 DEF SetEmail
<1>9. CASE Crash
  BY <1>9 DEF Crash, Forget
<1>10. CASE SweepStart \/ UNCHANGED vars
  BY <1>10 DEF SweepStart, vars
<1> HIDE DEF CallInv
<1> QED BY <1>2, <1>3, <1>4, <1>5, <1>6, <1>7, <1>8, <1>9, <1>10 DEF Next

\* An account key is stored once and for all.
LEMMA AccountStep == IInv /\ [Next]_vars => AccountKeyStored'
<1> SUFFICES ASSUME TypeOK, CallInv, AccountKeyStored, [Next]_vars PROVE AccountKeyStored'
  BY DEF IInv, JobsInv
<1> USE AcmeAssumption DEF AccountKeyStored, TypeOK, CallInv, Worker, Saving, Busy, Goto, Contended, Fault,
       rowVars, fileVars, acctVars, jobData, confVars, jobVars, runVars
<1>1. ASSUME NEW j \in Job, NEW s \in Site, Start(j, s),
             todo' \subseteq Site, current' \in Job \cup {None}
      PROVE  AccountKeyStored'
  BY <1>1 DEF Start, Meet
<1>2. ASSUME NEW j \in Job, NEW s \in Site, Issue(j, s) PROVE AccountKeyStored'
  BY <1>1, <1>2 DEF Issue
<1>3. ASSUME NEW j \in Job, NEW s \in Site, SweepNext(j, s) PROVE AccountKeyStored'
  <2>1. CASE s \in exists
    BY <1>1, <1>3, <2>1 DEF SweepNext
  <2>2. CASE s \notin exists
    BY <1>3, <2>2 DEF SweepNext
  <2> QED BY <2>1, <2>2
<1>4. ASSUME NEW j \in Job, JobStep(j) PROVE AccountKeyStored'
  <2>1. CASE Register(j)
    BY <2>1 DEF Register, End, Forget, SetStatus
  <2>2. CASE RunAutoFlow(j) \/ WriteChain(j) \/ WriteKey(j)
    BY <2>2 DEF RunAutoFlow, WriteChain, WriteKey
  <2>3. CASE RecordCert(j) \/ ReadRow(j)
    BY <2>3 DEF RecordCert, ReadRow, Meet
  <2> QED BY <1>4, <2>1, <2>2, <2>3 DEF JobStep
<1>5. ASSUME NEW w \in Worker, SiteStep(w) PROVE AccountKeyStored'
  <2>1. CASE Swap(w) \/ Accept(w) \/ Reject(w)
    BY <2>1 DEF Swap, Accept, Reject
  <2>2. CASE Settle(w) \/ Reload(w)
    BY <2>2 DEF Settle, Reload, End, Forget, SetStatus, TryReload, Reloaded, Loads
  <2>3. CASE Finish(w) \/ Fails(w)
    BY <2>3 DEF Finish, Fails, End, Forget, SetStatus, Mark
  <2>4. CASE Unlink(w) \/ Unload(w) \/ Delete(w)
    BY <2>4 DEF Unlink, Unload, Delete, Forget, TryReload, Reloaded, Loads
  <2> QED BY <1>5, <2>1, <2>2, <2>3, <2>4 DEF SiteStep
<1>6. ASSUME NEW c \in Client, NEW s \in Site, SaveSite(c, s) \/ RemoveSite(c, s) PROVE AccountKeyStored'
  BY <1>6 DEF SaveSite, RemoveSite, Meet
<1>7. ASSUME NEW s \in Site, Expire(s) PROVE AccountKeyStored'
  BY <1>7 DEF Expire
<1>8. ASSUME NEW e \in Email \cup {None}, SetEmail(e) PROVE AccountKeyStored'
  BY <1>8 DEF SetEmail
<1>9. CASE Crash
  BY <1>9 DEF Crash, Forget
<1>10. CASE SweepStart \/ UNCHANGED vars
  BY <1>10 DEF SweepStart, vars
<1> HIDE DEF AccountKeyStored
<1> QED BY <1>2, <1>3, <1>4, <1>5, <1>6, <1>7, <1>8, <1>9, <1>10 DEF Next

\* Issuances that meet are on record.
LEMMA OwnSiteStep == IInv /\ [Next]_vars => OwnSite'
<1> SUFFICES ASSUME TypeOK, CallInv, OwnSite, [Next]_vars PROVE OwnSite'
  BY DEF IInv, JobsInv
<1> USE AcmeAssumption DEF OwnSite, TypeOK, CallInv, OnSite, Worker, Saving, Busy, Goto, Contended, Fault,
       rowVars, fileVars, acctVars, jobData, confVars, jobVars, runVars
<1>1. ASSUME NEW j \in Job, NEW s \in Site, Start(j, s),
             todo' \subseteq Site, current' \in Job \cup {None}
      PROVE  OwnSite'
  BY <1>1 DEF Start, Meet
<1>2. ASSUME NEW j \in Job, NEW s \in Site, Issue(j, s) PROVE OwnSite'
  BY <1>1, <1>2 DEF Issue
<1>3. ASSUME NEW j \in Job, NEW s \in Site, SweepNext(j, s) PROVE OwnSite'
  <2>1. CASE s \in exists
    BY <1>1, <1>3, <2>1 DEF SweepNext
  <2>2. CASE s \notin exists
    BY <1>3, <2>2 DEF SweepNext
  <2> QED BY <2>1, <2>2
<1>4. ASSUME NEW j \in Job, JobStep(j) PROVE OwnSite'
  <2>1. CASE Register(j)
    BY <2>1 DEF Register, End, Forget, SetStatus
  <2>2. CASE RunAutoFlow(j) \/ WriteChain(j) \/ WriteKey(j)
    BY <2>2 DEF RunAutoFlow, WriteChain, WriteKey
  <2>3. CASE RecordCert(j) \/ ReadRow(j)
    BY <2>3 DEF RecordCert, ReadRow, Meet
  <2> QED BY <1>4, <2>1, <2>2, <2>3 DEF JobStep
<1>5. ASSUME NEW w \in Worker, SiteStep(w) PROVE OwnSite'
  <2>1. CASE Swap(w) \/ Accept(w) \/ Reject(w)
    BY <2>1 DEF Swap, Accept, Reject
  <2>2. CASE Settle(w) \/ Reload(w)
    BY <2>2 DEF Settle, Reload, End, Forget, SetStatus, TryReload, Reloaded, Loads
  <2>3. CASE Finish(w) \/ Fails(w)
    BY <2>3 DEF Finish, Fails, End, Forget, SetStatus, Mark
  <2>4. CASE Unlink(w) \/ Unload(w) \/ Delete(w)
    BY <2>4 DEF Unlink, Unload, Delete, Forget, TryReload, Reloaded, Loads
  <2> QED BY <1>5, <2>1, <2>2, <2>3, <2>4 DEF SiteStep
<1>6. ASSUME NEW c \in Client, NEW s \in Site, SaveSite(c, s) \/ RemoveSite(c, s) PROVE OwnSite'
  BY <1>6 DEF SaveSite, RemoveSite, Meet
<1>7. ASSUME NEW s \in Site, Expire(s) PROVE OwnSite'
  BY <1>7 DEF Expire
<1>8. ASSUME NEW e \in Email \cup {None}, SetEmail(e) PROVE OwnSite'
  BY <1>8 DEF SetEmail
<1>9. CASE Crash
  BY <1>9 DEF Crash, Forget
<1>10. CASE SweepStart \/ UNCHANGED vars
  BY <1>10 DEF SweepStart, vars
<1> HIDE DEF OwnSite
<1> QED BY <1>2, <1>3, <1>4, <1>5, <1>6, <1>7, <1>8, <1>9, <1>10 DEF Next

\* So are writers of a configuration.
LEMMA OwnConfStep == IInv /\ [Next]_vars => OwnConf'
<1> SUFFICES ASSUME TypeOK, CallInv, OwnConf, [Next]_vars PROVE OwnConf'
  BY DEF IInv, JobsInv
<1> USE AcmeAssumption DEF OwnConf, TypeOK, CallInv, Writers, OnSite, Worker, Saving, Busy, Goto, Contended, Fault,
       rowVars, fileVars, acctVars, jobData, confVars, jobVars, runVars
<1>1. ASSUME NEW j \in Job, NEW s \in Site, Start(j, s),
             todo' \subseteq Site, current' \in Job \cup {None}
      PROVE  OwnConf'
  BY <1>1 DEF Start, Meet
<1>2. ASSUME NEW j \in Job, NEW s \in Site, Issue(j, s) PROVE OwnConf'
  BY <1>1, <1>2 DEF Issue
<1>3. ASSUME NEW j \in Job, NEW s \in Site, SweepNext(j, s) PROVE OwnConf'
  <2>1. CASE s \in exists
    BY <1>1, <1>3, <2>1 DEF SweepNext
  <2>2. CASE s \notin exists
    BY <1>3, <2>2 DEF SweepNext
  <2> QED BY <2>1, <2>2
<1>4. ASSUME NEW j \in Job, JobStep(j) PROVE OwnConf'
  <2>1. CASE Register(j)
    BY <2>1 DEF Register, End, Forget, SetStatus
  <2>2. CASE RunAutoFlow(j) \/ WriteChain(j) \/ WriteKey(j)
    BY <2>2 DEF RunAutoFlow, WriteChain, WriteKey
  <2>3. CASE RecordCert(j) \/ ReadRow(j)
    BY <2>3 DEF RecordCert, ReadRow, Meet
  <2> QED BY <1>4, <2>1, <2>2, <2>3 DEF JobStep
<1>5. ASSUME NEW w \in Worker, SiteStep(w) PROVE OwnConf'
  <2>1. CASE Swap(w) \/ Accept(w) \/ Reject(w)
    BY <2>1 DEF Swap, Accept, Reject
  <2>2. CASE Settle(w) \/ Reload(w)
    BY <2>2 DEF Settle, Reload, End, Forget, SetStatus, TryReload, Reloaded, Loads
  <2>3. CASE Finish(w) \/ Fails(w)
    BY <2>3 DEF Finish, Fails, End, Forget, SetStatus, Mark
  <2>4. CASE Unlink(w) \/ Unload(w) \/ Delete(w)
    BY <2>4 DEF Unlink, Unload, Delete, Forget, TryReload, Reloaded, Loads
  <2> QED BY <1>5, <2>1, <2>2, <2>3, <2>4 DEF SiteStep
<1>6. ASSUME NEW c \in Client, NEW s \in Site, SaveSite(c, s) \/ RemoveSite(c, s) PROVE OwnConf'
  BY <1>6 DEF SaveSite, RemoveSite, Meet
<1>7. ASSUME NEW s \in Site, Expire(s) PROVE OwnConf'
  BY <1>7 DEF Expire
<1>8. ASSUME NEW e \in Email \cup {None}, SetEmail(e) PROVE OwnConf'
  BY <1>8 DEF SetEmail
<1>9. CASE Crash
  BY <1>9 DEF Crash, Forget
<1>10. CASE SweepStart \/ UNCHANGED vars
  BY <1>10 DEF SweepStart, vars
<1> HIDE DEF OwnConf
<1> QED BY <1>2, <1>3, <1>4, <1>5, <1>6, <1>7, <1>8, <1>9, <1>10 DEF Next

\* The files, row and configuration of a site move with the issuance that has it.
LEMMA ProgressStep == IInv /\ [Next]_vars => Progress'
<1> SUFFICES ASSUME TypeOK, CallInv, OwnSite, OwnConf, Progress, [Next]_vars PROVE Progress'
  BY DEF IInv, JobsInv
<1> USE AcmeAssumption DEF Progress, TypeOK, CallInv, OwnSite, OwnConf, Writers, OnSite, Worker, Saving, Busy, Goto, Contended, Fault,
       rowVars, fileVars, acctVars, jobData, confVars, jobVars, runVars
<1>1. ASSUME NEW j \in Job, NEW s \in Site, Start(j, s),
             todo' \subseteq Site, current' \in Job \cup {None}
      PROVE  Progress'
  BY <1>1 DEF Start, Meet
<1>2. ASSUME NEW j \in Job, NEW s \in Site, Issue(j, s) PROVE Progress'
  BY <1>1, <1>2 DEF Issue
<1>3. ASSUME NEW j \in Job, NEW s \in Site, SweepNext(j, s) PROVE Progress'
  <2>1. CASE s \in exists
    BY <1>1, <1>3, <2>1 DEF SweepNext
  <2>2. CASE s \notin exists
    BY <1>3, <2>2 DEF SweepNext
  <2> QED BY <2>1, <2>2
<1>4. ASSUME NEW j \in Job, JobStep(j) PROVE Progress'
  <2>1. CASE Register(j)
    BY <2>1 DEF Register, End, Forget, SetStatus
  <2>2. CASE RunAutoFlow(j) \/ WriteChain(j) \/ WriteKey(j)
    BY <2>2 DEF RunAutoFlow, WriteChain, WriteKey
  <2>3. CASE RecordCert(j) \/ ReadRow(j)
    BY <2>3 DEF RecordCert, ReadRow, Meet
  <2> QED BY <1>4, <2>1, <2>2, <2>3 DEF JobStep
<1>5. ASSUME NEW w \in Worker, SiteStep(w) PROVE Progress'
  <2>1. CASE Swap(w) \/ Accept(w) \/ Reject(w)
    BY <2>1 DEF Swap, Accept, Reject
  <2>2. CASE Settle(w) \/ Reload(w)
    BY <2>2 DEF Settle, Reload, End, Forget, SetStatus, TryReload, Reloaded, Loads
  <2>3. CASE Finish(w) \/ Fails(w)
    BY <2>3 DEF Finish, Fails, End, Forget, SetStatus, Mark
  <2>4. CASE Unlink(w) \/ Unload(w) \/ Delete(w)
    BY <2>4 DEF Unlink, Unload, Delete, Forget, TryReload, Reloaded, Loads
  <2> QED BY <1>5, <2>1, <2>2, <2>3, <2>4 DEF SiteStep
<1>6. ASSUME NEW c \in Client, NEW s \in Site, SaveSite(c, s) \/ RemoveSite(c, s) PROVE Progress'
  BY <1>6 DEF SaveSite, RemoveSite, Meet
<1>7. ASSUME NEW s \in Site, Expire(s) PROVE Progress'
  BY <1>7 DEF Expire
<1>8. ASSUME NEW e \in Email \cup {None}, SetEmail(e) PROVE Progress'
  BY <1>8 DEF SetEmail
<1>9. CASE Crash
  BY <1>9 DEF Crash, Forget
<1>10. CASE SweepStart \/ UNCHANGED vars
  BY <1>10 DEF SweepStart, vars
<1> HIDE DEF Progress
<1> QED BY <1>2, <1>3, <1>4, <1>5, <1>6, <1>7, <1>8, <1>9, <1>10 DEF Next

\* A save writes what it has read.
LEMMA SaveStep == IInv /\ [Next]_vars => SaveInv'
<1> SUFFICES ASSUME TypeOK, CallInv, OwnConf, Progress, SaveInv, FilesMatch, ConfMatches, [Next]_vars PROVE SaveInv'
  BY DEF IInv, JobsInv
<1> USE AcmeAssumption DEF SaveInv, TypeOK, CallInv, OwnConf, Progress, FilesMatch, ConfMatches, Writers, OnSite, Worker, Saving, Busy, Goto, Contended, Fault,
       rowVars, fileVars, acctVars, jobData, confVars, jobVars, runVars
<1>1. ASSUME NEW j \in Job, NEW s \in Site, Start(j, s),
             todo' \subseteq Site, current' \in Job \cup {None}
      PROVE  SaveInv'
  BY <1>1 DEF Start, Meet
<1>2. ASSUME NEW j \in Job, NEW s \in Site, Issue(j, s) PROVE SaveInv'
  BY <1>1, <1>2 DEF Issue
<1>3. ASSUME NEW j \in Job, NEW s \in Site, SweepNext(j, s) PROVE SaveInv'
  <2>1. CASE s \in exists
    BY <1>1, <1>3, <2>1 DEF SweepNext
  <2>2. CASE s \notin exists
    BY <1>3, <2>2 DEF SweepNext
  <2> QED BY <2>1, <2>2
<1>4. ASSUME NEW j \in Job, JobStep(j) PROVE SaveInv'
  <2>1. CASE Register(j)
    BY <2>1 DEF Register, End, Forget, SetStatus
  <2>2. CASE RunAutoFlow(j) \/ WriteChain(j) \/ WriteKey(j)
    BY <2>2 DEF RunAutoFlow, WriteChain, WriteKey
  <2>3. CASE RecordCert(j) \/ ReadRow(j)
    BY <2>3 DEF RecordCert, ReadRow, Meet
  <2> QED BY <1>4, <2>1, <2>2, <2>3 DEF JobStep
<1>5. ASSUME NEW w \in Worker, SiteStep(w) PROVE SaveInv'
  <2>1. CASE Swap(w) \/ Accept(w) \/ Reject(w)
    BY <2>1 DEF Swap, Accept, Reject
  <2>2. CASE Settle(w) \/ Reload(w)
    BY <2>2 DEF Settle, Reload, End, Forget, SetStatus, TryReload, Reloaded, Loads
  <2>3. CASE Finish(w) \/ Fails(w)
    BY <2>3 DEF Finish, Fails, End, Forget, SetStatus, Mark
  <2>4. CASE Unlink(w) \/ Unload(w) \/ Delete(w)
    BY <2>4 DEF Unlink, Unload, Delete, Forget, TryReload, Reloaded, Loads
  <2> QED BY <1>5, <2>1, <2>2, <2>3, <2>4 DEF SiteStep
<1>6. ASSUME NEW c \in Client, NEW s \in Site, SaveSite(c, s) \/ RemoveSite(c, s) PROVE SaveInv'
  BY <1>6 DEF SaveSite, RemoveSite, Meet
<1>7. ASSUME NEW s \in Site, Expire(s) PROVE SaveInv'
  BY <1>7 DEF Expire
<1>8. ASSUME NEW e \in Email \cup {None}, SetEmail(e) PROVE SaveInv'
  BY <1>8 DEF SetEmail
<1>9. CASE Crash
  BY <1>9 DEF Crash, Forget
<1>10. CASE SweepStart \/ UNCHANGED vars
  BY <1>10 DEF SweepStart, vars
<1> HIDE DEF SaveInv
<1> QED BY <1>2, <1>3, <1>4, <1>5, <1>6, <1>7, <1>8, <1>9, <1>10 DEF Next

\* Between issuances nothing touches a pair.
LEMMA FilesStep == IInv /\ [Next]_vars => FilesMatch'
<1> SUFFICES ASSUME TypeOK, CallInv, Progress, FilesMatch, [Next]_vars PROVE FilesMatch'
  BY DEF IInv, JobsInv
<1> USE AcmeAssumption DEF FilesMatch, TypeOK, CallInv, Progress, Worker, Saving, Busy, Goto, Contended, Fault,
       rowVars, fileVars, acctVars, jobData, confVars, jobVars, runVars
<1>1. ASSUME NEW j \in Job, NEW s \in Site, Start(j, s),
             todo' \subseteq Site, current' \in Job \cup {None}
      PROVE  FilesMatch'
  BY <1>1 DEF Start, Meet
<1>2. ASSUME NEW j \in Job, NEW s \in Site, Issue(j, s) PROVE FilesMatch'
  BY <1>1, <1>2 DEF Issue
<1>3. ASSUME NEW j \in Job, NEW s \in Site, SweepNext(j, s) PROVE FilesMatch'
  <2>1. CASE s \in exists
    BY <1>1, <1>3, <2>1 DEF SweepNext
  <2>2. CASE s \notin exists
    BY <1>3, <2>2 DEF SweepNext
  <2> QED BY <2>1, <2>2
<1>4. ASSUME NEW j \in Job, JobStep(j) PROVE FilesMatch'
  <2>1. CASE Register(j)
    BY <2>1 DEF Register, End, Forget, SetStatus
  <2>2. CASE RunAutoFlow(j) \/ WriteChain(j) \/ WriteKey(j)
    BY <2>2 DEF RunAutoFlow, WriteChain, WriteKey
  <2>3. CASE RecordCert(j) \/ ReadRow(j)
    BY <2>3 DEF RecordCert, ReadRow, Meet
  <2> QED BY <1>4, <2>1, <2>2, <2>3 DEF JobStep
<1>5. ASSUME NEW w \in Worker, SiteStep(w) PROVE FilesMatch'
  <2>1. CASE Swap(w) \/ Accept(w) \/ Reject(w)
    BY <2>1 DEF Swap, Accept, Reject
  <2>2. CASE Settle(w) \/ Reload(w)
    BY <2>2 DEF Settle, Reload, End, Forget, SetStatus, TryReload, Reloaded, Loads
  <2>3. CASE Finish(w) \/ Fails(w)
    BY <2>3 DEF Finish, Fails, End, Forget, SetStatus, Mark
  <2>4. CASE Unlink(w) \/ Unload(w) \/ Delete(w)
    BY <2>4 DEF Unlink, Unload, Delete, Forget, TryReload, Reloaded, Loads
  <2> QED BY <1>5, <2>1, <2>2, <2>3, <2>4 DEF SiteStep
<1>6. ASSUME NEW c \in Client, NEW s \in Site, SaveSite(c, s) \/ RemoveSite(c, s) PROVE FilesMatch'
  BY <1>6 DEF SaveSite, RemoveSite, Meet
<1>7. ASSUME NEW s \in Site, Expire(s) PROVE FilesMatch'
  BY <1>7 DEF Expire
<1>8. ASSUME NEW e \in Email \cup {None}, SetEmail(e) PROVE FilesMatch'
  BY <1>8 DEF SetEmail
<1>9. CASE Crash
  BY <1>9 DEF Crash, Forget
<1>10. CASE SweepStart \/ UNCHANGED vars
  BY <1>10 DEF SweepStart, vars
<1> HIDE DEF FilesMatch
<1> QED BY <1>2, <1>3, <1>4, <1>5, <1>6, <1>7, <1>8, <1>9, <1>10 DEF Next

\* A reload gives nginx the pair that is on disk.
LEMMA ConfStep == IInv /\ [Next]_vars => ConfMatches'
<1> SUFFICES ASSUME TypeOK, CallInv, OwnConf, Progress, SaveInv, FilesMatch, ConfMatches, [Next]_vars PROVE ConfMatches'
  BY DEF IInv, JobsInv
<1> USE AcmeAssumption DEF ConfMatches, TypeOK, CallInv, OwnConf, Progress, SaveInv, FilesMatch, Writers, OnSite, Worker, Saving, Busy, Goto, Contended, Fault,
       rowVars, fileVars, acctVars, jobData, confVars, jobVars, runVars
<1>1. ASSUME NEW j \in Job, NEW s \in Site, Start(j, s),
             todo' \subseteq Site, current' \in Job \cup {None}
      PROVE  ConfMatches'
  BY <1>1 DEF Start, Meet
<1>2. ASSUME NEW j \in Job, NEW s \in Site, Issue(j, s) PROVE ConfMatches'
  BY <1>1, <1>2 DEF Issue
<1>3. ASSUME NEW j \in Job, NEW s \in Site, SweepNext(j, s) PROVE ConfMatches'
  <2>1. CASE s \in exists
    BY <1>1, <1>3, <2>1 DEF SweepNext
  <2>2. CASE s \notin exists
    BY <1>3, <2>2 DEF SweepNext
  <2> QED BY <2>1, <2>2
<1>4. ASSUME NEW j \in Job, JobStep(j) PROVE ConfMatches'
  <2>1. CASE Register(j)
    BY <2>1 DEF Register, End, Forget, SetStatus
  <2>2. CASE RunAutoFlow(j) \/ WriteChain(j) \/ WriteKey(j)
    BY <2>2 DEF RunAutoFlow, WriteChain, WriteKey
  <2>3. CASE RecordCert(j) \/ ReadRow(j)
    BY <2>3 DEF RecordCert, ReadRow, Meet
  <2> QED BY <1>4, <2>1, <2>2, <2>3 DEF JobStep
<1>5. ASSUME NEW w \in Worker, SiteStep(w) PROVE ConfMatches'
  <2>1. CASE Swap(w) \/ Accept(w) \/ Reject(w)
    BY <2>1 DEF Swap, Accept, Reject
  <2>2. CASE Settle(w) \/ Reload(w)
    <3> SUFFICES ASSUME NEW s \in exists', fault'[s] = "none", last'[s] = "success",
                        \A c \in OnSite(s)' : pc'[c] \notin {"unload", "delete"}
                 PROVE  s \in tls' /\ served'[s] = cert'[s]
      OBVIOUS
    <3> USE <2>2 DEF Settle, Reload, End, Forget, SetStatus, TryReload, Reloaded, Loads
    <3>1. \A c \in OnSite(s) : pc[c] \notin {"unload", "delete"}
      OBVIOUS
    <3> QED
      BY <3>1
  <2>3. CASE Finish(w) \/ Fails(w)
    <3> SUFFICES ASSUME NEW s \in exists', fault'[s] = "none", last'[s] = "success",
                        \A c \in OnSite(s)' : pc'[c] \notin {"unload", "delete"}
                 PROVE  s \in tls' /\ served'[s] = cert'[s]
      OBVIOUS
    <3> USE <2>3 DEF Finish, Fails, End, Forget, SetStatus, Mark
    <3>1. \A c \in OnSite(s) : pc[c] \notin {"unload", "delete"}
      OBVIOUS
    <3> QED
      BY <3>1
  <2>4. CASE Unlink(w) \/ Unload(w) \/ Delete(w)
    BY <2>4 DEF Unlink, Unload, Delete, Forget, TryReload, Reloaded, Loads
  <2> QED BY <1>5, <2>1, <2>2, <2>3, <2>4 DEF SiteStep
<1>6. ASSUME NEW c \in Client, NEW s \in Site, SaveSite(c, s) \/ RemoveSite(c, s) PROVE ConfMatches'
  <2> SUFFICES ASSUME NEW z \in exists', fault'[z] = "none", last'[z] = "success",
                      \A w \in OnSite(z)' : pc'[w] \notin {"unload", "delete"}
               PROVE  z \in tls' /\ served'[z] = cert'[z]
    OBVIOUS
  <2> USE <1>6 DEF SaveSite, RemoveSite, Meet
  <2>1. z \in exists /\ fault[z] = "none" /\ last[z] = "success"
    OBVIOUS
  <2>2. ASSUME NEW w \in OnSite(z) PROVE pc[w] \notin {"unload", "delete"}
    BY <2>2
  <2> QED
    BY <2>1, <2>2
<1>7. ASSUME NEW s \in Site, Expire(s) PROVE ConfMatches'
  BY <1>7 DEF Expire
<1>8. ASSUME NEW e \in Email \cup {None}, SetEmail(e) PROVE ConfMatches'
  BY <1>8 DEF SetEmail
<1>9. CASE Crash
  BY <1>9 DEF Crash, Forget
<1>10. CASE SweepStart \/ UNCHANGED vars
  BY <1>10 DEF SweepStart, vars
<1> HIDE DEF ConfMatches
<1> QED BY <1>2, <1>3, <1>4, <1>5, <1>6, <1>7, <1>8, <1>9, <1>10 DEF Next

\* IInv holds in every reachable state.
LEMMA InductiveInvariance == Spec => []IInv
<1>1. IInv /\ [Next]_vars => IInv'
  BY TypeStep, CallStep, AccountStep, OwnSiteStep, OwnConfStep, ProgressStep, SaveStep,
     FilesStep, ConfStep DEF IInv, JobsInv
<1> QED BY <1>1, InitInv, PTL DEF Spec

\* A site whose last order succeeded is served the certificate its row
\* describes, from one key pair, in every reachable state (runIssuance 203-231),
\* as long as no two issuances and no two writers of its configuration have met on
\* it and no death has cut its removal short since its last save.
THEOREM SuccessIsServedHolds == Spec => []SuccessIsServed
<1>1. IInv => SuccessIsServed
  BY DEF IInv, FilesMatch, ConfMatches, SuccessIsServed, Served, Free, Contended
<1> QED BY <1>1, InductiveInvariance, PTL

\* No issuance signs with an account key the panel has not stored, not even when
\* issuances for one site overlap (ensureAccount 45-87).
THEOREM AccountKeyStoredHolds == Spec => []AccountKeyStored
<1>1. IInv => AccountKeyStored
  BY DEF IInv, JobsInv
<1> QED BY <1>1, InductiveInvariance, PTL

\* The variables keep their types, and a row's columns go with the row.
THEOREM TypeInvariance == Spec => []TypeOK
<1>1. IInv => TypeOK
  BY DEF IInv, JobsInv
<1> QED BY <1>1, InductiveInvariance, PTL
=============================================================================
