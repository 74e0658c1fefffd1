---------------------------- MODULE SitesProofs ----------------------------
(***************************************************************************)
(* The safety properties of Sites, for every set of sites, calls and       *)
(* configurations, any number of deaths, and calls that overlap on a site  *)
(* or do not.                                                              *)
(***************************************************************************)
EXTENDS Sites, TLAPS

\* The types are kept, whatever calls overlap.
LEMMA TypeStep == TypeOK /\ [Next]_vars => TypeOK'
<1> SUFFICES ASSUME TypeOK, [Next]_vars PROVE TypeOK'
  OBVIOUS
<1> USE SitesAssumption DEF TypeOK, File, Step, Ended, Writing, Goto, Fault, Mark,
       callVars, rowVars, fileVars, scanVars, fpmVars, timerVars, FpmTypeOK
<1>1. ASSUME NEW c \in Call, NEW s \in Site, NEW w \in Content,
             Create(c, s, w) \/ Update(c, s, w)
      PROVE  TypeOK'
  BY <1>1 DEF Create, Update, Begin
<1>2. ASSUME NEW c \in Call, NEW s \in Site, Remove(c, s) PROVE TypeOK'
  BY <1>2 DEF Remove, Begin
<1>3. ASSUME NEW c \in Call, Restart(c) PROVE TypeOK'
  BY <1>3 DEF Restart
<1>4. ASSUME NEW c \in Call, Access(c) \/ FpmStep(c) PROVE TypeOK'
  BY <1>4 DEF Access, FpmStep, Inspect, Start, Make, FpmFails, RestartBox, AfterFpm,
     ClearTimer, FindsRunning, StartBox, RestartFails, MakeBox
<1>5. ASSUME NEW c \in Call, WriteStep(c) PROVE TypeOK'
  <2>1. CASE Backup(c) \/ Write(c) \/ Swap(c)
    BY <1>5, <2>1 DEF WriteStep, Backup, Write, Swap
  <2>2. CASE WriteFails(c) \/ Accept(c) \/ Reject(c) \/ Settle(c)
    BY <1>5, <2>2 DEF WriteStep, WriteFails, Accept, Reject, Settle
  <2>3. CASE Rollback(c) \/ RollbackFails(c)
    BY <1>5, <2>3 DEF WriteStep, Rollback, RollbackFails
  <2> QED
    BY <1>5, <2>1, <2>2, <2>3 DEF WriteStep
<1>6. ASSUME NEW c \in Call, RowStep(c) PROVE TypeOK'
  <2>1. CASE Reload(c) \/ ReloadFails(c) \/ Insert(c)
    BY <1>6, <2>1 DEF RowStep, Reload, ReloadFails, Insert
  <2>2. CASE Unlink(c) \/ Unload(c)
    BY <1>6, <2>2 DEF RowStep, Unlink, Unload, ArmIdleStop
  <2> QED
    BY <1>6, <2>1, <2>2 DEF RowStep
<1>7. CASE ReconcileList \/ ReconcileApply
  BY <1>7 DEF ReconcileList, ReconcileApply
<1>8. ASSUME NEW s \in Site, Tamper(s) PROVE TypeOK'
  BY <1>8 DEF Tamper
<1>9. CASE IdleStop
  <2>1. FpmTypeOK'
    <3>1. CASE TimerFires
      <4>1. handle' \in {"null", "armed", "fired"} /\ stray' \in Nat
        BY <3>1 DEF TimerFires
      <4>2. stopping' \in Nat /\ box' = box
        BY <3>1 DEF TimerFires
      <4> QED
        BY <4>1, <4>2
    <3>2. CASE StopDone \/ StopFails
      BY <3>2 DEF StopDone, StopFails
    <3> QED
      BY <1>9, <3>1, <3>2 DEF IdleStop
  <2> QED
    BY <1>9, <2>1 DEF IdleStop, sitesVars
<1>10. CASE Crash
  <2> USE <1>10 DEF Crash, FpmDies
  <2>1. FpmTypeOK'
    OBVIOUS
  <2>2. pc' \in [Call -> Step]
    OBVIOUS
  <2>3. fault' \in [Site -> Fault] /\ crashes' \in 0 .. MaxCrashes
    OBVIOUS
  <2> QED
    BY <2>1, <2>2, <2>3
<1>11. CASE UNCHANGED vars
  BY <1>11 DEF vars, sitesVars
<1> HIDE DEF TypeOK
<1> QED
  BY <1>1, <1>2, <1>3, <1>4, <1>5, <1>6, <1>7, <1>8, <1>9, <1>10, <1>11 DEF Next

\* Where the calls begin.
LEMMA TypeInit == Init => TypeOK
<1> SUFFICES ASSUME Init PROVE TypeOK
  OBVIOUS
<1> USE SitesAssumption DEF Init, FpmInit, File, Step, Ended, Writing
<1>1. AnySite \in Site /\ AnyContent \in Content
  BY DEF AnySite, AnyContent
<1>2. FpmTypeOK
  BY DEF FpmTypeOK
<1>3. crashes \in 0 .. MaxCrashes
  OBVIOUS
<1> QED
  BY <1>1, <1>2, <1>3 DEF TypeOK, Fault

\* A call starts.
LEMMA BeginInvariance ==
  ASSUME IInv, NEW c \in Call, NEW s \in Site, NEW w \in Content,
         Create(c, s, w) \/ Update(c, s, w) \/ Remove(c, s) \/ Restart(c)
  PROVE  SiteInv'
<1> USE SitesAssumption DEF IInv, SiteInv, TypeOK, File, Step, Ended, Writing, WorksOn, Goto,
       Contended, Mark, Fault, callVars, rowVars, fileVars, scanVars
<1>0. ASSUME NEW k \in {"create", "update", "remove"}, NEW x \in Content,
             NEW l \in {"access", "backup", "unlink"},
             Begin(c, k, s, x, l),
             k = "create" => l = "access" /\ row[s] = Nothing,
             k = "update" => l = "backup" /\ row[s] # Nothing,
             k = "remove" => l = "unlink" /\ row[s] # Nothing
      PROVE  SiteInv'
  <2> USE <1>0 DEF Begin
  <2>1. CallInv'
    <3>1. CASE Busy(s)
      BY <3>1 DEF CallInv
    <3>2. CASE ~Busy(s)
      BY <3>2 DEF CallInv, Busy
    <3> QED
      BY <3>1, <3>2
  <2>2. PhaseInv'
    <3>1. CASE Busy(s)
      BY <3>1 DEF PhaseInv, CallInv
    <3>2. CASE ~Busy(s)
      <4>1. fault[s] # "none" \/ conf[s] = row[s]
        BY <3>2 DEF RowMatchesFile
      <4> QED
        BY <3>2, <4>1 DEF PhaseInv, CallInv
    <3> QED
      BY <3>1, <3>2
  <2>3. RowInv'
    BY DEF RowInv
  <2>4. RowMatchesFile'
    BY DEF RowMatchesFile, Busy, CallInv, PhaseInv
  <2>5. BadFileIsTransient'
    BY DEF BadFileIsTransient, CallInv, PhaseInv
  <2> QED
    BY <2>1, <2>2, <2>3, <2>4, <2>5
<1>1. CASE Create(c, s, w)
  BY <1>0, <1>1 DEF Create
<1>2. CASE Update(c, s, w)
  BY <1>0, <1>2 DEF Update
<1>3. CASE Remove(c, s)
  <2>1. row[s] \in Content
    BY <1>3 DEF Remove
  <2> QED
    BY <1>0, <1>3, <2>1 DEF Remove
<1>4. CASE Restart(c)
  <2> USE <1>4 DEF Restart
  <2>1. CallInv'
    BY DEF CallInv
  <2>2. PhaseInv'
    BY DEF PhaseInv, CallInv
  <2>3. RowInv'
    BY DEF RowInv
  <2>4. RowMatchesFile'
    BY DEF RowMatchesFile, Busy, CallInv, PhaseInv
  <2>5. BadFileIsTransient'
    BY DEF BadFileIsTransient, CallInv, PhaseInv, RowInv, RowMatchesFile, Busy
  <2> QED
    BY <2>1, <2>2, <2>3, <2>4, <2>5
<1> QED
  BY <1>1, <1>2, <1>3, <1>4

\* The steps before the file, in the name check and in php-fpm.
LEMMA FpmStepInvariance ==
  ASSUME IInv, NEW c \in Call, Access(c) \/ FpmStep(c)
  PROVE  SiteInv'
<1> USE SitesAssumption DEF IInv, SiteInv, TypeOK, File, Step, Ended, Writing, WorksOn, Goto,
       Contended, Mark, Fault, callVars, rowVars, fileVars, scanVars
<1>1. CASE Access(c)
  <2> USE <1>1 DEF Access, ClearTimer
  <2>1. CallInv'
    BY DEF CallInv
  <2>2. PhaseInv'
    BY DEF PhaseInv, CallInv
  <2>3. RowInv'
    BY DEF RowInv
  <2>4. RowMatchesFile'
    BY DEF RowMatchesFile, Busy, CallInv, PhaseInv
  <2>5. BadFileIsTransient'
    BY DEF BadFileIsTransient, CallInv, PhaseInv, RowInv, RowMatchesFile, Busy
  <2> QED
    BY <2>1, <2>2, <2>3, <2>4, <2>5
<1>2. CASE FpmStep(c)
  <2>1. PICK l \in {"inspect", "start", "make", "backup", "done"} :
          /\ pc' = [pc EXCEPT ![c] = l]
          /\ pc[c] \in {"inspect", "start", "make", "restart"}
          /\ kind[c] = "create" <=> l = "backup" \/ (kind[c] = "create" /\ l \notin Ended)
          /\ l # "done" => l = "backup" \/ kind[c] \in {"create", "restart"}
    BY <1>2 DEF FpmStep, Inspect, Start, Make, FpmFails, RestartBox, AfterFpm, CallInv
  <2>2. UNCHANGED <<kind, site, want, had, rowRead, rowVars, fileVars, fault>>
    BY <1>2 DEF FpmStep
  <2> USE <2>1, <2>2
  <2>3. CallInv'
    BY DEF CallInv
  <2>4. PhaseInv'
    BY DEF PhaseInv, CallInv
  <2>5. RowInv'
    BY DEF RowInv
  <2>6. RowMatchesFile'
    BY DEF RowMatchesFile, Busy, CallInv
  <2>7. BadFileIsTransient'
    BY DEF BadFileIsTransient
  <2> QED
    BY <2>3, <2>4, <2>5, <2>6, <2>7
<1> QED
  BY <1>1, <1>2

\* writeConfWithRollback().
LEMMA WriteStepInvariance ==
  ASSUME IInv, NEW c \in Call, WriteStep(c)
  PROVE  SiteInv'
<1> USE SitesAssumption DEF IInv, SiteInv, TypeOK, File, Step, Ended, Writing, WorksOn, Goto,
       Contended, Mark, Fault, callVars, rowVars, fileVars, scanVars
<1>1. CASE Backup(c)
  <2> USE <1>1 DEF WriteStep, Backup
  <2>1. CallInv'
    BY DEF CallInv
  <2>2. PhaseInv'
    <3>1. CASE conf[site[c]] # Nothing
      BY <3>1 DEF PhaseInv, CallInv, BadFileIsTransient
    <3>2. CASE conf[site[c]] = Nothing
      BY <3>2 DEF PhaseInv, CallInv
    <3> QED
      BY <3>1, <3>2
  <2>3. RowInv'
    BY DEF RowInv
  <2>4. RowMatchesFile'
    BY DEF RowMatchesFile, Busy, CallInv, PhaseInv
  <2>5. BadFileIsTransient'
    BY DEF BadFileIsTransient, CallInv, PhaseInv, RowInv, RowMatchesFile, Busy
  <2> QED
    BY <2>1, <2>2, <2>3, <2>4, <2>5
<1>2. CASE Write(c)
  <2> USE <1>2 DEF WriteStep, Write
  <2>1. CallInv'
    BY DEF CallInv
  <2>2. PhaseInv'
    BY DEF PhaseInv, CallInv
  <2>3. RowInv'
    BY DEF RowInv
  <2>4. RowMatchesFile'
    BY DEF RowMatchesFile, Busy, CallInv, PhaseInv
  <2>5. BadFileIsTransient'
    BY DEF BadFileIsTransient, CallInv, PhaseInv, RowInv, RowMatchesFile, Busy
  <2> QED
    BY <2>1, <2>2, <2>3, <2>4, <2>5
<1>3. CASE Swap(c)
  <2> USE <1>3 DEF WriteStep, Swap
  <2>1. CallInv'
    BY DEF CallInv
  <2>2. PhaseInv'
    BY DEF PhaseInv, CallInv
  <2>3. RowInv'
    BY DEF RowInv
  <2>4. RowMatchesFile'
    BY DEF RowMatchesFile, Busy, CallInv, PhaseInv
  <2>5. BadFileIsTransient'
    BY DEF BadFileIsTransient, CallInv, PhaseInv, RowInv, RowMatchesFile, Busy
  <2> QED
    BY <2>1, <2>2, <2>3, <2>4, <2>5
<1>4. CASE WriteFails(c)
  <2> USE <1>4 DEF WriteStep, WriteFails
  <2>1. CallInv'
    BY DEF CallInv
  <2>2. PhaseInv'
    BY DEF PhaseInv, CallInv
  <2>3. RowInv'
    BY DEF RowInv
  <2>4. RowMatchesFile'
    BY DEF RowMatchesFile, Busy, CallInv, PhaseInv
  <2>5. BadFileIsTransient'
    BY DEF BadFileIsTransient, CallInv, PhaseInv, RowInv, RowMatchesFile, Busy
  <2> QED
    BY <2>1, <2>2, <2>3, <2>4, <2>5
<1>5. CASE Accept(c)
  <2> USE <1>5 DEF WriteStep, Accept, TreeValid
  <2>1. CallInv'
    BY DEF CallInv
  <2>2. PhaseInv'
    BY DEF PhaseInv, CallInv
  <2>3. RowInv'
    BY DEF RowInv
  <2>4. RowMatchesFile'
    BY DEF RowMatchesFile, Busy, CallInv, PhaseInv
  <2>5. BadFileIsTransient'
    BY DEF BadFileIsTransient, CallInv, PhaseInv, RowInv, RowMatchesFile, Busy
  <2> QED
    BY <2>1, <2>2, <2>3, <2>4, <2>5
<1>6. CASE Reject(c)
  <2> USE <1>6 DEF WriteStep, Reject
  <2>1. CallInv'
    BY DEF CallInv
  <2>2. PhaseInv'
    BY DEF PhaseInv, CallInv
  <2>3. RowInv'
    BY DEF RowInv
  <2>4. RowMatchesFile'
    BY DEF RowMatchesFile, Busy, CallInv, PhaseInv
  <2>5. BadFileIsTransient'
    BY DEF BadFileIsTransient, CallInv, PhaseInv, RowInv, RowMatchesFile, Busy
  <2> QED
    BY <2>1, <2>2, <2>3, <2>4, <2>5
<1>7. CASE Rollback(c)
  <2> USE <1>7 DEF WriteStep, Rollback
  <2>1. CallInv'
    BY DEF CallInv
  <2>2. PhaseInv'
    BY DEF PhaseInv, CallInv
  <2>3. RowInv'
    BY DEF RowInv
  <2>4. RowMatchesFile'
    BY DEF RowMatchesFile, Busy, CallInv, PhaseInv
  <2>5. BadFileIsTransient'
    BY DEF BadFileIsTransient, CallInv, PhaseInv, RowInv, RowMatchesFile, Busy
  <2> QED
    BY <2>1, <2>2, <2>3, <2>4, <2>5
<1>8. CASE RollbackFails(c)
  <2> USE <1>8 DEF WriteStep, RollbackFails
  <2>1. CallInv'
    BY DEF CallInv
  <2>2. PhaseInv'
    BY DEF PhaseInv, CallInv
  <2>3. RowInv'
    BY DEF RowInv
  <2>4. RowMatchesFile'
    BY DEF RowMatchesFile, Busy, CallInv, PhaseInv
  <2>5. BadFileIsTransient'
    BY DEF BadFileIsTransient, CallInv, PhaseInv, RowInv, RowMatchesFile, Busy
  <2> QED
    BY <2>1, <2>2, <2>3, <2>4, <2>5
<1>9. CASE Settle(c)
  <2> USE <1>9 DEF WriteStep, Settle
  <2>1. CallInv'
    BY DEF CallInv
  <2>2. PhaseInv'
    BY DEF PhaseInv, CallInv
  <2>3. RowInv'
    BY DEF RowInv
  <2>4. RowMatchesFile'
    BY DEF RowMatchesFile, Busy, CallInv, PhaseInv
  <2>5. BadFileIsTransient'
    BY DEF BadFileIsTransient, CallInv, PhaseInv, RowInv, RowMatchesFile, Busy
  <2> QED
    BY <2>1, <2>2, <2>3, <2>4, <2>5
<1> QED
  BY <1>1, <1>2, <1>3, <1>4, <1>5, <1>6, <1>7, <1>8, <1>9 DEF WriteStep

\* What follows the swap, and removals.
LEMMA RowStepInvariance ==
  ASSUME IInv, NEW c \in Call, RowStep(c)
  PROVE  SiteInv'
<1> USE SitesAssumption DEF IInv, SiteInv, TypeOK, File, Step, Ended, Writing, WorksOn, Goto,
       Contended, Mark, Fault, callVars, rowVars, fileVars, scanVars
<1>1. CASE Reload(c)
  <2> USE <1>1 DEF RowStep, Reload
  <2>1. CallInv'
    BY DEF CallInv
  <2>2. PhaseInv'
    BY DEF PhaseInv, CallInv
  <2>3. RowInv'
    BY DEF RowInv, PhaseInv, CallInv
  <2>4. RowMatchesFile'
    BY DEF RowMatchesFile, Busy, CallInv, PhaseInv
  <2>5. BadFileIsTransient'
    BY DEF BadFileIsTransient, CallInv, PhaseInv, RowInv, RowMatchesFile, Busy
  <2> QED
    BY <2>1, <2>2, <2>3, <2>4, <2>5
<1>2. CASE ReloadFails(c)
  <2> USE <1>2 DEF RowStep, ReloadFails
  <2>1. CallInv'
    BY DEF CallInv
  <2>2. PhaseInv'
    BY DEF PhaseInv, CallInv
  <2>3. RowInv'
    BY DEF RowInv
  <2>4. RowMatchesFile'
    BY DEF RowMatchesFile, Busy, CallInv, PhaseInv
  <2>5. BadFileIsTransient'
    BY DEF BadFileIsTransient, CallInv, PhaseInv, RowInv, RowMatchesFile, Busy
  <2> QED
    BY <2>1, <2>2, <2>3, <2>4, <2>5
<1>3. CASE Insert(c)
  <2> USE <1>3 DEF RowStep, Insert
  <2>1. CallInv'
    BY DEF CallInv
  <2>2. PhaseInv'
    BY DEF PhaseInv, CallInv
  <2>3. RowInv'
    BY DEF RowInv, PhaseInv, CallInv
  <2>4. RowMatchesFile'
    BY DEF RowMatchesFile, Busy, CallInv, PhaseInv
  <2>5. BadFileIsTransient'
    BY DEF BadFileIsTransient, CallInv, PhaseInv, RowInv, RowMatchesFile, Busy
  <2> QED
    BY <2>1, <2>2, <2>3, <2>4, <2>5
<1>4. CASE Unlink(c)
  <2> USE <1>4 DEF RowStep, Unlink
  <2>1. CallInv'
    BY DEF CallInv
  <2>2. PhaseInv'
    BY DEF PhaseInv, CallInv
  <2>3. RowInv'
    BY DEF RowInv
  <2>4. RowMatchesFile'
    BY DEF RowMatchesFile, Busy, CallInv, PhaseInv
  <2>5. BadFileIsTransient'
    BY DEF BadFileIsTransient, CallInv, PhaseInv, RowInv, RowMatchesFile, Busy
  <2> QED
    BY <2>1, <2>2, <2>3, <2>4, <2>5
<1>5. CASE Unload(c)
  <2> USE <1>5 DEF RowStep, Unload, ArmIdleStop
  <2>1. CallInv'
    BY DEF CallInv
  <2>2. PhaseInv'
    BY DEF PhaseInv, CallInv
  <2>3. RowInv'
    BY DEF RowInv
  <2>4. RowMatchesFile'
    BY DEF RowMatchesFile, Busy, CallInv, PhaseInv
  <2>5. BadFileIsTransient'
    BY DEF BadFileIsTransient, CallInv, PhaseInv, RowInv, RowMatchesFile, Busy
  <2> QED
    BY <2>1, <2>2, <2>3, <2>4, <2>5
<1> QED
  BY <1>1, <1>2, <1>3, <1>4, <1>5 DEF RowStep

\* Everything that is not part of a call.
LEMMA OtherInvariance ==
  ASSUME IInv, ReconcileList \/ ReconcileApply \/ (\E s \in Site : Tamper(s)) \/ IdleStop \/ Crash
  PROVE  SiteInv'
<1> USE SitesAssumption DEF IInv, SiteInv, TypeOK, File, Step, Ended, Writing, WorksOn, Goto,
       Contended, Mark, Fault, callVars, rowVars, fileVars, scanVars, sitesVars
<1>1. CASE ReconcileList \/ ReconcileApply \/ IdleStop
  <2>0. UNCHANGED <<callVars, row, owner, fileVars, fault>>
    BY <1>1 DEF ReconcileList, ReconcileApply, IdleStop
  <2> USE <2>0
  <2>1. CallInv'
    BY DEF CallInv
  <2>2. PhaseInv'
    BY DEF PhaseInv
  <2>3. RowInv'
    BY DEF RowInv
  <2>4. RowMatchesFile'
    BY DEF RowMatchesFile, Busy, CallInv, PhaseInv
  <2>5. BadFileIsTransient'
    BY DEF BadFileIsTransient, CallInv, PhaseInv, RowInv, RowMatchesFile, Busy
  <2> QED
    BY <2>1, <2>2, <2>3, <2>4, <2>5
<1>2. ASSUME NEW s \in Site, Tamper(s) PROVE SiteInv'
  <2> USE <1>2 DEF Tamper
  <2>1. CallInv'
    BY DEF CallInv
  <2>2. PhaseInv'
    <3>1. \A c \in Call : pc[c] \in Ended \/ kind[c] = "restart" \/ site[c] # s
      BY DEF Busy
    <3> QED
      BY <3>1 DEF PhaseInv, CallInv
  <2>3. RowInv'
    BY DEF RowInv
  <2>4. RowMatchesFile'
    BY DEF RowMatchesFile, Busy, CallInv, PhaseInv
  <2>5. BadFileIsTransient'
    BY DEF BadFileIsTransient, CallInv, PhaseInv, RowInv, RowMatchesFile, Busy
  <2> QED
    BY <2>1, <2>2, <2>3, <2>4, <2>5
<1>3. CASE Crash
  <2> USE <1>3 DEF Crash
  <2>1. CallInv'
    BY DEF CallInv
  <2>2. PhaseInv'
    BY DEF PhaseInv, CallInv
  <2>3. RowInv'
    BY DEF RowInv
  <2>4. RowMatchesFile'
    BY DEF RowMatchesFile, Busy, CallInv, PhaseInv
  <2>5. BadFileIsTransient'
    <3> SUFFICES ASSUME NEW s \in Site, conf[s] \in Bad
                 PROVE  fault'[s] \in {"stranded", "contended"}
      BY DEF BadFileIsTransient
    <3>1. CASE fault[s] \in {"stranded", "contended"}
      BY <3>1 DEF CheckedOn
    <3>2. CASE \E c \in Call : site[c] = s /\ pc[c] \in {"validate", "rollback"}
      BY <3>2 DEF CheckedOn, CallInv, Busy
    <3> QED
      BY <3>1, <3>2 DEF BadFileIsTransient
  <2> QED
    BY <2>1, <2>2, <2>3, <2>4, <2>5
<1> QED
  BY <1>1, <1>2, <1>3

\* IInv holds in every reachable state.
LEMMA InductiveInvariance == Spec => []IInv
<1>1. Init => IInv
  <2> SUFFICES ASSUME Init PROVE IInv
    OBVIOUS
  <2>1. CallInv /\ PhaseInv /\ RowInv /\ RowMatchesFile /\ BadFileIsTransient
    BY SitesAssumption DEF Init, Ended, Writing, CallInv, PhaseInv, RowInv, RowMatchesFile,
       BadFileIsTransient, Contended, Busy, WorksOn
  <2> QED
    BY <2>1, TypeInit DEF IInv, SiteInv
<1>2. IInv /\ [Next]_vars => IInv'
  <2>1. ASSUME IInv, Next PROVE SiteInv'
    <3>1. (\E w \in Content : TRUE) /\ (\E s \in Site : TRUE)
      BY SitesAssumption
    <3>2. ASSUME NEW c \in Call, Restart(c) PROVE SiteInv'
      BY <2>1, <3>1, <3>2, BeginInvariance
    <3>3. ASSUME NEW c \in Call, NEW s \in Site, Remove(c, s) PROVE SiteInv'
      BY <2>1, <3>1, <3>3, BeginInvariance
    <3>4. ASSUME NEW c \in Call, NEW s \in Site, NEW w \in Content,
                 Create(c, s, w) \/ Update(c, s, w)
          PROVE  SiteInv'
      BY <2>1, <3>4, BeginInvariance
    <3> QED
      BY <2>1, <3>2, <3>3, <3>4, FpmStepInvariance, WriteStepInvariance,
         RowStepInvariance, OtherInvariance DEF Next
  <2>2. ASSUME SiteInv, UNCHANGED vars PROVE SiteInv'
    BY <2>2 DEF SiteInv, CallInv, PhaseInv, RowInv, RowMatchesFile, BadFileIsTransient,
       Contended, Busy, WorksOn, vars, sitesVars, callVars, rowVars, fileVars, scanVars
  <2> QED
    BY <2>1, <2>2, TypeStep DEF IInv
<1> QED
  BY <1>1, <1>2, PTL DEF Spec

\* A rejected write leaves the site as it was (writeConfWithRollback 514-579),
\* and no configuration is left without its row, on every site that neither two
\* overlapping calls nor a failure past the swap has touched.
THEOREM RowMatchesFileHolds == Spec => []RowMatchesFile
<1>1. IInv => RowMatchesFile
  BY DEF IInv, SiteInv
<1> QED
  BY <1>1, InductiveInvariance, PTL

\* A rejected configuration blocks the other sites only while its writer is about
\* to take it back, or where the rollback failed, was cut short by a death, or
\* met another call on its site.
THEOREM BadFileIsTransientHolds == Spec => []BadFileIsTransient
<1>1. IInv => BadFileIsTransient
  BY DEF IInv, SiteInv
<1> QED
  BY <1>1, InductiveInvariance, PTL

\* The state of the sites, their rows, files and calls (sites.service.ts) keeps its
\* shape.
THEOREM TypeInvariance == Spec => []TypeOK
<1>1. IInv => TypeOK
  BY DEF IInv
<1> QED
  BY <1>1, InductiveInvariance, PTL
=============================================================================
