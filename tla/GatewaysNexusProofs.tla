------------------------ MODULE GatewaysNexusProofs -------------------------
(***************************************************************************)
(* Two components that share nothing: the gateways, for any number of      *)
(* connections of any kind, and the Nexus poller, for any number of        *)
(* instances, polls and samples.  Nothing goes on for a client that has    *)
(* left, and a kill timer is armed once, for its own child; nothing is left*)
(* of a removed instance, and a series charts each request once.           *)
(***************************************************************************)
EXTENDS Gateways, Nexus, WellFoundedInduction, TLAPS

-----------------------------------------------------------------------------
(* The gateways.                                                             *)

\* What runs is held by its session, which an unfinished lookup does not hold
\* yet; a connection that is not open, or closed, holds nothing, nor does a
\* process that has exited; a child told to end has its timer.
HandleInv ==
  \A c \in Conn :
    /\ work[c] = "running" => c \in handle
    /\ c \in handle => ws[c] \in {"open", "closing"}
    /\ c \in handle /\ Is(c, "action") => work[c] = "running"
    /\ c \in opening => c \notin handle /\ work[c] = "none"
    /\ ws[c] \in {"none", "auth"} => c \notin opening /\ work[c] = "none"
    /\ ws[c] = "open" => c \in sessions
    /\ ~Is(c, "action") => timer[c] = 0
    /\ server = "gone" => c \notin handle /\ timer[c] = 0
    /\ work[c] = "told" /\ Is(c, "action") => timer[c] > 0 \/ server = "gone"

IInv == TypeOK /\ HandleInv /\ TimerIsForChild

\* It holds at the start.
LEMMA InitInv == Init => IInv
  BY GatewaysAssumption DEF Init, IInv, TypeOK, HandleInv, TimerIsForChild, Is

\* The variables keep their types.
LEMMA TypeStep == IInv /\ [Next]_vars => TypeOK'
<1> SUFFICES ASSUME TypeOK, HandleInv, TimerIsForChild, [Next]_vars PROVE TypeOK'
  BY DEF IInv
<1> USE GatewaysAssumption DEF TypeOK, HandleInv, TimerIsForChild, Is
<1>1. ASSUME NEW c \in Conn, Upgrade(c) PROVE TypeOK'
  BY <1>1 DEF Upgrade
<1>2. ASSUME NEW c \in Conn, Refuse(c) PROVE TypeOK'
  BY <1>2 DEF Refuse
<1>3. ASSUME NEW c \in Conn, Connect(c) PROVE TypeOK'
  BY <1>3 DEF Connect
<1>4. ASSUME NEW c \in Conn, Opened(c) PROVE TypeOK'
  BY <1>4 DEF Opened
<1>5. ASSUME NEW c \in Conn, OpenFails(c) PROVE TypeOK'
  BY <1>5 DEF OpenFails, Closing
<1>6. ASSUME NEW c \in Conn, WorkEnds(c) PROVE TypeOK'
  BY <1>6 DEF WorkEnds, Closing
<1>7. ASSUME NEW c \in Conn, KillTimer(c) PROVE TypeOK'
  BY <1>7 DEF KillTimer
<1>8. ASSUME NEW c \in Conn, Vanish(c) PROVE TypeOK'
  BY <1>8 DEF Vanish
<1>9. ASSUME NEW c \in Conn, Watchdog(c) PROVE TypeOK'
  BY <1>9 DEF Watchdog, Closing
<1>10. ASSUME NEW c \in Conn, Close(c) PROVE TypeOK'
  BY <1>10 DEF Close, EndWork
<1>11. ASSUME NEW c \in Conn, WsError(c) PROVE TypeOK'
  BY <1>11 DEF WsError, Closing, EndWork
<1>12. CASE Destroy
  BY <1>12 DEF Destroy, Closing, EndWork
<1>13. CASE Exit
  BY <1>13 DEF Exit
<1>14. CASE UNCHANGED vars
  BY <1>14 DEF vars
<1> HIDE DEF TypeOK, HandleInv, TimerIsForChild
<1> QED
  BY <1>1, <1>2, <1>3, <1>4, <1>5, <1>6, <1>7, <1>8,
     <1>9, <1>10, <1>11, <1>12, <1>13, <1>14
     DEF Next

\* Sessions go on holding what runs, and nothing else.
LEMMA HandleStep == IInv /\ [Next]_vars => HandleInv'
<1> SUFFICES ASSUME TypeOK, HandleInv, TimerIsForChild, [Next]_vars PROVE HandleInv'
  BY DEF IInv
<1> USE GatewaysAssumption DEF TypeOK, HandleInv, TimerIsForChild, Is
<1>1. ASSUME NEW c \in Conn, Upgrade(c) PROVE HandleInv'
  BY <1>1 DEF Upgrade
<1>2. ASSUME NEW c \in Conn, Refuse(c) PROVE HandleInv'
  BY <1>2 DEF Refuse
<1>3. ASSUME NEW c \in Conn, Connect(c) PROVE HandleInv'
  BY <1>3 DEF Connect
<1>4. ASSUME NEW c \in Conn, Opened(c) PROVE HandleInv'
  BY <1>4 DEF Opened
<1>5. ASSUME NEW c \in Conn, OpenFails(c) PROVE HandleInv'
  BY <1>5 DEF OpenFails, Closing
<1>6. ASSUME NEW c \in Conn, WorkEnds(c) PROVE HandleInv'
  BY <1>6 DEF WorkEnds, Closing
<1>7. ASSUME NEW c \in Conn, KillTimer(c) PROVE HandleInv'
  BY <1>7 DEF KillTimer
<1>8. ASSUME NEW c \in Conn, Vanish(c) PROVE HandleInv'
  BY <1>8 DEF Vanish
<1>9. ASSUME NEW c \in Conn, Watchdog(c) PROVE HandleInv'
  BY <1>9 DEF Watchdog, Closing
<1>10. ASSUME NEW c \in Conn, Close(c) PROVE HandleInv'
  BY <1>10 DEF Close, EndWork
<1>11. ASSUME NEW c \in Conn, WsError(c) PROVE HandleInv'
  BY <1>11 DEF WsError, Closing, EndWork
<1>12. CASE Destroy
  BY <1>12 DEF Destroy, Closing, EndWork
<1>13. CASE Exit
  BY <1>13 DEF Exit
<1>14. CASE UNCHANGED vars
  BY <1>14 DEF vars
<1> HIDE DEF TypeOK, HandleInv, TimerIsForChild
<1> QED
  BY <1>1, <1>2, <1>3, <1>4, <1>5, <1>6, <1>7, <1>8,
     <1>9, <1>10, <1>11, <1>12, <1>13, <1>14
     DEF Next

\* No timer is armed twice, nor outlives its child.
LEMMA TimerStep == IInv /\ [Next]_vars => TimerIsForChild'
<1> SUFFICES ASSUME TypeOK, HandleInv, TimerIsForChild, [Next]_vars PROVE TimerIsForChild'
  BY DEF IInv
<1> USE GatewaysAssumption DEF TypeOK, HandleInv, TimerIsForChild, Is
<1>1. ASSUME NEW c \in Conn, Upgrade(c) PROVE TimerIsForChild'
  BY <1>1 DEF Upgrade
<1>2. ASSUME NEW c \in Conn, Refuse(c) PROVE TimerIsForChild'
  BY <1>2 DEF Refuse
<1>3. ASSUME NEW c \in Conn, Connect(c) PROVE TimerIsForChild'
  BY <1>3 DEF Connect
<1>4. ASSUME NEW c \in Conn, Opened(c) PROVE TimerIsForChild'
  BY <1>4 DEF Opened
<1>5. ASSUME NEW c \in Conn, OpenFails(c) PROVE TimerIsForChild'
  BY <1>5 DEF OpenFails, Closing
<1>6. ASSUME NEW c \in Conn, WorkEnds(c) PROVE TimerIsForChild'
  <2> USE <1>6 DEF WorkEnds
  <2>1. CASE server = "gone"
    BY <2>1
  <2>2. CASE server # "gone" /\ Is(c, "action")
    <3>1. timer[c] \in {0, 1}
      BY DEF TypeOK
    <3>2. timer' = [timer EXCEPT ![c] = 0]
      BY <2>2, <3>1
    <3> QED BY <3>2
  <2>3. CASE server # "gone" /\ ~Is(c, "action")
    <3>1. timer[c] = 0
      BY <2>3, <1>6
    <3> QED BY <2>3, <3>1
  <2> QED BY <2>1, <2>2, <2>3
<1>7. ASSUME NEW c \in Conn, KillTimer(c) PROVE TimerIsForChild'
  BY <1>7 DEF KillTimer
<1>8. ASSUME NEW c \in Conn, Vanish(c) PROVE TimerIsForChild'
  BY <1>8 DEF Vanish
<1>9. ASSUME NEW c \in Conn, Watchdog(c) PROVE TimerIsForChild'
  BY <1>9 DEF Watchdog, Closing
<1>10. ASSUME NEW c \in Conn, Close(c) PROVE TimerIsForChild'
  BY <1>10 DEF Close, EndWork
<1>11. ASSUME NEW c \in Conn, WsError(c) PROVE TimerIsForChild'
  BY <1>11 DEF WsError, Closing, EndWork
<1>12. CASE Destroy
  BY <1>12 DEF Destroy, Closing, EndWork
<1>13. CASE Exit
  BY <1>13 DEF Exit
<1>14. CASE UNCHANGED vars
  BY <1>14 DEF vars
<1> HIDE DEF TypeOK, HandleInv, TimerIsForChild
<1> QED
  BY <1>1, <1>2, <1>3, <1>4, <1>5, <1>6, <1>7, <1>8,
     <1>9, <1>10, <1>11, <1>12, <1>13, <1>14
     DEF Next

\* The strengthened invariant is inductive.
THEOREM InductiveInvariance == Spec => []IInv
<1>1. IInv /\ [Next]_vars => IInv'
  BY TypeStep, HandleStep, TimerStep DEF IInv
<1> QED BY <1>1, InitInv, PTL DEF Spec

\* The sessions, sockets, processes and timers keep their shape.
THEOREM TypeInvariance == Spec => []TypeOK
<1>1. IInv => TypeOK
  BY DEF IInv
<1> QED BY <1>1, InductiveInvariance, PTL

\* Whatever order a client leaves, its lookup ends and the panel stops in,
\* nothing goes on running for it (compose action 93-94, exec 93-98).
THEOREM NoOrphanWorkHolds == Spec => []NoOrphanWork
<1>1. IInv => NoOrphanWork
  BY DEF IInv, HandleInv, NoOrphanWork
<1> QED BY <1>1, InductiveInvariance, PTL

\* killChild() never arms a second timer, nor one for a child that has ended.
THEOREM TimerIsForChildHolds == Spec => []TimerIsForChild
<1>1. IInv => TimerIsForChild
  BY DEF IInv
<1> QED BY <1>1, InductiveInvariance, PTL

\* No child that was told to end is left without the timer that kills it.
THEOREM ToldIsKilledHolds == Spec => []ToldIsKilled
<1>1. IInv => ToldIsKilled
  BY DEF IInv, HandleInv, ToldIsKilled
<1> QED BY <1>1, InductiveInvariance, PTL

-----------------------------------------------------------------------------
(* Nexus: the list, the polls and the samples.                               *)

\* The variables of the Nexus poller keep their types.
LEMMA NexusTypeStep == NexusTypeOK /\ [NexusNext]_nexusVars => NexusTypeOK'
<1> SUFFICES ASSUME NexusTypeOK, [NexusNext]_nexusVars PROVE NexusTypeOK'
  OBVIOUS
<1> USE NexusAssumption DEF NexusTypeOK, Sample, Counters, panelVars, pollVars
<1>1. ASSUME NEW i \in Instance, Add(i) PROVE NexusTypeOK'
  BY <1>1 DEF Add
<1>2. ASSUME NEW i \in Instance, RemoveInstance(i) PROVE NexusTypeOK'
  BY <1>2 DEF RemoveInstance, Pending
<1>3. ASSUME NEW i \in Instance, NexusRestarts(i) PROVE NexusTypeOK'
  BY <1>3 DEF NexusRestarts
<1>4. ASSUME NEW p \in Poll, NEW i \in Instance, Scrape(p, i) PROVE NexusTypeOK'
  BY <1>4 DEF Scrape
<1>5. ASSUME NEW p \in Poll, NEW i \in Instance, ScrapeFails(p, i) PROVE NexusTypeOK'
  BY <1>5 DEF ScrapeFails
<1>6. ASSUME NEW p \in Poll, PollStart(p) PROVE NexusTypeOK'
  BY <1>6 DEF PollStart, Idle
<1>7. ASSUME NEW p \in Poll, Store(p) PROVE NexusTypeOK'
  BY <1>7 DEF Store
<1>8. CASE Prune
  BY <1>8 DEF Prune
<1>9. CASE Restart
  BY <1>9 DEF Restart
<1>10. CASE Tick
  BY <1>10 DEF Tick
<1>11. ASSUME NEW i \in added, NEW failed \in BOOLEAN, Serve(i, failed) PROVE NexusTypeOK'
  BY <1>11 DEF Serve
<1>12. CASE UNCHANGED nexusVars
  BY <1>12 DEF nexusVars
<1> QED
  BY <1>1, <1>2, <1>3, <1>4, <1>5, <1>6, <1>7, <1>8, <1>9, <1>10, <1>11, <1>12
     DEF NexusNext

\* What polls have ahead, and what is left of removed instances.
LEMMA PendingStep == NexusInv /\ [NexusNext]_nexusVars => PendingInv' /\ RemovedLeavesNothing'
<1> SUFFICES ASSUME NexusInv, [NexusNext]_nexusVars
             PROVE  PendingInv' /\ RemovedLeavesNothing'
  OBVIOUS
<1> USE NexusAssumption DEF NexusInv, NexusTypeOK, Sample, PendingInv, Pending,
       RemovedLeavesNothing, panelVars, pollVars
<1>1. ASSUME NEW i \in Instance, Add(i) PROVE PendingInv' /\ RemovedLeavesNothing'
  BY <1>1 DEF Add
<1>2. ASSUME NEW i \in Instance, RemoveInstance(i) PROVE PendingInv' /\ RemovedLeavesNothing'
  BY <1>2 DEF RemoveInstance
<1>3. ASSUME NEW p \in Poll, NEW i \in Instance, Scrape(p, i)
      PROVE  PendingInv' /\ RemovedLeavesNothing'
  BY <1>3 DEF Scrape
<1>4. ASSUME NEW p \in Poll, NEW i \in Instance, ScrapeFails(p, i)
      PROVE  PendingInv' /\ RemovedLeavesNothing'
  BY <1>4 DEF ScrapeFails
<1>5. ASSUME NEW p \in Poll, PollStart(p) PROVE PendingInv' /\ RemovedLeavesNothing'
  BY <1>5 DEF PollStart, Idle
<1>6. ASSUME NEW p \in Poll, Store(p) PROVE PendingInv' /\ RemovedLeavesNothing'
  BY <1>6 DEF Store
<1>7. CASE Prune
  BY <1>7 DEF Prune
<1>8. CASE Restart
  BY <1>8 DEF Restart
<1>9. CASE UNCHANGED <<panelVars, pollVars>>
  BY <1>9
<1> QED
  BY <1>1, <1>2, <1>3, <1>4, <1>5, <1>6, <1>7, <1>8, <1>9
     DEF NexusNext, nexusVars, NexusRestarts, Tick, Serve

\* Both hold in every reachable state.
LEMMA NexusInvariance == NexusSpec => []NexusInv
<1>1. NexusInit => NexusInv
  BY NexusAssumption DEF NexusInit, NexusInv, NexusTypeOK, Counters, Sample, PendingInv, Pending,
     RemovedLeavesNothing
<1>2. NexusInv /\ [NexusNext]_nexusVars => NexusInv'
  BY NexusTypeStep, PendingStep DEF NexusInv
<1> QED
  BY <1>1, <1>2, PTL DEF NexusSpec

\* The list, the polls, the rows of nexus_samples in the order of their times and the cached
\* states (nexus.service.ts) keep their shape.
THEOREM NexusTypeInvariance == NexusSpec => []NexusTypeOK
<1>1. NexusInv => NexusTypeOK
  BY DEF NexusInv
<1> QED
  BY <1>1, NexusInvariance, PTL

\* For any number of instances and overlapping polls: an instance removed when no poll
\* had it ahead leaves neither rows nor a cached state behind, then or later (remove
\* 183-188, poll 332-370).
THEOREM RemovedLeavesNothingHolds == NexusSpec => []RemovedLeavesNothing
<1>1. NexusInv => RemovedLeavesNothing
  BY DEF NexusInv
<1> QED
  BY <1>1, NexusInvariance, PTL

-----------------------------------------------------------------------------
(* Nexus: the series.                                                        *)

\* Every set of natural numbers has a least element.
LEMMA LeastNat ==
  ASSUME NEW T \in SUBSET Nat, T # {}
  PROVE  \E n \in T : \A m \in T : n <= m
<1> DEFINE R == OpToRel(<, Nat)
<1>1. \A x, y \in Nat : y < x => <<y, x>> \in R
  BY DEF OpToRel
<1>2. IsWellFoundedOn(R, Nat)
  <2> HIDE DEF R
  <2> QED
    BY NatLessThanWellFounded DEF R
<1> HIDE DEF R
<1>3. \E x \in T : \A y \in T : ~ (<<y, x>> \in R)
  BY <1>2, WFMin
<1>4. PICK n \in T : \A m \in T : ~ (<<m, n>> \in R)
  BY <1>3
<1>5. ASSUME NEW m \in T PROVE n <= m
  <2>1. n \in Nat /\ m \in Nat
    OBVIOUS
  <2>2. ~ (m < n)
    BY <1>1, <1>4, <2>1
  <2> QED
    BY <2>1, <2>2
<1> QED
  BY <1>5

\* Rows with bounded ids: the last one no later than k, and the first one after k.
LEMMA Latest ==
  ASSUME NEW C, \A c \in C : c.key \in Nat, NEW k \in Nat, \E c \in C : c.key <= k
  PROVE  \E a \in C : a.key <= k /\ \A c \in C : c.key <= k => c.key <= a.key
<1> DEFINE T == {m \in Nat : \E c \in C : c.key <= k /\ m = k - c.key}
<1>1. T # {} /\ T \in SUBSET Nat
  OBVIOUS
<1>2. PICK m \in T : \A j \in T : m <= j
  BY <1>1, LeastNat
<1>3. PICK a \in C : a.key <= k /\ m = k - a.key
  OBVIOUS
<1>4. ASSUME NEW c \in C, c.key <= k PROVE c.key <= a.key
  <2>1. k - c.key \in T
    BY <1>4
  <2> QED
    BY <1>2, <1>3, <2>1
<1> QED
  BY <1>3, <1>4

LEMMA Earliest ==
  ASSUME NEW C, \A c \in C : c.key \in Nat, NEW k \in Nat, \E c \in C : c.key > k
  PROVE  \E b \in C : b.key > k /\ \A c \in C : c.key > k => b.key <= c.key
<1> DEFINE T == {m \in Nat : \E c \in C : c.key > k /\ m = c.key}
<1>1. T # {} /\ T \in SUBSET Nat
  OBVIOUS
<1>2. PICK m \in T : \A j \in T : m <= j
  BY <1>1, LeastNat
<1>3. PICK b \in C : b.key > k /\ m = b.key
  OBVIOUS
<1>4. ASSUME NEW c \in C, c.key > k PROVE b.key <= c.key
  BY <1>2, <1>3, <1>4
<1> QED
  BY <1>3, <1>4

\* Rows in the order of their ids, with time going on and no counter going back.
Ordered(S, n) ==
  /\ \A x \in S : /\ x.key \in 0 .. n /\ x.ts \in Nat
                  /\ x.counters.requests \in Nat /\ x.counters.errors \in Nat
  /\ \A x, y \in S : x.key = y.key => x = y
  /\ \A x, y \in S : x.key < y.key =>
       x.ts < y.ts /\ x.counters.requests <= y.counters.requests

\* Both ends are cuts, so every interval between two rows lies between two neighbouring
\* cuts.
LEMMA CutsAround ==
  ASSUME NEW n \in Nat, NEW S, Ordered(S, n), NEW x \in S, NEW y \in S, Follows(S, x, y)
  PROVE  \E a, b \in Cuts(S) :
           /\ Follows(Cuts(S), a, b)
           /\ a.key <= x.key /\ \A c \in Cuts(S) : c.key <= x.key => c.key <= a.key
           /\ y.key <= b.key /\ \A c \in Cuts(S) : y.key <= c.key => b.key <= c.key
<1>1. Cuts(S) \subseteq S /\ \A z \in S : z.key \in Nat
  BY DEF Cuts, Ordered
<1>2. \E c \in Cuts(S) : c.key <= x.key
  <2>1. PICK f \in S : \A z \in S : f.key <= z.key
    <3> DEFINE T == {z.key : z \in S}
    <3>1. PICK k \in T : \A m \in T : k <= m
      BY <1>1, LeastNat
    <3> QED
      BY <3>1
  <2>2. f \in Cuts(S)
    BY <1>1, <2>1 DEF Cuts, Follows
  <2> QED
    BY <2>1, <2>2
<1>3. \E c \in Cuts(S) : c.key > x.key
  <2>1. PICK l \in S : \A z \in S : z.key <= l.key
    <3>1. \A z \in S : z.key <= n
      BY DEF Ordered
    <3>2. \E l \in S : l.key <= n /\ \A z \in S : z.key <= n => z.key <= l.key
      BY <1>1, <3>1, Latest
    <3> QED
      BY <3>1, <3>2
  <2>2. l \in Cuts(S)
    BY <1>1, <2>1 DEF Cuts, Follows
  <2>3. l.key > x.key
    BY <1>1, <2>1 DEF Follows
  <2> QED
    BY <2>2, <2>3
<1>4. PICK a \in Cuts(S) : a.key <= x.key /\ \A c \in Cuts(S) : c.key <= x.key => c.key <= a.key
  BY <1>1, <1>2, Latest
<1>5. PICK b \in Cuts(S) : b.key > x.key /\ \A c \in Cuts(S) : c.key > x.key => b.key <= c.key
  BY <1>1, <1>3, Earliest
<1>6. \A z \in S : z.key > x.key <=> y.key <= z.key
  BY <1>1 DEF Follows
<1>7. Follows(Cuts(S), a, b)
  BY <1>1, <1>4, <1>5 DEF Follows
<1> QED
  BY <1>1, <1>4, <1>5, <1>6, <1>7

\* The points of a series tile the time from the first row to the last.
LEMMA SeriesTiles ==
  ASSUME NEW n \in Nat, NEW S, Ordered(S, n), NEW x \in S, NEW y \in S, Follows(S, x, y)
  PROVE  \E p \in ToSeries(S) :
           Spans(p, x, y) /\ \A q \in ToSeries(S) : Spans(q, x, y) => q = p
<1> DEFINE C == Cuts(S)
<1>1. C \subseteq S
  BY DEF Cuts
<1>2. PICK a \in C, b \in C :
        /\ Follows(C, a, b)
        /\ a.key <= x.key /\ \A c \in C : c.key <= x.key => c.key <= a.key
        /\ y.key <= b.key /\ \A c \in C : y.key <= c.key => b.key <= c.key
  BY CutsAround
<1>3. a \in S /\ b \in S
  BY <1>1
<1>4. ToSeries(S) =
        {Flush(e[1], e[2]) : e \in {e \in C \X C : Follows(C, e[1], e[2]) /\ Charted(e[1], e[2])}}
  BY DEF ToSeries
<1> HIDE DEF C
<1>5. Charted(a, b)
  BY <1>2, <1>3 DEF Follows, Charted, Ordered
<1>6. Flush(a, b) \in ToSeries(S)
  <2>1. <<a, b>> \in {e \in C \X C : Follows(C, e[1], e[2]) /\ Charted(e[1], e[2])}
    BY <1>2, <1>5
  <2> QED
    BY <1>4, <2>1
<1>7. Spans(Flush(a, b), x, y)
  <2>1. a.ts <= x.ts
    BY <1>2, <1>3 DEF Ordered
  <2>2. y.ts <= b.ts
    BY <1>2, <1>3 DEF Ordered
  <2> QED
    BY <1>3, <2>1, <2>2 DEF Spans, Flush, Ordered
<1>8. ASSUME NEW q \in ToSeries(S), Spans(q, x, y) PROVE q = Flush(a, b)
  <2>1. PICK c \in C, d \in C : q = Flush(c, d) /\ Follows(C, c, d)
    BY <1>4, <1>8
  <2>2. c \in S /\ d \in S
    BY <1>1
  <2>3. c.ts <= x.ts /\ y.ts <= d.ts
    BY <1>8, <2>1, <2>2 DEF Spans, Flush, Ordered
  <2>4. c.key <= x.key /\ y.key <= d.key
    BY <2>2, <2>3 DEF Ordered
  <2>5. c.key <= a.key /\ b.key <= d.key
    BY <1>2, <2>4
  <2>6. x.key < y.key
    BY DEF Follows
  <2>7. c.key = a.key /\ b.key = d.key
    BY <1>2, <1>3, <2>1, <2>2, <2>4, <2>5, <2>6 DEF Follows, Ordered
  <2>8. c = a /\ b = d
    BY <1>3, <2>2, <2>7 DEF Ordered
  <2> QED
    BY <2>1, <2>8
<1> QED
  BY <1>6, <1>7, <1>8

\* A point has what was counted between two rows.
LEMMA SeriesCounts ==
  ASSUME NEW S, NEW p \in ToSeries(S)
  PROVE  \E x, y \in S : x.ts < y.ts /\ p = Flush(x, y)
  BY DEF ToSeries, Cuts, Charted

\* For any rows the polls have left and any range: the points account for every moment and
\* every request between the first row and the last exactly once, wherever the buckets
\* begin (toSeries 194-233).
THEOREM SeriesIsCompleteHolds == NexusSpec => []SeriesIsComplete
<1>1. NexusTypeOK => SeriesIsComplete
  <2> SUFFICES ASSUME NexusTypeOK, NEW i \in list, NEW since \in 0 .. clock,
                      \A x, y \in Rows(i, since) : x.key < y.key =>
                         x.ts < y.ts /\ x.counters.requests <= y.counters.requests
               PROVE  LET S == Rows(i, since)
                          P == ToSeries(S)
                      IN /\ \A x, y \in S : Follows(S, x, y) =>
                              \E p \in P : Spans(p, x, y) /\ \A q \in P : Spans(q, x, y) => q = p
                         /\ \A p \in P : \E x, y \in S : x.ts < y.ts /\ p = Flush(x, y)
    BY DEF SeriesIsComplete
  <2>1. Ordered(Rows(i, since), stored) /\ stored \in Nat
    BY NexusAssumption DEF Ordered, Rows, NexusTypeOK, Sample, Counters
  <2> HIDE DEF Rows
  <2> QED
    BY <2>1, SeriesTiles, SeriesCounts
<1> QED
  BY <1>1, NexusTypeInvariance, PTL
=============================================================================
