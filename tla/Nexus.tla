------------------------------- MODULE Nexus --------------------------------
(***************************************************************************)
(* Nexus monitoring: the list of instances, the poller with its samples    *)
(* and cached states (nexus.service.ts), and the series of rates computed  *)
(* from the samples (metrics.ts).                                          *)
(***************************************************************************)
EXTENDS Integers

CONSTANTS
  Instance,    \* ids of instances; randomUUID() gives none twice
  Poll,        \* polls under way at a time: a slow one overlaps the next
  None,        \* nothing
  Bucket,      \* length of a bucket of the series
  Retention,   \* age at which samples are pruned
  MaxTime,     \* bound: the clock
  MaxServed,   \* bound: requests the counters of an instance hold
  MaxSamples,  \* bound: rows of nexus_samples ever inserted
  MaxRestarts  \* bound: restarts of Nexus

ASSUME NexusAssumption ==
  /\ None \notin Instance
  /\ Bucket \in Nat \ {0} /\ Retention \in Nat
  /\ {MaxTime, MaxServed, MaxSamples, MaxRestarts} \subseteq Nat

VARIABLES
  list,      \* instances in the settings row
  added,     \* ids given away
  state,     \* instances with an entry in communityState
  samples,   \* the rows of nexus_samples
  stored,    \* rows inserted so far, of which the last has this id
  counters,  \* what Nexus would answer
  ahead,     \* what a poll has still to scrape of the list it has read
  scraped,   \* the sample a poll is about to store
  late,      \* instances removed while a poll had them ahead
  clock,
  restarts   \* restarts of Nexus so far

panelVars == <<list, added, state, samples, stored, late>>
pollVars == <<ahead, scraped>>
nexusVars == <<panelVars, pollVars, counters, clock, restarts>>

Counters == {c \in [requests : 0 .. MaxServed, errors : 0 .. MaxServed] : c.errors <= c.requests}
Sample   == [key : 1 .. stored, id : added, ts : 0 .. clock, counters : Counters]
Idle(p)  == ahead[p] = {} /\ scraped[p] = None

\* The instances poll p has not dealt with.
Pending(p) == ahead[p] \cup (IF scraped[p] = None THEN {} ELSE {scraped[p].id})

NexusTypeOK ==
  /\ list \subseteq added /\ added \subseteq Instance /\ late \subseteq added \ list
  /\ state \subseteq added
  /\ counters \in [Instance -> Counters]
  /\ ahead \in [Poll -> SUBSET added]
  /\ scraped \in [Poll -> [id : added, counters : Counters] \cup {None}]
  /\ \A p \in Poll : scraped[p] # None => scraped[p].id \notin ahead[p]
  /\ samples \subseteq Sample
  /\ \A x, y \in samples :
       /\ x.key = y.key => x = y
       /\ x.key < y.key => x.ts <= y.ts
  /\ stored \in 0 .. MaxSamples
  /\ clock \in 0 .. MaxTime /\ restarts \in 0 .. MaxRestarts

NexusInit ==
  /\ list = {} /\ added = {} /\ state = {} /\ late = {}
  /\ samples = {} /\ stored = 0
  /\ counters = [i \in Instance |-> [requests |-> 0, errors |-> 0]]
  /\ ahead = [p \in Poll |-> {}]
  /\ scraped = [p \in Poll |-> None]
  /\ clock = 0 /\ restarts = 0

-----------------------------------------------------------------------------
(* The list.                                                               *)

Add(i) ==
  /\ i \notin added
  /\ added' = added \cup {i}
  /\ list' = list \cup {i}
  /\ UNCHANGED <<state, samples, stored, late, pollVars, counters, clock, restarts>>

\* A mistake the checks exclude: the samples of the instance stay.
RemoveEntry(i) ==
  /\ i \in list
  /\ list' = list \ {i}
  /\ state' = state \ {i}
  /\ late' = late \cup (IF \E p \in Poll : i \in Pending(p) THEN {i} ELSE {})
  /\ UNCHANGED <<added, samples, stored, pollVars, counters, clock, restarts>>

\* The entry, the cached state and the rows, without giving way in between.
RemoveInstance(i) ==
  /\ i \in list
  /\ list' = list \ {i}
  /\ state' = state \ {i}
  /\ samples' = {x \in samples : x.id # i}
  /\ late' = late \cup (IF \E p \in Poll : i \in Pending(p) THEN {i} ELSE {})
  /\ UNCHANGED <<added, stored, pollVars, counters, clock, restarts>>

-----------------------------------------------------------------------------
(* poll(), at boot and every minute, whether or not the last one is over.  *)

PollStart(p) ==
  /\ Idle(p) /\ list # {}
  /\ ahead' = [ahead EXCEPT ![p] = list]
  /\ UNCHANGED <<panelVars, scraped, counters, clock, restarts>>

\* A mistake the checks exclude: the loop does not go on to the next.
ScrapeAgain(p, i) ==
  /\ scraped[p] = None /\ i \in ahead[p]
  /\ scraped' = [scraped EXCEPT ![p] = [id |-> i, counters |-> counters[i]]]
  /\ UNCHANGED <<panelVars, ahead, counters, clock, restarts>>

\* The metrics are fetched; two more requests follow.
Scrape(p, i) ==
  /\ scraped[p] = None /\ i \in ahead[p]
  /\ ahead' = [ahead EXCEPT ![p] = @ \ {i}]
  /\ scraped' = [scraped EXCEPT ![p] = [id |-> i, counters |-> counters[i]]]
  /\ UNCHANGED <<panelVars, counters, clock, restarts>>

\* The instance is down: it is skipped.
ScrapeFails(p, i) ==
  /\ scraped[p] = None /\ i \in ahead[p]
  /\ ahead' = [ahead EXCEPT ![p] = @ \ {i}]
  /\ UNCHANGED <<panelVars, scraped, counters, clock, restarts>>

\* refreshCommunityState() has its answer, or none, and the sample is stored,
\* whether or not the instance is still on the list.
Store(p) ==
  /\ scraped[p] # None /\ stored < MaxSamples
  /\ stored' = stored + 1
  /\ samples' = samples \cup {[key |-> stored', id |-> scraped[p].id, ts |-> clock,
                               counters |-> scraped[p].counters]}
  /\ state' \in {state \cup {scraped[p].id}, state \ {scraped[p].id}}
  /\ scraped' = [scraped EXCEPT ![p] = None]
  /\ UNCHANGED <<list, added, late, ahead, counters, clock, restarts>>

\* The end of a poll, or the whole of one that found no instance to scrape:
\* old samples are pruned.
Prune ==
  /\ \E p \in Poll : Idle(p)
  /\ samples' = {x \in samples : x.ts >= clock - Retention}
  /\ UNCHANGED <<list, added, state, stored, late, pollVars, counters, clock, restarts>>

\* The panel restarts: the cached states and the polls are gone.
Restart ==
  /\ state' = {}
  /\ ahead' = [p \in Poll |-> {}]
  /\ scraped' = [p \in Poll |-> None]
  /\ UNCHANGED <<list, added, samples, stored, late, counters, clock, restarts>>

-----------------------------------------------------------------------------
(* Nexus itself and the clock.                                             *)

Serve(i, failed) ==
  /\ counters[i].requests < MaxServed
  /\ counters' = [counters EXCEPT ![i].requests = @ + 1,
                                  ![i].errors = IF failed THEN @ + 1 ELSE @]
  /\ UNCHANGED <<panelVars, pollVars, clock, restarts>>

NexusRestarts(i) ==
  /\ restarts < MaxRestarts
  /\ restarts' = restarts + 1
  /\ counters' = [counters EXCEPT ![i] = [requests |-> 0, errors |-> 0]]
  /\ UNCHANGED <<panelVars, pollVars, clock>>

Tick ==
  /\ clock < MaxTime
  /\ clock' = clock + 1
  /\ UNCHANGED <<panelVars, pollVars, counters, restarts>>

NexusNext ==
  \/ \E i \in Instance : Add(i) \/ RemoveInstance(i) \/ NexusRestarts(i)
  \/ \E p \in Poll, i \in Instance : Scrape(p, i) \/ ScrapeFails(p, i)
  \/ \E p \in Poll : PollStart(p) \/ Store(p)
  \/ Prune \/ Restart \/ Tick
  \/ \E i \in added, failed \in BOOLEAN : Serve(i, failed)

NexusSpec == NexusInit /\ [][NexusNext]_nexusVars

-----------------------------------------------------------------------------
(* toSeries(): rates, kept as a difference and the time it took, over rows  *)
(* in the order of their ids, which is that of their times.                 *)

BucketOf(x) == x.ts \div Bucket

\* y is the next of S after x.
Follows(S, x, y) == x.key < y.key /\ \A z \in S : ~(x.key < z.key /\ z.key < y.key)

\* Where one point ends and the next begins: the rows whose bucket is not that
\* of the row before, and both ends.
Cuts(S) ==
  {x \in S :
     \/ ~ \E w \in S : Follows(S, w, x)
     \/ ~ \E w \in S : Follows(S, x, w)
     \/ \E w \in S : Follows(S, w, x) /\ BucketOf(w) # BucketOf(x)}

\* flush(): no point when no time has passed or a counter went back.
Charted(first, last) ==
  first.ts < last.ts /\ first.counters.requests <= last.counters.requests

Flush(first, last) ==
  [ts       |-> last.ts,
   seconds  |-> last.ts - first.ts,
   requests |-> last.counters.requests - first.counters.requests,
   errors   |-> last.counters.errors - first.counters.errors]

\* A mistake the checks exclude: a bucket is closed with its own last sample,
\* and the time to the next bucket is charted nowhere.
ClosedSeries(S) ==
  LET ends == {e \in S \X S :
                 /\ BucketOf(e[1]) = BucketOf(e[2])
                 /\ \A z \in S : BucketOf(z) = BucketOf(e[1]) => z.key \in e[1].key .. e[2].key
                 /\ Charted(e[1], e[2])}
  IN {Flush(e[1], e[2]) : e \in ends}

\* The first sample of a bucket closes the bucket before.
ToSeries(S) ==
  LET C    == Cuts(S)
      ends == {e \in C \X C : Follows(C, e[1], e[2]) /\ Charted(e[1], e[2])}
  IN {Flush(e[1], e[2]) : e \in ends}

\* The rows getSeries() reads: those of the range the client asks for.
Rows(i, since) == {x \in samples : x.id = i /\ x.ts >= since}

-----------------------------------------------------------------------------
(* Properties.                                                             *)

\* An instance that was removed when no poll had it ahead has left nothing,
\* neither rows nor a cached state, whatever polls ran before and after
\* (remove 183-188, poll 332-370).
RemovedLeavesNothing ==
  \A i \in Instance \ (list \cup late) :
    /\ i \notin state
    /\ \A x \in samples : x.id # i

\* Point p is about the whole time from row x to row y.
Spans(p, x, y) == p.ts - p.seconds <= x.ts /\ y.ts <= p.ts

\* When time went on from row to row and no counter went back (neither a restart of
\* Nexus nor overlapping polls that stored their answers out of order), every moment
\* between the first row of the range and the last is in exactly one point of
\* the series, and a point has what was counted from its first moment to its
\* last: each request is charted once (toSeries 194-233).
SeriesIsComplete ==
  \A i \in list, since \in 0 .. clock :
    LET S == Rows(i, since)
        P == ToSeries(S)
    IN (\A x, y \in S : x.key < y.key =>
          x.ts < y.ts /\ x.counters.requests <= y.counters.requests)
       => /\ \A x, y \in S : Follows(S, x, y) =>
               \E p \in P : Spans(p, x, y) /\ \A q \in P : Spans(q, x, y) => q = p
          /\ \A p \in P : \E x, y \in S : x.ts < y.ts /\ p = Flush(x, y)

\* What metrics.ts 191-192 says of a restart of Nexus: no rate is charted as a
\* negative spike.
NoNegativeRate ==
  \A i \in list, since \in 0 .. clock :
    \A p \in ToSeries(Rows(i, since)) : p.requests >= 0 /\ p.errors >= 0

-----------------------------------------------------------------------------
(* The inductive invariant behind RemovedLeavesNothing.                      *)

\* A poll deals with instances of the list, or with those removed under it.
PendingInv == \A p \in Poll : Pending(p) \subseteq list \cup late

NexusInv == NexusTypeOK /\ PendingInv /\ RemovedLeavesNothing
=============================================================================
