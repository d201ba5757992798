--------------------------- MODULE SourceWatchdog ---------------------------
(***************************************************************************)
(* The hourly watchdog that tells the operator when an auction source has  *)
(* gone dark, and what it sees of the ingester: the latest last_seen_at of *)
(* a source's auctions.  That is refreshed only by lots some want could    *)
(* match, so a source nobody wants anything of looks dark as well.         *)
(* The unit of time is the period of the watchdog's timer.                 *)
(***************************************************************************)
EXTENDS Integers, FiniteSets

CONSTANTS AuctionSources, \* SOURCES in the watchdog's process; it imports no listing source
          StaleAge,       \* STALE_THRESHOLD
          DedupAge,       \* ALERT_DEDUP_WINDOW
          MaxTime,        \* bound: the last unit of time
          MaxFaults       \* bound: failed posts and crashes

ASSUME SourceWatchdogAssumption ==
  /\ {StaleAge, DedupAge} \subseteq Nat \ {0} /\ DedupAge <= StaleAge
  /\ {MaxTime, MaxFaults} \subseteq Nat

VARIABLES
  clock,     \* the time
  lastSeen,  \* max(last_seen_at) of a source's auctions
  alerted,   \* source_alert_state.last_alerted_at
  watch,     \* the watchdog's transaction: [at, todo, recorded]
  faults,    \* number of faults so far
  told,      \* history: the run that last told the operator of a source
  unrecorded \* history: sources whose alert arrived and was not recorded

watchVars == <<clock, lastSeen, alerted, watch, faults, told, unrecorded>>

Never == -1
Off == [on |-> FALSE]

WatchInit ==
  /\ clock = 0
  /\ lastSeen = [s \in AuctionSources |-> Never]
  /\ alerted = [s \in AuctionSources |-> Never]
  /\ watch = Off
  /\ faults = 0
  /\ told = [s \in AuctionSources |-> Never]
  /\ unrecorded = {}

Fault ==
  /\ faults < MaxFaults
  /\ faults' = faults + 1

-----------------------------------------------------------------------------
(* The world and the ingester.                                             *)

Tick ==
  /\ clock < MaxTime
  /\ clock' = clock + 1
  /\ UNCHANGED <<lastSeen, alerted, watch, faults, told, unrecorded>>

\* The ingester walks a source and upserts the auction of a lot that some want could
\* match.  A walk that finds nothing of the kind, or fails, has no effect.
Walk(s) ==
  /\ lastSeen' = [lastSeen EXCEPT ![s] = clock]
  /\ UNCHANGED <<clock, alerted, watch, faults, told, unrecorded>>

-----------------------------------------------------------------------------
(* The watchdog.                                                         *)

Stale(s, now) == lastSeen[s] # Never /\ now - lastSeen[s] >= StaleAge
Muted(s, now) == alerted[s] # Never /\ now - alerted[s] < DedupAge

\* mutant: the window of the last alert is not looked at
StartWatchLoud ==
  /\ watch = Off
  /\ watch' = [on |-> TRUE, at |-> clock,
               todo |-> {s \in AuctionSources : Stale(s, clock)}, recorded |-> {}]
  /\ UNCHANGED <<clock, lastSeen, alerted, faults, told, unrecorded>>

\* A run: in one transaction it reads what is stale and what the operator has been
\* told of already.
StartWatch ==
  /\ watch = Off
  /\ watch' = [on |-> TRUE, at |-> clock,
               todo |-> {s \in AuctionSources : Stale(s, clock) /\ ~Muted(s, clock)},
               recorded |-> {}]
  /\ UNCHANGED <<clock, lastSeen, alerted, faults, told, unrecorded>>

\* mutant: an alert that could not be posted is recorded
AlertFailsSilently(s, arrived) ==
  /\ watch # Off /\ s \in watch.todo
  /\ Fault
  /\ watch' = [watch EXCEPT !.todo = @ \ {s}, !.recorded = @ \cup {s}]
  /\ told' = IF arrived THEN [told EXCEPT ![s] = watch.at] ELSE told
  /\ UNCHANGED <<clock, lastSeen, alerted, unrecorded>>

\* The alert is posted, with the transaction open, and recorded in it.
Alert(s) ==
  /\ watch # Off /\ s \in watch.todo
  /\ watch' = [watch EXCEPT !.todo = @ \ {s}, !.recorded = @ \cup {s}]
  /\ told' = [told EXCEPT ![s] = watch.at]
  /\ UNCHANGED <<clock, lastSeen, alerted, faults, unrecorded>>

\* The post fails, for all the watchdog knows: it is not recorded.
AlertFails(s, arrived) ==
  /\ watch # Off /\ s \in watch.todo
  /\ Fault
  /\ watch' = [watch EXCEPT !.todo = @ \ {s}]
  /\ told' = IF arrived THEN [told EXCEPT ![s] = watch.at] ELSE told
  /\ unrecorded' = IF arrived THEN unrecorded \cup {s} ELSE unrecorded
  /\ UNCHANGED <<clock, lastSeen, alerted>>

\* COMMIT, of all the records at once.
EndWatch ==
  /\ watch # Off /\ watch.todo = {}
  /\ alerted' = [s \in AuctionSources |-> IF s \in watch.recorded THEN watch.at ELSE alerted[s]]
  /\ unrecorded' = unrecorded \ watch.recorded
  /\ watch' = Off
  /\ UNCHANGED <<clock, lastSeen, faults, told>>

\* The run dies, or an exception ends it: every record is rolled back.
WatchDies ==
  /\ watch # Off
  /\ Fault
  /\ unrecorded' = unrecorded \cup watch.recorded
  /\ watch' = Off
  /\ UNCHANGED <<clock, lastSeen, alerted, told>>

-----------------------------------------------------------------------------
WatchNext ==
  \/ Tick \/ StartWatch \/ EndWatch \/ WatchDies
  \/ \E s \in AuctionSources : Walk(s) \/ Alert(s) \/ \E arrived \in BOOLEAN : AlertFails(s, arrived)

WatchSpec == WatchInit /\ [][WatchNext]_watchVars

\* Time passes, and the timer runs the watchdog again and again.  Nothing makes a walk
\* find something.
FairWatchSpec ==
  /\ WatchSpec /\ WF_watchVars(Tick)
  /\ WF_watchVars(StartWatch \/ EndWatch \/ \E s \in AuctionSources : Alert(s))

-----------------------------------------------------------------------------
(* Properties.                                                             *)

\* The types; no alert is recorded that the operator has not got.
WatchTypeOK ==
  /\ clock \in 0..MaxTime
  /\ lastSeen \in [AuctionSources -> 0..MaxTime \cup {Never}]
  /\ alerted \in [AuctionSources -> 0..MaxTime \cup {Never}]
  /\ \/ watch = Off
     \/ watch \in [on : {TRUE}, at : 0..MaxTime, todo : SUBSET AuctionSources,
                   recorded : SUBSET AuctionSources]
  /\ faults \in 0..MaxFaults
  /\ told \in [AuctionSources -> 0..MaxTime \cup {Never}]
  /\ \A s \in AuctionSources : alerted[s] <= told[s]
  /\ unrecorded \subseteq AuctionSources

\* The operator is not told of a source twice within DedupAge, unless the first alert was
\* lost from the record: the answer to the post got lost, or the run died after it, maybe
\* while it was telling of another source.
TellsSparingly ==
  [][\A s \in AuctionSources :
       told[s] # Never /\ told'[s] # told[s]
         => told'[s] - told[s] >= DedupAge \/ s \in unrecorded]_watchVars

\* A source that has brought nothing for StaleAge is told of, or brings something.
StaleIsTold ==
  \A s \in AuctionSources, t \in 0..MaxTime :
    lastSeen[s] = t /\ clock - t >= StaleAge ~> told[s] >= t + StaleAge \/ lastSeen[s] # t
=============================================================================
