----------------------------- MODULE StageQueue -----------------------------
(***************************************************************************)
(* One stage of the pipeline (enricher, valuator or notifier): the status  *)
(* column of vehicle_offer it consumes, used as a queue (db/queue.py), the *)
(* NOTIFY channel that wakes it (db/notify.py), the advisory lock that     *)
(* should keep it a single process (shared/singleton.py), and the worker   *)
(* loop the three programs share: recover orphans, sweep, LISTEN, and one  *)
(* process_pending() per notification.                                     *)
(*                                                                         *)
(* What a worker computes for a row is abstracted to its outcome.  The     *)
(* constants Counted and HasPermanent tell the three programs apart.       *)
(***************************************************************************)
EXTENDS Integers, FiniteSets

CONSTANTS
  Workers,       \* processes that systemd or an operator may start for the stage
  NoWorker,      \* nobody holds the advisory lock
  Offers,        \* the ids of vehicle_offer
  BatchSize,     \* rows one process_pending() claims at most
  Concurrency,   \* rows of a batch processed at once: 1, or the enricher's semaphore
  MaxAttempts,   \* the retry budget of the stage
  Counted,       \* outcomes other than failures that also consume an attempt
  HasPermanent,  \* whether the stage fails some rows at the first attempt
  LockDrops,     \* whether the lock's connection may die before its process
  MaxEnqueues,   \* bound: status resets by producers
  MaxFaults      \* bound: crashes, lost connections, errors and skipped rows

ASSUME StageAssumption ==
  /\ NoWorker \notin Workers
  /\ Offers \subseteq Nat /\ IsFiniteSet(Offers)
  /\ BatchSize \in Nat \ {0}
  /\ Concurrency \in Nat \ {0}
  /\ MaxAttempts \in Nat \ {0}
  /\ Counted \subseteq {"done", "skipped"}
  /\ HasPermanent \in BOOLEAN
  /\ LockDrops \in BOOLEAN
  /\ MaxEnqueues \in Nat
  /\ MaxFaults \in Nat

VARIABLES
  status,     \* the stage's status column, per row
  attempts,   \* its attempt counter, per row
  failures,   \* history: failed attempts, per row
  lock,       \* the session that holds pg_advisory_lock(hashtext(name))
  phase,      \* how far each process is in main()
  conn,       \* its LISTEN connection: "none" yet, "up" or "lost"
  inbox,      \* notifications delivered to it and not yet consumed
  busy,       \* whether a process_pending() call has claimed rows and not returned
  batch,      \* the ids that call still has to finish
  active,     \* those it has loaded and not yet written
  returned,   \* how many of the call's results are "transient"
  holes,      \* history: what may have cost a wake-up since the last sweep
  stranded,   \* history: rows left in_progress without a holder since the last recovery
  enqueued,   \* number of status resets so far
  faults      \* number of faults so far

rows == <<status, attempts, failures>>
call == <<busy, batch, active, returned>>
link == <<lock, phase, conn, inbox>>
hist == <<holes, stranded>>
vars == <<rows, call, link, hist, enqueued, faults>>

Status == {"absent", "pending", "in_progress", "done", "skipped", "failed", "gone"}
Terminal == {"done", "skipped", "failed"}
Phase == {"down", "recovering", "scanning", "sweeping", "listening"}
Hole == {"gap", "reconnect", "locked", "claim_error", "renotify", "bulk", "silent", "zombie"}

Pending == {o \in Offers : status[o] = "pending"}
InProgress == {o \in Offers : status[o] = "in_progress"}
Exists(o) == status[o] \notin {"absent", "gone"}

\* Processes that run although the server no longer holds the lock for them.
Unlocked == {w \in Workers : phase[w] # "down" /\ lock # w}
ZombieHole == IF Unlocked = {} THEN {} ELSE {"zombie"}

Init ==
  /\ status = [o \in Offers |-> "absent"]
  /\ attempts = [o \in Offers |-> 0]
  /\ failures = [o \in Offers |-> 0]
  /\ lock = NoWorker
  /\ phase = [w \in Workers |-> "down"]
  /\ conn = [w \in Workers |-> "none"]
  /\ inbox = [w \in Workers |-> 0]
  /\ busy = [w \in Workers |-> FALSE]
  /\ batch = [w \in Workers |-> {}]
  /\ active = [w \in Workers |-> {}]
  /\ returned = [w \in Workers |-> 0]
  /\ holes = {}
  /\ stranded = {}
  /\ enqueued = 0
  /\ faults = 0

Fault ==
  /\ faults < MaxFaults
  /\ faults' = faults + 1

-----------------------------------------------------------------------------
(* The channel: a notification reaches the sessions that LISTEN when the   *)
(* sending transaction commits, and nobody else, ever.                     *)

Delivered ==
  [w \in Workers |-> IF conn[w] = "up" THEN inbox[w] + 1 ELSE inbox[w]]

MissedBy == {w \in Workers : phase[w] = "listening" /\ conn[w] # "up"}

NotifyHoles == {IF conn[w] = "none" THEN "gap" ELSE "reconnect" : w \in MissedBy}

Notify ==
  /\ inbox' = Delivered
  /\ holes' = holes \cup NotifyHoles

-----------------------------------------------------------------------------
(* Producers: ingester, bid poller, the previous stage, vision, dashboard. *)

Reset(S) ==
  /\ enqueued < MaxEnqueues
  /\ enqueued' = enqueued + 1
  /\ status' = [o \in Offers |-> IF o \in S THEN "pending" ELSE status[o]]
  /\ UNCHANGED <<attempts, failures, call, lock, phase, conn, stranded, faults>>

\* One row inserted or reset to pending, and NOTIFY in the same transaction.
Enqueue(o) ==
  /\ status[o] # "gone"
  /\ Reset({o})
  /\ Notify

\* A reset without a NOTIFY on this stage's channel: the column default and the
\* content cascade set every stage's column, and only the first stage is told.
EnqueueSilently(o) ==
  /\ status[o] # "gone"
  /\ Reset({o})
  /\ holes' = holes \cup {"silent"}
  /\ UNCHANGED inbox

\* /admin/rescore: every row at once, one NOTIFY.
EnqueueAll ==
  /\ Reset({o \in Offers : Exists(o)})
  /\ inbox' = Delivered
  /\ holes' = holes \cup NotifyHoles \cup {"bulk"}

\* An earlier stage decides that this stage has nothing to do for the row.
Withdraw(o) ==
  /\ Exists(o)
  /\ status' = [status EXCEPT ![o] = "skipped"]
  /\ UNCHANGED <<attempts, failures, call, link, hist, enqueued, faults>>

\* The distiller deletes the row.
Vanish(o) ==
  /\ Exists(o)
  /\ status' = [status EXCEPT ![o] = "gone"]
  /\ UNCHANGED <<attempts, failures, call, link, hist, enqueued, faults>>

-----------------------------------------------------------------------------
(* Process start: lock, recovery, sweep.                                   *)

\* mutant: the advisory lock is not checked
StartUnguarded(w) ==
  /\ phase[w] = "down"
  /\ lock' = w
  /\ phase' = [phase EXCEPT ![w] = "recovering"]
  /\ UNCHANGED <<rows, call, conn, inbox, hist, enqueued, faults>>

\* A process whose pg_try_advisory_lock fails exits: it stays down.
Start(w) ==
  /\ phase[w] = "down"
  /\ lock = NoWorker
  /\ lock' = w
  /\ phase' = [phase EXCEPT ![w] = "recovering"]
  /\ UNCHANGED <<rows, call, conn, inbox, hist, enqueued, faults>>

\* mutant: main() goes to the sweep without recover_orphans
RecoverNothing(w) ==
  /\ phase[w] = "recovering"
  /\ stranded' = {}
  /\ holes' = ZombieHole
  /\ phase' = [phase EXCEPT ![w] = "scanning"]
  /\ UNCHANGED <<rows, call, lock, conn, inbox, enqueued, faults>>

\* recover_orphans: every in_progress row, whoever marked it.
Recover(w) ==
  /\ phase[w] = "recovering"
  /\ status' = [o \in Offers |-> IF status[o] = "in_progress" THEN "pending" ELSE status[o]]
  /\ stranded' = {}
  /\ holes' = ZombieHole
  /\ phase' = [phase EXCEPT ![w] = "scanning"]
  /\ UNCHANGED <<attempts, failures, call, lock, conn, inbox, enqueued, faults>>

\* mutant: startup goes straight to LISTEN, whatever select_pending_ids finds
ScanNothing(w) ==
  /\ phase[w] = "scanning"
  /\ phase' = [phase EXCEPT ![w] = "listening"]
  /\ UNCHANGED <<rows, call, lock, conn, inbox, hist, enqueued, faults>>

\* select_pending_ids: the sweep is entered only if something is pending.
Scan(w) ==
  /\ phase[w] = "scanning"
  /\ phase' = [phase EXCEPT ![w] = IF Pending = {} THEN "listening" ELSE "sweeping"]
  /\ UNCHANGED <<rows, call, lock, conn, inbox, hist, enqueued, faults>>

\* listen(): connect and LISTEN, the first time or after a drop.  What was
\* delivered before the drop has been consumed by then; nothing is swept.
Connect(w) ==
  /\ phase[w] = "listening" /\ ~busy[w]
  /\ conn[w] # "up" /\ inbox[w] = 0
  /\ conn' = [conn EXCEPT ![w] = "up"]
  /\ UNCHANGED <<rows, call, lock, phase, inbox, hist, enqueued, faults>>

-----------------------------------------------------------------------------
(* process_pending(): claim, process, re-notify.                           *)

\* The n lowest ids of S: ORDER BY id LIMIT n.
Lowest(S, n) == {o \in S : Cardinality({p \in S : p < o}) < n}

MayClaim(w) ==
  /\ ~busy[w]
  /\ \/ phase[w] = "sweeping"
     \/ phase[w] = "listening" /\ inbox[w] > 0

\* A listening worker has consumed one notification to get here.
Consume(w) ==
  inbox' = IF phase[w] = "listening" THEN [inbox EXCEPT ![w] = @ - 1] ELSE inbox

\* SELECT .. FOR UPDATE SKIP LOCKED passes over the rows another transaction
\* has locked at that moment.
SkipLocked(locked) ==
  /\ locked \subseteq Pending
  /\ IF locked = {} THEN UNCHANGED faults ELSE Fault

\* claim_pending_ids finds rows, marks and commits.
Claim(w, locked) ==
  LET ids == Lowest(Pending \ locked, BatchSize) IN
  /\ MayClaim(w)
  /\ SkipLocked(locked)
  /\ ids # {}
  /\ status' = [o \in Offers |-> IF o \in ids THEN "in_progress" ELSE status[o]]
  /\ busy' = [busy EXCEPT ![w] = TRUE]
  /\ batch' = [batch EXCEPT ![w] = ids]
  /\ returned' = [returned EXCEPT ![w] = 0]
  /\ Consume(w)
  /\ holes' = IF locked = {} THEN holes ELSE holes \cup {"locked"}
  /\ UNCHANGED <<attempts, failures, active, lock, phase, conn, stranded, enqueued>>

\* It finds none: process_pending() returns 0, which ends a sweep.
ClaimNothing(w, locked) ==
  /\ MayClaim(w)
  /\ SkipLocked(locked)
  /\ Pending \ locked = {}
  /\ Consume(w)
  /\ phase' = [phase EXCEPT ![w] = "listening"]
  /\ holes' = (IF phase[w] = "sweeping" THEN {} ELSE holes)
              \cup (IF locked = {} THEN {} ELSE {"locked"})
              \cup ZombieHole
  /\ UNCHANGED <<rows, call, lock, conn, stranded, enqueued>>

\* The claim raises while listening: "batch failed; sleeping before next NOTIFY".
\* The transaction is rolled back, or its commit went through unacknowledged.
ClaimError(w) ==
  /\ MayClaim(w) /\ phase[w] = "listening"
  /\ Fault
  /\ Consume(w)
  /\ holes' = holes \cup {"claim_error"}
  /\ \E ids \in {{}, Lowest(Pending, BatchSize)} :
       /\ status' = [o \in Offers |-> IF o \in ids THEN "in_progress" ELSE status[o]]
       /\ stranded' = stranded \cup ids
  /\ UNCHANGED <<attempts, failures, call, lock, phase, conn, enqueued>>

\* _process_one starts, in claim order: it loads the row, or finds it missing.
Load(w, o) ==
  /\ o \in batch[w] \ active[w]
  /\ \A p \in batch[w] \ active[w] : o <= p
  /\ Cardinality(active[w]) < Concurrency
  /\ IF status[o] = "gone"
     THEN batch' = [batch EXCEPT ![w] = @ \ {o}] /\ UNCHANGED active
     ELSE active' = [active EXCEPT ![w] = @ \cup {o}] /\ UNCHANGED batch
  /\ UNCHANGED <<rows, busy, returned, link, hist, enqueued, faults>>

\* The last transaction of _process_one: it reads the row again, unless the row
\* vanished, and writes a status over whatever the column holds by then.
Finish(w, o) ==
  /\ o \in active[w]
  /\ batch' = [batch EXCEPT ![w] = @ \ {o}]
  /\ active' = [active EXCEPT ![w] = @ \ {o}]
  /\ UNCHANGED <<busy, link, holes, enqueued>>

Complete(w, o, outcome) ==
  /\ Finish(w, o)
  /\ status[o] # "gone"
  /\ status' = [status EXCEPT ![o] = outcome]
  /\ attempts' = IF outcome \in Counted THEN [attempts EXCEPT ![o] = @ + 1] ELSE attempts
  /\ UNCHANGED <<failures, returned, stranded, faults>>

FailPermanently(w, o) ==
  /\ HasPermanent
  /\ Finish(w, o)
  /\ status[o] # "gone"
  /\ status' = [status EXCEPT ![o] = "failed"]
  /\ attempts' = [attempts EXCEPT ![o] = @ + 1]
  /\ failures' = [failures EXCEPT ![o] = @ + 1]
  /\ UNCHANGED <<returned, stranded, faults>>

\* mutant: the budget is compared before the attempt is counted, off by one
FailTransientEarly(w, o) ==
  /\ Finish(w, o)
  /\ status[o] # "gone"
  /\ attempts' = [attempts EXCEPT ![o] = @ + 1]
  /\ failures' = [failures EXCEPT ![o] = @ + 1]
  /\ LET spent == attempts[o] + 2 >= MaxAttempts IN
       /\ status' = [status EXCEPT ![o] = IF spent THEN "failed" ELSE "pending"]
       /\ returned' = IF spent THEN returned ELSE [returned EXCEPT ![w] = @ + 1]
  /\ UNCHANGED <<stranded, faults>>

\* mutant: the attempt is not counted
FailTransientFree(w, o) ==
  /\ Finish(w, o)
  /\ status[o] # "gone"
  /\ status' = [status EXCEPT ![o] = "pending"]
  /\ returned' = [returned EXCEPT ![w] = @ + 1]
  /\ UNCHANGED <<attempts, failures, stranded, faults>>

FailTransient(w, o) ==
  /\ Finish(w, o)
  /\ status[o] # "gone"
  /\ attempts' = [attempts EXCEPT ![o] = @ + 1]
  /\ failures' = [failures EXCEPT ![o] = @ + 1]
  /\ LET spent == attempts[o] + 1 >= MaxAttempts IN
       /\ status' = [status EXCEPT ![o] = IF spent THEN "failed" ELSE "pending"]
       /\ returned' = IF spent THEN returned ELSE [returned EXCEPT ![w] = @ + 1]
  /\ UNCHANGED <<stranded, faults>>

\* The row was deleted between the load and the write.  The notifier calls this
\* a transient result if its posts had failed as well.
FindMissing(w, o) ==
  /\ Finish(w, o)
  /\ status[o] = "gone"
  /\ returned' \in {returned, [returned EXCEPT ![w] = @ + 1]}
  /\ UNCHANGED <<rows, stranded, faults>>

\* _process_one itself raises ("process_one unhandled"): the result counts as
\* transient, but nobody wrote the status.
Unhandled(w, o) ==
  /\ Finish(w, o)
  /\ Fault
  /\ returned' = [returned EXCEPT ![w] = @ + 1]
  /\ stranded' = stranded \cup {o}
  /\ UNCHANGED rows

\* mutant: transient leftovers are not re-notified
EndBatchSilently(w) ==
  /\ busy[w] /\ batch[w] = {}
  /\ busy' = [busy EXCEPT ![w] = FALSE]
  /\ returned' = [returned EXCEPT ![w] = 0]
  /\ UNCHANGED <<rows, batch, active, link, hist, enqueued, faults>>

\* mutant: the rows' tasks are started and not awaited: the call returns before them
EndBatchUnawaited(w) ==
  /\ busy[w]
  /\ busy' = [busy EXCEPT ![w] = FALSE]
  /\ returned' = [returned EXCEPT ![w] = 0]
  /\ IF returned[w] > 0 THEN Notify ELSE UNCHANGED <<inbox, holes>>
  /\ UNCHANGED <<rows, batch, active, lock, phase, conn, stranded, enqueued, faults>>

\* process_pending() returns; one NOTIFY if any result was transient.
EndBatch(w) ==
  /\ busy[w] /\ batch[w] = {}
  /\ busy' = [busy EXCEPT ![w] = FALSE]
  /\ returned' = [returned EXCEPT ![w] = 0]
  /\ IF returned[w] > 0 THEN Notify ELSE UNCHANGED <<inbox, holes>>
  /\ UNCHANGED <<rows, batch, active, lock, phase, conn, stranded, enqueued, faults>>

\* That last NOTIFY fails while listening: the exception is logged, no more.
RenotifyError(w) ==
  /\ busy[w] /\ batch[w] = {} /\ returned[w] > 0
  /\ phase[w] = "listening"
  /\ Fault
  /\ busy' = [busy EXCEPT ![w] = FALSE]
  /\ returned' = [returned EXCEPT ![w] = 0]
  /\ holes' = holes \cup {"renotify"}
  /\ UNCHANGED <<rows, batch, active, link, stranded, enqueued>>

-----------------------------------------------------------------------------
(* Faults of the process and of its connections.                           *)

\* The LISTEN connection drops; what it had buffered may be lost with it.
Disconnect(w) ==
  /\ conn[w] = "up"
  /\ Fault
  /\ conn' = [conn EXCEPT ![w] = "lost"]
  /\ \E kept \in 0 .. inbox[w] :
       /\ inbox' = [inbox EXCEPT ![w] = kept]
       /\ holes' = IF kept < inbox[w] THEN holes \cup {"reconnect"} ELSE holes
  /\ UNCHANGED <<rows, call, lock, phase, stranded, enqueued>>

\* The lock's own connection dies; nothing in the process looks at it.
LoseLock(w) ==
  /\ LockDrops
  /\ lock = w
  /\ Fault
  /\ lock' = NoWorker
  /\ holes' = holes \cup {"zombie"}
  /\ UNCHANGED <<rows, call, phase, conn, inbox, stranded, enqueued>>

\* SIGTERM, SIGKILL, or an exception in main() outside the listen loop.
Crash(w) ==
  /\ phase[w] # "down"
  /\ Fault
  /\ phase' = [phase EXCEPT ![w] = "down"]
  /\ conn' = [conn EXCEPT ![w] = "none"]
  /\ inbox' = [inbox EXCEPT ![w] = 0]
  /\ busy' = [busy EXCEPT ![w] = FALSE]
  /\ batch' = [batch EXCEPT ![w] = {}]
  /\ active' = [active EXCEPT ![w] = {}]
  /\ returned' = [returned EXCEPT ![w] = 0]
  /\ lock' = IF lock = w THEN NoWorker ELSE lock
  /\ stranded' = stranded \cup batch[w]
  /\ UNCHANGED <<rows, holes, enqueued>>

-----------------------------------------------------------------------------

ProcessOne(w, o) ==
  \/ \E outcome \in {"done", "skipped"} : Complete(w, o, outcome)
  \/ FailPermanently(w, o)
  \/ FailTransient(w, o)
  \/ FindMissing(w, o)

Work(w) ==
  \/ Start(w) \/ Recover(w) \/ Scan(w) \/ Connect(w)
  \/ Claim(w, {}) \/ ClaimNothing(w, {})
  \/ \E o \in Offers : Load(w, o) \/ ProcessOne(w, o)
  \/ EndBatch(w)

Misfortune(w) ==
  \/ \E locked \in SUBSET Offers \ {{}} : Claim(w, locked) \/ ClaimNothing(w, locked)
  \/ \E o \in Offers : Unhandled(w, o)
  \/ ClaimError(w) \/ RenotifyError(w) \/ Disconnect(w) \/ LoseLock(w) \/ Crash(w)

Others ==
  \/ \E o \in Offers : Enqueue(o) \/ EnqueueSilently(o) \/ Withdraw(o) \/ Vanish(o)
  \/ EnqueueAll

Next == Others \/ \E w \in Workers : Work(w) \/ Misfortune(w)

Spec == Init /\ [][Next]_vars

\* systemd restarts a process that is down, and a running process continues:
\* every step of its own loop that stays possible is taken.  Producers, faults
\* and the outcome of a row are not subject to fairness.
FairSpec == Spec /\ \A w \in Workers : WF_vars(Work(w))

-----------------------------------------------------------------------------
(* Properties.                                                             *)

\* Type invariant, with the shape of a process_pending() call: it runs in the sweep
\* or in the listen loop, holds rows only until it returns, loads rows
\* only from its own batch, and never more than the semaphore admits.
TypeOK ==
  /\ status \in [Offers -> Status]
  /\ attempts \in [Offers -> Nat]
  /\ failures \in [Offers -> Nat]
  /\ lock \in Workers \cup {NoWorker}
  /\ phase \in [Workers -> Phase]
  /\ conn \in [Workers -> {"none", "up", "lost"}]
  /\ inbox \in [Workers -> Nat]
  /\ busy \in [Workers -> BOOLEAN]
  /\ batch \in [Workers -> SUBSET Offers]
  /\ active \in [Workers -> SUBSET Offers]
  /\ returned \in [Workers -> Nat]
  /\ holes \subseteq Hole
  /\ stranded \subseteq Offers
  /\ enqueued \in 0 .. MaxEnqueues
  /\ faults \in 0 .. MaxFaults
  /\ \A w \in Workers : active[w] \subseteq batch[w]
  /\ \A w \in Workers : batch[w] # {} => busy[w]
  /\ \A w \in Workers : busy[w] => phase[w] \in {"sweeping", "listening"}
  /\ \A w \in Workers : Cardinality(active[w]) <= Concurrency

\* "The 'in_progress' marker is the ownership signal" (queue.py): two processes
\* never work on the same row.
ClaimsDisjoint ==
  \A v, w \in Workers : v # w => batch[v] \cap batch[w] = {}

\* Past recovery, every in_progress row is being worked on by the running
\* process, except rows an unhandled error of this very run has stranded: a
\* crash leaves nothing behind that the next start does not pick up.
RecoveredOwnership ==
  \A w \in Workers :
    Unlocked = {} /\ phase[w] \in {"scanning", "sweeping", "listening"}
      => InProgress \subseteq batch[w] \cup stranded

\* No lost wake-up: one process_pending() per notification is enough for the
\* rows that are pending, BatchSize rows to a notification, counting the one the
\* open call still owes for its transient results -- unless one of the events
\* named in holes happened since the last sweep.
WakeupCoverage ==
  \A w \in Workers :
    phase[w] = "listening" /\ Unlocked = {} /\ holes = {}
      => Cardinality(Pending) <= BatchSize * inbox[w] + returned[w]

\* FAILED means that the retry budget was really spent on failures.  It holds
\* for a stage that counts failures only (the notifier).
FailedMeansExhausted ==
  \A o \in Offers : status[o] = "failed" => failures[o] >= MaxAttempts

\* The queue implements the abstract work queue as long as the lock lives as
\* long as its process: rows are held exclusively, and recovery only ever
\* returns rows that nobody holds.
WorkStateOf(s) ==
  CASE s = "pending" -> "todo"
    [] s = "in_progress" -> "taken"
    [] s \in Terminal -> "closed"
    [] OTHER -> s

WQ == INSTANCE WorkQueue WITH
        work <- [o \in Offers |-> WorkStateOf(status[o])],
        holder <- batch

ImplementsWorkQueue == WQ!WSpec

\* Once the worker listens and no hole has occurred, a pending row is claimed
\* (or cancelled): notifications and self-notifications drain the queue.
PendingIsDrained ==
  \A o \in Offers, w \in Workers :
    (status[o] = "pending" /\ phase[w] = "listening" /\ holes = {})
      ~> (status[o] # "pending" \/ holes # {} \/ phase[w] = "down")

\* A start settles what it found: every row pending after recovery reaches a
\* terminal status, whatever crash comes next, unless a row lock hid it from the
\* sweep's last claim or an unhandled error stranded it.
RestartSettles ==
  \A o \in Offers, w \in Workers :
    (status[o] = "pending" /\ phase[w] = "scanning")
      ~> \/ status[o] \in Terminal \cup {"gone"}
         \/ phase[w] = "listening" /\ (o \in stranded \/ "locked" \in holes)

\* A sweep retries its transient failures in a loop with no pause; the attempt
\* budget is what makes the loop end.
SweepEnds ==
  \A w \in Workers : phase[w] = "sweeping" ~> phase[w] # "sweeping"

=============================================================================
