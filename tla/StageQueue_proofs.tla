-------------------------- MODULE StageQueue_proofs --------------------------
(***************************************************************************)
(* Proofs about StageQueue, for every number of workers and rows, every    *)
(* batch size, semaphore, retry budget and bound:                          *)
(*   TypeCorrect         Spec => []TypeOK                                  *)
(*   ExclusiveClaims     Spec => []ClaimsDisjoint, if no lock is lost      *)
(*   NoForgottenRow      Spec => []RecoveredOwnership                      *)
(*   GivesUpAfterBudget  Spec => []FailedMeansExhausted, if only failures  *)
(*                       are counted and none is permanent                 *)
(*   ImplementsQueue     Spec => ImplementsWorkQueue, if no lock is lost   *)
(*   NoLostWakeup        Spec => []WakeupCoverage                          *)
(***************************************************************************)
EXTENDS StageQueue, FiniteSetTheorems, WellFoundedInduction, TLAPS

-----------------------------------------------------------------------------
(* The steps, one by one: every proof about a step follows this list.      *)

\* Next is the disjunction of these actions and nothing else.
LEMMA StepCases ==
  ASSUME Next
  PROVE  \/ \E o \in Offers : Enqueue(o) \/ EnqueueSilently(o) \/ Withdraw(o) \/ Vanish(o)
         \/ EnqueueAll
         \/ \E w \in Workers : Start(w) \/ Recover(w) \/ Scan(w) \/ Connect(w)
         \/ \E w \in Workers, ids \in SUBSET Offers : Claim(w, ids) \/ ClaimNothing(w, ids)
         \/ \E w \in Workers, o \in Offers : Load(w, o)
         \/ \E w \in Workers, o \in Offers : \E s \in {"done", "skipped"} : Complete(w, o, s)
         \/ \E w \in Workers, o \in Offers : FailPermanently(w, o) \/ FailTransient(w, o)
         \/ \E w \in Workers, o \in Offers : FindMissing(w, o) \/ Unhandled(w, o)
         \/ \E w \in Workers : EndBatch(w) \/ RenotifyError(w) \/ ClaimError(w)
         \/ \E w \in Workers : Disconnect(w) \/ LoseLock(w) \/ Crash(w)
<1>1. CASE Others
  BY <1>1 DEF Others
<1>2. CASE \E w \in Workers : Work(w)
  <2>1. PICK w \in Workers : Work(w)
    BY <1>2
  <2>2. {} \in SUBSET Offers
    OBVIOUS
  <2> QED
    BY <2>1, <2>2 DEF Work, ProcessOne
<1>3. CASE \E w \in Workers : Misfortune(w)
  BY <1>3 DEF Misfortune
<1> QED
  BY <1>1, <1>2, <1>3 DEF Next

-----------------------------------------------------------------------------
(* Type correctness.                                                       *)

\* All of TypeOK but the bound on the loaded rows.
Typed ==
  /\ status \in [Offers -> Status]
  /\ attempts \in [Offers -> Nat]
  /\ failures \in [Offers -> Nat]
  /\ lock \in Workers \cup {NoWorker}
  /\ phase \in [Workers -> Phase]
  /\ conn \in [Workers -> {"none", "up", "lost"}]
  /\ inbox \in [Workers -> Nat]
  /\ busy \in [Workers -> BOOLEAN]
  /\ batch \in [Workers -> SUBSET Offers]
  /\ active \in [Workers -> SUBSET Offers]
  /\ returned \in [Workers -> Nat]
  /\ holes \subseteq Hole
  /\ stranded \subseteq Offers
  /\ enqueued \in 0 .. MaxEnqueues
  /\ faults \in 0 .. MaxFaults
  /\ \A w \in Workers : active[w] \subseteq batch[w]
  /\ \A w \in Workers : batch[w] # {} => busy[w]
  /\ \A w \in Workers : busy[w] => phase[w] \in {"sweeping", "listening"}

Semaphore == \A w \in Workers : Cardinality(active[w]) <= Concurrency

LEMMA TypeOKParts == TypeOK <=> Typed /\ Semaphore
  BY DEF TypeOK, Typed, Semaphore

\* The holes a notification or a zombie adds are holes.
LEMMA HolesTyped ==
  /\ NotifyHoles \subseteq Hole
  /\ ZombieHole \subseteq Hole
  BY DEF NotifyHoles, ZombieHole, Hole, MissedBy

\* A delivery keeps the inboxes typed.
LEMMA DeliveredTyped ==
  ASSUME Typed
  PROVE  Delivered \in [Workers -> Nat]
  BY DEF Typed, Delivered

\* The claim takes existing pending rows.
LEMMA LowestSubset ==
  ASSUME NEW S, NEW n
  PROVE  Lowest(S, n) \subseteq S
  BY DEF Lowest

LEMMA TypedStep ==
  ASSUME Typed, Next
  PROVE  Typed'
<1> USE StageAssumption DEF rows, call, link, hist
<1>1. ASSUME NEW o \in Offers, Enqueue(o)
      PROVE  Typed'
  BY <1>1, HolesTyped, DeliveredTyped DEF Enqueue, Reset, Notify, Typed, Status
<1>2. ASSUME NEW o \in Offers, EnqueueSilently(o)
      PROVE  Typed'
  BY <1>2 DEF EnqueueSilently, Reset, Typed, Status, Hole
<1>3. ASSUME NEW o \in Offers, Withdraw(o) \/ Vanish(o)
      PROVE  Typed'
  <2>1. status' \in [Offers -> Status]
    BY <1>3 DEF Withdraw, Vanish, Typed, Status
  <2>2. UNCHANGED <<attempts, failures, call, link, hist, enqueued, faults>>
    BY <1>3 DEF Withdraw, Vanish
  <2> QED
    BY <2>1, <2>2, Zenon DEF Typed
<1>4. ASSUME EnqueueAll
      PROVE  Typed'
  <2>1. {"bulk"} \subseteq Hole
    BY DEF Hole
  <2> QED
    BY <1>4, <2>1, HolesTyped, DeliveredTyped DEF EnqueueAll, Reset, Typed, Status
<1>5. ASSUME NEW w \in Workers, Start(w) \/ Scan(w) \/ Connect(w)
      PROVE  Typed'
  <2>1. /\ phase' \in [Workers -> Phase] /\ conn' \in [Workers -> {"none", "up", "lost"}]
        /\ inbox' \in [Workers -> Nat] /\ lock' \in Workers \cup {NoWorker}
    BY <1>5 DEF Start, Scan, Connect, Typed, Phase
  <2>2. \A v \in Workers : busy'[v] => phase'[v] \in {"sweeping", "listening"}
    BY <1>5 DEF Start, Scan, Connect, Typed
  <2>3. UNCHANGED <<rows, call, hist, enqueued, faults>>
    BY <1>5 DEF Start, Scan, Connect
  <2> QED
    BY <2>1, <2>2, <2>3, Zenon DEF Typed
<1>6. ASSUME NEW w \in Workers, Recover(w)
      PROVE  Typed'
  BY <1>6, HolesTyped DEF Recover, Typed, Phase, Status
<1>7. ASSUME NEW w \in Workers, NEW ids \in SUBSET Offers, Claim(w, ids)
      PROVE  Typed'
  <2> DEFINE taken == Lowest(Pending \ ids, BatchSize)
  <2>1. taken \subseteq Offers
    BY LowestSubset DEF Pending
  <2>2. inbox' \in [Workers -> Nat]
    BY <1>7 DEF Claim, MayClaim, Consume, Typed
  <2>3. faults' \in 0 .. MaxFaults
    BY <1>7 DEF Claim, SkipLocked, Fault, Typed
  <2>4. holes' \subseteq Hole
    BY <1>7 DEF Claim, Typed, Hole
  <2>5. /\ status' \in [Offers -> Status]
        /\ batch' \in [Workers -> SUBSET Offers]
        /\ busy' \in [Workers -> BOOLEAN]
        /\ returned' \in [Workers -> Nat]
    BY <1>7, <2>1 DEF Claim, Typed, Status
  <2> QED
    BY <1>7, <2>2, <2>3, <2>4, <2>5 DEF Claim, MayClaim, Typed
<1>8. ASSUME NEW w \in Workers, NEW ids \in SUBSET Offers, ClaimNothing(w, ids)
      PROVE  Typed'
  <2>1. inbox' \in [Workers -> Nat]
    BY <1>8 DEF ClaimNothing, MayClaim, Consume, Typed
  <2>2. faults' \in 0 .. MaxFaults
    BY <1>8 DEF ClaimNothing, SkipLocked, Fault, Typed
  <2>3. holes' \subseteq Hole
    <3>1. {"locked"} \subseteq Hole
      BY DEF Hole
    <3> QED
      BY <1>8, <3>1, HolesTyped DEF ClaimNothing, Typed
  <2> QED
    BY <1>8, <2>1, <2>2, <2>3 DEF ClaimNothing, Typed, Phase
<1>9. ASSUME NEW w \in Workers, NEW o \in Offers, Load(w, o)
      PROVE  Typed'
  <2>1. /\ batch' \in [Workers -> SUBSET Offers] /\ active' \in [Workers -> SUBSET Offers]
        /\ \A v \in Workers : batch'[v] # {} => batch[v] # {}
    BY <1>9 DEF Load, Typed
  <2>2. \A v \in Workers : active'[v] \subseteq batch'[v]
    BY <1>9 DEF Load, Typed
  <2>3. UNCHANGED <<rows, busy, returned, link, hist, enqueued, faults>>
    BY <1>9 DEF Load
  <2> QED
    BY <2>1, <2>2, <2>3, Zenon DEF Typed
<1>10. ASSUME NEW w \in Workers, NEW o \in Offers, NEW s \in {"done", "skipped"},
              Complete(w, o, s)
       PROVE  Typed'
  BY <1>10 DEF Complete, Finish, Typed, Status
<1>11. ASSUME NEW w \in Workers, NEW o \in Offers, FailPermanently(w, o)
       PROVE  Typed'
  BY <1>11 DEF FailPermanently, Finish, Typed, Status
<1>12. ASSUME NEW w \in Workers, NEW o \in Offers, FailTransient(w, o)
       PROVE  Typed'
  BY <1>12 DEF FailTransient, Finish, Typed, Status
<1>13. ASSUME NEW w \in Workers, NEW o \in Offers, FindMissing(w, o) \/ Unhandled(w, o)
       PROVE  Typed'
  <2>1. /\ batch' \in [Workers -> SUBSET Offers]
        /\ active' \in [Workers -> SUBSET Offers]
        /\ \A v \in Workers : active'[v] \subseteq batch'[v]
        /\ \A v \in Workers : batch'[v] # {} => busy'[v]
        /\ \A v \in Workers : busy'[v] => phase'[v] \in {"sweeping", "listening"}
    BY <1>13 DEF FindMissing, Unhandled, Finish, Typed
  <2>2. returned' \in [Workers -> Nat]
    BY <1>13 DEF FindMissing, Unhandled, Typed
  <2>4. stranded' \subseteq Offers
    <3>1. stranded' \subseteq stranded \cup {o}
      BY <1>13 DEF FindMissing, Unhandled
    <3> QED
      BY <3>1 DEF Typed
  <2>3. faults' \in 0 .. MaxFaults
    BY <1>13 DEF FindMissing, Unhandled, Fault, Typed
  <2> QED
    <3>1. UNCHANGED <<status, attempts, failures, busy, lock, phase, conn, inbox,
                      holes, enqueued>>
      BY <1>13 DEF FindMissing, Unhandled, Finish
    <3> QED
      BY <2>1, <2>2, <2>3, <2>4, <3>1 DEF Typed
<1>14. ASSUME NEW w \in Workers, EndBatch(w)
       PROVE  Typed'
  BY <1>14, HolesTyped, DeliveredTyped DEF EndBatch, Notify, Typed
<1>15. ASSUME NEW w \in Workers, RenotifyError(w)
       PROVE  Typed'
  BY <1>15 DEF RenotifyError, Fault, Typed, Hole
<1>16. ASSUME NEW w \in Workers, ClaimError(w)
       PROVE  Typed'
  <2>1. PICK ids \in {{}, Lowest(Pending, BatchSize)} :
          /\ status' = [o \in Offers |-> IF o \in ids THEN "in_progress" ELSE status[o]]
          /\ stranded' = stranded \cup ids
    BY <1>16 DEF ClaimError
  <2>2. ids \subseteq Offers
    BY LowestSubset DEF Pending
  <2>3. inbox' \in [Workers -> Nat]
    BY <1>16 DEF ClaimError, MayClaim, Consume, Typed
  <2>4. holes' \subseteq Hole /\ faults' \in 0 .. MaxFaults
    BY <1>16 DEF ClaimError, Fault, Typed, Hole
  <2> QED
    BY <1>16, <2>1, <2>2, <2>3, <2>4 DEF ClaimError, Typed, Status
<1>17. ASSUME NEW w \in Workers, Disconnect(w)
       PROVE  Typed'
  BY <1>17 DEF Disconnect, Fault, Typed, Hole
<1>18. ASSUME NEW w \in Workers, LoseLock(w)
       PROVE  Typed'
  BY <1>18 DEF LoseLock, Fault, Typed, Hole
<1>19. ASSUME NEW w \in Workers, Crash(w)
       PROVE  Typed'
  <2>1. /\ batch' \in [Workers -> SUBSET Offers]
        /\ active' \in [Workers -> SUBSET Offers]
        /\ \A v \in Workers : active'[v] \subseteq batch'[v]
        /\ \A v \in Workers : batch'[v] # {} => busy'[v]
        /\ \A v \in Workers : busy'[v] => phase'[v] \in {"sweeping", "listening"}
    BY <1>19 DEF Crash, Typed
  <2>2. /\ phase' \in [Workers -> Phase]
        /\ conn' \in [Workers -> {"none", "up", "lost"}]
        /\ inbox' \in [Workers -> Nat]
        /\ busy' \in [Workers -> BOOLEAN]
        /\ returned' \in [Workers -> Nat]
    BY <1>19 DEF Crash, Typed, Phase
  <2>3. lock' \in Workers \cup {NoWorker} /\ stranded' \subseteq Offers
    BY <1>19 DEF Crash, Typed
  <2>4. faults' \in 0 .. MaxFaults
    BY <1>19 DEF Crash, Fault, Typed
  <2> QED
    <3>1. UNCHANGED <<status, attempts, failures, holes, enqueued>>
      BY <1>19 DEF Crash
    <3> QED
      BY <2>1, <2>2, <2>3, <2>4, <3>1 DEF Typed
<1> QED
  BY StepCases, <1>1, <1>2, <1>3, <1>4, <1>5, <1>6, <1>7, <1>8, <1>9, <1>10, <1>11,
     <1>12, <1>13, <1>14, <1>15, <1>16, <1>17, <1>18, <1>19

-----------------------------------------------------------------------------

\* Every step either leaves a worker's loaded rows alone, takes some of them
\* away, or adds one row below the semaphore's bound.
LEMMA ActiveStep ==
  ASSUME Typed, Next, NEW w \in Workers
  PROVE  \/ active'[w] \subseteq active[w]
         \/ /\ Cardinality(active[w]) < Concurrency
            /\ \E o \in Offers : active'[w] = active[w] \cup {o}
<1> USE DEF rows, call, link, hist
<1>1. ASSUME NEW v \in Workers, NEW o \in Offers, Load(v, o)
      PROVE  \/ active'[w] \subseteq active[w]
             \/ /\ Cardinality(active[w]) < Concurrency
                /\ \E p \in Offers : active'[w] = active[w] \cup {p}
  BY <1>1 DEF Load, Typed
<1>2. ASSUME NEW v \in Workers, NEW o \in Offers, Finish(v, o)
      PROVE  active'[w] \subseteq active[w]
  BY <1>2 DEF Finish, Typed
<1>3. ASSUME NEW v \in Workers, Crash(v)
      PROVE  active'[w] \subseteq active[w]
  BY <1>3 DEF Crash, Typed
<1>4. CASE \E v \in Workers, o \in Offers : Finish(v, o)
  BY <1>2, <1>4
<1>5. CASE UNCHANGED active
  BY <1>5
<1> QED
  BY StepCases, <1>1, <1>3, <1>4, <1>5
  DEF Enqueue, EnqueueSilently, EnqueueAll, Reset, Withdraw, Vanish, Start, Recover,
      Scan, Connect, Claim, ClaimNothing, ClaimError, Complete, FailPermanently,
      FailTransient, FindMissing, Unhandled, EndBatch, RenotifyError, Disconnect, LoseLock

LEMMA SemaphoreStep ==
  ASSUME Typed, Semaphore, Next
  PROVE  Semaphore'
<1> SUFFICES ASSUME NEW w \in Workers
             PROVE  Cardinality(active'[w]) <= Concurrency
  BY DEF Semaphore
<1>1. active[w] \subseteq Offers /\ IsFiniteSet(active[w])
  BY StageAssumption, FS_Subset DEF Typed
<1>2. Cardinality(active[w]) \in Nat /\ Cardinality(active[w]) <= Concurrency
  BY <1>1, FS_CardinalityType DEF Semaphore
<1>3. CASE active'[w] \subseteq active[w]
  <2>1. Cardinality(active'[w]) \in Nat /\ Cardinality(active'[w]) <= Cardinality(active[w])
    BY <1>1, <1>3, FS_Subset, FS_CardinalityType
  <2> QED
    BY <1>2, <2>1, StageAssumption
<1>4. ASSUME NEW o \in Offers,
             Cardinality(active[w]) < Concurrency,
             active'[w] = active[w] \cup {o}
      PROVE  Cardinality(active'[w]) <= Concurrency
  <2>1. \/ Cardinality(active'[w]) = Cardinality(active[w])
        \/ Cardinality(active'[w]) = Cardinality(active[w]) + 1
    BY <1>1, <1>4, FS_AddElement
  <2> QED
    BY <1>2, <1>4, <2>1, StageAssumption
<1> QED
  BY ActiveStep, <1>3, <1>4

\* Initially nothing runs and no row exists.
LEMMA TypeOKInit == Init => TypeOK
<1> SUFFICES ASSUME Init
             PROVE  TypeOK
  OBVIOUS
<1>1. Typed
  BY StageAssumption DEF Init, Typed, Status, Phase
<1>2. Semaphore
  BY StageAssumption, FS_EmptySet DEF Init, Semaphore
<1> QED
  BY <1>1, <1>2, TypeOKParts

LEMMA TypeOKStep == TypeOK /\ [Next]_vars => TypeOK'
<1>1. ASSUME TypeOK, Next
      PROVE  TypeOK'
  <2>1. Typed'
    BY <1>1, TypeOKParts, TypedStep
  <2>2. Semaphore'
    BY <1>1, TypeOKParts, SemaphoreStep
  <2> QED
    BY <2>1, <2>2 DEF TypeOK, Typed, Semaphore
<1>2. TypeOK /\ UNCHANGED vars => TypeOK'
  BY DEF TypeOK, vars, rows, call, link, hist
<1> QED
  BY <1>1, <1>2

\* Every variable keeps its type, a process_pending() call holds and loads rows
\* only while it runs, and never more rows at once than the semaphore admits.
THEOREM TypeCorrect == Spec => []TypeOK
  BY TypeOKInit, TypeOKStep, PTL DEF Spec

-----------------------------------------------------------------------------
(* One process at a time.                                                  *)

\* As long as the lock's connection lives as long as its process, a running
\* process holds the lock: Start takes it, only LoseLock and Crash release it.
Locked == \A w \in Workers : phase[w] # "down" => lock = w

LEMMA LockedStep ==
  ASSUME ~LockDrops, TypeOK, Locked, [Next]_vars
  PROVE  Locked'
<1> USE DEF rows, call, link, hist
<1>1. ASSUME NEW w \in Workers, Start(w)
      PROVE  Locked'
  BY <1>1, StageAssumption DEF Start, Locked, TypeOK
<1>2. ASSUME NEW w \in Workers, Crash(w)
      PROVE  Locked'
  BY <1>2 DEF Crash, Locked, TypeOK
<1>3. ASSUME NEW w \in Workers, Recover(w) \/ Scan(w)
      PROVE  Locked'
  BY <1>3 DEF Recover, Scan, Locked, TypeOK
<1>4. ASSUME NEW w \in Workers, NEW ids \in SUBSET Offers, ClaimNothing(w, ids)
      PROVE  Locked'
  BY <1>4 DEF ClaimNothing, MayClaim, Locked, TypeOK
<1>5. CASE UNCHANGED <<lock, phase>>
  BY <1>5 DEF Locked
<1>6. ASSUME NEW w \in Workers, LoseLock(w)
      PROVE  FALSE
  BY <1>6 DEF LoseLock
<1>7. CASE UNCHANGED vars
  BY <1>7, <1>5 DEF vars
<1> QED
  BY StepCases, <1>1, <1>2, <1>3, <1>4, <1>5, <1>6, <1>7
  DEF Enqueue, EnqueueSilently, EnqueueAll, Reset, Withdraw, Vanish, Connect, Claim,
      ClaimError, Load, Complete, FailPermanently, FailTransient, FindMissing, Unhandled,
      Finish, EndBatch, RenotifyError, Disconnect

LEMMA LockedInvariant ==
  ASSUME ~LockDrops
  PROVE  Spec => []Locked
<1>1. Init => Locked
  BY DEF Init, Locked
<1>2. TypeOK /\ Locked /\ [Next]_vars => Locked'
  BY LockedStep
<1> QED
  BY <1>1, <1>2, TypeCorrect, PTL DEF Spec

\* Only a running process holds rows, and under the lock only one process runs.
LEMMA OneHolder ==
  ASSUME TypeOK, Locked, NEW v \in Workers, NEW w \in Workers,
         batch[v] # {}, phase[w] # "down"
  PROVE  v = w
<1>1. phase[v] # "down"
  BY DEF TypeOK
<1> QED
  BY <1>1 DEF Locked

\* Two processes never work on the same row, if the lock's connection lives as
\* long as its process.
THEOREM ExclusiveClaims ==
  ASSUME ~LockDrops
  PROVE  Spec => []ClaimsDisjoint
<1>1. TypeOK /\ Locked => ClaimsDisjoint
  <2> SUFFICES ASSUME TypeOK, Locked, NEW v \in Workers, NEW w \in Workers, v # w
               PROVE  batch[v] \cap batch[w] = {}
    BY DEF ClaimsDisjoint
  <2>1. batch[w] # {} => phase[w] # "down"
    BY DEF TypeOK
  <2> QED
    BY <2>1, OneHolder
<1> QED
  BY <1>1, TypeCorrect, LockedInvariant, PTL

-----------------------------------------------------------------------------
(* No row is forgotten in in_progress.                                     *)

\* The inductive form of RecoveredOwnership, free of locks and phases: whoever
\* lets go of an in_progress row without writing it leaves it in stranded, and
\* only a recovery, which resets every in_progress row, empties stranded.
Accounted ==
  \A o \in Offers :
    status[o] = "in_progress" => o \in stranded \/ \E w \in Workers : o \in batch[w]

LEMMA AccountedStep ==
  ASSUME TypeOK, Accounted, [Next]_vars
  PROVE  Accounted'
<1> USE DEF rows, call, link, hist, Accounted
<1>1. ASSUME NEW o \in Offers, Enqueue(o) \/ EnqueueSilently(o)
      PROVE  Accounted'
  BY <1>1 DEF Enqueue, EnqueueSilently, Reset, Notify, TypeOK
<1>2. CASE EnqueueAll
  BY <1>2 DEF EnqueueAll, Reset, TypeOK
<1>3. ASSUME NEW o \in Offers, Withdraw(o) \/ Vanish(o)
      PROVE  Accounted'
  BY <1>3 DEF Withdraw, Vanish, TypeOK
<1>4. ASSUME NEW w \in Workers, Recover(w)
      PROVE  Accounted'
  BY <1>4 DEF Recover, TypeOK
<1>5. ASSUME NEW w \in Workers, NEW ids \in SUBSET Offers, Claim(w, ids)
      PROVE  Accounted'
  <2> DEFINE taken == Lowest(Pending \ ids, BatchSize)
  <2>1. /\ status' = [o \in Offers |-> IF o \in taken THEN "in_progress" ELSE status[o]]
        /\ batch' = [batch EXCEPT ![w] = taken]
        /\ stranded' = stranded
        /\ ~busy[w]
    BY <1>5 DEF Claim, MayClaim
  <2>2. batch[w] = {}
    BY <2>1 DEF TypeOK
  <2> HIDE DEF taken
  <2>3. ASSUME NEW v \in Workers
        PROVE  batch[v] \subseteq batch'[v]
    BY <2>1, <2>2 DEF TypeOK
  <2>4. taken = batch'[w]
    BY <2>1 DEF TypeOK
  <2> QED
    BY <2>1, <2>3, <2>4
<1>6. ASSUME NEW w \in Workers, ClaimError(w)
      PROVE  Accounted'
  <2>1. PICK ids \in {{}, Lowest(Pending, BatchSize)} :
          /\ status' = [o \in Offers |-> IF o \in ids THEN "in_progress" ELSE status[o]]
          /\ stranded' = stranded \cup ids
    BY <1>6 DEF ClaimError
  <2>2. batch' = batch
    BY <1>6 DEF ClaimError
  <2> QED
    BY <2>1, <2>2
<1>7. ASSUME NEW w \in Workers, NEW o \in Offers, Load(w, o)
      PROVE  Accounted'
  BY <1>7 DEF Load, TypeOK
<1>8. ASSUME NEW w \in Workers, NEW o \in Offers, Finish(w, o),
             status' = status, status[o] = "gone" \/ o \in stranded',
             stranded \subseteq stranded'
      PROVE  Accounted'
  <2>1. ASSUME NEW v \in Workers
        PROVE  batch[v] \ {o} \subseteq batch'[v]
    BY <1>8 DEF Finish, TypeOK
  <2> QED
    BY <1>8, <2>1
<1>9. ASSUME NEW w \in Workers, NEW o \in Offers, Finish(w, o), stranded' = stranded,
             NEW s \in Status \ {"in_progress"}, status' = [status EXCEPT ![o] = s]
      PROVE  Accounted'
  <2>1. \A p \in Offers : status'[p] = "in_progress" => p # o /\ status[p] = "in_progress"
    BY <1>9 DEF TypeOK
  <2>2. ASSUME NEW v \in Workers
        PROVE  batch[v] \ {o} \subseteq batch'[v]
    BY <1>9 DEF Finish, TypeOK
  <2> QED
    BY <1>9, <2>1, <2>2
<1>10. ASSUME NEW w \in Workers, Crash(w)
       PROVE  Accounted'
  <2>1. status' = status /\ stranded' = stranded \cup batch[w]
    BY <1>10 DEF Crash
  <2>2. ASSUME NEW v \in Workers
        PROVE  batch[v] \subseteq batch'[v] \cup stranded'
    BY <1>10, <2>1 DEF Crash, TypeOK
  <2> QED
    BY <2>1, <2>2
<1>11. CASE UNCHANGED <<status, batch, stranded>>
  BY <1>11
<1>12. ASSUME NEW w \in Workers, NEW o \in Offers,
              \/ \E s \in {"done", "skipped"} : Complete(w, o, s)
              \/ FailPermanently(w, o) \/ FailTransient(w, o)
       PROVE  Accounted'
  <2>1. Finish(w, o) /\ stranded' = stranded
    BY <1>12 DEF Complete, FailPermanently, FailTransient
  <2>2. \E s \in Status \ {"in_progress"} : status' = [status EXCEPT ![o] = s]
    BY <1>12 DEF Complete, FailPermanently, FailTransient, Status
  <2> QED
    BY <1>9, <2>1, <2>2
<1>13. ASSUME NEW w \in Workers, NEW o \in Offers, FindMissing(w, o) \/ Unhandled(w, o)
       PROVE  Accounted'
  BY <1>8, <1>13 DEF FindMissing, Unhandled
<1>14. CASE UNCHANGED vars
  BY <1>14 DEF vars
<1>15. ASSUME NEW w \in Workers,
              \/ Start(w) \/ Scan(w) \/ Connect(w) \/ EndBatch(w) \/ RenotifyError(w)
              \/ Disconnect(w) \/ LoseLock(w)
              \/ \E ids \in SUBSET Offers : ClaimNothing(w, ids)
       PROVE  Accounted'
  BY <1>11, <1>15 DEF Start, Scan, Connect, EndBatch, RenotifyError, Disconnect, LoseLock,
     ClaimNothing
<1> HIDE DEF Accounted
<1> QED
  BY StepCases, <1>1, <1>2, <1>3, <1>4, <1>5, <1>6, <1>7, <1>10, <1>12, <1>13, <1>14, <1>15

\* After recovery, in_progress rows are those of the running call and those an
\* unhandled error has stranded in this very run.
THEOREM NoForgottenRow == Spec => []RecoveredOwnership
<1>1. Init => Accounted
  BY DEF Init, Accounted
<1>2. TypeOK /\ Accounted /\ [Next]_vars => Accounted'
  BY AccountedStep
<1>3. TypeOK /\ Accounted => RecoveredOwnership
  <2> SUFFICES ASSUME TypeOK, Accounted, NEW w \in Workers, Unlocked = {},
                      phase[w] \in {"scanning", "sweeping", "listening"}
               PROVE  InProgress \subseteq batch[w] \cup stranded
    BY DEF RecoveredOwnership
  <2>1. ASSUME NEW v \in Workers, v # w
        PROVE  batch[v] = {}
    <3>1. lock = w
      BY DEF Unlocked
    <3>2. phase[v] = "down"
      BY <2>1, <3>1 DEF Unlocked
    <3> QED
      BY <3>2 DEF TypeOK
  <2> QED
    BY <2>1 DEF Accounted, InProgress
<1> QED
  BY <1>1, <1>2, <1>3, TypeCorrect, PTL DEF Spec

-----------------------------------------------------------------------------
(* No lost wake-up.                                                        *)

\* A set of natural numbers has a least element.
LEMMA LeastOf ==
  ASSUME NEW S \in SUBSET Nat, S # {}
  PROVE  \E m \in S : \A x \in S : m <= x
<1> DEFINE less == OpToRel(<, Nat)
<1>1. IsWellFoundedOn(less, Nat)
  BY NatLessThanWellFounded
<1> HIDE DEF less
<1>2. PICK m \in S : \A x \in S : ~(<<x, m>> \in less)
  BY <1>1, WFMin
<1>3. ASSUME NEW x \in S, x < m PROVE FALSE
  <2>1. <<x, m>> \in less
    BY <1>3 DEF less, OpToRel
  <2>2. QED
    BY <1>2, <2>1
<1>4. QED
  BY <1>2, <1>3

\* The greatest of a finite set: the one with the fewest above it.
LEMMA GreatestOf ==
  ASSUME NEW S \in SUBSET Nat, S # {}, IsFiniteSet(S)
  PROVE  \E m \in S : \A x \in S : x <= m
<1> DEFINE above(x) == {p \in S : p > x}
           counts == {Cardinality(above(x)) : x \in S}
<1>1. \A x \in S : above(x) \in SUBSET S /\ IsFiniteSet(above(x)) /\ Cardinality(above(x)) \in Nat
  BY FS_Subset, FS_CardinalityType
<1>2. counts \in SUBSET Nat /\ counts # {}
  BY <1>1
<1> HIDE DEF above
<1>3. PICK m \in S : \A x \in S : Cardinality(above(m)) <= Cardinality(above(x))
  <2>1. PICK c \in counts : \A d \in counts : c <= d
    BY <1>2, LeastOf
  <2>2. QED
    BY <2>1
<1>4. ASSUME NEW x \in S, x > m PROVE FALSE
  <2>1. above(x) \in SUBSET above(m) /\ x \in above(m) /\ x \notin above(x)
    <3>1. ASSUME NEW p \in S, p > x PROVE p > m
      BY <1>4, <3>1
    <3>2. x \notin above(x) /\ x \in above(m)
      BY <1>4 DEF above
    <3>3. QED
      BY <3>1, <3>2 DEF above
  <2>2. Cardinality(above(x)) <= Cardinality(above(m)) /\ Cardinality(above(x)) # Cardinality(above(m))
    BY <1>1, <2>1, FS_Subset
  <2>3. QED
    BY <1>1, <1>3, <2>2
<1>5. QED
  BY <1>3, <1>4

\* A claim takes at most n rows, and it takes n if it leaves any.
LEMMA LowestBounds ==
  ASSUME NEW S \in SUBSET Nat, IsFiniteSet(S), NEW n \in Nat \ {0}
  PROVE  /\ IsFiniteSet(Lowest(S, n)) /\ Cardinality(Lowest(S, n)) <= n
         /\ IsFiniteSet(S \ Lowest(S, n))
         /\ \/ Cardinality(S \ Lowest(S, n)) = 0
            \/ Cardinality(S \ Lowest(S, n)) <= Cardinality(S) - n
<1> DEFINE L == Lowest(S, n)
           below(x) == {p \in S : p < x}
<1>1. /\ L \in SUBSET S /\ IsFiniteSet(L) /\ Cardinality(L) \in Nat
      /\ IsFiniteSet(S \ L) /\ Cardinality(S) \in Nat
  BY FS_Subset, FS_CardinalityType DEF Lowest
<1>2. \A x : IsFiniteSet(below(x)) /\ Cardinality(below(x)) \in Nat
  BY FS_Subset, FS_CardinalityType
<1>3. \A x \in S : x \in L <=> Cardinality(below(x)) < n
  BY DEF Lowest
<1> HIDE DEF L, below
<1>4. Cardinality(L) <= n
  <2>1. CASE L = {}
    BY <2>1, FS_EmptySet
  <2>2. CASE L # {}
    <3>1. PICK m \in L : \A x \in L : x <= m
      BY <1>1, <2>2, GreatestOf
    <3>2. L \in SUBSET (below(m) \cup {m})
      BY <1>1, <3>1 DEF below
    <3> DEFINE B == below(m)
    <3>3. /\ IsFiniteSet(B \cup {m})
          /\ Cardinality(B \cup {m}) <= Cardinality(B) + 1
      <4>1. IsFiniteSet(B) /\ Cardinality(B) \in Nat
        BY <1>2
      <4> HIDE DEF B
      <4>2. Cardinality(B \cup {m}) = IF m \in B THEN Cardinality(B) ELSE Cardinality(B) + 1
        BY <4>1, FS_AddElement
      <4>3. QED
        BY <4>1, <4>2, FS_AddElement
    <3>4. Cardinality(L) <= Cardinality(below(m) \cup {m}) /\ Cardinality(below(m) \cup {m}) \in Nat
      BY <3>2, <3>3, FS_Subset, FS_CardinalityType
    <3>5. Cardinality(below(m)) < n
      BY <1>1, <1>3, <3>1
    <3>6. QED
      BY <1>1, <1>2, <3>3, <3>4, <3>5
  <2>3. QED
    BY <2>1, <2>2
<1>5. Cardinality(S \ L) = Cardinality(S) - Cardinality(L)
  <2>1. S \cap L = L
    BY <1>1
  <2>2. QED
    BY <1>1, <2>1, FS_Difference
<1>6. S \ L # {} => n <= Cardinality(L)
  <2>1. SUFFICES ASSUME S \ L # {} PROVE n <= Cardinality(L)
    OBVIOUS
  <2>2. PICK m \in S \ L : \A x \in S \ L : m <= x
    BY <2>1, LeastOf
  <2>3. below(m) \in SUBSET L
    <3>1. ASSUME NEW x \in S, x < m PROVE x \in L
      BY <2>2, <3>1
    <3>2. QED
      BY <3>1 DEF below
  <2>4. Cardinality(below(m)) <= Cardinality(L)
    BY <1>1, <2>3, FS_Subset
  <2>5. n <= Cardinality(below(m))
    BY <1>2, <1>3, <2>2
  <2>6. QED
    BY <1>1, <1>2, <2>4, <2>5
<1>7. QED
  <2>1. S \ L = {} => Cardinality(S \ L) = 0
    BY FS_EmptySet
  <2>2. QED
    BY <1>1, <1>4, <1>5, <1>6, <2>1 DEF L

\* What a call may still owe: its results, and the rows it holds, are those of one batch.
CallBound ==
  \A w \in Workers :
    /\ ~busy[w] => returned[w] = 0
    /\ returned[w] + Cardinality(batch[w]) <= BatchSize

LEMMA CallBoundStep ==
  ASSUME TypeOK, CallBound, Next
  PROVE  CallBound'
<1> USE DEF rows, call, link, hist
<1>0. \A w \in Workers : /\ IsFiniteSet(batch[w]) /\ Cardinality(batch[w]) \in Nat
                         /\ returned[w] \in Nat
  BY StageAssumption, FS_Subset, FS_CardinalityType DEF TypeOK
<1>1. CASE UNCHANGED <<busy, batch, returned>>
  BY <1>1 DEF CallBound
<1>2. ASSUME NEW w \in Workers, NEW ids \in SUBSET Offers, Claim(w, ids)
      PROVE  CallBound'
  <2> DEFINE taken == Lowest(Pending \ ids, BatchSize)
  <2>1. /\ busy' = [busy EXCEPT ![w] = TRUE] /\ batch' = [batch EXCEPT ![w] = taken]
        /\ returned' = [returned EXCEPT ![w] = 0]
    BY <1>2 DEF Claim
  <2>2. Pending \ ids \in SUBSET Nat /\ IsFiniteSet(Pending \ ids)
    BY StageAssumption, FS_Subset DEF Pending
  <2>3. Cardinality(taken) <= BatchSize /\ Cardinality(taken) \in Nat
    BY <2>2, StageAssumption, LowestBounds, FS_CardinalityType
  <2> HIDE DEF taken
  <2>4. QED
    BY <2>1, <2>3 DEF CallBound, TypeOK
<1>3. ASSUME NEW w \in Workers, NEW o \in Offers, Load(w, o)
      PROVE  CallBound'
  <2>1. /\ UNCHANGED <<busy, returned>>
        /\ batch' = batch \/ batch' = [batch EXCEPT ![w] = @ \ {o}]
    BY <1>3 DEF Load
  <2>2. ASSUME NEW v \in Workers
        PROVE  Cardinality(batch'[v]) \in Nat /\ Cardinality(batch'[v]) <= Cardinality(batch[v])
    <3>1. batch'[v] \in SUBSET batch[v]
      BY <2>1 DEF TypeOK
    <3>2. QED
      BY <1>0, <3>1, FS_Subset, FS_CardinalityType
  <2>3. QED
    BY <1>0, <2>1, <2>2, StageAssumption DEF CallBound
<1>4. ASSUME NEW w \in Workers, NEW o \in Offers,
             \/ \E s \in {"done", "skipped"} : Complete(w, o, s)
             \/ FailPermanently(w, o) \/ FailTransient(w, o) \/ FindMissing(w, o) \/ Unhandled(w, o)
      PROVE  CallBound'
  <2>1. /\ o \in active[w] /\ batch' = [batch EXCEPT ![w] = @ \ {o}] /\ busy' = busy
        /\ returned' = returned \/ returned' = [returned EXCEPT ![w] = @ + 1]
    BY <1>4 DEF Complete, FailPermanently, FailTransient, FindMissing, Unhandled, Finish
  <2>2. o \in batch[w] /\ busy[w]
    BY <2>1 DEF TypeOK
  <2>3. Cardinality(batch[w] \ {o}) = Cardinality(batch[w]) - 1
    BY <1>0, <2>2, FS_RemoveElement
  <2>4. QED
    BY <1>0, <2>1, <2>2, <2>3, StageAssumption DEF CallBound, TypeOK
<1>5. ASSUME NEW w \in Workers, EndBatch(w) \/ RenotifyError(w)
      PROVE  CallBound'
  <2>1. /\ batch' = batch /\ busy' = [busy EXCEPT ![w] = FALSE]
        /\ returned' = [returned EXCEPT ![w] = 0]
    BY <1>5 DEF EndBatch, RenotifyError
  <2>2. QED
    BY <1>0, <2>1, StageAssumption DEF CallBound, TypeOK
<1>6. ASSUME NEW w \in Workers, Crash(w)
      PROVE  CallBound'
  BY <1>0, <1>6, FS_EmptySet, StageAssumption DEF Crash, CallBound, TypeOK
<1> QED
  BY StepCases, <1>1, <1>2, <1>3, <1>4, <1>5, <1>6
  DEF Enqueue, EnqueueSilently, EnqueueAll, Reset, Withdraw, Vanish, Start, Recover,
      Scan, Connect, ClaimNothing, ClaimError, Disconnect, LoseLock

\* A process without the lock is a hole, as long as it runs: no sweep forgets it.
ZombieMarked == Unlocked # {} => "zombie" \in holes

LEMMA ZombieStep ==
  ASSUME TypeOK, ZombieMarked, [Next]_vars
  PROVE  ZombieMarked'
<1> USE DEF rows, call, link, hist
<1>1. ASSUME NEW w \in Workers, Start(w)
      PROVE  ZombieMarked'
  BY <1>1, StageAssumption DEF Start, ZombieMarked, Unlocked, TypeOK
<1>2. ASSUME NEW w \in Workers, Recover(w) \/ Scan(w) \/ \E ids \in SUBSET Offers : ClaimNothing(w, ids)
      PROVE  ZombieMarked'
  <2>1. /\ lock' = lock /\ phase[w] # "down" /\ phase' = [phase EXCEPT ![w] = phase'[w]]
        /\ phase'[w] # "down" /\ (holes' = holes \/ ZombieHole \subseteq holes')
    BY <1>2 DEF Recover, Scan, ClaimNothing, MayClaim, TypeOK
  <2>2. Unlocked' = Unlocked
    BY <2>1 DEF Unlocked, TypeOK
  <2>3. QED
    BY <2>1, <2>2 DEF ZombieMarked, ZombieHole
<1>3. ASSUME NEW w \in Workers, LoseLock(w)
      PROVE  ZombieMarked'
  BY <1>3 DEF LoseLock, ZombieMarked
<1>4. ASSUME NEW w \in Workers, Crash(w)
      PROVE  ZombieMarked'
  BY <1>4 DEF Crash, ZombieMarked, Unlocked, TypeOK
<1>5. CASE UNCHANGED <<lock, phase>> /\ holes \subseteq holes'
  BY <1>5 DEF ZombieMarked, Unlocked
<1>6. CASE UNCHANGED vars
  BY <1>5, <1>6 DEF vars
<1> QED
  BY StepCases, <1>1, <1>2, <1>3, <1>4, <1>5, <1>6
  DEF Enqueue, EnqueueSilently, EnqueueAll, Reset, Notify, Withdraw, Vanish, Connect, Claim,
      ClaimError, Load, Complete, FailPermanently, FailTransient, FindMissing, Unhandled,
      Finish, EndBatch, RenotifyError, Disconnect

\* What the notifications of w, and its open call, provide for.
Provided(w) == BatchSize * inbox[w] + returned[w]

LEMMA PendingFinite == IsFiniteSet(Pending) /\ Cardinality(Pending) \in Nat
BY StageAssumption, FS_Subset, FS_CardinalityType DEF Pending

\* The rows left pending do not grow, or by one that a notification makes up for.
LEMMA FewerPending ==
  ASSUME Pending' \subseteq Pending
  PROVE  Cardinality(Pending') \in Nat /\ Cardinality(Pending') <= Cardinality(Pending)
BY PendingFinite, FS_Subset, FS_CardinalityType

LEMMA OneMorePending ==
  ASSUME NEW o \in Offers, Pending' \subseteq Pending \cup {o}
  PROVE  Cardinality(Pending') \in Nat /\ Cardinality(Pending') <= Cardinality(Pending) + 1
<1>1. /\ IsFiniteSet(Pending \cup {o}) /\ Cardinality(Pending \cup {o}) \in Nat
      /\ Cardinality(Pending \cup {o}) <= Cardinality(Pending) + 1
  BY PendingFinite, FS_AddElement, FS_CardinalityType
<1>2. /\ Cardinality(Pending') \in Nat
      /\ Cardinality(Pending') <= Cardinality(Pending \cup {o})
  BY <1>1, FS_Subset, FS_CardinalityType
<1>3. QED
  BY PendingFinite, <1>1, <1>2

\* A notification provides for one batch more.
LEMMA BatchMore ==
  ASSUME NEW k \in Nat
  PROVE  /\ BatchSize * k \in Nat
         /\ BatchSize * (k + 1) = BatchSize * k + BatchSize
         /\ k # 0 => k - 1 \in Nat /\ BatchSize * (k - 1) = BatchSize * k - BatchSize
BY StageAssumption

\* A process that listens has the stage to itself, if no hole is open.
LEMMA Alone ==
  ASSUME ZombieMarked, holes = {}, NEW v \in Workers, NEW w \in Workers,
         phase[v] # "down", phase[w] # "down"
  PROVE  v = w
BY DEF ZombieMarked, Unlocked

LEMMA CoverageStep ==
  ASSUME TypeOK, CallBound, ZombieMarked, WakeupCoverage, [Next]_vars
  PROVE  WakeupCoverage'
<1> USE DEF rows, call, link, hist
<1> SUFFICES ASSUME NEW w \in Workers, phase'[w] = "listening", (Unlocked = {})', holes' = {}
             PROVE  Cardinality(Pending') <= Provided(w)'
  BY DEF WakeupCoverage, Provided
<1>0. /\ inbox[w] \in Nat /\ returned[w] \in Nat /\ Provided(w) \in Nat
      /\ Cardinality(Pending) \in Nat
  BY PendingFinite, BatchMore DEF TypeOK, Provided
<1>1. ASSUME phase[w] = "listening", holes = {}
      PROVE  Cardinality(Pending) <= Provided(w)
  BY <1>1 DEF ZombieMarked, WakeupCoverage, Provided
<1>2. ASSUME Pending' \subseteq Pending, phase[w] = "listening", holes = {},
             inbox'[w] = inbox[w], returned'[w] \in {returned[w], returned[w] + 1}
      PROVE  Cardinality(Pending') <= Provided(w)'
  <2>1. Provided(w) <= Provided(w)'
    BY <1>0, <1>2, BatchMore DEF Provided
  <2>2. Provided(w)' \in Nat
    BY <1>0, <1>2, BatchMore DEF Provided
  <2>3. QED
    BY <1>0, <1>1, <1>2, <2>1, <2>2, FewerPending
<1>3. ASSUME NEW o \in Offers, Enqueue(o)
      PROVE  Cardinality(Pending') <= Provided(w)'
  <2>1. /\ phase[w] = "listening" /\ returned' = returned /\ holes = {} /\ w \notin MissedBy
        /\ inbox' = Delivered
        /\ status' = [p \in Offers |-> IF p \in {o} THEN "pending" ELSE status[p]]
    BY <1>3 DEF Enqueue, Reset, Notify, NotifyHoles
  <2>2. inbox'[w] = inbox[w] + 1
    BY <2>1 DEF MissedBy, Delivered
  <2>3. Provided(w)' = Provided(w) + BatchSize
    BY <1>0, <2>1, <2>2, BatchMore, StageAssumption DEF Provided
  <2>4. Cardinality(Pending') \in Nat /\ Cardinality(Pending') <= Cardinality(Pending) + 1
    <3>1. Pending' \subseteq Pending \cup {o}
      BY <2>1 DEF Pending
    <3>2. QED
      BY <3>1, OneMorePending
  <2>5. QED
    BY <1>0, <1>1, <2>1, <2>3, <2>4, StageAssumption
<1>4. ASSUME NEW o \in Offers, Withdraw(o) \/ Vanish(o)
      PROVE  Cardinality(Pending') <= Provided(w)'
  <2>1. Pending' \subseteq Pending
    BY <1>4 DEF Withdraw, Vanish, Pending, TypeOK
  <2>2. QED
    BY <1>2, <1>4, <2>1 DEF Withdraw, Vanish
<1>5. ASSUME NEW v \in Workers, Start(v) \/ Recover(v)
      PROVE  FALSE
  <2>1. phase'[v] \in {"recovering", "scanning"} /\ lock' = IF phase[v] = "down" THEN v ELSE lock
    BY <1>5 DEF Start, Recover, TypeOK
  <2>2. QED
    BY <2>1 DEF Unlocked
<1>6. ASSUME NEW v \in Workers, Scan(v)
      PROVE  Cardinality(Pending') <= Provided(w)'
  <2>1. v = w
    <3>1. phase'[v] # "down"
      BY <1>6 DEF Scan, TypeOK
    <3>2. QED
      BY <3>1 DEF Unlocked
  <2>2. Pending = {} /\ UNCHANGED <<status, inbox, returned>>
    BY <1>6, <2>1 DEF Scan, TypeOK
  <2>3. Cardinality(Pending') = 0
    BY <2>2, FS_EmptySet DEF Pending
  <2>4. QED
    BY <1>0, <2>2, <2>3 DEF Provided
<1>7. ASSUME NEW v \in Workers, NEW ids \in SUBSET Offers, Claim(v, ids)
      PROVE  Cardinality(Pending') <= Provided(w)'
  <2>1. /\ phase' = phase /\ holes = {} /\ ids = {} /\ ~busy[v] /\ phase[v] # "down"
    BY <1>7 DEF Claim, MayClaim
  <2>2. v = w
    BY <2>1, Alone
  <2> DEFINE taken == Lowest(Pending, BatchSize)
  <2>3. /\ status' = [o \in Offers |-> IF o \in taken THEN "in_progress" ELSE status[o]]
        /\ returned' = [returned EXCEPT ![w] = 0]
        /\ inbox' = [inbox EXCEPT ![w] = @ - 1] /\ inbox[w] > 0
    <3>1. Pending \ ids = Pending
      BY <2>1
    <3>2. QED
      BY <1>7, <2>1, <2>2, <3>1 DEF Claim, MayClaim, Consume
  <2>4. Pending' = Pending \ taken
    BY <2>3, LowestSubset DEF Pending
  <2>5. Cardinality(Pending') = 0 \/ Cardinality(Pending') <= Cardinality(Pending) - BatchSize
    <3>1. Pending \in SUBSET Nat
      BY StageAssumption DEF Pending
    <3>2. QED
      BY <2>4, <3>1, PendingFinite, StageAssumption, LowestBounds
  <2>6. returned[w] = 0 /\ returned'[w] = 0 /\ inbox'[w] = inbox[w] - 1
    BY <2>1, <2>2, <2>3 DEF CallBound, TypeOK
  <2>7. /\ Provided(w)' = BatchSize * (inbox[w] - 1) /\ Provided(w) = BatchSize * inbox[w]
        /\ Provided(w)' \in Nat /\ Provided(w)' = Provided(w) - BatchSize
    BY <1>0, <2>3, <2>6, BatchMore DEF Provided
  <2>8. Pending' \in SUBSET Pending
    BY <2>4
  <2>9. Cardinality(Pending') \in Nat
    BY <2>8, FewerPending
  <2>10. QED
    BY <1>0, <1>1, <2>1, <2>5, <2>7, <2>9, StageAssumption
<1>8. ASSUME NEW v \in Workers, NEW ids \in SUBSET Offers, ClaimNothing(v, ids)
      PROVE  Cardinality(Pending') <= Provided(w)'
  <2>1. ids = {} /\ Pending = {} /\ status' = status /\ returned' = returned
    BY <1>8 DEF ClaimNothing
  <2>2. inbox'[w] \in Nat
    BY <1>8 DEF ClaimNothing, MayClaim, Consume, TypeOK
  <2>3. Cardinality(Pending') = 0
    BY <2>1, FS_EmptySet DEF Pending
  <2>4. BatchSize * inbox'[w] \in Nat
    BY <2>2, BatchMore
  <2>5. QED
    BY <1>0, <2>1, <2>3, <2>4 DEF Provided
<1>9. ASSUME NEW v \in Workers, NEW o \in Offers,
             \/ Load(v, o) \/ \E s \in {"done", "skipped"} : Complete(v, o, s)
             \/ FailPermanently(v, o) \/ FindMissing(v, o) \/ Unhandled(v, o)
      PROVE  Cardinality(Pending') <= Provided(w)'
  <2>1. /\ Pending' \subseteq Pending /\ phase' = phase /\ inbox' = inbox /\ holes' = holes
        /\ returned' = returned \/ returned' = [returned EXCEPT ![v] = @ + 1]
    BY <1>9 DEF Load, Complete, FailPermanently, FindMissing, Unhandled, Finish, Pending, TypeOK
  <2>2. returned'[w] \in {returned[w], returned[w] + 1}
    BY <2>1 DEF TypeOK
  <2>3. QED
    BY <1>2, <2>1, <2>2
<1>10. ASSUME NEW v \in Workers, NEW o \in Offers, FailTransient(v, o)
       PROVE  Cardinality(Pending') <= Provided(w)'
  <2>1. /\ phase' = phase /\ inbox' = inbox /\ holes' = holes /\ o \in active[v]
    BY <1>10 DEF FailTransient, Finish
  <2>2. v = w
    BY <2>1, Alone DEF TypeOK
  <2>3. CASE attempts[o] + 1 >= MaxAttempts
    <3>1. Pending' \subseteq Pending /\ returned' = returned
      BY <1>10, <2>3 DEF FailTransient, Pending, TypeOK
    <3>2. QED
      BY <1>2, <2>1, <3>1
  <2>4. CASE ~(attempts[o] + 1 >= MaxAttempts)
    <3>1. Pending' \subseteq Pending \cup {o} /\ returned'[w] = returned[w] + 1
      BY <1>10, <2>2, <2>4 DEF FailTransient, Pending, TypeOK
    <3>2. Provided(w)' = Provided(w) + 1
      BY <1>0, <2>1, <3>1, BatchMore DEF Provided
    <3>3. QED
      BY <1>0, <1>1, <2>1, <3>1, <3>2, OneMorePending
  <2>5. QED
    BY <2>3, <2>4
<1>11. ASSUME NEW v \in Workers, EndBatch(v)
       PROVE  Cardinality(Pending') <= Provided(w)'
  <2>1. /\ phase' = phase /\ status' = status /\ holes = {} /\ busy[v]
        /\ returned' = [returned EXCEPT ![v] = 0]
        /\ IF returned[v] > 0 THEN Notify ELSE UNCHANGED inbox
    BY <1>11 DEF EndBatch, Notify
  <2>2. v = w
    BY <2>1, Alone DEF TypeOK
  <2>3. Pending' = Pending /\ returned'[w] = 0
    BY <2>1, <2>2 DEF Pending, TypeOK
  <2>4. CASE returned[w] = 0
    BY <1>2, <2>1, <2>2, <2>3, <2>4
  <2>5. CASE returned[w] # 0
    <3>0. Notify /\ phase[w] = "listening" /\ inbox[w] \in Nat
      BY <1>0, <2>1, <2>2, <2>5 DEF TypeOK
    <3>1. inbox'[w] = inbox[w] + 1
      <4>1. NotifyHoles = {} /\ inbox' = Delivered
        BY <3>0 DEF Notify
      <4>2. MissedBy = {}
        BY <4>1 DEF NotifyHoles
      <4>3. w \notin MissedBy
        BY <4>2
      <4>4. conn[w] = "up"
        BY <3>0, <4>3 DEF MissedBy
      <4>5. Delivered[w] = inbox[w] + 1
        BY <4>4 DEF Delivered
      <4>6. QED
        BY <4>1, <4>5
    <3>2. returned[w] <= BatchSize
      <4>1. Cardinality(batch[w]) \in Nat
        BY StageAssumption, FS_Subset, FS_CardinalityType DEF TypeOK
      <4>2. QED
        BY <1>0, <4>1, StageAssumption DEF CallBound
    <3>3. Provided(w) <= Provided(w)' /\ Provided(w)' \in Nat
      BY <1>0, <2>3, <3>1, <3>2, BatchMore, StageAssumption DEF Provided
    <3>4. QED
      BY <1>0, <1>1, <2>1, <2>3, <3>3
  <2>6. QED
    BY <2>4, <2>5
<1>12. ASSUME NEW v \in Workers, Disconnect(v)
       PROVE  Cardinality(Pending') <= Provided(w)'
  <2>1. /\ phase' = phase /\ status' = status /\ returned' = returned
        /\ \E kept \in 0 .. inbox[v] :
             /\ inbox' = [inbox EXCEPT ![v] = kept]
             /\ holes' = IF kept < inbox[v] THEN holes \cup {"reconnect"} ELSE holes
    BY <1>12 DEF Disconnect
  <2>2. inbox' = inbox /\ holes = {}
    <3>1. PICK kept \in 0 .. inbox[v] :
             /\ inbox' = [inbox EXCEPT ![v] = kept]
             /\ holes' = IF kept < inbox[v] THEN holes \cup {"reconnect"} ELSE holes
      BY <2>1
    <3>2. inbox[v] \in Nat
      BY DEF TypeOK
    <3>3. ~(kept < inbox[v])
      BY <3>1
    <3>4. kept = inbox[v]
      BY <3>1, <3>2, <3>3
    <3>5. QED
      BY <3>1, <3>3, <3>4 DEF TypeOK
  <2>3. QED
    BY <1>2, <2>1, <2>2 DEF Pending
<1>13. ASSUME NEW v \in Workers, Crash(v)
       PROVE  FALSE
  <2>1. phase'[v] = "down" /\ phase[v] # "down" /\ holes' = holes
        /\ phase' = [phase EXCEPT ![v] = "down"]
    BY <1>13 DEF Crash, TypeOK
  <2>2. v # w /\ phase[w] = "listening"
    BY <2>1 DEF TypeOK
  <2>3. QED
    BY <2>1, <2>2, Alone
<1>14. CASE UNCHANGED <<status, phase, inbox, returned, holes>>
  BY <1>2, <1>14 DEF Pending
<1>15. CASE UNCHANGED vars
  BY <1>14, <1>15 DEF vars
<1>16. ASSUME \/ EnqueueAll \/ \E o \in Offers : EnqueueSilently(o)
              \/ \E v \in Workers : RenotifyError(v) \/ ClaimError(v) \/ LoseLock(v)
       PROVE  FALSE
  BY <1>16 DEF EnqueueAll, EnqueueSilently, RenotifyError, ClaimError, LoseLock
<1> QED
  BY StepCases, <1>3, <1>4, <1>5, <1>6, <1>7, <1>8, <1>9, <1>10, <1>11, <1>12, <1>13, <1>14,
     <1>15, <1>16 DEF Connect

\* No lost wake-up: BatchSize rows to a notification, what a listening process has been
\* told of and what its open call still owes cover all that is pending, unless one of the
\* named holes has opened since the last sweep.
THEOREM NoLostWakeup == Spec => []WakeupCoverage
<1>1. Init => CallBound /\ ZombieMarked /\ WakeupCoverage
  <2> SUFFICES ASSUME Init PROVE CallBound /\ ZombieMarked /\ WakeupCoverage
    OBVIOUS
  <2>1. CallBound
    BY FS_EmptySet, StageAssumption DEF Init, CallBound
  <2>2. ZombieMarked /\ WakeupCoverage
    BY DEF Init, ZombieMarked, Unlocked, WakeupCoverage
  <2>3. QED
    BY <2>1, <2>2
<1>2. TypeOK /\ CallBound /\ ZombieMarked /\ WakeupCoverage /\ [Next]_vars
        => (CallBound /\ ZombieMarked /\ WakeupCoverage)'
  <2>1. TypeOK /\ CallBound /\ [Next]_vars => CallBound'
    <3>1. CallBound /\ UNCHANGED vars => CallBound'
      BY DEF CallBound, vars, call
    <3>2. QED
      BY <3>1, CallBoundStep
  <2>2. QED
    BY <2>1, ZombieStep, CoverageStep
<1>3. QED
  BY <1>1, <1>2, TypeCorrect, PTL DEF Spec

-----------------------------------------------------------------------------
(* FAILED means exhausted, where only failures are counted.                *)

\* The inductive invariant: the column counts exactly the failures.
Budget ==
  \A o \in Offers :
    /\ attempts[o] = failures[o]
    /\ status[o] = "failed" => failures[o] >= MaxAttempts

LEMMA BudgetStep ==
  ASSUME Counted = {}, ~HasPermanent, TypeOK, Budget, [Next]_vars
  PROVE  Budget'
<1> USE DEF rows, call, link, hist, Budget
<1>1. ASSUME NEW o \in Offers, Enqueue(o) \/ EnqueueSilently(o) \/ Withdraw(o) \/ Vanish(o)
      PROVE  Budget'
  BY <1>1 DEF Enqueue, EnqueueSilently, Reset, Notify, Withdraw, Vanish, TypeOK
<1>2. CASE EnqueueAll
  BY <1>2 DEF EnqueueAll, Reset, TypeOK
<1>3. ASSUME NEW w \in Workers, Recover(w)
      PROVE  Budget'
  BY <1>3 DEF Recover, TypeOK
<1>4. ASSUME NEW w \in Workers, NEW ids \in SUBSET Offers, Claim(w, ids)
      PROVE  Budget'
  BY <1>4 DEF Claim, TypeOK
<1>5. ASSUME NEW w \in Workers, ClaimError(w)
      PROVE  Budget'
  BY <1>5 DEF ClaimError, TypeOK
<1>6. ASSUME NEW w \in Workers, NEW o \in Offers, NEW s \in {"done", "skipped"},
             Complete(w, o, s)
      PROVE  Budget'
  BY <1>6 DEF Complete, TypeOK
<1>7. ASSUME NEW w \in Workers, NEW o \in Offers, FailTransient(w, o)
      PROVE  Budget'
  BY <1>7, StageAssumption DEF FailTransient, TypeOK
<1>8. ASSUME NEW w \in Workers, NEW o \in Offers, FailPermanently(w, o)
      PROVE  FALSE
  BY <1>8 DEF FailPermanently
<1>9. CASE UNCHANGED rows
  BY <1>9
<1>10. CASE UNCHANGED vars
  BY <1>10 DEF vars
<1> HIDE DEF Budget
<1> QED
  BY StepCases, <1>1, <1>2, <1>3, <1>4, <1>5, <1>6, <1>7, <1>8, <1>9, <1>10
  DEF Start, Scan, Connect, ClaimNothing, Load, FindMissing, Unhandled, EndBatch,
      RenotifyError, Disconnect, LoseLock, Crash

\* A stage that counts failures only (the notifier) gives a row up only after
\* MaxAttempts of them.
THEOREM GivesUpAfterBudget ==
  ASSUME Counted = {}, ~HasPermanent
  PROVE  Spec => []FailedMeansExhausted
<1>1. Init => Budget
  BY DEF Init, Budget
<1>2. TypeOK /\ Budget /\ [Next]_vars => Budget'
  BY BudgetStep
<1>3. Budget => FailedMeansExhausted
  BY DEF Budget, FailedMeansExhausted
<1> QED
  BY <1>1, <1>2, <1>3, TypeCorrect, PTL DEF Spec

-----------------------------------------------------------------------------
(* The queue implements the abstract work queue.                           *)

\* A process that runs and is not inside process_pending() shares the stage with
\* nobody, so at that moment no row has a holder.
LEMMA NobodyHolds ==
  ASSUME TypeOK, Locked, NEW w \in Workers, phase[w] # "down", ~busy[w]
  PROVE  WQ!Held = {} /\ batch[w] = {}
<1>1. batch[w] = {}
  BY DEF TypeOK
<1>2. \A v \in Workers : batch[v] = {}
  BY <1>1, OneHolder
<1> QED
  BY <1>1, <1>2 DEF WQ!Held

\* What a new status column means for the abstract queue.
LEMMA MarkWork ==
  ASSUME NEW S \in SUBSET Offers, NEW s,
         \A o \in Offers : WorkStateOf(status'[o]) = IF o \in S THEN s ELSE WorkStateOf(status[o])
  PROVE  WQ!Mark(S, s)
  BY DEF WQ!Mark

LEMMA ProducerRefines ==
  ASSUME TypeOK,
         \/ \E o \in Offers : Enqueue(o) \/ EnqueueSilently(o) \/ Withdraw(o) \/ Vanish(o)
         \/ EnqueueAll
  PROVE  WQ!WNext
<1> USE DEF call
<1>1. ASSUME NEW S \in SUBSET Offers, Reset(S), \A o \in S : status[o] # "gone"
      PROVE  WQ!Put(S)
  <2>1. WQ!Mark(S, "todo")
    BY <1>1, MarkWork DEF Reset, WorkStateOf, Terminal
  <2> QED
    BY <1>1, <2>1 DEF Reset, WQ!Put, WorkStateOf, Terminal
<1>2. ASSUME NEW o \in Offers, Enqueue(o) \/ EnqueueSilently(o)
      PROVE  WQ!WNext
  <2>1. Reset({o}) /\ status[o] # "gone"
    BY <1>2 DEF Enqueue, EnqueueSilently
  <2>2. WQ!Put({o})
    BY <1>1, <2>1
  <2> QED
    BY <2>2 DEF WQ!WNext
<1>3. CASE EnqueueAll
  <2> DEFINE S == {o \in Offers : Exists(o)}
  <2>1. WQ!Put(S)
    BY <1>1, <1>3 DEF EnqueueAll, Exists
  <2> QED
    BY <2>1 DEF WQ!WNext
<1>4. ASSUME NEW o \in Offers, Withdraw(o)
      PROVE  WQ!WNext
  <2>1. WQ!Mark({o}, "closed")
    BY <1>4, MarkWork DEF Withdraw, TypeOK, WorkStateOf, Terminal
  <2>2. WQ!Cancel(o)
    BY <1>4, <2>1 DEF Withdraw, Exists, TypeOK, Status, WQ!Cancel, WorkStateOf, Terminal
  <2> QED
    BY <2>2 DEF WQ!WNext
<1>5. ASSUME NEW o \in Offers, Vanish(o)
      PROVE  WQ!WNext
  <2>1. WQ!Mark({o}, "gone")
    BY <1>5, MarkWork DEF Vanish, TypeOK, WorkStateOf, Terminal
  <2>2. WQ!Erase(o)
    BY <1>5, <2>1 DEF Vanish, Exists, TypeOK, Status, WQ!Erase, WorkStateOf, Terminal
  <2> QED
    BY <2>2 DEF WQ!WNext
<1> QED
  BY <1>2, <1>3, <1>4, <1>5

LEMMA ClaimRefines ==
  ASSUME TypeOK, Locked, NEW w \in Workers,
         \/ Recover(w) \/ ClaimError(w)
         \/ \E ids \in SUBSET Offers : Claim(w, ids)
  PROVE  WQ!WNext
<1> USE DEF call
<1>1. ~busy[w] /\ phase[w] # "down"
  BY DEF Recover, ClaimError, Claim, MayClaim, TypeOK
<1>2. WQ!Held = {} /\ batch[w] = {}
  BY <1>1, NobodyHolds
<1>3. CASE Recover(w)
  <2>1. WQ!Mark(InProgress, "todo")
    BY <1>3, MarkWork DEF Recover, InProgress, WorkStateOf, Terminal
  <2>2. WQ!Requeue(InProgress)
    BY <1>2, <1>3, <2>1 DEF Recover, InProgress, WQ!Requeue, WorkStateOf, Terminal
  <2> QED
    BY <2>2 DEF InProgress, WQ!WNext
<1>4. ASSUME NEW S \in SUBSET Pending,
             status' = [o \in Offers |-> IF o \in S THEN "in_progress" ELSE status[o]]
      PROVE  WQ!Mark(S, "taken") /\ \A o \in S : o \in Offers /\ WorkStateOf(status[o]) = "todo"
  BY <1>4, MarkWork DEF Pending, WorkStateOf, Terminal
<1>5. CASE ClaimError(w)
  <2>1. PICK S \in {{}, Lowest(Pending, BatchSize)} :
          status' = [o \in Offers |-> IF o \in S THEN "in_progress" ELSE status[o]]
    BY <1>5 DEF ClaimError
  <2>2. S \in SUBSET Pending
    BY LowestSubset
  <2>3. WQ!Mislay(S)
    BY <1>2, <1>4, <1>5, <2>1, <2>2 DEF ClaimError, WQ!Mislay
  <2> QED
    BY <2>2, <2>3 DEF Pending, WQ!WNext
<1>6. ASSUME NEW ids \in SUBSET Offers, Claim(w, ids)
      PROVE  WQ!WNext
  <2> DEFINE S == Lowest(Pending \ ids, BatchSize)
  <2>1. /\ status' = [o \in Offers |-> IF o \in S THEN "in_progress" ELSE status[o]]
        /\ batch' = [batch EXCEPT ![w] = S]
        /\ S # {}
    BY <1>6 DEF Claim
  <2>2. S \in SUBSET Pending
    BY LowestSubset
  <2> HIDE DEF S
  <2>3. WQ!Take(w, S)
    BY <1>2, <1>4, <2>1, <2>2 DEF WQ!Take
  <2> QED
    BY <2>2, <2>3 DEF Pending, WQ!WNext
<1> QED
  BY <1>3, <1>5, <1>6

LEMMA HolderRefines ==
  ASSUME TypeOK, NEW w \in Workers, NEW o \in Offers,
         \/ Load(w, o) \/ FindMissing(w, o) \/ Unhandled(w, o)
         \/ \E s \in {"done", "skipped"} : Complete(w, o, s)
         \/ FailPermanently(w, o) \/ FailTransient(w, o)
  PROVE  [WQ!WNext]_(WQ!wvars)
<1> USE DEF rows
<1>1. ASSUME o \in batch[w], batch' = [batch EXCEPT ![w] = @ \ {o}], status' = status
      PROVE  WQ!WNext
  <2>1. WQ!Drop(w, {o})
    BY <1>1 DEF WQ!Drop
  <2> QED
    BY <2>1 DEF WQ!WNext
<1>2. CASE Load(w, o)
  <2>1. CASE status[o] = "gone"
    BY <1>1, <1>2, <2>1 DEF Load
  <2>2. CASE status[o] # "gone"
    BY <1>2, <2>2 DEF Load, WQ!wvars
  <2> QED
    BY <2>1, <2>2
<1>3. ASSUME Finish(w, o)
      PROVE  o \in batch[w] /\ batch' = [batch EXCEPT ![w] = @ \ {o}]
  BY <1>3 DEF Finish, TypeOK
<1>4. CASE FindMissing(w, o) \/ Unhandled(w, o)
  BY <1>1, <1>3, <1>4 DEF FindMissing, Unhandled
<1>5. ASSUME Finish(w, o), status[o] # "gone", NEW s \in Terminal \cup {"pending"},
             status' = [status EXCEPT ![o] = s]
      PROVE  WQ!WNext
  <2>1. WorkStateOf(s) \in {"todo", "closed"}
    BY <1>5 DEF WorkStateOf, Terminal
  <2>2. WQ!Mark({o}, WorkStateOf(s))
    BY <1>5, MarkWork DEF TypeOK
  <2>3. WQ!Settle(w, o, WorkStateOf(s))
    BY <1>3, <1>5, <2>2 DEF WQ!Settle, WorkStateOf, Terminal
  <2> QED
    BY <2>1, <2>3 DEF WQ!WNext
<1>6. CASE \/ \E s \in {"done", "skipped"} : Complete(w, o, s)
           \/ FailPermanently(w, o) \/ FailTransient(w, o)
  <2>1. Finish(w, o) /\ status[o] # "gone"
    BY <1>6 DEF Complete, FailPermanently, FailTransient
  <2>2. \E s \in Terminal \cup {"pending"} : status' = [status EXCEPT ![o] = s]
    BY <1>6 DEF Complete, FailPermanently, FailTransient, Terminal
  <2> QED
    BY <1>5, <2>1, <2>2
<1> QED
  BY <1>2, <1>4, <1>6

LEMMA RefinementStep ==
  ASSUME TypeOK, Locked, [Next]_vars
  PROVE  [WQ!WNext]_(WQ!wvars)
<1> USE DEF rows, call, link
<1>1. ASSUME NEW w \in Workers, Crash(w)
      PROVE  WQ!WNext
  <2>1. WQ!Drop(w, batch[w])
    BY <1>1 DEF Crash, WQ!Drop
  <2>2. batch[w] \in SUBSET Offers
    BY DEF TypeOK
  <2> QED
    BY <2>1, <2>2 DEF WQ!WNext
<1>2. CASE UNCHANGED <<status, batch>>
  BY <1>2 DEF WQ!wvars
<1>3. CASE UNCHANGED vars
  BY <1>2, <1>3 DEF vars
<1>4. ASSUME NEW w \in Workers,
             \/ Start(w) \/ Scan(w) \/ Connect(w) \/ EndBatch(w) \/ RenotifyError(w)
             \/ Disconnect(w) \/ LoseLock(w)
             \/ \E ids \in SUBSET Offers : ClaimNothing(w, ids)
      PROVE  [WQ!WNext]_(WQ!wvars)
  BY <1>2, <1>4 DEF Start, Scan, Connect, EndBatch, RenotifyError, Disconnect, LoseLock,
     ClaimNothing
<1> QED
  BY StepCases, ProducerRefines, ClaimRefines, HolderRefines, <1>1, <1>3, <1>4

\* With a lock that lives as long as its process, every behaviour of the stage is
\* one of the abstract work queue: rows are held exclusively, only the holder
\* settles a row, and recovery returns only rows that nobody holds.
THEOREM ImplementsQueue ==
  ASSUME ~LockDrops
  PROVE  Spec => ImplementsWorkQueue
<1>1. Init => WQ!WInit
  BY DEF Init, WQ!WInit, WorkStateOf, Terminal
<1>2. TypeOK /\ Locked /\ [Next]_vars => [WQ!WNext]_(WQ!wvars)
  BY RefinementStep
<1> QED
  BY <1>1, <1>2, TypeCorrect, LockedInvariant, PTL DEF Spec, ImplementsWorkQueue, WQ!WSpec

=============================================================================
