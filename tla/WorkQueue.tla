----------------------------- MODULE WorkQueue -----------------------------
(***************************************************************************)
(* What the status-column queue of db/queue.py promises its users, without *)
(* saying how: a row that is taken belongs to one worker at a time, only   *)
(* its holder may settle it, and only a row nobody holds is handed back to *)
(* the queue by recovery.  Locks, notifications, sweeps and attempt counts *)
(* do not appear; StageQueue implements this specification.                *)
(***************************************************************************)
EXTENDS FiniteSets

CONSTANTS Workers,   \* the processes that may serve the queue
          Offers     \* the rows of vehicle_offer

VARIABLES work,      \* where each row stands
          holder     \* the rows each worker holds

wvars == <<work, holder>>

WorkState == {"absent", "todo", "taken", "closed", "gone"}

Held == UNION {holder[w] : w \in Workers}

WTypeOK ==
  /\ work \in [Offers -> WorkState]
  /\ holder \in [Workers -> SUBSET Offers]

WInit ==
  /\ work = [o \in Offers |-> "absent"]
  /\ holder = [w \in Workers |-> {}]

Mark(S, s) == work' = [o \in Offers |-> IF o \in S THEN s ELSE work[o]]

\* A producer asks for work on some rows (again).
Put(S) ==
  /\ \A o \in S : work[o] # "gone"
  /\ Mark(S, "todo")
  /\ UNCHANGED holder

\* Another part of the system settles a row without being asked.
Cancel(o) ==
  /\ work[o] \notin {"absent", "gone"}
  /\ Mark({o}, "closed")
  /\ UNCHANGED holder

\* A worker without work takes some rows that nobody holds.
Take(w, S) ==
  /\ holder[w] = {}
  /\ S # {} /\ S \cap Held = {}
  /\ \A o \in S : work[o] = "todo"
  /\ Mark(S, "taken")
  /\ holder' = [holder EXCEPT ![w] = S]

\* A worker dies, or loses its connection, in the middle of taking.
Mislay(S) ==
  /\ S \cap Held = {}
  /\ \A o \in S : work[o] = "todo"
  /\ Mark(S, "taken")
  /\ UNCHANGED holder

\* The holder closes a row or hands it back for another try.
Settle(w, o, s) ==
  /\ o \in holder[w]
  /\ work[o] # "gone"
  /\ Mark({o}, s)
  /\ holder' = [holder EXCEPT ![w] = @ \ {o}]

\* A worker lets go of some rows and leaves them as they are.
Drop(w, S) ==
  /\ S \subseteq holder[w]
  /\ holder' = [holder EXCEPT ![w] = @ \ S]
  /\ UNCHANGED work

\* Recovery returns taken rows that have no holder.
Requeue(S) ==
  /\ S \cap Held = {}
  /\ \A o \in S : work[o] = "taken"
  /\ Mark(S, "todo")
  /\ UNCHANGED holder

Erase(o) ==
  /\ work[o] # "absent"
  /\ Mark({o}, "gone")
  /\ UNCHANGED holder

WNext ==
  \/ \E S \in SUBSET Offers : Put(S) \/ Mislay(S) \/ Requeue(S)
  \/ \E w \in Workers, S \in SUBSET Offers : Take(w, S) \/ Drop(w, S)
  \/ \E w \in Workers, o \in Offers : \E s \in {"todo", "closed"} : Settle(w, o, s)
  \/ \E o \in Offers : Cancel(o) \/ Erase(o)

WSpec == WInit /\ [][WNext]_wvars

-----------------------------------------------------------------------------

\* No row is held by two workers: the meaning of "the in_progress marker is
\* the ownership signal" (db/queue.py).
ExclusiveHolders ==
  \A v, w \in Workers : v # w => holder[v] \cap holder[w] = {}

=============================================================================
