------------------------------ MODULE Delivery ------------------------------
(***************************************************************************)
(* What the fire-once ledger (want_matches.notified_at) promises, without  *)
(* prices, urgency, queues or attempts: an item is owed to the buyer until *)
(* a sender that took it while it was owed, and posted a message about it, *)
(* has entered that in the ledger; what the buyer has withdrawn is never   *)
(* taken up again.  A sender that dies loses its work, not the ledger's.   *)
(* WantDelivery implements this specification.                             *)
(***************************************************************************)

CONSTANTS Items,     \* what the buyer may be told of: matches, and the reminder of a lot
          Senders    \* the programs that tell him

VARIABLES ledger,    \* where each item stands
          bag,       \* what each sender has taken and not posted yet
          posted,    \* what each sender has posted and not entered yet
          told       \* the items a message has been about

dvars == <<ledger, bag, posted, told>>

DInit ==
  /\ ledger \in [Items -> {"none", "owed"}]
  /\ bag = [s \in Senders |-> {}]
  /\ posted = [s \in Senders |-> {}]
  /\ told = {}

At(place) == {i \in Items : ledger[i] = place}

\* Items come to be owed, or come already withdrawn.  (DNext says which items an action
\* may concern.)
Enter(S, T) ==
  /\ ledger' = [i \in Items |-> IF i \in S THEN "owed"
                                ELSE IF i \in T THEN "withdrawn" ELSE ledger[i]]
  /\ UNCHANGED <<bag, posted, told>>

\* What was settled is owed once more.
Reopen(S) ==
  /\ ledger' = [i \in Items |-> IF i \in S THEN "owed" ELSE ledger[i]]
  /\ UNCHANGED <<bag, posted, told>>

\* The buyer no longer wants to hear of it; a sender may be about to tell him still.
Withdraw(i) ==
  /\ ledger' = [ledger EXCEPT ![i] = "withdrawn"]
  /\ UNCHANGED <<bag, posted, told>>

\* A sender without work takes some of what is owed.
Take(s, S) ==
  /\ bag[s] = {} /\ posted[s] = {}
  /\ bag' = [bag EXCEPT ![s] = S]
  /\ UNCHANGED <<ledger, posted, told>>

\* One message about some of them.
Post(s, S) ==
  /\ bag' = [bag EXCEPT ![s] = @ \ S]
  /\ posted' = [posted EXCEPT ![s] = @ \cup S]
  /\ told' = told \cup S
  /\ UNCHANGED ledger

\* The sender takes it that the post has failed; the message may have arrived.
Miss(s, S) ==
  /\ bag' = [bag EXCEPT ![s] = @ \ S]
  /\ told' \in {told, told \cup S}
  /\ UNCHANGED <<ledger, posted>>

\* What was posted is entered, when all is done, unless it was withdrawn meanwhile.
Settle(s) ==
  /\ bag[s] = {}
  /\ ledger' = [i \in Items |-> IF i \in posted[s] /\ ledger[i] = "owed" THEN "settled"
                                ELSE ledger[i]]
  /\ posted' = [posted EXCEPT ![s] = {}]
  /\ UNCHANGED <<bag, told>>

\* A sender dies or gives up.
Forget(s) ==
  /\ bag' = [bag EXCEPT ![s] = {}]
  /\ posted' = [posted EXCEPT ![s] = {}]
  /\ UNCHANGED <<ledger, told>>

DNext ==
  \/ \E S, T \in SUBSET At("none") : Enter(S, T)
  \/ \E S \in SUBSET At("settled") : Reopen(S)
  \/ \E i \in Items : Withdraw(i)
  \/ \E s \in Senders :
       \/ Settle(s) \/ Forget(s)
       \/ \E S \in SUBSET At("owed") : Take(s, S)
       \/ \E S \in SUBSET bag[s] : Post(s, S) \/ Miss(s, S)

DSpec == DInit /\ [][DNext]_dvars

-----------------------------------------------------------------------------

\* Nothing is settled, and nothing about to be, that the buyer has not been told of:
\* what a stamp in want_matches means (delivery.py).
SettledWasTold ==
  /\ At("settled") \subseteq told
  /\ \A s \in Senders : posted[s] \subseteq told

=============================================================================
