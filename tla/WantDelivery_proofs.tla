------------------------- MODULE WantDelivery_proofs -------------------------
(***************************************************************************)
(* Proofs about WantDelivery, for any wants, prices, ceilings, budgets and *)
(* any number of moves, edits and faults:                                  *)
(*   TypeCorrect          Spec => []TypeOK                                 *)
(*   StampedWasTold       Spec => []StampedMeansTold                       *)
(*   ToldAtMostOnce       Spec => []HeardOnce                              *)
(*   UrgentIsQueued       Spec => []InstantQueued                          *)
(*   DeliveryImplemented  Spec => ImplementsDelivery                       *)
(*   SettledMeansTold     Spec => []D!SettledWasTold                       *)
(***************************************************************************)
EXTENDS WantDelivery, TLAPS

Status == {"pending", "in_progress", "done", "skipped", "failed"}
Row == [price : Prices, prev : 0 .. MaxPrice, val : {"pending", "in_progress", "done"},
        notif : Status, attempts : Nat, watched : BOOLEAN, reminded : BOOLEAN]
Match == [made : BOOLEAN, stamped : BOOLEAN, dismissed : BOOLEAN, price : 0 .. MaxPrice]
Seen == [price : Prices, prev : 0 .. MaxPrice, notif : Status]
Notice == [pc : {"idle", "claimed", "posting", "down"}, todo : SUBSET Items,
           posted : SUBSET Items, failed : SUBSET Items, price : 0 .. MaxPrice]
Issue == [pc : {"idle", "built", "posted"}, ids : SUBSET Wants, price : 0 .. MaxPrice]

-----------------------------------------------------------------------------
(* The inductive invariants.                                               *)

\* The exact type of every variable.
Types ==
  /\ kind \in {"auction", "listing"}
  /\ row \in Row
  /\ clock \in {"far", "closing", "over"}
  /\ want \in [Wants -> {"none", "on", "off", "deleted"}]
  /\ match \in [Wants -> Match]
  /\ rung \in BOOLEAN
  /\ seen = Nothing \/ seen \in Seen
  /\ notifier \in Notice
  /\ digest \in Issue
  /\ heard \in [Items -> 0 .. 2]
  /\ shown \in [Wants -> 0 .. MaxPrice]
  /\ doubt \in [Items -> SUBSET {"repeat", "overtaken"}]
  /\ waived \subseteq Wants
  /\ faults \in 0 .. MaxFaults

\* The life of a match.  Ids that a program has read may outlive their match, but
\* only if the want was deleted.
Ledger ==
  \A w \in Wants :
    /\ match[w].made => want[w] \in {"on", "off"} /\ match[w].price # 0
    /\ ~match[w].made => match[w] = NoMatch
    /\ w \in InFlight => match[w].made \/ want[w] = "deleted"

\* What the two senders carry.
Senders ==
  /\ notifier.pc # "posting" =>
       notifier.todo = {} /\ notifier.posted = {} /\ notifier.failed = {}
  /\ notifier.pc = "posting" => notifier.price # 0
  /\ digest.pc = "idle" <=> digest.ids = {}
  /\ digest.pc # "idle" => digest.price # 0

\* Only a lot has a closing window, and a reminder of it.
LotsOnly ==
  kind = "listing" =>
    /\ clock = "far" /\ ~row.reminded
    /\ Reminder \notin notifier.todo \cup notifier.posted \cup notifier.failed

\* An attempt is counted when a post has failed, which takes a fault.
AttemptsCovered ==
  row.attempts + (IF notifier.failed = {} THEN 0 ELSE 1) <= MaxAttempts - 1 + faults

TypeInv == Types /\ Ledger /\ Senders /\ LotsOnly /\ AttemptsCovered

\* The price p is one at which match w may stand announced.
Current(w, p) ==
  /\ p # 0
  /\ kind = "listing" /\ match[w].made /\ ~match[w].dismissed /\ p > row.price
       => "overtaken" \in doubt[w]

PostedByDigest == IF digest.pc = "posted" THEN digest.ids ELSE {}

\* What is announced, stamped or not yet, was shown at such a price, and what is to be
\* announced will be.
ToldInv ==
  \A w \in Wants :
    /\ match[w].stamped \/ w \in notifier.posted \cup PostedByDigest => Current(w, shown[w])
    /\ w \in notifier.todo \cup notifier.posted => Current(w, notifier.price)
    /\ w \in digest.ids => Current(w, digest.price)

\* The buyer may still be told of i: it bears no stamp.
Unsettled(i) ==
  IF i \in Wants THEN ~match[i].stamped /\ want[i] # "deleted" ELSE ~row.reminded

\* Without doubt, what bears no stamp and is in nobody's hands after its post was not
\* announced, nor is what is about to be posted; one sender has it.
OnceInv ==
  \A i \in Items :
    /\ i \in (notifier.todo \cup notifier.posted) \cap digest.ids => "repeat" \in doubt[i]
    /\ doubt[i] = {} =>
         /\ heard[i] <= 1
         /\ i \in notifier.todo \cup (digest.ids \ PostedByDigest) => heard[i] = 0
         /\ Unsettled(i) /\ i \notin notifier.posted \cup PostedByDigest => heard[i] = 0

\* The matches that have to be queued.
Due ==
  {w \in Open \ waived :
     /\ row.val = "done" /\ Matches(w, row.price)
     /\ row.price <= Standout[w] \/ (kind = "listing" /\ row.prev > row.price)}

\* What is due is queued, or its notifier is at work, or down with the row still
\* in_progress for its recovery.
QueuedInv ==
  \A w \in Due :
    \/ row.notif = "pending" /\ rung
    \/ /\ row.notif \in {"pending", "in_progress"}
       /\ \/ notifier.pc \in {"claimed", "down"}
          \/ w \in notifier.todo \cup notifier.posted \cup notifier.failed

-----------------------------------------------------------------------------
(* What the operators of the model do to one match, item or message.       *)

LEMMA MinOfTwo ==
  ASSUME NEW x \in Int, NEW y \in Int
  PROVE  Min({x, y}) = IF x <= y THEN x ELSE y
<1> DEFINE m == IF x <= y THEN x ELSE y
<1>1. m \in {x, y} /\ \A z \in {x, y} : m <= z
  OBVIOUS
<1>2. /\ Min({x, y}) \in {x, y} /\ \A z \in {x, y} : Min({x, y}) <= z
  BY <1>1 DEF Min
<1>3. QED
  BY <1>1, <1>2

\* A stamp reaches the matches that are there, and nothing else of them.
LEMMA StampStep ==
  ASSUME Types, NEW S, Stamp(S)
  PROVE  /\ match' \in [Wants -> Match]
         /\ \A w \in Wants :
              /\ match'[w].made = match[w].made /\ match'[w].price = match[w].price
              /\ match'[w].dismissed = match[w].dismissed
              /\ match'[w].stamped <=> match[w].stamped \/ (w \in S /\ match[w].made)
              /\ ~match[w].made => match'[w] = match[w]
<1>1. /\ match \in [Wants -> Match]
      /\ match' = [w \in Wants |->
           IF w \in S /\ match[w].made THEN [match[w] EXCEPT !.stamped = TRUE] ELSE match[w]]
  BY DEF Stamp, Types
<1>2. QED
  BY <1>1 DEF Match

LEMMA DoubtStep ==
  ASSUME Types, NEW S, NEW why \in {"repeat", "overtaken"}
  PROVE  /\ Doubt(S, why) \in [Items -> SUBSET {"repeat", "overtaken"}]
         /\ \A i \in Items :
              Doubt(S, why)[i] = IF i \in S THEN doubt[i] \cup {why} ELSE doubt[i]
BY DEF Doubt, Types

Doubts == SUBSET {"repeat", "overtaken"}

\* What one post may do, whatever arrives and whatever the caller is told: a message
\* that counts more or less than the caller believes leaves a doubt, and a failure
\* takes a fault.
PostEffect(S, price, ok) ==
  /\ heard' \in [Items -> 0 .. 2]
  /\ shown' \in [Wants -> 0 .. MaxPrice]
  /\ doubt' \in [Items -> Doubts]
  /\ faults' \in faults .. MaxFaults /\ (ok \/ faults' = faults + 1)
  /\ \A i \in Items : /\ doubt[i] \subseteq doubt'[i]
                      /\ "overtaken" \in doubt'[i] <=> "overtaken" \in doubt[i]
  /\ \A i \in Items \ S : doubt'[i] = doubt[i] /\ heard'[i] = heard[i]
  /\ \A i \in S : doubt'[i] = {} => heard'[i] <= heard[i] + 1 /\ (ok \/ heard'[i] = heard[i])
  /\ \A w \in Wants : shown'[w] = shown[w] \/ (w \in S /\ shown'[w] = price)
  /\ ok => \A w \in S \cap Wants : shown'[w] = price

LEMMA PostStep ==
  ASSUME Types, NEW S \in SUBSET Items, NEW price \in 1 .. MaxPrice,
         NEW sent \in 0 .. 2, NEW ok \in BOOLEAN, Post(S, price, sent, ok)
  PROVE  PostEffect(S, price, ok)
<1>1. faults' \in faults .. MaxFaults /\ (ok \/ faults' = faults + 1)
  BY DeliveryAssumption DEF Post, Fault, count, Types
<1>2. heard' = [i \in Items |-> IF i \in S THEN (IF heard[i] + sent >= 2 THEN 2 ELSE heard[i] + sent)
                               ELSE heard[i]]
  <2>1. ASSUME NEW i \in Items
        PROVE  Min({2, heard[i] + sent}) = IF heard[i] + sent >= 2 THEN 2 ELSE heard[i] + sent
    <3>1. heard[i] + sent \in Int
      BY DEF Types
    <3>2. QED
      BY <3>1, MinOfTwo
  <2>2. QED
    BY <2>1 DEF Post
<1>3. /\ heard' \in [Items -> 0 .. 2]
      /\ \A i \in Items \ S : heard'[i] = heard[i]
      /\ \A i \in S : heard'[i] <= heard[i] + sent
  BY <1>2 DEF Types
<1>4. /\ shown' \in [Wants -> 0 .. MaxPrice]
      /\ \A w \in Wants : shown'[w] = shown[w] \/ (w \in S /\ shown'[w] = price)
      /\ ok => \A w \in S \cap Wants : shown'[w] = price
  BY DeliveryAssumption DEF Post, Types
<1>5. /\ doubt' \in [Items -> SUBSET {"repeat", "overtaken"}]
      /\ \A i \in Items :
           doubt'[i] = IF i \in S /\ sent > (IF ok THEN 1 ELSE 0) THEN doubt[i] \cup {"repeat"}
                       ELSE doubt[i]
  <2>1. CASE sent > (IF ok THEN 1 ELSE 0)
    <3>1. doubt' = Doubt(S, "repeat")
      BY <2>1 DEF Post
    <3>2. QED
      BY <2>1, <3>1, DoubtStep
  <2>2. CASE ~(sent > (IF ok THEN 1 ELSE 0))
    BY <2>2 DEF Post, Types
  <2>3. QED
    BY <2>1, <2>2
<1>6. \A i \in S : doubt'[i] = {} => sent = 0 \/ (ok /\ sent = 1)
  BY <1>5
<1>7. \A i \in S : doubt'[i] = {} => heard'[i] <= heard[i] + 1 /\ (ok \/ heard'[i] = heard[i])
  BY <1>2, <1>6 DEF Types
<1>8. QED
  BY <1>1, <1>3, <1>4, <1>5, <1>7 DEF PostEffect, Doubts

-----------------------------------------------------------------------------
(* What the steps do, column by column.                                    *)

Reopened(p) == {w \in Wants : p < row.price /\ match[w].made /\ ~match[w].dismissed}

LEMMA RepriceStep ==
  ASSUME TypeInv, NEW p \in Prices, Reprice(p)
  PROVE  /\ kind = "listing"
         /\ row' \in Row /\ row'.price = p /\ row'.prev = row.price /\ row'.val = "pending"
         /\ row'.attempts = row.attempts /\ row'.reminded = row.reminded
         /\ match' \in [Wants -> Match]
         /\ \A w \in Wants :
              /\ match'[w].made = match[w].made /\ match'[w].price = match[w].price
              /\ match'[w].dismissed = match[w].dismissed
              /\ w \in Reopened(p) => ~match'[w].stamped
              /\ w \notin Reopened(p) => match'[w] = match[w]
         /\ heard' \in [Items -> 0 .. 2]
         /\ \A i \in Items : heard'[i] = IF i \in Reopened(p) THEN 0 ELSE heard[i]
         /\ doubt' \in [Items -> Doubts]
         /\ \A i \in Items :
              doubt'[i] = IF i \in Reopened(p) \cap InFlight THEN doubt[i] \cup {"overtaken"}
                          ELSE doubt[i]
         /\ UNCHANGED <<kind, clock, want, rung, seen, notifier, digest, shown, waived, faults>>
<1> USE DEF TypeInv
<1>1. /\ kind = "listing"
      /\ row' = [row EXCEPT !.price = p, !.prev = row.price, !.val = "pending"]
      /\ match' = [w \in Wants |->
           IF w \in Reopened(p) THEN [match[w] EXCEPT !.stamped = FALSE] ELSE match[w]]
      /\ heard' = [i \in Items |-> IF i \in Reopened(p) THEN 0 ELSE heard[i]]
      /\ doubt' = Doubt(Reopened(p) \cap InFlight, "overtaken")
      /\ UNCHANGED <<kind, clock, want, rung, seen, notifier, digest, shown, waived, faults>>
  BY DEF Reprice, Reopened, Move
<1>2. /\ row' \in Row /\ row'.price = p /\ row'.prev = row.price /\ row'.val = "pending"
      /\ row'.attempts = row.attempts /\ row'.reminded = row.reminded
  <2>1. row \in Row
    BY DEF Types
  <2>2. row' = [row EXCEPT !.price = p, !.prev = row.price, !.val = "pending"]
    BY <1>1
  <2> HIDE DEF TypeInv
  <2>3. row.price \in 0 .. MaxPrice
    BY <2>1, DeliveryAssumption DEF Row, Prices
  <2>4. QED
    BY <2>1, <2>2, <2>3 DEF Row
<1>3. /\ match' \in [Wants -> Match]
      /\ \A w \in Wants :
           /\ match'[w].made = match[w].made /\ match'[w].price = match[w].price
           /\ match'[w].dismissed = match[w].dismissed
           /\ w \in Reopened(p) => ~match'[w].stamped
           /\ w \notin Reopened(p) => match'[w] = match[w]
  <2>1. /\ match \in [Wants -> Match]
        /\ match' = [w \in Wants |->
             IF w \in Reopened(p) THEN [match[w] EXCEPT !.stamped = FALSE] ELSE match[w]]
    BY <1>1 DEF Types
  <2> HIDE DEF TypeInv
  <2>2. QED
    BY <2>1 DEF Match
<1>4. /\ heard' \in [Items -> 0 .. 2]
      /\ \A i \in Items : heard'[i] = IF i \in Reopened(p) THEN 0 ELSE heard[i]
  BY <1>1 DEF Types
<1>5. /\ doubt' \in [Items -> Doubts]
      /\ \A i \in Items :
           doubt'[i] = IF i \in Reopened(p) \cap InFlight THEN doubt[i] \cup {"overtaken"}
                       ELSE doubt[i]
  BY <1>1, DoubtStep DEF Doubts
<1>6. QED
  BY <1>1, <1>2, <1>3, <1>4, <1>5

\* A match that comes into being, by valuation or by backfill, is unstamped.
LEMMA MatchingStep ==
  ASSUME TypeInv, ValueCommit \/ \E w \in Wants : CreateWant(w)
  PROVE  /\ match' \in [Wants -> Match]
         /\ \A w \in Wants :
              /\ match'[w].stamped <=> match[w].stamped
              /\ match[w].made => match'[w].made /\ match'[w].dismissed = match[w].dismissed
              /\ match'[w].made => match'[w].price # 0 /\ want'[w] \in {"on", "off"}
              /\ ~match'[w].made => match'[w] = NoMatch
         /\ want' \in [Wants -> {"none", "on", "off", "deleted"}]
         /\ \A w \in Wants : want'[w] = "deleted" <=> want[w] = "deleted"
         /\ row' \in Row /\ row'.price = row.price /\ row'.prev = row.prev
         /\ row'.attempts = row.attempts /\ row'.reminded = row.reminded
         /\ rung' \in BOOLEAN /\ (seen' = Nothing \/ seen' = seen) /\ waived' \subseteq Wants
         /\ UNCHANGED <<kind, clock, notifier, digest, heard, shown, doubt, faults>>
<1> USE DeliveryAssumption DEF TypeInv, Types, Row, NoMatch
<1>1. CASE ValueCommit
  <2> DEFINE matching == {w \in Wants : want[w] = "on" /\ Matches(w, seen.price)}
  <2>1. PICK dups \in SUBSET {w \in matching : ~match[w].made}, filter \in {"pending", "skipped"} :
          /\ match' = Evaluated(matching, dups)
          /\ \E status \in {"pending", "skipped", row.notif} :
               row' = [row EXCEPT !.val = "done", !.notif = status]
          /\ rung' \in BOOLEAN /\ waived' \in {Wants, {}}
    BY <1>1 DEF ValueCommit
  <2>2. seen # Nothing /\ seen' = Nothing
        /\ UNCHANGED <<kind, clock, want, notifier, digest, heard, shown, doubt, faults>>
    BY <1>1 DEF ValueCommit, count
  <2>3. row' \in Row /\ row'.price = row.price /\ row'.prev = row.prev
        /\ row'.attempts = row.attempts /\ row'.reminded = row.reminded
    <3>1. PICK status \in {"pending", "skipped", row.notif} :
            row' = [row EXCEPT !.val = "done", !.notif = status]
      BY <2>1
    <3>2. row \in Row
      OBVIOUS
    <3> HIDE DEF TypeInv, Types
    <3>3. status \in Status
      BY <3>2 DEF Status
    <3>4. QED
      BY <3>1, <3>2, <3>3
  <2>4. seen.price \in 1 .. MaxPrice
    BY <2>2 DEF Seen, Prices
  <2>5. /\ match' \in [Wants -> Match]
        /\ \A w \in Wants :
             /\ match'[w].stamped <=> match[w].stamped
             /\ match[w].made => match'[w].made /\ match'[w].dismissed = match[w].dismissed
             /\ match'[w].made => match'[w].price # 0 /\ want[w] \in {"on", "off"}
             /\ ~match'[w].made => match'[w] = NoMatch
    <3>1. ASSUME NEW w \in Wants
          PROVE  \/ w \in matching /\ match[w].made /\ match'[w] = [match[w] EXCEPT !.price = seen.price]
                 \/ /\ w \in matching /\ ~match[w].made
                    /\ match'[w] = [made |-> TRUE, stamped |-> FALSE, dismissed |-> w \in dups,
                                    price |-> seen.price]
                 \/ match'[w] = match[w]
      BY <2>1 DEF Evaluated
    <3>2. ASSUME NEW w \in Wants
          PROVE  /\ match'[w] \in Match
                 /\ match'[w].stamped <=> match[w].stamped
                 /\ match[w].made => match'[w].made /\ match'[w].dismissed = match[w].dismissed
                 /\ match'[w].made => match'[w].price # 0 /\ want[w] \in {"on", "off"}
                 /\ ~match'[w].made => match'[w] = NoMatch
      <4>1. match[w] \in Match /\ (~match[w].made => ~match[w].stamped)
        BY DEF Ledger
      <4> HIDE DEF TypeInv, Types
      <4>2. CASE w \in matching /\ match[w].made /\ match'[w] = [match[w] EXCEPT !.price = seen.price]
        BY <4>1, <4>2, <2>4 DEF Match
      <4>3. CASE /\ w \in matching /\ ~match[w].made
                 /\ match'[w] = [made |-> TRUE, stamped |-> FALSE, dismissed |-> w \in dups,
                                 price |-> seen.price]
        BY <4>1, <4>3, <2>4 DEF Match
      <4>4. CASE match'[w] = match[w]
        BY <4>1, <4>4 DEF TypeInv, Ledger
      <4>5. QED
        BY <3>1, <4>2, <4>3, <4>4
    <3>3. DOMAIN match' = Wants /\ match' = [w \in Wants |-> match'[w]]
      BY <2>1 DEF Evaluated
    <3>4. QED
      BY <3>2, <3>3
  <2>6. QED
    BY <2>1, <2>2, <2>3, <2>5
<1>2. ASSUME NEW w \in Wants, CreateWant(w)
      PROVE  /\ match' \in [Wants -> Match]
             /\ \A v \in Wants :
                  /\ match'[v].stamped <=> match[v].stamped
                  /\ match[v].made => match'[v].made /\ match'[v].dismissed = match[v].dismissed
                  /\ match'[v].made => match'[v].price # 0 /\ want'[v] \in {"on", "off"}
                  /\ ~match'[v].made => match'[v] = NoMatch
             /\ want' = [want EXCEPT ![w] = "on"] /\ want[w] = "none"
             /\ waived' \subseteq Wants
             /\ UNCHANGED <<kind, clock, row, rung, seen, notifier, digest, heard, shown, doubt, faults>>
  <2>1. /\ want' = [want EXCEPT ![w] = "on"] /\ want[w] = "none"
        /\ waived' \subseteq Wants
        /\ UNCHANGED <<kind, clock, row, rung, seen, notifier, digest, heard, shown, doubt, faults>>
    BY <1>2 DEF CreateWant, Edit, offer
  <2>2. \/ UNCHANGED match
        \/ \E dup \in BOOLEAN :
             match' = [match EXCEPT ![w] = [made |-> TRUE, stamped |-> FALSE, dismissed |-> dup,
                                            price |-> row.price]]
    BY <1>2 DEF CreateWant
  <2>3. ~match[w].made /\ ~match[w].stamped
    BY <2>1 DEF Ledger
  <2>4. ASSUME NEW dup \in BOOLEAN,
               match' = [match EXCEPT ![w] = [made |-> TRUE, stamped |-> FALSE, dismissed |-> dup,
                                              price |-> row.price]]
        PROVE  /\ match' \in [Wants -> Match]
               /\ match'[w].made /\ match'[w].price # 0 /\ ~match'[w].stamped
               /\ \A v \in Wants \ {w} : match'[v] = match[v]
    BY <2>4 DEF Match, Prices
  <2>5. CASE UNCHANGED match
    BY <2>1, <2>3, <2>5 DEF Ledger
  <2>6. CASE ~UNCHANGED match
    <3>1. /\ match' \in [Wants -> Match]
          /\ match'[w].made /\ match'[w].price # 0 /\ ~match'[w].stamped
          /\ \A v \in Wants \ {w} : match'[v] = match[v]
      BY <2>2, <2>4, <2>6
    <3>2. want'[w] = "on" /\ \A v \in Wants \ {w} : want'[v] = want[v]
      BY <2>1
    <3>3. \A v \in Wants : /\ match[v].made => want[v] \in {"on", "off"} /\ match[v].price # 0
                           /\ ~match[v].made => match[v] = NoMatch
      BY DEF Ledger
    <3> HIDE DEF TypeInv, Types
    <3>4. QED
      BY <2>1, <2>3, <3>1, <3>2, <3>3
  <2>7. QED
    BY <2>5, <2>6
<1>3. QED
  BY <1>1, <1>2

\* The notifier's alerts are open matches; a reminder is due only for a lot.
LEMMA LoadStep ==
  ASSUME TypeInv, NotifierLoad
  PROVE  /\ notifier' \in Notice /\ notifier'.pc = "posting" /\ notifier'.price = row.price
         /\ notifier'.posted = {} /\ notifier'.failed = {}
         /\ notifier'.todo \cap Wants \subseteq Open
         /\ Reminder \in notifier'.todo => kind = "auction" /\ ~row.reminded
         /\ doubt' \in [Items -> Doubts]
         /\ \A i \in Items :
              doubt'[i] = IF i \in notifier'.todo \cap digest.ids THEN doubt[i] \cup {"repeat"}
                          ELSE doubt[i]
         /\ waived' \subseteq Wants
         /\ notifier.pc = "claimed" /\ notifier.posted = {}
         /\ UNCHANGED <<kind, clock, row, want, match, rung, seen, digest, heard, shown, faults>>
<1> DEFINE alerts == {w \in Open : Matches(w, row.price)}
           urgent == {w \in alerts : Instant(w, row.price, row.price, row.prev)}
           due == IF ReminderDue THEN {Reminder} ELSE {}
<1>1. PICK quiet \in BOOLEAN :
        LET todo == due \cup IF quiet THEN {} ELSE urgent
        IN  /\ notifier' = [notifier EXCEPT !.pc = "posting", !.todo = todo, !.price = row.price]
            /\ waived' = IF quiet THEN waived \cup urgent ELSE waived
            /\ doubt' = Doubt(todo \cap digest.ids, "repeat")
  BY DEF NotifierLoad
<1>2. /\ notifier.pc = "claimed" /\ notifier \in Notice /\ row \in Row
      /\ notifier.posted = {} /\ notifier.failed = {} /\ waived \subseteq Wants
      /\ UNCHANGED <<kind, clock, row, want, match, rung, seen, digest, heard, shown, faults>>
  BY DEF NotifierLoad, TypeInv, Types, Senders, offer, book, count
<1>3. urgent \subseteq Open /\ Open \subseteq Wants
  BY DEF Open, OpenIn
<1>4. due \subseteq {Reminder} /\ (Reminder \in due => kind = "auction" /\ ~row.reminded)
  BY DEF ReminderDue
<1> DEFINE todo == due \cup IF quiet THEN {} ELSE urgent
<1>5. /\ notifier' = [notifier EXCEPT !.pc = "posting", !.todo = todo, !.price = row.price]
      /\ waived' \subseteq Wants
      /\ doubt' = Doubt(todo \cap digest.ids, "repeat")
  BY <1>1, <1>2, <1>3
<1>6. /\ todo \subseteq Items /\ todo \cap Wants \subseteq Open
      /\ Reminder \in todo => kind = "auction" /\ ~row.reminded
  BY <1>3, <1>4, DeliveryAssumption DEF Items
<1> HIDE DEF todo
<1>7. row.price \in 0 .. MaxPrice
  BY <1>2, DeliveryAssumption DEF Row, Prices
<1>8. /\ notifier' \in Notice /\ notifier'.pc = "posting" /\ notifier'.price = row.price
      /\ notifier'.posted = {} /\ notifier'.failed = {} /\ notifier'.todo = todo
  BY <1>2, <1>5, <1>6, <1>7 DEF Notice
<1>9. /\ doubt' \in [Items -> Doubts]
      /\ \A i \in Items :
           doubt'[i] = IF i \in todo \cap digest.ids THEN doubt[i] \cup {"repeat"} ELSE doubt[i]
  BY <1>5, DoubtStep DEF TypeInv, Doubts
<1>10. QED
  BY <1>2, <1>5, <1>6, <1>8, <1>9

LEMMA NotifierPostStep ==
  ASSUME TypeInv, NEW i \in Items, NotifierPost(i)
  PROVE  \E ok \in BOOLEAN :
         /\ notifier.pc = "posting" /\ i \in notifier.todo
         /\ notifier' \in Notice /\ notifier'.pc = "posting" /\ notifier'.price = notifier.price
         /\ notifier'.todo = notifier.todo \ {i}
         /\ notifier'.posted = IF ok THEN notifier.posted \cup {i} ELSE notifier.posted
         /\ notifier'.failed = IF ok THEN notifier.failed ELSE notifier.failed \cup {i}
         /\ PostEffect({i}, notifier.price, ok)
         /\ UNCHANGED <<kind, clock, row, want, match, rung, seen, digest, waived>>
<1>1. PICK sent \in 0 .. 2, ok \in BOOLEAN :
        /\ Post({i}, notifier.price, sent, ok)
        /\ notifier' = [notifier EXCEPT !.todo = @ \ {i},
                          !.posted = IF ok THEN @ \cup {i} ELSE @,
                          !.failed = IF ok THEN @ ELSE @ \cup {i}]
  BY DEF NotifierPost
<1>2. /\ notifier.pc = "posting" /\ i \in notifier.todo /\ notifier \in Notice
      /\ UNCHANGED <<kind, clock, row, want, match, rung, seen, digest, waived>>
  BY DEF NotifierPost, offer, book, TypeInv, Types
<1>3. /\ notifier' \in Notice /\ notifier'.pc = "posting" /\ notifier'.price = notifier.price
      /\ notifier'.todo = notifier.todo \ {i}
      /\ notifier'.posted = IF ok THEN notifier.posted \cup {i} ELSE notifier.posted
      /\ notifier'.failed = IF ok THEN notifier.failed ELSE notifier.failed \cup {i}
  BY <1>1, <1>2 DEF Notice
<1>4. notifier.price \in 1 .. MaxPrice
  BY <1>2, DeliveryAssumption DEF Notice, TypeInv, Senders
<1>5. {i} \in SUBSET Items /\ Types
  BY DEF TypeInv
<1>6. PostEffect({i}, notifier.price, ok)
  BY <1>1, <1>4, <1>5, PostStep
<1>7. QED
  BY <1>2, <1>3, <1>6

\* What is written and stamped when all posts are through.
LEMMA WriteStep ==
  ASSUME TypeInv, NotifierWrite
  PROVE  /\ notifier.pc = "posting" /\ notifier.todo = {}
         /\ notifier' = NoNotice
         /\ row' \in Row /\ row'.price = row.price /\ row'.prev = row.prev /\ row'.val = row.val
         /\ row'.reminded <=> row.reminded \/ Reminder \in notifier.posted
         /\ \/ row'.attempts = row.attempts
            \/ notifier.failed # {} /\ row'.attempts = row.attempts + 1
         /\ match' \in [Wants -> Match]
         /\ \A w \in Wants :
              /\ match'[w].made = match[w].made /\ match'[w].price = match[w].price
              /\ match'[w].dismissed = match[w].dismissed
              /\ match'[w].stamped <=> match[w].stamped \/ (w \in notifier.posted /\ match[w].made)
              /\ ~match[w].made => match'[w] = match[w]
         /\ rung' \in BOOLEAN /\ waived' \subseteq Wants
         /\ UNCHANGED <<kind, clock, want, seen, digest, heard, shown, doubt, faults>>
<1>1. /\ notifier.pc = "posting" /\ notifier.todo = {} /\ notifier' = NoNotice
      /\ Stamp(notifier.posted)
      /\ UNCHANGED <<kind, clock, want, seen, digest, heard, shown, doubt, faults>>
  BY DEF NotifierWrite, count
<1>2. row \in Row /\ rung \in BOOLEAN /\ waived \subseteq Wants /\ Types
  BY DEF TypeInv, Types
<1>3. PICK status \in {"done", "skipped", "failed", "pending"} :
        /\ row' = [row EXCEPT !.notif = status,
                     !.attempts = IF Outcome = "retry" THEN @ + 1 ELSE @,
                     !.reminded = @ \/ Reminder \in notifier.posted]
        /\ rung' = (rung \/ status = "pending")
        /\ waived' \in {Wants, waived}
  BY DEF NotifierWrite, Outcome
<1>4. Outcome = "retry" => notifier.failed # {}
  BY DEF Outcome
<1>5. /\ row' \in Row /\ row'.price = row.price /\ row'.prev = row.prev /\ row'.val = row.val
      /\ row'.reminded <=> row.reminded \/ Reminder \in notifier.posted
      /\ row'.attempts = row.attempts \/ (Outcome = "retry" /\ row'.attempts = row.attempts + 1)
  <2> DEFINE n == IF Outcome = "retry" THEN row.attempts + 1 ELSE row.attempts
             r == row.reminded \/ Reminder \in notifier.posted
  <2>1. row' = [row EXCEPT !.notif = status, !.attempts = n, !.reminded = r]
    BY <1>3
  <2>2. n \in Nat /\ r \in BOOLEAN
    BY <1>2 DEF Row
  <2> HIDE DEF n, r
  <2>3. /\ row' \in Row /\ row'.price = row.price /\ row'.prev = row.prev /\ row'.val = row.val
        /\ row'.reminded = r /\ row'.attempts = n
    BY <1>2, <2>1, <2>2 DEF Row, Status
  <2>4. QED
    BY <2>3 DEF n, r
<1>6. QED
  BY <1>1, <1>2, <1>3, <1>4, <1>5, StampStep

\* The notifier dies, or raises: what it has posted is not stamped.
LEMMA StopStep ==
  ASSUME TypeInv, NotifierCrash \/ NotifierError
  PROVE  /\ notifier' \in Notice /\ notifier'.pc \in {"idle", "down"} /\ notifier'.price = 0
         /\ notifier'.todo = {} /\ notifier'.posted = {} /\ notifier'.failed = {}
         /\ doubt' \in [Items -> Doubts]
         /\ \A i \in Items :
              doubt'[i] = IF i \in notifier.posted THEN doubt[i] \cup {"repeat"} ELSE doubt[i]
         /\ rung' \in BOOLEAN /\ waived' \subseteq Wants /\ faults' = faults + 1 /\ faults < MaxFaults
         /\ UNCHANGED <<kind, clock, row, want, match, seen, digest, heard, shown>>
<1>1. /\ notifier' \in {NoNotice, [NoNotice EXCEPT !.pc = "down"]}
      /\ doubt' = Doubt(notifier.posted, "repeat")
      /\ rung' \in {rung, TRUE} /\ waived' \in {waived, Wants} /\ faults' = faults + 1
      /\ faults < MaxFaults
      /\ UNCHANGED <<kind, clock, row, want, match, seen, digest, heard, shown>>
  BY DEF NotifierCrash, NotifierError, Fault, offer, book
<1>2. rung \in BOOLEAN /\ waived \subseteq Wants /\ Types
  BY DEF TypeInv, Types
<1>3. /\ notifier' \in Notice /\ notifier'.pc \in {"idle", "down"} /\ notifier'.price = 0
      /\ notifier'.todo = {} /\ notifier'.posted = {} /\ notifier'.failed = {}
  <2>1. MaxPrice \in Nat
    BY DeliveryAssumption
  <2>2. CASE notifier' = NoNotice
    BY <2>1, <2>2 DEF NoNotice, Notice
  <2>3. CASE notifier' = [NoNotice EXCEPT !.pc = "down"]
    BY <2>1, <2>3 DEF NoNotice, Notice
  <2>4. QED
    BY <1>1, <2>2, <2>3
<1>4. /\ doubt' \in [Items -> Doubts]
      /\ \A i \in Items :
           doubt'[i] = IF i \in notifier.posted THEN doubt[i] \cup {"repeat"} ELSE doubt[i]
  <2>1. "repeat" \in {"repeat", "overtaken"} /\ doubt' = Doubt(notifier.posted, "repeat")
    BY <1>1
  <2>2. QED
    BY <1>2, <2>1, DoubtStep DEF Doubts
<1>5. QED
  BY <1>1, <1>2, <1>3, <1>4

LEMMA BuildStep ==
  ASSUME TypeInv, DigestBuild
  PROVE  /\ digest.pc = "idle" /\ digest.ids = {}
         /\ digest' \in Issue /\ digest'.pc = "built" /\ digest'.price = row.price
         /\ digest'.ids = Open /\ Open # {} /\ Open \subseteq Wants
         /\ doubt' \in [Items -> Doubts]
         /\ \A i \in Items :
              doubt'[i] = IF i \in Open \cap (notifier.todo \cup notifier.posted)
                          THEN doubt[i] \cup {"repeat"} ELSE doubt[i]
         /\ UNCHANGED <<kind, clock, row, want, match, rung, seen, notifier, heard, shown, waived, faults>>
<1>1. /\ digest.pc = "idle" /\ Open # {}
      /\ digest' = [pc |-> "built", ids |-> Open, price |-> row.price]
      /\ doubt' = Doubt(Open \cap (notifier.todo \cup notifier.posted), "repeat")
      /\ UNCHANGED <<kind, clock, row, want, match, rung, seen, notifier, heard, shown, waived, faults>>
  BY DEF DigestBuild, offer, book, count
<1>2. digest.ids = {} /\ row \in Row /\ Types
  BY <1>1 DEF TypeInv, Senders, Types
<1>3. Open \subseteq Wants
  BY DEF Open, OpenIn
<1>4. digest' \in Issue
  BY <1>1, <1>2, <1>3, DeliveryAssumption DEF Issue, Row, Prices
<1>5. /\ doubt' \in [Items -> Doubts]
      /\ \A i \in Items :
           doubt'[i] = IF i \in Open \cap (notifier.todo \cup notifier.posted)
                       THEN doubt[i] \cup {"repeat"} ELSE doubt[i]
  BY <1>1, <1>2, DoubtStep DEF Doubts
<1>6. QED
  BY <1>1, <1>2, <1>3, <1>4, <1>5

LEMMA DigestPostStep ==
  ASSUME TypeInv, DigestPost
  PROVE  \E ok \in BOOLEAN :
         /\ digest.pc = "built"
         /\ digest' = IF ok THEN [digest EXCEPT !.pc = "posted"] ELSE NoDigest
         /\ digest' \in Issue
         /\ PostEffect(digest.ids, digest.price, ok)
         /\ UNCHANGED <<kind, clock, row, want, match, rung, seen, notifier, waived>>
<1>1. PICK sent \in 0 .. 2, ok \in BOOLEAN :
        /\ Post(digest.ids, digest.price, sent, ok)
        /\ digest' = IF ok THEN [digest EXCEPT !.pc = "posted"] ELSE NoDigest
  BY DEF DigestPost
<1>2. /\ digest.pc = "built" /\ digest \in Issue /\ digest.price # 0
      /\ UNCHANGED <<kind, clock, row, want, match, rung, seen, notifier, waived>>
  BY DEF DigestPost, offer, book, TypeInv, Types, Senders
<1>3. digest' \in Issue
  BY <1>1, <1>2, DeliveryAssumption DEF Issue, NoDigest
<1>4. digest.ids \in SUBSET Items /\ digest.price \in 1 .. MaxPrice /\ Types
  BY <1>2, DeliveryAssumption DEF TypeInv, Issue, Items
<1>5. PostEffect(digest.ids, digest.price, ok)
  BY <1>1, <1>4, PostStep
<1>6. QED
  BY <1>1, <1>2, <1>3, <1>5

\* The digest dies after its post, or before it.
LEMMA DigestCrashStep ==
  ASSUME TypeInv, DigestCrash
  PROVE  /\ digest' = NoDigest /\ digest' \in Issue
         /\ doubt' \in [Items -> Doubts]
         /\ \A i \in Items :
              doubt'[i] = IF i \in PostedByDigest THEN doubt[i] \cup {"repeat"} ELSE doubt[i]
         /\ faults' = faults + 1 /\ faults < MaxFaults
         /\ UNCHANGED <<kind, clock, row, want, match, rung, seen, notifier, heard, shown, waived>>
<1>1. /\ digest' = NoDigest
      /\ doubt' = IF digest.pc = "posted" THEN Doubt(digest.ids, "repeat") ELSE doubt
      /\ faults' = faults + 1 /\ faults < MaxFaults
      /\ UNCHANGED <<kind, clock, row, want, match, rung, seen, notifier, heard, shown, waived>>
  BY DEF DigestCrash, Fault, offer, book
<1>2. Types /\ doubt \in [Items -> Doubts]
  BY DEF TypeInv, Types, Doubts
<1>3. digest' \in Issue
  BY <1>1, DeliveryAssumption DEF NoDigest, Issue
<1>4. CASE digest.pc = "posted"
  BY <1>1, <1>2, <1>3, <1>4, DoubtStep DEF PostedByDigest, Doubts
<1>5. CASE digest.pc # "posted"
  BY <1>1, <1>2, <1>3, <1>5 DEF PostedByDigest
<1>6. QED
  BY <1>4, <1>5

\* The steps that no message and no match is touched by.
Plain ==
  \/ Rescrape \/ Tick \/ MarkLot \/ ValueLoad \/ ValueFail \/ NotifierClaim \/ NotifierRestart
  \/ \E p \in Prices : Bid(p)
  \/ \E w \in Wants : ToggleWant(w)
  \/ UNCHANGED vars

PlainEffect ==
  /\ row' \in Row /\ row'.attempts = row.attempts /\ row'.reminded = row.reminded
  /\ row'.price = row.price \/ kind = "auction"
  /\ row'.prev = row.prev
  /\ clock' \in {"far", "closing", "over"} /\ (clock' = clock \/ kind = "auction")
  /\ want' \in [Wants -> {"none", "on", "off", "deleted"}]
  /\ \A w \in Wants : want'[w] = want[w] \/ {want'[w], want[w]} = {"on", "off"}
  /\ rung' \in BOOLEAN /\ (seen' = Nothing \/ seen' \in Seen)
  /\ notifier' \in Notice /\ notifier'.todo = notifier.todo
  /\ notifier'.posted = notifier.posted /\ notifier'.failed = notifier.failed
  /\ notifier'.pc = "posting" <=> notifier.pc = "posting"
  /\ notifier.pc = "posting" => notifier'.price = notifier.price
  /\ waived' \subseteq Wants /\ faults' \in faults .. MaxFaults
  /\ UNCHANGED <<kind, match, digest, heard, shown, doubt>>

LEMMA PlainStep == TypeInv /\ Plain => PlainEffect
<1> SUFFICES ASSUME TypeInv, Plain PROVE PlainEffect
  OBVIOUS
<1>1. /\ row \in Row /\ kind \in {"auction", "listing"} /\ clock \in {"far", "closing", "over"}
      /\ want \in [Wants -> {"none", "on", "off", "deleted"}]
      /\ rung \in BOOLEAN /\ (seen = Nothing \/ seen \in Seen)
      /\ notifier \in Notice /\ waived \subseteq Wants /\ faults \in 0 .. MaxFaults
      /\ notifier.pc # "posting" =>
           notifier.todo = {} /\ notifier.posted = {} /\ notifier.failed = {}
  BY DEF TypeInv, Types, Senders
<1>2. faults \in faults .. MaxFaults /\ MaxFaults \in Nat
  BY <1>1, DeliveryAssumption
<1> USE <1>1, <1>2 DEF PlainEffect, offer, book, hist, count, Move, Edit, Fault
<1>3. CASE Rescrape
  BY <1>3 DEF Rescrape, Row, Status
<1>4. CASE Tick
  BY <1>4 DEF Tick
<1>5. CASE MarkLot
  BY <1>5 DEF MarkLot, Row
<1>6. CASE ValueLoad
  BY <1>6 DEF ValueLoad, Row, Seen
<1>7. CASE ValueFail
  BY <1>7 DEF ValueFail, Row
<1>8. CASE NotifierClaim
  BY <1>8 DEF NotifierClaim, Row, Status, Notice
<1>9. CASE NotifierRestart
  BY <1>9, DeliveryAssumption DEF NotifierRestart, NoNotice, Row, Status, Notice
<1>10. ASSUME NEW p \in Prices, Bid(p) PROVE PlainEffect
  BY <1>10 DEF Bid, Row
<1>11. ASSUME NEW w \in Wants, ToggleWant(w) PROVE PlainEffect
  BY <1>11 DEF ToggleWant
<1>12. CASE UNCHANGED vars
  BY <1>12 DEF vars
<1>13. QED
  BY <1>3, <1>4, <1>5, <1>6, <1>7, <1>8, <1>9, <1>10, <1>11, <1>12 DEF Plain

\* The buyer lets go of a match.
LEMMA LetGoStep ==
  ASSUME TypeInv, NEW w \in Wants, DeleteWant(w) \/ DismissMatch(w)
  PROVE  /\ want' \in [Wants -> {"none", "on", "off", "deleted"}]
         /\ match' \in [Wants -> Match]
         /\ \/ want'[w] = "deleted" /\ match'[w] = NoMatch
            \/ /\ want'[w] = want[w] /\ match[w].made /\ match'[w].made /\ match'[w].dismissed
               /\ match'[w].stamped = match[w].stamped /\ match'[w].price = match[w].price
         /\ \A v \in Wants \ {w} : want'[v] = want[v] /\ match'[v] = match[v]
         /\ UNCHANGED <<kind, row, clock, rung, seen, notifier, digest, heard, shown, doubt, waived, faults>>
<1>1. /\ want \in [Wants -> {"none", "on", "off", "deleted"}]
      /\ match \in [Wants -> Match]
  BY DEF TypeInv, Types
<1>2. CASE DeleteWant(w)
  BY <1>1, <1>2, DeliveryAssumption DEF DeleteWant, Edit, offer, hist, Match, NoMatch
<1>3. CASE DismissMatch(w)
  <2>1. match[w].made /\ match' = [match EXCEPT ![w].dismissed = TRUE] /\ UNCHANGED want
    BY <1>3 DEF DismissMatch
  <2>2. match'[w] = [match[w] EXCEPT !.dismissed = TRUE] /\ match[w] \in Match
    BY <1>1, <2>1
  <2>3. /\ match'[w] \in Match /\ match'[w].made /\ match'[w].dismissed
        /\ match'[w].stamped = match[w].stamped /\ match'[w].price = match[w].price
    <3> HIDE DEF TypeInv
    <3>1. match[w].made
      BY <2>1
    <3>2. QED
      BY <2>2, <3>1 DEF Match
  <2>4. match' \in [Wants -> Match] /\ \A v \in Wants \ {w} : match'[v] = match[v]
    BY <1>1, <2>1, <2>3
  <2>5. QED
    BY <1>1, <1>3, <2>1, <2>3, <2>4 DEF DismissMatch, Edit, offer, hist
<1>4. QED
  BY <1>2, <1>3

Matched == ValueCommit \/ \E w \in Wants : CreateWant(w)
LetGo(w) == DeleteWant(w) \/ DismissMatch(w)

LEMMA NextCases ==
  ASSUME [Next]_vars
  PROVE  \/ Plain \/ Matched \/ (\E p \in Prices : Reprice(p)) \/ (\E w \in Wants : LetGo(w))
         \/ NotifierLoad \/ (\E i \in Items : NotifierPost(i)) \/ NotifierWrite
         \/ NotifierCrash \/ NotifierError
         \/ DigestBuild \/ DigestPost \/ DigestStamp \/ DigestCrash
BY DEF Next, Changes, Buyer, Valuator, Notifier, Digest, Plain, Matched, LetGo

-----------------------------------------------------------------------------
(* Type correctness.                                                       *)

LEMMA TypeInit == Init => TypeInv
<1> SUFFICES ASSUME Init PROVE TypeInv
  OBVIOUS
<1> USE DeliveryAssumption DEF Init, NoMatch, Nothing, NoNotice, NoDigest
<1>1. row \in Row /\ row.attempts <= MaxAttempts - 1 /\ ~row.reminded
  <2>1. PICK p \in FirstPrices, n \in {0, MaxAttempts - 1} :
          row = [price |-> p, prev |-> 0, val |-> "pending", notif |-> "pending",
                 attempts |-> n, watched |-> FALSE, reminded |-> FALSE]
    OBVIOUS
  <2>2. QED
    BY <2>1 DEF Row, Prices, Status
<1>2. notifier \in Notice /\ digest \in Issue
  BY DEF Notice, Issue
<1>3. match \in [Wants -> Match]
  BY DEF Match
<1>4. Types
  <2>1. /\ kind \in {"auction", "listing"} /\ clock \in {"far", "closing", "over"}
        /\ want \in [Wants -> {"none", "on", "off", "deleted"}]
    OBVIOUS
  <2>2. /\ heard \in [Items -> 0 .. 2] /\ shown \in [Wants -> 0 .. MaxPrice]
        /\ doubt \in [Items -> SUBSET {"repeat", "overtaken"}]
        /\ waived \subseteq Wants /\ faults \in 0 .. MaxFaults
        /\ rung \in BOOLEAN /\ seen = Nothing
    <3>1. /\ heard = [i \in Items |-> 0] /\ shown = [w \in Wants |-> 0]
          /\ doubt = [i \in Items |-> {}] /\ waived = {} /\ faults = 0
          /\ rung = FALSE /\ seen = Nothing
      OBVIOUS
    <3> HIDE DEF Init, Nothing
    <3>2. faults \in 0 .. MaxFaults
      BY <3>1
    <3>3. shown \in [Wants -> 0 .. MaxPrice]
      BY <3>1
    <3>4. heard \in [Items -> 0 .. 2]
      BY <3>1
    <3>5. doubt \in [Items -> SUBSET {"repeat", "overtaken"}]
      BY <3>1
    <3>6. QED
      BY <3>1, <3>2, <3>3, <3>4, <3>5
  <2>3. QED
    BY <1>1, <1>2, <1>3, <2>1, <2>2 DEF Types
<1>5. Ledger /\ Senders /\ LotsOnly /\ AttemptsCovered
  BY <1>1 DEF Ledger, Senders, LotsOnly, AttemptsCovered, InFlight
<1>6. QED
  BY <1>4, <1>5 DEF TypeInv

LEMMA TypeStep == TypeInv /\ [Next]_vars => TypeInv'
<1> SUFFICES ASSUME TypeInv, [Next]_vars PROVE TypeInv'
  OBVIOUS
<1>1. CASE Plain
  <2> USE <1>1, PlainStep DEF PlainEffect, TypeInv
  <2>1. Types'
    BY DeliveryAssumption DEF Types
  <2>2. Ledger'
    BY DEF Ledger, InFlight
  <2>3. Senders' /\ LotsOnly'
    BY DEF Senders, LotsOnly
  <2>4. AttemptsCovered'
    BY DeliveryAssumption DEF AttemptsCovered, Types, Row
  <2>5. QED
    BY <2>1, <2>2, <2>3, <2>4
<1>2. CASE Matched
  <2> USE <1>2, MatchingStep DEF Matched, TypeInv
  <2>1. Types'
    BY DEF Types
  <2>2. Ledger'
    BY DEF Ledger, InFlight
  <2>3. Senders' /\ LotsOnly' /\ AttemptsCovered'
    BY DEF Senders, LotsOnly, AttemptsCovered
  <2>4. QED
    BY <2>1, <2>2, <2>3
<1>3. ASSUME NEW p \in Prices, Reprice(p) PROVE TypeInv'
  <2> USE <1>3, RepriceStep DEF TypeInv
  <2>1. Types'
    BY DEF Types, Doubts
  <2>2. Ledger'
    BY DEF Ledger, InFlight, NoMatch, Reopened
  <2>3. Senders' /\ LotsOnly' /\ AttemptsCovered'
    BY DEF Senders, LotsOnly, AttemptsCovered
  <2>4. QED
    BY <2>1, <2>2, <2>3
<1>4. ASSUME NEW w \in Wants, LetGo(w) PROVE TypeInv'
  <2> USE <1>4, LetGoStep DEF TypeInv, LetGo
  <2>1. Types'
    BY DEF Types
  <2>2. Ledger'
    BY DEF Ledger, InFlight, NoMatch
  <2>3. Senders' /\ LotsOnly' /\ AttemptsCovered'
    BY DEF Senders, LotsOnly, AttemptsCovered
  <2>4. QED
    BY <2>1, <2>2, <2>3
<1>5. CASE NotifierLoad
  <2> USE <1>5, LoadStep DEF TypeInv
  <2>1. Types'
    BY DEF Types, Doubts
  <2>2. Ledger'
    BY DEF Ledger, InFlight, Open, OpenIn
  <2>3. row.price # 0
    BY DeliveryAssumption DEF Types, Row, Prices
  <2>4. Senders' /\ LotsOnly' /\ AttemptsCovered'
    BY <2>3 DEF Senders, LotsOnly, AttemptsCovered
  <2>5. QED
    BY <2>1, <2>2, <2>4
<1>6. ASSUME NEW i \in Items, NotifierPost(i) PROVE TypeInv'
  <2>1. PICK ok \in BOOLEAN :
         /\ notifier.pc = "posting" /\ i \in notifier.todo
         /\ notifier' \in Notice /\ notifier'.pc = "posting" /\ notifier'.price = notifier.price
         /\ notifier'.todo = notifier.todo \ {i}
         /\ notifier'.posted = IF ok THEN notifier.posted \cup {i} ELSE notifier.posted
         /\ notifier'.failed = IF ok THEN notifier.failed ELSE notifier.failed \cup {i}
         /\ PostEffect({i}, notifier.price, ok)
         /\ UNCHANGED <<kind, clock, row, want, match, rung, seen, digest, waived>>
    BY <1>6, NotifierPostStep
  <2> USE <2>1 DEF TypeInv, PostEffect
  <2>2. Types'
    BY DeliveryAssumption DEF Types, Doubts
  <2>3. Ledger' /\ Senders' /\ LotsOnly'
    BY DEF Ledger, InFlight, Senders, LotsOnly
  <2>4. AttemptsCovered'
    BY DeliveryAssumption DEF AttemptsCovered, Types, Row
  <2>5. QED
    BY <2>2, <2>3, <2>4
<1>7. CASE NotifierWrite
  <2> USE <1>7, WriteStep DEF TypeInv
  <2>1. Types'
    BY DeliveryAssumption DEF Types, NoNotice, Notice
  <2>2. Ledger'
    BY DEF Ledger, InFlight, NoNotice
  <2>3. Senders' /\ LotsOnly'
    BY DEF Senders, LotsOnly, NoNotice
  <2>4. AttemptsCovered'
    BY DeliveryAssumption DEF AttemptsCovered, NoNotice, Types, Row
  <2>5. QED
    BY <2>1, <2>2, <2>3, <2>4
<1>8. CASE NotifierCrash \/ NotifierError
  <2> USE <1>8, StopStep DEF TypeInv
  <2>1. Types'
    BY DeliveryAssumption DEF Types, Doubts
  <2>2. Ledger' /\ Senders' /\ LotsOnly'
    BY DEF Ledger, InFlight, Senders, LotsOnly
  <2>3. AttemptsCovered'
    BY DeliveryAssumption DEF AttemptsCovered, Types, Row
  <2>4. QED
    BY <2>1, <2>2, <2>3
<1>9. CASE DigestBuild
  <2> USE <1>9, BuildStep DEF TypeInv
  <2>1. Types'
    BY DEF Types, Doubts
  <2>2. Ledger'
    BY DEF Ledger, InFlight, Open, OpenIn
  <2>3. row.price # 0
    BY DeliveryAssumption DEF Types, Row, Prices
  <2>4. Senders' /\ LotsOnly' /\ AttemptsCovered'
    BY <2>3 DEF Senders, LotsOnly, AttemptsCovered
  <2>5. QED
    BY <2>1, <2>2, <2>4
<1>10. CASE DigestPost
  <2>1. PICK ok \in BOOLEAN :
         /\ digest.pc = "built"
         /\ digest' = IF ok THEN [digest EXCEPT !.pc = "posted"] ELSE NoDigest
         /\ digest' \in Issue
         /\ PostEffect(digest.ids, digest.price, ok)
         /\ UNCHANGED <<kind, clock, row, want, match, rung, seen, notifier, waived>>
    BY <1>10, DigestPostStep
  <2>2. /\ digest'.pc # "built" /\ digest'.ids \subseteq digest.ids
        /\ digest'.pc = "idle" <=> digest'.ids = {}
        /\ digest'.pc # "idle" => digest'.price # 0
    BY <2>1 DEF NoDigest, TypeInv, Types, Issue, Senders
  <2> USE <2>1, <2>2 DEF TypeInv, PostEffect
  <2>3. Types'
    BY DeliveryAssumption DEF Types, Doubts
  <2>4. Ledger' /\ Senders' /\ LotsOnly'
    BY DEF Ledger, InFlight, Senders, LotsOnly
  <2>5. AttemptsCovered'
    BY DeliveryAssumption DEF AttemptsCovered, Types, Row
  <2>6. QED
    BY <2>3, <2>4, <2>5
<1>11. CASE DigestStamp
  <2>1. /\ digest.pc = "posted" /\ Stamp(digest.ids) /\ digest' = NoDigest /\ Types
        /\ UNCHANGED <<kind, row, clock, want, rung, seen, notifier, heard, shown, doubt, waived, faults>>
    BY <1>11 DEF DigestStamp, offer, hist, count, TypeInv
  <2> USE <2>1, StampStep DEF TypeInv
  <2>2. Types'
    BY DeliveryAssumption DEF Types, NoDigest, Issue
  <2>3. Ledger'
    BY DEF Ledger, InFlight, NoDigest
  <2>4. Senders' /\ LotsOnly' /\ AttemptsCovered'
    BY DEF Senders, LotsOnly, AttemptsCovered, NoDigest
  <2>5. QED
    BY <2>2, <2>3, <2>4
<1>12. CASE DigestCrash
  <2> USE <1>12, DigestCrashStep DEF TypeInv, NoDigest
  <2>1. Types'
    BY DeliveryAssumption DEF Types, Doubts
  <2>2. Ledger' /\ Senders' /\ LotsOnly'
    BY DEF Ledger, InFlight, Senders, LotsOnly
  <2>3. AttemptsCovered'
    BY DeliveryAssumption DEF AttemptsCovered, Types, Row
  <2>4. QED
    BY <2>1, <2>2, <2>3
<1>13. QED
  BY <1>1, <1>2, <1>3, <1>4, <1>5, <1>6, <1>7, <1>8, <1>9, <1>10, <1>11, <1>12, NextCases

LEMMA TypeAlways == Spec => []TypeInv
BY TypeInit, TypeStep, PTL DEF Spec

\* A match belongs to a want that exists, the attempts are bounded, only lots are
\* reminded of, and a program that is not at work carries nothing.
THEOREM TypeCorrect == Spec => []TypeOK
<1>1. TypeInv => TypeOK
  <2> SUFFICES ASSUME TypeInv PROVE TypeOK
    OBVIOUS
  <2> USE DEF TypeInv, Types
  <2>1. /\ row.price \in Prices /\ row.prev \in 0 .. MaxPrice
        /\ row.val \in {"pending", "in_progress", "done"}
        /\ row.notif \in {"pending", "in_progress", "done", "skipped", "failed"}
        /\ row.attempts \in 0 .. MaxAttempts + MaxFaults
    BY DeliveryAssumption DEF Row, Status, AttemptsCovered
  <2>2. /\ notifier.pc \in {"idle", "claimed", "posting", "down"}
        /\ notifier.todo \cup notifier.posted \cup notifier.failed \subseteq Items
        /\ digest.pc \in {"idle", "built", "posted"} /\ digest.ids \subseteq Wants
    BY DEF Notice, Issue
  <2>3. QED
    BY <2>1, <2>2 DEF TypeOK, Match, Ledger, Senders, LotsOnly
<1>2. QED
  BY <1>1, TypeAlways, PTL

-----------------------------------------------------------------------------
(* What bears a stamp was announced.                                       *)

LEMMA ToldInit == Init => ToldInv
BY DEF Init, ToldInv, PostedByDigest, NoMatch, NoNotice, NoDigest

LEMMA ToldStep == TypeInv /\ ToldInv /\ [Next]_vars => ToldInv'
<1> SUFFICES ASSUME TypeInv, ToldInv, [Next]_vars PROVE ToldInv'
  OBVIOUS
<1> USE DEF ToldInv, Current, PostedByDigest
<1>1. CASE Plain
  <2>1. \A w \in Wants : w \in notifier.todo \cup notifier.posted => notifier'.price = notifier.price
    BY <1>1, PlainStep DEF PlainEffect, TypeInv, Senders
  <2>2. QED
    BY <1>1, <2>1, PlainStep DEF PlainEffect
<1>2. CASE Matched
  <2>1. \A w \in Wants :
          match'[w].stamped \/ w \in InFlight => match[w].made \/ ~match'[w].made
    BY <1>2, MatchingStep DEF Matched, TypeInv, Ledger, NoMatch
  <2>2. QED
    BY <1>2, <2>1, MatchingStep DEF Matched, InFlight
<1>3. ASSUME NEW p \in Prices, Reprice(p) PROVE ToldInv'
  <2>1. p \in Nat /\ row.price \in Nat /\ notifier.price \in Nat /\ digest.price \in Nat
    BY DeliveryAssumption DEF TypeInv, Types, Row, Prices, Notice, Issue
  <2>2. \A w \in Wants : shown[w] \in Nat
    BY DeliveryAssumption DEF TypeInv, Types
  <2>3. ASSUME NEW w \in Wants, NEW q \in Nat, Current(w, q), w \in InFlight \/ match'[w].stamped
        PROVE  Current(w, q)'
    <3>1. CASE w \in Reopened(p)
      <4>1. w \in InFlight
        <5>1. ~match'[w].stamped
          BY <1>3, <3>1, RepriceStep
        <5>2. QED
          BY <2>3, <5>1
      <4>2. "overtaken" \in doubt'[w]
        <5>1. \A i \in Items :
                doubt'[i] = IF i \in Reopened(p) \cap InFlight THEN doubt[i] \cup {"overtaken"}
                            ELSE doubt[i]
          BY <1>3, RepriceStep
        <5>2. QED
          BY <3>1, <4>1, <5>1 DEF Items
      <4>3. QED
        BY <2>3, <4>2
    <3>2. CASE w \notin Reopened(p)
      <4>1. match'[w] = match[w] /\ doubt'[w] = doubt[w] /\ kind' = kind /\ row'.price = p
        BY <1>3, <3>2, RepriceStep DEF Items
      <4>2. p >= row.price \/ ~match[w].made \/ match[w].dismissed
        BY <2>1, <3>2 DEF Reopened
      <4>3. QED
        BY <2>1, <2>3, <4>1, <4>2
    <3>3. QED
      BY <3>1, <3>2
  <2>4. ASSUME NEW w \in Wants, w \in PostedByDigest PROVE w \in InFlight
    BY <2>4 DEF InFlight
  <2>5. ASSUME NEW w \in Wants, match'[w].stamped PROVE match[w].stamped
    BY <1>3, <2>5, RepriceStep
  <2> HIDE DEF Current
  <2>6. QED
    BY <1>3, <2>1, <2>2, <2>3, <2>4, <2>5, RepriceStep DEF InFlight
<1>4. ASSUME NEW w \in Wants, LetGo(w) PROVE ToldInv'
  BY <1>4, LetGoStep DEF LetGo, NoMatch
<1>5. CASE NotifierLoad
  <2>1. row.price \in Nat \ {0}
    BY DeliveryAssumption DEF TypeInv, Types, Row, Prices
  <2>2. \A w \in Wants : \A q : Current(w, q) => Current(w, q)'
    BY <1>5, LoadStep DEF Items
  <2>3. \A w \in Wants : Current(w, row.price)'
    BY <1>5, <2>1, LoadStep
  <2> HIDE DEF Current
  <2>4. QED
    BY <1>5, <2>2, <2>3, LoadStep
<1>6. ASSUME NEW i \in Items, NotifierPost(i) PROVE ToldInv'
  <2>1. PICK ok \in BOOLEAN :
         /\ notifier.pc = "posting" /\ i \in notifier.todo
         /\ notifier' \in Notice /\ notifier'.pc = "posting" /\ notifier'.price = notifier.price
         /\ notifier'.todo = notifier.todo \ {i}
         /\ notifier'.posted = IF ok THEN notifier.posted \cup {i} ELSE notifier.posted
         /\ notifier'.failed = IF ok THEN notifier.failed ELSE notifier.failed \cup {i}
         /\ PostEffect({i}, notifier.price, ok)
         /\ UNCHANGED <<kind, clock, row, want, match, rung, seen, digest, waived>>
    BY <1>6, NotifierPostStep
  <2>2. QED
    BY <2>1 DEF PostEffect, Items
<1>7. CASE NotifierWrite
  BY <1>7, WriteStep DEF NoNotice
<1>8. CASE NotifierCrash \/ NotifierError
  BY <1>8, StopStep DEF Items
<1>9. CASE DigestBuild
  <2>1. row.price \in Nat \ {0}
    BY DeliveryAssumption DEF TypeInv, Types, Row, Prices
  <2>2. \A w \in Wants : \A q : Current(w, q) => Current(w, q)'
    BY <1>9, BuildStep DEF Items
  <2>3. \A w \in Wants : Current(w, row.price)'
    BY <1>9, <2>1, BuildStep
  <2> HIDE DEF Current
  <2>4. QED
    BY <1>9, <2>2, <2>3, BuildStep
<1>10. CASE DigestPost
  <2>1. PICK ok \in BOOLEAN :
         /\ digest.pc = "built"
         /\ digest' = IF ok THEN [digest EXCEPT !.pc = "posted"] ELSE NoDigest
         /\ digest' \in Issue
         /\ PostEffect(digest.ids, digest.price, ok)
         /\ UNCHANGED <<kind, clock, row, want, match, rung, seen, notifier, waived>>
    BY <1>10, DigestPostStep
  <2>2. /\ digest'.ids \subseteq digest.ids /\ (ok \/ digest'.ids = {})
        /\ digest'.ids # {} => digest'.price = digest.price
    BY <2>1 DEF NoDigest, TypeInv, Types, Issue
  <2>3. QED
    BY <2>1, <2>2 DEF PostEffect, Items
<1>11. CASE DigestStamp
  <2>1. /\ digest.pc = "posted" /\ Stamp(digest.ids) /\ digest' = NoDigest /\ Types
        /\ UNCHANGED <<kind, row, clock, want, rung, seen, notifier, heard, shown, doubt, waived, faults>>
    BY <1>11 DEF DigestStamp, offer, hist, count, TypeInv
  <2>2. QED
    BY <2>1, StampStep DEF NoDigest
<1>12. CASE DigestCrash
  <2>1. \A w \in Wants : \A q : Current(w, q) => Current(w, q)'
    BY <1>12, DigestCrashStep DEF Items
  <2>2. digest'.ids = {} /\ digest'.pc = "idle"
    BY <1>12, DigestCrashStep DEF NoDigest
  <2> HIDE DEF Current
  <2>3. QED
    BY <1>12, <2>1, <2>2, DigestCrashStep
<1>13. QED
  BY <1>1, <1>2, <1>3, <1>4, <1>5, <1>6, <1>7, <1>8, <1>9, <1>10, <1>11, <1>12, NextCases

\* A stamped match has been announced, and a listing's at the price it has now or a
\* lower one unless it is dismissed, or the price dropped while the announcement was on
\* its way.
THEOREM StampedWasTold == Spec => []StampedMeansTold
<1>1. TypeInv /\ ToldInv => StampedMeansTold
  BY DEF TypeInv, Ledger, ToldInv, Current, StampedMeansTold, NoMatch
<1>2. QED
  BY <1>1, ToldInit, ToldStep, TypeAlways, PTL DEF Spec

-----------------------------------------------------------------------------
(* Nothing is announced twice without a reason.                            *)

LEMMA OnceInit == Init => OnceInv
BY DEF Init, OnceInv, PostedByDigest, NoNotice, NoDigest

LEMMA OnceStep == TypeInv /\ OnceInv /\ [Next]_vars => OnceInv'
<1> SUFFICES ASSUME TypeInv, OnceInv, [Next]_vars PROVE OnceInv'
  OBVIOUS
<1> USE DEF OnceInv, Unsettled, PostedByDigest
<1>1. CASE Plain
  BY <1>1, PlainStep DEF PlainEffect
<1>2. CASE Matched
  BY <1>2, MatchingStep DEF Matched
<1>3. ASSUME NEW p \in Prices, Reprice(p) PROVE OnceInv'
  <2>1. ASSUME NEW i \in Items, i \notin Reopened(p)
        PROVE  heard'[i] = heard[i] /\ doubt'[i] = doubt[i] /\ (Unsettled(i)' <=> Unsettled(i))
    BY <1>3, <2>1, RepriceStep
  <2>2. ASSUME NEW i \in Items, i \in Reopened(p)
        PROVE  heard'[i] = 0 /\ doubt[i] \subseteq doubt'[i]
    BY <1>3, <2>2, RepriceStep
  <2> HIDE DEF Unsettled
  <2>3. QED
    BY <1>3, <2>1, <2>2, RepriceStep
<1>4. ASSUME NEW w \in Wants, LetGo(w) PROVE OnceInv'
  BY <1>4, LetGoStep DEF LetGo, NoMatch
<1>5. CASE NotifierLoad
  <2>1. \A i \in Items : i \in notifier'.todo => Unsettled(i)
    BY <1>5, LoadStep DEF Open, OpenIn, Items
  <2>2. QED
    BY <1>5, <2>1, LoadStep
<1>6. ASSUME NEW i \in Items, NotifierPost(i) PROVE OnceInv'
  <2>1. PICK ok \in BOOLEAN :
         /\ notifier.pc = "posting" /\ i \in notifier.todo
         /\ notifier' \in Notice /\ notifier'.pc = "posting" /\ notifier'.price = notifier.price
         /\ notifier'.todo = notifier.todo \ {i}
         /\ notifier'.posted = IF ok THEN notifier.posted \cup {i} ELSE notifier.posted
         /\ notifier'.failed = IF ok THEN notifier.failed ELSE notifier.failed \cup {i}
         /\ PostEffect({i}, notifier.price, ok)
         /\ UNCHANGED <<kind, clock, row, want, match, rung, seen, digest, waived>>
    BY <1>6, NotifierPostStep
  <2>2. QED
    BY <2>1 DEF PostEffect
<1>7. CASE NotifierWrite
  <2>1. \A i \in Items : i \in notifier.posted => ~Unsettled(i)'
    BY <1>7, WriteStep DEF TypeInv, Ledger, InFlight, Items
  <2>2. \A i \in Items : Unsettled(i)' => Unsettled(i)
    BY <1>7, WriteStep
  <2>3. QED
    BY <1>7, <2>1, <2>2, WriteStep DEF NoNotice
<1>8. CASE NotifierCrash \/ NotifierError
  BY <1>8, StopStep
<1>9. CASE DigestBuild
  <2>1. \A w \in Open : Unsettled(w)
    BY DEF Open, OpenIn
  <2>2. QED
    BY <1>9, <2>1, BuildStep
<1>10. CASE DigestPost
  <2>1. PICK ok \in BOOLEAN :
         /\ digest.pc = "built"
         /\ digest' = IF ok THEN [digest EXCEPT !.pc = "posted"] ELSE NoDigest
         /\ digest' \in Issue
         /\ PostEffect(digest.ids, digest.price, ok)
         /\ UNCHANGED <<kind, clock, row, want, match, rung, seen, notifier, waived>>
    BY <1>10, DigestPostStep
  <2>2. IF ok THEN digest'.ids = digest.ids /\ digest'.pc = "posted"
        ELSE digest'.ids = {} /\ digest'.pc = "idle"
    BY <2>1 DEF NoDigest, TypeInv, Types, Issue
  <2>3. QED
    BY <2>1, <2>2 DEF PostEffect
<1>11. CASE DigestStamp
  <2>1. /\ digest.pc = "posted" /\ Stamp(digest.ids) /\ digest' = NoDigest /\ Types
        /\ UNCHANGED <<kind, row, clock, want, rung, seen, notifier, heard, shown, doubt, waived, faults>>
    BY <1>11 DEF DigestStamp, offer, hist, count, TypeInv
  <2>2. \A i \in Items : i \in digest.ids => ~Unsettled(i)'
    BY <2>1, StampStep DEF TypeInv, Types, Issue, Ledger, InFlight
  <2>3. \A i \in Items : Unsettled(i)' => Unsettled(i)
    BY <2>1, StampStep
  <2>4. QED
    BY <2>1, <2>2, <2>3 DEF NoDigest
<1>12. CASE DigestCrash
  BY <1>12, DigestCrashStep DEF NoDigest
<1>13. QED
  BY <1>1, <1>2, <1>3, <1>4, <1>5, <1>6, <1>7, <1>8, <1>9, <1>10, <1>11, <1>12, NextCases

\* At most one message per match, or per match and price drop, and one reminder per lot,
\* unless a crash came between post and stamp, a response was lost, notifier and digest
\* carried the same match, or a drop reopened it on the way.
THEOREM ToldAtMostOnce == Spec => []HeardOnce
<1>1. OnceInv => HeardOnce
  BY DEF OnceInv, HeardOnce
<1>2. QED
  BY <1>1, OnceInit, OnceStep, TypeAlways, PTL DEF Spec

-----------------------------------------------------------------------------
(* What is urgent is queued.                                               *)

LEMMA QueuedInit == Init => QueuedInv
BY DEF Init, QueuedInv, Due

\* What a load makes of the matches that are due: to be posted now, or waived.
LEMMA LoadTakesDue ==
  ASSUME TypeInv, NotifierLoad, NEW w \in Due'
  PROVE  w \in Due /\ w \in notifier'.todo
<1> DEFINE alerts == {v \in Open : Matches(v, row.price)}
           urgent == {v \in alerts : Instant(v, row.price, row.price, row.prev)}
           due == IF ReminderDue THEN {Reminder} ELSE {}
<1>1. PICK quiet \in BOOLEAN :
        LET todo == due \cup IF quiet THEN {} ELSE urgent
        IN  /\ notifier' = [notifier EXCEPT !.pc = "posting", !.todo = todo, !.price = row.price]
            /\ waived' = IF quiet THEN waived \cup urgent ELSE waived
            /\ doubt' = Doubt(todo \cap digest.ids, "repeat")
  BY DEF NotifierLoad
<1>2. UNCHANGED <<kind, clock, row, want, match>> /\ notifier \in Notice
  BY DEF NotifierLoad, offer, book, TypeInv, Types
<1>3. w \in Due /\ w \notin waived'
  BY <1>1, <1>2 DEF Due, Open, OpenIn, Matches
<1>4. w \in urgent
  BY <1>3 DEF Due, Instant
<1>5. w \in notifier'.todo
  BY <1>1, <1>2, <1>3, <1>4 DEF Notice
<1>6. QED
  BY <1>3, <1>5

\* A valuation that ends with w due has seen the prices of the row, so w is urgent to it
\* and it has queued the offer.
LEMMA CommitQueuesDue ==
  ASSUME TypeInv, ValueCommit, NEW w \in Due'
  PROVE  row'.notif = "pending" /\ rung'
<1> DEFINE matching == {v \in Wants : want[v] = "on" /\ Matches(v, seen.price)}
<1>1. PICK dups \in SUBSET {v \in matching : ~match[v].made}, filter \in {"pending", "skipped"} :
        LET ledger == Evaluated(matching, dups)
            final == IF Urgent(ledger) # {} THEN "pending" ELSE filter
            written == final # seen.notif \/ (matching # {} /\ filter # seen.notif)
            status == IF written THEN final ELSE row.notif
        IN  /\ match' = ledger
            /\ row' = [row EXCEPT !.val = "done", !.notif = status]
            /\ rung' = (rung \/ final = "pending")
            /\ waived' = IF \/ <<row.price, row.prev>> # <<seen.price, seen.prev>>
                            \/ final = "pending" /\ status # "pending"
                         THEN Wants ELSE {}
  BY DEF ValueCommit
<1>2. UNCHANGED <<kind, clock, want>> /\ row \in Row
  BY DEF ValueCommit, TypeInv, Types
<1> DEFINE ledger == Evaluated(matching, dups)
           final == IF Urgent(ledger) # {} THEN "pending" ELSE filter
           written == final # seen.notif \/ (matching # {} /\ filter # seen.notif)
           status == IF written THEN final ELSE row.notif
<1>3. /\ match' = ledger
      /\ row'.price = row.price /\ row'.prev = row.prev /\ row'.notif = status
      /\ rung' = (rung \/ final = "pending")
  BY <1>1, <1>2 DEF Row
<1>4. w \in Wants /\ w \in OpenIn(ledger) /\ w \notin waived'
  BY <1>2, <1>3 DEF Due, Open, OpenIn
<1>5. row.price = seen.price /\ row.prev = seen.prev /\ (final = "pending" => status = "pending")
  BY <1>1, <1>4
<1>6. w \in matching /\ ledger[w].price = seen.price
  BY <1>2, <1>3, <1>4, <1>5 DEF Due, OpenIn, Evaluated, Matches, TypeInv, Types, Match
<1>7. w \in Urgent(ledger)
  BY <1>2, <1>3, <1>4, <1>5, <1>6 DEF Due, Urgent, Instant
<1>8. final = "pending"
  BY <1>7
<1>9. QED
  BY <1>3, <1>5, <1>8

\* A step that leaves row, messages and bell alone and makes nothing due keeps the queue.
LEMMA QueuedKept ==
  ASSUME QueuedInv, Due' \subseteq Due, row'.notif = row.notif, rung' = rung,
         notifier'.pc = notifier.pc, notifier'.todo = notifier.todo,
         notifier'.posted = notifier.posted, notifier'.failed = notifier.failed
  PROVE  QueuedInv'
BY DEF QueuedInv

LEMMA QueuedStep == TypeInv /\ QueuedInv /\ [Next]_vars => QueuedInv'
<1> SUFFICES ASSUME TypeInv, QueuedInv, [Next]_vars PROVE QueuedInv'
  OBVIOUS
<1>0. /\ row \in Row /\ notifier \in Notice /\ waived \subseteq Wants /\ rung \in BOOLEAN
      /\ notifier.pc # "posting" =>
           notifier.todo = {} /\ notifier.posted = {} /\ notifier.failed = {}
  BY DEF TypeInv, Types, Senders
<1>1. CASE Rescrape
  <2>1. row'.val = "pending"
    BY <1>0, <1>1 DEF Rescrape, Row
  <2>2. QED
    BY <2>1 DEF QueuedInv, Due
<1>2. CASE Tick \/ UNCHANGED vars \/ DigestBuild \/ DigestPost \/ DigestCrash
  <2>1. UNCHANGED <<kind, row, want, match, rung, notifier, waived>>
    BY <1>2 DEF Tick, vars, DigestBuild, DigestPost, DigestCrash, offer, book, hist
  <2>2. Due' = Due
    BY <2>1 DEF Due, Open, OpenIn, Matches
  <2>3. QED
    BY <2>1, <2>2, QueuedKept
<1>3. CASE MarkLot
  <2>1. /\ UNCHANGED <<kind, want, match, rung, notifier, waived>>
        /\ row' = [row EXCEPT !.watched = ~@]
    BY <1>3 DEF MarkLot, book, hist
  <2>2. /\ row'.price = row.price /\ row'.prev = row.prev /\ row'.val = row.val
        /\ row'.notif = row.notif
    BY <1>0, <2>1 DEF Row
  <2>3. Due' = Due
    BY <2>1, <2>2 DEF Due, Open, OpenIn, Matches
  <2>4. QED
    BY <2>1, <2>2, <2>3, QueuedKept
<1>4. CASE ValueLoad \/ ValueFail
  <2>1. row'.val # "done"
    BY <1>0, <1>4 DEF ValueLoad, ValueFail, Row
  <2>2. QED
    BY <2>1 DEF QueuedInv, Due
<1>5. ASSUME NEW p \in Prices, Bid(p) \/ Reprice(p) PROVE QueuedInv'
  <2>1. row'.val = "pending"
    BY <1>0, <1>5 DEF Bid, Reprice, Row
  <2>2. QED
    BY <2>1 DEF QueuedInv, Due
<1>6. CASE ValueCommit
  BY <1>6, CommitQueuesDue DEF QueuedInv
<1>7. ASSUME NEW w \in Wants, CreateWant(w) \/ ToggleWant(w) PROVE QueuedInv'
  <2>1. /\ UNCHANGED <<kind, row, rung, notifier>> /\ waived' = waived \cup {w}
        /\ \A v \in Wants \ {w} : want'[v] = want[v] /\ match'[v] = match[v]
    BY <1>7 DEF CreateWant, ToggleWant, offer, TypeInv, Types
  <2>2. Due' \subseteq Due
    BY <2>1 DEF Due, Open, OpenIn, Matches
  <2>3. QED
    BY <2>1, <2>2, QueuedKept
<1>8. ASSUME NEW w \in Wants, LetGo(w) PROVE QueuedInv'
  <2>1. UNCHANGED <<kind, row, rung, notifier, waived>>
    BY <1>8, LetGoStep DEF LetGo
  <2>2. Due' \subseteq Due
    BY <1>8, LetGoStep DEF LetGo, Due, Open, OpenIn, Matches, NoMatch
  <2>3. QED
    BY <2>1, <2>2, QueuedKept
<1>9. CASE NotifierClaim
  <2>1. /\ UNCHANGED <<kind, want, match, waived>>
        /\ row' = [row EXCEPT !.notif = "in_progress"]
        /\ notifier' = [notifier EXCEPT !.pc = "claimed"]
    BY <1>9 DEF NotifierClaim, book, hist
  <2>2. row'.notif = "in_progress" /\ notifier'.pc = "claimed"
    BY <1>0, <2>1 DEF Row, Notice
  <2>3. QED
    BY <2>2 DEF QueuedInv
<1>10. CASE NotifierLoad
  <2>1. notifier.pc = "claimed" /\ UNCHANGED <<row, rung>>
    BY <1>10, LoadStep
  <2>2. ASSUME NEW w \in Due' PROVE w \in Due /\ w \in notifier'.todo
    BY <1>10, <2>2, LoadTakesDue
  <2>3. QED
    BY <2>1, <2>2 DEF QueuedInv
<1>11. ASSUME NEW i \in Items, NotifierPost(i) PROVE QueuedInv'
  <2>1. /\ notifier.pc = "posting" /\ i \in notifier.todo /\ notifier'.pc = "posting"
        /\ notifier'.todo \cup notifier'.posted \cup notifier'.failed
             = notifier.todo \cup notifier.posted \cup notifier.failed
        /\ UNCHANGED <<kind, row, want, match, rung, waived>>
    BY <1>11, NotifierPostStep
  <2>2. Due' = Due
    BY <2>1 DEF Due, Open, OpenIn, Matches
  <2>3. QED
    BY <2>1, <2>2 DEF QueuedInv
<1>12. CASE NotifierWrite
  <2>1. /\ notifier.pc = "posting" /\ notifier.todo = {}
        /\ UNCHANGED <<kind, want>>
        /\ row'.price = row.price /\ row'.prev = row.prev /\ row'.val = row.val
    BY <1>12, WriteStep
  <2>2. PICK spent \in BOOLEAN :
          LET status == IF Outcome # "retry" THEN Outcome
                        ELSE IF spent THEN "failed" ELSE "pending"
          IN  /\ row'.notif = status
              /\ rung' = (rung \/ status = "pending")
              /\ waived' = IF status = "failed" \/ (row.notif = "pending" /\ status # "pending")
                           THEN Wants ELSE waived
    BY <1>0, <1>12 DEF NotifierWrite, Row
  <2>3. ASSUME NEW w \in Due' PROVE w \in Wants /\ w \notin waived' /\ w \in Due /\ w \notin notifier.posted
    BY <1>12, <2>1, <2>2, <2>3, WriteStep DEF Due, Open, OpenIn, Matches
  <2>4. ASSUME NEW w \in Due' PROVE row'.notif = "pending" /\ rung'
    <3>1. row'.notif # "failed" /\ (row.notif = "pending" => row'.notif = "pending")
      BY <2>2, <2>3, <2>4
    <3>2. CASE row.notif = "pending"
      BY <2>2, <3>1, <3>2
    <3>3. CASE row.notif # "pending"
      <4>1. w \in notifier.failed
        BY <2>1, <2>3, <2>4, <3>3 DEF QueuedInv
      <4>2. Outcome = "retry"
        BY <2>3, <2>4, <4>1 DEF Outcome
      <4>3. QED
        BY <2>2, <3>1, <4>2
    <3>4. QED
      BY <3>2, <3>3
  <2>5. QED
    BY <2>4 DEF QueuedInv
<1>13. CASE NotifierCrash
  <2>1. /\ UNCHANGED <<kind, row, want, match, rung, waived>> /\ notifier'.pc = "down"
    BY <1>13 DEF NotifierCrash, offer, book, NoNotice
  <2>2. Due' = Due
    BY <2>1 DEF Due, Open, OpenIn, Matches
  <2>3. QED
    BY <2>1, <2>2 DEF QueuedInv
<1>14. CASE NotifierError
  BY <1>14 DEF NotifierError, QueuedInv, Due, Open, OpenIn
<1>15. CASE NotifierRestart
  <2>1. UNCHANGED <<kind, want, match, waived>> /\ rung'
        /\ row' = IF row.notif = "in_progress" THEN [row EXCEPT !.notif = "pending"] ELSE row
    BY <1>15 DEF NotifierRestart, book, hist
  <2>2. /\ row'.price = row.price /\ row'.prev = row.prev /\ row'.val = row.val
        /\ row'.notif = IF row.notif = "in_progress" THEN "pending" ELSE row.notif
    BY <1>0, <2>1 DEF Row
  <2>3. Due' = Due
    BY <2>1, <2>2 DEF Due, Open, OpenIn, Matches
  <2>4. QED
    BY <2>1, <2>2, <2>3 DEF QueuedInv
<1>16. CASE DigestStamp
  <2>1. UNCHANGED <<kind, row, want, rung, notifier, waived>> /\ Stamp(digest.ids) /\ Types
    BY <1>16 DEF DigestStamp, offer, hist, TypeInv
  <2>2. Due' \subseteq Due
    BY <2>1, StampStep DEF Due, Open, OpenIn, Matches
  <2>3. QED
    BY <2>1, <2>2, QueuedKept
<1>17. QED
  BY <1>1, <1>2, <1>3, <1>4, <1>5, <1>6, <1>7, <1>8, <1>9, <1>10, <1>11, <1>12, <1>13, <1>14,
     <1>15, <1>16, NextCases DEF Plain, Matched

\* An urgent open match of a valued offer is queued for the notifier or in its hands, or
\* it is one of those that may wait for the digest.
THEOREM UrgentIsQueued == Spec => []InstantQueued
<1>1. QueuedInv => InstantQueued
  BY DEF QueuedInv, Due, InstantQueued
<1>2. QED
  BY <1>1, QueuedInit, QueuedStep, TypeAlways, PTL DEF Spec

-----------------------------------------------------------------------------
(* Notifier and digest implement the abstract ledger of Delivery.          *)

\* The state functions of the refinement, by short names.
Book == [i \in Items |-> LedgerOf(i)]
Bags == [s \in {"notifier", "digest"} |-> InHand(s)]
Posts == [s \in {"notifier", "digest"} |-> Unstamped(s)]
DStep == [D!DNext]_(D!dvars)

\* A post reaches all it is about, or none of it.
TellEffect(S, ok) == (ok => Told' = Told \cup S) /\ Told' \in {Told, Told \cup S}

LEMMA PostTells ==
  ASSUME Types, NEW S \in SUBSET Items, NEW price \in 1 .. MaxPrice,
         NEW sent \in 0 .. 2, NEW ok \in BOOLEAN, Post(S, price, sent, ok)
  PROVE  TellEffect(S, ok)
<1>1. /\ heard \in [Items -> 0 .. 2] /\ shown \in [Wants -> 0 .. MaxPrice]
      /\ Reminder \in Items /\ Items \ {Reminder} \subseteq Wants
  BY DEF Types, Items
<1>2. \A i \in Items : heard'[i] = IF i \in S THEN (IF heard[i] + sent >= 2 THEN 2 ELSE heard[i] + sent)
                                   ELSE heard[i]
  <2>1. ASSUME NEW i \in Items
        PROVE  Min({2, heard[i] + sent}) = IF heard[i] + sent >= 2 THEN 2 ELSE heard[i] + sent
    <3>1. heard[i] + sent \in Int
      BY <1>1
    <3>2. QED
      BY <3>1, MinOfTwo
  <2>2. QED
    BY <2>1 DEF Post
<1>3. \A w \in Wants : shown'[w] = IF w \in S /\ sent > 0 THEN price ELSE shown[w]
  BY DEF Post
<1>4. \A i \in Items : i \in Told' <=> i \in Told \/ (i \in S /\ sent > 0)
  <2> SUFFICES ASSUME NEW i \in Items
               PROVE  i \in Told' <=> i \in Told \/ (i \in S /\ sent > 0)
    OBVIOUS
  <2>1. CASE i = Reminder
    <3>1. heard'[i] # 0 <=> heard[i] # 0 \/ (i \in S /\ sent > 0)
      BY <1>1, <1>2
    <3>2. QED
      BY <2>1, <3>1 DEF Told
  <2>2. CASE i # Reminder
    <3>1. shown'[i] # 0 <=> shown[i] # 0 \/ (i \in S /\ sent > 0)
      BY <1>1, <1>3, <2>2
    <3>2. QED
      BY <2>2, <3>1 DEF Told
  <2>3. QED
    BY <2>1, <2>2
<1>5. Told \subseteq Items /\ Told' \subseteq Items /\ (ok => sent > 0)
  BY DEF Told, Post
<1>6. CASE sent > 0
  <2>1. Told' = Told \cup S
    BY <1>4, <1>5, <1>6
  <2>2. QED
    BY <2>1 DEF TellEffect
<1>7. CASE ~(sent > 0)
  <2>1. Told' = Told
    BY <1>4, <1>5, <1>7
  <2>2. QED
    BY <1>5, <1>7, <2>1 DEF TellEffect
<1>8. QED
  BY <1>6, <1>7

LEMMA ToldKept == UNCHANGED <<heard[Reminder], shown>> => UNCHANGED Told
BY DEF Told

\* Where a match and where the reminder stand, in the ledger of Delivery.
LEMMA BookAt ==
  /\ \A w \in Wants :
       Book[w] = IF want[w] = "deleted" \/ match[w].dismissed THEN "withdrawn"
                 ELSE IF ~match[w].made THEN "none"
                 ELSE IF match[w].stamped THEN "settled" ELSE "owed"
  /\ Book[Reminder] = IF kind = "listing" THEN "none"
                      ELSE IF row.reminded THEN "settled" ELSE "owed"
  /\ \A i \in Items : i \in Wants \/ i = Reminder
  /\ Wants \subseteq Items /\ Reminder \in Items /\ Reminder \notin Wants
  /\ Book = [i \in Items |-> Book[i]]
BY DeliveryAssumption DEF Book, LedgerOf, Items

LEMMA BookAtNext ==
  /\ \A w \in Wants :
       Book'[w] = IF want'[w] = "deleted" \/ match'[w].dismissed THEN "withdrawn"
                  ELSE IF ~match'[w].made THEN "none"
                  ELSE IF match'[w].stamped THEN "settled" ELSE "owed"
  /\ Book'[Reminder] = IF kind' = "listing" THEN "none"
                       ELSE IF row'.reminded THEN "settled" ELSE "owed"
  /\ Book' = [i \in Items |-> Book'[i]]
BY DeliveryAssumption DEF Book, LedgerOf, Items

\* The same for one of them at a time.
LEMMA MatchBook ==
  ASSUME NEW w \in Wants
  PROVE  /\ Book[w] = IF want[w] = "deleted" \/ match[w].dismissed THEN "withdrawn"
                      ELSE IF ~match[w].made THEN "none"
                      ELSE IF match[w].stamped THEN "settled" ELSE "owed"
         /\ Book'[w] = IF want'[w] = "deleted" \/ match'[w].dismissed THEN "withdrawn"
                       ELSE IF ~match'[w].made THEN "none"
                       ELSE IF match'[w].stamped THEN "settled" ELSE "owed"
BY BookAt, BookAtNext

LEMMA ReminderBook ==
  /\ Book[Reminder] = IF kind = "listing" THEN "none"
                      ELSE IF row.reminded THEN "settled" ELSE "owed"
  /\ Book'[Reminder] = IF kind' = "listing" THEN "none"
                       ELSE IF row'.reminded THEN "settled" ELSE "owed"
BY BookAt, BookAtNext

LEMMA HandsAt ==
  /\ Bags = [s \in {"notifier", "digest"} |-> Bags[s]]
  /\ Bags["notifier"] = notifier.todo
  /\ Bags["digest"] = IF digest.pc = "built" THEN digest.ids ELSE {}
  /\ Posts = [s \in {"notifier", "digest"} |-> Posts[s]]
  /\ Posts["notifier"] = notifier.posted
  /\ Posts["digest"] = IF digest.pc = "posted" THEN digest.ids ELSE {}
  /\ Bags' = [s \in {"notifier", "digest"} |-> Bags'[s]]
  /\ Bags'["notifier"] = notifier'.todo
  /\ Bags'["digest"] = IF digest'.pc = "built" THEN digest'.ids ELSE {}
  /\ Posts' = [s \in {"notifier", "digest"} |-> Posts'[s]]
  /\ Posts'["notifier"] = notifier'.posted
  /\ Posts'["digest"] = IF digest'.pc = "posted" THEN digest'.ids ELSE {}
BY DEF Bags, Posts, InHand, Unstamped

\* The abstract steps, in terms of these state functions.
LEMMA Stutter == UNCHANGED <<Book, Bags, Posts, Told>> => DStep
BY DEF DStep, D!dvars, Book, Bags, Posts

LEMMA LedgerSteps ==
  ASSUME UNCHANGED <<Bags, Posts, Told>>,
         \/ \E S \in SUBSET Items, T \in SUBSET Items :
              /\ \A i \in S \cup T : Book[i] = "none"
              /\ Book' = [i \in Items |-> IF i \in S THEN "owed"
                                          ELSE IF i \in T THEN "withdrawn" ELSE Book[i]]
         \/ \E S \in SUBSET Items :
              /\ \A i \in S : Book[i] = "settled"
              /\ Book' = [i \in Items |-> IF i \in S THEN "owed" ELSE Book[i]]
         \/ \E i \in Items : Book' = [Book EXCEPT ![i] = "withdrawn"]
  PROVE  DStep
<1>1. ASSUME NEW S \in SUBSET Items, NEW T \in SUBSET Items,
             \A i \in S \cup T : Book[i] = "none",
             Book' = [i \in Items |-> IF i \in S THEN "owed"
                                      ELSE IF i \in T THEN "withdrawn" ELSE Book[i]]
      PROVE  DStep
  <2>1. S \in SUBSET D!At("none") /\ T \in SUBSET D!At("none")
    BY <1>1 DEF D!At, Book
  <2>2. D!Enter(S, T)
    BY <1>1 DEF D!Enter, Book, Bags, Posts
  <2>3. QED
    BY <2>1, <2>2 DEF DStep, D!DNext
<1>2. ASSUME NEW S \in SUBSET Items, \A i \in S : Book[i] = "settled",
             Book' = [i \in Items |-> IF i \in S THEN "owed" ELSE Book[i]]
      PROVE  DStep
  <2>1. S \in SUBSET D!At("settled")
    BY <1>2 DEF D!At, Book
  <2>2. D!Reopen(S)
    BY <1>2 DEF D!Reopen, Book, Bags, Posts
  <2>3. QED
    BY <2>1, <2>2 DEF DStep, D!DNext
<1>3. ASSUME NEW i \in Items, Book' = [Book EXCEPT ![i] = "withdrawn"] PROVE DStep
  <2>1. D!Withdraw(i)
    BY <1>3 DEF D!Withdraw, Book, Bags, Posts
  <2>2. QED
    BY <2>1 DEF DStep, D!DNext
<1>4. QED
  BY <1>1, <1>2, <1>3

LEMMA SenderSteps ==
  ASSUME NEW s \in {"notifier", "digest"},
         \/ /\ Bags[s] = {}
            /\ Book' = [i \in Items |-> IF i \in Posts[s] /\ Book[i] = "owed" THEN "settled"
                                        ELSE Book[i]]
            /\ Posts' = [Posts EXCEPT ![s] = {}] /\ UNCHANGED <<Bags, Told>>
         \/ /\ Bags' = [Bags EXCEPT ![s] = {}] /\ Posts' = [Posts EXCEPT ![s] = {}]
            /\ UNCHANGED <<Book, Told>>
         \/ \E S \in SUBSET Items :
              /\ \A i \in S : Book[i] = "owed"
              /\ Bags[s] = {} /\ Posts[s] = {}
              /\ Bags' = [Bags EXCEPT ![s] = S] /\ UNCHANGED <<Book, Posts, Told>>
         \/ \E S \in SUBSET Bags[s] :
              /\ Bags' = [Bags EXCEPT ![s] = @ \ S]
              /\ Posts' = [Posts EXCEPT ![s] = @ \cup S]
              /\ Told' = Told \cup S /\ UNCHANGED Book
         \/ \E S \in SUBSET Bags[s] :
              /\ Bags' = [Bags EXCEPT ![s] = @ \ S]
              /\ Told' \in {Told, Told \cup S} /\ UNCHANGED <<Book, Posts>>
  PROVE  DStep
<1>1. CASE /\ Bags[s] = {}
           /\ Book' = [i \in Items |-> IF i \in Posts[s] /\ Book[i] = "owed" THEN "settled"
                                       ELSE Book[i]]
           /\ Posts' = [Posts EXCEPT ![s] = {}] /\ UNCHANGED <<Bags, Told>>
  <2>1. D!Settle(s)
    BY <1>1 DEF D!Settle, Book, Bags, Posts
  <2>2. QED
    BY <2>1 DEF DStep, D!DNext
<1>2. CASE /\ Bags' = [Bags EXCEPT ![s] = {}] /\ Posts' = [Posts EXCEPT ![s] = {}]
           /\ UNCHANGED <<Book, Told>>
  <2>1. D!Forget(s)
    BY <1>2 DEF D!Forget, Book, Bags, Posts
  <2>2. QED
    BY <2>1 DEF DStep, D!DNext
<1>3. ASSUME NEW S \in SUBSET Items, \A i \in S : Book[i] = "owed",
             Bags[s] = {}, Posts[s] = {},
             Bags' = [Bags EXCEPT ![s] = S], UNCHANGED <<Book, Posts, Told>>
      PROVE  DStep
  <2>1. S \in SUBSET D!At("owed")
    BY <1>3 DEF D!At, Book
  <2>2. D!Take(s, S)
    BY <1>3 DEF D!Take, Book, Bags, Posts
  <2>3. QED
    BY <2>1, <2>2 DEF DStep, D!DNext
<1>4. ASSUME NEW S \in SUBSET Bags[s],
             Bags' = [Bags EXCEPT ![s] = @ \ S], Posts' = [Posts EXCEPT ![s] = @ \cup S],
             Told' = Told \cup S, UNCHANGED Book
      PROVE  DStep
  <2>1. D!Post(s, S)
    BY <1>4 DEF D!Post, Book, Bags, Posts
  <2>2. S \in SUBSET [t \in {"notifier", "digest"} |-> InHand(t)][s]
    BY <1>4 DEF Bags
  <2>3. QED
    BY <2>1, <2>2 DEF DStep, D!DNext
<1>5. ASSUME NEW S \in SUBSET Bags[s],
             Bags' = [Bags EXCEPT ![s] = @ \ S],
             Told' \in {Told, Told \cup S}, UNCHANGED <<Book, Posts>>
      PROVE  DStep
  <2>1. D!Miss(s, S)
    BY <1>5 DEF D!Miss, Book, Bags, Posts
  <2>2. S \in SUBSET [t \in {"notifier", "digest"} |-> InHand(t)][s]
    BY <1>5 DEF Bags
  <2>3. QED
    BY <2>1, <2>2 DEF DStep, D!DNext
<1>6. QED
  BY <1>1, <1>2, <1>3, <1>4, <1>5

LEMMA BookKept ==
  UNCHANGED <<kind, want, match>> /\ row'.reminded = row.reminded => UNCHANGED Book
BY DEF Book, LedgerOf

\* A step of one program leaves the hands of the other alone.
LEMMA NotifierHands ==
  ASSUME UNCHANGED digest
  PROVE  /\ Bags' = [Bags EXCEPT !["notifier"] = notifier'.todo]
         /\ Posts' = [Posts EXCEPT !["notifier"] = notifier'.posted]
         /\ notifier'.todo = notifier.todo => UNCHANGED Bags
         /\ notifier'.posted = notifier.posted => UNCHANGED Posts
BY HandsAt

LEMMA DigestHands ==
  ASSUME UNCHANGED notifier
  PROVE  /\ Bags' = [Bags EXCEPT !["digest"] = IF digest'.pc = "built" THEN digest'.ids ELSE {}]
         /\ Posts' = [Posts EXCEPT !["digest"] = IF digest'.pc = "posted" THEN digest'.ids ELSE {}]
         /\ digest'.pc # "built" /\ digest.pc # "built" => UNCHANGED Bags
         /\ digest'.pc # "posted" /\ digest.pc # "posted" => UNCHANGED Posts
BY HandsAt

LEMMA DeliveryInit == Init => D!DInit
<1> SUFFICES ASSUME Init PROVE D!DInit
  OBVIOUS
<1>1. \A i \in Items : Book[i] \in {"none", "owed"}
  <2>1. ASSUME NEW w \in Wants PROVE Book[w] \in {"none", "owed"}
    <3>1. want[w] # "deleted" /\ ~match[w].made /\ ~match[w].dismissed
      BY DEF Init, NoMatch
    <3>2. QED
      BY <3>1, BookAt
  <2>2. Book[Reminder] \in {"none", "owed"}
    <3>1. ~row.reminded
      BY DEF Init
    <3>2. QED
      BY <3>1, BookAt
  <2>3. QED
    BY <2>1, <2>2, BookAt
<1>2. \A s \in {"notifier", "digest"} : InHand(s) = {} /\ Unstamped(s) = {}
  BY DEF Init, NoNotice, NoDigest, InHand, Unstamped
<1>3. Told = {}
  BY DeliveryAssumption DEF Init, Told, Items
<1>4. QED
  BY <1>1, <1>2, <1>3 DEF D!DInit, Book

\* Every step is one of the abstract ledger's, or nothing to it.
LEMMA DeliveryStep == TypeInv /\ [Next]_vars => DStep
<1> SUFFICES ASSUME TypeInv, [Next]_vars PROVE DStep
  OBVIOUS
<1>0. /\ Types /\ Ledger /\ Senders /\ LotsOnly
      /\ notifier \in Notice /\ digest \in Issue /\ match \in [Wants -> Match]
      /\ kind \in {"auction", "listing"} /\ row \in Row
  BY DEF TypeInv, Types
<1>1. CASE Plain
  <2>1. UNCHANGED Book
    <3>1. ASSUME NEW w \in Wants PROVE Book'[w] = Book[w]
      <4>1. (want'[w] = "deleted" <=> want[w] = "deleted") /\ match'[w] = match[w]
        BY <1>1, PlainStep DEF PlainEffect
      <4>2. QED
        BY <4>1, MatchBook
    <3>2. Book'[Reminder] = Book[Reminder]
      BY <1>1, PlainStep, ReminderBook DEF PlainEffect
    <3>3. QED
      BY <3>1, <3>2, BookAt, BookAtNext
  <2>2. UNCHANGED <<Bags, Posts>>
    BY <1>1, PlainStep, NotifierHands DEF PlainEffect
  <2>3. QED
    BY <1>1, <2>1, <2>2, PlainStep, ToldKept, Stutter DEF PlainEffect
<1>2. CASE Matched
  <2> DEFINE S == {w \in Wants : ~match[w].made /\ match'[w].made /\ want[w] # "deleted"
                                 /\ ~match'[w].dismissed}
             T == {w \in Wants : ~match[w].made /\ match'[w].made /\ want[w] # "deleted"
                                 /\ match'[w].dismissed}
  <2>1. \A w \in Wants :
          /\ match[w].made \in BOOLEAN /\ match'[w].made \in BOOLEAN
          /\ match[w].stamped \in BOOLEAN /\ match'[w].dismissed \in BOOLEAN
          /\ match'[w].stamped <=> match[w].stamped
          /\ match[w].made => match'[w].made /\ match'[w].dismissed = match[w].dismissed
          /\ want'[w] = "deleted" <=> want[w] = "deleted"
          /\ ~match[w].made => match[w] = NoMatch
          /\ ~match'[w].made => match'[w] = NoMatch
          /\ match'[w].made => want[w] # "deleted"
    BY <1>0, <1>2, MatchingStep DEF Matched, Ledger, Match
  <2>2. ASSUME NEW i \in S \cup T PROVE Book[i] = "none"
    <3>1. i \in Wants /\ want[i] # "deleted" /\ ~match[i].made /\ ~match[i].dismissed
      BY <2>1 DEF NoMatch
    <3>2. QED
      BY <3>1, MatchBook
  <2>3. ASSUME NEW w \in Wants
        PROVE  Book'[w] = IF w \in S THEN "owed" ELSE IF w \in T THEN "withdrawn" ELSE Book[w]
    <3>1. CASE want[w] = "deleted"
      <4>1. want'[w] = "deleted" /\ w \notin S /\ w \notin T
        BY <2>1, <3>1
      <4>2. QED
        BY <3>1, <4>1, MatchBook
    <3>2. CASE want[w] # "deleted" /\ match[w].made
      <4>1. /\ want'[w] # "deleted" /\ match'[w].made /\ w \notin S /\ w \notin T
            /\ match'[w].dismissed = match[w].dismissed /\ (match'[w].stamped <=> match[w].stamped)
        BY <2>1, <3>2
      <4>2. QED
        BY <3>2, <4>1, MatchBook
    <3>3. CASE want[w] # "deleted" /\ ~match[w].made /\ match'[w].made
      <4>1. /\ want'[w] # "deleted" /\ ~match'[w].stamped
            /\ w \in S <=> ~match'[w].dismissed
            /\ w \in T <=> match'[w].dismissed
        BY <2>1, <3>3 DEF NoMatch
      <4>2. QED
        BY <3>3, <4>1, MatchBook
    <3>4. CASE want[w] # "deleted" /\ ~match[w].made /\ ~match'[w].made
      <4>1. /\ want'[w] # "deleted" /\ w \notin S /\ w \notin T
            /\ match'[w] = NoMatch /\ match[w] = NoMatch
        BY <2>1, <3>4
      <4>2. QED
        BY <3>4, <4>1, MatchBook DEF NoMatch
    <3>5. QED
      BY <3>1, <3>2, <3>3, <3>4
  <2>4. Book'[Reminder] = Book[Reminder] /\ Reminder \notin S \cup T
    <3>1. UNCHANGED kind /\ row'.reminded = row.reminded
      BY <1>2, MatchingStep DEF Matched
    <3>2. QED
      BY <3>1, ReminderBook, DeliveryAssumption
  <2>5. S \in SUBSET Items /\ T \in SUBSET Items
    BY BookAt
  <2> HIDE DEF S, T
  <2>6. Book' = [i \in Items |-> IF i \in S THEN "owed" ELSE IF i \in T THEN "withdrawn" ELSE Book[i]]
    BY <2>3, <2>4, BookAt, BookAtNext
  <2>7. UNCHANGED <<Bags, Posts, Told>>
    BY <1>2, MatchingStep, NotifierHands, ToldKept DEF Matched
  <2>8. QED
    BY <2>2, <2>5, <2>6, <2>7, LedgerSteps
<1>3. ASSUME NEW p \in Prices, Reprice(p) PROVE DStep
  <2> DEFINE S == {w \in Reopened(p) : match[w].stamped}
  <2>1. /\ \A w \in Wants : /\ match'[w].made = match[w].made
                            /\ match'[w].dismissed = match[w].dismissed
                            /\ w \in Reopened(p) => ~match'[w].stamped
                            /\ w \notin Reopened(p) => match'[w] = match[w]
        /\ \A w \in Reopened(p) : w \in Wants /\ match[w].made /\ ~match[w].dismissed
                                  /\ want[w] # "deleted"
        /\ row'.reminded = row.reminded /\ UNCHANGED <<kind, want, notifier, digest, shown>>
        /\ heard'[Reminder] = heard[Reminder]
    BY <1>0, <1>3, RepriceStep, BookAt DEF Ledger, Reopened
  <2>2. S \in SUBSET Items /\ \A i \in S : Book[i] = "settled"
    BY <2>1, BookAt
  <2>3. ASSUME NEW w \in Wants PROVE Book'[w] = IF w \in S THEN "owed" ELSE Book[w]
    BY <2>1, MatchBook
  <2>4. Book'[Reminder] = Book[Reminder] /\ Reminder \notin S
    BY <2>1, ReminderBook, DeliveryAssumption
  <2> HIDE DEF S
  <2>5. Book' = [i \in Items |-> IF i \in S THEN "owed" ELSE Book[i]]
    BY <2>3, <2>4, BookAt, BookAtNext
  <2>6. UNCHANGED <<Bags, Posts, Told>>
    BY <2>1, NotifierHands, ToldKept
  <2>7. QED
    BY <2>2, <2>5, <2>6, LedgerSteps
<1>4. ASSUME NEW w \in Wants, LetGo(w) PROVE DStep
  <2>1. Book'[w] = "withdrawn"
    BY <1>4, LetGoStep, BookAtNext DEF LetGo
  <2>2. ASSUME NEW i \in Items \ {w} PROVE Book'[i] = Book[i]
    <3>1. /\ \A v \in Wants \ {w} : want'[v] = want[v] /\ match'[v] = match[v]
          /\ UNCHANGED <<kind, row>>
      BY <1>4, LetGoStep DEF LetGo
    <3>2. CASE i = Reminder
      BY <3>1, <3>2, ReminderBook
    <3>3. CASE i # Reminder
      <4>1. i \in Wants \ {w}
        BY <3>3, BookAt
      <4>2. QED
        BY <3>1, <4>1, MatchBook
    <3>4. QED
      BY <3>2, <3>3
  <2>3. Book' = [Book EXCEPT ![w] = "withdrawn"] /\ w \in Items
    BY <2>1, <2>2, BookAt, BookAtNext
  <2>4. UNCHANGED <<Bags, Posts, Told>>
    BY <1>4, LetGoStep, NotifierHands, ToldKept DEF LetGo
  <2>5. QED
    BY <2>3, <2>4, LedgerSteps
<1>5. CASE NotifierLoad
  <2>1. \A i \in notifier'.todo : i \in Items /\ Book[i] = "owed"
    BY <1>5, LoadStep, BookAt DEF Notice, Open, OpenIn
  <2>2. Bags["notifier"] = {} /\ Posts["notifier"] = {}
    BY <1>0, <1>5, LoadStep, HandsAt DEF Senders
  <2>3. Bags' = [Bags EXCEPT !["notifier"] = notifier'.todo] /\ UNCHANGED Posts
    BY <1>5, LoadStep, NotifierHands
  <2>4. UNCHANGED <<Book, Told>>
    BY <1>5, LoadStep, ToldKept, BookKept
  <2>5. notifier'.todo \in SUBSET Items
    BY <2>1
  <2>6. QED
    BY <2>1, <2>2, <2>3, <2>4, <2>5, SenderSteps
<1>6. ASSUME NEW i \in Items, NotifierPost(i) PROVE DStep
  <2>1. PICK sent \in 0 .. 2, ok \in BOOLEAN :
          /\ Post({i}, notifier.price, sent, ok)
          /\ notifier' = [notifier EXCEPT !.todo = @ \ {i},
                            !.posted = IF ok THEN @ \cup {i} ELSE @,
                            !.failed = IF ok THEN @ ELSE @ \cup {i}]
    BY <1>6 DEF NotifierPost
  <2>2. /\ i \in notifier.todo /\ notifier.pc = "posting"
        /\ UNCHANGED <<kind, row, want, match, digest>>
    BY <1>6 DEF NotifierPost, offer, book
  <2>3. /\ notifier'.todo = notifier.todo \ {i}
        /\ notifier'.posted = IF ok THEN notifier.posted \cup {i} ELSE notifier.posted
    BY <1>0, <2>1 DEF Notice
  <2>4. (ok => Told' = Told \cup {i}) /\ Told' \in {Told, Told \cup {i}}
    <3>1. notifier.price \in 1 .. MaxPrice /\ {i} \in SUBSET Items
      BY <1>0, <2>2, DeliveryAssumption DEF Notice, Senders
    <3>2. TellEffect({i}, ok)
      BY <1>0, <2>1, <3>1, PostTells
    <3>3. QED
      BY <3>2 DEF TellEffect
  <2>5. UNCHANGED Book
    BY <2>2, BookKept
  <2>6. /\ Bags' = [Bags EXCEPT !["notifier"] = @ \ {i}] /\ {i} \in SUBSET Bags["notifier"]
        /\ ok => Posts' = [Posts EXCEPT !["notifier"] = @ \cup {i}]
        /\ ~ok => UNCHANGED Posts
    <3>1. /\ Bags' = [Bags EXCEPT !["notifier"] = notifier'.todo]
          /\ Posts' = [Posts EXCEPT !["notifier"] = notifier'.posted]
          /\ notifier'.posted = notifier.posted => UNCHANGED Posts
      BY <2>2, NotifierHands
    <3>2. /\ Bags = [s \in {"notifier", "digest"} |-> Bags[s]] /\ Bags["notifier"] = notifier.todo
          /\ Posts = [s \in {"notifier", "digest"} |-> Posts[s]] /\ Posts["notifier"] = notifier.posted
      BY HandsAt
    <3>3. QED
      BY <2>2, <2>3, <3>1, <3>2
  <2>7. QED
    BY <2>4, <2>5, <2>6, SenderSteps
<1>7. CASE NotifierWrite
  <2>1. \A w \in notifier.posted \cap Wants : match[w].made \/ want[w] = "deleted"
    BY <1>0 DEF Ledger, InFlight
  <2>2. ASSUME NEW w \in Wants
        PROVE  Book'[w] = IF w \in Posts["notifier"] /\ Book[w] = "owed" THEN "settled" ELSE Book[w]
    <3>1. /\ match'[w].made = match[w].made /\ match'[w].dismissed = match[w].dismissed
          /\ match'[w].stamped <=> match[w].stamped \/ (w \in notifier.posted /\ match[w].made)
          /\ UNCHANGED want
      BY <1>7, WriteStep
    <3>2. w \in notifier.posted => match[w].made \/ want[w] = "deleted"
      BY <2>1
    <3>3. Posts["notifier"] = notifier.posted
      BY HandsAt
    <3>4. QED
      BY <3>1, <3>2, <3>3, MatchBook
  <2>3. Book'[Reminder] = IF Reminder \in Posts["notifier"] /\ Book[Reminder] = "owed" THEN "settled"
                          ELSE Book[Reminder]
    <3>1. UNCHANGED kind /\ (row'.reminded <=> row.reminded \/ Reminder \in notifier.posted)
      BY <1>7, WriteStep
    <3>2. Posts["notifier"] = notifier.posted
      BY HandsAt
    <3>3. QED
      BY <3>1, <3>2, ReminderBook
  <2>4. Book' = [i \in Items |-> IF i \in Posts["notifier"] /\ Book[i] = "owed" THEN "settled" ELSE Book[i]]
    <3>1. \A i \in Items : Book'[i] = IF i \in Posts["notifier"] /\ Book[i] = "owed" THEN "settled" ELSE Book[i]
      BY <2>2, <2>3 DEF Items
    <3>2. QED
      BY <3>1, BookAtNext
  <2>5. /\ Bags["notifier"] = {} /\ UNCHANGED Bags
        /\ Posts' = [Posts EXCEPT !["notifier"] = {}]
    <3>1. /\ notifier.todo = {} /\ notifier'.todo = {} /\ notifier'.posted = {} /\ UNCHANGED digest
      BY <1>7, WriteStep DEF NoNotice
    <3>2. QED
      BY <3>1, HandsAt, NotifierHands
  <2>6. UNCHANGED Told
    BY <1>7, WriteStep, ToldKept
  <2>7. QED
    BY <2>4, <2>5, <2>6, SenderSteps
<1>8. CASE NotifierCrash \/ NotifierError
  <2>1. UNCHANGED <<Book, Told>>
    BY <1>8, StopStep, ToldKept, BookKept
  <2>2. Bags' = [Bags EXCEPT !["notifier"] = {}] /\ Posts' = [Posts EXCEPT !["notifier"] = {}]
    BY <1>8, StopStep, NotifierHands
  <2>3. QED
    BY <2>1, <2>2, SenderSteps
<1>9. CASE DigestBuild
  <2>1. \A w \in Open : w \in Items /\ Book[w] = "owed"
    BY BookAt DEF Open, OpenIn
  <2>2. Bags["digest"] = {} /\ Posts["digest"] = {}
    BY <1>9, BuildStep, HandsAt
  <2>3. Bags' = [Bags EXCEPT !["digest"] = Open] /\ UNCHANGED Posts
    BY <1>9, BuildStep, DigestHands
  <2>4. UNCHANGED <<Book, Told>>
    BY <1>9, BuildStep, ToldKept, BookKept
  <2>5. Open \in SUBSET Items
    BY <2>1
  <2>6. QED
    BY <2>1, <2>2, <2>3, <2>4, <2>5, SenderSteps
<1>10. CASE DigestPost
  <2>1. PICK sent \in 0 .. 2, ok \in BOOLEAN :
          /\ Post(digest.ids, digest.price, sent, ok)
          /\ digest' = IF ok THEN [digest EXCEPT !.pc = "posted"] ELSE NoDigest
    BY <1>10 DEF DigestPost
  <2>2. digest.pc = "built" /\ UNCHANGED <<kind, row, want, match, notifier>>
    BY <1>10 DEF DigestPost, offer, book
  <2>3. IF ok THEN digest'.ids = digest.ids /\ digest'.pc = "posted" ELSE digest'.pc = "idle"
    BY <1>0, <2>1 DEF Issue, NoDigest
  <2>4. (ok => Told' = Told \cup digest.ids) /\ Told' \in {Told, Told \cup digest.ids}
    <3>1. digest.price \in 1 .. MaxPrice /\ digest.ids \in SUBSET Items
      BY <1>0, <2>2, DeliveryAssumption, BookAt DEF Issue, Senders
    <3>2. TellEffect(digest.ids, ok)
      BY <1>0, <2>1, <3>1, PostTells
    <3>3. QED
      BY <3>2 DEF TellEffect
  <2>5. UNCHANGED Book
    BY <2>2, BookKept
  <2>6. /\ Bags' = [Bags EXCEPT !["digest"] = @ \ digest.ids] /\ digest.ids \in SUBSET Bags["digest"]
        /\ ok => Posts' = [Posts EXCEPT !["digest"] = @ \cup digest.ids]
        /\ ~ok => UNCHANGED Posts
    BY <2>2, <2>3, HandsAt
  <2>7. QED
    BY <2>4, <2>5, <2>6, SenderSteps
<1>11. CASE DigestStamp
  <2>1. /\ digest.pc = "posted" /\ Stamp(digest.ids) /\ digest' = NoDigest
        /\ UNCHANGED <<kind, row, want, notifier, heard, shown>>
    BY <1>11 DEF DigestStamp, offer, hist
  <2>2. digest.ids \subseteq Wants /\ \A w \in digest.ids : match[w].made \/ want[w] = "deleted"
    BY <1>0 DEF Issue, Ledger, InFlight
  <2>3. ASSUME NEW w \in Wants
        PROVE  Book'[w] = IF w \in Posts["digest"] /\ Book[w] = "owed" THEN "settled" ELSE Book[w]
    <3>1. /\ match'[w].made = match[w].made /\ match'[w].dismissed = match[w].dismissed
          /\ match'[w].stamped <=> match[w].stamped \/ (w \in digest.ids /\ match[w].made)
          /\ UNCHANGED want
      BY <1>0, <2>1, StampStep
    <3>2. w \in digest.ids => match[w].made \/ want[w] = "deleted"
      BY <2>2
    <3>3. Posts["digest"] = digest.ids
      BY <2>1, HandsAt
    <3>4. QED
      BY <3>1, <3>2, <3>3, MatchBook
  <2>4. Book'[Reminder] = Book[Reminder] /\ Reminder \notin Posts["digest"]
    <3>1. Posts["digest"] = digest.ids
      BY <2>1, HandsAt
    <3>2. QED
      BY <2>1, <2>2, <3>1, ReminderBook, DeliveryAssumption
  <2>5. Book' = [i \in Items |-> IF i \in Posts["digest"] /\ Book[i] = "owed" THEN "settled" ELSE Book[i]]
    <3>1. \A i \in Items : Book'[i] = IF i \in Posts["digest"] /\ Book[i] = "owed" THEN "settled" ELSE Book[i]
      BY <2>3, <2>4 DEF Items
    <3>2. QED
      BY <3>1, BookAtNext
  <2>6. /\ Bags["digest"] = {} /\ UNCHANGED Bags
        /\ Posts' = [Posts EXCEPT !["digest"] = {}]
    BY <2>1, HandsAt DEF NoDigest
  <2>7. UNCHANGED Told
    BY <2>1, ToldKept
  <2>8. QED
    BY <2>5, <2>6, <2>7, SenderSteps
<1>12. CASE DigestCrash
  <2>1. UNCHANGED <<Book, Told>>
    BY <1>12, DigestCrashStep, ToldKept, BookKept
  <2>2. Bags' = [Bags EXCEPT !["digest"] = {}] /\ Posts' = [Posts EXCEPT !["digest"] = {}]
    BY <1>12, DigestCrashStep, DigestHands DEF NoDigest
  <2>3. QED
    BY <2>1, <2>2, SenderSteps
<1>13. QED
  BY <1>1, <1>2, <1>3, <1>4, <1>5, <1>6, <1>7, <1>8, <1>9, <1>10, <1>11, <1>12, NextCases

\* Notifier and digest implement the fire-once ledger: what is settled was taken while it
\* was owed and then posted, what is owed survives crashes and failures, what the buyer
\* let go of is never owed again.
THEOREM DeliveryImplemented == Spec => ImplementsDelivery
<1>1. QED
  BY DeliveryInit, DeliveryStep, TypeAlways, PTL DEF Spec, ImplementsDelivery, D!DSpec, DStep

LEMMA SettledStep == D!SettledWasTold /\ DStep => D!SettledWasTold'
<1> DEFINE Both == {"notifier", "digest"}
<1> SUFFICES ASSUME D!SettledWasTold, DStep PROVE D!SettledWasTold'
  OBVIOUS
<1>1. /\ \A i \in Items : Book[i] = "settled" => i \in Told
      /\ \A s \in Both : Posts[s] \subseteq Told
  BY DEF D!SettledWasTold, D!At, Book, Posts
<1>2. SUFFICES /\ \A i \in Items : Book'[i] = "settled" => i \in Told'
               /\ \A s \in Both : Posts'[s] \subseteq Told'
  BY DEF D!SettledWasTold, D!At, Book, Posts
<1>3. CASE UNCHANGED <<Book, Posts, Told>>
  BY <1>1, <1>3
<1>4. ASSUME NEW S, NEW T, D!Enter(S, T) \/ D!Reopen(S)
      PROVE  /\ \A i \in Items : Book'[i] = "settled" => Book[i] = "settled"
             /\ UNCHANGED <<Posts, Told>>
  BY <1>4 DEF D!Enter, D!Reopen, Book, Posts
<1>5. ASSUME NEW i \in Items, D!Withdraw(i)
      PROVE  /\ \A j \in Items : Book'[j] = "settled" => Book[j] = "settled"
             /\ UNCHANGED <<Posts, Told>>
  BY <1>5 DEF D!Withdraw, Book, Posts
<1>6. ASSUME NEW s \in Both, D!Settle(s)
      PROVE  /\ \A i \in Items : Book'[i] = "settled" => Book[i] = "settled" \/ i \in Posts[s]
             /\ \A t \in Both : Posts'[t] \subseteq Posts[t]
             /\ UNCHANGED Told
  BY <1>6 DEF D!Settle, Book, Posts
<1>7. ASSUME NEW s \in Both, NEW S, D!Forget(s) \/ D!Take(s, S) \/ D!Miss(s, S)
      PROVE  UNCHANGED Book /\ Told \subseteq Told' /\ \A t \in Both : Posts'[t] \subseteq Posts[t]
  BY <1>7 DEF D!Forget, D!Take, D!Miss, Book, Posts
<1>8. ASSUME NEW s \in Both, NEW S, D!Post(s, S)
      PROVE  UNCHANGED Book /\ Told' = Told \cup S /\ \A t \in Both : Posts'[t] \subseteq Posts[t] \cup S
  BY <1>8 DEF D!Post, Book, Posts
<1>9. \/ UNCHANGED <<Book, Posts, Told>>
      \/ \E S, T : D!Enter(S, T) \/ D!Reopen(S)
      \/ \E i \in Items : D!Withdraw(i)
      \/ \E s \in Both : \/ D!Settle(s)
                         \/ \E S : D!Forget(s) \/ D!Take(s, S) \/ D!Miss(s, S)
                         \/ \E S : D!Post(s, S)
  BY DEF DStep, D!DNext, D!dvars, Book, Posts
<1>10. QED
  BY <1>1, <1>3, <1>4, <1>5, <1>6, <1>7, <1>8, <1>9

\* Whatever the ledger has settled, the reminder of a lot as well as a match, has been in
\* a message to the buyer, and so has what a program is about to stamp.
THEOREM SettledMeansTold == Spec => []D!SettledWasTold
<1>1. D!DInit => D!SettledWasTold
  BY DEF D!DInit, D!SettledWasTold, D!At
<1>2. QED
  BY <1>1, SettledStep, DeliveryImplemented, PTL DEF ImplementsDelivery, D!DSpec, DStep

=============================================================================
