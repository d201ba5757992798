---------------------------- MODULE WantDelivery ----------------------------
(***************************************************************************)
(* How the buyer hears of an offer that matches his wants.  The valuator   *)
(* records the matches of one offer (want_matches, the fire-once ledger)   *)
(* and queues the offer for the notifier if one of them is urgent; the     *)
(* notifier posts the urgent ones; the daily digest posts whatever is not  *)
(* stamped; a price drop clears the stamps; the buyer creates, mutes and   *)
(* deletes wants and dismisses matches meanwhile.                          *)
(*                                                                         *)
(* Notifier and digest read the ledger, post to Discord outside any        *)
(* transaction, and stamp afterwards; the valuator loads the offer and     *)
(* commits later.  Everything else is one transaction and one step.        *)
(* Prices are small numbers; a deal is scored by its price alone.          *)
(***************************************************************************)
EXTENDS Integers, FiniteSetsExt

CONSTANTS
  Wants,        \* the ids of searches
  Reminder,     \* the closing_soon reminder of a watched lot, posted like an alert
  MaxPrice,     \* prices are 1 .. MaxPrice
  FirstPrices,  \* bound: the prices the offer is first seen at
  Ceiling,      \* the highest price each want accepts
  Standout,     \* the highest price at which a match scores above instant_deal_threshold
  MaxAttempts,  \* notification_max_attempts
  MaxMoves,     \* bound: price changes, rescrapes and steps of the clock
  MaxEdits,     \* bound: actions of the buyer
  MaxFaults     \* bound: crashes and disturbed posts

ASSUME DeliveryAssumption ==
  /\ Reminder \notin Wants
  /\ MaxPrice \in Nat \ {0}
  /\ FirstPrices \subseteq 1 .. MaxPrice
  /\ Ceiling \in [Wants -> 1 .. MaxPrice]
  /\ Standout \in [Wants -> 0 .. MaxPrice]
  /\ MaxAttempts \in Nat \ {0}
  /\ MaxMoves \in Nat /\ MaxEdits \in Nat /\ MaxFaults \in Nat

VARIABLES
  kind,      \* "auction" or "listing"
  row,       \* the columns of the offer that matter here
  clock,     \* where an auction lot is relative to its closing window
  want,      \* per want: "none" yet, "on", "off" (muted) or "deleted"
  match,     \* per want: its row in want_matches
  rung,      \* the notifier has been notified, or will sweep, since it last claimed the offer
  seen,      \* the offer as the valuator has loaded it
  notifier,  \* what the notifier is doing with the offer
  digest,    \* what the digest is doing
  heard,     \* history: messages per item since its match was opened, or opened again (2: more)
  shown,     \* history: the price in the last message about a match
  doubt,     \* history: what may have cost or doubled a message, per item
  waived,    \* history: matches that need not be queued until the next valuation
  moves, edits, faults

offer == <<kind, row, clock>>
book == <<want, match>>
hist == <<heard, shown, doubt, waived>>
count == <<moves, edits, faults>>
vars == <<offer, book, rung, seen, notifier, digest, hist, count>>

Items == Wants \cup {Reminder}
Prices == 1 .. MaxPrice
NoMatch == [made |-> FALSE, stamped |-> FALSE, dismissed |-> FALSE, price |-> 0]
Nothing == [price |-> 0, prev |-> 0, notif |-> "none"]
NoNotice == [pc |-> "idle", todo |-> {}, posted |-> {}, failed |-> {}, price |-> 0]
NoDigest == [pc |-> "idle", ids |-> {}, price |-> 0]

\* Prices only: prev is previous_asking_price_cad (0: none), reminded is
\* closing_notified_at, val and notif are the two status columns.  The attempts are
\* never reset: earlier deliveries of the offer may have used them up but for one.
Init ==
  /\ kind \in {"auction", "listing"}
  /\ row \in {[price |-> p, prev |-> 0, val |-> "pending", notif |-> "pending",
               attempts |-> n, watched |-> FALSE, reminded |-> FALSE] :
               p \in FirstPrices, n \in {0, MaxAttempts - 1}}
  /\ clock \in IF kind = "auction" THEN {"far", "closing"} ELSE {"far"}
  /\ want \in [Wants -> {"none", "on"}]
  /\ match = [w \in Wants |-> NoMatch]
  /\ rung = FALSE
  /\ seen = Nothing
  /\ notifier = NoNotice
  /\ digest = NoDigest
  /\ heard = [i \in Items |-> 0]
  /\ shown = [w \in Wants |-> 0]
  /\ doubt = [i \in Items |-> {}]
  /\ waived = {}
  /\ moves = 0 /\ edits = 0 /\ faults = 0

Move == moves < MaxMoves /\ moves' = moves + 1 /\ UNCHANGED <<edits, faults>>
Edit == edits < MaxEdits /\ edits' = edits + 1 /\ UNCHANGED <<moves, faults>>
Fault == faults < MaxFaults /\ faults' = faults + 1 /\ UNCHANGED <<moves, edits>>

-----------------------------------------------------------------------------
(* The ledger.                                                             *)

\* The rows of ledger m that notifier and digest may still announce.
OpenIn(m) ==
  {w \in Wants : m[w].made /\ ~m[w].stamped /\ ~m[w].dismissed /\ want[w] = "on"}

Open == OpenIn(match)

\* wants.matcher: of the want's criteria only the price ceiling can change its
\* verdict here.
Matches(w, price) == price <= Ceiling[w]

\* delivery_tier: a standout deal, a price drop, or a lot about to close.
Instant(w, score, price, prev) ==
  \/ score <= Standout[w]
  \/ kind = "listing" /\ prev > price
  \/ kind = "auction" /\ clock = "closing"

\* A message about a match is on its way, unstamped.
InFlight == notifier.posted \cup notifier.todo \cup digest.ids

Doubt(S, why) == [i \in Items |-> IF i \in S THEN doubt[i] \cup {why} ELSE doubt[i]]

\* mutant: posts do not reach the ledger
StampNothing(S) == UNCHANGED match

Stamp(S) ==
  match' = [w \in Wants |->
    IF w \in S /\ match[w].made THEN [match[w] EXCEPT !.stamped = TRUE] ELSE match[w]]

-----------------------------------------------------------------------------
(* The offer changes.                                                      *)

\* upsert_private_listing with another asking price: valued again, and a drop
\* clears the stamps of the matches that are not dismissed.
Reprice(p) ==
  LET reopened == IF p < row.price THEN {w \in Wants : match[w].made /\ ~match[w].dismissed}
                  ELSE {}
  IN
  /\ kind = "listing" /\ p # row.price
  /\ Move
  /\ row' = [row EXCEPT !.price = p, !.prev = row.price, !.val = "pending"]
  /\ match' = [w \in Wants |->
       IF w \in reopened THEN [match[w] EXCEPT !.stamped = FALSE] ELSE match[w]]
  /\ heard' = [i \in Items |-> IF i \in reopened THEN 0 ELSE heard[i]]
  /\ doubt' = Doubt(reopened \cap InFlight, "overtaken")
  /\ UNCHANGED <<kind, clock, want, rung, seen, notifier, digest, shown, waived>>

\* _write_observation with a higher bid.
Bid(p) ==
  /\ kind = "auction" /\ clock # "over" /\ p > row.price
  /\ Move
  /\ row' = [row EXCEPT !.price = p, !.val = "pending"]
  /\ UNCHANGED <<kind, clock, book, rung, seen, notifier, digest, hist>>

\* _apply_content_cascade: the notifier's column is reset too, unannounced.
Rescrape ==
  /\ Move
  /\ row' = [row EXCEPT !.val = "pending", !.notif = "pending"]
  /\ UNCHANGED <<kind, clock, book, rung, seen, notifier, digest, hist>>

\* Time: the lot enters its closing window, the lot is over.  The windows of the
\* reminder (an hour) and of instant alerts (24 hours) are taken as one.
Tick ==
  /\ kind = "auction"
  /\ \/ clock = "far" /\ clock' = "closing"
     \/ clock = "closing" /\ clock' = "over"
  /\ Move
  /\ UNCHANGED <<kind, row, book, rung, seen, notifier, digest, hist>>

-----------------------------------------------------------------------------
(* The buyer: dashboard and bot.                                           *)

\* create_want with backfill_want: an offer that is valued already is matched at
\* once, and nothing is queued.  A match whose vehicle another live offer has
\* brought to the want is born dismissed.
CreateWant(w) ==
  /\ want[w] = "none"
  /\ Edit
  /\ want' = [want EXCEPT ![w] = "on"]
  /\ IF row.val = "done" /\ clock # "over" /\ Matches(w, row.price)
     THEN \E dup \in BOOLEAN :
            match' = [match EXCEPT ![w] = [made |-> TRUE, stamped |-> FALSE,
                                           dismissed |-> dup, price |-> row.price]]
     ELSE UNCHANGED match
  /\ waived' = waived \cup {w}
  /\ UNCHANGED <<offer, rung, seen, notifier, digest, heard, shown, doubt>>

ToggleWant(w) ==
  /\ want[w] \in {"on", "off"}
  /\ Edit
  /\ want' = [want EXCEPT ![w] = IF @ = "on" THEN "off" ELSE "on"]
  /\ waived' = waived \cup {w}
  /\ UNCHANGED <<offer, match, rung, seen, notifier, digest, heard, shown, doubt>>

\* The matches go with the want (ON DELETE CASCADE).
DeleteWant(w) ==
  /\ want[w] \in {"on", "off"}
  /\ Edit
  /\ want' = [want EXCEPT ![w] = "deleted"]
  /\ match' = [match EXCEPT ![w] = NoMatch]
  /\ UNCHANGED <<offer, rung, seen, notifier, digest, hist>>

DismissMatch(w) ==
  /\ match[w].made /\ ~match[w].dismissed
  /\ Edit
  /\ match' = [match EXCEPT ![w].dismissed = TRUE]
  /\ UNCHANGED <<offer, want, rung, seen, notifier, digest, hist>>

\* mark_lot, or a button under an alert: interested or maybe, and back.
MarkLot ==
  /\ kind = "auction"
  /\ Edit
  /\ row' = [row EXCEPT !.watched = ~@]
  /\ UNCHANGED <<kind, clock, book, rung, seen, notifier, digest, hist>>

-----------------------------------------------------------------------------
(* Valuator: one transaction.                                              *)

\* The claim and the load of the row; Pipeline has what happens between them.
ValueLoad ==
  /\ row.val = "pending" /\ seen = Nothing
  /\ row' = [row EXCEPT !.val = "in_progress"]
  /\ seen' = [price |-> row.price, prev |-> row.prev, notif |-> row.notif]
  /\ UNCHANGED <<kind, clock, book, rung, notifier, digest, hist, count>>

\* mutant: every valuation writes the matches anew
EvaluatedAnew(matching, dups) ==
  [w \in Wants |->
     IF w \notin matching THEN match[w]
     ELSE [made |-> TRUE, stamped |-> match[w].stamped, dismissed |-> w \in dups,
           price |-> seen.price]]

\* evaluate_lot_against_wants on the enabled wants; a new match may be born
\* dismissed, an old one keeps its stamp and its dismissal.
Evaluated(matching, dups) ==
  [w \in Wants |->
     IF w \notin matching THEN match[w]
     ELSE IF match[w].made THEN [match[w] EXCEPT !.price = seen.price]
     ELSE [made |-> TRUE, stamped |-> FALSE, dismissed |-> w \in dups, price |-> seen.price]]

\* mutant: only a match created now queues the offer
UrgentNew(m) ==
  {w \in OpenIn(m) : ~match[w].made /\ Instant(w, m[w].price, seen.price, seen.prev)}

\* _has_unnotified_instant_match, by the stored scores.
Urgent(m) == {w \in OpenIn(m) : Instant(w, m[w].price, seen.price, seen.prev)}

\* value_one.  The first status is the deal filter's; an urgent match overrides
\* it.  The column is written if it differs from what was loaded, or from what
\* the flush of the matches has written in between.
ValueCommit ==
  LET matching == {w \in Wants : want[w] = "on" /\ Matches(w, seen.price)} IN
  /\ seen # Nothing
  /\ \E dups \in SUBSET {w \in matching : ~match[w].made}, filter \in {"pending", "skipped"} :
       LET ledger == Evaluated(matching, dups)
           final == IF Urgent(ledger) # {} THEN "pending" ELSE filter
           written == final # seen.notif \/ (matching # {} /\ filter # seen.notif)
           status == IF written THEN final ELSE row.notif
       IN  /\ match' = ledger
           /\ row' = [row EXCEPT !.val = "done", !.notif = status]
           /\ rung' = (rung \/ final = "pending")
           /\ waived' = IF \/ <<row.price, row.prev>> # <<seen.price, seen.prev>>
                           \/ final = "pending" /\ status # "pending"
                        THEN Wants ELSE {}
  /\ seen' = Nothing
  /\ UNCHANGED <<kind, clock, want, notifier, digest, heard, shown, doubt, count>>

\* The transaction raises and is rolled back: to be retried.
ValueFail ==
  /\ seen # Nothing
  /\ Fault
  /\ row' = [row EXCEPT !.val = "pending"]
  /\ seen' = Nothing
  /\ UNCHANGED <<kind, clock, book, rung, notifier, digest, hist>>

-----------------------------------------------------------------------------
(* Discord.                                                                *)

\* _post_with_retry: a message may arrive although its response is lost, and the
\* one retry may deliver it again.  "ok" is what the caller is told.
Post(S, price, sent, ok) ==
  /\ IF sent = 1 /\ ok THEN UNCHANGED count ELSE Fault
  /\ ok => sent > 0
  /\ heard' = [i \in Items |-> IF i \in S THEN Min({2, heard[i] + sent}) ELSE heard[i]]
  /\ shown' = [w \in Wants |-> IF w \in S /\ sent > 0 THEN price ELSE shown[w]]
  /\ doubt' = IF sent > (IF ok THEN 1 ELSE 0) THEN Doubt(S, "repeat") ELSE doubt

-----------------------------------------------------------------------------
(* Notifier.                                                               *)

\* Woken for this offer, or serving it with others.
NotifierClaim ==
  /\ notifier.pc = "idle" /\ row.notif = "pending"
  /\ row' = [row EXCEPT !.notif = "in_progress"]
  /\ notifier' = [notifier EXCEPT !.pc = "claimed"]
  /\ rung' = FALSE
  /\ UNCHANGED <<kind, clock, book, seen, digest, hist, count>>

\* evaluate_triggers, closing_soon.
ReminderDue == kind = "auction" /\ clock = "closing" /\ row.watched /\ ~row.reminded

\* The read transaction: which alerts to post is settled here, quiet hours and
\* tiers included.  What is not urgent, or must be quiet, waits for the digest.
NotifierLoad ==
  LET alerts == {w \in Open : Matches(w, row.price)}
      urgent == {w \in alerts : Instant(w, row.price, row.price, row.prev)}
      due == IF ReminderDue THEN {Reminder} ELSE {}
  IN
  /\ notifier.pc = "claimed"
  /\ \E quiet \in BOOLEAN :
       LET todo == due \cup IF quiet THEN {} ELSE urgent
       IN  /\ notifier' = [notifier EXCEPT !.pc = "posting", !.todo = todo, !.price = row.price]
           /\ waived' = IF quiet THEN waived \cup urgent ELSE waived
           /\ doubt' = Doubt(todo \cap digest.ids, "repeat")
  /\ UNCHANGED <<offer, book, rung, seen, digest, heard, shown, count>>

\* One post after the other, the reminder first.
NotifierPost(i) ==
  /\ notifier.pc = "posting"
  /\ i \in notifier.todo
  /\ Reminder \in notifier.todo => i = Reminder
  /\ \E sent \in 0 .. 2, ok \in BOOLEAN :
       /\ Post({i}, notifier.price, sent, ok)
       /\ notifier' = [notifier EXCEPT !.todo = @ \ {i},
                         !.posted = IF ok THEN @ \cup {i} ELSE @,
                         !.failed = IF ok THEN @ ELSE @ \cup {i}]
  /\ UNCHANGED <<offer, book, rung, seen, digest, waived>>

\* Done if something was posted and no alert failed; skipped if there was nothing
\* to post; else another attempt, unless they are used up.
Outcome ==
  IF notifier.posted # {} /\ notifier.failed \cap Wants = {} THEN "done"
  ELSE IF notifier.posted \cup notifier.failed = {} THEN "skipped"
  ELSE "retry"

\* The write transaction of _process_one, over whatever status the row has now.
NotifierWrite ==
  LET retry == Outcome = "retry"
      spent == row.attempts + 1 >= MaxAttempts
      status == IF ~retry THEN Outcome ELSE IF spent THEN "failed" ELSE "pending"
  IN
  /\ notifier.pc = "posting" /\ notifier.todo = {}
  /\ row' = [row EXCEPT !.notif = status,
               !.attempts = IF retry THEN @ + 1 ELSE @,
               !.reminded = @ \/ Reminder \in notifier.posted]
  /\ Stamp(notifier.posted)
  /\ rung' = (rung \/ status = "pending")
  /\ waived' = IF status = "failed" \/ (row.notif = "pending" /\ status # "pending")
               THEN Wants ELSE waived
  /\ notifier' = NoNotice
  /\ UNCHANGED <<kind, clock, want, seen, digest, heard, shown, doubt, count>>

\* What was posted is posted, what was to be stamped is not.
NotifierCrash ==
  /\ notifier.pc \notin {"idle", "down"}
  /\ Fault
  /\ notifier' = [NoNotice EXCEPT !.pc = "down"]
  /\ doubt' = Doubt(notifier.posted, "repeat")
  /\ UNCHANGED <<offer, book, rung, seen, digest, heard, shown, waived>>

\* _process_one raises: caught and logged, and the row stays in_progress.
NotifierError ==
  /\ notifier.pc \in {"claimed", "posting"}
  /\ Fault
  /\ notifier' = NoNotice
  /\ rung' = TRUE
  /\ doubt' = Doubt(notifier.posted, "repeat")
  /\ waived' = Wants
  /\ UNCHANGED <<offer, book, seen, digest, heard, shown>>

\* recover_orphans and the sweep.
NotifierRestart ==
  /\ notifier.pc = "down"
  /\ row' = IF row.notif = "in_progress" THEN [row EXCEPT !.notif = "pending"] ELSE row
  /\ notifier' = NoNotice
  /\ rung' = TRUE
  /\ UNCHANGED <<kind, clock, book, seen, digest, hist, count>>

-----------------------------------------------------------------------------
(* Digest.                                                                 *)

\* mutant: urgent matches are left to the notifier
DigestBuildOrdinary ==
  LET ids == {w \in Open : ~Instant(w, match[w].price, row.price, row.prev)} IN
  /\ digest.pc = "idle" /\ ids # {}
  /\ digest' = [pc |-> "built", ids |-> ids, price |-> row.price]
  /\ doubt' = Doubt(ids \cap (notifier.todo \cup notifier.posted), "repeat")
  /\ UNCHANGED <<offer, book, rung, seen, notifier, heard, shown, waived, count>>

\* build_digest; with nothing to deliver the program ends.
DigestBuild ==
  /\ digest.pc = "idle" /\ Open # {}
  /\ digest' = [pc |-> "built", ids |-> Open, price |-> row.price]
  /\ doubt' = Doubt(Open \cap (notifier.todo \cup notifier.posted), "repeat")
  /\ UNCHANGED <<offer, book, rung, seen, notifier, heard, shown, waived, count>>

\* mutant: the ledger is stamped although the post has failed
DigestPostUnchecked ==
  /\ digest.pc = "built"
  /\ \E sent \in 0 .. 2, ok \in BOOLEAN :
       /\ Post(digest.ids, digest.price, sent, ok)
       /\ digest' = [digest EXCEPT !.pc = "posted"]
  /\ UNCHANGED <<offer, book, rung, seen, notifier, waived>>

\* One message for all of them.  After a failure the program ends.
DigestPost ==
  /\ digest.pc = "built"
  /\ \E sent \in 0 .. 2, ok \in BOOLEAN :
       /\ Post(digest.ids, digest.price, sent, ok)
       /\ digest' = IF ok THEN [digest EXCEPT !.pc = "posted"] ELSE NoDigest
  /\ UNCHANGED <<offer, book, rung, seen, notifier, waived>>

DigestStamp ==
  /\ digest.pc = "posted"
  /\ Stamp(digest.ids)
  /\ digest' = NoDigest
  /\ UNCHANGED <<offer, want, rung, seen, notifier, hist, count>>

DigestCrash ==
  /\ digest.pc # "idle"
  /\ Fault
  /\ doubt' = IF digest.pc = "posted" THEN Doubt(digest.ids, "repeat") ELSE doubt
  /\ digest' = NoDigest
  /\ UNCHANGED <<offer, book, rung, seen, notifier, heard, shown, waived>>

-----------------------------------------------------------------------------

Changes == Rescrape \/ Tick \/ \E p \in Prices : Reprice(p) \/ Bid(p)

Buyer ==
  \/ MarkLot
  \/ \E w \in Wants : CreateWant(w) \/ ToggleWant(w) \/ DeleteWant(w) \/ DismissMatch(w)

Valuator == ValueLoad \/ ValueCommit

Notifier ==
  \/ NotifierLoad \/ NotifierWrite \/ NotifierRestart
  \/ \E i \in Items : NotifierPost(i)

Digest == DigestBuild \/ DigestPost \/ DigestStamp

Next ==
  \/ Changes \/ Buyer \/ Valuator \/ ValueFail
  \/ NotifierClaim \/ Notifier \/ NotifierCrash \/ NotifierError
  \/ Digest \/ DigestCrash

Spec == Init /\ [][Next]_vars

\* The digest is started every day (README.md:50) and goes on until it ends.  Nothing is
\* asked of the workers: what they leave undone is the digest's to deliver.
FairSpec == Spec /\ WF_vars(Digest)

-----------------------------------------------------------------------------
(* Properties.                                                             *)

\* Type invariant, with the life of a match and of a delivery: a match belongs to
\* a want that exists, and a program that is not at work carries nothing.
TypeOK ==
  /\ kind \in {"auction", "listing"}
  /\ clock \in {"far", "closing", "over"} /\ (kind = "listing" => clock = "far")
  /\ row.price \in Prices /\ row.prev \in 0 .. MaxPrice
  /\ row.val \in {"pending", "in_progress", "done"}
  /\ row.notif \in {"pending", "in_progress", "done", "skipped", "failed"}
  /\ row.attempts \in 0 .. MaxAttempts + MaxFaults
  /\ row.reminded => kind = "auction"
  /\ want \in [Wants -> {"none", "on", "off", "deleted"}]
  /\ match \in [Wants -> [made : BOOLEAN, stamped : BOOLEAN, dismissed : BOOLEAN,
                          price : 0 .. MaxPrice]]
  /\ \A w \in Wants : match[w].made => want[w] \in {"on", "off"} /\ match[w].price # 0
  /\ \A w \in Wants : ~match[w].made => match[w] = NoMatch
  /\ notifier.pc \in {"idle", "claimed", "posting", "down"}
  /\ notifier.todo \cup notifier.posted \cup notifier.failed \subseteq Items
  /\ notifier.pc # "posting" => notifier.todo = {} /\ notifier.posted = {}
  /\ digest.pc \in {"idle", "built", "posted"} /\ digest.ids \subseteq Wants
  /\ digest.pc = "idle" <=> digest.ids = {}

\* A stamped match has been announced, and a listing's at the price it has now or
\* a lower one unless it is dismissed -- or the price dropped while the
\* announcement was on its way.
StampedMeansTold ==
  \A w \in Wants :
    match[w].stamped =>
      /\ shown[w] # 0
      /\ kind = "listing" /\ ~match[w].dismissed /\ shown[w] > row.price
           => "overtaken" \in doubt[w]

\* "Fire-once ledger": at most one message per match, or per match and price drop,
\* and one reminder per lot -- unless a crash came between post and stamp, a
\* response was lost, notifier and digest carried the same match, or a drop
\* reopened it on the way.
HeardOnce == \A i \in Items : doubt[i] = {} => heard[i] <= 1

\* An urgent open match of a valued offer is queued for the notifier or in its
\* hands -- until the next valuation it may wait for the digest if it came by
\* backfill or by unmuting, if it must be quiet, if the budget is spent, if the
\* notifier raised on it, or if valuator and notifier have overwritten each
\* other's status.
InstantQueued ==
  \A w \in Open \ waived :
    /\ row.val = "done" /\ Matches(w, row.price)
    /\ row.price <= Standout[w] \/ (kind = "listing" /\ row.prev > row.price)
    => \/ row.notif = "pending" /\ rung
       \/ notifier.pc \in {"claimed", "down"}
       \/ w \in notifier.todo \cup notifier.posted \cup notifier.failed

\* Where an item stands in the ledger; a dismissed match is not announced any more.
LedgerOf(i) ==
  IF i = Reminder
  THEN IF kind = "listing" THEN "none" ELSE IF row.reminded THEN "settled" ELSE "owed"
  ELSE IF want[i] = "deleted" \/ match[i].dismissed THEN "withdrawn"
  ELSE IF ~match[i].made THEN "none"
  ELSE IF match[i].stamped THEN "settled" ELSE "owed"

\* What a program has read and not posted yet, and what it has posted and not stamped.
InHand(s) == IF s = "notifier" THEN notifier.todo
             ELSE IF digest.pc = "built" THEN digest.ids ELSE {}
Unstamped(s) == IF s = "notifier" THEN notifier.posted
                ELSE IF digest.pc = "posted" THEN digest.ids ELSE {}

\* The items a message has been about.
Told == {i \in Items : IF i = Reminder THEN heard[i] # 0 ELSE shown[i] # 0}

D == INSTANCE Delivery WITH
       Senders <- {"notifier", "digest"},
       ledger <- [i \in Items |-> LedgerOf(i)],
       bag <- [s \in {"notifier", "digest"} |-> InHand(s)],
       posted <- [s \in {"notifier", "digest"} |-> Unstamped(s)],
       told <- Told

\* Notifier and digest together keep the promise of the ledger: settled is only what one
\* of them took while it was owed and then posted; what is owed stays owed through
\* crashes and failures; what the buyer has dismissed or deleted is never owed again
\* (notifier.py, _process_one; digest.py; upserts.py, the reset of notified_at).
ImplementsDelivery == D!DSpec

\* "The nightly digest delivers every still-un-notified match regardless of tier,
\* so a downgrade never loses a match" (delivery.py): no match stays open.
OpenDelivered == \A w \in Wants : w \in Open ~> w \notin Open

=============================================================================
