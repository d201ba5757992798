----------------------------- MODULE Valuation -----------------------------
(***************************************************************************)
(* The value of one offer.  Comparable sales come and go: outcomes of other*)
(* auctions, and the estimates operators write with value_pending_lots for *)
(* a group (a make, model and year) whose offers lack comps.  The valuator *)
(* claims the pending offer, reads it with its comps, and commits fair     *)
(* value, cost, score and verdict; an operator lists, researches, writes   *)
(* and requeues meanwhile, and the offer's price moves.                    *)
(*                                                                         *)
(* All comps and the offer are of one group: make, model, year and trim    *)
(* match.  That a pending row wakes the valuator, and its crashes, are     *)
(* StageQueue's subject; who else writes the row, Pipeline's; which wants  *)
(* the offer satisfies, WantGate's.                                        *)
(***************************************************************************)
EXTENDS Scoring

CONSTANTS Offers,     \* what an offer may be, records (see OfferOK)
          Prices,      \* bids and asking prices, in dollars
          Sales,       \* descriptions of a comparable sale
          Recorded,    \* bags of recorded sales to start from
          Batches,     \* bags of estimates an operator's research may return
          Operators,
          MaxWrites,   \* bound: batches written
          MaxSurprises \* bound: price changes, failed valuations and failed writes, together

\* km is 0 when unknown, as it is for the comps; "identified": make, model and
\* year are known; "wanted": it has an instant want match that was not notified.
\* An auction's terms are amounts and rates, or unknown.
OfferOK(o) ==
  /\ o.kind \in {"auction", "listing"} /\ o.common \in BOOLEAN /\ o.identified \in BOOLEAN
  /\ o.km \in Nat /\ o.sparse \in BOOLEAN /\ o.showstopper \in BOOLEAN /\ o.wanted \in BOOLEAN
  /\ o.kind = "auction" => {o.pct, o.cap, o.floor, o.gst, o.pst} \subseteq Nat \cup {Null}

ASSUME ValuationAssumption ==
  /\ \A o \in Offers : OfferOK(o)
  /\ Prices \subseteq Nat \ {0}
  /\ IsFiniteSet(Sales) /\ \A c \in Sales : c.price \in Nat /\ c.km \in Nat
  /\ Recorded \subseteq [Sales -> Nat] /\ Batches \subseteq [Sales -> Nat]
  /\ MaxWrites \in Nat /\ MaxSurprises \in Nat

VARIABLES
  offer,    \* the offer, as enriched
  price,    \* its current bid (Null: none) or asking price
  status,   \* "open", "over" (closed, or removed) or "unsold" (closed without a final bid)
  ends,     \* the auction's scheduled end: "ahead", "past" or "unknown"
  real,     \* sales recorded of other vehicles
  synth,    \* batches of estimates in historical_sales: [id, since, rows]
  row,      \* what valuations and requeues write of the row
  work,     \* the valuator's transaction
  tool,     \* what each operator is doing
  commits,  \* batches committed so far
  surprises, \* number of surprises so far
  basis,    \* history: what the row's valuation was based on
  request   \* history: the last requeue, [at, found]

vars == <<offer, price, status, ends, real, synth, row, work, tool, commits, surprises, basis, request>>
market == <<offer, price, status, ends>>

Idle == [at |-> "idle"]
Unpriced == [val |-> "pending", fair |-> Unvalued(0), allIn |-> Null, score |-> 0,
             suspicious |-> FALSE, note |-> "pending"]
NoBasis == [size |-> 0, least |-> 0, most |-> 0, own |-> 0, price |-> Null, commits |-> 0]

Init ==
  /\ offer \in Offers
  /\ price \in Prices \cup (IF offer.kind = "auction" THEN {Null} ELSE {})
  /\ status = "open"
  /\ ends \in IF offer.kind = "auction" THEN {"ahead", "unknown"} ELSE {"unknown"}
  /\ real \in Recorded
  /\ synth = {}
  /\ row = Unpriced
  /\ work = Idle
  /\ tool = [o \in Operators |-> Idle]
  /\ commits = 0 /\ surprises = 0
  /\ basis = NoBasis
  /\ request = [at |-> Null, found |-> "none"]

Surprise == surprises < MaxSurprises /\ surprises' = surprises + 1

-----------------------------------------------------------------------------
(* The market.                                                             *)

\* A poll's bid or a rescrape's asking price, when it differs.
Reprice(p) ==
  /\ status = "open" /\ p # price
  /\ offer.kind = "auction" => p > price
  /\ price' = p
  /\ row' = [row EXCEPT !.val = "pending"]

Moves ==
  /\ Surprise
  /\ \E p \in Prices : Reprice(p)
  /\ UNCHANGED <<offer, status, ends, real, synth, work, tool, commits, basis, request>>

EndPasses ==
  /\ ends = "ahead"
  /\ ends' = "past"
  /\ UNCHANGED <<offer, price, status, real, synth, row, work, tool, commits, surprises, basis, request>>

\* The poller's last observation, with a last bid or without news, or the listing is
\* gone.  A closed lot whose observation names no bid has no final bid.
Over ==
  /\ status = "open"
  /\ status' \in {"over", "unsold"}
  /\ \/ UNCHANGED <<price, row>>
     \/ offer.kind = "auction" /\ \E p \in Prices : Reprice(p)
  /\ UNCHANGED <<offer, ends, real, synth, work, tool, commits, surprises, basis, request>>

-----------------------------------------------------------------------------
(* The valuator.                                                           *)

OwnRow == [price |-> price, km |-> offer.km, channel |-> "auction_estate"]

\* build_comp_set: what is in the mileage band.  A listing is kept from being its
\* own comp by its id, a lot by being open.
Own ==
  IF offer.kind = "auction" /\ status = "over" /\ price # Null /\ offer.km > 0
  THEN {OwnRow} ELSE {}

InBand(c) == (offer.km * 7) \div 10 <= c.km /\ c.km <= (offer.km * 13) \div 10

Comps ==
  [c \in Sales \cup Own |->
     IF ~InBand(c) THEN 0
     ELSE (IF c \in Sales THEN real[c] + SumFunction([b \in synth |-> b.rows[c]]) ELSE 0)
          + (IF c \in Own THEN 1 ELSE 0)]

\* History: what a valuation with these comps stands on.
BasisOf(comps) ==
  LET observed == IF Size(comps) = 0 THEN {0} ELSE {Normal(c) : c \in {d \in DOMAIN comps : comps[d] > 0}}
  IN  [size |-> Size(comps), least |-> Min(observed), most |-> Max(observed),
       own |-> Cardinality(Own), price |-> price, commits |-> commits]

\* The terms that count: a rate of zero reads as a missing one.
Or(rate, default) == IF rate \in {Null, 0} THEN default ELSE rate

Landed == LandedCost("AB", IF offer.province = "none" THEN "AB" ELSE offer.province)

\* _apply_pricing and _apply_listing_pricing
Cost ==
  IF offer.kind = "listing" THEN AllIn(Effective(price, offer.seller), 0, 0, Landed)
  ELSE AllIn(100 * price, Premium(price, Or(offer.pct, 10), offer.cap, offer.floor),
             Or(offer.gst, 5) + Or(offer.pst, 0), Landed)

\* value_one with the comps that trimming left: the columns it writes.
Priced(trimmed) ==
  LET fair == FairValue(trimmed, offer.condition, offer.sparse)
      priced == price # Null /\ fair.expected # Null
      enough == fair.confidence # "insufficient"
  IN  [val |-> IF enough THEN "done" ELSE "insufficient",
       fair |-> fair,
       allIn |-> IF priced THEN Cost ELSE Null,
       score |-> IF priced THEN DealScore(fair.expected, Cost) ELSE 0,
       suspicious |-> /\ price # Null /\ fair.low # Null
                      /\ 100000 * price < (fair.low \div 100) * 85,
       note |-> IF offer.wanted \/ (enough /\ ~Silenced(offer.flags, offer.showstopper))
                THEN "pending" ELSE "skipped"]

Claim ==
  /\ work.at = "idle" /\ row.val = "pending"
  /\ row' = [row EXCEPT !.val = "in_progress"]
  /\ work' = [at |-> "claimed"]
  /\ UNCHANGED <<market, real, synth, tool, commits, surprises, basis, request>>

\* An offer that is not identified is skipped and its verdict with it.
Read ==
  /\ work.at = "claimed"
  /\ IF ~offer.identified
     THEN work' = [at |-> "read", basis |-> basis,
                   new |-> [row EXCEPT !.val = "skipped", !.note = "skipped"]]
     ELSE LET comps == Comps
          IN  \E lost \in SUBSET AtEdge(comps) :
                work' = [at |-> "read", basis |-> BasisOf(comps),
                         new |-> Priced(Trimmed(comps, lost))]
  /\ UNCHANGED <<market, real, synth, row, tool, commits, surprises, basis, request>>

\* COMMIT.  The status it loaded was in_progress or pending, so that its own is written.
Value ==
  /\ work.at = "read"
  /\ row' = work.new
  /\ basis' = work.basis
  /\ work' = Idle
  /\ UNCHANGED <<market, real, synth, tool, commits, surprises, request>>

\* The transaction rolls back, and the handler's own gives the row back or gives up.
ValueFails ==
  /\ work.at # "idle" /\ Surprise
  /\ \E v \in {"pending", "failed"} : row' = [row EXCEPT !.val = v]
  /\ work' = Idle
  /\ UNCHANGED <<market, real, synth, tool, commits, basis, request>>

-----------------------------------------------------------------------------
(* value_pending_lots.                                                     *)

\* mutant: only what was never valued is selected
SelectedPending == /\ offer.kind = "auction" /\ offer.identified /\ ends = "ahead"
                   /\ row.val \in {"pending", "skipped"}

\* What list-groups and requeue select, by the scheduled end and not by lot_status.
Unsettled == {"pending", "insufficient", "skipped"}
Selected == /\ offer.kind = "auction" /\ offer.identified /\ ends = "ahead"
            /\ row.val \in Unsettled

\* list-groups: the operator learns how many comps the group needs.
List(o) ==
  /\ tool[o].at = "idle" /\ Selected
  /\ tool' = [tool EXCEPT ![o] = [at |-> "listed", need |-> IF offer.common THEN 5 ELSE 3]]
  /\ UNCHANGED <<market, real, synth, row, work, commits, surprises, basis, request>>

Writing == {o \in Operators : tool[o].at = "writing"}

\* mutant: the group's earlier estimates are not deleted
DoomedNone == {b.id : b \in {}}

\* The batches a write-comps that starts now deletes: those it can see.
Doomed == {b.id : b \in synth}

\* write-comps of what the operator found: BEGIN and the DELETE, which sees what is
\* committed.  One that must wait for the rows of another finds them gone, and
\* still does not see the rows that replaced them.
WriteComps(o) ==
  /\ tool[o].at = "listed" /\ commits + Cardinality(Writing) < MaxWrites
  /\ \E rows \in Batches :
       /\ Size(rows) >= tool[o].need
       /\ tool' = [tool EXCEPT ![o] = [at |-> "writing", need |-> tool[o].need, rows |-> rows,
                                       doomed |-> Doomed, since |-> commits]]
  /\ UNCHANGED <<market, real, synth, row, work, commits, surprises, basis, request>>

\* The INSERTs and COMMIT.
Written(o) ==
  /\ tool[o].at = "writing"
  /\ commits' = commits + 1
  /\ synth' = {b \in synth : b.id \notin tool[o].doomed}
                \cup {[id |-> commits + 1, since |-> tool[o].since, rows |-> tool[o].rows]}
  /\ tool' = [tool EXCEPT ![o] = [at |-> "written"]]
  /\ UNCHANGED <<market, real, row, work, surprises, basis, request>>

\* A row is not valid, or the transaction fails: nothing is deleted or written.
WriteFails(o) ==
  /\ tool[o].at = "writing" /\ Surprise
  /\ tool' = [tool EXCEPT ![o] = [at |-> "listed", need |-> tool[o].need]]
  /\ UNCHANGED <<market, real, synth, row, work, commits, basis, request>>

\* requeue
Requeue(o) ==
  /\ tool[o].at = "written"
  /\ tool' = [tool EXCEPT ![o] = Idle]
  /\ row' = [row EXCEPT !.val = IF Selected THEN "pending" ELSE @]
  /\ request' = [at |-> commits,
                 found |-> IF ends # "ahead" THEN "ended"
                           ELSE IF work.at = "read" THEN "underway" ELSE row.val]
  /\ UNCHANGED <<market, real, synth, work, commits, surprises, basis>>

-----------------------------------------------------------------------------
Next ==
  \/ Moves \/ EndPasses \/ Over
  \/ Claim \/ Read \/ Value \/ ValueFails
  \/ \E o \in Operators : List(o) \/ WriteComps(o) \/ Written(o) \/ WriteFails(o) \/ Requeue(o)

Spec == Init /\ [][Next]_vars

-----------------------------------------------------------------------------
(* Properties.                                                             *)

\* Whatever an operator finds is of vehicles in the offer's mileage band.
Fitting == \A rows \in Batches : \A c \in Sales : rows[c] > 0 => InBand(c)

\* A fair value lies within the normalized prices it was made of, its parts in order
\* (the deciles extrapolate when there are few prices), and trimming never leaves an
\* offer with six or more comps without one: with five, the rounding of a mileage at
\* exactly two standard deviations can (fair_value.py, compute_fair_value).  So an
\* offer of a common make is hardly ever short of comps once the number asked for was
\* written, with mileages in its band (value_pending_lots.py, min_comps_required and
\* the min_km and max_km listed with it).
FairValueSound ==
  /\ row.fair.low # Null =>
       /\ 1000 * basis.least <= row.fair.low /\ row.fair.low <= row.fair.mid
       /\ row.fair.mid <= row.fair.high /\ row.fair.high <= 1000 * basis.most
       /\ row.fair.low <= row.fair.expected /\ row.fair.expected <= row.fair.high
  /\ row.val = "insufficient" => basis.size <= INSUFFICIENT_COMPS_THRESHOLD
  /\ offer.common /\ Fitting /\ basis.commits > 0 /\ row.val = "insufficient"
       => basis.size = INSUFFICIENT_COMPS_THRESHOLD

\* When a valuation finds the price higher and the fair value unchanged, the offer
\* costs more and, if it is worth anything, scores less, whatever the auction's rates,
\* cap and floor (score.py, _premium_amount and price_deal_score).
DearerScoresWorse ==
  [][(/\ row.allIn # Null /\ row'.allIn # Null /\ row'.fair = row.fair
      /\ basis'.price > basis.price)
     => /\ row'.allIn > row.allIn
        /\ row.fair.expected \in Nat \ {0} => row'.score < row.score]_<<row, basis>>

\* What an operator requeues is valued with what it wrote: unless the offer was
\* valued already or given up, its auction had ended, or a valuation that had read
\* its comps was about to commit over the requeue (value_pending_lots.py, cmd_requeue).
RequeueServes ==
  request.at > basis.commits /\ row.val \in {"done", "insufficient", "skipped"}
    => request.found \in {"underway", "done", "failed", "ended"}

\* Estimates of a group are replaced, never added to, but for write-comps that ran
\* at the same time: of two batches present, the later began before the earlier
\* was committed (value_pending_lots.py, cmd_write_comps).
EstimatesReplaced ==
  \A b, c \in synth : b.id < c.id => c.since < b.id

\* An offer is no comp of its own (valuator.py, value_one, at exclude_offer_id).
NotItsOwnComp == basis.own = 0
=============================================================================
