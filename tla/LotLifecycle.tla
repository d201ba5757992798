---------------------------- MODULE LotLifecycle ----------------------------
(***************************************************************************)
(* An auction lot from the source's catalogue to the record of its sale:   *)
(* the ingester inserts and refreshes the row, the bid poller watches it   *)
(* and closes it, the nightly distiller turns it into a HistoricalSale and *)
(* deletes it, while the buyer marks it and the auctioneer goes on         *)
(* bidding, moving, closing and withdrawing the lot.                       *)
(*                                                                         *)
(* Two sources differ in what they tell.  HiBid says whether a lot is      *)
(* closed and never when it ends; the end is its auction's.  McDougall     *)
(* says when a lot ends and never that it has closed; its auction has no   *)
(* end.  The unit of time is a day or more: the delays of the scheduler,   *)
(* all below two hours for the fast bucket, fall within one unit.          *)
(* What a bid does to the valuation is in Pipeline, not here.              *)
(***************************************************************************)
EXTENDS Integers, Sequences, FiniteSets

CONSTANTS Lots,
          Hibid,        \* the lots of HiBid; the others are McDougall's
          Distillers,   \* processes that run the distiller
          Nightly,      \* the one of systemd's timer; the others are started by hand
          ForceAge,     \* _MAX_OPEN_PAST_END_SECONDS
          MaxAge,       \* _MAX_FORCE_CLOSE_AGE_SECONDS
          DistillAge,   \* DISTILL_AGE_DAYS
          RecentAge,    \* RECENT_AUCTION_LOTS_DAYS
          KeepAge,      \* KEEP_NOTIFIED_DAYS
          BatchLimit,   \* _BATCH_LIMIT
          FastCap,      \* _FAST_BUCKET_CAP
          SlowCap,      \* _SLOW_BUCKET_CAP
          FirstEnds,    \* bound: the ends announced at first; some lots have none
          Ends,         \* bound: the ends that are announced, or moved to
          MaxTime,      \* bound: the last unit of time
          MaxBid,       \* bound: bids on a lot
          MaxSurprises  \* bound: marks, moves, odd records, faults and overlaps, together

ASSUME LotLifecycleAssumption ==
  /\ Hibid \subseteq Lots /\ Nightly \in Distillers
  /\ {ForceAge, MaxAge, DistillAge, RecentAge, KeepAge} \subseteq Nat
  /\ ForceAge <= MaxAge /\ DistillAge <= KeepAge /\ DistillAge = RecentAge
  /\ {BatchLimit, FastCap, SlowCap} \subseteq Nat \ {0}
  /\ FirstEnds \subseteq Ends /\ Ends \subseteq Nat
  /\ {MaxTime, MaxBid, MaxSurprises} \subseteq Nat

VARIABLES
  clock,     \* the time
  site,      \* the lot at the source: [state, end, bid]
  lot,       \* its row in auction_lots, with the end of its auction
  sales,     \* the final_listed_price_cad of its rows in historical_sales
  todo,      \* the references the bid poller has still to poll: [fast, slow]
  obs,       \* the observation it has fetched and not yet written
  dist,      \* a distiller: [todo: the ids selected, held: the row it has loaded]
  surprises, \* number of surprises so far
  misled,    \* history: lots closed on a false answer, or by an end that had moved
  again,     \* history: lots inserted again after they were distilled
  doubled,   \* history: lots recorded by a distiller after another had deleted them
  late       \* history: lots marked or purchased when a distiller had them on its list

vars == <<clock, site, lot, sales, todo, obs, dist, surprises, misled, again, doubled, late>>
history == <<misled, again, doubled, late>>

None == -1      \* NULL of a time
NoBid == 0      \* NULL of an amount: no source reports a bid of zero
NoObs == [answer |-> "none"]
NoRow == [gen |-> 0, final |-> NoBid]
Idle == [todo |-> {}, held |-> NoRow]
NoRefs == [fast |-> {}, slow |-> {}]

\* The row of a lot.  gen counts the rows the lot has had: with the lot it is the
\* primary key, which is never used again.
Absent(g) ==
  [gen |-> g, status |-> "absent", end |-> None, rowid |-> FALSE, bid |-> NoBid,
   final |-> NoBid, closedAt |-> None, watched |-> FALSE, purchased |-> FALSE]

Init ==
  /\ clock = 0
  /\ site \in [Lots -> [state : {"open"}, end : FirstEnds \cup {None}, bid : {NoBid}]]
  /\ lot = [l \in Lots |-> Absent(0)]
  /\ sales = [l \in Lots |-> <<>>]
  /\ todo = NoRefs
  /\ obs = NoObs
  /\ dist = [d \in Distillers |-> Idle]
  /\ surprises = 0
  /\ misled = {} /\ again = {} /\ doubled = {} /\ late = {}

Open(l) == lot[l].status \in {"open", "extended"}
Closed(l) == lot[l].status \in {"closed", "force_closed"}
Age(l) == clock - lot[l].end

\* Spend n of the surprises.
Surprise(n) ==
  /\ surprises + n <= MaxSurprises
  /\ surprises' = surprises + n

-----------------------------------------------------------------------------
(* The source and the clock.                                               *)

Tick ==
  /\ clock < MaxTime
  /\ clock' = clock + 1
  /\ UNCHANGED <<site, lot, sales, todo, obs, dist, surprises, history>>

SiteSets(l, s) ==
  /\ site' = [site EXCEPT ![l] = s]
  /\ UNCHANGED <<clock, lot, sales, todo, obs, dist, history>>

SiteBid(l) ==
  /\ site[l].state = "open" /\ site[l].bid < MaxBid
  /\ SiteSets(l, [site[l] EXCEPT !.bid = @ + 1])
  /\ UNCHANGED surprises

\* Bidding ends, at the announced end or whenever later the soft close allows.
SiteClose(l) ==
  /\ site[l].state = "open" /\ site[l].end <= clock
  /\ SiteSets(l, [site[l] EXCEPT !.state = "closed"])
  /\ UNCHANGED surprises

\* The auctioneer moves the end.
SiteMove(l) ==
  /\ site[l].state = "open" /\ clock <= site[l].end
  /\ Surprise(1)
  /\ \E e \in Ends : e > site[l].end /\ SiteSets(l, [site[l] EXCEPT !.end = e])

\* The lot is withdrawn, or its page is taken down after the sale.
SiteDrop(l) ==
  /\ site[l].state # "gone"
  /\ Surprise(1)
  /\ SiteSets(l, [site[l] EXCEPT !.state = "gone"])

-----------------------------------------------------------------------------
(* The ingester.                                                           *)

\* What a source's record of a lot says: HiBid's gives the auction's end, McDougall's
\* page the lot's own and nothing of its closing.
HibidRecord(l, rowid) ==
  [status |-> IF site[l].state = "closed" THEN "closed" ELSE "open", end |-> site[l].end,
   rowid |-> rowid]
McDougallRecord(l) == [status |-> "open", end |-> site[l].end, rowid |-> FALSE]
Records(l) == IF l \in Hibid THEN {HibidRecord(l, b) : b \in BOOLEAN} ELSE {McDougallRecord(l)}

\* A row is written by the ingester only with what the catalogue shows; the bid and
\* the status, but for the one it is inserted with, are the poller's.
InsertedRow(l, rec) ==
  [Absent(lot[l].gen + 1) EXCEPT !.status = rec.status, !.end = rec.end, !.rowid = rec.rowid]

\* Coalesced, but for HiBid's row id: the latest record's, also when it has none.
RefreshedRow(l, rec) ==
  [lot[l] EXCEPT !.end = IF rec.end = None THEN @ ELSE rec.end, !.rowid = rec.rowid]

\* The catalogue lists open lots.  One that has just closed may still be listed, and
\* a record of HiBid's may lack its row id; both are surprises.
Ingest(l) ==
  /\ site[l].state # "gone"
  /\ \E rec \in Records(l) :
       /\ Surprise(IF site[l].state = "closed" \/ rec.rowid # (l \in Hibid) THEN 1 ELSE 0)
       /\ lot' = [lot EXCEPT ![l] = IF lot[l].status = "absent" THEN InsertedRow(l, rec)
                                                                ELSE RefreshedRow(l, rec)]
  /\ again' = IF lot[l].status = "absent" /\ sales[l] # <<>> THEN again \cup {l} ELSE again
  /\ UNCHANGED <<clock, site, sales, todo, obs, dist, misled, doubled, late>>

-----------------------------------------------------------------------------
(* The bid poller.                                                         *)

\* The queue of the poller: by end, the rows without one last.
Before(k, l) ==
  /\ lot[k].end # None
  /\ lot[l].end = None \/ lot[k].end < lot[l].end

\* The first n lots of S, in every order the ties allow.
FirstOf(S, n) ==
  {F \in SUBSET S : /\ Cardinality(F) = (IF Cardinality(S) < n THEN Cardinality(S) ELSE n)
                    /\ \A l \in F, k \in S \ F : ~Before(k, l)}

\* Older than the clock-skew ceiling: left open, for an operator to look at.
Ancient(l) == lot[l].end # None /\ Age(l) > MaxAge

\* mutant: a lot is given up as soon as its end has passed
ForceableAtEnd(l) == lot[l].end # None /\ ~Ancient(l) /\ Age(l) >= 0

\* Stuck open past its end, and not that old.
Forceable(l) == lot[l].end # None /\ ~Ancient(l) /\ Age(l) > ForceAge

\* HiBid is asked by row id.
Pollable(l) == ~Ancient(l) /\ ~Forceable(l) /\ (l \in Hibid => lot[l].rowid)

\* next_poll_delay is at most five minutes.
Urgent(l) == lot[l].end # None /\ lot[l].end <= clock

ForceClose(B) ==
  lot' = [l \in Lots |->
            IF l \in B /\ Forceable(l)
            THEN [lot[l] EXCEPT !.status = "force_closed", !.closedAt = clock, !.final = lot[l].bid]
            ELSE lot[l]]

Refs(F) == {[lot |-> l, gen |-> lot[l].gen] : l \in F}

\* One transaction takes the batch, closes by force, and makes the references.
PollerLoad ==
  /\ todo = NoRefs /\ obs = NoObs
  /\ \E B \in FirstOf({l \in Lots : Open(l)}, BatchLimit) :
       /\ ForceClose(B)
       /\ misled' = misled \cup {l \in B : Forceable(l) /\ lot[l].end # site[l].end}
       /\ \E F \in FirstOf({l \in B : Pollable(l) /\ Urgent(l)}, FastCap),
            S \in FirstOf({l \in B : Pollable(l) /\ ~Urgent(l)}, SlowCap) :
            todo' = [fast |-> Refs(F), slow |-> Refs(S)]
  /\ UNCHANGED <<clock, site, sales, obs, dist, surprises, again, doubled, late>>

Observation(r, answer, bid, end) ==
  [answer |-> answer, lot |-> r.lot, gen |-> r.gen, bid |-> bid, end |-> end]

\* mutant: bidding is over when the announced end has passed
HibidAnswerByEnd(r) ==
  LET s == site[r.lot]
  IN  Observation(r, IF s.end # None /\ s.end <= clock THEN "closed" ELSE "open", s.bid, None)

\* mutant: the observation carries the end of the auction
HibidAnswerWithEnd(r) == Observation(r, site[r.lot].state, site[r.lot].bid, site[r.lot].end)

\* What a source says of a lot that is there: HiBid whether it is closed, McDougall
\* when it ends, both the bid.
HibidAnswer(r) == Observation(r, site[r.lot].state, site[r.lot].bid, None)
McDougallAnswer(r) == Observation(r, "open", site[r.lot].bid, site[r.lot].end)

Answer(r) ==
  IF site[r.lot].state = "gone" THEN Observation(r, "missing", NoBid, None)
  ELSE IF r.lot \in Hibid THEN HibidAnswer(r) ELSE McDougallAnswer(r)

\* The next reference: the fast bucket before the slow one, each in some order.
TakeRef(r) ==
  \/ r \in todo.fast /\ todo' = [todo EXCEPT !.fast = @ \ {r}]
  \/ todo.fast = {} /\ r \in todo.slow /\ todo' = [todo EXCEPT !.slow = @ \ {r}]

Ask(r) ==
  /\ obs = NoObs /\ TakeRef(r)
  /\ obs' = Answer(r)
  /\ UNCHANGED <<clock, site, lot, sales, dist, surprises, history>>

\* No answer, an error status, a page that cannot be parsed: the lot is left for the
\* next cycle.
AskFails(r) ==
  /\ obs = NoObs /\ TakeRef(r)
  /\ Surprise(1)
  /\ UNCHANGED <<clock, site, lot, sales, obs, dist, history>>

\* HiBid answers with an error inside a good response: no results, so the lot is
\* taken to be gone.
AskGlitch(r) ==
  /\ obs = NoObs /\ TakeRef(r)
  /\ r.lot \in Hibid /\ site[r.lot].state # "gone"
  /\ Surprise(1)
  /\ obs' = Observation(r, "missing", NoBid, None)
  /\ misled' = misled \cup {r.lot}
  /\ UNCHANGED <<clock, site, lot, sales, dist, again, doubled, late>>

\* scheduled_end_at of the lot's auction.
AuctionEnd(l) == IF l \in Hibid THEN lot[l].end ELSE None

\* mutant: a lot that is missing at the source is left as it is
ObservedMissing(row, o) ==
  IF o.answer = "closed" /\ row.status # "closed"
  THEN [row EXCEPT !.bid = o.bid, !.status = "closed", !.closedAt = clock, !.final = o.bid]
  ELSE [row EXCEPT !.bid = IF o.bid = NoBid THEN @ ELSE o.bid]

\* The row after an observation of it.
Observed(row, o) ==
  LET bid == IF o.bid = NoBid THEN row.bid ELSE o.bid
      extended == AuctionEnd(o.lot) # None /\ o.end # None /\ o.end > AuctionEnd(o.lot)
  IN  IF o.answer \in {"missing", "closed"} /\ row.status # "closed"
      THEN [row EXCEPT !.bid = bid, !.status = "closed", !.closedAt = clock,
                       !.final = IF o.answer = "closed" THEN o.bid ELSE row.bid]
      ELSE [row EXCEPT !.bid = bid, !.status = IF extended THEN "extended" ELSE @]

\* The row is looked up again; it may be gone by now.
Write ==
  /\ obs # NoObs
  /\ lot' = IF lot[obs.lot].status # "absent" /\ lot[obs.lot].gen = obs.gen
            THEN [lot EXCEPT ![obs.lot] = Observed(@, obs)] ELSE lot
  /\ obs' = NoObs
  /\ UNCHANGED <<clock, site, sales, todo, dist, surprises, history>>

PollerCrash ==
  /\ todo # NoRefs \/ obs # NoObs
  /\ Surprise(1)
  /\ todo' = NoRefs /\ obs' = NoObs
  /\ UNCHANGED <<clock, site, lot, sales, dist, history>>

-----------------------------------------------------------------------------
(* The buyer and the distiller.                                            *)

\* A distiller has selected the lot's row and not yet recorded it.
OnList(d, l) ==
  <<l, lot[l].gen>> \in dist[d].todo \cup (IF dist[d].held = NoRow THEN {}
                                         ELSE {<<dist[d].held.lot, dist[d].held.gen>>})

Sets(l, row) ==
  /\ lot[l].status # "absent"
  /\ Surprise(1)
  /\ lot' = [lot EXCEPT ![l] = row]
  /\ late' = IF \E d \in Distillers : OnList(d, l) THEN late \cup {l} ELSE late
  /\ UNCHANGED <<clock, site, sales, todo, obs, dist, misled, again, doubled>>

\* Watch (interested, maybe), or take that back.
Mark(l) == Sets(l, [lot[l] EXCEPT !.watched = ~@])

\* was_purchased_by_us, for good.  No program sets the column yet: the buyer does, by
\* hand.
Purchase(l) == Sets(l, [lot[l] EXCEPT !.purchased = TRUE])

\* mutant: a watched lot is kept no longer than any other
DistillableWatched(l) ==
  /\ Closed(l) /\ lot[l].closedAt # None /\ lot[l].closedAt + DistillAge <= clock
  /\ ~lot[l].purchased

\* mutant: a watched lot is kept for ever
DistillableUnwatched(l) ==
  /\ Closed(l) /\ lot[l].closedAt # None /\ lot[l].closedAt + DistillAge <= clock
  /\ ~lot[l].purchased /\ ~lot[l].watched

\* Closed, with a time, long enough ago for one that is watched or not, and not ours.
Distillable(l) ==
  /\ Closed(l) /\ lot[l].closedAt # None /\ lot[l].closedAt + DistillAge <= clock
  /\ ~lot[l].purchased
  /\ lot[l].watched => lot[l].closedAt + KeepAge <= clock

\* A run of the distiller selects the ids.  Nothing keeps two runs apart.
Select(d) ==
  /\ dist[d] = Idle
  /\ Surprise(IF d = Nightly THEN 0 ELSE 1)
  /\ dist' = [dist EXCEPT ![d].todo = {<<l, lot[l].gen>> : l \in {k \in Lots : Distillable(k)}}]
  /\ UNCHANGED <<clock, site, lot, sales, todo, obs, history>>

\* In the lot's own transaction the row is loaded, its eligibility not looked at again.
LoadLot(d) ==
  /\ dist[d].held = NoRow
  /\ \E c \in dist[d].todo :
       LET l == c[1]
           found == lot[l].status # "absent" /\ lot[l].gen = c[2]
       IN  dist' = [dist EXCEPT
                      ![d] = [todo |-> @.todo \ {c},
                              held |-> IF found THEN [lot |-> l, gen |-> c[2], final |-> lot[l].final]
                                                ELSE NoRow]]
  /\ UNCHANGED <<clock, site, lot, sales, todo, obs, surprises, history>>

Recorded(d) == LET h == dist[d].held IN [sales EXCEPT ![h.lot] = Append(@, h.final)]
Released(d) == [dist EXCEPT ![d].held = NoRow]

\* mutant: the sale is recorded and the row stays
DistillKeep(d) ==
  /\ dist[d].held # NoRow
  /\ sales' = Recorded(d)
  /\ dist' = Released(d)
  /\ UNCHANGED <<clock, site, lot, todo, obs, surprises, history>>

\* INSERT the sale, DELETE the row, COMMIT.  That the DELETE finds no row any more is
\* a warning of SQLAlchemy's, not an error.
Distill(d) ==
  LET h == dist[d].held IN
  /\ h # NoRow
  /\ sales' = Recorded(d)
  /\ LET there == lot[h.lot].gen = h.gen /\ lot[h.lot].status # "absent" IN
     /\ lot' = IF there THEN [lot EXCEPT ![h.lot] = Absent(h.gen)] ELSE lot
     /\ doubled' = IF there THEN doubled ELSE doubled \cup {h.lot}
  /\ dist' = Released(d)
  /\ UNCHANGED <<clock, site, todo, obs, surprises, misled, again, late>>

\* The lot's transaction fails, and the run goes on; or the run dies.
DistillFails(d) ==
  /\ dist[d] # Idle
  /\ Surprise(1)
  /\ \/ dist[d].held # NoRow /\ dist' = Released(d)
     \/ dist' = [dist EXCEPT ![d] = Idle]
  /\ UNCHANGED <<clock, site, lot, sales, todo, obs, history>>

-----------------------------------------------------------------------------
Environment ==
  \/ Tick
  \/ \E l \in Lots : SiteBid(l) \/ SiteClose(l) \/ SiteMove(l) \/ SiteDrop(l)
  \/ \E l \in Lots : Ingest(l) \/ Mark(l) \/ Purchase(l)

Poller ==
  \/ PollerLoad \/ Write \/ PollerCrash
  \/ \E r \in todo.fast \cup todo.slow : Ask(r) \/ AskFails(r) \/ AskGlitch(r)

Distiller(d) == Select(d) \/ LoadLot(d) \/ Distill(d) \/ DistillFails(d)

Next == Environment \/ Poller \/ \E d \in Distillers : Distiller(d)

Spec == Init /\ [][Next]_vars

\* Time passes; the poller is restarted by systemd and goes on; the timer runs the
\* distiller every night, and a run goes on.  Nothing makes the source, the ingester or
\* the buyer act, or another run of the distiller start.
FairSpec ==
  /\ Spec
  /\ WF_vars(Tick)
  /\ WF_vars(PollerLoad \/ Write \/ \E r \in todo.fast \cup todo.slow : Ask(r))
  /\ WF_vars(Select(Nightly))
  /\ \A d \in Distillers : WF_vars(LoadLot(d) \/ Distill(d))

-----------------------------------------------------------------------------
(* Properties.                                                             *)

Row == [gen : Nat, status : {"absent", "open", "closed", "force_closed"},
        end : Ends \cup {None}, rowid : BOOLEAN, bid : 0..MaxBid, final : 0..MaxBid,
        closedAt : 0..MaxTime \cup {None}, watched : BOOLEAN, purchased : BOOLEAN]
Ref == [lot : Lots, gen : Nat]

\* The types.  "extended" is not among the statuses: the poller's branch for it needs
\* an auction with an end and an observation with one, and each source has only one
\* of the two.
TypeOK ==
  /\ clock \in 0..MaxTime
  /\ site \in [Lots -> [state : {"open", "closed", "gone"}, end : Ends \cup {None}, bid : 0..MaxBid]]
  /\ lot \in [Lots -> Row]
  /\ sales \in [Lots -> Seq(0..MaxBid)]
  /\ todo \in [fast : SUBSET Ref, slow : SUBSET Ref]
  /\ obs = NoObs \/ obs \in [answer : {"open", "closed", "missing"}, lot : Lots, gen : Nat,
                             bid : 0..MaxBid, end : Ends \cup {None}]
  /\ dist \in [Distillers -> [todo : SUBSET (Lots \X Nat),
                              held : {NoRow} \cup [lot : Lots, gen : Nat, final : 0..MaxBid]]]
  /\ surprises \in 0..MaxSurprises
  /\ misled \subseteq Lots /\ again \subseteq Lots /\ doubled \subseteq Lots /\ late \subseteq Lots

\* build_comp_set: the comparables a lot contributes, from auction_lots and from
\* historical_sales.
RecentComp(l) ==
  Closed(l) /\ lot[l].closedAt # None /\ lot[l].closedAt + RecentAge >= clock /\ lot[l].final # NoBid
SaleComps(l) == {i \in DOMAIN sales[l] : sales[l][i] # NoBid}
Comps(l) == Cardinality(SaleComps(l)) + (IF RecentComp(l) THEN 1 ELSE 0)

\* One sale is one comparable: the row and its HistoricalSale never count at the same
\* time, and no crash, retry or late write records a sale twice.  Only two things do:
\* a lot that the catalogue still lists after it was distilled, and two distillers.
CountedOnce == \A l \in Lots : Comps(l) <= 1 \/ l \in again \cup doubled

\* The price recorded of a lot whose bidding has ended is the hammer price when the
\* source said so, and never more than it: a bid that lands between two polls, or while
\* an observation is being written, is not lost and none is invented.
HammerPrice ==
  \A l \in Lots :
    /\ lot[l].status = "closed" /\ lot[l].closedAt # None /\ site[l].state = "closed" /\ l \notin misled
         => lot[l].final = site[l].bid
    /\ lot[l].final <= site[l].bid
    /\ \A i \in DOMAIN sales[l] : sales[l][i] <= site[l].bid

\* A lot on which one can still bid is closed in the database only for a false answer,
\* for an end that has moved since it was scraped, or when it runs on for longer than
\* ForceAge past its end.
EarlyCloseExplained ==
  \A l \in Lots :
    Closed(l) /\ site[l].state = "open" =>
      l \in misled \/ (site[l].end # None /\ clock > site[l].end + ForceAge)

\* A lot the buyer watches is not deleted before KeepAge is over, and one he has
\* purchased never is, unless the mark came when a distiller already had the lot on its
\* list.
KeptWhileWatched ==
  [][\A l \in Lots :
       lot[l].status # "absent" /\ lot'[l].status = "absent" /\ l \notin late
       => /\ ~lot[l].purchased
          /\ lot[l].watched => clock >= lot[l].closedAt + KeepAge]_vars

\* The rows queued no later than l.
Crowded(l) == Cardinality({k \in Lots \ {l} : Open(k) /\ ~Before(l, k)})
                >= (IF BatchLimit < FastCap THEN BatchLimit ELSE FastCap)

\* The ways to stay open for ever: too old for the poller to touch, crowded out, or,
\* at HiBid, refreshed from a record without row id.
Stuck(l) == Ancient(l) \/ Crowded(l) \/ (l \in Hibid /\ ~lot[l].rowid)

\* The poller should close l: the source would say that it is over, or its end is far
\* enough in the past.
Due(l) ==
  /\ Open(l) /\ ~Stuck(l)
  /\ site[l].state = "gone" \/ (site[l].state = "closed" /\ l \in Hibid) \/ Forceable(l)

\* A lot that is over is closed, through crashes and unanswered polls, unless it gets
\* stuck in one of three ways: nothing else keeps it open for ever.
EndsClosed == \A l \in Lots : Due(l) ~> ~Open(l) \/ Stuck(l)

\* A sale at a known price is recorded for good with that price, whether the buyer
\* watches the lot or not and however often the distiller fails on it; only a lot that
\* he has purchased is not distilled: its row stays, and has the price.
SaleRemembered ==
  \A l \in Lots, p \in 1..MaxBid :
    Closed(l) /\ lot[l].final = p /\ lot[l].closedAt # None /\ lot[l].closedAt + KeepAge <= MaxTime
      ~> \/ \E i \in DOMAIN sales[l] : sales[l][i] = p
         \/ Closed(l) /\ lot[l].purchased /\ lot[l].final = p
=============================================================================
