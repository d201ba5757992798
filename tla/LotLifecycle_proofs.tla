------------------------- MODULE LotLifecycle_proofs -------------------------
(***************************************************************************)
(* Proofs about LotLifecycle, for any lots, distillers, ages and bounds:   *)
(*   TypeCorrect      Spec => []TypeOK                                     *)
(*   HammerPriceKept  Spec => []HammerPrice                                *)
(*   NoEarlyClose     Spec => []EarlyCloseExplained                        *)
(*   CountsOnce       Spec => []CountedOnce                                *)
(*   WatchedIsKept    Spec => KeptWhileWatched                             *)
(* The first part says of each step what it does to the rows; the rest     *)
(* uses only that.                                                         *)
(***************************************************************************)
EXTENDS LotLifecycle, FiniteSetTheorems, SequenceTheorems, TLAPS

Obs == [answer : {"open", "closed", "missing"}, lot : Lots, gen : Nat,
        bid : 0..MaxBid, end : Ends \cup {None}]

\* HiBid's observations carry no end: with McDougall's auctions having none, a row
\* never becomes "extended".
NoEndSeen == obs # NoObs /\ obs.lot \in Hibid => obs.end = None

TypeInv == TypeOK /\ NoEndSeen

-----------------------------------------------------------------------------
(* What the steps do to a row.                                             *)

LEMMA AbsentRow ==
  ASSUME NEW g \in Nat
  PROVE  Absent(g) \in Row
  BY LotLifecycleAssumption DEF Absent, Row, None, NoBid

\* A row is touched by an observation of it: closed if it was not, and priced.
LEMMA ObservedRow ==
  ASSUME TypeInv, obs # NoObs, NEW row \in Row
  PROVE  LET n == Observed(row, obs)
             over == obs.answer # "open" /\ row.status # "closed"
         IN  /\ n \in Row /\ n.gen = row.gen /\ n.end = row.end
             /\ n.watched = row.watched /\ n.purchased = row.purchased
             /\ n.bid = IF obs.bid = NoBid THEN row.bid ELSE obs.bid
             /\ n.status = IF over THEN "closed" ELSE row.status
             /\ n.closedAt = IF over THEN clock ELSE row.closedAt
             /\ n.final = IF ~over THEN row.final
                          ELSE IF obs.answer = "closed" THEN obs.bid ELSE row.bid
<1>1. obs \in Obs /\ (obs.lot \in Hibid => obs.end = None) /\ clock \in 0..MaxTime
  BY DEF TypeInv, TypeOK, NoEndSeen, Obs
<1>2. ~(AuctionEnd(obs.lot) # None /\ obs.end # None /\ obs.end > AuctionEnd(obs.lot))
  BY <1>1 DEF AuctionEnd
<1>3. CASE obs.answer # "open" /\ row.status # "closed"
  <2>1. Observed(row, obs)
          = [row EXCEPT !.bid = IF obs.bid = NoBid THEN row.bid ELSE obs.bid,
                        !.status = "closed", !.closedAt = clock,
                        !.final = IF obs.answer = "closed" THEN obs.bid ELSE row.bid]
    BY <1>1, <1>3 DEF Observed, Obs
  <2>2. /\ Observed(row, obs).gen = row.gen /\ Observed(row, obs).watched = row.watched
        /\ Observed(row, obs).purchased = row.purchased
        /\ Observed(row, obs).end = row.end /\ Observed(row, obs).status = "closed"
        /\ Observed(row, obs).bid = (IF obs.bid = NoBid THEN row.bid ELSE obs.bid)
        /\ Observed(row, obs).closedAt = clock
        /\ Observed(row, obs).final = (IF obs.answer = "closed" THEN obs.bid ELSE row.bid)
    BY <2>1 DEF Row
  <2>3. Observed(row, obs) \in Row
    BY <1>1, <2>1 DEF Row, Obs
  <2>4. QED
    BY <1>3, <2>2, <2>3
<1>4. CASE ~(obs.answer # "open" /\ row.status # "closed")
  <2>1. Observed(row, obs)
          = [row EXCEPT !.bid = IF obs.bid = NoBid THEN row.bid ELSE obs.bid,
                        !.status = row.status]
    BY <1>1, <1>2, <1>4 DEF Observed, Obs
  <2>2. QED
    BY <1>1, <1>4, <2>1 DEF Row, Obs
<1>5. QED
  BY <1>3, <1>4

LEMMA WriteStep ==
  ASSUME TypeInv, Write
  PROVE  /\ obs \in Obs /\ lot' \in [Lots -> Row]
         /\ \A l \in Lots \ {obs.lot} : lot'[l] = lot[l]
         /\ \/ lot'[obs.lot] = lot[obs.lot]
            \/ /\ lot[obs.lot].status # "absent" /\ lot[obs.lot].gen = obs.gen
               /\ lot'[obs.lot] = Observed(lot[obs.lot], obs)
<1>1. obs \in Obs /\ obs # NoObs /\ lot \in [Lots -> Row]
  BY DEF Write, TypeInv, TypeOK, Obs
<1>2. obs.lot \in Lots /\ lot[obs.lot] \in Row
  BY <1>1 DEF Obs
<1>3. Observed(lot[obs.lot], obs) \in Row
  BY <1>1, <1>2, ObservedRow
<1>4. QED
  BY <1>1, <1>2, <1>3 DEF Write

\* The ingester inserts a row, or refreshes its end and row id.
LEMMA IngestStep ==
  ASSUME TypeInv, NEW l \in Lots, Ingest(l)
  PROVE  /\ lot' \in [Lots -> Row]
         /\ \A k \in Lots \ {l} : lot'[k] = lot[k]
         /\ lot[l].status = "absent" =>
              /\ lot'[l].gen = lot[l].gen + 1 /\ lot'[l].status \in {"open", "closed"}
              /\ (lot'[l].status = "closed" => site[l].state = "closed")
              /\ lot'[l].closedAt = None /\ lot'[l].bid = NoBid /\ lot'[l].final = NoBid
              /\ lot'[l].watched = FALSE
         /\ lot[l].status # "absent" =>
              /\ lot'[l].gen = lot[l].gen /\ lot'[l].status = lot[l].status
              /\ lot'[l].closedAt = lot[l].closedAt /\ lot'[l].bid = lot[l].bid
              /\ lot'[l].final = lot[l].final
              /\ lot'[l].watched = lot[l].watched /\ lot'[l].purchased = lot[l].purchased
<1>1. PICK rec \in Records(l) :
        lot' = [lot EXCEPT ![l] = IF lot[l].status = "absent" THEN InsertedRow(l, rec)
                                                             ELSE RefreshedRow(l, rec)]
  BY DEF Ingest
<1>2. lot \in [Lots -> Row] /\ lot[l] \in Row
  BY DEF TypeInv, TypeOK
<1>3. /\ rec.status \in {"open", "closed"} /\ rec.end \in Ends \cup {None}
      /\ rec.rowid \in BOOLEAN
      /\ (rec.status = "closed" => site[l].state = "closed")
  <2>1. site[l].end \in Ends \cup {None}
    BY DEF TypeInv, TypeOK
  <2>2. CASE l \in Hibid
    <3>1. PICK b \in BOOLEAN : rec = HibidRecord(l, b)
      BY <1>1, <2>2 DEF Records
    <3>2. rec.rowid \in BOOLEAN
      BY <3>1 DEF HibidRecord
    <3>3. QED
      BY <2>1, <3>1, <3>2 DEF HibidRecord
  <2>3. CASE l \notin Hibid
    <3>1. rec = McDougallRecord(l)
      BY <1>1, <2>3 DEF Records
    <3>2. QED
      BY <2>1, <3>1 DEF McDougallRecord
  <2>4. QED
    BY <2>2, <2>3
<1>4. CASE lot[l].status = "absent"
  <2> DEFINE n == InsertedRow(l, rec)
  <2>1. lot[l].gen + 1 \in Nat
    BY <1>2 DEF Row
  <2> DEFINE a == Absent(lot[l].gen + 1)
  <2>2. /\ a \in Row /\ a.gen = lot[l].gen + 1
        /\ a.closedAt = None /\ a.bid = NoBid /\ a.final = NoBid /\ a.watched = FALSE
    <3>1. a \in Row
      BY <2>1, AbsentRow
    <3>2. QED
      BY <3>1 DEF Absent
  <2>3. n = [a EXCEPT !.status = rec.status, !.end = rec.end, !.rowid = rec.rowid]
    BY DEF InsertedRow
  <2> HIDE DEF a, n
  <2>4. /\ n \in Row
        /\ n.gen = lot[l].gen + 1 /\ n.status = rec.status
        /\ n.closedAt = None /\ n.bid = NoBid /\ n.final = NoBid /\ n.watched = FALSE
    BY <1>3, <2>2, <2>3 DEF Row
  <2>5. lot' = [lot EXCEPT ![l] = n]
    BY <1>1, <1>4 DEF n
  <2>6. lot'[l] = n /\ lot' \in [Lots -> Row] /\ \A k \in Lots \ {l} : lot'[k] = lot[k]
    BY <1>2, <2>4, <2>5
  <2>7. QED
    BY <1>3, <1>4, <2>4, <2>6
<1>5. CASE lot[l].status # "absent"
  <2> DEFINE e == IF rec.end = None THEN lot[l].end ELSE rec.end
             n == [lot[l] EXCEPT !.end = e, !.rowid = rec.rowid]
  <2>1. e \in Ends \cup {None}
    BY <1>2, <1>3 DEF Row
  <2>2. lot' = [lot EXCEPT ![l] = n]
    BY <1>1, <1>5 DEF RefreshedRow
  <2> HIDE DEF e
  <2>3. /\ n \in Row
        /\ n.gen = lot[l].gen /\ n.status = lot[l].status
        /\ n.closedAt = lot[l].closedAt /\ n.bid = lot[l].bid
        /\ n.final = lot[l].final
        /\ n.watched = lot[l].watched /\ n.purchased = lot[l].purchased
    BY <1>2, <1>3, <2>1 DEF Row
  <2> HIDE DEF n
  <2>4. lot'[l] = n /\ lot' \in [Lots -> Row] /\ \A k \in Lots \ {l} : lot'[k] = lot[k]
    BY <1>2, <2>2, <2>3
  <2>5. QED
    BY <1>5, <2>3, <2>4
<1>6. QED
  BY <1>4, <1>5

\* The poller closes open rows by force, and makes references to open rows only.
LEMMA LoadStep ==
  ASSUME TypeInv, PollerLoad
  PROVE  /\ lot' \in [Lots -> Row] /\ todo' \in [fast : SUBSET Ref, slow : SUBSET Ref]
         /\ misled \subseteq misled' /\ misled' \subseteq Lots
         /\ \A l \in Lots :
              \/ lot'[l] = lot[l]
              \/ /\ lot[l].status = "open" /\ Forceable(l)
                 /\ lot[l].end = site[l].end \/ l \in misled'
                 /\ lot'[l].status = "force_closed" /\ lot'[l].final = lot[l].bid
                 /\ lot'[l].gen = lot[l].gen /\ lot'[l].bid = lot[l].bid
                 /\ lot'[l].closedAt = clock /\ lot'[l].watched = lot[l].watched
                 /\ lot'[l].purchased = lot[l].purchased
         /\ \A r \in todo'.fast \cup todo'.slow :
              /\ lot'[r.lot] = lot[r.lot] /\ lot[r.lot].status = "open"
              /\ r.gen = lot[r.lot].gen
<1> DEFINE open == {l \in Lots : Open(l)}
<1>1. PICK B \in FirstOf(open, BatchLimit) :
        /\ ForceClose(B)
        /\ misled' = misled \cup {l \in B : Forceable(l) /\ lot[l].end # site[l].end}
        /\ \E F \in FirstOf({l \in B : Pollable(l) /\ Urgent(l)}, FastCap),
              S \in FirstOf({l \in B : Pollable(l) /\ ~Urgent(l)}, SlowCap) :
             todo' = [fast |-> Refs(F), slow |-> Refs(S)]
  BY DEF PollerLoad
<1>2. PICK F \in FirstOf({l \in B : Pollable(l) /\ Urgent(l)}, FastCap),
           S \in FirstOf({l \in B : Pollable(l) /\ ~Urgent(l)}, SlowCap) :
        todo' = [fast |-> Refs(F), slow |-> Refs(S)]
  BY <1>1
<1>3. /\ lot \in [Lots -> Row] /\ clock \in 0..MaxTime /\ misled \subseteq Lots
  BY DEF TypeInv, TypeOK
<1>4. B \subseteq open /\ B \subseteq Lots
  BY <1>1 DEF FirstOf
<1>5. F \subseteq B /\ S \subseteq B /\ \A l \in F \cup S : Pollable(l) /\ ~Forceable(l)
  BY <1>2 DEF FirstOf, Pollable
<1>6. \A l \in B : lot[l].status = "open"
  BY <1>3, <1>4 DEF Open, Row
<1>7. ASSUME NEW l \in Lots
      PROVE  lot'[l] = IF l \in B /\ Forceable(l)
                       THEN [lot[l] EXCEPT !.status = "force_closed", !.closedAt = clock,
                                           !.final = lot[l].bid]
                       ELSE lot[l]
  BY <1>1 DEF ForceClose
<1>8. ASSUME NEW l \in Lots, l \in B, Forceable(l)
      PROVE  /\ lot'[l] \in Row
             /\ lot'[l].status = "force_closed" /\ lot'[l].final = lot[l].bid
             /\ lot'[l].gen = lot[l].gen /\ lot'[l].bid = lot[l].bid
             /\ lot'[l].closedAt = clock /\ lot'[l].watched = lot[l].watched
             /\ lot'[l].purchased = lot[l].purchased
  BY <1>3, <1>7, <1>8 DEF Row
<1>9. lot' \in [Lots -> Row]
  <2>1. \A l \in Lots : lot'[l] \in Row
    BY <1>3, <1>7, <1>8
  <2>2. QED
    BY <1>1, <2>1 DEF ForceClose
<1>10. \A r \in Refs(F) \cup Refs(S) :
         r \in Ref /\ r.lot \in F \cup S /\ r.gen = lot[r.lot].gen
  BY <1>3, <1>4, <1>5 DEF Refs, Ref, Row
<1>11. /\ todo'.fast = Refs(F) /\ todo'.slow = Refs(S)
       /\ todo' \in [fast : SUBSET Ref, slow : SUBSET Ref]
  BY <1>2, <1>10
<1>12. \A r \in todo'.fast \cup todo'.slow :
         /\ lot'[r.lot] = lot[r.lot] /\ lot[r.lot].status = "open"
         /\ r.gen = lot[r.lot].gen
  BY <1>4, <1>5, <1>6, <1>7, <1>10, <1>11
<1>13. QED
  BY <1>1, <1>3, <1>4, <1>6, <1>7, <1>8, <1>9, <1>11, <1>12

\* Marking a row changes its marks, and notes the lots on a distiller's list.
LEMMA MarkStep ==
  ASSUME TypeInv, NEW l \in Lots, Mark(l) \/ Purchase(l)
  PROVE  /\ lot' \in [Lots -> Row] /\ late' \in {late, late \cup {l}}
         /\ \A k \in Lots \ {l} : lot'[k] = lot[k]
         /\ lot[l].status # "absent"
         /\ lot'[l].gen = lot[l].gen /\ lot'[l].status = lot[l].status
         /\ lot'[l].closedAt = lot[l].closedAt /\ lot'[l].bid = lot[l].bid
         /\ lot'[l].final = lot[l].final
         /\ surprises' \in 0..MaxSurprises
<1>1. lot \in [Lots -> Row] /\ lot[l] \in Row
  BY DEF TypeInv, TypeOK
<1>2. PICK row \in {[lot[l] EXCEPT !.watched = ~@], [lot[l] EXCEPT !.purchased = TRUE]} : Sets(l, row)
  BY DEF Mark, Purchase
<1>3. /\ row \in Row /\ row.gen = lot[l].gen /\ row.status = lot[l].status
      /\ row.closedAt = lot[l].closedAt /\ row.bid = lot[l].bid /\ row.final = lot[l].final
  BY <1>1 DEF Row
<1>4. lot' = [lot EXCEPT ![l] = row]
  BY <1>2 DEF Sets
<1>5. lot'[l] = row /\ lot' \in [Lots -> Row] /\ \A k \in Lots \ {l} : lot'[k] = lot[k]
  BY <1>1, <1>3, <1>4
<1>6. surprises' \in 0..MaxSurprises
  BY <1>2, LotLifecycleAssumption DEF Sets, Surprise, TypeInv, TypeOK
<1>7. lot[l].status # "absent" /\ late' \in {late, late \cup {l}}
  BY <1>2 DEF Sets
<1>8. QED
  BY <1>3, <1>5, <1>6, <1>7

\* A sale is recorded of the row held; the row is deleted, if it is there.
LEMMA DistillStep ==
  ASSUME TypeInv, NEW d \in Distillers, Distill(d)
  PROVE  LET h == dist[d].held
             there == lot[h.lot].gen = h.gen /\ lot[h.lot].status # "absent"
         IN  /\ h \in [lot : Lots, gen : Nat, final : 0..MaxBid] /\ h # NoRow
             /\ lot' \in [Lots -> Row] /\ sales' \in [Lots -> Seq(0..MaxBid)]
             /\ \A k \in Lots \ {h.lot} : lot'[k] = lot[k] /\ sales'[k] = sales[k]
             /\ sales'[h.lot] = Append(sales[h.lot], h.final)
             /\ IF there THEN lot'[h.lot] = Absent(h.gen) /\ doubled' = doubled
                ELSE lot'[h.lot] = lot[h.lot] /\ doubled' = doubled \cup {h.lot}
             /\ dist' = [dist EXCEPT ![d] = [todo |-> dist[d].todo, held |-> NoRow]]
<1> DEFINE h == dist[d].held
           there == lot[h.lot].gen = h.gen /\ lot[h.lot].status # "absent"
<1>1. /\ lot \in [Lots -> Row] /\ sales \in [Lots -> Seq(0..MaxBid)]
      /\ dist[d] \in [todo : SUBSET (Lots \X Nat),
                      held : {NoRow} \cup [lot : Lots, gen : Nat, final : 0..MaxBid]]
      /\ dist \in [Distillers -> [todo : SUBSET (Lots \X Nat),
                      held : {NoRow} \cup [lot : Lots, gen : Nat, final : 0..MaxBid]]]
  BY DEF TypeInv, TypeOK
<1>2. h \in [lot : Lots, gen : Nat, final : 0..MaxBid] /\ h # NoRow
  BY <1>1 DEF Distill
<1>3. /\ sales' = [sales EXCEPT ![h.lot] = Append(sales[h.lot], h.final)]
      /\ lot' = IF there THEN [lot EXCEPT ![h.lot] = Absent(h.gen)] ELSE lot
      /\ doubled' = IF there THEN doubled ELSE doubled \cup {h.lot}
      /\ dist' = [dist EXCEPT ![d] = [dist[d] EXCEPT !.held = NoRow]]
  BY DEF Distill, Recorded, Released
<1>4. [dist[d] EXCEPT !.held = NoRow] = [todo |-> dist[d].todo, held |-> NoRow]
  BY <1>1
<1>5. Absent(h.gen) \in Row
  BY <1>2, AbsentRow
<1>6. Append(sales[h.lot], h.final) \in Seq(0..MaxBid)
  BY <1>1, <1>2
<1> HIDE DEF h
<1>7. lot' \in [Lots -> Row] /\ sales' \in [Lots -> Seq(0..MaxBid)]
  BY <1>1, <1>2, <1>3, <1>5, <1>6
<1>8. /\ \A k \in Lots \ {h.lot} : lot'[k] = lot[k] /\ sales'[k] = sales[k]
      /\ sales'[h.lot] = Append(sales[h.lot], h.final)
      /\ IF there THEN lot'[h.lot] = Absent(h.gen) /\ doubled' = doubled
         ELSE lot'[h.lot] = lot[h.lot] /\ doubled' = doubled \cup {h.lot}
  BY <1>1, <1>2, <1>3
<1>9. QED
  BY <1>2, <1>3, <1>4, <1>7, <1>8 DEF h

\* The same, with the lot, its row's number and the price named.
LEMMA DistillEffect ==
  ASSUME TypeInv, NEW d \in Distillers, Distill(d)
  PROVE  \E l \in Lots, g \in Nat, p \in 0..MaxBid :
           /\ dist[d].held # NoRow /\ dist[d].held.lot = l
           /\ dist[d].held.gen = g /\ dist[d].held.final = p
           /\ \A k \in Lots \ {l} : lot'[k] = lot[k] /\ sales'[k] = sales[k]
           /\ sales'[l] = Append(sales[l], p)
           /\ \/ /\ lot[l].gen = g /\ lot[l].status # "absent"
                 /\ lot'[l].gen = g /\ lot'[l].status = "absent"
                 /\ lot'[l].bid = 0 /\ lot'[l].final = 0
                 /\ doubled' = doubled
              \/ /\ ~(lot[l].gen = g /\ lot[l].status # "absent")
                 /\ lot'[l] = lot[l] /\ doubled' = doubled \cup {l}
<1> DEFINE h == dist[d].held
           there == lot[h.lot].gen = h.gen /\ lot[h.lot].status # "absent"
<1>1. /\ h \in [lot : Lots, gen : Nat, final : 0..MaxBid] /\ h # NoRow
      /\ \A k \in Lots \ {h.lot} : lot'[k] = lot[k] /\ sales'[k] = sales[k]
      /\ sales'[h.lot] = Append(sales[h.lot], h.final)
      /\ IF there THEN lot'[h.lot] = Absent(h.gen) /\ doubled' = doubled
         ELSE lot'[h.lot] = lot[h.lot] /\ doubled' = doubled \cup {h.lot}
  BY DistillStep, Zenon
<1>2. h.lot \in Lots /\ h.gen \in Nat /\ h.final \in 0..MaxBid
  BY <1>1
<1>3. /\ Absent(h.gen).gen = h.gen /\ Absent(h.gen).status = "absent"
      /\ Absent(h.gen).bid = 0 /\ Absent(h.gen).final = 0
  BY DEF Absent, NoBid
<1> HIDE DEF h
<1>4. there => /\ lot'[h.lot].gen = h.gen /\ lot'[h.lot].status = "absent"
               /\ lot'[h.lot].bid = 0 /\ lot'[h.lot].final = 0
  BY <1>1, <1>3
<1>5. QED
  BY <1>1, <1>2, <1>4 DEF h

\* The source only adds to a bid, and only while the lot is open; it moves an end that
\* has not passed, and what is closed or gone does not open again.
LEMMA SiteStep ==
  ASSUME TypeInv, NEW l \in Lots, SiteBid(l) \/ SiteClose(l) \/ SiteMove(l) \/ SiteDrop(l)
  PROVE  /\ site' \in [Lots -> [state : {"open", "closed", "gone"}, end : Ends \cup {None},
                                bid : 0..MaxBid]]
         /\ \A k \in Lots :
              /\ site'[k].bid >= site[k].bid
              /\ site[k].state # "open" => site'[k].state # "open" /\ site'[k].bid = site[k].bid
              /\ site[k].state = "gone" => site'[k].state = "gone"
              /\ site'[k].end = site[k].end \/ clock <= site[k].end
         /\ surprises' \in 0..MaxSurprises
         /\ UNCHANGED <<clock, lot, sales, todo, obs, dist, history>>
<1> DEFINE Site == [state : {"open", "closed", "gone"}, end : Ends \cup {None}, bid : 0..MaxBid]
<1>1. /\ site \in [Lots -> Site] /\ site[l] \in Site /\ surprises \in 0..MaxSurprises
      /\ MaxBid \in Nat /\ MaxSurprises \in Nat
  BY LotLifecycleAssumption DEF TypeInv, TypeOK
<1>2. ASSUME NEW s \in Site, SiteSets(l, s), s.bid >= site[l].bid,
             site[l].state # "open" => s.state # "open" /\ s.bid = site[l].bid,
             site[l].state = "gone" => s.state = "gone",
             s.end = site[l].end \/ clock <= site[l].end
      PROVE  /\ site' \in [Lots -> Site]
             /\ \A k \in Lots :
                  /\ site'[k].bid >= site[k].bid
                  /\ site[k].state # "open" => site'[k].state # "open" /\ site'[k].bid = site[k].bid
                  /\ site[k].state = "gone" => site'[k].state = "gone"
                  /\ site'[k].end = site[k].end \/ clock <= site[k].end
             /\ UNCHANGED <<clock, lot, sales, todo, obs, dist, history>>
  <2>1. site' = [site EXCEPT ![l] = s]
    BY <1>2 DEF SiteSets
  <2>2. \A k \in Lots : site'[k] = IF k = l THEN s ELSE site[k]
    BY <1>1, <2>1
  <2>3. \A k \in Lots : site[k].bid >= site[k].bid
    BY <1>1
  <2>4. QED
    BY <1>1, <1>2, <2>1, <2>2, <2>3 DEF SiteSets
<1>3. CASE SiteBid(l)
  <2>1. [site[l] EXCEPT !.bid = site[l].bid + 1] \in Site
    BY <1>1, <1>3 DEF SiteBid
  <2>2. SiteSets(l, [site[l] EXCEPT !.bid = site[l].bid + 1])
    BY <1>3 DEF SiteBid
  <2>3. QED
    BY <1>1, <1>2, <1>3, <2>1, <2>2 DEF SiteBid
<1>4. CASE SiteClose(l)
  <2>1. [site[l] EXCEPT !.state = "closed"] \in Site
    BY <1>1
  <2>2. SiteSets(l, [site[l] EXCEPT !.state = "closed"]) /\ surprises' = surprises
    BY <1>4 DEF SiteClose
  <2>3. QED
    BY <1>1, <1>2, <1>4, <2>1, <2>2 DEF SiteClose
<1>5. CASE SiteMove(l)
  <2>1. PICK e \in Ends : e > site[l].end /\ SiteSets(l, [site[l] EXCEPT !.end = e])
    BY <1>5 DEF SiteMove
  <2>2. [site[l] EXCEPT !.end = e] \in Site
    BY <1>1
  <2>3. surprises' \in 0..MaxSurprises
    BY <1>1, <1>5 DEF SiteMove, Surprise
  <2>4. QED
    BY <1>1, <1>2, <1>5, <2>1, <2>2, <2>3 DEF SiteMove
<1>6. CASE SiteDrop(l)
  <2>1. [site[l] EXCEPT !.state = "gone"] \in Site
    BY <1>1
  <2>2. SiteSets(l, [site[l] EXCEPT !.state = "gone"])
    BY <1>6 DEF SiteDrop
  <2>3. surprises' \in 0..MaxSurprises
    BY <1>1, <1>6 DEF SiteDrop, Surprise
  <2>4. QED
    BY <1>1, <1>2, <1>6, <2>1, <2>2, <2>3 DEF SiteDrop
<1>7. QED
  BY <1>3, <1>4, <1>5, <1>6

\* Polling takes a reference and, when there is an answer, observes what the source
\* says of the lot now; only the glitch misleads.
LEMMA AskStep ==
  ASSUME TypeInv, NEW r \in todo.fast \cup todo.slow, Ask(r) \/ AskFails(r) \/ AskGlitch(r)
  PROVE  /\ todo' \in [fast : SUBSET Ref, slow : SUBSET Ref]
         /\ todo'.fast \subseteq todo.fast /\ todo'.slow \subseteq todo.slow
         /\ r \in Ref /\ misled \subseteq misled' /\ misled' \subseteq Lots
         /\ \/ obs' = obs
            \/ /\ obs' \in Obs /\ obs'.lot = r.lot /\ obs'.gen = r.gen
               /\ obs'.lot \in Hibid => obs'.end = None
               /\ obs'.bid <= site[r.lot].bid
               /\ obs'.answer = "closed" => site[r.lot].state = "closed" /\ obs'.bid = site[r.lot].bid
               /\ obs'.answer = "missing" => site[r.lot].state = "gone" \/ r.lot \in misled'
         /\ surprises' \in 0..MaxSurprises
         /\ UNCHANGED <<clock, site, lot, sales, dist, again, doubled, late>>
<1>1. /\ todo \in [fast : SUBSET Ref, slow : SUBSET Ref] /\ r \in Ref
      /\ site \in [Lots -> [state : {"open", "closed", "gone"}, end : Ends \cup {None},
                            bid : 0..MaxBid]]
      /\ misled \subseteq Lots /\ surprises \in 0..MaxSurprises
      /\ MaxSurprises \in Nat /\ MaxBid \in Nat
  BY LotLifecycleAssumption DEF TypeInv, TypeOK
<1>2. r.lot \in Lots /\ r.gen \in Nat
  BY <1>1 DEF Ref
<1>3. /\ site[r.lot].state \in {"open", "closed", "gone"}
      /\ site[r.lot].end \in Ends \cup {None} /\ site[r.lot].bid \in 0..MaxBid
  BY <1>1, <1>2
<1>4. /\ todo' \in [fast : SUBSET Ref, slow : SUBSET Ref]
      /\ todo'.fast \subseteq todo.fast /\ todo'.slow \subseteq todo.slow
  BY <1>1 DEF Ask, AskFails, AskGlitch, TakeRef
<1>5. CASE Ask(r)
  <2>1. /\ Answer(r) \in Obs /\ Answer(r).lot = r.lot /\ Answer(r).gen = r.gen
        /\ Answer(r).lot \in Hibid => Answer(r).end = None
        /\ Answer(r).bid <= site[r.lot].bid
        /\ Answer(r).answer = "closed"
             => site[r.lot].state = "closed" /\ Answer(r).bid = site[r.lot].bid
        /\ Answer(r).answer = "missing" => site[r.lot].state = "gone"
    BY <1>1, <1>2, <1>3 DEF Answer, HibidAnswer, McDougallAnswer, Observation, Obs, NoBid
  <2>2. QED
    BY <1>1, <1>4, <1>5, <2>1 DEF Ask, history
<1>6. CASE AskFails(r)
  BY <1>1, <1>4, <1>6 DEF AskFails, Surprise, history
<1>7. CASE AskGlitch(r)
  <2>1. /\ obs' \in Obs /\ obs'.lot = r.lot /\ obs'.gen = r.gen /\ obs'.end = None
        /\ obs'.answer = "missing" /\ obs'.bid <= site[r.lot].bid
    BY <1>1, <1>2, <1>3, <1>7 DEF AskGlitch, Observation, Obs, NoBid
  <2>2. misled' = misled \cup {r.lot} /\ surprises' \in 0..MaxSurprises
    BY <1>1, <1>7 DEF AskGlitch, Surprise
  <2>3. QED
    BY <1>1, <1>2, <1>4, <1>7, <2>1, <2>2 DEF AskGlitch
<1>8. QED
  BY <1>5, <1>6, <1>7

\* What a distiller's list and its row in hand may be.
Dist == [todo : SUBSET (Lots \X Nat),
         held : {NoRow} \cup [lot : Lots, gen : Nat, final : 0..MaxBid]]

\* The rows a distiller has selected and not yet recorded.
Listed(x) == x.todo \cup (IF x.held = NoRow THEN {} ELSE {<<x.held.lot, x.held.gen>>})

\* A distiller's list grows only by selecting rows that are distillable, and what it
\* holds is the price of the row.
LEMMA DistStep ==
  ASSUME TypeInv, NEW d \in Distillers, Select(d) \/ LoadLot(d) \/ DistillFails(d)
  PROVE  /\ dist' \in [Distillers -> Dist]
         /\ \A e \in Distillers \ {d} : dist'[e] = dist[e]
         /\ \A c \in Listed(dist'[d]) :
              \/ c \in Listed(dist[d])
              \/ \E l \in Lots : Distillable(l) /\ c = <<l, lot[l].gen>>
         /\ dist'[d].held # NoRow => \/ dist'[d].held = dist[d].held
                                     \/ dist'[d].held.final = lot[dist'[d].held.lot].final
         /\ surprises' \in 0..MaxSurprises
         /\ UNCHANGED <<clock, site, lot, sales, todo, obs, history>>
<1>1. /\ dist \in [Distillers -> Dist] /\ dist[d] \in Dist /\ lot \in [Lots -> Row]
      /\ surprises \in 0..MaxSurprises /\ MaxSurprises \in Nat
  BY LotLifecycleAssumption DEF TypeInv, TypeOK, Dist
<1>2. ASSUME NEW x \in Dist, dist' = [dist EXCEPT ![d] = x]
      PROVE  /\ dist' \in [Distillers -> Dist] /\ dist'[d] = x
             /\ \A e \in Distillers \ {d} : dist'[e] = dist[e]
  BY <1>1, <1>2
<1>3. CASE Select(d)
  <2> DEFINE ids == {<<l, lot[l].gen>> : l \in {k \in Lots : Distillable(k)}}
             x == [dist[d] EXCEPT !.todo = ids]
  <2>1. ids \in SUBSET (Lots \X Nat)
    BY <1>1 DEF Row
  <2>2. \A c \in ids : \E l \in Lots : Distillable(l) /\ c = <<l, lot[l].gen>>
    OBVIOUS
  <2>3. dist[d] = Idle /\ dist' = [dist EXCEPT ![d] = x] /\ surprises' \in 0..MaxSurprises
    BY <1>1, <1>3 DEF Select, Surprise
  <2> HIDE DEF ids
  <2>4. x \in Dist /\ x.held = NoRow /\ x.todo = ids
    BY <1>1, <2>1, <2>3 DEF Dist, Idle
  <2> HIDE DEF x
  <2>5. Listed(x) = ids
    BY <2>4 DEF Listed
  <2>6. dist'[d] = x
    BY <1>2, <2>3, <2>4
  <2>7. QED
    BY <1>2, <1>3, <2>2, <2>3, <2>4, <2>5, <2>6 DEF Select
<1>4. CASE LoadLot(d)
  <2>1. dist[d].held = NoRow
    BY <1>4 DEF LoadLot
  <2>2. PICK c \in dist[d].todo :
          dist' = [dist EXCEPT ![d] =
                     [todo |-> dist[d].todo \ {c},
                      held |-> IF lot[c[1]].status # "absent" /\ lot[c[1]].gen = c[2]
                               THEN [lot |-> c[1], gen |-> c[2], final |-> lot[c[1]].final]
                               ELSE NoRow]]
    BY <1>4 DEF LoadLot
  <2>3. c \in Lots \X Nat /\ c = <<c[1], c[2]>> /\ lot[c[1]] \in Row
    BY <1>1 DEF Dist
  <2> DEFINE h == IF lot[c[1]].status # "absent" /\ lot[c[1]].gen = c[2]
                  THEN [lot |-> c[1], gen |-> c[2], final |-> lot[c[1]].final] ELSE NoRow
             x == [todo |-> dist[d].todo \ {c}, held |-> h]
  <2>4. /\ h \in {NoRow} \cup [lot : Lots, gen : Nat, final : 0..MaxBid]
        /\ h # NoRow => h.lot = c[1] /\ h.gen = c[2] /\ h.final = lot[c[1]].final
    BY <2>3 DEF Row
  <2> HIDE DEF h
  <2>5. x \in Dist /\ x.held = h /\ x.todo = dist[d].todo \ {c}
    BY <1>1, <2>4 DEF Dist
  <2>6. dist' = [dist EXCEPT ![d] = x]
    BY <2>2 DEF h
  <2> HIDE DEF x
  <2>7. dist'[d] = x
    BY <1>2, <2>5, <2>6
  <2>8. Listed(x) \subseteq Listed(dist[d])
    BY <2>3, <2>4, <2>5 DEF Listed
  <2>9. QED
    BY <1>1, <1>2, <1>4, <2>4, <2>5, <2>6, <2>7, <2>8 DEF LoadLot
<1>5. CASE DistillFails(d)
  <2>1. dist' = [dist EXCEPT ![d] = [dist[d] EXCEPT !.held = NoRow]]
          \/ dist' = [dist EXCEPT ![d] = Idle]
    BY <1>5 DEF DistillFails, Released
  <2>2. /\ [dist[d] EXCEPT !.held = NoRow] \in Dist
        /\ [dist[d] EXCEPT !.held = NoRow].held = NoRow
        /\ [dist[d] EXCEPT !.held = NoRow].todo = dist[d].todo
    BY <1>1 DEF Dist
  <2>3. Idle \in Dist /\ Idle.held = NoRow /\ Idle.todo = {}
    BY DEF Idle, Dist
  <2>4. PICK x \in Dist : dist' = [dist EXCEPT ![d] = x] /\ x.held = NoRow /\ x.todo \subseteq dist[d].todo
    BY <2>1, <2>2, <2>3
  <2>5. dist'[d] = x /\ Listed(x) \subseteq Listed(dist[d])
    BY <1>2, <2>4 DEF Listed
  <2>6. surprises' \in 0..MaxSurprises
    BY <1>1, <1>5 DEF DistillFails, Surprise
  <2>7. QED
    BY <1>2, <1>5, <2>4, <2>5, <2>6 DEF DistillFails
<1>6. QED
  BY <1>3, <1>4, <1>5

-----------------------------------------------------------------------------
(* The types.                                                              *)

LEMMA TypeInit == Init => TypeInv
<1> SUFFICES ASSUME Init PROVE TypeInv
  OBVIOUS
<1>1. site \in [Lots -> [state : {"open", "closed", "gone"}, end : Ends \cup {None}, bid : 0..MaxBid]]
  <2>1. [state : {"open"}, end : FirstEnds \cup {None}, bid : {NoBid}]
          \subseteq [state : {"open", "closed", "gone"}, end : Ends \cup {None}, bid : 0..MaxBid]
    BY LotLifecycleAssumption DEF NoBid
  <2>2. QED
    BY <2>1 DEF Init
<1>2. lot \in [Lots -> Row]
  BY AbsentRow DEF Init
<1>3. sales \in [Lots -> Seq(0..MaxBid)]
  BY DEF Init
<1>4. dist \in [Distillers -> [todo : SUBSET (Lots \X Nat),
                held : {NoRow} \cup [lot : Lots, gen : Nat, final : 0..MaxBid]]]
  BY DEF Init, Idle
<1>5. todo \in [fast : SUBSET Ref, slow : SUBSET Ref] /\ obs = NoObs
  BY DEF Init, NoRefs
<1>6. QED
  <2>1. clock \in 0..MaxTime /\ surprises \in 0..MaxSurprises
    BY LotLifecycleAssumption DEF Init
  <2>2. misled \subseteq Lots /\ again \subseteq Lots /\ doubled \subseteq Lots /\ late \subseteq Lots
    BY DEF Init
  <2>3. QED
    BY <1>1, <1>2, <1>3, <1>4, <1>5, <2>1, <2>2, Zenon DEF TypeInv, TypeOK, NoEndSeen

LEMMA TypeStep == TypeInv /\ [Next]_vars => TypeInv'
<1> SUFFICES ASSUME TypeInv, [Next]_vars PROVE TypeInv'
  OBVIOUS
<1>0. clock \in 0..MaxTime /\ late \subseteq Lots /\ surprises \in 0..MaxSurprises
  BY DEF TypeInv, TypeOK
<1> USE DEF TypeInv
<1>1. CASE UNCHANGED vars
  BY <1>1 DEF vars, history, TypeOK, NoEndSeen
<1>2. CASE Tick
  <2>1. clock' \in 0..MaxTime
    BY <1>0, <1>2, LotLifecycleAssumption DEF Tick
  <2>2. QED
    BY <1>2, <2>1, Zenon DEF Tick, history, TypeOK, NoEndSeen
<1>3. ASSUME NEW l \in Lots, SiteBid(l) \/ SiteClose(l) \/ SiteMove(l) \/ SiteDrop(l)
      PROVE  TypeInv'
  BY <1>3, SiteStep DEF history, TypeOK, NoEndSeen
<1>4. ASSUME NEW l \in Lots, Ingest(l) PROVE TypeInv'
  <2>1. lot' \in [Lots -> Row]
    BY <1>4, IngestStep
  <2>2. surprises' \in 0..MaxSurprises
    BY <1>0, <1>4, LotLifecycleAssumption DEF Ingest, Surprise
  <2>3. QED
    BY <1>4, <2>1, <2>2 DEF Ingest, TypeOK, NoEndSeen
<1>5. ASSUME NEW l \in Lots, Mark(l) \/ Purchase(l) PROVE TypeInv'
  <2>1. /\ lot' \in [Lots -> Row] /\ late' \in {late, late \cup {l}}
        /\ surprises' \in 0..MaxSurprises
    BY <1>5, MarkStep
  <2>2. UNCHANGED <<clock, site, sales, todo, obs, dist, misled, again, doubled>>
    BY <1>5 DEF Mark, Purchase, Sets
  <2>3. QED
    <3>1. late' \subseteq Lots
      BY <1>0, <2>1
    <3>2. QED
      BY <2>1, <2>2, <3>1, Zenon DEF TypeOK, NoEndSeen
<1>6. CASE PollerLoad
  BY <1>6, LoadStep DEF PollerLoad, TypeOK, NoEndSeen
<1>7. CASE Write
  BY <1>7, WriteStep DEF Write, history, TypeOK, NoEndSeen
<1>8. CASE PollerCrash
  <2>1. surprises' \in 0..MaxSurprises /\ NoRefs \in [fast : SUBSET Ref, slow : SUBSET Ref]
    BY <1>8, LotLifecycleAssumption DEF PollerCrash, Surprise, TypeOK, NoRefs
  <2>2. QED
    BY <1>8, <2>1 DEF PollerCrash, history, TypeOK, NoEndSeen
<1>9. ASSUME NEW r \in todo.fast \cup todo.slow, Ask(r) \/ AskFails(r) \/ AskGlitch(r)
      PROVE  TypeInv'
  BY <1>9, AskStep DEF TypeOK, NoEndSeen, Obs
<1>10. ASSUME NEW d \in Distillers, Select(d) \/ LoadLot(d) \/ DistillFails(d)
       PROVE  TypeInv'
  BY <1>10, DistStep DEF history, TypeOK, NoEndSeen, Dist
<1>11. ASSUME NEW d \in Distillers, Distill(d) PROVE TypeInv'
  <2>1. /\ lot' \in [Lots -> Row] /\ sales' \in [Lots -> Seq(0..MaxBid)]
        /\ dist[d].held.lot \in Lots /\ doubled' \in {doubled, doubled \cup {dist[d].held.lot}}
        /\ dist' = [dist EXCEPT ![d] = [todo |-> dist[d].todo, held |-> NoRow]]
    BY <1>11, DistillStep
  <2>2. [todo |-> dist[d].todo, held |-> NoRow]
          \in [todo : SUBSET (Lots \X Nat),
               held : {NoRow} \cup [lot : Lots, gen : Nat, final : 0..MaxBid]]
    BY DEF TypeOK
  <2>3. dist' \in [Distillers -> [todo : SUBSET (Lots \X Nat),
                     held : {NoRow} \cup [lot : Lots, gen : Nat, final : 0..MaxBid]]]
    BY <2>1, <2>2 DEF TypeOK
  <2>4. QED
    BY <1>11, <2>1, <2>3 DEF Distill, TypeOK, NoEndSeen
<1>12. QED
  BY <1>1, <1>2, <1>3, <1>4, <1>5, <1>6, <1>7, <1>8, <1>9, <1>10, <1>11
     DEF Next, Environment, Poller, Distiller

\* Every state is of its type; the status is never "extended", whichever source a lot
\* comes from.
THEOREM TypeCorrect == Spec => []TypeOK
<1>1. TypeInv => TypeOK
  BY DEF TypeInv
<1>2. QED
  BY <1>1, TypeInit, TypeStep, PTL DEF Spec

-----------------------------------------------------------------------------
(* What is recorded of a lot is what its source has said.                  *)

\* No amount is above the lot's bid at its source, on its way from one to the other.
Priced ==
  \A l \in Lots :
    /\ lot[l].bid <= site[l].bid /\ lot[l].final <= site[l].bid
    /\ \A i \in DOMAIN sales[l] : sales[l][i] <= site[l].bid

HeldPriced ==
  \A d \in Distillers :
    dist[d].held # NoRow => dist[d].held.final <= site[dist[d].held.lot].bid

\* An answer that a lot is over is still true when it is written, with its price.
ObsTrue ==
  obs # NoObs =>
    /\ obs.bid <= site[obs.lot].bid
    /\ obs.answer = "closed" => site[obs.lot].state # "open" /\ obs.bid = site[obs.lot].bid
    /\ obs.answer = "missing" => site[obs.lot].state = "gone" \/ obs.lot \in misled

CloseTrue ==
  \A l \in Lots :
    /\ lot[l].status = "closed" /\ site[l].state = "open" => l \in misled
    /\ lot[l].status = "force_closed" /\ site[l].state = "open" =>
         l \in misled \/ (site[l].end # None /\ clock > site[l].end + ForceAge)
    /\ lot[l].status = "closed" /\ lot[l].closedAt # None /\ site[l].state = "closed"
         => l \in misled \/ lot[l].final = site[l].bid

SaleInv == Priced /\ HeldPriced /\ ObsTrue /\ CloseTrue

\* The amounts and times that are compared are integers.
LEMMA Numbers ==
  ASSUME TypeInv
  PROVE  /\ clock \in Int /\ ForceAge \in Int /\ None \in Int /\ \A e \in Ends : e \in Int
         /\ \A l \in Lots : /\ lot[l].bid \in Nat /\ lot[l].final \in Nat
                            /\ lot[l].end \in Int /\ site[l].end \in Int
                            /\ lot[l].closedAt \in Int /\ lot[l].gen \in Nat
                            /\ site[l].bid \in Nat /\ sales[l] \in Seq(0..MaxBid)
                            /\ \A i \in DOMAIN sales[l] : sales[l][i] \in Nat
         /\ \A d \in Distillers : /\ dist[d] \in Dist
                                  /\ dist[d].held # NoRow => /\ dist[d].held.lot \in Lots
                                                             /\ dist[d].held.final \in Nat
                                                             /\ dist[d].held.gen \in Nat
         /\ obs # NoObs => obs \in Obs /\ obs.lot \in Lots /\ obs.bid \in Nat
<1>1. /\ clock \in Int /\ ForceAge \in Int /\ None \in Int /\ \A e \in Ends : e \in Int
      /\ MaxBid \in Nat /\ MaxTime \in Nat
  BY LotLifecycleAssumption DEF TypeInv, TypeOK, None
<1>2. ASSUME NEW l \in Lots
      PROVE  /\ lot[l].bid \in Nat /\ lot[l].final \in Nat
             /\ lot[l].end \in Int /\ site[l].end \in Int
             /\ lot[l].closedAt \in Int /\ lot[l].gen \in Nat
             /\ site[l].bid \in Nat /\ sales[l] \in Seq(0..MaxBid)
             /\ \A i \in DOMAIN sales[l] : sales[l][i] \in Nat
  <2>1. /\ lot[l] \in Row /\ sales[l] \in Seq(0..MaxBid)
        /\ site[l] \in [state : {"open", "closed", "gone"}, end : Ends \cup {None}, bid : 0..MaxBid]
    BY DEF TypeInv, TypeOK
  <2>2. ASSUME NEW i \in DOMAIN sales[l] PROVE sales[l][i] \in 0..MaxBid
    <3>1. i \in 1..Len(sales[l])
      BY <2>1
    <3>2. QED
      BY <2>1, <3>1, ElementOfSeq
  <2>3. /\ lot[l].bid \in Nat /\ lot[l].final \in Nat /\ lot[l].gen \in Nat
        /\ lot[l].end \in Int /\ lot[l].closedAt \in Int
    BY <1>1, <2>1 DEF Row
  <2>4. site[l].end \in Int /\ site[l].bid \in Nat
    BY <1>1, <2>1
  <2>5. QED
    BY <1>1, <2>1, <2>2, <2>3, <2>4
<1>3. ASSUME NEW d \in Distillers
      PROVE  /\ dist[d] \in Dist
             /\ dist[d].held # NoRow => /\ dist[d].held.lot \in Lots
                                        /\ dist[d].held.final \in Nat
                                        /\ dist[d].held.gen \in Nat
  BY <1>1 DEF TypeInv, TypeOK, Dist
<1>4. obs # NoObs => obs \in Obs /\ obs.lot \in Lots /\ obs.bid \in Nat
  BY <1>1 DEF TypeInv, TypeOK, Obs
<1>5. QED
  BY <1>1, <1>2, <1>3, <1>4

LEMMA SaleInit == Init => SaleInv
<1> SUFFICES ASSUME Init PROVE SaleInv
  OBVIOUS
<1>1. \A l \in Lots : /\ site[l].bid = 0 /\ sales[l] = <<>> /\ lot[l] = Absent(0)
  BY DEF Init, NoBid
<1>2. \A l \in Lots : lot[l].bid = 0 /\ lot[l].final = 0 /\ lot[l].status = "absent"
  BY <1>1 DEF Absent, NoBid
<1>3. \A d \in Distillers : dist[d].held = NoRow
  BY DEF Init, Idle
<1>4. QED
  BY <1>1, <1>2, <1>3 DEF Init, SaleInv, Priced, HeldPriced, ObsTrue, CloseTrue

LEMMA SaleStep == TypeInv /\ TypeInv' /\ SaleInv /\ [Next]_vars => SaleInv'
<1> SUFFICES ASSUME TypeInv, TypeInv', SaleInv, [Next]_vars PROVE SaleInv'
  OBVIOUS
<1> USE DEF SaleInv
<1>1. CASE UNCHANGED vars
  BY <1>1 DEF vars, history, Priced, HeldPriced, ObsTrue, CloseTrue
<1>2. CASE Tick
  BY <1>2, Numbers DEF Tick, history, Priced, HeldPriced, ObsTrue, CloseTrue
<1>3. ASSUME NEW l \in Lots, SiteBid(l) \/ SiteClose(l) \/ SiteMove(l) \/ SiteDrop(l)
      PROVE  SaleInv'
  <2>1. /\ UNCHANGED <<clock, lot, sales, obs, dist, misled>>
        /\ \A k \in Lots :
             /\ site'[k].bid >= site[k].bid /\ site'[k].bid \in Nat
             /\ site[k].state # "open" => site'[k].state # "open" /\ site'[k].bid = site[k].bid
             /\ site[k].state = "gone" => site'[k].state = "gone"
             /\ site'[k].end = site[k].end \/ clock <= site[k].end
    <3>1. \A k \in Lots : site'[k].bid \in 0..MaxBid
      BY DEF TypeInv, TypeOK
    <3>2. QED
      BY <1>3, <3>1, SiteStep, LotLifecycleAssumption DEF history
  <2>2. Priced'
    <3>1. SUFFICES ASSUME NEW k \in Lots
                   PROVE  /\ lot[k].bid <= site'[k].bid /\ lot[k].final <= site'[k].bid
                          /\ \A i \in DOMAIN sales[k] : sales[k][i] <= site'[k].bid
      BY <2>1 DEF Priced
    <3>2. /\ site'[k].bid >= site[k].bid /\ site'[k].bid \in Nat /\ site[k].bid \in Nat
          /\ lot[k].bid \in Nat /\ lot[k].final \in Nat
          /\ \A i \in DOMAIN sales[k] : sales[k][i] \in Nat
      BY <2>1, Numbers
    <3>3. QED
      BY <3>2 DEF Priced
  <2>3. HeldPriced'
    <3>1. SUFFICES ASSUME NEW d \in Distillers, dist[d].held # NoRow
                   PROVE  dist[d].held.final <= site'[dist[d].held.lot].bid
      BY <2>1 DEF HeldPriced
    <3>2. PICK k \in Lots : k = dist[d].held.lot
      BY <3>1, Numbers
    <3>3. /\ dist[d].held.final \in Nat /\ site[k].bid \in Nat /\ site'[k].bid \in Nat
          /\ site'[k].bid >= site[k].bid
      BY <2>1, <3>1, Numbers
    <3>4. dist[d].held.final <= site[k].bid
      BY <3>1, <3>2 DEF HeldPriced
    <3>5. QED
      BY <3>2, <3>3, <3>4
  <2>4. ObsTrue'
    <3>1. obs # NoObs => obs.lot \in Lots /\ obs.bid \in Nat
      BY Numbers
    <3>2. QED
      BY <2>1, <3>1, Numbers DEF ObsTrue
  <2>5. CloseTrue'
    <3>1. SUFFICES ASSUME NEW k \in Lots
                   PROVE  /\ lot[k].status = "closed" /\ site'[k].state = "open" => k \in misled
                          /\ lot[k].status = "force_closed" /\ site'[k].state = "open" =>
                               k \in misled \/ (site'[k].end # None /\ clock > site'[k].end + ForceAge)
                          /\ lot[k].status = "closed" /\ lot[k].closedAt # None
                                /\ site'[k].state = "closed"
                               => k \in misled \/ lot[k].final = site'[k].bid
      BY <2>1 DEF CloseTrue
    <3>2. /\ site[k].state \in {"open", "closed", "gone"} /\ site[k].end \in Int /\ clock \in Int
          /\ ForceAge \in Nat
      BY Numbers, LotLifecycleAssumption DEF TypeInv, TypeOK
    <3>3. QED
      BY <2>1, <3>2 DEF CloseTrue
  <2>6. QED
    BY <2>2, <2>3, <2>4, <2>5
<1>4. ASSUME NEW l \in Lots, Ingest(l) PROVE SaleInv'
  <2>1. UNCHANGED <<clock, site, sales, obs, dist, misled>>
    BY <1>4 DEF Ingest
  <2>2. /\ \A k \in Lots \ {l} : lot'[k] = lot[k]
        /\ lot[l].status = "absent" =>
             /\ lot'[l].status = "closed" => site[l].state = "closed"
             /\ lot'[l].status # "force_closed" /\ lot'[l].closedAt = None
             /\ lot'[l].bid = 0 /\ lot'[l].final = 0
        /\ lot[l].status # "absent" =>
             /\ lot'[l].status = lot[l].status /\ lot'[l].closedAt = lot[l].closedAt
             /\ lot'[l].bid = lot[l].bid /\ lot'[l].final = lot[l].final
    BY <1>4, IngestStep DEF NoBid
  <2>3. Priced'
    <3>1. SUFFICES ASSUME NEW k \in Lots
                   PROVE  /\ lot'[k].bid <= site[k].bid /\ lot'[k].final <= site[k].bid
                          /\ \A i \in DOMAIN sales[k] : sales[k][i] <= site[k].bid
      BY <2>1 DEF Priced
    <3>2. 0 <= site[k].bid
      BY Numbers
    <3>3. QED
      BY <2>2, <3>2 DEF Priced
  <2>4. CloseTrue'
    BY <2>1, <2>2 DEF CloseTrue
  <2>5. QED
    BY <2>1, <2>3, <2>4 DEF HeldPriced, ObsTrue
<1>5. ASSUME NEW l \in Lots, Mark(l) \/ Purchase(l) PROVE SaleInv'
  <2>1. UNCHANGED <<clock, site, sales, obs, dist, misled>>
    BY <1>5 DEF Mark, Purchase, Sets
  <2>2. \A k \in Lots : /\ lot'[k].status = lot[k].status /\ lot'[k].closedAt = lot[k].closedAt
                        /\ lot'[k].bid = lot[k].bid /\ lot'[k].final = lot[k].final
    BY <1>5, MarkStep
  <2>3. QED
    BY <2>1, <2>2 DEF Priced, HeldPriced, ObsTrue, CloseTrue
<1>6. CASE PollerLoad
  <2>1. UNCHANGED <<clock, site, sales, dist, obs>> /\ obs = NoObs
    BY <1>6 DEF PollerLoad
  <2>2. misled \subseteq misled'
    BY <1>6, LoadStep
  <2>3. ASSUME NEW l \in Lots
        PROVE  \/ lot'[l] = lot[l]
               \/ /\ lot'[l].status = "force_closed" /\ lot'[l].final = lot[l].bid
                  /\ lot'[l].bid = lot[l].bid
                  /\ l \in misled' \/ (site[l].end # None /\ clock > site[l].end + ForceAge)
    <3>1. \/ lot'[l] = lot[l]
          \/ /\ Forceable(l) /\ (lot[l].end = site[l].end \/ l \in misled')
             /\ lot'[l].status = "force_closed" /\ lot'[l].final = lot[l].bid
             /\ lot'[l].bid = lot[l].bid
      BY <1>6, LoadStep
    <3>2. Forceable(l) => lot[l].end # None /\ clock > lot[l].end + ForceAge
      BY Numbers DEF Forceable, Age
    <3>3. QED
      BY <3>1, <3>2
  <2>4. Priced' /\ CloseTrue'
    BY <2>1, <2>2, <2>3, Numbers DEF Priced, CloseTrue
  <2>5. QED
    BY <2>1, <2>4 DEF HeldPriced, ObsTrue
<1>7. CASE Write
  <2> DEFINE l == obs.lot
  <2>1. UNCHANGED <<clock, site, sales, dist, misled>> /\ obs' = NoObs /\ obs # NoObs
    BY <1>7 DEF Write, history
  <2>2. /\ obs \in Obs /\ l \in Lots /\ lot[l] \in Row
        /\ \A k \in Lots \ {l} : lot'[k] = lot[k]
        /\ lot'[l] = lot[l] \/ lot'[l] = Observed(lot[l], obs)
    BY <1>7, WriteStep DEF Obs, TypeInv, TypeOK
  <2>3. LET n == Observed(lot[l], obs)
            over == obs.answer # "open" /\ lot[l].status # "closed"
        IN  /\ n.bid = IF obs.bid = NoBid THEN lot[l].bid ELSE obs.bid
            /\ n.status = IF over THEN "closed" ELSE lot[l].status
            /\ n.closedAt = IF over THEN clock ELSE lot[l].closedAt
            /\ n.final = IF ~over THEN lot[l].final
                         ELSE IF obs.answer = "closed" THEN obs.bid ELSE lot[l].bid
    BY <2>1, <2>2, ObservedRow
  <2>4. obs.answer \in {"open", "closed", "missing"}
    BY <2>2 DEF Obs
  <2>5. Priced'
    <3>1. SUFFICES ASSUME NEW k \in Lots
                   PROVE  /\ lot'[k].bid <= site[k].bid /\ lot'[k].final <= site[k].bid
                          /\ \A i \in DOMAIN sales[k] : sales[k][i] <= site[k].bid
      BY <2>1, Zenon DEF Priced
    <3>2. /\ lot[k].bid <= site[k].bid /\ lot[k].final <= site[k].bid
          /\ \A i \in DOMAIN sales[k] : sales[k][i] <= site[k].bid
      BY Zenon DEF Priced
    <3>3. CASE lot'[k] = lot[k]
      BY <3>2, <3>3
    <3>4. CASE k = l /\ lot'[l] = Observed(lot[l], obs)
      <4>1. obs.bid <= site[l].bid
        BY <2>1, Zenon DEF ObsTrue
      <4>2. lot'[l].bid \in {lot[l].bid, obs.bid} /\ lot'[l].final \in {lot[l].bid, lot[l].final, obs.bid}
        BY <2>3, <3>4
      <4>3. QED
        BY <3>2, <3>4, <4>1, <4>2
    <3>5. QED
      BY <2>2, <3>3, <3>4
  <2>6. CloseTrue'
    <3>1. SUFFICES ASSUME NEW k \in Lots
                   PROVE  /\ lot'[k].status = "closed" /\ site[k].state = "open" => k \in misled
                          /\ lot'[k].status = "force_closed" /\ site[k].state = "open" =>
                               k \in misled \/ (site[k].end # None /\ clock > site[k].end + ForceAge)
                          /\ lot'[k].status = "closed" /\ lot'[k].closedAt # None
                                /\ site[k].state = "closed"
                               => k \in misled \/ lot'[k].final = site[k].bid
      BY <2>1 DEF CloseTrue
    <3>2. CASE lot'[k] = lot[k]
      BY <3>2 DEF CloseTrue
    <3>3. CASE k = l /\ lot'[l] = Observed(lot[l], obs)
      <4>1. CASE obs.answer # "open" /\ lot[l].status # "closed"
        <5>1. lot'[l].status = "closed"
          BY <2>3, <3>3, <4>1
        <5>2. lot'[l].final = IF obs.answer = "closed" THEN obs.bid ELSE lot[l].bid
          BY <2>3, <3>3, <4>1
        <5>3. \/ obs.answer = "closed" /\ site[l].state # "open" /\ obs.bid = site[l].bid
              \/ obs.answer = "missing" /\ (site[l].state = "gone" \/ l \in misled)
          BY <2>1, <2>4, <4>1 DEF ObsTrue
        <5>4. QED
          BY <3>3, <5>1, <5>2, <5>3
      <4>2. CASE ~(obs.answer # "open" /\ lot[l].status # "closed")
        <5>1. /\ lot'[l].status = lot[l].status /\ lot'[l].closedAt = lot[l].closedAt
              /\ lot'[l].final = lot[l].final
          BY <2>3, <3>3, <4>2
        <5>2. QED
          BY <3>3, <5>1 DEF CloseTrue
      <4>3. QED
        BY <4>1, <4>2
    <3>4. QED
      BY <2>2, <3>2, <3>3
  <2>7. QED
    BY <2>1, <2>5, <2>6 DEF HeldPriced, ObsTrue
<1>8. CASE PollerCrash
  BY <1>8 DEF PollerCrash, history, Priced, HeldPriced, ObsTrue, CloseTrue
<1>9. ASSUME NEW r \in todo.fast \cup todo.slow, Ask(r) \/ AskFails(r) \/ AskGlitch(r)
      PROVE  SaleInv'
  <2>1. UNCHANGED <<clock, site, lot, sales, dist>> /\ misled \subseteq misled'
    BY <1>9, AskStep
  <2>2. \/ obs' = obs
        \/ /\ obs'.lot = r.lot /\ obs'.bid <= site[r.lot].bid
           /\ obs'.answer = "closed" => site[r.lot].state = "closed" /\ obs'.bid = site[r.lot].bid
           /\ obs'.answer = "missing" => site[r.lot].state = "gone" \/ r.lot \in misled'
    BY <1>9, AskStep
  <2>3. ObsTrue'
    BY <2>1, <2>2 DEF ObsTrue
  <2>4. Priced' /\ HeldPriced' /\ CloseTrue'
    BY <2>1 DEF Priced, HeldPriced, CloseTrue
  <2>5. QED
    BY <2>3, <2>4
<1>10. ASSUME NEW d \in Distillers, Select(d) \/ LoadLot(d) \/ DistillFails(d)
       PROVE  SaleInv'
  <2>1. /\ UNCHANGED <<clock, site, lot, sales, obs, misled>>
        /\ \A e \in Distillers \ {d} : dist'[e] = dist[e]
        /\ dist'[d].held # NoRow => \/ dist'[d].held = dist[d].held
                                    \/ dist'[d].held.final = lot[dist'[d].held.lot].final
    BY <1>10, DistStep DEF history
  <2>2. dist'[d].held # NoRow => dist'[d].held.lot \in Lots
    BY <1>10, DistStep DEF Dist
  <2>3. HeldPriced'
    BY <2>1, <2>2 DEF HeldPriced, Priced
  <2>4. QED
    BY <2>1, <2>3 DEF Priced, ObsTrue, CloseTrue
<1>11. ASSUME NEW d \in Distillers, Distill(d) PROVE SaleInv'
  <2>1. UNCHANGED <<clock, site, obs, misled>>
    BY <1>11 DEF Distill
  <2>2. PICK l \in Lots, p \in 0..MaxBid :
          /\ dist[d].held # NoRow /\ dist[d].held.lot = l /\ dist[d].held.final = p
          /\ \A k \in Lots \ {l} : lot'[k] = lot[k] /\ sales'[k] = sales[k]
          /\ sales'[l] = Append(sales[l], p)
          /\ \/ lot'[l].status = "absent" /\ lot'[l].bid = 0 /\ lot'[l].final = 0
             \/ lot'[l] = lot[l]
    BY <1>11, DistillEffect, Zenon
  <2>3. /\ p <= site[l].bid /\ site[l].bid \in Nat
        /\ sales[l] \in Seq(0..MaxBid) /\ \A i \in DOMAIN sales[l] : sales[l][i] <= site[l].bid
        /\ lot[l].bid <= site[l].bid /\ lot[l].final <= site[l].bid
    <3>1. p <= site[l].bid
      BY <2>2, Zenon DEF HeldPriced
    <3>2. site[l].bid \in Nat /\ sales[l] \in Seq(0..MaxBid)
      BY Numbers, Zenon
    <3>3. QED
      BY <3>1, <3>2, Zenon DEF Priced
  <2>4. \A i \in DOMAIN sales'[l] : sales'[l][i] <= site[l].bid
    BY <2>2, <2>3
  <2>5. Priced' /\ CloseTrue'
    <3>1. Priced'
      <4>1. lot'[l].bid <= site[l].bid /\ lot'[l].final <= site[l].bid
        BY <2>2, <2>3
      <4>2. \A k \in Lots \ {l} : lot'[k] = lot[k] /\ sales'[k] = sales[k]
        BY <2>2
      <4>3. QED
        BY <2>1, <2>4, <4>1, <4>2, Zenon DEF Priced
    <3>2. CloseTrue'
      <4>1. SUFFICES ASSUME NEW k \in Lots
                     PROVE  \/ lot'[k] = lot[k]
                            \/ lot'[k].status = "absent"
        BY <2>1 DEF CloseTrue
      <4>2. QED
        BY <2>2
    <3>3. QED
      BY <3>1, <3>2
  <2>6. HeldPriced'
    <3>1. dist' = [dist EXCEPT ![d] = [todo |-> dist[d].todo, held |-> NoRow]]
      BY <1>11, DistillStep
    <3>2. dist'[d].held = NoRow /\ \A e \in Distillers \ {d} : dist'[e] = dist[e]
      BY <3>1 DEF TypeInv, TypeOK
    <3>3. QED
      BY <2>1, <3>2 DEF HeldPriced
  <2>7. QED
    BY <2>1, <2>5, <2>6 DEF ObsTrue
<1>12. QED
  BY <1>1, <1>2, <1>3, <1>4, <1>5, <1>6, <1>7, <1>8, <1>9, <1>10, <1>11
     DEF Next, Environment, Poller, Distiller

LEMMA SaleAlways == Spec => [](TypeInv /\ SaleInv)
BY TypeInit, TypeStep, SaleInit, SaleStep, PTL DEF Spec

\* What is recorded of a lot is its hammer price when the source said that it closed, and
\* never more, whatever comes between fetching an observation and writing it.
THEOREM HammerPriceKept == Spec => []HammerPrice
<1>1. TypeInv /\ SaleInv => HammerPrice
  BY DEF SaleInv, Priced, CloseTrue, HammerPrice
<1>2. QED
  BY <1>1, SaleAlways, PTL

\* A lot on which one can still bid is closed only for a false answer, a moved end, or
\* because it runs on past ForceAge.
THEOREM NoEarlyClose == Spec => []EarlyCloseExplained
<1>1. TypeInv /\ SaleInv => EarlyCloseExplained
  BY DEF SaleInv, CloseTrue, EarlyCloseExplained, Closed
<1>2. QED
  BY <1>1, SaleAlways, PTL

-----------------------------------------------------------------------------
(* What becomes of the rows on a distiller's list.                         *)

\* A reference or an observation is of the lot's row or of one that is deleted, and no row
\* that is still being polled has been closed by force.
Fresh(r) ==
  /\ r.gen <= lot[r.lot].gen
  /\ r.gen = lot[r.lot].gen => lot[r.lot].status # "force_closed"

\* A row that was selected is over and old enough, unless it was marked since.
Kept(c) ==
  LET l == c[1] IN
  /\ c[2] <= lot[l].gen
  /\ c[2] = lot[l].gen /\ lot[l].status # "absent" =>
       /\ Closed(l) /\ lot[l].closedAt # None
       /\ lot[l].watched => lot[l].closedAt + KeepAge <= clock \/ l \in late
       /\ lot[l].purchased => l \in late

KeepInv ==
  /\ \A r \in todo.fast \cup todo.slow : Fresh(r)
  /\ obs # NoObs => Fresh(obs)
  /\ \A d \in Distillers : \A c \in Listed(dist[d]) : Kept(c)

\* A row is replaced, or deleted, or was not over, or stays as it is, or was on no list.
GoesOn(l) ==
  \/ lot'[l].gen > lot[l].gen
  \/ /\ lot'[l].gen = lot[l].gen
     /\ \/ lot'[l].status = "absent"
        \/ lot[l].status # "absent" /\ ~Closed(l)
        \/ /\ lot'[l].status = lot[l].status /\ lot'[l].closedAt = lot[l].closedAt
           /\ \/ lot'[l].watched = lot[l].watched /\ lot'[l].purchased = lot[l].purchased
              \/ l \in late'
        \/ \A d \in Distillers : <<l, lot[l].gen>> \notin Listed(dist[d])

LEMMA ListedType ==
  ASSUME TypeInv, NEW d \in Distillers, NEW c \in Listed(dist[d])
  PROVE  c \in Lots \X Nat /\ c[1] \in Lots /\ c[2] \in Nat /\ c = <<c[1], c[2]>>
<1>1. /\ dist[d].todo \subseteq Lots \X Nat
      /\ dist[d].held # NoRow => dist[d].held.lot \in Lots /\ dist[d].held.gen \in Nat
  BY Numbers DEF Dist
<1>2. QED
  BY <1>1 DEF Listed

LEMMA RowsGoOn ==
  ASSUME TypeInv, KeepInv, [Next]_vars, NEW l \in Lots
  PROVE  /\ GoesOn(l)
         /\ ~PollerLoad =>
              \/ lot'[l].gen > lot[l].gen
              \/ /\ lot'[l].gen = lot[l].gen
                 /\ lot'[l].status = "force_closed" => lot[l].status = "force_closed"
         /\ lot[l].status # "absent" /\ lot'[l].status = "absent" =>
              \E d \in Distillers : <<l, lot[l].gen>> \in Listed(dist[d])
         /\ clock <= clock' /\ late \subseteq late'
<1>0. /\ clock \in Int /\ late \subseteq Lots /\ lot \in [Lots -> Row] /\ lot[l] \in Row
      /\ lot[l].gen \in Nat /\ lot[l].gen + 1 > lot[l].gen
  BY Numbers DEF TypeInv, TypeOK
<1>1. CASE lot' = lot /\ clock <= clock' /\ late \subseteq late'
  BY <1>0, <1>1 DEF GoesOn
<1>2. CASE UNCHANGED vars
  BY <1>0, <1>1, <1>2 DEF vars, history
<1>3. CASE Tick
  BY <1>0, <1>1, <1>3 DEF Tick, history
<1>4. ASSUME NEW k \in Lots, SiteBid(k) \/ SiteClose(k) \/ SiteMove(k) \/ SiteDrop(k)
      PROVE  lot' = lot /\ clock <= clock' /\ late \subseteq late'
  BY <1>0, <1>4, SiteStep DEF history
<1>5. ASSUME NEW k \in Lots, Ingest(k)
      PROVE  /\ \/ lot'[l] = lot[l]
                \/ lot'[l].gen = lot[l].gen + 1 /\ lot'[l].status # "absent"
                \/ /\ lot'[l].gen = lot[l].gen /\ lot'[l].status = lot[l].status
                   /\ lot'[l].closedAt = lot[l].closedAt /\ lot'[l].watched = lot[l].watched
                   /\ lot'[l].purchased = lot[l].purchased
             /\ clock' = clock /\ late' = late
  <2>1. clock' = clock /\ late' = late
    BY <1>5 DEF Ingest
  <2>2. QED
    BY <1>5, <2>1, IngestStep
<1>6. ASSUME NEW k \in Lots, Mark(k) \/ Purchase(k)
      PROVE  /\ \/ lot'[l] = lot[l]
                \/ /\ lot'[l].gen = lot[l].gen /\ lot'[l].status = lot[l].status
                   /\ lot'[l].status # "absent" /\ lot'[l].closedAt = lot[l].closedAt
                   /\ \/ l \in late'
                      \/ \A d \in Distillers : <<l, lot[l].gen>> \notin Listed(dist[d])
             /\ clock' = clock /\ late \subseteq late'
  <2>1. /\ clock' = clock
        /\ late' = IF \E d \in Distillers : <<k, lot[k].gen>> \in Listed(dist[d])
                   THEN late \cup {k} ELSE late
    BY <1>6 DEF Mark, Purchase, Sets, OnList, Listed
  <2>2. QED
    BY <1>6, <2>1, MarkStep
<1>7. CASE PollerLoad
  <2>1. clock' = clock /\ late' = late
    BY <1>7 DEF PollerLoad
  <2>2. \/ lot'[l] = lot[l]
        \/ /\ lot[l].status = "open" /\ lot'[l].status = "force_closed"
           /\ lot'[l].gen = lot[l].gen
    BY <1>7, LoadStep
  <2>3. QED
    BY <1>0, <1>7, <2>1, <2>2 DEF GoesOn, Closed
<1>8. CASE Write
  <2>1. clock' = clock /\ late' = late /\ obs # NoObs
    BY <1>8 DEF Write, history
  <2>2. CASE lot'[l] = lot[l]
    BY <1>0, <2>1, <2>2 DEF GoesOn
  <2>3. CASE lot'[l] # lot[l]
    <3>1. /\ l = obs.lot /\ lot[l].status # "absent" /\ lot[l].gen = obs.gen
          /\ lot'[l] = Observed(lot[l], obs)
      BY <1>8, <2>3, WriteStep
    <3>2. lot[l].status # "force_closed"
      BY <2>1, <3>1 DEF KeepInv, Fresh
    <3>3. /\ lot'[l].gen = lot[l].gen
          /\ lot'[l].watched = lot[l].watched /\ lot'[l].purchased = lot[l].purchased
          /\ lot'[l].status = IF obs.answer # "open" /\ lot[l].status # "closed"
                              THEN "closed" ELSE lot[l].status
          /\ lot'[l].closedAt = IF obs.answer # "open" /\ lot[l].status # "closed"
                                THEN clock ELSE lot[l].closedAt
      BY <1>0, <2>1, <3>1, ObservedRow
    <3>4. QED
      BY <1>0, <2>1, <3>1, <3>2, <3>3 DEF GoesOn, Closed
  <2>4. QED
    BY <2>2, <2>3
<1>9. CASE PollerCrash
  BY <1>0, <1>1, <1>9 DEF PollerCrash, history
<1>10. ASSUME NEW r \in todo.fast \cup todo.slow, Ask(r) \/ AskFails(r) \/ AskGlitch(r)
       PROVE  lot' = lot /\ clock <= clock' /\ late \subseteq late'
  BY <1>0, <1>10, AskStep
<1>11. ASSUME NEW d \in Distillers, Select(d) \/ LoadLot(d) \/ DistillFails(d)
       PROVE  lot' = lot /\ clock <= clock' /\ late \subseteq late'
  BY <1>0, <1>11, DistStep DEF history
<1>12. ASSUME NEW d \in Distillers, Distill(d)
       PROVE  /\ \/ lot'[l] = lot[l]
                 \/ /\ lot'[l].gen = lot[l].gen /\ lot'[l].status = "absent"
                    /\ <<l, lot[l].gen>> \in Listed(dist[d])
              /\ clock' = clock /\ late' = late
  <2>1. clock' = clock /\ late' = late
    BY <1>12 DEF Distill
  <2>2. CASE lot'[l] = lot[l]
    BY <2>1, <2>2
  <2>3. CASE lot'[l] # lot[l]
    <3>1. PICK k \in Lots, g \in Nat :
            /\ dist[d].held # NoRow /\ dist[d].held.lot = k /\ dist[d].held.gen = g
            /\ \A j \in Lots \ {k} : lot'[j] = lot[j]
            /\ \/ lot[k].gen = g /\ lot'[k].gen = g /\ lot'[k].status = "absent"
               \/ lot'[k] = lot[k]
      BY <1>12, DistillEffect, Zenon
    <3>2. k = l /\ lot[l].gen = g /\ lot'[l].gen = g /\ lot'[l].status = "absent"
      BY <2>3, <3>1
    <3>3. <<l, lot[l].gen>> \in Listed(dist[d])
      BY <3>1, <3>2 DEF Listed
    <3>4. QED
      BY <2>1, <3>2, <3>3
  <2>4. QED
    BY <2>2, <2>3
<1>13. CASE \E k \in Lots : Ingest(k)
  BY <1>0, <1>5, <1>13 DEF GoesOn
<1>14. CASE \E k \in Lots : Mark(k) \/ Purchase(k)
  BY <1>0, <1>6, <1>14 DEF GoesOn
<1>15. CASE \E d \in Distillers : Distill(d)
  BY <1>0, <1>12, <1>15 DEF GoesOn
<1>16. QED
  BY <1>1, <1>2, <1>3, <1>4, <1>7, <1>8, <1>9, <1>10, <1>11, <1>13, <1>14, <1>15
     DEF Next, Environment, Poller, Distiller

LEMMA KeptOn ==
  ASSUME TypeInv, TypeInv', KeepInv, [Next]_vars,
         NEW d \in Distillers, NEW c \in Listed(dist[d])
  PROVE  Kept(c)'
<1>1. /\ c[1] \in Lots /\ c[2] \in Nat /\ c = <<c[1], c[2]>> /\ Kept(c)
  BY ListedType DEF KeepInv
<1>2. PICK l \in Lots : l = c[1]
  BY <1>1
<1>3. /\ GoesOn(l) /\ clock <= clock' /\ late \subseteq late'
  BY <1>2, RowsGoOn
<1>4. /\ lot[l].gen \in Nat /\ lot'[l].gen \in Nat /\ lot[l].closedAt \in Int
      /\ clock \in Int /\ clock' \in Int /\ KeepAge \in Int /\ MaxTime \in Int
  <2>1. /\ lot[l] \in Row /\ lot'[l] \in Row /\ clock \in 0..MaxTime /\ clock' \in 0..MaxTime
    BY DEF TypeInv, TypeOK
  <2>2. QED
    BY <2>1, LotLifecycleAssumption DEF Row, None
<1>5. CASE c[2] # lot'[l].gen
  BY <1>1, <1>2, <1>3, <1>4, <1>5 DEF Kept, GoesOn
<1>6. CASE c[2] = lot'[l].gen
  <2>1. c[2] = lot[l].gen /\ lot'[l].gen = lot[l].gen
    BY <1>1, <1>2, <1>3, <1>4, <1>6 DEF Kept, GoesOn
  <2>2. CASE lot'[l].status = "absent"
    BY <1>2, <1>4, <2>1, <2>2 DEF Kept
  <2>3. CASE lot'[l].status # "absent"
    <3>1. ~(lot[l].status # "absent" /\ ~Closed(l))
      BY <1>1, <1>2, <2>1 DEF Kept
    <3>2. <<l, lot[l].gen>> \in Listed(dist[d])
      BY <1>1, <1>2, <2>1
    <3>3. /\ lot'[l].status = lot[l].status /\ lot'[l].closedAt = lot[l].closedAt
          /\ \/ lot'[l].watched = lot[l].watched /\ lot'[l].purchased = lot[l].purchased
             \/ l \in late'
      BY <1>3, <1>4, <2>1, <2>3, <3>1, <3>2 DEF GoesOn
    <3>4. QED
      BY <1>1, <1>2, <1>3, <1>4, <2>1, <2>3, <3>3 DEF Kept, Closed
  <2>4. QED
    BY <2>2, <2>3
<1>7. QED
  BY <1>5, <1>6

LEMMA FreshOn ==
  ASSUME TypeInv, TypeInv', KeepInv, [Next]_vars, ~PollerLoad, NEW r, r.lot \in Lots, r.gen \in Nat,
         Fresh(r)
  PROVE  Fresh(r)'
<1>1. PICK l \in Lots : l = r.lot
  OBVIOUS
<1>2. \/ lot'[l].gen > lot[l].gen
      \/ /\ lot'[l].gen = lot[l].gen
         /\ lot'[l].status = "force_closed" => lot[l].status = "force_closed"
  BY RowsGoOn
<1>3. lot[l].gen \in Nat /\ lot'[l].gen \in Nat
  BY DEF TypeInv, TypeOK, Row
<1>4. QED
  BY <1>1, <1>2, <1>3 DEF Fresh

LEMMA KeepInit == Init => KeepInv
<1> SUFFICES ASSUME Init PROVE KeepInv
  OBVIOUS
<1>1. todo.fast = {} /\ todo.slow = {} /\ obs = NoObs
  BY DEF Init, NoRefs
<1>2. \A d \in Distillers : dist[d].held = NoRow /\ dist[d].todo = {}
  BY DEF Init, Idle
<1>3. QED
  BY <1>1, <1>2 DEF KeepInv, Listed

LEMMA KeepStep == TypeInv /\ TypeInv' /\ KeepInv /\ [Next]_vars => KeepInv'
<1> SUFFICES ASSUME TypeInv, TypeInv', KeepInv, [Next]_vars PROVE KeepInv'
  OBVIOUS
<1>1. /\ \A r \in todo.fast \cup todo.slow : r.lot \in Lots /\ r.gen \in Nat /\ Fresh(r)
      /\ obs # NoObs => obs.lot \in Lots /\ obs.gen \in Nat /\ Fresh(obs)
  BY DEF KeepInv, TypeInv, TypeOK, Ref
<1>2. ASSUME dist' = dist PROVE \A d \in Distillers : \A c \in Listed(dist'[d]) : Kept(c)'
  BY <1>2, KeptOn
<1>3. ASSUME todo'.fast \cup todo'.slow \subseteq todo.fast \cup todo.slow, ~PollerLoad
      PROVE  \A r \in todo'.fast \cup todo'.slow : Fresh(r)'
  BY <1>1, <1>3, FreshOn
<1>4. ASSUME obs' = NoObs \/ (obs' = obs /\ ~PollerLoad) PROVE obs' # NoObs => Fresh(obs)'
  <2>1. CASE obs = NoObs
    BY <1>4, <2>1
  <2>2. CASE obs # NoObs /\ obs' = obs /\ ~PollerLoad
    <3>1. PICK o : o = obs
      OBVIOUS
    <3>2. Fresh(o)'
      BY <1>1, <2>2, <3>1, FreshOn DEF Fresh
    <3>3. QED
      BY <2>2, <3>1, <3>2 DEF Fresh
  <2>3. QED
    BY <1>4, <2>1, <2>2
<1>5. CASE PollerLoad
  <2>1. obs' = NoObs /\ dist' = dist
    BY <1>5 DEF PollerLoad
  <2>2. \A r \in todo'.fast \cup todo'.slow : Fresh(r)'
    <3>1. SUFFICES ASSUME NEW r \in todo'.fast \cup todo'.slow PROVE Fresh(r)'
      OBVIOUS
    <3>2. /\ lot'[r.lot] = lot[r.lot] /\ lot[r.lot].status = "open" /\ r.gen = lot[r.lot].gen
      BY <1>5, LoadStep
    <3>3. r.lot \in Lots
      BY DEF TypeInv, TypeOK, Ref
    <3>4. lot[r.lot].gen \in Nat
      BY <3>3 DEF TypeInv, TypeOK, Row
    <3>5. QED
      BY <3>2, <3>4 DEF Fresh
  <2>3. QED
    BY <1>2, <1>4, <2>1, <2>2 DEF KeepInv
<1>6. ASSUME ~PollerLoad, dist' = dist, todo'.fast \cup todo'.slow \subseteq todo.fast \cup todo.slow,
             obs' \in {NoObs, obs}
      PROVE  KeepInv'
  BY <1>2, <1>3, <1>4, <1>6 DEF KeepInv
<1>7. CASE UNCHANGED vars /\ ~PollerLoad
  BY <1>6, <1>7 DEF vars
<1>8. CASE (Tick \/ Write \/ PollerCrash) /\ ~PollerLoad
  BY <1>6, <1>8 DEF Tick, Write, PollerCrash, NoRefs
<1>9. CASE ~PollerLoad /\ \E l \in Lots :
             \/ SiteBid(l) \/ SiteClose(l) \/ SiteMove(l) \/ SiteDrop(l)
             \/ Ingest(l) \/ Mark(l) \/ Purchase(l)
  BY <1>6, <1>9 DEF SiteBid, SiteClose, SiteMove, SiteDrop, SiteSets, Ingest, Mark,
                     Purchase, Sets
<1>10. ASSUME NEW r \in todo.fast \cup todo.slow, Ask(r) \/ AskFails(r) \/ AskGlitch(r),
              ~PollerLoad
       PROVE  KeepInv'
  <2>1. /\ dist' = dist /\ todo'.fast \cup todo'.slow \subseteq todo.fast \cup todo.slow
        /\ obs' = obs \/ (obs'.lot = r.lot /\ obs'.gen = r.gen)
    BY <1>10, AskStep
  <2>2. CASE obs' = obs
    BY <1>6, <1>10, <2>1, <2>2
  <2>3. CASE obs'.lot = r.lot /\ obs'.gen = r.gen
    <3>1. Fresh(r)'
      BY <1>1, <1>10, FreshOn
    <3>2. Fresh(obs)'
      BY <2>3, <3>1 DEF Fresh
    <3>3. QED
      BY <1>2, <1>3, <1>10, <2>1, <3>2 DEF KeepInv
  <2>4. QED
    BY <2>1, <2>2, <2>3
<1>11. ASSUME NEW d \in Distillers, Distill(d), ~PollerLoad PROVE KeepInv'
  <2>1. dist' = [dist EXCEPT ![d] = [todo |-> dist[d].todo, held |-> NoRow]]
    BY <1>11, DistillStep
  <2>2. /\ dist'[d] = [todo |-> dist[d].todo, held |-> NoRow]
        /\ \A e \in Distillers \ {d} : dist'[e] = dist[e]
    BY <2>1 DEF TypeInv, TypeOK
  <2>3. \A e \in Distillers : Listed(dist'[e]) \subseteq Listed(dist[e])
    BY <2>2 DEF Listed
  <2>4. todo' = todo /\ obs' = obs
    BY <1>11 DEF Distill
  <2>5. QED
    BY <1>3, <1>4, <1>11, <2>3, <2>4, KeptOn DEF KeepInv
<1>12. ASSUME NEW d \in Distillers, Select(d) \/ LoadLot(d) \/ DistillFails(d), ~PollerLoad
       PROVE  KeepInv'
  <2>1. /\ UNCHANGED <<clock, lot, todo, obs, late>>
        /\ \A e \in Distillers \ {d} : dist'[e] = dist[e]
        /\ \A c \in Listed(dist'[d]) :
             \/ c \in Listed(dist[d])
             \/ \E l \in Lots : Distillable(l) /\ c = <<l, lot[l].gen>>
    BY <1>12, DistStep DEF history
  <2>2. ASSUME NEW l \in Lots, Distillable(l) PROVE Kept(<<l, lot[l].gen>>)'
    <3>1. lot'[l] = lot[l] /\ clock' = clock /\ late' = late /\ lot[l].gen \in Nat
      BY <2>1, Numbers
    <3>2. QED
      BY <2>1, <2>2, <3>1 DEF Kept, Distillable, Closed
  <2>3. \A e \in Distillers : \A c \in Listed(dist'[e]) : Kept(c)'
    <3>1. SUFFICES ASSUME NEW e \in Distillers, NEW c \in Listed(dist'[e]) PROVE Kept(c)'
      OBVIOUS
    <3>2. CASE c \in Listed(dist[e])
      BY <3>2, KeptOn
    <3>3. CASE c \notin Listed(dist[e])
      <4>1. PICK l \in Lots : Distillable(l) /\ c = <<l, lot[l].gen>>
        BY <2>1, <3>3
      <4>2. Kept(<<l, lot[l].gen>>)'
        BY <2>2, <4>1
      <4>3. QED
        BY <2>1, <4>1, <4>2 DEF Kept
    <3>4. QED
      BY <3>2, <3>3
  <2>4. QED
    BY <1>3, <1>4, <1>12, <2>1, <2>3 DEF KeepInv
<1>13. QED
  BY <1>5, <1>7, <1>8, <1>9, <1>10, <1>11, <1>12 DEF Next, Environment, Poller, Distiller

LEMMA KeepAlways == Spec => [](TypeInv /\ KeepInv)
BY TypeInit, TypeStep, KeepInit, KeepStep, PTL DEF Spec

\* A lot the buyer watches is kept for KeepAge, and one he has purchased for good, but
\* for the marks that come when a distiller already has the lot on its list.
THEOREM WatchedIsKept == Spec => KeptWhileWatched
<1> DEFINE Kills == \A l \in Lots :
                      lot[l].status # "absent" /\ lot'[l].status = "absent" /\ l \notin late
                      => /\ ~lot[l].purchased
                         /\ lot[l].watched => clock >= lot[l].closedAt + KeepAge
<1>1. TypeInv /\ KeepInv /\ [Next]_vars => Kills
  <2>1. SUFFICES ASSUME TypeInv, KeepInv, [Next]_vars, NEW l \in Lots,
                        lot[l].status # "absent", lot'[l].status = "absent", l \notin late
                 PROVE  /\ ~lot[l].purchased
                        /\ lot[l].watched => clock >= lot[l].closedAt + KeepAge
    OBVIOUS
  <2>2. PICK d \in Distillers : <<l, lot[l].gen>> \in Listed(dist[d])
    BY <2>1, RowsGoOn
  <2>3. Kept(<<l, lot[l].gen>>)
    BY <2>1, <2>2 DEF KeepInv
  <2>4. clock \in Int /\ lot[l].closedAt \in Int /\ KeepAge \in Int
    BY <2>1, Numbers, LotLifecycleAssumption
  <2>5. QED
    BY <2>1, <2>3, <2>4 DEF Kept
<1>2. TypeInv /\ KeepInv /\ [Next]_vars => [Kills]_vars
  BY <1>1
<1>3. QED
  BY <1>2, KeepAlways, PTL DEF Spec, KeptWhileWatched

-----------------------------------------------------------------------------
(* A sale is one comparable.                                               *)

\* A lot that is recorded has no row, and is recorded once, but for the two exceptions.
CountInv ==
  \A l \in Lots : \/ l \in again \cup doubled
                  \/ Len(sales[l]) = 0
                  \/ Len(sales[l]) = 1 /\ lot[l].status = "absent"

LEMMA CountInit == Init => CountInv
BY DEF Init, CountInv

\* A row comes back only through the ingester.
LEMMA CountStep == TypeInv /\ KeepInv /\ CountInv /\ [Next]_vars => CountInv'
<1> SUFFICES ASSUME TypeInv, KeepInv, CountInv, [Next]_vars PROVE CountInv'
  OBVIOUS
<1>1. \A l \in Lots : sales[l] \in Seq(0..MaxBid) /\ Len(sales[l]) \in Nat
  BY DEF TypeInv, TypeOK
<1>2. ASSUME sales' = sales, again \cup doubled \subseteq again' \cup doubled',
             \A l \in Lots : lot[l].status = "absent" =>
                               \/ lot'[l].status = "absent"
                               \/ sales[l] # <<>> => l \in again'
      PROVE  CountInv'
  <2>1. Len(<<>>) = 0
    OBVIOUS
  <2>2. \A l \in Lots : Len(sales[l]) = 1 => sales[l] # <<>>
    BY <2>1
  <2>3. QED
    BY <1>2, <2>2 DEF CountInv
<1>3. CASE UNCHANGED vars
  BY <1>2, <1>3 DEF vars, history
<1>4. CASE Tick
  BY <1>2, <1>4 DEF Tick, history
<1>5. ASSUME NEW l \in Lots, SiteBid(l) \/ SiteClose(l) \/ SiteMove(l) \/ SiteDrop(l)
      PROVE  CountInv'
  BY <1>2, <1>5, SiteStep DEF history
<1>6. ASSUME NEW l \in Lots, Ingest(l) PROVE CountInv'
  <2>1. /\ sales' = sales /\ doubled' = doubled
        /\ again' = IF lot[l].status = "absent" /\ sales[l] # <<>> THEN again \cup {l} ELSE again
    BY <1>6 DEF Ingest
  <2>2. \A k \in Lots \ {l} : lot'[k] = lot[k]
    BY <1>6, IngestStep
  <2>3. QED
    BY <1>2, <2>1, <2>2
<1>7. ASSUME NEW l \in Lots, Mark(l) \/ Purchase(l) PROVE CountInv'
  <2>1. sales' = sales /\ doubled' = doubled /\ again' = again
    BY <1>7 DEF Mark, Purchase, Sets
  <2>2. QED
    BY <1>2, <1>7, <2>1, MarkStep
<1>8. CASE PollerLoad
  <2>1. sales' = sales /\ doubled' = doubled /\ again' = again
    BY <1>8 DEF PollerLoad
  <2>2. QED
    BY <1>2, <1>8, <2>1, LoadStep
<1>9. CASE Write
  <2>1. sales' = sales /\ doubled' = doubled /\ again' = again
    BY <1>9 DEF Write, history
  <2>2. \A l \in Lots : lot[l].status = "absent" => lot'[l] = lot[l]
    BY <1>9, WriteStep
  <2>3. QED
    BY <1>2, <2>1, <2>2
<1>10. CASE PollerCrash
  BY <1>2, <1>10 DEF PollerCrash, history
<1>11. ASSUME NEW r \in todo.fast \cup todo.slow, Ask(r) \/ AskFails(r) \/ AskGlitch(r)
       PROVE  CountInv'
  BY <1>2, <1>11, AskStep
<1>12. ASSUME NEW d \in Distillers, Select(d) \/ LoadLot(d) \/ DistillFails(d)
       PROVE  CountInv'
  BY <1>2, <1>12, DistStep DEF history
<1>13. ASSUME NEW d \in Distillers, Distill(d) PROVE CountInv'
  <2>1. again' = again
    BY <1>13 DEF Distill
  <2>2. PICK l \in Lots, g \in Nat, p \in 0..MaxBid :
          /\ \A k \in Lots \ {l} : lot'[k] = lot[k] /\ sales'[k] = sales[k]
          /\ sales'[l] = Append(sales[l], p)
          /\ \/ /\ lot[l].gen = g /\ lot[l].status # "absent"
                /\ lot'[l].status = "absent" /\ doubled' = doubled
             \/ lot'[l] = lot[l] /\ doubled' = doubled \cup {l}
    BY <1>13, DistillEffect, Zenon
  <2>3. Len(sales'[l]) = Len(sales[l]) + 1
    BY <1>1, <2>2
  <2>4. doubled \subseteq doubled'
    BY <2>2
  <2>5. \/ l \in again' \cup doubled'
        \/ Len(sales'[l]) = 1 /\ lot'[l].status = "absent"
    <3>1. \/ l \in again \cup doubled
          \/ Len(sales[l]) = 0
          \/ lot[l].status = "absent"
      BY Zenon DEF CountInv
    <3>2. QED
      BY <1>1, <2>1, <2>2, <2>3, <2>4, <3>1
  <2>6. ASSUME NEW k \in Lots, k # l
        PROVE  \/ k \in again' \cup doubled'
               \/ Len(sales'[k]) = 0
               \/ Len(sales'[k]) = 1 /\ lot'[k].status = "absent"
    <3>1. lot'[k] = lot[k] /\ sales'[k] = sales[k]
      BY <2>2, <2>6
    <3>2. QED
      BY <2>1, <2>4, <3>1, Zenon DEF CountInv
  <2>7. QED
    BY <2>5, <2>6, Zenon DEF CountInv
<1>14. QED
  BY <1>3, <1>4, <1>5, <1>6, <1>7, <1>8, <1>9, <1>10, <1>11, <1>12, <1>13
     DEF Next, Environment, Poller, Distiller

\* A sale is never two comparables, its row and its record, whatever fails or is retried,
\* but for a lot listed again and for two distillers at once.
THEOREM CountsOnce == Spec => []CountedOnce
<1>1. TypeInv /\ CountInv => CountedOnce
  <2>0. TypeInv => \A l \in Lots : sales[l] \in Seq(0..MaxBid)
    BY DEF TypeInv, TypeOK
  <2>1. SUFFICES ASSUME TypeInv, CountInv, NEW l \in Lots, l \notin again \cup doubled
                 PROVE  Comps(l) <= 1
    BY DEF CountedOnce
  <2>2. SaleComps(l) \subseteq 1..Len(sales[l])
    <3>1. sales[l] \in Seq(0..MaxBid)
      BY <2>0, <2>1, Zenon
    <3>2. DOMAIN sales[l] = 1..Len(sales[l])
      BY <3>1
    <3>3. SaleComps(l) \subseteq DOMAIN sales[l]
      BY Zenon DEF SaleComps
    <3>4. QED
      BY <3>2, <3>3
  <2>3. CASE Len(sales[l]) = 0
    <3>1. SaleComps(l) = {}
      BY <2>2, <2>3
    <3>2. QED
      BY <3>1, FS_EmptySet DEF Comps
  <2>4. CASE Len(sales[l]) = 1 /\ lot[l].status = "absent"
    <3>1. SaleComps(l) \subseteq {1}
      BY <2>2, <2>4
    <3>2. IsFiniteSet(SaleComps(l)) /\ Cardinality(SaleComps(l)) \in {0, 1}
      <4>1. CASE SaleComps(l) = {}
        BY <4>1, FS_EmptySet
      <4>2. CASE SaleComps(l) = {1}
        BY <4>2, FS_Singleton
      <4>3. QED
        BY <3>1, <4>1, <4>2
    <3>3. ~RecentComp(l)
      BY <2>4 DEF RecentComp, Closed
    <3>4. QED
      BY <3>2, <3>3 DEF Comps
  <2>5. QED
    BY <2>1, <2>3, <2>4 DEF CountInv
<1>2. QED
  BY <1>1, TypeInit, TypeStep, KeepInit, KeepStep, CountInit, CountStep, PTL DEF Spec
=============================================================================
