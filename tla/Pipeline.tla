------------------------------ MODULE Pipeline ------------------------------
(***************************************************************************)
(* The life of one row of vehicle_offer between the programs that write it *)
(* concurrently: ingester, enricher, valuator, bid poller, vision batcher. *)
(* Each owns some columns and resets the status columns of others.         *)
(*                                                                         *)
(* Every write follows the SQLAlchemy unit of work the programs use: a     *)
(* transaction loads the row, assigns attributes, and at commit UPDATEs    *)
(* only the columns whose value differs from the one it LOADED.  Under     *)
(* READ COMMITTED nothing compares the row with what was loaded.           *)
(*                                                                         *)
(* Values are versions: content counts the scraped versions of the listing,*)
(* price the bids or asking prices; the columns a worker derives from them *)
(* record the version they were derived from.  How a NOTIFY reaches a      *)
(* worker is StageQueue's subject; here "told" holds the stages that have  *)
(* been notified, or will sweep, since they last claimed this row.  The    *)
(* notification_status column, the notifier's, is left out.                *)
(***************************************************************************)
EXTENDS Integers, FiniteSets

CONSTANTS MaxContent,  \* bound: versions of the scraped content
          MaxPrice,    \* bound: versions of the price
          MaxOverlaps, \* bound: times a program starts on the row while another is at work
          MaxFaults    \* bound: crashes and failed attempts

ASSUME PipelineAssumption ==
  /\ MaxContent \in Nat \ {0}
  /\ MaxPrice \in Nat \ {0}
  /\ MaxOverlaps \in Nat
  /\ MaxFaults \in Nat

VARIABLES
  kind,    \* "auction" (auction_lot) or "listing" (private_listing)
  row,     \* the committed columns of the row
  pc,      \* what each program is doing with the row
  seen,    \* the row as loaded by its open transaction
  note,    \* the versions it carries from its network I/O into the transaction
  told,    \* stages notified and not yet served
  raced,   \* history: programs that committed what a change behind their back had outdated
  overlaps, \* number of overlaps so far
  faults   \* number of faults so far

vars == <<kind, row, pc, seen, note, told, raced, overlaps, faults>>

Workers == {"enricher", "valuator"}
Programs == Workers \cup {"ingester", "poller", "vision"}
Column == [enricher |-> "enr", valuator |-> "val"]

\* The columns of a row.
\* content, price: last scraped version, last observed bid or asking price
\* enriched, cond: the content version the enrichment derives from, and whether
\*   the condition is the one the description or the photos show
\* vprice, venriched, vcond: the versions the deal score derives from
\* enr, val, vis: the status columns
Inserted ==
  [content |-> 1, price |-> 1, enriched |-> 0, cond |-> "none",
   vprice |-> 0, venriched |-> 0, vcond |-> "none",
   enr |-> "pending", val |-> "pending", vis |-> "pending"]

\* What "seen" holds of a program without an open transaction.
Nothing == Inserted

\* What "note" holds of a program that carries nothing.
NoNote == [content |-> 0, price |-> 0]

\* The ingester has inserted the row (every status column has its default) and
\* notified the enricher in the same transaction.
Init ==
  /\ kind \in {"auction", "listing"}
  /\ row = Inserted
  /\ pc = [a \in Programs |-> "idle"]
  /\ seen = [a \in Programs |-> Nothing]
  /\ note = [a \in Programs |-> NoNote]
  /\ told = {"enr"}
  /\ raced = {}
  /\ overlaps = 0
  /\ faults = 0

Fault ==
  /\ faults < MaxFaults
  /\ faults' = faults + 1

AtWork == {a \in Programs : pc[a] \notin {"idle", "down"}}

-----------------------------------------------------------------------------
(* Transactions.                                                           *)

\* A program starts on the row.
Begin(a, to) ==
  /\ pc[a] = "idle"
  /\ pc' = [pc EXCEPT ![a] = to]
  /\ overlaps' = IF AtWork = {} THEN overlaps ELSE overlaps + 1
  /\ overlaps' <= MaxOverlaps

Goto(a, from, to) ==
  /\ pc[a] = from
  /\ pc' = [pc EXCEPT ![a] = to]
  /\ UNCHANGED overlaps

\* BEGIN and session.get(): the attributes of the object are the row's.
Load(a) == seen' = [seen EXCEPT ![a] = row]

\* Program a writes from data it has read before: from the row it loaded, or from
\* content scraped or fetched before that.
Outdated(a) ==
  \/ row # seen[a]
  \/ a = "enricher" /\ note[a].content # row.content

\* Flush and COMMIT of an object whose attributes are now "new": an attribute
\* that was assigned the value it was loaded with is not written.
Commit(a, from, new) ==
  /\ Goto(a, from, "idle")
  /\ row' = [c \in DOMAIN row |-> IF new[c] # seen[a][c] THEN new[c] ELSE row[c]]
  /\ raced' = IF Outdated(a) THEN raced \cup {a} ELSE raced
  /\ seen' = [seen EXCEPT ![a] = Nothing]
  /\ note' = [note EXCEPT ![a] = NoNote]
  /\ UNCHANGED kind

\* claim_pending_ids, woken for this row or while serving others.
Claim(a) ==
  /\ Begin(a, "claimed")
  /\ row[Column[a]] = "pending"
  /\ row' = [row EXCEPT ![Column[a]] = "in_progress"]
  /\ told' = told \ {Column[a]}
  /\ UNCHANGED <<kind, seen, note, raced, faults>>

\* Woken, claim_pending_ids finds this row not pending.
Ignore(a) ==
  /\ pc[a] = "idle" /\ Column[a] \in told
  /\ row[Column[a]] # "pending"
  /\ told' = told \ {Column[a]}
  /\ UNCHANGED <<kind, row, pc, seen, note, raced, overlaps, faults>>

\* A program dies; a transaction it has open is rolled back.
Crash(a) ==
  /\ pc[a] \notin {"idle", "down"}
  /\ Fault
  /\ pc' = [pc EXCEPT ![a] = IF a \in Workers THEN "down" ELSE "idle"]
  /\ seen' = [seen EXCEPT ![a] = Nothing]
  /\ note' = [note EXCEPT ![a] = NoNote]
  /\ UNCHANGED <<kind, row, told, raced, overlaps>>

\* The worker's next start: recover_orphans, then a sweep of what is pending.
Restart(a) ==
  /\ Goto(a, "down", "idle")
  /\ row' = IF row[Column[a]] = "in_progress"
            THEN [row EXCEPT ![Column[a]] = "pending"] ELSE row
  /\ told' = told \cup {Column[a]}
  /\ UNCHANGED <<kind, seen, note, raced, faults>>

-----------------------------------------------------------------------------
(* Ingester: rescrapes.                                                    *)

\* The scraped version is at hand when the upsert selects the row; the price of
\* a lot is not among what an ingest writes.  An ingest that finds nothing new
\* writes nothing of this row and is left out.
IngestLoad ==
  /\ Begin("ingester", "tx") /\ Load("ingester")
  /\ \E c \in {row.content, row.content + 1}, p \in {row.price, row.price + 1} :
       /\ c <= MaxContent /\ p <= MaxPrice
       /\ kind = "auction" => p = row.price
       /\ <<c, p>> # <<row.content, row.price>>
       /\ note' = [note EXCEPT !["ingester"] = [content |-> c, price |-> p]]
  /\ UNCHANGED <<kind, row, told, raced, faults>>

\* mutant: new content is only valued again
CascadeShort(r, c) ==
  IF c = r.content THEN r ELSE [r EXCEPT !.content = c, !.val = "pending"]

\* _apply_content_cascade: new content resets every stage; a row whose photos
\* are known to be useless stays skipped by vision.
Cascade(r, c) ==
  IF c = r.content THEN r
  ELSE [r EXCEPT !.content = c, !.enr = "pending", !.val = "pending",
                 !.vis = IF @ = "skipped" THEN @ ELSE "pending"]

\* A listing's new asking price re-values it.
Reprice(r, p) ==
  IF p = r.price THEN r ELSE [r EXCEPT !.price = p, !.val = "pending"]

\* mutant: the two questions are asked in the wrong order
ToldByIngestSwapped(r) ==
  IF kind = "auction" THEN {"enr"}
  ELSE IF r.val = "pending" THEN {"val"}
  ELSE IF r.enr = "pending" THEN {"enr"} ELSE {}

\* Which stage the ingest notifies, judged by the attributes in memory.
ToldByIngest(r) ==
  IF kind = "auction" \/ r.enr = "pending" THEN {"enr"}
  ELSE IF r.val = "pending" THEN {"val"} ELSE {}

IngestCommit ==
  LET scraped == note["ingester"]
      new == Reprice(Cascade(seen["ingester"], scraped.content), scraped.price)
  IN  /\ Commit("ingester", "tx", new)
      /\ told' = told \cup ToldByIngest(new)
      /\ UNCHANGED faults

-----------------------------------------------------------------------------
(* Enricher: read, LLM, write.                                             *)

EnrichRead ==
  /\ Goto("enricher", "claimed", "away")
  /\ note' = [note EXCEPT !["enricher"].content = row.content]
  /\ UNCHANGED <<kind, row, seen, told, raced, faults>>

EnrichLoad ==
  /\ Goto("enricher", "away", "tx") /\ Load("enricher")
  /\ UNCHANGED <<kind, row, note, told, raced, faults>>

\* _apply_to_lot, and the NOTIFY of the valuator.
EnrichDone ==
  /\ Commit("enricher", "tx", [seen["enricher"] EXCEPT
       !.enriched = note["enricher"].content, !.cond = "described",
       !.enr = "done", !.val = "pending"])
  /\ told' = told \cup {"val"}
  /\ UNCHANGED faults

\* The want-gate: no active want could match, the row leaves the pipeline.
EnrichSkip ==
  /\ Commit("enricher", "tx", [seen["enricher"] EXCEPT
       !.enr = "skipped", !.val = "skipped"])
  /\ UNCHANGED <<told, faults>>

\* A failure of the LLM: to be retried (the batch ends with a NOTIFY) or final.
EnrichFail ==
  /\ Fault
  /\ \/ /\ Commit("enricher", "tx", [seen["enricher"] EXCEPT !.enr = "failed"])
        /\ UNCHANGED told
     \/ /\ Commit("enricher", "tx", [seen["enricher"] EXCEPT !.enr = "pending"])
        /\ told' = told \cup {"enr"}

-----------------------------------------------------------------------------
(* Valuator: one transaction reads the row and writes its valuation.       *)

ValueLoad ==
  /\ Goto("valuator", "claimed", "tx") /\ Load("valuator")
  /\ UNCHANGED <<kind, row, note, told, raced, faults>>

\* The row is priced (done or insufficient).
Valued(r, st) ==
  [r EXCEPT !.vprice = r.price, !.venriched = r.enriched, !.vcond = r.cond, !.val = st]

\* The sources leave a lot's make, model and year to the enricher.
ValueCommit ==
  /\ kind = "auction" => seen["valuator"].enriched # 0
  /\ Commit("valuator", "tx", Valued(seen["valuator"], "done"))
  /\ UNCHANGED <<told, faults>>

\* The row lacks its auction, make, model or year.
ValueSkip ==
  /\ Commit("valuator", "tx", [seen["valuator"] EXCEPT !.val = "skipped"])
  /\ UNCHANGED <<told, faults>>

\* The transaction raises and is rolled back; a second one writes the failure.
ValueError ==
  /\ Goto("valuator", "tx", "failing")
  /\ Fault
  /\ seen' = [seen EXCEPT !["valuator"] = Nothing]
  /\ UNCHANGED <<kind, row, note, told, raced>>

ValueFailLoad ==
  /\ Goto("valuator", "failing", "failed")
  /\ seen' = [seen EXCEPT !["valuator"] = row]
  /\ UNCHANGED <<kind, row, note, told, raced, faults>>

\* To be retried (the batch ends with a NOTIFY), or the budget is spent.
ValueFail ==
  /\ \E s \in {"failed", "pending"} :
       /\ Commit("valuator", "failed", [seen["valuator"] EXCEPT !.val = s])
       /\ told' = IF s = "pending" THEN told \cup {"val"} ELSE told
  /\ UNCHANGED faults

-----------------------------------------------------------------------------
(* Bid poller.                                                             *)

\* poll_bid() outside any transaction; only auctions are polled.  A poll that
\* sees no new bid writes nothing of this row and is left out.
PollRead ==
  /\ kind = "auction"
  /\ Begin("poller", "away")
  /\ row.price < MaxPrice
  /\ note' = [note EXCEPT !["poller"].price = row.price + 1]
  /\ UNCHANGED <<kind, row, seen, told, raced, faults>>

PollLoad ==
  /\ Goto("poller", "away", "tx") /\ Load("poller")
  /\ UNCHANGED <<kind, row, note, told, raced, faults>>

\* mutant: a new bid does not reset the valuation
PollCommitOnly ==
  /\ Commit("poller", "tx", [seen["poller"] EXCEPT !.price = note["poller"].price])
  /\ UNCHANGED <<told, faults>>

\* mutant: the valuation is reset, the valuator is not notified
PollCommitSilently ==
  /\ Commit("poller", "tx", [seen["poller"] EXCEPT !.price = note["poller"].price,
                                                   !.val = "pending"])
  /\ UNCHANGED <<told, faults>>

\* _write_observation
PollCommit ==
  LET r == seen["poller"]
      new == note["poller"].price
  IN  /\ Commit("poller", "tx",
           IF new = r.price THEN r ELSE [r EXCEPT !.price = new, !.val = "pending"])
      /\ told' = IF new = r.price THEN told ELSE told \cup {"val"}
      /\ UNCHANGED faults

-----------------------------------------------------------------------------
(* Vision batcher: only lots with a deal score are on the shortlist.       *)

VisionRead ==
  /\ kind = "auction"
  /\ row.vis = "pending" /\ row.vprice # 0
  /\ Begin("vision", "away")
  /\ UNCHANGED <<kind, row, seen, note, told, raced, faults>>

VisionLoad ==
  /\ Goto("vision", "away", "tx") /\ Load("vision")
  /\ UNCHANGED <<kind, row, note, told, raced, faults>>

\* The photos agree; or there are none; or the model fails, which is terminal
\* too and counts as "done" here.
VisionPlain(s) ==
  /\ Commit("vision", "tx", [seen["vision"] EXCEPT !.vis = s])
  /\ UNCHANGED <<told, faults>>

\* mutant: the override does not ask for a new valuation
VisionOverrideQuietly ==
  /\ seen["vision"].cond = "described"
  /\ Commit("vision", "tx", [seen["vision"] EXCEPT !.vis = "done", !.cond = "seen"])
  /\ UNCHANGED <<told, faults>>

\* The pessimistic override: the photos show a worse condition than the one on
\* the row; nothing is compared with a condition that is not known yet.
VisionOverride ==
  /\ seen["vision"].cond = "described"
  /\ Commit("vision", "tx", [seen["vision"] EXCEPT !.vis = "done", !.cond = "seen",
                                             !.val = "pending"])
  /\ told' = told \cup {"val"}
  /\ UNCHANGED faults

-----------------------------------------------------------------------------

Enricher ==
  EnrichRead \/ EnrichLoad \/ EnrichDone \/ EnrichSkip \/ EnrichFail

Valuator ==
  ValueLoad \/ ValueCommit \/ ValueSkip \/ ValueError \/ ValueFailLoad \/ ValueFail

Poller == PollRead \/ PollLoad \/ PollCommit

Vision ==
  VisionRead \/ VisionLoad \/ VisionOverride \/ \E s \in {"done", "skipped"} : VisionPlain(s)

Next ==
  \/ Enricher \/ Valuator \/ Poller \/ Vision
  \/ IngestLoad \/ IngestCommit
  \/ \E a \in Workers : Claim(a) \/ Ignore(a) \/ Restart(a)
  \/ \E a \in Programs : Crash(a)

Spec == Init /\ [][Next]_vars

\* StageQueue shows that a notified or sweeping stage claims its pending rows;
\* systemd restarts a dead worker; a program that is at work on the row gets on
\* with it (its network calls have timeouts).  A row nobody was told about may
\* wait forever, and nothing makes a producer start.
FairSpec ==
  /\ Spec
  /\ \A a \in Workers : WF_vars(Column[a] \in told /\ Claim(a)) /\ WF_vars(Restart(a))
  /\ WF_vars(Enricher) /\ WF_vars(Valuator)
  /\ WF_vars(PollLoad \/ PollCommit)
  /\ WF_vars(pc["vision"] # "idle" /\ Vision)
  /\ WF_vars(IngestCommit)

-----------------------------------------------------------------------------
(* Properties.                                                             *)

\* Type invariant, with the life of a transaction: a worker that holds the row has
\* claimed it, and only a program in a transaction has the row loaded.
TypeOK ==
  /\ kind \in {"auction", "listing"}
  /\ {row.content, row.enriched, row.venriched} \subseteq 0 .. MaxContent
  /\ {row.price, row.vprice} \subseteq 0 .. MaxPrice
  /\ {row.cond, row.vcond} \subseteq {"none", "described", "seen"}
  /\ {row.enr, row.val} \subseteq {"pending", "in_progress", "done", "skipped", "failed"}
  /\ row.vis \in {"pending", "done", "skipped"}
  /\ row.enriched <= row.content /\ row.venriched <= row.content
  /\ row.vprice <= row.price
  /\ \A a \in Programs : seen[a] # Nothing => pc[a] \in {"tx", "failed"}
  /\ \A a \in Programs : note[a] # NoNote => pc[a] \in {"away", "tx"}
  /\ told \subseteq {"enr", "val"}
  /\ raced \subseteq Programs
  /\ overlaps \in 0 .. MaxOverlaps
  /\ faults \in 0 .. MaxFaults

\* A deal score that counts as done was computed from the last price, unless one
\* of the three programs that move price or valuation_status together has
\* committed over a concurrent change of the row.
PriceFresh ==
  row.val = "done" /\ raced \cap {"valuator", "poller", "ingester"} = {}
    => row.vprice = row.price

\* It was computed from the last enrichment and the last condition, unless the
\* valuator or a program that changes them has committed over a concurrent change.
FactsFresh ==
  row.val = "done" /\ raced \cap {"valuator", "enricher", "vision"} = {}
    => row.venriched = row.enriched /\ row.vcond = row.cond

\* An enrichment that counts as done is one of the content the row shows, unless
\* the enricher or the ingester has committed over the other's change.
EnrichedFresh ==
  row.enr = "done" /\ raced \cap {"enricher", "ingester"} = {}
    => row.enriched = row.content

\* The chain of wake-ups: a pending enrichment has been told to the enricher; a
\* pending valuation to the valuator, or an enrichment that will ask for it is
\* still to come -- or has failed, in which case nobody ever will.  A row the
\* want-gate dropped while it changed may be left behind, and one whose reset
\* of the enrichment the ingester's own commit left out.
WakeChain ==
  /\ row.enr = "pending" => "enr" \in told \/ pc["enricher"] = "down"
  /\ row.val = "pending" =>
       \/ "val" \in told \/ pc["valuator"] = "down"
       \/ row.enr \in {"pending", "in_progress", "failed"}
       \/ row.enr = "skipped" /\ "enricher" \in raced
       \/ row.enr \in {"done", "skipped"} /\ "ingester" \in raced

\* Every new price is scored in the end, or the row leaves the pipeline.
PriceEventuallyScored ==
  row.vprice # row.price ~>
    \/ row.vprice = row.price
    \/ row.val \in {"skipped", "failed"} \/ row.enr = "failed"
    \/ raced # {}

\* Every new content is enriched in the end, or the row leaves the pipeline.
ContentEventuallyEnriched ==
  row.enriched # row.content ~>
    \/ row.enriched = row.content
    \/ row.enr \in {"skipped", "failed"}
    \/ raced \cap {"enricher", "ingester"} # {}

\* "A bid change is the only signal that re-valuation is needed ... so the
\* valuator recomputes price_deal_score with the latest bid" (poller.py:8-12): a
\* lot whose valuation is done is scored at its latest bid.
BidRevalued ==
  kind = "auction" /\ row.val = "done" => row.vprice = row.price

=============================================================================
