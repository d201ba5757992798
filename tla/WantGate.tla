------------------------------ MODULE WantGate ------------------------------
(***************************************************************************)
(* Which wants an offer satisfies, asked three times: coarsely of the      *)
(* scraped text, when the ingester sees an auction lot and again when the  *)
(* enricher starts on it, and precisely of the enriched facts, when the    *)
(* valuator evaluates it against the wants or a new want is backfilled     *)
(* with the offers already valued.  Wants are created, muted and deleted   *)
(* meanwhile, the price of the offer moves, the offer ends, and enricher   *)
(* and valuator may both be at work on it.                                 *)
(*                                                                         *)
(* A text is the set of terms it contains as substrings, case aside.  How  *)
(* long a match lives and who hears of it is WantDelivery's subject; a     *)
(* rescrape of changed content, failures of the workers and two valuations *)
(* of one row at a time are Pipeline's and StageQueue's.                   *)
(***************************************************************************)
EXTENDS Integers, FiniteSets

CONSTANTS Wants,
          Criteria, \* the criteria of a want (see CriteriaOK)
          Raws,     \* what may be scraped: records [kind, text, facts]
          Facts,    \* what the enricher may make of it
          BackfillLimit, \* _BACKFILL_LIMIT
          MaxOthers, \* bound: the other offers of its kind that a backfill selects
          MaxTurns,  \* bound: wants created, muted and unmuted
          MaxBids    \* bound: bids, changes of price and rescores

Null == -1
Unknown == "unknown"

\* Empty sets and Null are absent criteria; specs, an archetype's models, take the
\* place of the flat makes and models.
SpecOK(s) == s.makes # {} /\ s.models # {} /\ (s.min # Null /\ s.max # Null => s.min <= s.max)
CriteriaOK(c) ==
  /\ \A s \in c.specs : SpecOK(s)
  /\ c.min # Null /\ c.max # Null => c.min <= c.max

ASSUME WantGateAssumption ==
  /\ \A w \in Wants : CriteriaOK(Criteria[w])
  /\ \A r \in Raws : r.kind \in {"auction", "listing"} /\ r.facts \in Facts
  /\ "none" \notin Wants
  /\ {BackfillLimit, MaxOthers} \subseteq Nat
  /\ MaxTurns \in Nat /\ MaxBids \in Nat

VARIABLES
  raw,        \* what was scraped
  facts,      \* the columns of the row
  enrichment, \* enrichment_status; "none" while there is no row
  valuation,  \* valuation_status
  live,       \* the lot is open, the listing active
  want,       \* a want: "none", "on", "off" or "deleted"
  match,      \* the wants with a want_matches row for the offer
  enricher,   \* "idle", "skipping" or "enriching" the offer
  valuing,    \* the valuator's transaction on it: what it has read, [facts, wants]
  creation,   \* the transaction that creates a want: [want, found]
  turns,      \* number of turns so far
  bids,       \* number of bids so far
  gated,      \* history: the wants the gate last looked at
  excused     \* history: the wants the code promises no match for (see MatchNotMissed)

row == <<facts, enrichment, valuation, live>>
work == <<enricher, valuing>>
vars == <<raw, row, want, match, work, creation, turns, bids, gated, excused>>

NotValuing == [wants |-> {}]
NoCreation == [want |-> "none", found |-> FALSE]
Valuing == valuing # NotValuing
Valued == valuation \in {"done", "insufficient"}
Active == {w \in Wants : want[w] = "on"}

Init ==
  /\ raw \in Raws /\ facts = raw.facts
  /\ enrichment = "none" /\ valuation = "none" /\ live = TRUE
  /\ want \in [Wants -> {"none", "on"}]
  /\ match = {}
  /\ enricher = "idle" /\ valuing = NotValuing /\ creation = NoCreation
  /\ turns = 0 /\ bids = 0
  /\ gated = {} /\ excused = {}

Turn == turns < MaxTurns /\ turns' = turns + 1

-----------------------------------------------------------------------------
(* The matcher.                                                            *)

\* _in_set
InSet(value, allowed, lenient) ==
  allowed # {} => IF value = Unknown THEN lenient ELSE value \in allowed

Within(year, min, max) == (min # Null => year >= min) /\ (max # Null => year <= max)

\* mutant: the gate drops a lot whose year it does not know
YearKnownOk(year, c) == year # Null /\ Within(year, c.min, c.max)

\* _year_in_range of the matcher, _year_ok of the gate: an unknown year is dropped by
\* the one where the want has a range, and kept by the other.
YearInRange(year, c) == (c.min # Null \/ c.max # Null) => year # Null /\ Within(year, c.min, c.max)
YearOk(year, c) == year # Null => Within(year, c.min, c.max)

AtMost(value, ceiling) == ceiling # Null /\ value # Null => value <= ceiling

\* _condition_ok on ranks from 1 (bad) to 5 (great), 0 where it is not rated.
ConditionOk(f, floor) == floor # Null /\ ~f.sparse /\ f.condition # 0 => f.condition >= floor

Identifies(c, f) ==
  /\ InSet(f.make, c.makes, FALSE) /\ InSet(f.model, c.models, FALSE)
  /\ YearInRange(f.year, c) /\ InSet(f.trim, c.trims, TRUE)

\* matches, with what the offer costs and where it is among its facts
Matches(c, f) ==
  /\ ~f.showstopper
  /\ IF c.specs # {} THEN \E s \in c.specs : Identifies(s, f) ELSE Identifies(c, f)
  /\ InSet(f.drive, c.drives, TRUE)
  /\ AtMost(f.price, c.ceiling) /\ AtMost(f.km, c.maxkm)
  /\ InSet(f.province, c.provinces, FALSE)
  /\ ConditionOk(f, c.floor)

AnyTermIn(terms, text) == terms # {} => terms \cap text # {}

Resembles(c, r) ==
  AnyTermIn(c.makes, r.text) /\ AnyTermIn(c.models, r.text) /\ YearOk(r.facts.year, c)

\* could_match_any_want
CouldMatchAny(r, ws) ==
  \E w \in ws : LET c == Criteria[w]
                IN  IF c.specs # {} THEN \E s \in c.specs : Resembles(s, r) ELSE Resembles(c, r)

-----------------------------------------------------------------------------
(* The wants.                                                              *)

\* backfill_want selects the open lots and active listings that are valued, not short of
\* comps, and have a make; of each, a LIMIT without ORDER BY returns any so many.
Backfillable == live /\ valuation = "done" /\ facts.make # Unknown
MayReturn(returned) == returned \/ MaxOthers >= BackfillLimit

\* The dashboard or the bot inserts a want and backfills it, in one transaction.
CreateWant(w) ==
  /\ want[w] = "none" /\ creation = NoCreation /\ Turn
  /\ \E returned \in BOOLEAN :
       LET selected == Backfillable /\ returned IN
       /\ MayReturn(returned)
       /\ creation' = [want |-> w, found |-> selected /\ Matches(Criteria[w], facts)]
       /\ excused' = IF Valued /\ ~selected THEN excused \cup {w} ELSE excused
  /\ UNCHANGED <<raw, row, want, match, work, bids, gated>>

WantCreated ==
  /\ creation # NoCreation
  /\ want' = [want EXCEPT ![creation.want] = "on"]
  /\ match' = IF creation.found THEN match \cup {creation.want} ELSE match
  /\ excused' = IF Valuing THEN excused \cup {creation.want} ELSE excused
  /\ creation' = NoCreation
  /\ UNCHANGED <<raw, row, work, turns, bids, gated>>

\* Unmuting a want does not backfill it.
ToggleWant(w) ==
  /\ want[w] \in {"on", "off"} /\ Turn
  /\ want' = [want EXCEPT ![w] = IF @ = "on" THEN "off" ELSE "on"]
  /\ excused' = excused \cup {w}
  /\ UNCHANGED <<raw, row, match, work, creation, bids, gated>>

DeleteWant(w) ==
  /\ want[w] \in {"on", "off"}
  /\ want' = [want EXCEPT ![w] = "deleted"]
  /\ match' = match \ {w}
  /\ UNCHANGED <<raw, row, work, creation, turns, bids, gated, excused>>

-----------------------------------------------------------------------------
(* The offer.                                                              *)

\* The ingester sees the offer, now or in a later run; a lot may be over by then.  A
\* listing was found by a want's own search and is not gated.
Ingest ==
  /\ enrichment = "none" /\ Active # {}
  /\ IF raw.kind = "listing" \/ CouldMatchAny(raw, Active)
     THEN /\ enrichment' = "pending" /\ valuation' = "pending"
          /\ live' \in (IF raw.kind = "listing" THEN {TRUE} ELSE BOOLEAN)
          /\ UNCHANGED gated
     ELSE gated' = Active /\ UNCHANGED <<enrichment, valuation, live>>
  /\ UNCHANGED <<raw, facts, want, match, work, creation, turns, bids, excused>>

\* The poller closes the lot, for good.
Close ==
  /\ raw.kind = "auction" /\ enrichment # "none" /\ live
  /\ live' = FALSE
  /\ UNCHANGED <<raw, facts, enrichment, valuation, want, match, work, creation, turns, bids,
                 gated, excused>>

\* A pull no longer sees the listing; a later one sees it again.
Disappear ==
  /\ raw.kind = "listing" /\ enrichment # "none" /\ live
  /\ live' = FALSE
  /\ UNCHANGED <<raw, facts, enrichment, valuation, want, match, work, creation, turns, bids,
                 gated, excused>>

Reappear ==
  /\ raw.kind = "listing" /\ enrichment # "none" /\ ~live
  /\ live' = TRUE
  /\ UNCHANGED <<raw, facts, enrichment, valuation, want, match, work, creation, turns, bids,
                 gated, excused>>

\* The valuator has to value the row again, whatever became of it before and whether
\* it has been enriched or not.
Revalue ==
  /\ enrichment # "none"
  /\ bids < MaxBids /\ bids' = bids + 1
  /\ valuation' = "pending"
  /\ UNCHANGED <<raw, enrichment, want, match, work, creation, turns, gated, excused>>

\* The facts at another price, as far as the wants tell prices apart; an observation
\* without a price changes nothing.
Repriced == {f \in Facts : f.price # Null /\ f = [facts EXCEPT !.price = f.price]}

\* The poller observes a bid, which may be the last.
Bid ==
  /\ raw.kind = "auction" /\ live
  /\ Revalue
  /\ facts' \in Repriced /\ live' \in BOOLEAN

\* A pull sees the listing at another price.
Reprice ==
  /\ raw.kind = "listing"
  /\ Revalue
  /\ facts' \in Repriced /\ live' = TRUE

Rescore == Revalue /\ UNCHANGED <<facts, live>>

\* The enricher reads the wants before anything else; without any it goes on.
StartEnrich ==
  /\ enrichment = "pending" /\ enricher = "idle"
  /\ gated' = Active
  /\ enricher' = IF Active # {} /\ ~CouldMatchAny(raw, Active) THEN "skipping" ELSE "enriching"
  /\ UNCHANGED <<raw, row, want, match, valuing, creation, turns, bids, excused>>

Skip ==
  /\ enricher = "skipping"
  /\ enrichment' = "skipped" /\ valuation' = "skipped"
  /\ enricher' = "idle"
  /\ UNCHANGED <<raw, facts, live, want, match, valuing, creation, turns, bids, gated, excused>>

\* What the model does not name keeps its scraped value; the price and the province are
\* not the model's to say.
Enrich ==
  /\ enricher = "enriching"
  /\ \E f \in Facts :
       /\ \A c \in {"make", "model", "trim", "drive"} : f[c] = Unknown => facts[c] = Unknown
       /\ \A c \in {"year", "km"} : f[c] = Null => facts[c] = Null
       /\ f.price = facts.price /\ f.province = facts.province
       /\ facts' = f
  /\ enrichment' = "done" /\ valuation' = "pending"
  /\ enricher' = "idle"
  /\ UNCHANGED <<raw, live, want, match, valuing, creation, turns, bids, gated, excused>>

\* A pending row is claimed, also one that is not enriched yet: after a bid, or in the
\* sweep of a valuator that starts.
StartValue ==
  /\ valuation = "pending" /\ ~Valuing
  /\ valuing' = [facts |-> facts, wants |-> Active]
  /\ UNCHANGED <<raw, row, want, match, enricher, creation, turns, bids, gated, excused>>

\* mutant: an offer that is valued again is not evaluated again
SatisfiedFirst(ws) == {w \in ws : bids = 0 /\ Matches(Criteria[w], valuing.facts)}

\* evaluate_lot_against_wants
Satisfied(ws) == {w \in ws : Matches(Criteria[w], valuing.facts)}

\* The wants that the valuation has not read: the one being created, or all if the
\* facts have changed since.
Unread ==
  (excused \ (IF facts = valuing.facts THEN valuing.wants ELSE {}))
  \cup (IF facts = valuing.facts THEN {} ELSE Active)
  \cup ({creation.want} \ {"none"})

\* value_one: an offer that is not identified is skipped.
SkipValue ==
  /\ Valuing
  /\ Unknown \in {valuing.facts.make, valuing.facts.model} \/ valuing.facts.year = Null
  /\ valuation' = "skipped"
  /\ valuing' = NotValuing
  /\ UNCHANGED <<raw, facts, enrichment, live, want, match, enricher, creation, turns, bids, gated,
                 excused>>

\* COMMIT, with a match for each want it has read, whatever has been written to the
\* status meanwhile; a match with a want that is gone violates its foreign key, and the
\* valuation is tried again.
Value ==
  /\ Valuing
  /\ Unknown \notin {valuing.facts.make, valuing.facts.model} /\ valuing.facts.year # Null
  /\ IF \E w \in Satisfied(valuing.wants) : want[w] = "deleted"
     THEN valuation' = "pending" /\ UNCHANGED <<match, excused>>
     ELSE /\ valuation' \in {"done", "insufficient"}
          /\ match' = match \cup Satisfied(valuing.wants)
          /\ excused' = Unread
  /\ valuing' = NotValuing
  /\ UNCHANGED <<raw, facts, enrichment, live, want, enricher, creation, turns, bids, gated>>

-----------------------------------------------------------------------------
Next ==
  \/ \E w \in Wants : CreateWant(w) \/ ToggleWant(w) \/ DeleteWant(w)
  \/ WantCreated
  \/ Ingest \/ Close \/ Disappear \/ Reappear \/ Bid \/ Reprice \/ Rescore
  \/ StartEnrich \/ Skip \/ Enrich \/ StartValue \/ SkipValue \/ Value

Spec == Init /\ [][Next]_vars

-----------------------------------------------------------------------------
(* Properties.                                                             *)

\* Every variable has its type.
TypeOK ==
  /\ raw \in Raws /\ facts \in Facts
  /\ enrichment \in {"none", "pending", "skipped", "done"}
  /\ valuation \in {"none", "pending", "skipped", "done", "insufficient"}
  /\ live \in BOOLEAN
  /\ want \in [Wants -> {"none", "on", "off", "deleted"}]
  /\ match \subseteq Wants /\ gated \subseteq Wants /\ excused \subseteq Wants
  /\ enricher \in {"idle", "skipping", "enriching"}
  /\ valuing = NotValuing \/ valuing \in [facts : Facts, wants : SUBSET Wants]
  /\ creation = NoCreation \/ creation \in [want : Wants, found : BOOLEAN]
  /\ turns \in 0..MaxTurns /\ bids \in 0..MaxBids

\* An enrichment that names make and model as the listing does, and does not correct a
\* year the listing states.
Faithful(f) ==
  {f.make, f.model} \subseteq raw.text /\ (raw.facts.year # Null => f.year = raw.facts.year)

\* The gate turns away no offer that, faithfully enriched, one of the wants it has
\* looked at would match: the LLM's work is saved only where it could change nothing
\* (matcher.py, could_match_any_want against matches).
GateSound ==
  enricher = "skipping" \/ (enrichment = "none" /\ gated # {})
    => \A w \in gated, f \in Facts : Faithful(f) => ~Matches(Criteria[w], f)

\* A valued offer, open or over, has a match with every enabled want it satisfies, but
\* for the wants that since its last valuation
\*   - were unmuted,
\*   - were created when the offer was short of comps, or over, or one of more valued
\*     offers than a backfill reads,
\*   - were committed while it was being valued, so that neither saw the other,
\* and for an offer whose facts or price changed while it was being valued.
\* (service.py, evaluate_lot_against_wants and backfill_want)
MatchNotMissed == Valued => \A w \in Active : Matches(Criteria[w], facts) => w \in match \cup excused
=============================================================================
