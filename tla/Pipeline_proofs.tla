-------------------------- MODULE Pipeline_proofs --------------------------
(***************************************************************************)
(* Proofs about Pipeline, for any number of versions, overlaps and faults: *)
(*   TypeCorrect        Spec => []TypeOK                                   *)
(*   ScoreFollowsPrice  Spec => []PriceFresh                               *)
(*   ScoreFollowsFacts  Spec => []FactsFresh                               *)
(*   EnrichmentFollows  Spec => []EnrichedFresh                            *)
(*   ChainUnbroken      Spec => []WakeChain                                *)
(* The first part says of each commit which columns it writes, and what;   *)
(* the rest uses only that.                                                *)
(***************************************************************************)
EXTENDS Pipeline, TLAPS

Cond == {"none", "described", "seen"}
Stage == {"pending", "in_progress", "done", "skipped", "failed"}
Row == [content : 1..MaxContent, price : 1..MaxPrice,
        enriched : 0..MaxContent, cond : Cond,
        vprice : 0..MaxPrice, venriched : 0..MaxContent, vcond : Cond,
        enr : Stage, val : Stage, vis : {"pending", "done", "skipped"}]
Note == [content : 0..MaxContent, price : 0..MaxPrice]

Typed ==
  /\ kind \in {"auction", "listing"}
  /\ row \in Row
  /\ pc \in [Programs -> {"idle", "claimed", "away", "tx", "failing", "failed", "down"}]
  /\ seen \in [Programs -> Row]
  /\ note \in [Programs -> Note]
  /\ told \subseteq {"enr", "val"}
  /\ raced \subseteq Programs
  /\ overlaps \in 0 .. MaxOverlaps
  /\ faults \in 0 .. MaxFaults

\* A program holds a loaded row, or a version it carries, only while it is at work.
Life ==
  /\ \A a \in Programs : seen[a] # Nothing => pc[a] \in {"tx", "failed"}
  /\ \A a \in Programs : note[a] # NoNote => pc[a] \in {"away", "tx"}
  /\ note["valuator"] = NoNote

\* Versions only grow: what a program has loaded, or derived, is not ahead of the row.
Behind ==
  /\ row.enriched <= row.content /\ row.venriched <= row.content /\ row.vprice <= row.price
  /\ \A a \in Programs : /\ seen[a].content <= row.content /\ seen[a].price <= row.price
                         /\ seen[a].enriched <= seen[a].content
  /\ note["enricher"].content <= row.content

\* Content has one writer, the ingester, and so has the price: the poller of a lot, the
\* ingester of a listing.
OneWriter ==
  /\ pc["ingester"] = "tx" =>
       /\ seen["ingester"].content = row.content /\ note["ingester"].content >= row.content
       /\ kind = "auction" => note["ingester"].price = seen["ingester"].price
       /\ kind = "listing" => note["ingester"].price >= row.price
  /\ pc["poller"] \in {"away", "tx"} => kind = "auction" /\ note["poller"].price >= row.price

TypeInv == Typed /\ Life /\ Behind /\ OneWriter

-----------------------------------------------------------------------------
(* What the commits do to the row.                                         *)

\* A column is written if it was assigned another value than it was loaded with; if
\* the program has worked from what is still the case, the row is now what it made of it.
LEMMA CommitStep ==
  ASSUME TypeInv, NEW a \in Programs, NEW from, NEW new \in Row, Commit(a, from, new)
  PROVE  /\ row' \in Row
         /\ row'.content = IF new.content # seen[a].content THEN new.content ELSE row.content
         /\ row'.price = IF new.price # seen[a].price THEN new.price ELSE row.price
         /\ row'.enriched = IF new.enriched # seen[a].enriched THEN new.enriched ELSE row.enriched
         /\ row'.cond = IF new.cond # seen[a].cond THEN new.cond ELSE row.cond
         /\ row'.vprice = IF new.vprice # seen[a].vprice THEN new.vprice ELSE row.vprice
         /\ row'.venriched = IF new.venriched # seen[a].venriched THEN new.venriched
                             ELSE row.venriched
         /\ row'.vcond = IF new.vcond # seen[a].vcond THEN new.vcond ELSE row.vcond
         /\ row'.enr = IF new.enr # seen[a].enr THEN new.enr ELSE row.enr
         /\ row'.val = IF new.val # seen[a].val THEN new.val ELSE row.val
         /\ row'.vis = IF new.vis # seen[a].vis THEN new.vis ELSE row.vis
<1> DEFINE Col == {"content", "price", "enriched", "cond", "vprice", "venriched", "vcond",
                   "enr", "val", "vis"}
<1>1. row \in Row /\ seen[a] \in Row
  BY Zenon DEF TypeInv, Typed
<1>2. DOMAIN row = Col
  BY <1>1 DEF Row
<1>3. row' = [c \in Col |-> IF new[c] # seen[a][c] THEN new[c] ELSE row[c]]
  BY <1>2, Zenon DEF Commit
<1>4. /\ row'.content = IF new.content # seen[a].content THEN new.content ELSE row.content
      /\ row'.price = IF new.price # seen[a].price THEN new.price ELSE row.price
      /\ row'.enriched = IF new.enriched # seen[a].enriched THEN new.enriched ELSE row.enriched
      /\ row'.cond = IF new.cond # seen[a].cond THEN new.cond ELSE row.cond
      /\ row'.vprice = IF new.vprice # seen[a].vprice THEN new.vprice ELSE row.vprice
  BY <1>3
<1>5. /\ row'.venriched = IF new.venriched # seen[a].venriched THEN new.venriched
                          ELSE row.venriched
      /\ row'.vcond = IF new.vcond # seen[a].vcond THEN new.vcond ELSE row.vcond
      /\ row'.enr = IF new.enr # seen[a].enr THEN new.enr ELSE row.enr
      /\ row'.val = IF new.val # seen[a].val THEN new.val ELSE row.val
      /\ row'.vis = IF new.vis # seen[a].vis THEN new.vis ELSE row.vis
  BY <1>3
<1>6. row' \in Row
  <2>1. /\ row'.content \in 1..MaxContent /\ row'.price \in 1..MaxPrice
        /\ row'.enriched \in 0..MaxContent /\ row'.cond \in Cond
        /\ row'.vprice \in 0..MaxPrice
    BY <1>1, <1>4 DEF Row
  <2>2. /\ row'.venriched \in 0..MaxContent /\ row'.vcond \in Cond
        /\ row'.enr \in Stage /\ row'.val \in Stage /\ row'.vis \in {"pending", "done", "skipped"}
    BY <1>1, <1>5 DEF Row
  <2>3. row' = [content |-> row'.content, price |-> row'.price, enriched |-> row'.enriched,
                cond |-> row'.cond, vprice |-> row'.vprice, venriched |-> row'.venriched,
                vcond |-> row'.vcond, enr |-> row'.enr, val |-> row'.val, vis |-> row'.vis]
    BY <1>3
  <2>4. QED
    BY <2>1, <2>2, <2>3 DEF Row
<1>7. QED
  BY <1>4, <1>5, <1>6

\* The rest of a commit.  What it writes is up to date unless it counts as raced.
LEMMA CommitRest ==
  ASSUME TypeInv, NEW a \in Programs, NEW from, NEW new, Commit(a, from, new)
  PROVE  /\ kind' = kind /\ overlaps' = overlaps
         /\ pc[a] = from /\ pc' = [pc EXCEPT ![a] = "idle"]
         /\ seen' = [seen EXCEPT ![a] = Nothing] /\ note' = [note EXCEPT ![a] = NoNote]
         /\ raced' \in {raced, raced \cup {a}}
         /\ \/ a \in raced'
            \/ row = seen[a] /\ (a = "enricher" => note[a].content = row.content)
  BY DEF Commit, Goto, Outdated

\* A commit keeps the types if it does not set versions back, derives from none ahead of
\* the row, and leaves content and price to their writers.
LEMMA CommitTyped ==
  ASSUME TypeInv, NEW a \in Programs, NEW from, NEW new \in Row, Commit(a, from, new),
         told' \subseteq {"enr", "val"}, faults' \in 0 .. MaxFaults,
         row.content <= row'.content, row.price <= row'.price,
         a # "ingester" => row'.content = row.content,
         kind = "auction" /\ a # "poller" => row'.price = row.price,
         kind = "listing" /\ a # "ingester" => row'.price = row.price,
         row'.enriched <= row'.content, row'.venriched <= row'.content,
         row'.vprice <= row'.price
  PROVE  TypeInv'
<1>1. /\ kind' = kind /\ overlaps' = overlaps /\ pc' = [pc EXCEPT ![a] = "idle"]
      /\ seen' = [seen EXCEPT ![a] = Nothing] /\ note' = [note EXCEPT ![a] = NoNote]
      /\ raced' \in {raced, raced \cup {a}}
  BY CommitRest, Zenon
<1>2. row' \in Row
  BY CommitStep, Zenon
<1>3. Nothing \in Row /\ NoNote \in Note
  BY PipelineAssumption DEF Nothing, Inserted, NoNote, Row, Note, Cond, Stage
<1>4. /\ pc \in [Programs -> {"idle", "claimed", "away", "tx", "failing", "failed", "down"}]
      /\ seen \in [Programs -> Row] /\ note \in [Programs -> Note] /\ row \in Row
      /\ overlaps \in 0 .. MaxOverlaps /\ raced \subseteq Programs
      /\ kind \in {"auction", "listing"}
  BY Zenon DEF TypeInv, Typed
<1>5. Typed'
  <2>1. /\ pc' \in [Programs -> {"idle", "claimed", "away", "tx", "failing", "failed", "down"}]
        /\ seen' \in [Programs -> Row] /\ note' \in [Programs -> Note]
    BY <1>1, <1>3, <1>4
  <2>2. raced' \subseteq Programs
    BY <1>1, <1>4
  <2>3. QED
    BY <1>1, <1>2, <1>4, <2>1, <2>2, Zenon DEF Typed
<1>6. \A b \in Programs : \/ pc'[b] = "idle" /\ seen'[b] = Nothing /\ note'[b] = NoNote
                          \/ pc'[b] = pc[b] /\ seen'[b] = seen[b] /\ note'[b] = note[b] /\ b # a
  BY <1>1, <1>4
<1>7. Life'
  BY <1>6 DEF TypeInv, Life, Programs, Workers
<1>8. Behind'
  <2>1. Nothing.content = 1 /\ Nothing.price = 1 /\ Nothing.enriched = 0 /\ NoNote.content = 0
    BY DEF Nothing, Inserted, NoNote
  <2>2. row.content \in Nat /\ row.price \in Nat /\ row'.content \in Nat \ {0} /\ row'.price \in Nat \ {0}
    BY <1>2, <1>4, PipelineAssumption DEF Row
  <2>3. ASSUME NEW b \in Programs
        PROVE  /\ seen'[b].content <= row'.content /\ seen'[b].price <= row'.price
               /\ seen'[b].enriched <= seen'[b].content
    <3>1. seen[b].content \in Nat /\ seen[b].price \in Nat
      BY <1>4, PipelineAssumption DEF Row
    <3>2. /\ seen[b].content <= row.content /\ seen[b].price <= row.price
          /\ seen[b].enriched <= seen[b].content
      BY Zenon DEF TypeInv, Behind
    <3>3. QED
      BY <1>6, <2>1, <2>2, <3>1, <3>2
  <2>4. note'["enricher"].content <= row'.content
    <3>1. note["enricher"].content \in Nat /\ "enricher" \in Programs
      BY <1>4 DEF Note, Programs, Workers
    <3>2. note["enricher"].content <= row.content
      BY Zenon DEF TypeInv, Behind
    <3>3. QED
      BY <1>6, <2>1, <2>2, <3>1, <3>2
  <2>5. QED
    BY <2>3, <2>4 DEF Behind
<1>9. OneWriter'
  <2>1. "ingester" \in Programs /\ "poller" \in Programs
    BY DEF Programs
  <2>2. CASE a = "ingester"
    BY <1>1, <1>4, <1>6, <2>1, <2>2 DEF TypeInv, OneWriter
  <2>3. CASE a = "poller"
    BY <1>1, <1>4, <1>6, <2>1, <2>3 DEF TypeInv, OneWriter
  <2>4. CASE a \notin {"ingester", "poller"}
    BY <1>1, <1>4, <1>6, <2>1, <2>4 DEF TypeInv, OneWriter
  <2>5. QED
    BY <2>2, <2>3, <2>4
<1>10. QED
  BY <1>5, <1>7, <1>8, <1>9 DEF TypeInv

\* What a program has to go by.
LEMMA Loaded ==
  ASSUME TypeInv, NEW a \in Programs
  PROVE  /\ seen[a] \in Row /\ note[a].content \in 0..MaxContent /\ note[a].price \in 0..MaxPrice
         /\ row \in Row /\ row.content \in Nat /\ row.price \in Nat
         /\ told \subseteq {"enr", "val"} /\ faults \in 0..MaxFaults
         /\ row.enriched <= row.content /\ row.venriched <= row.content
         /\ row.vprice <= row.price
         /\ seen[a].content <= row.content /\ seen[a].price <= row.price
         /\ seen[a].enriched <= seen[a].content
<1>1. seen \in [Programs -> Row] /\ note \in [Programs -> Note] /\ row \in Row
  BY Zenon DEF TypeInv, Typed
<1>2. seen[a] \in Row /\ note[a].content \in 0..MaxContent /\ note[a].price \in 0..MaxPrice
  BY <1>1 DEF Note
<1>3. row.content \in Nat /\ row.price \in Nat
  BY <1>1, PipelineAssumption DEF Row
<1>4. told \subseteq {"enr", "val"} /\ faults \in 0..MaxFaults
  BY Zenon DEF TypeInv, Typed
<1>5. QED
  BY <1>1, <1>2, <1>3, <1>4, Zenon DEF TypeInv, Behind

\* The enricher writes the enrichment, and asks for a valuation, unless the row leaves
\* the pipeline or is retried.
LEMMA EnrichStep ==
  ASSUME TypeInv, EnrichDone \/ EnrichSkip \/ EnrichFail
  PROVE  /\ TypeInv' /\ raced \subseteq raced' /\ told \subseteq told'
         /\ pc' = [pc EXCEPT !["enricher"] = "idle"] /\ pc["enricher"] = "tx"
         /\ row'.content = row.content /\ row'.price = row.price /\ row'.vprice = row.vprice
         /\ row'.venriched = row.venriched /\ row'.vcond = row.vcond
         /\ row'.val \in {row.val, "pending", "skipped"}
         /\ \/ "enricher" \in raced'
            \/ /\ row'.enr = "done" => row'.enriched = row.content
               /\ row'.val = "done" => row'.enriched = row.enriched /\ row'.cond = row.cond
         /\ row'.enr = "pending" => row.enr = "pending" \/ "enr" \in told'
         /\ row'.val = "pending" => \/ "val" \in told'
                                    \/ row'.enr \in {"pending", "failed"}
                                    \/ row'.enr = "skipped" /\ "enricher" \in raced'
                                    \/ row.val = "pending" /\ row'.enr = row.enr
<1> DEFINE s == seen["enricher"]
           n == note["enricher"].content
<1>1. "enricher" \in Programs
  BY DEF Programs, Workers
<1>2. /\ s \in Row /\ row \in Row /\ n \in 0..MaxContent /\ row.content \in Nat /\ row.price \in Nat
      /\ told \subseteq {"enr", "val"} /\ faults \in 0..MaxFaults
      /\ row.enriched <= row.content /\ row.venriched <= row.content /\ row.vprice <= row.price
  BY <1>1, Loaded
<1>3. n <= row.content
  BY Zenon DEF TypeInv, Behind
<1>4. CASE EnrichDone
  <2> DEFINE new == [s EXCEPT !.enriched = n, !.cond = "described", !.enr = "done", !.val = "pending"]
  <2>1. Commit("enricher", "tx", new) /\ told' = told \cup {"val"} /\ faults' = faults
    BY <1>4 DEF EnrichDone
  <2>2. /\ new \in Row
        /\ new.content = s.content /\ new.price = s.price /\ new.enriched = n
        /\ new.cond = "described" /\ new.vprice = s.vprice /\ new.venriched = s.venriched
        /\ new.vcond = s.vcond /\ new.enr = "done" /\ new.val = "pending" /\ new.vis = s.vis
    BY <1>2 DEF Row, Cond, Stage
  <2> HIDE DEF new
  <2>3. /\ row'.content = row.content /\ row'.price = row.price
        /\ row'.enriched = IF n # s.enriched THEN n ELSE row.enriched
        /\ row'.vprice = row.vprice /\ row'.venriched = row.venriched /\ row'.vcond = row.vcond
        /\ row'.enr = IF s.enr # "done" THEN "done" ELSE row.enr
        /\ row'.val = IF s.val # "pending" THEN "pending" ELSE row.val
        /\ row'.cond = IF s.cond # "described" THEN "described" ELSE row.cond
    BY <1>1, <2>1, <2>2, CommitStep
  <2>4. TypeInv'
    BY <1>1, <1>2, <1>3, <2>1, <2>2, <2>3, CommitTyped
  <2>5. /\ pc["enricher"] = "tx" /\ pc' = [pc EXCEPT !["enricher"] = "idle"]
        /\ raced \subseteq raced'
        /\ "enricher" \in raced' \/ (row = s /\ n = row.content)
    BY <1>1, <2>1, CommitRest
  <2>6. QED
    BY <2>1, <2>3, <2>4, <2>5
<1>5. CASE EnrichSkip
  <2> DEFINE new == [s EXCEPT !.enr = "skipped", !.val = "skipped"]
  <2>1. Commit("enricher", "tx", new) /\ told' = told /\ faults' = faults
    BY <1>5 DEF EnrichSkip
  <2>2. /\ new \in Row
        /\ new.content = s.content /\ new.price = s.price /\ new.enriched = s.enriched
        /\ new.cond = s.cond /\ new.vprice = s.vprice /\ new.venriched = s.venriched
        /\ new.vcond = s.vcond /\ new.enr = "skipped" /\ new.val = "skipped" /\ new.vis = s.vis
    BY <1>2 DEF Row, Cond, Stage
  <2> HIDE DEF new
  <2>3. /\ row'.content = row.content /\ row'.price = row.price
        /\ row'.enriched = row.enriched /\ row'.cond = row.cond
        /\ row'.vprice = row.vprice /\ row'.venriched = row.venriched /\ row'.vcond = row.vcond
        /\ row'.enr = IF s.enr # "skipped" THEN "skipped" ELSE row.enr
        /\ row'.val = IF s.val # "skipped" THEN "skipped" ELSE row.val
    BY <1>1, <2>1, <2>2, CommitStep
  <2>4. TypeInv'
    BY <1>1, <1>2, <1>3, <2>1, <2>2, <2>3, CommitTyped
  <2>5. /\ pc["enricher"] = "tx" /\ pc' = [pc EXCEPT !["enricher"] = "idle"]
        /\ raced \subseteq raced'
        /\ "enricher" \in raced' \/ row = s
    BY <1>1, <2>1, CommitRest
  <2>6. QED
    BY <2>1, <2>3, <2>4, <2>5
<1>6. CASE EnrichFail
  <2> DEFINE Failed(st) == Commit("enricher", "tx", [s EXCEPT !.enr = st])
  <2>0. /\ faults' = faults + 1 /\ faults < MaxFaults
        /\ \/ Failed("failed") /\ told' = told
           \/ Failed("pending") /\ told' = told \cup {"enr"}
    BY <1>6 DEF EnrichFail, Fault
  <2> HIDE DEF Failed
  <2>1. PICK st \in {"failed", "pending"} :
          /\ Failed(st) /\ faults' = faults + 1 /\ faults < MaxFaults
          /\ told' = IF st = "pending" THEN told \cup {"enr"} ELSE told
    BY <2>0
  <2> DEFINE new == [s EXCEPT !.enr = st]
  <2>2. Commit("enricher", "tx", new)
    BY <2>1 DEF Failed
  <2>3. /\ new \in Row
        /\ new.content = s.content /\ new.price = s.price /\ new.enriched = s.enriched
        /\ new.cond = s.cond /\ new.vprice = s.vprice /\ new.venriched = s.venriched
        /\ new.vcond = s.vcond /\ new.enr = st /\ new.val = s.val /\ new.vis = s.vis
    BY <1>2 DEF Row, Cond, Stage
  <2> HIDE DEF new
  <2>4. /\ row'.content = row.content /\ row'.price = row.price
        /\ row'.enriched = row.enriched /\ row'.cond = row.cond
        /\ row'.vprice = row.vprice /\ row'.venriched = row.venriched /\ row'.vcond = row.vcond
        /\ row'.enr = IF s.enr # st THEN st ELSE row.enr
        /\ row'.val = row.val
    BY <1>1, <2>2, <2>3, CommitStep
  <2>5. TypeInv'
    <3>1. told' \subseteq {"enr", "val"} /\ faults' \in 0 .. MaxFaults
      BY <1>2, <2>1, PipelineAssumption
    <3>2. QED
      BY <1>1, <1>2, <1>3, <2>2, <2>3, <2>4, <3>1, CommitTyped
  <2>6. /\ pc["enricher"] = "tx" /\ pc' = [pc EXCEPT !["enricher"] = "idle"]
        /\ raced \subseteq raced'
        /\ "enricher" \in raced' \/ row = s
    BY <1>1, <2>2, CommitRest
  <2>7. QED
    BY <2>1, <2>4, <2>5, <2>6
<1>7. QED
  BY <1>4, <1>5, <1>6

\* The valuator scores what it has loaded, or leaves the score alone.
LEMMA ValueStep ==
  ASSUME TypeInv, ValueCommit \/ ValueSkip \/ ValueFail
  PROVE  /\ TypeInv' /\ raced \subseteq raced' /\ told \subseteq told'
         /\ pc["valuator"] \in {"tx", "failed"} /\ pc' = [pc EXCEPT !["valuator"] = "idle"]
         /\ row'.content = row.content /\ row'.price = row.price /\ row'.enriched = row.enriched
         /\ row'.cond = row.cond /\ row'.enr = row.enr
         /\ \/ "valuator" \in raced' \/ row'.val # "done"
            \/ /\ row'.vprice = row.price
               /\ row'.venriched = row.enriched /\ row'.vcond = row.cond
            \/ /\ row'.vprice = row.vprice /\ row.val = "done"
               /\ row'.venriched = row.venriched /\ row'.vcond = row.vcond
         /\ row'.val = "pending" => row.val = "pending" \/ "val" \in told'
<1> DEFINE s == seen["valuator"]
<1>1. "valuator" \in Programs
  BY DEF Programs, Workers
<1>2. /\ s \in Row /\ row \in Row /\ row.content \in Nat /\ row.price \in Nat
      /\ told \subseteq {"enr", "val"} /\ faults \in 0..MaxFaults
      /\ row.enriched <= row.content /\ row.venriched <= row.content /\ row.vprice <= row.price
      /\ s.content <= row.content /\ s.price <= row.price /\ s.enriched <= s.content
  BY <1>1, Loaded
<1>3. CASE ValueCommit
  <2> DEFINE new == Valued(s, "done")
  <2>1. Commit("valuator", "tx", new) /\ told' = told /\ faults' = faults
    BY <1>3 DEF ValueCommit
  <2>2. /\ new \in Row
        /\ new.content = s.content /\ new.price = s.price /\ new.enriched = s.enriched
        /\ new.cond = s.cond /\ new.vprice = s.price /\ new.venriched = s.enriched
        /\ new.vcond = s.cond /\ new.enr = s.enr /\ new.val = "done" /\ new.vis = s.vis
    <3>1. new = [s EXCEPT !.vprice = s.price, !.venriched = s.enriched, !.vcond = s.cond,
                          !.val = "done"]
      BY DEF Valued
    <3>2. s.price \in 0..MaxPrice /\ s.enriched \in 0..MaxContent /\ s.cond \in Cond
      BY <1>2, PipelineAssumption DEF Row
    <3> HIDE DEF new
    <3>3. new \in Row
      BY <1>2, <3>1, <3>2 DEF Row, Stage
    <3>4. QED
      BY <1>2, <3>1, <3>3 DEF Row
  <2> HIDE DEF new
  <2>3. /\ row'.content = row.content /\ row'.price = row.price
        /\ row'.enriched = row.enriched /\ row'.cond = row.cond /\ row'.enr = row.enr
        /\ row'.vprice = IF s.price # s.vprice THEN s.price ELSE row.vprice
        /\ row'.venriched = IF s.enriched # s.venriched THEN s.enriched ELSE row.venriched
        /\ row'.vcond = IF s.cond # s.vcond THEN s.cond ELSE row.vcond
        /\ row'.val = IF s.val # "done" THEN "done" ELSE row.val
    BY <1>1, <2>1, <2>2, CommitStep
  <2>4. TypeInv'
    <3>1. row'.venriched <= row'.content /\ row'.vprice <= row'.price
      <4>1. s.enriched \in Int /\ s.content \in Int /\ s.price \in Int
        BY <1>2, PipelineAssumption DEF Row
      <4>2. QED
        BY <1>2, <2>3, <4>1
    <3>2. QED
      BY <1>1, <1>2, <2>1, <2>2, <2>3, <3>1, CommitTyped
  <2>5. /\ pc["valuator"] = "tx" /\ pc' = [pc EXCEPT !["valuator"] = "idle"]
        /\ raced \subseteq raced'
        /\ "valuator" \in raced' \/ row = s
    BY <1>1, <2>1, CommitRest
  <2>6. QED
    BY <2>1, <2>3, <2>4, <2>5
<1>4. ASSUME NEW st \in {"skipped", "failed", "pending"}, NEW from,
             Commit("valuator", from, [s EXCEPT !.val = st]),
             told \subseteq told', told' \subseteq {"enr", "val"}, faults' = faults,
             st = "pending" => "val" \in told'
      PROVE  /\ TypeInv' /\ raced \subseteq raced' /\ told \subseteq told'
             /\ pc["valuator"] = from /\ pc' = [pc EXCEPT !["valuator"] = "idle"]
             /\ row'.content = row.content /\ row'.price = row.price
             /\ row'.enriched = row.enriched /\ row'.cond = row.cond /\ row'.enr = row.enr
             /\ row'.vprice = row.vprice /\ row'.venriched = row.venriched
             /\ row'.vcond = row.vcond
             /\ row'.val # row.val => row'.val = st
  <2> DEFINE new == [s EXCEPT !.val = st]
  <2>1. Commit("valuator", from, new)
    BY <1>4
  <2>2. /\ new \in Row
        /\ new.content = s.content /\ new.price = s.price /\ new.enriched = s.enriched
        /\ new.cond = s.cond /\ new.vprice = s.vprice /\ new.venriched = s.venriched
        /\ new.vcond = s.vcond /\ new.enr = s.enr /\ new.val = st /\ new.vis = s.vis
    BY <1>2, <1>4 DEF Row, Cond, Stage
  <2> HIDE DEF new
  <2>3. /\ row'.content = row.content /\ row'.price = row.price
        /\ row'.enriched = row.enriched /\ row'.cond = row.cond /\ row'.enr = row.enr
        /\ row'.vprice = row.vprice /\ row'.venriched = row.venriched /\ row'.vcond = row.vcond
        /\ row'.val = IF s.val # st THEN st ELSE row.val
    BY <1>1, <2>1, <2>2, CommitStep
  <2>4. TypeInv'
    BY <1>1, <1>2, <1>4, <2>1, <2>2, <2>3, CommitTyped
  <2>5. /\ pc["valuator"] = from /\ pc' = [pc EXCEPT !["valuator"] = "idle"]
        /\ raced \subseteq raced'
    BY <1>1, <2>1, CommitRest
  <2>6. QED
    BY <1>4, <2>3, <2>4, <2>5
<1>5. CASE ValueSkip
  BY <1>2, <1>4, <1>5 DEF ValueSkip
<1>6. CASE ValueFail
  <2>1. CASE Commit("valuator", "failed", [s EXCEPT !.val = "failed"]) /\ told' = told
    BY <1>2, <1>4, <1>6, <2>1 DEF ValueFail
  <2>2. CASE /\ Commit("valuator", "failed", [s EXCEPT !.val = "pending"])
             /\ told' = told \cup {"val"}
    BY <1>2, <1>4, <1>6, <2>2 DEF ValueFail
  <2>3. QED
    BY <1>6, <2>1, <2>2 DEF ValueFail
<1>7. QED
  BY <1>3, <1>5, <1>6

\* The poller writes a higher bid, and asks for a valuation.
LEMMA PollStep ==
  ASSUME TypeInv, PollCommit
  PROVE  /\ TypeInv' /\ raced \subseteq raced' /\ told \subseteq told'
         /\ pc["poller"] = "tx" /\ pc' = [pc EXCEPT !["poller"] = "idle"]
         /\ row'.content = row.content /\ row'.enriched = row.enriched /\ row'.cond = row.cond
         /\ row'.vprice = row.vprice /\ row'.venriched = row.venriched
         /\ row'.vcond = row.vcond /\ row'.enr = row.enr
         /\ row'.val \in {row.val, "pending"}
         /\ "poller" \in raced' \/ row'.price = row.price \/ row'.val # "done"
         /\ row'.val = "pending" => row.val = "pending" \/ "val" \in told'
<1> DEFINE s == seen["poller"]
           p == note["poller"].price
           new == IF p = s.price THEN s ELSE [s EXCEPT !.price = p, !.val = "pending"]
<1>1. "poller" \in Programs
  BY DEF Programs
<1>2. /\ s \in Row /\ row \in Row /\ row.content \in Nat /\ row.price \in Nat
      /\ told \subseteq {"enr", "val"} /\ faults \in 0..MaxFaults /\ p \in 0..MaxPrice
      /\ row.enriched <= row.content /\ row.venriched <= row.content /\ row.vprice <= row.price
  BY <1>1, Loaded
<1>3. /\ Commit("poller", "tx", new) /\ faults' = faults
      /\ told' = IF p = s.price THEN told ELSE told \cup {"val"}
  BY DEF PollCommit
<1>4. /\ pc["poller"] = "tx" /\ pc' = [pc EXCEPT !["poller"] = "idle"]
      /\ raced \subseteq raced'
      /\ "poller" \in raced' \/ row = s
  BY <1>1, <1>3, CommitRest
<1>5. kind = "auction" /\ p >= row.price
  BY <1>4, Zenon DEF TypeInv, OneWriter
<1>6. /\ new \in Row
      /\ new.content = s.content /\ new.price = p /\ new.enriched = s.enriched
      /\ new.cond = s.cond /\ new.vprice = s.vprice /\ new.venriched = s.venriched
      /\ new.vcond = s.vcond /\ new.enr = s.enr
      /\ new.val = (IF p = s.price THEN s.val ELSE "pending") /\ new.vis = s.vis
  <2>1. p \in 1..MaxPrice
    BY <1>2, <1>5, PipelineAssumption DEF Row
  <2>2. CASE p = s.price
    BY <1>2, <2>2
  <2>3. CASE p # s.price
    BY <1>2, <2>1, <2>3 DEF Row, Stage
  <2>4. QED
    BY <2>2, <2>3
<1> HIDE DEF new
<1>7. /\ row'.content = row.content
      /\ row'.price = IF p # s.price THEN p ELSE row.price
      /\ row'.enriched = row.enriched /\ row'.cond = row.cond /\ row'.enr = row.enr
      /\ row'.vprice = row.vprice /\ row'.venriched = row.venriched /\ row'.vcond = row.vcond
      /\ row'.val = IF p # s.price /\ s.val # "pending" THEN "pending" ELSE row.val
  BY <1>1, <1>3, <1>6, CommitStep
<1>8. TypeInv'
  <2>1. row.price <= row'.price /\ row'.vprice <= row'.price
    BY <1>2, <1>5, <1>7, PipelineAssumption DEF Row
  <2>2. told' \subseteq {"enr", "val"}
    BY <1>2, <1>3
  <2>3. QED
    BY <1>1, <1>2, <1>3, <1>5, <1>6, <1>7, <2>1, <2>2, CommitTyped
<1>9. QED
  BY <1>3, <1>4, <1>7, <1>8

\* Vision writes the condition, and asks for a valuation.
LEMMA VisionStep ==
  ASSUME TypeInv, VisionOverride \/ \E st \in {"done", "skipped"} : VisionPlain(st)
  PROVE  /\ TypeInv' /\ raced \subseteq raced' /\ told \subseteq told'
         /\ pc["vision"] = "tx" /\ pc' = [pc EXCEPT !["vision"] = "idle"]
         /\ row'.content = row.content /\ row'.price = row.price /\ row'.enriched = row.enriched
         /\ row'.vprice = row.vprice /\ row'.venriched = row.venriched
         /\ row'.vcond = row.vcond /\ row'.enr = row.enr
         /\ row'.val \in {row.val, "pending"}
         /\ "vision" \in raced' \/ row'.cond = row.cond \/ row'.val # "done"
         /\ row'.val = "pending" => row.val = "pending" \/ "val" \in told'
<1> DEFINE s == seen["vision"]
<1>1. "vision" \in Programs
  BY DEF Programs
<1>2. /\ s \in Row /\ row \in Row /\ row.content \in Nat /\ row.price \in Nat
      /\ told \subseteq {"enr", "val"} /\ faults \in 0..MaxFaults
      /\ row.enriched <= row.content /\ row.venriched <= row.content /\ row.vprice <= row.price
  BY <1>1, Loaded
<1>3. CASE VisionOverride
  <2> DEFINE new == [s EXCEPT !.vis = "done", !.cond = "seen", !.val = "pending"]
  <2>1. Commit("vision", "tx", new) /\ told' = told \cup {"val"} /\ faults' = faults
    BY <1>3 DEF VisionOverride
  <2>2. /\ new \in Row
        /\ new.content = s.content /\ new.price = s.price /\ new.enriched = s.enriched
        /\ new.cond = "seen" /\ new.vprice = s.vprice /\ new.venriched = s.venriched
        /\ new.vcond = s.vcond /\ new.enr = s.enr /\ new.val = "pending" /\ new.vis = "done"
    BY <1>2 DEF Row, Cond, Stage
  <2> HIDE DEF new
  <2>3. /\ row'.content = row.content /\ row'.price = row.price
        /\ row'.enriched = row.enriched /\ row'.enr = row.enr
        /\ row'.vprice = row.vprice /\ row'.venriched = row.venriched /\ row'.vcond = row.vcond
        /\ row'.val = IF s.val # "pending" THEN "pending" ELSE row.val
    BY <1>1, <2>1, <2>2, CommitStep
  <2>4. TypeInv'
    BY <1>1, <1>2, <2>1, <2>2, <2>3, CommitTyped
  <2>5. /\ pc["vision"] = "tx" /\ pc' = [pc EXCEPT !["vision"] = "idle"]
        /\ raced \subseteq raced'
        /\ "vision" \in raced' \/ row = s
    BY <1>1, <2>1, CommitRest
  <2>6. QED
    BY <2>1, <2>3, <2>4, <2>5
<1>4. ASSUME NEW st \in {"done", "skipped"}, VisionPlain(st)
      PROVE  /\ TypeInv' /\ raced \subseteq raced' /\ told' = told
             /\ pc["vision"] = "tx" /\ pc' = [pc EXCEPT !["vision"] = "idle"]
             /\ row'.content = row.content /\ row'.price = row.price
             /\ row'.enriched = row.enriched /\ row'.cond = row.cond
             /\ row'.vprice = row.vprice /\ row'.venriched = row.venriched
             /\ row'.vcond = row.vcond /\ row'.enr = row.enr /\ row'.val = row.val
  <2> DEFINE new == [s EXCEPT !.vis = st]
  <2>1. Commit("vision", "tx", new) /\ told' = told /\ faults' = faults
    BY <1>4 DEF VisionPlain
  <2>2. /\ new \in Row
        /\ new.content = s.content /\ new.price = s.price /\ new.enriched = s.enriched
        /\ new.cond = s.cond /\ new.vprice = s.vprice /\ new.venriched = s.venriched
        /\ new.vcond = s.vcond /\ new.enr = s.enr /\ new.val = s.val /\ new.vis = st
    BY <1>2 DEF Row
  <2> HIDE DEF new
  <2>3. /\ row'.content = row.content /\ row'.price = row.price
        /\ row'.enriched = row.enriched /\ row'.cond = row.cond /\ row'.enr = row.enr
        /\ row'.vprice = row.vprice /\ row'.venriched = row.venriched /\ row'.vcond = row.vcond
        /\ row'.val = row.val
    BY <1>1, <2>1, <2>2, CommitStep
  <2>4. TypeInv'
    BY <1>1, <1>2, <2>1, <2>2, <2>3, CommitTyped
  <2>5. /\ pc["vision"] = "tx" /\ pc' = [pc EXCEPT !["vision"] = "idle"]
        /\ raced \subseteq raced'
    BY <1>1, <2>1, CommitRest
  <2>6. QED
    BY <2>1, <2>3, <2>4, <2>5
<1>5. QED
  BY <1>3, <1>4

\* The ingester writes what it has scraped; new content starts the stages over.
LEMMA IngestStep ==
  ASSUME TypeInv, IngestCommit
  PROVE  /\ TypeInv' /\ raced \subseteq raced' /\ told \subseteq told'
         /\ pc["ingester"] = "tx" /\ pc' = [pc EXCEPT !["ingester"] = "idle"]
         /\ row'.enriched = row.enriched /\ row'.cond = row.cond
         /\ row'.vprice = row.vprice /\ row'.venriched = row.venriched /\ row'.vcond = row.vcond
         /\ row'.enr \in {row.enr, "pending"} /\ row'.val \in {row.val, "pending"}
         /\ \/ "ingester" \in raced'
            \/ /\ row'.price = row.price \/ row'.val # "done"
               /\ row'.content = row.content \/ row'.enr # "done"
         /\ row'.enr = "pending" => row.enr = "pending" \/ "enr" \in told'
         /\ row'.val = "pending" => \/ row.val = "pending" \/ "val" \in told'
                                    \/ row'.enr \in {"pending", "in_progress", "failed"}
                                    \/ row'.enr \in {"done", "skipped"} /\ "ingester" \in raced'
<1> DEFINE s == seen["ingester"]
           c == note["ingester"].content
           p == note["ingester"].price
           new == Reprice(Cascade(s, c), p)
<1>1. "ingester" \in Programs
  BY DEF Programs
<1>2. /\ s \in Row /\ row \in Row /\ row.content \in Nat /\ row.price \in Nat
      /\ told \subseteq {"enr", "val"} /\ faults \in 0..MaxFaults
      /\ c \in 0..MaxContent /\ p \in 0..MaxPrice
      /\ row.enriched <= row.content /\ row.venriched <= row.content /\ row.vprice <= row.price
      /\ s.price <= row.price
  BY <1>1, Loaded
<1>3. Commit("ingester", "tx", new) /\ faults' = faults /\ told' = told \cup ToldByIngest(new)
  BY DEF IngestCommit
<1>4. /\ pc["ingester"] = "tx" /\ pc' = [pc EXCEPT !["ingester"] = "idle"]
      /\ raced \subseteq raced'
      /\ "ingester" \in raced' \/ row = s
  BY <1>1, <1>3, CommitRest
<1>5. /\ s.content = row.content /\ c >= row.content
      /\ kind = "auction" => p = s.price
      /\ kind = "listing" => p >= row.price
      /\ kind \in {"auction", "listing"}
  BY <1>4, Zenon DEF TypeInv, Typed, OneWriter
<1>6. /\ new \in Row
      /\ new.content = c /\ new.price = p /\ new.enriched = s.enriched
      /\ new.cond = s.cond /\ new.vprice = s.vprice /\ new.venriched = s.venriched
      /\ new.vcond = s.vcond
      /\ new.enr = (IF c = s.content THEN s.enr ELSE "pending")
      /\ new.val = (IF c = s.content /\ p = s.price THEN s.val ELSE "pending")
  <2> DEFINE mid == Cascade(s, c)
  <2>1. c \in 1..MaxContent /\ p \in 1..MaxPrice
    BY <1>2, <1>5, PipelineAssumption DEF Row
  <2>2. /\ mid \in Row
        /\ mid.content = c /\ mid.price = s.price /\ mid.enriched = s.enriched
        /\ mid.cond = s.cond /\ mid.vprice = s.vprice /\ mid.venriched = s.venriched
        /\ mid.vcond = s.vcond
        /\ mid.enr = (IF c = s.content THEN s.enr ELSE "pending")
        /\ mid.val = (IF c = s.content THEN s.val ELSE "pending")
    <3>1. CASE c = s.content
      BY <1>2, <3>1 DEF Cascade
    <3>2. CASE c # s.content
      BY <1>2, <2>1, <3>2 DEF Cascade, Row, Stage
    <3>3. QED
      BY <3>1, <3>2
  <2> HIDE DEF mid
  <2>3. new = IF p = mid.price THEN mid ELSE [mid EXCEPT !.price = p, !.val = "pending"]
    BY DEF Reprice, mid
  <2> HIDE DEF new
  <2>4. CASE p = s.price
    BY <2>2, <2>3, <2>4
  <2>5. CASE p # s.price
    BY <2>1, <2>2, <2>3, <2>5 DEF Row, Stage
  <2>6. QED
    BY <2>4, <2>5
<1>7. /\ ToldByIngest(new) \subseteq {"enr", "val"}
      /\ new.enr = "pending" => "enr" \in ToldByIngest(new)
      /\ new.val = "pending" /\ new.enr # "pending" /\ kind = "listing"
           => "val" \in ToldByIngest(new)
  BY <1>5 DEF ToldByIngest
<1> HIDE DEF new
<1>8. /\ row'.content = IF c # s.content THEN c ELSE row.content
      /\ row'.price = IF p # s.price THEN p ELSE row.price
      /\ row'.enriched = row.enriched /\ row'.cond = row.cond
      /\ row'.vprice = row.vprice /\ row'.venriched = row.venriched /\ row'.vcond = row.vcond
      /\ row'.enr = IF new.enr # s.enr THEN new.enr ELSE row.enr
      /\ row'.val = IF new.val # s.val THEN new.val ELSE row.val
  BY <1>1, <1>3, <1>6, CommitStep
<1>9. TypeInv'
  <2>1. /\ row.content <= row'.content /\ row.price <= row'.price
        /\ kind = "auction" => row'.price = row.price
        /\ row'.enriched <= row'.content /\ row'.venriched <= row'.content
        /\ row'.vprice <= row'.price
    <3>1. /\ c \in Int /\ p \in Int /\ row.enriched \in Int /\ row.venriched \in Int
          /\ row.vprice \in Int
      BY <1>2, PipelineAssumption DEF Row
    <3>2. QED
      BY <1>2, <1>5, <1>8, <3>1
  <2>2. told' \subseteq {"enr", "val"} /\ faults' \in 0..MaxFaults
    BY <1>2, <1>3, <1>7
  <2>3. QED
    BY <1>1, <1>3, <1>6, <2>1, <2>2, CommitTyped
<1>10. /\ row'.enr \in {row.enr, "pending"} /\ row'.val \in {row.val, "pending"}
       /\ row'.enr = "pending" => row.enr = "pending" \/ "enr" \in told'
  BY <1>3, <1>6, <1>7, <1>8
<1>11. \/ "ingester" \in raced'
       \/ /\ row'.price = row.price \/ row'.val # "done"
          /\ row'.content = row.content \/ row'.enr # "done"
  BY <1>4, <1>6, <1>8
<1>12. row'.val = "pending" => \/ row.val = "pending" \/ "val" \in told'
                               \/ row'.enr \in {"pending", "in_progress", "failed"}
                               \/ row'.enr \in {"done", "skipped"} /\ "ingester" \in raced'
  <2>1. row'.enr \in Stage
    BY <1>2, <1>10 DEF Row, Stage
  <2>2. CASE "ingester" \in raced'
    BY <2>1, <2>2 DEF Stage
  <2>3. CASE "ingester" \notin raced'
    BY <1>3, <1>4, <1>5, <1>6, <1>7, <1>8, <2>3
  <2>4. QED
    BY <2>2, <2>3
<1>13. QED
  BY <1>3, <1>4, <1>8, <1>9, <1>10, <1>11, <1>12

-----------------------------------------------------------------------------
(* The steps that commit nothing of the row but a worker's own status.     *)

Pc == {"idle", "claimed", "away", "tx", "failing", "failed", "down"}

\* The other programs, and the columns that the versions are in, stay as they are.
Alone(a) ==
  /\ pc' \in [Programs -> Pc] /\ seen' \in [Programs -> Row] /\ note' \in [Programs -> Note]
  /\ \A b \in Programs \ {a} : pc'[b] = pc[b] /\ seen'[b] = seen[b] /\ note'[b] = note[b]
  /\ row' \in Row /\ row'.content = row.content /\ row'.price = row.price
  /\ row'.enriched = row.enriched /\ row'.venriched = row.venriched /\ row'.vprice = row.vprice
  /\ kind' = kind /\ raced' = raced /\ told' \subseteq {"enr", "val"}
  /\ overlaps' \in 0 .. MaxOverlaps /\ faults' \in 0 .. MaxFaults

\* A program moves on, with another row loaded and another note perhaps.
LEMMA MoveTyped ==
  ASSUME TypeInv, NEW a \in Programs, Alone(a),
         seen'[a] # Nothing => pc'[a] \in {"tx", "failed"},
         note'[a] # NoNote => pc'[a] \in {"away", "tx"},
         a = "valuator" => note'[a] = NoNote,
         a = "enricher" => note'[a].content <= row.content,
         seen'[a].content <= row.content, seen'[a].price <= row.price,
         seen'[a].enriched <= seen'[a].content,
         a = "ingester" /\ pc'[a] = "tx" =>
           /\ seen'[a].content = row.content /\ note'[a].content >= row.content
           /\ kind = "auction" => note'[a].price = seen'[a].price
           /\ kind = "listing" => note'[a].price >= row.price,
         a = "poller" /\ pc'[a] \in {"away", "tx"} =>
           kind = "auction" /\ note'[a].price >= row.price
  PROVE  TypeInv'
<1>1. kind \in {"auction", "listing"} /\ raced \subseteq Programs
  BY Zenon DEF TypeInv, Typed
<1>2. \A b \in Programs \ {a} : pc'[b] = pc[b] /\ seen'[b] = seen[b] /\ note'[b] = note[b]
  BY Zenon DEF Alone
<1>3. {"valuator", "enricher", "ingester", "poller"} \subseteq Programs
  BY DEF Programs, Workers
<1>4. Typed'
  BY <1>1, Zenon DEF Alone, Typed, Pc
<1>5. Life'
  BY <1>2, <1>3 DEF TypeInv, Life
<1>6. Behind'
  <2>1. ASSUME NEW b \in Programs
        PROVE  /\ seen'[b].content <= row.content /\ seen'[b].price <= row.price
               /\ seen'[b].enriched <= seen'[b].content
    <3>1. /\ seen[b].content <= row.content /\ seen[b].price <= row.price
          /\ seen[b].enriched <= seen[b].content
      BY Zenon DEF TypeInv, Behind
    <3>2. QED
      BY <1>2, <3>1
  <2>2. note'["enricher"].content <= row.content
    <3>1. note["enricher"].content <= row.content
      BY Zenon DEF TypeInv, Behind
    <3>2. QED
      BY <1>2, <1>3, <3>1
  <2>3. row.enriched <= row.content /\ row.venriched <= row.content /\ row.vprice <= row.price
    BY Zenon DEF TypeInv, Behind
  <2>4. row'.content = row.content /\ row'.price = row.price /\ row'.enriched = row.enriched
        /\ row'.venriched = row.venriched /\ row'.vprice = row.vprice
    BY Zenon DEF Alone
  <2>5. QED
    BY <2>1, <2>2, <2>3, <2>4 DEF Behind
<1>7. OneWriter'
  <2>1. row'.content = row.content /\ row'.price = row.price /\ kind' = kind
    BY Zenon DEF Alone
  <2>2. CASE a = "ingester"
    BY <1>2, <1>3, <2>1, <2>2 DEF TypeInv, OneWriter
  <2>3. CASE a = "poller"
    BY <1>2, <1>3, <2>1, <2>3 DEF TypeInv, OneWriter
  <2>4. CASE a \notin {"ingester", "poller"}
    BY <1>2, <1>3, <2>1, <2>4 DEF TypeInv, OneWriter
  <2>5. QED
    BY <2>2, <2>3, <2>4
<1>8. QED
  BY <1>4, <1>5, <1>6, <1>7 DEF TypeInv

\* Beginning and loading leave the row as it is, and so does a valuation that raises.
LEMMA LoadStep ==
  ASSUME TypeInv,
         \/ EnrichRead \/ EnrichLoad \/ ValueLoad \/ ValueError \/ ValueFailLoad
         \/ PollRead \/ PollLoad \/ VisionRead \/ VisionLoad \/ IngestLoad
  PROVE  /\ TypeInv' /\ UNCHANGED <<row, told, raced>>
         /\ \A a \in Workers : pc[a] = "down" => pc'[a] = "down"
<1>1. /\ pc \in [Programs -> Pc] /\ seen \in [Programs -> Row] /\ note \in [Programs -> Note]
      /\ row \in Row /\ told \subseteq {"enr", "val"} /\ kind \in {"auction", "listing"}
      /\ overlaps \in 0 .. MaxOverlaps /\ faults \in 0 .. MaxFaults
  BY Zenon DEF TypeInv, Typed, Pc
<1>2. /\ Workers \subseteq Programs
      /\ {"valuator", "enricher", "ingester", "poller", "vision"} \subseteq Programs
  BY DEF Programs, Workers
<1>3. ASSUME NEW a \in Programs, NEW x \in Pc, NEW r \in Row, NEW m \in Note,
             pc' = [pc EXCEPT ![a] = x],
             seen' = [seen EXCEPT ![a] = r] \/ (seen' = seen /\ r = seen[a]),
             note' = [note EXCEPT ![a] = m] \/ (note' = note /\ m = note[a]),
             UNCHANGED <<kind, row, told, raced>>,
             overlaps' \in 0 .. MaxOverlaps, faults' \in 0 .. MaxFaults
      PROVE  Alone(a) /\ pc'[a] = x /\ seen'[a] = r /\ note'[a] = m
  <2>1. pc' \in [Programs -> Pc] /\ seen' \in [Programs -> Row] /\ note' \in [Programs -> Note]
    BY <1>1, <1>3
  <2>2. /\ pc'[a] = x /\ seen'[a] = r /\ note'[a] = m
        /\ \A b \in Programs \ {a} : pc'[b] = pc[b] /\ seen'[b] = seen[b] /\ note'[b] = note[b]
    BY <1>1, <1>3
  <2>3. QED
    BY <1>1, <1>3, <2>1, <2>2, Zenon DEF Alone
<1>4. Nothing \in Row /\ Nothing.content = 1 /\ Nothing.price = 1 /\ Nothing.enriched = 0
  BY PipelineAssumption DEF Nothing, Inserted, Row, Cond, Stage
<1>5. /\ row.content \in 1..MaxContent /\ row.price \in 1..MaxPrice
      /\ row.content \in Nat \ {0} /\ row.price \in Nat \ {0}
  BY <1>1, PipelineAssumption DEF Row
<1>6. ASSUME NEW a \in Programs, NEW x \in Pc, Begin(a, x)
      PROVE  /\ pc[a] = "idle" /\ pc' = [pc EXCEPT ![a] = x]
             /\ overlaps' \in 0 .. MaxOverlaps
  BY <1>1, <1>6, PipelineAssumption DEF Begin
<1>7. \A a \in Programs : /\ pc[a] \notin {"tx", "failed"} => seen[a] = Nothing
                          /\ pc[a] \notin {"away", "tx"} => note[a] = NoNote
  BY Zenon DEF TypeInv, Life
<1>8. \A a \in Programs : /\ seen[a].content <= row.content /\ seen[a].price <= row.price
                          /\ seen[a].enriched <= seen[a].content
  BY Zenon DEF TypeInv, Behind
<1>9. /\ row.enriched <= row.content /\ note["enricher"].content <= row.content
      /\ note["valuator"] = NoNote
      /\ pc["poller"] \in {"away", "tx"} => kind = "auction" /\ note["poller"].price >= row.price
  BY Zenon DEF TypeInv, Behind, Life, OneWriter
<1>10. \A m \in {"claimed", "away", "tx", "failing", "failed"} : m \in Pc /\ m # "down"
  BY DEF Pc
<1>11. CASE EnrichRead
  <2> DEFINE m == [note["enricher"] EXCEPT !.content = row.content]
  <2>1. m \in Note /\ m.content = row.content
    BY <1>1, <1>2, <1>5, PipelineAssumption DEF Note
  <2>2. /\ pc["enricher"] = "claimed" /\ pc' = [pc EXCEPT !["enricher"] = "away"]
        /\ note' = [note EXCEPT !["enricher"] = m]
        /\ UNCHANGED <<kind, row, seen, told, raced, overlaps, faults>>
    BY <1>11 DEF EnrichRead, Goto
  <2> HIDE DEF m
  <2>3. seen["enricher"] = Nothing
    BY <1>2, <1>7, <2>2
  <2>4. /\ Alone("enricher") /\ pc'["enricher"] = "away" /\ seen'["enricher"] = Nothing
        /\ note'["enricher"] = m
    <3>1. /\ "enricher" \in Programs /\ "away" \in Pc /\ Nothing \in Row /\ m \in Note
          /\ overlaps' \in 0 .. MaxOverlaps /\ faults' \in 0 .. MaxFaults
      BY <1>1, <1>2, <1>4, <1>10, <2>1, <2>2, Zenon
    <3>2. QED
      BY <1>3, <2>2, <2>3, <3>1
  <2>5. TypeInv'
    BY <1>2, <1>4, <1>5, <2>1, <2>4, MoveTyped
  <2>6. QED
    BY <1>2, <2>2, <2>4, <2>5 DEF Alone
<1>12. CASE EnrichLoad
  <2>1. /\ pc["enricher"] = "away" /\ pc' = [pc EXCEPT !["enricher"] = "tx"]
        /\ seen' = [seen EXCEPT !["enricher"] = row]
        /\ UNCHANGED <<kind, row, note, told, raced, overlaps, faults>>
    BY <1>12 DEF EnrichLoad, Goto, Load
  <2>2. /\ Alone("enricher") /\ pc'["enricher"] = "tx" /\ seen'["enricher"] = row
        /\ note'["enricher"] = note["enricher"]
    BY <1>1, <1>2, <1>3, <1>10, <2>1
  <2>3. TypeInv'
    BY <1>2, <1>5, <1>9, <2>2, MoveTyped
  <2>4. QED
    BY <1>2, <2>1, <2>2, <2>3 DEF Alone
<1>13. ASSUME NEW x \in {"tx", "failed"}, pc' = [pc EXCEPT !["valuator"] = x],
              seen' = [seen EXCEPT !["valuator"] = row],
              UNCHANGED <<kind, row, note, told, raced, overlaps, faults>>
       PROVE  /\ TypeInv' /\ UNCHANGED <<row, told, raced>>
              /\ \A a \in Workers : pc[a] = "down" => pc'[a] = "down" \/ a = "valuator"
  <2>1. /\ Alone("valuator") /\ pc'["valuator"] = x /\ seen'["valuator"] = row
        /\ note'["valuator"] = note["valuator"]
    BY <1>1, <1>2, <1>3, <1>10, <1>13
  <2>2. TypeInv'
    BY <1>2, <1>5, <1>9, <2>1, MoveTyped
  <2>3. QED
    BY <1>2, <1>13, <2>1, <2>2 DEF Alone
<1>14. CASE ValueLoad \/ ValueFailLoad
  <2>1. /\ pc["valuator"] # "down"
        /\ \/ pc' = [pc EXCEPT !["valuator"] = "tx"]
           \/ pc' = [pc EXCEPT !["valuator"] = "failed"]
        /\ seen' = [seen EXCEPT !["valuator"] = row]
        /\ UNCHANGED <<kind, row, note, told, raced, overlaps, faults>>
    BY <1>14 DEF ValueLoad, ValueFailLoad, Goto, Load
  <2>2. QED
    BY <1>13, <2>1
<1>15. CASE ValueError
  <2>1. /\ pc["valuator"] = "tx" /\ pc' = [pc EXCEPT !["valuator"] = "failing"]
        /\ seen' = [seen EXCEPT !["valuator"] = Nothing]
        /\ faults' \in 0 .. MaxFaults
        /\ UNCHANGED <<kind, row, note, told, raced, overlaps>>
    BY <1>1, <1>15, PipelineAssumption DEF ValueError, Goto, Fault
  <2>2. /\ Alone("valuator") /\ pc'["valuator"] = "failing" /\ seen'["valuator"] = Nothing
        /\ note'["valuator"] = note["valuator"]
    BY <1>1, <1>2, <1>3, <1>4, <1>10, <2>1
  <2>3. TypeInv'
    BY <1>2, <1>4, <1>5, <1>9, <2>2, MoveTyped
  <2>4. QED
    BY <1>2, <2>1, <2>2, <2>3 DEF Alone
<1>16. CASE PollRead
  <2> DEFINE m == [note["poller"] EXCEPT !.price = row.price + 1]
  <2>1. /\ kind = "auction" /\ row.price < MaxPrice /\ Begin("poller", "away")
        /\ note' = [note EXCEPT !["poller"] = m]
        /\ UNCHANGED <<kind, row, seen, told, raced, faults>>
    BY <1>16 DEF PollRead
  <2>2. m \in Note /\ m.price = row.price + 1
    BY <1>1, <1>2, <1>5, <2>1, PipelineAssumption DEF Note
  <2> HIDE DEF m
  <2>3. /\ pc["poller"] = "idle" /\ pc' = [pc EXCEPT !["poller"] = "away"]
        /\ overlaps' \in 0 .. MaxOverlaps
    BY <1>2, <1>6, <1>10, <2>1
  <2>4. seen["poller"] = Nothing
    BY <1>2, <1>7, <2>3
  <2>5. /\ Alone("poller") /\ pc'["poller"] = "away" /\ seen'["poller"] = Nothing
        /\ note'["poller"] = m
    <3>1. /\ "poller" \in Programs /\ "away" \in Pc /\ Nothing \in Row /\ m \in Note
          /\ overlaps' \in 0 .. MaxOverlaps /\ faults' \in 0 .. MaxFaults
      BY <1>1, <1>2, <1>4, <1>10, <2>1, <2>2, <2>3, Zenon
    <3>2. QED
      BY <1>3, <2>1, <2>3, <2>4, <3>1
  <2>6. TypeInv'
    BY <1>2, <1>4, <1>5, <2>1, <2>2, <2>5, MoveTyped
  <2>7. QED
    BY <1>2, <2>1, <2>5, <2>6 DEF Alone, Workers
<1>17. CASE PollLoad
  <2>1. /\ pc["poller"] = "away" /\ pc' = [pc EXCEPT !["poller"] = "tx"]
        /\ seen' = [seen EXCEPT !["poller"] = row]
        /\ UNCHANGED <<kind, row, note, told, raced, overlaps, faults>>
    BY <1>17 DEF PollLoad, Goto, Load
  <2>2. /\ Alone("poller") /\ pc'["poller"] = "tx" /\ seen'["poller"] = row
        /\ note'["poller"] = note["poller"]
    BY <1>1, <1>2, <1>3, <1>10, <2>1
  <2>3. TypeInv'
    BY <1>2, <1>5, <1>9, <2>1, <2>2, MoveTyped
  <2>4. QED
    BY <1>2, <2>1, <2>2, <2>3 DEF Alone, Workers
<1>18. CASE VisionRead \/ VisionLoad
  <2>1. CASE VisionRead
    <3>1. Begin("vision", "away") /\ UNCHANGED <<kind, row, seen, note, told, raced, faults>>
      BY <2>1 DEF VisionRead
    <3>2. /\ pc["vision"] = "idle" /\ pc' = [pc EXCEPT !["vision"] = "away"]
          /\ overlaps' \in 0 .. MaxOverlaps
      BY <1>2, <1>6, <1>10, <3>1
    <3>3. seen["vision"] = Nothing /\ note["vision"] = NoNote
      BY <1>2, <1>7, <3>2
    <3>4. /\ Alone("vision") /\ pc'["vision"] = "away" /\ seen'["vision"] = Nothing
          /\ note'["vision"] = note["vision"]
      BY <1>1, <1>2, <1>3, <1>4, <1>10, <3>1, <3>2, <3>3
    <3>5. TypeInv'
      BY <1>2, <1>4, <1>5, <3>4, MoveTyped
    <3>6. QED
      BY <1>2, <3>1, <3>4, <3>5 DEF Alone, Workers
  <2>2. CASE VisionLoad
    <3>1. /\ pc["vision"] = "away" /\ pc' = [pc EXCEPT !["vision"] = "tx"]
          /\ seen' = [seen EXCEPT !["vision"] = row]
          /\ UNCHANGED <<kind, row, note, told, raced, overlaps, faults>>
      BY <2>2 DEF VisionLoad, Goto, Load
    <3>2. /\ Alone("vision") /\ pc'["vision"] = "tx" /\ seen'["vision"] = row
          /\ note'["vision"] = note["vision"]
      BY <1>1, <1>2, <1>3, <1>10, <3>1
    <3>3. TypeInv'
      BY <1>2, <1>5, <1>9, <3>2, MoveTyped
    <3>4. QED
      BY <1>2, <3>1, <3>2, <3>3 DEF Alone, Workers
  <2>3. QED
    BY <1>18, <2>1, <2>2
<1>19. CASE IngestLoad
  <2>1. PICK c \in {row.content, row.content + 1}, p \in {row.price, row.price + 1} :
          /\ c <= MaxContent /\ p <= MaxPrice
          /\ kind = "auction" => p = row.price
          /\ note' = [note EXCEPT !["ingester"] = [content |-> c, price |-> p]]
    BY <1>19 DEF IngestLoad
  <2>2. /\ Begin("ingester", "tx") /\ seen' = [seen EXCEPT !["ingester"] = row]
        /\ UNCHANGED <<kind, row, told, raced, faults>>
    BY <1>19 DEF IngestLoad, Load
  <2>3. /\ pc' = [pc EXCEPT !["ingester"] = "tx"] /\ overlaps' \in 0 .. MaxOverlaps
    BY <1>2, <1>6, <1>10, <2>2
  <2> DEFINE m == [content |-> c, price |-> p]
  <2>4. m \in Note /\ m.content >= row.content /\ m.price >= row.price /\ m.price = p
    BY <1>5, <2>1, PipelineAssumption DEF Note
  <2>5. note' = [note EXCEPT !["ingester"] = m]
    BY <2>1
  <2> HIDE DEF m
  <2>6. /\ Alone("ingester") /\ pc'["ingester"] = "tx" /\ seen'["ingester"] = row
        /\ note'["ingester"] = m
    BY <1>1, <1>2, <1>3, <1>10, <2>2, <2>3, <2>4, <2>5
  <2>7. TypeInv'
    BY <1>2, <1>5, <1>9, <2>1, <2>4, <2>6, MoveTyped
  <2>8. QED
    BY <1>2, <2>2, <2>6, <2>7 DEF Alone, Workers
<1>20. QED
  BY <1>11, <1>12, <1>14, <1>15, <1>16, <1>17, <1>18, <1>19

\* A program dies.
LEMMA CrashStep ==
  ASSUME TypeInv, NEW a \in Programs, Crash(a)
  PROVE  /\ TypeInv' /\ UNCHANGED <<row, told, raced>>
         /\ \A b \in Workers : pc[b] = "down" => pc'[b] = "down"
<1>1. /\ pc \in [Programs -> Pc] /\ seen \in [Programs -> Row] /\ note \in [Programs -> Note]
      /\ row \in Row /\ told \subseteq {"enr", "val"}
      /\ overlaps \in 0 .. MaxOverlaps /\ faults \in 0 .. MaxFaults
  BY Zenon DEF TypeInv, Typed, Pc
<1>2. /\ Nothing \in Row /\ Nothing.content = 1 /\ Nothing.price = 1 /\ Nothing.enriched = 0
      /\ NoNote \in Note /\ NoNote.content = 0
  BY PipelineAssumption DEF Nothing, Inserted, NoNote, Row, Note, Cond, Stage
<1>3. row.content \in Nat \ {0} /\ row.price \in Nat \ {0}
  BY <1>1, PipelineAssumption DEF Row
<1>4. PICK x \in {"idle", "down"} :
        /\ pc[a] # "down" /\ pc' = [pc EXCEPT ![a] = x]
        /\ seen' = [seen EXCEPT ![a] = Nothing] /\ note' = [note EXCEPT ![a] = NoNote]
        /\ faults' \in 0 .. MaxFaults
        /\ UNCHANGED <<kind, row, told, raced, overlaps>>
  <2>1. /\ pc[a] # "down"
        /\ pc' = [pc EXCEPT ![a] = "idle"] \/ pc' = [pc EXCEPT ![a] = "down"]
        /\ seen' = [seen EXCEPT ![a] = Nothing] /\ note' = [note EXCEPT ![a] = NoNote]
        /\ UNCHANGED <<kind, row, told, raced, overlaps>>
    BY DEF Crash
  <2>2. faults' \in 0 .. MaxFaults
    BY <1>1, PipelineAssumption DEF Crash, Fault
  <2>3. QED
    BY <2>1, <2>2
<1>5. /\ pc' \in [Programs -> Pc] /\ seen' \in [Programs -> Row] /\ note' \in [Programs -> Note]
      /\ pc'[a] = x /\ seen'[a] = Nothing /\ note'[a] = NoNote
      /\ \A b \in Programs \ {a} : pc'[b] = pc[b] /\ seen'[b] = seen[b] /\ note'[b] = note[b]
  BY <1>1, <1>2, <1>4 DEF Pc
<1>6. Alone(a)
  BY <1>1, <1>4, <1>5, Zenon DEF Alone
<1>7. TypeInv'
  BY <1>2, <1>3, <1>5, <1>6, MoveTyped
<1>8. \A b \in Workers : pc[b] = "down" => pc'[b] = "down"
  BY <1>4, <1>5 DEF Programs
<1>9. QED
  BY <1>4, <1>7, <1>8

\* A worker claims the row, finds it not pending, or starts again: a status moves between
\* "pending" and "in_progress", and is "pending" only if the worker has been told.
LEMMA WorkerStep ==
  ASSUME TypeInv, NEW a \in Workers, Claim(a) \/ Ignore(a) \/ Restart(a)
  PROVE  /\ TypeInv' /\ raced' = raced
         /\ row'.content = row.content /\ row'.price = row.price
         /\ row'.enriched = row.enriched /\ row'.cond = row.cond
         /\ row'.vprice = row.vprice /\ row'.venriched = row.venriched
         /\ row'.vcond = row.vcond
         /\ \A c \in {"enr", "val"} :
              \/ row'[c] = row[c]
              \/ {row'[c], row[c]} \subseteq {"pending", "in_progress"}
         /\ row'.enr = "pending" => "enr" \in told' \/ /\ row.enr = "pending" /\ "enr" \notin told
                                                       /\ pc'["enricher"] = pc["enricher"]
         /\ row'.val = "pending" => "val" \in told' \/ /\ row.val = "pending" /\ "val" \notin told
                                                       /\ pc'["valuator"] = pc["valuator"]
<1>1. /\ pc \in [Programs -> Pc] /\ seen \in [Programs -> Row] /\ note \in [Programs -> Note]
      /\ row \in Row /\ told \subseteq {"enr", "val"}
      /\ overlaps \in 0 .. MaxOverlaps /\ faults \in 0 .. MaxFaults
  BY Zenon DEF TypeInv, Typed, Pc
<1>2. row.content \in Nat \ {0} /\ row.price \in Nat \ {0}
  BY <1>1, PipelineAssumption DEF Row
<1>3. /\ a \in Programs /\ a \notin {"ingester", "poller"}
      /\ \/ a = "enricher" /\ Column[a] = "enr"
         \/ a = "valuator" /\ Column[a] = "val"
  BY DEF Programs, Workers, Column
<1>4. ASSUME NEW st \in {"pending", "in_progress"}
      PROVE  LET new == [row EXCEPT ![Column[a]] = st]
             IN  /\ new \in Row
                 /\ new.content = row.content /\ new.price = row.price
                 /\ new.enriched = row.enriched /\ new.cond = row.cond
                 /\ new.vprice = row.vprice /\ new.venriched = row.venriched
                 /\ new.vcond = row.vcond
                 /\ new.enr = (IF a = "enricher" THEN st ELSE row.enr)
                 /\ new.val = (IF a = "valuator" THEN st ELSE row.val)
  <2>1. CASE a = "enricher" /\ Column[a] = "enr"
    BY <1>1, <1>4, <2>1 DEF Row, Stage
  <2>2. CASE a = "valuator" /\ Column[a] = "val"
    BY <1>1, <1>4, <2>2 DEF Row, Stage
  <2>3. QED
    BY <1>3, <2>1, <2>2
<1>5. ASSUME pc[a] \in {"idle", "down"}, NEW x \in {"idle", "claimed"},
             pc' = [pc EXCEPT ![a] = x],
             row' \in Row, row'.content = row.content, row'.price = row.price,
             row'.enriched = row.enriched, row'.venriched = row.venriched,
             row'.vprice = row.vprice, told' \subseteq {"enr", "val"},
             overlaps' \in 0 .. MaxOverlaps, UNCHANGED <<kind, seen, note, raced, faults>>
      PROVE  TypeInv'
  <2>1. /\ pc' \in [Programs -> Pc] /\ pc'[a] = x
        /\ \A b \in Programs \ {a} : pc'[b] = pc[b]
    BY <1>1, <1>3, <1>5 DEF Pc
  <2>2. Alone(a)
    BY <1>1, <1>5, <2>1, Zenon DEF Alone
  <2>3. seen[a] = Nothing /\ note[a] = NoNote
    BY <1>3, <1>5 DEF TypeInv, Life
  <2>4. /\ Nothing.content = 1 /\ Nothing.price = 1 /\ Nothing.enriched = 0
        /\ NoNote.content = 0
    BY DEF Nothing, Inserted, NoNote
  <2>5. QED
    BY <1>2, <1>3, <1>5, <2>1, <2>2, <2>3, <2>4, MoveTyped
<1>6. CASE Claim(a)
  <2>1. /\ pc[a] = "idle" /\ pc' = [pc EXCEPT ![a] = "claimed"] /\ overlaps' \in 0 .. MaxOverlaps
    BY <1>1, <1>3, <1>6, PipelineAssumption DEF Claim, Begin
  <2>2. /\ row[Column[a]] = "pending" /\ row' = [row EXCEPT ![Column[a]] = "in_progress"]
        /\ told' = told \ {Column[a]} /\ UNCHANGED <<kind, seen, note, raced, faults>>
    BY <1>6 DEF Claim
  <2>3. /\ row' \in Row /\ row'.content = row.content /\ row'.price = row.price
        /\ row'.enriched = row.enriched /\ row'.cond = row.cond
        /\ row'.vprice = row.vprice /\ row'.venriched = row.venriched /\ row'.vcond = row.vcond
        /\ row'.enr = (IF a = "enricher" THEN "in_progress" ELSE row.enr)
        /\ row'.val = (IF a = "valuator" THEN "in_progress" ELSE row.val)
    BY <1>4, <2>2
  <2>4. TypeInv'
    BY <1>1, <1>5, <2>1, <2>2, <2>3
  <2>5. \A b \in Programs \ {a} : pc'[b] = pc[b]
    BY <1>1, <2>1
  <2>6. CASE a = "enricher" /\ Column[a] = "enr"
    BY <1>1, <2>2, <2>3, <2>4, <2>5, <2>6 DEF Programs, Workers
  <2>7. CASE a = "valuator" /\ Column[a] = "val"
    BY <1>1, <2>2, <2>3, <2>4, <2>5, <2>7 DEF Programs, Workers
  <2>8. QED
    BY <1>3, <2>6, <2>7
<1>7. CASE Ignore(a)
  <2>1. /\ pc[a] = "idle" /\ row[Column[a]] # "pending" /\ told' = told \ {Column[a]}
        /\ UNCHANGED <<kind, row, pc, seen, note, raced, overlaps, faults>>
    BY <1>7 DEF Ignore
  <2>2. pc' = [pc EXCEPT ![a] = "idle"]
    BY <1>1, <1>3, <2>1
  <2>3. TypeInv'
    BY <1>1, <1>5, <2>1, <2>2
  <2>4. QED
    BY <1>3, <2>1, <2>3
<1>8. CASE Restart(a)
  <2>1. /\ pc[a] = "down" /\ pc' = [pc EXCEPT ![a] = "idle"]
        /\ \/ row[Column[a]] # "in_progress" /\ row' = row
           \/ row[Column[a]] = "in_progress" /\ row' = [row EXCEPT ![Column[a]] = "pending"]
        /\ told' = told \cup {Column[a]} /\ UNCHANGED <<kind, seen, note, raced, overlaps, faults>>
    BY <1>8 DEF Restart, Goto
  <2>2. /\ row' \in Row /\ row'.content = row.content /\ row'.price = row.price
        /\ row'.enriched = row.enriched /\ row'.cond = row.cond
        /\ row'.vprice = row.vprice /\ row'.venriched = row.venriched /\ row'.vcond = row.vcond
        /\ row'.enr = row.enr \/ (a = "enricher" /\ row'.enr = "pending" /\ row.enr = "in_progress")
        /\ row'.val = row.val \/ (a = "valuator" /\ row'.val = "pending" /\ row.val = "in_progress")
    BY <1>1, <1>3, <1>4, <2>1
  <2>3. TypeInv'
    BY <1>1, <1>3, <1>5, <2>1, <2>2
  <2>4. \A b \in Programs \ {a} : pc'[b] = pc[b]
    BY <1>1, <2>1
  <2>5. CASE a = "enricher" /\ Column[a] = "enr"
    BY <1>1, <2>1, <2>2, <2>3, <2>4, <2>5 DEF Programs, Workers
  <2>6. CASE a = "valuator" /\ Column[a] = "val"
    BY <1>1, <2>1, <2>2, <2>3, <2>4, <2>6 DEF Programs, Workers
  <2>7. QED
    BY <1>3, <2>5, <2>6
<1>9. QED
  BY <1>6, <1>7, <1>8

-----------------------------------------------------------------------------
(* The theorems.                                                           *)

LEMMA TypeInit == Init => TypeInv
<1> SUFFICES ASSUME Init PROVE TypeInv
  OBVIOUS
<1>1. Inserted \in Row /\ NoNote \in Note
  BY PipelineAssumption DEF Inserted, NoNote, Row, Note, Cond, Stage
<1>2. Typed
  <2>1. /\ pc \in [Programs -> {"idle", "claimed", "away", "tx", "failing", "failed", "down"}]
        /\ seen \in [Programs -> Row] /\ note \in [Programs -> Note]
    BY <1>1 DEF Init, Nothing
  <2>2. overlaps \in 0 .. MaxOverlaps /\ faults \in 0 .. MaxFaults
    BY PipelineAssumption DEF Init
  <2>3. QED
    BY <1>1, <2>1, <2>2 DEF Init, Typed
<1>3. {"valuator", "enricher", "ingester", "poller"} \subseteq Programs
  BY DEF Programs, Workers
<1>4. \A a \in Programs : pc[a] = "idle" /\ seen[a] = Nothing /\ note[a] = NoNote
  BY DEF Init
<1>5. Life
  BY <1>3, <1>4 DEF Life
<1>6. Behind
  BY <1>3, <1>4 DEF Behind, Init, Nothing, Inserted, NoNote
<1>7. OneWriter
  BY <1>3, <1>4 DEF OneWriter
<1>8. QED
  BY <1>2, <1>5, <1>6, <1>7 DEF TypeInv

\* Every step is one of those above.
LEMMA StepCases ==
  ASSUME Next
  PROVE  \/ EnrichDone \/ EnrichSkip \/ EnrichFail
         \/ ValueCommit \/ ValueSkip \/ ValueFail
         \/ PollCommit \/ IngestCommit
         \/ VisionOverride \/ \E st \in {"done", "skipped"} : VisionPlain(st)
         \/ EnrichRead \/ EnrichLoad \/ ValueLoad \/ ValueError \/ ValueFailLoad
         \/ PollRead \/ PollLoad \/ VisionRead \/ VisionLoad \/ IngestLoad
         \/ \E a \in Workers : Claim(a) \/ Ignore(a) \/ Restart(a)
         \/ \E a \in Programs : Crash(a)
  BY Zenon DEF Next, Enricher, Valuator, Poller, Vision

LEMMA TypeStep == TypeInv /\ [Next]_vars => TypeInv'
<1> SUFFICES ASSUME TypeInv, [Next]_vars PROVE TypeInv'
  OBVIOUS
<1>1. CASE UNCHANGED vars
  BY <1>1, Zenon DEF vars, TypeInv, Typed, Life, Behind, OneWriter
<1>2. CASE Next
  BY <1>2, StepCases, EnrichStep, ValueStep, PollStep, VisionStep, IngestStep, LoadStep,
     WorkerStep, CrashStep
<1>3. QED
  BY <1>1, <1>2

\* The row and what the programs hold of it are of their types, and no derived version is
\* ahead of the one it derives from, however the programs overlap, fail and crash.
THEOREM TypeCorrect == Spec => []TypeOK
<1>1. TypeInv => TypeOK
  <2> SUFFICES ASSUME TypeInv PROVE TypeOK
    OBVIOUS
  <2>1. /\ row \in Row /\ kind \in {"auction", "listing"} /\ told \subseteq {"enr", "val"}
        /\ raced \subseteq Programs /\ overlaps \in 0 .. MaxOverlaps /\ faults \in 0 .. MaxFaults
    BY Zenon DEF TypeInv, Typed
  <2>2. /\ {row.content, row.enriched, row.venriched} \subseteq 0 .. MaxContent
        /\ {row.price, row.vprice} \subseteq 0 .. MaxPrice
    BY <2>1, PipelineAssumption DEF Row
  <2>3. /\ {row.cond, row.vcond} \subseteq {"none", "described", "seen"}
        /\ {row.enr, row.val} \subseteq {"pending", "in_progress", "done", "skipped", "failed"}
        /\ row.vis \in {"pending", "done", "skipped"}
    BY <2>1 DEF Row, Cond, Stage
  <2>4. /\ row.enriched <= row.content /\ row.venriched <= row.content
        /\ row.vprice <= row.price
        /\ \A a \in Programs : seen[a] # Nothing => pc[a] \in {"tx", "failed"}
        /\ \A a \in Programs : note[a] # NoNote => pc[a] \in {"away", "tx"}
    BY Zenon DEF TypeInv, Life, Behind
  <2>5. QED
    BY <2>1, <2>2, <2>3, <2>4, Zenon DEF TypeOK
<1>2. QED
  BY <1>1, TypeInit, TypeStep, PTL DEF Spec

LEMMA PriceStep == TypeInv /\ PriceFresh /\ [Next]_vars => PriceFresh'
<1> SUFFICES ASSUME TypeInv, PriceFresh, [Next]_vars PROVE PriceFresh'
  OBVIOUS
<1>1. CASE UNCHANGED vars
  BY <1>1, Zenon DEF vars, PriceFresh
<1>2. CASE EnrichDone \/ EnrichSkip \/ EnrichFail
  BY <1>2, EnrichStep DEF PriceFresh
<1>3. CASE ValueCommit \/ ValueSkip \/ ValueFail
  BY <1>3, ValueStep DEF PriceFresh
<1>4. CASE PollCommit
  BY <1>4, PollStep DEF PriceFresh
<1>5. CASE IngestCommit
  BY <1>5, IngestStep DEF PriceFresh
<1>6. CASE VisionOverride \/ \E st \in {"done", "skipped"} : VisionPlain(st)
  BY <1>6, VisionStep DEF PriceFresh
<1>7. CASE \/ EnrichRead \/ EnrichLoad \/ ValueLoad \/ ValueError \/ ValueFailLoad
           \/ PollRead \/ PollLoad \/ VisionRead \/ VisionLoad \/ IngestLoad
  BY <1>7, LoadStep DEF PriceFresh
<1>8. ASSUME NEW a \in Workers, Claim(a) \/ Ignore(a) \/ Restart(a) PROVE PriceFresh'
  BY <1>8, WorkerStep DEF PriceFresh
<1>9. ASSUME NEW a \in Programs, Crash(a) PROVE PriceFresh'
  BY <1>9, CrashStep DEF PriceFresh
<1>10. QED
  BY StepCases, <1>1, <1>2, <1>3, <1>4, <1>5, <1>6, <1>7, <1>8, <1>9

\* A score that counts as done is that of the row's price, unless valuator, poller or
\* ingester has committed over a change it had not read.
THEOREM ScoreFollowsPrice == Spec => []PriceFresh
<1>1. Init => PriceFresh
  BY DEF Init, Inserted, PriceFresh
<1>2. QED
  BY <1>1, TypeInit, TypeStep, PriceStep, PTL DEF Spec

LEMMA FactsStep == TypeInv /\ FactsFresh /\ [Next]_vars => FactsFresh'
<1> SUFFICES ASSUME TypeInv, FactsFresh, [Next]_vars PROVE FactsFresh'
  OBVIOUS
<1>1. CASE UNCHANGED vars
  BY <1>1, Zenon DEF vars, FactsFresh
<1>2. CASE EnrichDone \/ EnrichSkip \/ EnrichFail
  BY <1>2, EnrichStep DEF FactsFresh
<1>3. CASE ValueCommit \/ ValueSkip \/ ValueFail
  BY <1>3, ValueStep DEF FactsFresh
<1>4. CASE PollCommit
  BY <1>4, PollStep DEF FactsFresh
<1>5. CASE IngestCommit
  BY <1>5, IngestStep DEF FactsFresh
<1>6. CASE VisionOverride \/ \E st \in {"done", "skipped"} : VisionPlain(st)
  BY <1>6, VisionStep DEF FactsFresh
<1>7. CASE \/ EnrichRead \/ EnrichLoad \/ ValueLoad \/ ValueError \/ ValueFailLoad
           \/ PollRead \/ PollLoad \/ VisionRead \/ VisionLoad \/ IngestLoad
  BY <1>7, LoadStep DEF FactsFresh
<1>8. ASSUME NEW a \in Workers, Claim(a) \/ Ignore(a) \/ Restart(a) PROVE FactsFresh'
  BY <1>8, WorkerStep DEF FactsFresh
<1>9. ASSUME NEW a \in Programs, Crash(a) PROVE FactsFresh'
  BY <1>9, CrashStep DEF FactsFresh
<1>10. QED
  BY StepCases, <1>1, <1>2, <1>3, <1>4, <1>5, <1>6, <1>7, <1>8, <1>9

\* A score that counts as done is that of the row's enrichment and condition, unless
\* valuator, enricher or vision has committed over a change it had not read.
THEOREM ScoreFollowsFacts == Spec => []FactsFresh
<1>1. Init => FactsFresh
  BY DEF Init, Inserted, FactsFresh
<1>2. QED
  BY <1>1, TypeInit, TypeStep, FactsStep, PTL DEF Spec

LEMMA EnrichedStep == TypeInv /\ EnrichedFresh /\ [Next]_vars => EnrichedFresh'
<1> SUFFICES ASSUME TypeInv, EnrichedFresh, [Next]_vars PROVE EnrichedFresh'
  OBVIOUS
<1>1. CASE UNCHANGED vars
  BY <1>1, Zenon DEF vars, EnrichedFresh
<1>2. CASE EnrichDone \/ EnrichSkip \/ EnrichFail
  BY <1>2, EnrichStep DEF EnrichedFresh
<1>3. CASE ValueCommit \/ ValueSkip \/ ValueFail
  BY <1>3, ValueStep DEF EnrichedFresh
<1>4. CASE PollCommit
  BY <1>4, PollStep DEF EnrichedFresh
<1>5. CASE IngestCommit
  BY <1>5, IngestStep DEF EnrichedFresh
<1>6. CASE VisionOverride \/ \E st \in {"done", "skipped"} : VisionPlain(st)
  BY <1>6, VisionStep DEF EnrichedFresh
<1>7. CASE \/ EnrichRead \/ EnrichLoad \/ ValueLoad \/ ValueError \/ ValueFailLoad
           \/ PollRead \/ PollLoad \/ VisionRead \/ VisionLoad \/ IngestLoad
  BY <1>7, LoadStep DEF EnrichedFresh
<1>8. ASSUME NEW a \in Workers, Claim(a) \/ Ignore(a) \/ Restart(a) PROVE EnrichedFresh'
  BY <1>8, WorkerStep DEF EnrichedFresh
<1>9. ASSUME NEW a \in Programs, Crash(a) PROVE EnrichedFresh'
  BY <1>9, CrashStep DEF EnrichedFresh
<1>10. QED
  BY StepCases, <1>1, <1>2, <1>3, <1>4, <1>5, <1>6, <1>7, <1>8, <1>9

\* An enrichment that counts as done is that of the row's content, unless enricher or
\* ingester has committed over the other's change.
THEOREM EnrichmentFollows == Spec => []EnrichedFresh
<1>1. Init => EnrichedFresh
  BY DEF Init, Inserted, EnrichedFresh
<1>2. QED
  BY <1>1, TypeInit, TypeStep, EnrichedStep, PTL DEF Spec

LEMMA ChainStep == TypeInv /\ WakeChain /\ [Next]_vars => WakeChain'
<1> SUFFICES ASSUME TypeInv, WakeChain, [Next]_vars PROVE WakeChain'
  OBVIOUS
<1>1. CASE UNCHANGED vars
  BY <1>1, Zenon DEF vars, WakeChain
<1>2. pc \in [Programs -> Pc] /\ {"enricher", "valuator"} \subseteq Programs
  BY DEF TypeInv, Typed, Pc, Programs, Workers
<1>3. CASE EnrichDone \/ EnrichSkip \/ EnrichFail
  BY <1>2, <1>3, EnrichStep DEF WakeChain
<1>4. CASE ValueCommit \/ ValueSkip \/ ValueFail
  BY <1>2, <1>4, ValueStep DEF WakeChain
<1>5. CASE PollCommit
  BY <1>2, <1>5, PollStep DEF WakeChain
<1>6. CASE IngestCommit
  BY <1>2, <1>6, IngestStep DEF WakeChain
<1>7. CASE VisionOverride \/ \E st \in {"done", "skipped"} : VisionPlain(st)
  BY <1>2, <1>7, VisionStep DEF WakeChain
<1>8. CASE \/ EnrichRead \/ EnrichLoad \/ ValueLoad \/ ValueError \/ ValueFailLoad
           \/ PollRead \/ PollLoad \/ VisionRead \/ VisionLoad \/ IngestLoad
  BY <1>2, <1>8, LoadStep DEF WakeChain, Workers
<1>9. ASSUME NEW a \in Workers, Claim(a) \/ Ignore(a) \/ Restart(a) PROVE WakeChain'
  BY <1>2, <1>9, WorkerStep DEF WakeChain
<1>10. ASSUME NEW a \in Programs, Crash(a) PROVE WakeChain'
  BY <1>2, <1>10, CrashStep DEF WakeChain, Workers
<1>11. QED
  BY StepCases, <1>1, <1>3, <1>4, <1>5, <1>6, <1>7, <1>8, <1>9, <1>10

\* Whatever is pending has been told to its stage or waits for an earlier one that will
\* tell it, but for the cases WakeChain names: no other wake-up is lost.
THEOREM ChainUnbroken == Spec => []WakeChain
<1>1. Init => WakeChain
  BY DEF Init, Inserted, WakeChain
<1>2. QED
  BY <1>1, TypeInit, TypeStep, ChainStep, PTL DEF Spec
=============================================================================
