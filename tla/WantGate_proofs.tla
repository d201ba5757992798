--------------------------- MODULE WantGate_proofs ---------------------------
(***************************************************************************)
(* Proofs about WantGate, for any wants, criteria, texts and facts:        *)
(*   TypeCorrect    Spec => []TypeOK                                       *)
(*   NothingTurnedAway  Spec => []GateSound                                *)
(*   NoMatchLost    Spec => []MatchNotMissed                               *)
(***************************************************************************)
EXTENDS WantGate, TLAPS

-----------------------------------------------------------------------------
(* Types.                                                                  *)

\* The variables of WantGate keep their types: the row, the wants, the enricher, and the
\* transactions that value the offer and that create a want.
THEOREM TypeCorrect == Spec => []TypeOK
<1>1. Init => TypeOK
  BY WantGateAssumption DEF Init, TypeOK, NotValuing, NoCreation
<1>2. TypeOK /\ [Next]_vars => TypeOK'
  <2> SUFFICES ASSUME TypeOK, [Next]_vars PROVE TypeOK'
    OBVIOUS
  <2> USE DEF TypeOK, row, work
  <2>1. ASSUME NEW w \in Wants, CreateWant(w) PROVE TypeOK'
    <3>1. creation' \in [want : Wants, found : BOOLEAN]
      BY <2>1 DEF CreateWant, Backfillable, Matches
    <3>2. excused' \subseteq Wants /\ turns' \in 0..MaxTurns
      BY <2>1, WantGateAssumption DEF CreateWant, Turn
    <3>3. QED
      BY <2>1, <3>1, <3>2 DEF CreateWant
  <2>2. ASSUME NEW w \in Wants, ToggleWant(w) PROVE TypeOK'
    BY <2>2, WantGateAssumption DEF ToggleWant, Turn
  <2>3. ASSUME NEW w \in Wants, DeleteWant(w) PROVE TypeOK'
    BY <2>3 DEF DeleteWant
  <2>4. CASE WantCreated
    <3>1. creation.want \in Wants
      BY <2>4 DEF WantCreated, NoCreation
    <3>2. QED
      BY <2>4, <3>1 DEF WantCreated, NoCreation
  <2>5. CASE Ingest
    BY <2>5 DEF Ingest, Active
  <2>6. CASE Close \/ Disappear \/ Reappear
    BY <2>6 DEF Close, Disappear, Reappear
  <2>7. CASE Bid \/ Reprice \/ Rescore
    <3>1. Revalue /\ facts' \in Facts /\ live' \in BOOLEAN
      BY <2>7 DEF Bid, Reprice, Rescore, Repriced
    <3>2. QED
      BY <3>1, WantGateAssumption DEF Revalue
  <2>8. CASE StartEnrich
    BY <2>8 DEF StartEnrich, Active
  <2>9. CASE Skip
    BY <2>9 DEF Skip
  <2>10. CASE Enrich
    BY <2>10 DEF Enrich
  <2>11. CASE StartValue
    BY <2>11 DEF StartValue, Active
  <2>12. CASE SkipValue
    BY <2>12 DEF SkipValue
  <2>13. CASE Value
    <3>1. {creation.want} \ {"none"} \subseteq Wants
      BY DEF NoCreation
    <3>2. Unread \subseteq Wants /\ Satisfied(valuing.wants) \subseteq Wants
      <4>1. valuing.wants \subseteq Wants
        BY DEF NotValuing
      <4>2. QED
        BY <3>1, <4>1 DEF Unread, Satisfied, Active
    <3>3. QED
      BY <2>13, <3>2 DEF Value
  <2>14. CASE UNCHANGED vars
    BY <2>14 DEF vars
  <2>15. QED
    BY <2>1, <2>2, <2>3, <2>4, <2>5, <2>6, <2>7, <2>8, <2>9, <2>10, <2>11, <2>12, <2>13,
       <2>14 DEF Next
<1>3. QED
  BY <1>1, <1>2, PTL DEF Spec

-----------------------------------------------------------------------------
(* The gate.                                                               *)

\* An identification by make, model and year, of facts the text names, is one the
\* coarse comparison of the text lets pass.
LEMMA IdentifiedResembles ==
  ASSUME NEW c, NEW f, NEW r,
         {f.make, f.model} \subseteq r.text,
         r.facts.year # Null => f.year = r.facts.year,
         Identifies(c, f)
  PROVE  Resembles(c, r)
<1>1. AnyTermIn(c.makes, r.text)
  BY DEF Identifies, InSet, AnyTermIn
<1>2. AnyTermIn(c.models, r.text)
  BY DEF Identifies, InSet, AnyTermIn
<1>3. YearOk(r.facts.year, c)
  BY DEF Identifies, YearInRange, YearOk, Within
<1>4. QED
  BY <1>1, <1>2, <1>3 DEF Resembles

\* What a want matches once enriched faithfully, the gate lets pass.
LEMMA MatchPassesGate ==
  ASSUME NEW ws, NEW w \in ws, NEW f, Faithful(f), Matches(Criteria[w], f)
  PROVE  CouldMatchAny(raw, ws)
<1> DEFINE c == Criteria[w]
<1>1. CASE c.specs # {}
  <2>1. PICK s \in c.specs : Identifies(s, f)
    BY <1>1 DEF Matches
  <2>2. Resembles(s, raw)
    BY <2>1, IdentifiedResembles DEF Faithful
  <2>3. QED
    BY <1>1, <2>2 DEF CouldMatchAny
<1>2. CASE c.specs = {}
  <2>1. Identifies(c, f)
    BY <1>2 DEF Matches
  <2>2. Resembles(c, raw)
    BY <2>1, IdentifiedResembles DEF Faithful
  <2>3. QED
    BY <1>2, <2>2 DEF CouldMatchAny
<1>3. QED
  BY <1>1, <1>2

\* The strengthening: what is turned away, or about to be, could match none of the
\* wants the gate has looked at.
GateInv ==
  enricher = "skipping" \/ (enrichment = "none" /\ gated # {}) => ~CouldMatchAny(raw, gated)

\* The gate of ingester and enricher turns away no offer that, faithfully enriched,
\* one of the wants it looked at would match.
THEOREM NothingTurnedAway == Spec => []GateSound
<1>1. Init => GateInv
  BY DEF Init, GateInv
<1>2. GateInv /\ [Next]_vars => GateInv'
  <2> SUFFICES ASSUME GateInv, [Next]_vars PROVE GateInv'
    OBVIOUS
  <2> USE DEF row, work
  <2>1. ASSUME UNCHANGED <<raw, gated, enrichment, enricher>> PROVE GateInv'
    BY <2>1 DEF GateInv, CouldMatchAny
  <2>2. CASE \E w \in Wants : CreateWant(w) \/ ToggleWant(w) \/ DeleteWant(w)
    BY <2>1, <2>2 DEF CreateWant, ToggleWant, DeleteWant
  <2>3. CASE WantCreated \/ UNCHANGED vars
    BY <2>1, <2>3 DEF WantCreated, vars
  <2>4. CASE Ingest
    BY <2>4 DEF Ingest, GateInv, CouldMatchAny
  <2>5. CASE Close \/ Disappear \/ Reappear \/ Bid \/ Reprice \/ Rescore
    BY <2>1, <2>5 DEF Close, Disappear, Reappear, Bid, Reprice, Rescore, Revalue
  <2>6. CASE StartEnrich
    BY <2>6 DEF StartEnrich, GateInv, CouldMatchAny
  <2>7. CASE Skip \/ Enrich
    BY <2>7 DEF Skip, Enrich, GateInv
  <2>8. CASE StartValue \/ SkipValue \/ Value
    BY <2>1, <2>8 DEF StartValue, SkipValue, Value
  <2>9. QED
    BY <2>2, <2>3, <2>4, <2>5, <2>6, <2>7, <2>8 DEF Next
<1>3. GateInv => GateSound
  BY MatchPassesGate DEF GateInv, GateSound
<1>4. QED
  BY <1>1, <1>2, <1>3, PTL DEF Spec

-----------------------------------------------------------------------------
(* The matches.                                                            *)

\* A valuation under way has read every enabled want but those that changed since.
ReadAll == Valuing => Active \subseteq valuing.wants \cup excused

\* A want being created is not there yet for anyone else; its backfill has found the
\* valued offer, or it is no match, or the two did not see each other.
BackfillSees ==
  creation # NoCreation =>
    /\ creation.want \in Wants /\ want[creation.want] = "none"
    /\ Valued => \/ creation.found
                 \/ creation.want \in excused
                 \/ ~Matches(Criteria[creation.want], facts)

MatchInv == TypeOK /\ ReadAll /\ BackfillSees /\ MatchNotMissed

\* A valued offer, open or over, has a match with every enabled want it satisfies, but
\* for those MatchNotMissed names: the wants that a backfill or a valuation leaves out,
\* each for the reason under which "excused" gets it, and no others.
THEOREM NoMatchLost == Spec => []MatchNotMissed
<1>1. Init => MatchInv
  <2> SUFFICES ASSUME Init PROVE MatchInv
    OBVIOUS
  <2>1. TypeOK
    BY WantGateAssumption DEF Init, TypeOK, NotValuing, NoCreation
  <2>2. ReadAll /\ BackfillSees /\ MatchNotMissed
    BY DEF Init, ReadAll, Valuing, Valued, BackfillSees, MatchNotMissed
  <2>3. QED
    BY <2>1, <2>2 DEF MatchInv
<1>2. MatchInv /\ TypeOK' /\ [Next]_vars => MatchInv'
  <2> SUFFICES ASSUME MatchInv, TypeOK', [Next]_vars
               PROVE  ReadAll' /\ BackfillSees' /\ MatchNotMissed'
    BY DEF MatchInv
  <2> USE DEF MatchInv, ReadAll, BackfillSees, MatchNotMissed, Valued, Valuing, Active, TypeOK,
              row, work
  <2>1. ASSUME NEW w \in Wants, CreateWant(w)
        PROVE  ReadAll' /\ BackfillSees' /\ MatchNotMissed'
    <3>1. PICK returned \in BOOLEAN :
            LET selected == Backfillable /\ returned IN
            /\ creation' = [want |-> w, found |-> selected /\ Matches(Criteria[w], facts)]
            /\ excused' = IF Valued /\ ~selected THEN excused \cup {w} ELSE excused
      BY <2>1 DEF CreateWant
    <3>2. want[w] = "none" /\ UNCHANGED <<facts, valuation, want, match, valuing>>
      BY <2>1 DEF CreateWant
    <3>3. ReadAll' /\ MatchNotMissed'
      BY <3>1, <3>2 DEF Matches
    <3>4. BackfillSees'
      BY <3>1, <3>2 DEF Backfillable, Matches
    <3>5. QED
      BY <3>3, <3>4
  <2>2. ASSUME NEW w \in Wants, ToggleWant(w)
        PROVE  ReadAll' /\ BackfillSees' /\ MatchNotMissed'
    BY <2>2 DEF ToggleWant
  <2>3. ASSUME NEW w \in Wants, DeleteWant(w)
        PROVE  ReadAll' /\ BackfillSees' /\ MatchNotMissed'
    BY <2>3 DEF DeleteWant
  <2>4. CASE WantCreated
    <3> DEFINE w == creation.want
    <3>1. /\ w \in Wants /\ Active' = Active \cup {w}
          /\ creation' = NoCreation /\ UNCHANGED <<facts, valuation, valuing>>
      BY <2>4 DEF WantCreated
    <3>2. ReadAll'
      BY <2>4, <3>1 DEF WantCreated
    <3>3. BackfillSees'
      BY <3>1
    <3>4. ASSUME Valued, NEW v \in Active', Matches(Criteria[v], facts)
          PROVE  v \in match' \cup excused'
      <4>1. CASE v = w
        BY <2>4, <3>1, <3>4, <4>1 DEF WantCreated
      <4>2. CASE v \in Active
        BY <2>4, <3>4, <4>2 DEF WantCreated
      <4>3. QED
        BY <3>1, <3>4, <4>1, <4>2
    <3>5. MatchNotMissed'
      BY <3>1, <3>4 DEF Matches
    <3>6. QED
      BY <3>2, <3>3, <3>5
  <2>5. CASE Close \/ Disappear \/ Reappear
    <3>1. UNCHANGED <<facts, valuation, want, match, creation, valuing, excused>>
      BY <2>5 DEF Close, Disappear, Reappear
    <3>2. QED
      BY <3>1 DEF Matches
  <2>6. CASE Ingest
    <3>1. /\ UNCHANGED <<facts, want, match, creation, valuing, excused>>
          /\ valuation' \in {valuation, "pending"}
      BY <2>6 DEF Ingest
    <3>2. QED
      BY <3>1 DEF Matches
  <2>7. CASE Bid \/ Reprice \/ Rescore \/ Skip \/ Enrich
    <3>1. /\ UNCHANGED <<want, creation, valuing, excused>>
          /\ valuation' \in {"pending", "skipped"}
      BY <2>7 DEF Bid, Reprice, Rescore, Revalue, Skip, Enrich
    <3>2. QED
      BY <3>1
  <2>8. CASE StartEnrich
    BY <2>8 DEF StartEnrich, Matches
  <2>9. CASE StartValue
    <3>1. /\ UNCHANGED <<want, creation, excused>> /\ valuation' = "pending"
          /\ valuing' = [facts |-> facts, wants |-> Active]
      BY <2>9 DEF StartValue
    <3>2. QED
      BY <3>1
  <2>10. CASE SkipValue
    BY <2>10 DEF SkipValue
  <2>11. CASE Value
    <3>1. CASE \E w \in Satisfied(valuing.wants) : want[w] = "deleted"
      BY <2>11, <3>1 DEF Value
    <3>2. CASE ~\E w \in Satisfied(valuing.wants) : want[w] = "deleted"
      <4>1. /\ match' = match \cup Satisfied(valuing.wants) /\ excused' = Unread
            /\ valuing' = NotValuing /\ UNCHANGED <<facts, want, creation>>
        BY <2>11, <3>2 DEF Value
      <4>2. BackfillSees'
        BY <4>1, WantGateAssumption DEF Unread
      <4>3. ASSUME NEW w \in Active, Matches(Criteria[w], facts)
            PROVE  w \in match' \cup excused'
        <5>1. CASE facts # valuing.facts
          BY <4>1, <4>3, <5>1 DEF Unread
        <5>2. CASE facts = valuing.facts
          <6>1. w \in valuing.wants \cup excused
            BY <2>11, <4>3 DEF Value
          <6>2. QED
            BY <4>1, <4>3, <5>2, <6>1 DEF Unread, Satisfied
        <5>3. QED
          BY <5>1, <5>2
      <4>4. ReadAll' /\ MatchNotMissed'
        BY <4>1, <4>3 DEF Matches
      <4>5. QED
        BY <4>2, <4>4
    <3>3. QED
      BY <3>1, <3>2
  <2>12. CASE UNCHANGED vars
    BY <2>12 DEF vars, Matches
  <2>13. QED
    BY <2>1, <2>2, <2>3, <2>4, <2>5, <2>6, <2>7, <2>8, <2>9, <2>10, <2>11, <2>12 DEF Next
<1>3. Spec => []TypeOK
  BY TypeCorrect
<1>4. MatchInv => MatchNotMissed
  BY DEF MatchInv
<1>5. QED
  BY <1>1, <1>2, <1>3, <1>4, PTL DEF Spec
=============================================================================
