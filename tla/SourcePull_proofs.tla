-------------------------- MODULE SourcePull_proofs --------------------------
(***************************************************************************)
(* Proofs about SourcePull, for any sources, listings, wants and searches: *)
(*   TypeCorrect      Spec => []TypeOK                                     *)
(*   RemovalsExplained Spec => RemovedExplained                            *)
(***************************************************************************)
EXTENDS SourcePull, TLAPS

Pulls == [source : Sources, todo : SUBSET (Wants \X Searches),
          page : SUBSET Listings, seen : SUBSET Listings]

\* A listing of the source being pulled that is on its site has been seen, is about to
\* be, may still be found, or is accounted for as one the pull cannot see.
PullCovers ==
  pull # NoPull =>
    \A x \in site :
      At[x] = pull.source =>
        \/ x \in unseen \/ x \in pull.seen \/ x \in pull.page
        \/ \E t \in pull.todo : x \in Finds[t[2]]

PullInv == TypeOK /\ PullCovers

LEMMA InitInv == Init => PullInv
  BY SourcePullAssumption DEF Init, PullInv, TypeOK, PullCovers, NoRun

\* A page holds listings of the source being pulled.
LEMMA PageShown ==
  ASSUME PullInv, NEW q, NEW P \in FirstPage(q)
  PROVE  P \subseteq Shown(q) /\ P \subseteq Listings /\ \A x \in P : At[x] = pull.source
  BY DEF FirstPage, Shown, PullInv, TypeOK

LEMMA SearchInv ==
  ASSUME PullInv, NEW w \in Wants, NEW q \in Searches, Search(w, q)
  PROVE  PullInv'
<1> USE DEF PullInv
<1>1. PICK P \in FirstPage(q) :
        /\ pull' = [pull EXCEPT !.todo = @ \ {<<w, q>>}, !.page = P \ pull.seen]
        /\ unseen' = unseen \cup (Shown(q) \ (P \cup pull.seen))
  BY DEF Search
<1>2. pull \in Pulls /\ pull.page = {}
  BY DEF Search, TypeOK, Pulls
<1>3. /\ pull' \in Pulls
      /\ pull'.source = pull.source /\ pull'.todo = pull.todo \ {<<w, q>>}
      /\ pull'.page = P \ pull.seen /\ pull'.seen = pull.seen
  BY <1>1, <1>2, PageShown DEF Pulls
<1>4. UNCHANGED <<site, wants, row, run, surprises>>
  BY DEF Search
<1>5. TypeOK'
  <2>1. /\ pull'.page \cap pull'.seen = {}
        /\ \A x \in pull'.page \cup pull'.seen : At[x] = pull'.source
    BY <1>2, <1>3, PageShown DEF TypeOK, Pulls, Search
  <2>2. unseen' \subseteq Listings
    BY <1>1 DEF TypeOK, Shown
  <2>3. QED
    BY <1>3, <1>4, <2>1, <2>2 DEF TypeOK, Pulls
<1>6. PullCovers'
  <2> SUFFICES ASSUME NEW x \in site, At[x] = pull.source
               PROVE  \/ x \in unseen' \/ x \in pull'.seen \/ x \in pull'.page
                      \/ \E t \in pull'.todo : x \in Finds[t[2]]
    BY <1>3, <1>4 DEF PullCovers
  <2>1. CASE x \in Finds[q]
    BY <1>1, <1>3, <2>1 DEF Shown
  <2>2. CASE \E t \in pull.todo : x \in Finds[t[2]] /\ x \notin Finds[q]
    BY <1>3, <2>2
  <2>3. CASE x \in unseen \/ x \in pull.seen
    BY <1>1, <1>3, <2>3
  <2>4. QED
    BY <1>2, <2>1, <2>2, <2>3 DEF PullCovers, Search
<1>7. QED
  BY <1>5, <1>6

LEMMA NextInv == PullInv /\ [Next]_vars => PullInv'
<1> SUFFICES ASSUME PullInv, [Next]_vars PROVE PullInv'
  OBVIOUS
<1> USE SourcePullAssumption DEF PullInv
<1>0. pull # NoPull => pull \in Pulls
  BY DEF TypeOK, Pulls
<1>1. ASSUME NEW x \in Listings, Post(x) \/ Vanish(x) PROVE PullInv'
  BY <1>1 DEF Post, Vanish, Surprise, TypeOK, PullCovers
<1>2. ASSUME NEW x \in Listings, Upsert(x) PROVE PullInv'
  <2>1. /\ pull' \in Pulls
        /\ pull'.source = pull.source /\ pull'.todo = pull.todo
        /\ pull'.page = pull.page \ {x} /\ pull'.seen = pull.seen \cup {x}
    BY <1>0, <1>2 DEF Upsert, Pulls
  <2>2. TypeOK'
    BY <1>2, <2>1 DEF Upsert, TypeOK, Pulls
  <2>3. PullCovers'
    BY <1>2, <2>1 DEF Upsert, PullCovers
  <2>4. QED
    BY <2>2, <2>3
<1>3. ASSUME NEW w \in Wants, Toggle(w) PROVE PullInv'
  BY <1>3 DEF Toggle, Surprise, TypeOK, PullCovers
<1>4. CASE StartRun \/ EndRun
  BY <1>4 DEF StartRun, EndRun, NoRun, TypeOK, PullCovers
<1>5. CASE PullFails \/ IngesterDies
  BY <1>5 DEF PullFails, IngesterDies, Surprise, NoRun, TypeOK, PullCovers
<1>6. CASE Reconcile
  BY <1>6 DEF Reconcile, TypeOK, PullCovers
<1>7. ASSUME NEW s \in Sources, StartPull(s) PROVE PullInv'
  <2> DEFINE asked == {t \in run.asked \X Searches : t[2] \in Asks[t[1]]}
  <2>1. /\ asked \subseteq Wants \X Searches
        /\ pull' = [source |-> s, todo |-> asked, page |-> {}, seen |-> {}]
        /\ unseen' = Listings \ UNION {Finds[t[2]] : t \in asked}
    BY <1>7 DEF StartPull, TypeOK
  <2>2. /\ pull' \in Pulls /\ pull'.source = s /\ pull'.todo = asked
        /\ pull'.page = {} /\ pull'.seen = {}
    BY <2>1 DEF Pulls
  <2>3. TypeOK'
    BY <1>7, <2>1, <2>2 DEF StartPull, TypeOK, Pulls
  <2>4. PullCovers'
    BY <1>7, <2>1, <2>2 DEF StartPull, TypeOK, PullCovers
  <2>5. QED
    BY <2>3, <2>4
<1>8. ASSUME NEW w \in Wants, NEW q \in Searches, Search(w, q) PROVE PullInv'
  BY <1>8, SearchInv
<1>9. ASSUME NEW w \in Wants, NEW q \in Searches, SearchFails(w, q) PROVE PullInv'
  <2>1. /\ pull' \in Pulls
        /\ pull'.source = pull.source /\ pull'.todo = pull.todo \ {<<w, q>>}
        /\ pull'.page = pull.page /\ pull'.seen = pull.seen
    BY <1>0, <1>9 DEF SearchFails, Pulls
  <2>2. TypeOK'
    BY <1>9, <2>1 DEF SearchFails, Surprise, Shown, TypeOK, Pulls
  <2>3. PullCovers'
    <3> SUFFICES ASSUME NEW x \in site, At[x] = pull.source
                 PROVE  \/ x \in unseen' \/ x \in pull'.seen \/ x \in pull'.page
                        \/ \E t \in pull'.todo : x \in Finds[t[2]]
      BY <1>9, <2>1 DEF SearchFails, PullCovers
    <3>1. CASE x \in Finds[q]
      BY <1>9, <2>1, <3>1 DEF SearchFails, Shown
    <3>2. CASE \E t \in pull.todo : x \in Finds[t[2]] /\ x \notin Finds[q]
      BY <2>1, <3>2
    <3>3. CASE x \in unseen \/ x \in pull.seen \/ x \in pull.page
      BY <1>9, <2>1, <3>3 DEF SearchFails
    <3>4. QED
      BY <1>9, <3>1, <3>2, <3>3 DEF PullCovers, SearchFails
  <2>4. QED
    BY <2>2, <2>3
<1>10. CASE UNCHANGED vars
  BY <1>10 DEF vars, TypeOK, PullCovers
<1>11. QED
  BY <1>1, <1>2, <1>3, <1>4, <1>5, <1>6, <1>7, <1>8, <1>9, <1>10 DEF Next

\* The ingester's variables keep their types; a listing of a page is written once, and
\* is one of the source that is pulled.
THEOREM TypeCorrect == Spec => []TypeOK
<1>1. PullInv => TypeOK
  BY DEF PullInv
<1>2. QED
  BY <1>1, InitInv, NextInv, PTL DEF Spec

\* A listing that is still on its site is marked removed only if the pull could not
\* see it.
THEOREM RemovalsExplained == Spec => RemovedExplained
<1> DEFINE Explained ==
      \A x \in Listings :
        row[x] = "active" /\ row'[x] = "removed" /\ x \in site => x \in unseen
<1>1. PullInv /\ [Next]_vars => Explained
  <2> SUFFICES ASSUME PullInv, [Next]_vars, NEW x \in Listings,
                      row[x] = "active", row'[x] = "removed", x \in site
               PROVE  x \in unseen
    OBVIOUS
  <2>1. Reconcile
    <3>1. row \in [Listings -> {"absent", "active", "removed"}]
      BY DEF PullInv, TypeOK
    <3>2. ASSUME NEW y \in Listings, Upsert(y) PROVE row'[x] = "active"
      BY <3>1, <3>2 DEF Upsert
    <3>3. row' # row
      OBVIOUS
    <3>4. QED
      BY <3>2, <3>3 DEF Next, vars, Post, Vanish, Toggle, StartRun, EndRun, PullFails,
                        IngesterDies, StartPull, Search, SearchFails
  <2>2. At[x] = pull.source /\ x \notin pull.seen /\ pull.page = {} /\ pull.todo = {}
    BY <2>1 DEF Reconcile
  <2>3. QED
    BY <2>1, <2>2 DEF PullInv, PullCovers, Reconcile
<1>2. PullInv /\ [Next]_vars => [Explained]_vars
  BY <1>1
<1>3. QED
  BY <1>2, InitInv, NextInv, PTL DEF Spec, RemovedExplained
=============================================================================
