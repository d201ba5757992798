--------------------------- MODULE Sources_proofs ---------------------------
(***************************************************************************)
(* Proofs about the auction sources, for any catalogues, lots, page sizes, *)
(* sources and ages.                                                       *)
(*  CatalogueWalk, the ingester's way through the catalogues:              *)
(*   NothingMissed    Spec => []MissedExplained                            *)
(*  SourceWatchdog, which tells the operator of a source gone dark:        *)
(*   WatchTypeCorrect WatchSpec => []WatchTypeOK                           *)
(*   AlertsAreSpaced  WatchSpec => TellsSparingly                          *)
(***************************************************************************)
EXTENDS CatalogueWalk, SourceWatchdog, SequenceTheorems, FiniteSetTheorems, TLAPS

-----------------------------------------------------------------------------
(* The walk: what a run owes.                                              *)

\* A catalogue lists lots of its own, each once, and none that is still to come.
Listed ==
  /\ site \in [Catalogues -> Seq(Lots)]
  /\ unlisted \subseteq Lots
  /\ \A c \in Catalogues : \A i \in 1 .. Len(site[c]) :
       /\ Home[site[c][i]] = c /\ site[c][i] \notin unlisted
       /\ \A j \in 1 .. Len(site[c]) : site[c][i] = site[c][j] => i = j

\* The walk is in a catalogue as long as there is a strategy left.
Walking ==
  /\ todo \in Seq(Seq(Catalogues))
  /\ \A k \in 1 .. Len(todo) : todo[k] # <<>>
  /\ page \in Nat /\ last \in BOOLEAN
  /\ held \subseteq Lots /\ due \subseteq Wanted

\* Catalogues the run has not come to.
Ahead ==
  {todo[1][i] : i \in 2 .. Len(todo[1])}
    \cup {c \in Catalogues : \E k \in 2 .. Len(todo) : \E i \in 1 .. Len(todo[k]) : todo[k][i] = c}

\* A lot the run has no excuse to miss is written or held, or is still before the walk:
\* behind the page, or in a catalogue that is ahead.
Accounted ==
  \A x \in due :
    \/ x \in written
    \/ /\ Running
       /\ \/ x \in held
          \/ ~last /\ x \in Behind(page)
          \/ \E c \in Ahead : x \in Range(site[c])

WalkInv == Listed /\ Walking /\ Accounted

-----------------------------------------------------------------------------
(* Places in a sequence.                                                   *)

LEMMA InsertPlaces ==
  ASSUME NEW s \in Seq(Lots), NEW i \in 1 .. Len(s) + 1, NEW x \in Lots
  PROVE  /\ InsertAt(s, i, x) \in Seq(Lots) /\ Len(InsertAt(s, i, x)) = Len(s) + 1
         /\ \A j \in 1 .. Len(s) + 1 :
              InsertAt(s, i, x)[j] = IF j < i THEN s[j] ELSE IF j = i THEN x ELSE s[j - 1]
<1> DEFINE a == SubSeq(s, 1, i - 1)
           b == SubSeq(s, i, Len(s))
<1>0. Len(s) \in Nat /\ \A j \in 1 .. Len(s) : s[j] \in Lots
  OBVIOUS
<1>1. a \in Seq(Lots) /\ Len(a) = i - 1 /\ \A j \in 1 .. i - 1 : a[j] = s[j]
  BY <1>0, SubSeqProperties
<1>2. /\ b \in Seq(Lots) /\ Len(b) = Len(s) - i + 1
      /\ \A j \in 1 .. Len(s) - i + 1 : b[j] = s[i + j - 1]
  BY <1>0, SubSeqProperties
<1> HIDE DEF a, b
<1>3. /\ a \o <<x>> \in Seq(Lots) /\ Len(a \o <<x>>) = i
      /\ \A j \in 1 .. i : (a \o <<x>>)[j] = IF j < i THEN a[j] ELSE x
  <2>1. <<x>> \in Seq(Lots) /\ Len(<<x>>) = 1 /\ <<x>>[1] = x
    OBVIOUS
  <2>2. QED
    BY <1>1, <2>1, ConcatProperties
<1> DEFINE ax == a \o <<x>>
<1> HIDE DEF ax
<1>4. /\ ax \o b \in Seq(Lots) /\ Len(ax \o b) = Len(s) + 1
      /\ \A j \in 1 .. Len(s) + 1 : (ax \o b)[j] = IF j <= i THEN ax[j] ELSE b[j - i]
  <2>1. /\ ax \o b \in Seq(Lots) /\ Len(ax \o b) = Len(ax) + Len(b)
        /\ \A j \in 1 .. Len(ax) + Len(b) :
             (ax \o b)[j] = IF j <= Len(ax) THEN ax[j] ELSE b[j - Len(ax)]
    <3>1. ax \in Seq(Lots) /\ b \in Seq(Lots)
      BY <1>2, <1>3 DEF ax
    <3>2. QED
      BY <3>1, ConcatProperties
  <2>2. Len(ax) = i /\ Len(ax) + Len(b) = Len(s) + 1
    <3>1. Len(ax) = i /\ Len(b) = Len(s) - i + 1
      BY <1>2, <1>3 DEF ax
    <3>2. QED
      BY <1>0, <3>1
  <2>3. QED
    BY <2>1, <2>2
<1>5. InsertAt(s, i, x) = ax \o b
  BY DEF InsertAt, ax, a, b
<1>6. ASSUME NEW j \in 1 .. Len(s) + 1
      PROVE  (ax \o b)[j] = IF j < i THEN s[j] ELSE IF j = i THEN x ELSE s[j - 1]
  <2>1. CASE j <= i
    BY <1>0, <1>1, <1>3, <1>4, <2>1 DEF ax
  <2>2. CASE j > i
    <3>1. j - i \in 1 .. Len(s) - i + 1 /\ i + (j - i) - 1 = j - 1
      BY <1>0, <2>2
    <3>2. (ax \o b)[j] = b[j - i]
      BY <1>0, <1>4, <2>2
    <3>3. b[j - i] = s[j - 1]
      BY <1>2, <3>1
    <3>4. QED
      BY <2>2, <3>2, <3>3
  <2>3. j <= i \/ j > i
    BY <1>0
  <2>4. QED
    BY <2>1, <2>2, <2>3, Zenon
<1>7. QED
  BY <1>4, <1>5, <1>6

LEMMA RemovePlaces ==
  ASSUME NEW s \in Seq(Lots), NEW i \in 1 .. Len(s)
  PROVE  /\ RemoveAt(s, i) \in Seq(Lots) /\ Len(RemoveAt(s, i)) = Len(s) - 1
         /\ \A j \in 1 .. Len(s) - 1 : RemoveAt(s, i)[j] = IF j < i THEN s[j] ELSE s[j + 1]
<1> DEFINE a == SubSeq(s, 1, i - 1)
           b == SubSeq(s, i + 1, Len(s))
<1>0. Len(s) \in Nat /\ \A j \in 1 .. Len(s) : s[j] \in Lots
  OBVIOUS
<1>1. a \in Seq(Lots) /\ Len(a) = i - 1 /\ \A j \in 1 .. i - 1 : a[j] = s[j]
  BY <1>0, SubSeqProperties
<1>2. /\ b \in Seq(Lots) /\ Len(b) = Len(s) - i
      /\ \A j \in 1 .. Len(s) - i : b[j] = s[i + j]
  BY <1>0, SubSeqProperties
<1> HIDE DEF a, b
<1>3. /\ a \o b \in Seq(Lots) /\ Len(a \o b) = Len(s) - 1
      /\ \A j \in 1 .. Len(s) - 1 : (a \o b)[j] = IF j <= i - 1 THEN a[j] ELSE b[j - (i - 1)]
  <2>1. /\ a \o b \in Seq(Lots) /\ Len(a \o b) = Len(a) + Len(b)
        /\ \A j \in 1 .. Len(a) + Len(b) :
             (a \o b)[j] = IF j <= Len(a) THEN a[j] ELSE b[j - Len(a)]
    BY <1>1, <1>2, ConcatProperties
  <2>2. Len(a) = i - 1 /\ Len(a) + Len(b) = Len(s) - 1
    BY <1>0, <1>1, <1>2
  <2>3. QED
    BY <2>1, <2>2
<1>4. RemoveAt(s, i) = a \o b
  BY DEF RemoveAt, a, b
<1>5. ASSUME NEW j \in 1 .. Len(s) - 1
      PROVE  (a \o b)[j] = IF j < i THEN s[j] ELSE s[j + 1]
  <2>1. CASE j < i
    BY <1>0, <1>1, <1>3, <2>1
  <2>2. CASE j >= i
    <3>1. j - (i - 1) \in 1 .. Len(s) - i /\ i + (j - (i - 1)) = j + 1
      BY <1>0, <2>2
    <3>2. (a \o b)[j] = b[j - (i - 1)]
      BY <1>0, <1>3, <2>2
    <3>3. b[j - (i - 1)] = s[j + 1]
      BY <1>2, <3>1
    <3>4. QED
      BY <2>2, <3>2, <3>3
  <2>3. j < i \/ j >= i
    BY <1>0
  <2>4. QED
    BY <2>1, <2>2, <2>3, Zenon
<1>6. QED
  BY <1>3, <1>4, <1>5

-----------------------------------------------------------------------------
(* Where the walk is.                                                      *)

LEMMA HereIs ==
  ASSUME Walking, Running
  PROVE  /\ Len(todo) \in Nat \ {0} /\ todo[1] \in Seq(Catalogues)
         /\ Len(todo[1]) \in Nat \ {0}
         /\ Head(todo) = todo[1] /\ Here = todo[1][1] /\ Here \in Catalogues
         /\ PageSize[Here] \in Nat \ {0}
<1>1. /\ todo \in Seq(Seq(Catalogues)) /\ todo # <<>>
      /\ Len(todo) \in Nat \ {0} /\ Head(todo) = todo[1]
  BY EmptySeq DEF Walking, Running
<1>2. todo[1] \in Seq(Catalogues) /\ todo[1] # <<>>
  BY <1>1 DEF Walking
<1>3. Len(todo[1]) \in Nat \ {0} /\ Head(todo[1]) = todo[1][1] /\ todo[1][1] \in Catalogues
  BY <1>2, EmptySeq
<1>4. QED
  BY <1>1, <1>2, <1>3, CatalogueWalkAssumption DEF Here

LEMMA PageStep ==
  ASSUME NEW n \in Nat, NEW p \in Nat \ {0}
  PROVE  n * p \in Nat /\ (n + 1) * p = n * p + p
OBVIOUS

\* What is behind a page is on the next, or behind that.
LEMMA PageTurned ==
  ASSUME Listed, Walking, Running
  PROVE  Behind(page) \subseteq NextPage \cup Behind(page + 1)
<1>1. /\ PageSize[Here] \in Nat \ {0} /\ page \in Nat
      /\ site[Here] \in Seq(Lots)
  BY HereIs DEF Listed, Walking
<1>2. page * PageSize[Here] \in Nat /\ (page + 1) * PageSize[Here] = page * PageSize[Here] + PageSize[Here]
  BY <1>1, PageStep
<1>3. SUFFICES ASSUME NEW j \in DOMAIN site[Here], j > page * PageSize[Here]
               PROVE  site[Here][j] \in NextPage \cup Behind(page + 1)
  BY DEF Behind
<1>4. j \in Nat
  BY <1>1
<1>5. CASE j > (page + 1) * PageSize[Here]
  BY <1>5 DEF Behind
<1>6. CASE ~(j > (page + 1) * PageSize[Here])
  <2>1. j \in Passed + 1 .. Passed + PageSize[Here]
    BY <1>1, <1>2, <1>3, <1>4, <1>6 DEF Passed
  <2>2. QED
    BY <2>1 DEF NextPage
<1>7. QED
  BY <1>5, <1>6

\* A page that is not full is the last: no lot is counted twice.
LEMMA ShortPageIsLast ==
  ASSUME Listed, Walking, Running, Behind(page + 1) # {}
  PROVE  /\ Cardinality(NextPage) = PageSize[Here]
         /\ Passed + PageSize[Here] < Len(site[Here])
<1> DEFINE s == site[Here]
           p == PageSize[Here]
           places == Passed + 1 .. Passed + p
           f == [i \in places |-> s[i]]
<1>1. /\ p \in Nat \ {0} /\ page \in Nat /\ s \in Seq(Lots) /\ Len(s) \in Nat /\ Here \in Catalogues
  BY HereIs DEF Listed, Walking
<1>2. Passed \in Nat /\ (page + 1) * p = Passed + p
  BY <1>1, PageStep DEF Passed
<1>3. Passed + p < Len(s)
  BY <1>1, <1>2 DEF Behind
<1>4. places \subseteq 1 .. Len(s) /\ NextPage = {s[i] : i \in places}
  <2>1. places \subseteq 1 .. Len(s)
    <3> HIDE DEF s, p
    <3>1. QED
      BY <1>1, <1>2, <1>3
  <2>2. DOMAIN s \cap places = places
    <3>1. DOMAIN s = 1 .. Len(s)
      BY <1>1
    <3> HIDE DEF places
    <3>2. QED
      BY <2>1, <3>1
  <2>3. QED
    BY <2>1, <2>2 DEF NextPage
<1>5. \A i, j \in 1 .. Len(s) : s[i] = s[j] => i = j
  BY <1>1 DEF Listed
<1>7. IsFiniteSet(places) /\ Cardinality(places) = p
  <2>1. /\ Passed + 1 \in Int /\ Passed + p \in Int /\ ~(Passed + 1 > Passed + p)
        /\ (Passed + p) - (Passed + 1) + 1 = p
    <3> HIDE DEF p
    <3>1. QED
      BY <1>1, <1>2
  <2>2. QED
    BY <2>1, FS_Interval
<1>6. f \in Bijection(places, NextPage)
  <2> HIDE DEF s, p, places
  <2>1. f \in [places -> NextPage]
    BY <1>4
  <2>2. \A i, j \in places : f[i] = f[j] => i = j
    BY <1>4, <1>5
  <2>3. \A y \in NextPage : \E i \in places : f[i] = y
    BY <1>4
  <2> HIDE DEF f
  <2>4. QED
    BY <2>1, <2>2, <2>3 DEF Bijection, Injection, IsInjective, Surjection
<1>8. Cardinality(NextPage) = p
  BY <1>6, <1>7, FS_Bijection DEF ExistsBijection
<1>9. QED
  BY <1>3, <1>8

-----------------------------------------------------------------------------
(* The sites.                                                              *)

\* A lot that appears hides no other: what was listed is, and what was behind a page.
LEMMA AppearStep ==
  ASSUME Listed, Walking, NEW x \in Lots, Appear(x)
  PROVE  /\ Listed'
         /\ \A c \in Catalogues : Range(site[c]) \subseteq Range(site'[c])
         /\ Running => Behind(page) \subseteq Behind(page)'
<1> DEFINE h == Home[x]
           s == site[h]
<1>1. /\ h \in Catalogues /\ s \in Seq(Lots) /\ Len(s) \in Nat
      /\ x \in unlisted /\ unlisted' = unlisted \ {x} /\ UNCHANGED <<todo, page>>
  BY CatalogueWalkAssumption DEF Appear, Listed, walk
<1>2. PICK i \in 1 .. Len(s) + 1 : site' = [site EXCEPT ![h] = InsertAt(@, i, x)]
  BY DEF Appear
<1> DEFINE t == InsertAt(s, i, x)
<1>3. site' = [site EXCEPT ![h] = t]
  BY <1>2
<1>4. /\ t \in Seq(Lots) /\ Len(t) = Len(s) + 1
      /\ \A j \in 1 .. Len(s) + 1 :
           t[j] = IF j < i THEN s[j] ELSE IF j = i THEN x ELSE s[j - 1]
  <2>1. s \in Seq(Lots) /\ i \in 1 .. Len(s) + 1 /\ x \in Lots
    BY <1>1
  <2> HIDE DEF s, h
  <2>2. /\ InsertAt(s, i, x) \in Seq(Lots) /\ Len(InsertAt(s, i, x)) = Len(s) + 1
        /\ \A j \in 1 .. Len(s) + 1 :
             InsertAt(s, i, x)[j] = IF j < i THEN s[j] ELSE IF j = i THEN x ELSE s[j - 1]
    BY <2>1, InsertPlaces
  <2>3. QED
    BY <2>2, Zenon
<1> HIDE DEF t
<1>5. \A j \in 1 .. Len(s) : \E k \in 1 .. Len(t) : k >= j /\ t[k] = s[j]
  <2> TAKE j \in 1 .. Len(s)
  <2>1. CASE j < i
    <3>1. j \in 1 .. Len(t) /\ t[j] = s[j]
      BY <1>1, <1>4, <2>1
    <3>2. QED
      BY <3>1
  <2>2. CASE ~(j < i)
    <3>1. j + 1 \in 1 .. Len(t) /\ ~(j + 1 < i) /\ j + 1 # i /\ (j + 1) - 1 = j
      BY <1>1, <1>4, <2>2
    <3>2. t[j + 1] = s[j]
      BY <1>1, <1>4, <3>1
    <3>3. QED
      BY <3>1, <3>2
  <2>3. QED
    BY <2>1, <2>2
<1>6. ASSUME NEW c \in Catalogues
      PROVE  site'[c] = IF c = h THEN t ELSE site[c]
  BY <1>1, <1>3 DEF Listed
<1>7. Listed'
  <2>1. site' \in [Catalogues -> Seq(Lots)]
    BY <1>3, <1>4 DEF Listed
  <2>2. \A j \in 1 .. Len(s) : Home[s[j]] = h /\ s[j] \in Lots /\ s[j] # x /\ s[j] \notin unlisted'
    BY <1>1 DEF Listed
  <2>3. \A j \in 1 .. Len(t) : Home[t[j]] = h /\ t[j] \notin unlisted'
    <3> TAKE j \in 1 .. Len(t)
    <3>1. t[j] = x \/ \E k \in 1 .. Len(s) : t[j] = s[k]
      BY <1>1, <1>4
    <3>2. QED
      BY <1>1, <2>2, <3>1
  <2>4. \A j, k \in 1 .. Len(t) : t[j] = t[k] => j = k
    <3> TAKE j, k \in 1 .. Len(t)
    <3>1. \A m, n \in 1 .. Len(s) : s[m] = s[n] => m = n
      BY <1>1 DEF Listed
    <3>2. /\ j < i => j \in 1 .. Len(s) /\ t[j] = s[j]
          /\ j = i => t[j] = x
          /\ j > i => j - 1 \in 1 .. Len(s) /\ t[j] = s[j - 1]
      BY <1>1, <1>4
    <3>3. /\ k < i => k \in 1 .. Len(s) /\ t[k] = s[k]
          /\ k = i => t[k] = x
          /\ k > i => k - 1 \in 1 .. Len(s) /\ t[k] = s[k - 1]
      BY <1>1, <1>4
    <3>4. i \in Int /\ j \in Int /\ k \in Int
      BY <1>1, <1>4
    <3> HIDE DEF s
    <3>5. QED
      BY <2>2, <3>1, <3>2, <3>3, <3>4
  <2>5. ASSUME NEW c \in Catalogues, NEW j \in 1 .. Len(site'[c])
        PROVE  /\ Home[site'[c][j]] = c /\ site'[c][j] \notin unlisted'
               /\ \A k \in 1 .. Len(site'[c]) : site'[c][j] = site'[c][k] => j = k
    <3>1. CASE c = h
      BY <1>6, <2>3, <2>4, <3>1
    <3>2. CASE c # h
      <4>1. site'[c] = site[c]
        BY <1>6, <3>2
      <4>2. QED
        BY <1>1, <4>1 DEF Listed
    <3>3. QED
      BY <3>1, <3>2
  <2>6. QED
    BY <1>1, <2>1, <2>5 DEF Listed
<1>8. ASSUME NEW c \in Catalogues
      PROVE  Range(site[c]) \subseteq Range(site'[c])
  <2>1. CASE c = h
    <3>1. Range(s) \subseteq Range(t)
      <4> HIDE DEF s
      <4>1. DOMAIN s = 1 .. Len(s) /\ DOMAIN t = 1 .. Len(t)
        BY <1>1, <1>4, LenProperties
      <4>2. QED
        BY <1>5, <4>1 DEF Range
    <3>2. QED
      BY <1>6, <2>1, <3>1
  <2>2. QED
    BY <1>6, <2>1
<1>9. Running => Behind(page) \subseteq Behind(page)'
  <2> SUFFICES ASSUME Running, NEW y \in Behind(page)
               PROVE  y \in Behind(page)'
    OBVIOUS
  <2>0. /\ Here' = Here /\ page' = page /\ Here \in Catalogues
        /\ page * PageSize[Here] \in Nat /\ site[Here] \in Seq(Lots)
    BY <1>1, HereIs, PageStep DEF Here, Walking, Listed
  <2>1. PICK j \in 1 .. Len(site[Here]) : j > page * PageSize[Here] /\ site[Here][j] = y
    BY <2>0 DEF Behind
  <2>2. \E k \in 1 .. Len(site'[Here]) : k >= j /\ site'[Here][k] = y
    <3>1. CASE Here = h
      <4>1. site'[Here] = t
        BY <1>6, <2>0, <3>1
      <4>2. j \in 1 .. Len(s) /\ s[j] = y
        BY <2>1, <3>1
      <4>3. QED
        BY <1>5, <4>1, <4>2
    <3>2. CASE Here # h
      <4>1. site'[Here] = site[Here]
        BY <1>6, <2>0, <3>2
      <4>2. j >= j
        OBVIOUS
      <4>3. QED
        BY <2>1, <4>1, <4>2
    <3>3. QED
      BY <3>1, <3>2
  <2>3. PICK k \in DOMAIN site'[Here] : k > page * PageSize[Here] /\ site'[Here][k] = y
    <3>1. site'[Here] \in Seq(Lots)
      BY <1>7, <2>0 DEF Listed
    <3>2. QED
      BY <2>0, <2>1, <2>2, <3>1
  <2>4. QED
    BY <2>0, <2>3 DEF Behind
<1>10. QED
  BY <1>7, <1>8, <1>9

\* A lot that goes hides another only if it was on a page that has been read: the first
\* of the next page, which takes its place at the end of the last.
LEMMA VanishStep ==
  ASSUME Listed, Walking, NEW x \in Lots, Vanish(x)
  PROVE  /\ Listed'
         /\ due' \subseteq due
         /\ \A c \in Catalogues : Range(site[c]) \cap due' \subseteq Range(site'[c])
         /\ Running => Behind(page) \cap due' \subseteq Behind(page)'
<1> DEFINE h == Home[x]
           s == site[h]
<1>1. h \in Catalogues /\ s \in Seq(Lots) /\ Len(s) \in Nat /\ UNCHANGED <<unlisted, todo, page>>
  BY CatalogueWalkAssumption DEF Vanish, Listed, walk
<1>2. PICK i \in 1 .. Len(s) :
        /\ s[i] = x
        /\ site' = [site EXCEPT ![h] = RemoveAt(@, i)]
        /\ due' = due \ ({x} \cup
             IF Running /\ Here = h /\ i <= Passed /\ Passed < Len(site[Here])
             THEN {site[Here][Passed + 1]} ELSE {})
  <2>1. DOMAIN s = 1 .. Len(s)
    BY <1>1
  <2>2. QED
    BY <2>1, Zenon DEF Vanish
<1> DEFINE t == RemoveAt(s, i)
<1>3. site' = [site EXCEPT ![h] = t]
  BY <1>2
<1>4. /\ t \in Seq(Lots) /\ Len(t) = Len(s) - 1
      /\ \A j \in 1 .. Len(s) - 1 : t[j] = IF j < i THEN s[j] ELSE s[j + 1]
  BY <1>1, RemovePlaces
<1> HIDE DEF t
<1>5. ASSUME NEW j \in 1 .. Len(s), j # i
      PROVE  \E k \in 1 .. Len(t) : t[k] = s[j] /\ k = IF j < i THEN j ELSE j - 1
  <2>1. CASE j < i
    <3>1. j \in 1 .. Len(t) /\ t[j] = s[j]
      BY <1>1, <1>4, <2>1
    <3>2. QED
      BY <2>1, <3>1
  <2>2. CASE ~(j < i)
    <3>1. j - 1 \in 1 .. Len(t) /\ ~(j - 1 < i) /\ (j - 1) + 1 = j
      BY <1>1, <1>4, <1>5, <2>2
    <3>2. t[j - 1] = s[j]
      BY <1>1, <1>4, <3>1
    <3>3. QED
      BY <2>2, <3>1, <3>2
  <2>3. QED
    BY <2>1, <2>2
<1>6. ASSUME NEW c \in Catalogues
      PROVE  site'[c] = IF c = h THEN t ELSE site[c]
  BY <1>1, <1>3 DEF Listed
<1>7. Listed'
  <2>1. site' \in [Catalogues -> Seq(Lots)]
    BY <1>3, <1>4 DEF Listed
  <2>2. \A j \in 1 .. Len(s) : Home[s[j]] = h /\ s[j] \notin unlisted'
    BY <1>1 DEF Listed
  <2>3. \A j, k \in 1 .. Len(s) : s[j] = s[k] => j = k
    BY <1>1 DEF Listed
  <2>4. \A j \in 1 .. Len(t) :
          \E m \in 1 .. Len(s) : t[j] = s[m] /\ m = IF j < i THEN j ELSE j + 1
    BY <1>1, <1>4
  <2>5. \A j \in 1 .. Len(t) : Home[t[j]] = h /\ t[j] \notin unlisted'
    BY <2>2, <2>4
  <2>6. \A j, k \in 1 .. Len(t) : t[j] = t[k] => j = k
    <3> TAKE j, k \in 1 .. Len(t)
    <3> SUFFICES ASSUME t[j] = t[k] PROVE j = k
      OBVIOUS
    <3>1. PICK m \in 1 .. Len(s) : t[j] = s[m] /\ m = IF j < i THEN j ELSE j + 1
      BY <2>4
    <3>2. PICK n \in 1 .. Len(s) : t[k] = s[n] /\ n = IF k < i THEN k ELSE k + 1
      BY <2>4
    <3>3. m = n
      BY <2>3, <3>1, <3>2
    <3>4. i \in Int /\ j \in Int /\ k \in Int
      BY <1>1, <1>4
    <3>5. QED
      BY <3>1, <3>2, <3>3, <3>4
  <2>7. ASSUME NEW c \in Catalogues, NEW j \in 1 .. Len(site'[c])
        PROVE  /\ Home[site'[c][j]] = c /\ site'[c][j] \notin unlisted'
               /\ \A k \in 1 .. Len(site'[c]) : site'[c][j] = site'[c][k] => j = k
    <3>1. CASE c = h
      BY <1>6, <2>5, <2>6, <3>1
    <3>2. CASE c # h
      <4>1. site'[c] = site[c]
        BY <1>6, <3>2
      <4>2. QED
        BY <1>1, <4>1 DEF Listed
    <3>3. QED
      BY <3>1, <3>2
  <2>8. QED
    BY <1>1, <2>1, <2>7 DEF Listed
<1>8. ASSUME NEW c \in Catalogues, NEW y \in Range(site[c]) \cap due'
      PROVE  y \in Range(site'[c])
  <2>1. CASE c = h
    <3>1. DOMAIN s = 1 .. Len(s) /\ DOMAIN t = 1 .. Len(t)
      BY <1>1, <1>4
    <3>2. PICK j \in 1 .. Len(s) : s[j] = y
      BY <1>8, <2>1, <3>1 DEF Range
    <3>3. j # i
      BY <1>2, <1>8, <3>2
    <3>4. PICK k \in 1 .. Len(t) : t[k] = y
      BY <1>5, <3>2, <3>3
    <3>5. QED
      BY <1>6, <2>1, <3>1, <3>4 DEF Range
  <2>2. QED
    BY <1>6, <1>8, <2>1
<1>9. Running => Behind(page) \cap due' \subseteq Behind(page)'
  <2> SUFFICES ASSUME Running, NEW y \in Behind(page), y \in due'
               PROVE  y \in Behind(page)'
    OBVIOUS
  <2>0. /\ Here' = Here /\ page' = page /\ Here \in Catalogues
        /\ Passed \in Nat /\ site[Here] \in Seq(Lots)
    BY <1>1, HereIs, PageStep DEF Here, Walking, Listed, Passed
  <2>1. PICK j \in 1 .. Len(site[Here]) : j > Passed /\ site[Here][j] = y
    BY <2>0 DEF Behind, Passed
  <2>2. PICK k \in 1 .. Len(site'[Here]) : k > Passed /\ site'[Here][k] = y
    <3>1. CASE Here = h
      <4>1. site'[Here] = t /\ site[Here] = s
        BY <1>6, <2>0, <3>1
      <4>2. j \in 1 .. Len(s) /\ s[j] = y /\ j # i /\ j \in Nat /\ i \in Nat
        BY <1>1, <1>2, <2>1, <4>1
      <4>3. PICK k \in 1 .. Len(t) : t[k] = s[j] /\ k = IF j < i THEN j ELSE j - 1
        BY <1>5, <4>2
      <4>4. k > Passed
        <5>1. CASE j < i
          BY <2>1, <4>3, <5>1
        <5>2. CASE ~(j < i) /\ i > Passed
          BY <2>0, <4>2, <4>3, <5>2
        <5>3. CASE ~(j < i) /\ ~(i > Passed)
          <6>1. Passed < Len(site[Here])
            BY <2>0, <2>1
          <6>2. y # site[Here][Passed + 1]
            BY <1>2, <2>0, <3>1, <4>2, <5>3, <6>1
          <6>3. j # Passed + 1
            BY <2>1, <6>2
          <6>4. QED
            BY <2>0, <2>1, <4>2, <4>3, <5>3, <6>3
        <5>4. QED
          BY <5>1, <5>2, <5>3
      <4>5. QED
        BY <4>1, <4>2, <4>3, <4>4
    <3>2. CASE Here # h
      <4>1. site'[Here] = site[Here]
        BY <1>6, <2>0, <3>2
      <4>2. QED
        BY <2>1, <4>1
    <3>3. QED
      BY <3>1, <3>2
  <2>3. DOMAIN site'[Here] = 1 .. Len(site'[Here])
    BY <1>7, <2>0 DEF Listed
  <2>4. QED
    BY <2>0, <2>2, <2>3 DEF Behind, Passed
<1>10. QED
  BY <1>2, <1>7, <1>8, <1>9

-----------------------------------------------------------------------------
(* The run.                                                                *)

\* The run goes on to the next catalogue: what was ahead is here or still ahead.
LEMMA GoOn ==
  ASSUME Listed, Walking, Running,
         todo' = IF Len(Head(todo)) = 1 THEN Tail(todo) ELSE <<Tail(Head(todo))>> \o Tail(todo)
  PROVE  /\ todo' \in Seq(Seq(Catalogues)) /\ \A k \in 1 .. Len(todo') : todo'[k] # <<>>
         /\ \A c \in Ahead : Running' /\ (c = Here' \/ c \in Ahead')
<1> DEFINE first == todo[1]
           rest == Tail(todo)
<1>1. /\ Len(todo) \in Nat \ {0} /\ first \in Seq(Catalogues) /\ Len(first) \in Nat \ {0}
      /\ Head(todo) = first /\ todo \in Seq(Seq(Catalogues)) /\ todo # <<>>
  BY HereIs DEF Walking, Running
<1>2. /\ rest \in Seq(Seq(Catalogues)) /\ Len(rest) = Len(todo) - 1
      /\ \A k \in 1 .. Len(todo) - 1 : rest[k] = todo[k + 1] /\ rest[k] # <<>>
  BY <1>1 DEF Walking
<1> HIDE DEF rest
<1>3. CASE Len(first) = 1
  <2>1. todo' = rest
    BY <1>1, <1>3 DEF rest
  <2>2. \A k \in 1 .. Len(todo') : todo'[k] # <<>>
    BY <1>1, <1>2, <2>1
  <2>3. ASSUME NEW c \in Ahead PROVE Running' /\ (c = Here' \/ c \in Ahead')
    <3>0. {todo[1][i] : i \in 2 .. Len(todo[1])} = {}
      <4>1. 2 .. Len(todo[1]) = {}
        BY <1>3
      <4>2. QED
        BY <4>1
    <3>1. PICK k \in 2 .. Len(todo) : \E i \in 1 .. Len(todo[k]) : todo[k][i] = c
      BY <2>3, <3>0 DEF Ahead
    <3>2. c \in Catalogues
      BY <1>1, <3>1 DEF Ahead
    <3>3. k - 1 \in 1 .. Len(rest) /\ rest[k - 1] = todo[k]
      BY <1>1, <1>2, <3>1
    <3>4. PICK i \in 1 .. Len(rest[k - 1]) : rest[k - 1][i] = c
      BY <3>1, <3>3
    <3>5. Running'
      BY <2>1, <3>3 DEF Running
    <3>6. rest[k - 1] \in Seq(Catalogues) /\ rest # <<>> /\ Head(rest) = rest[1]
      BY <1>2, <3>3
    <3>a. rest[k - 1] # <<>> /\ Len(rest[k - 1]) \in Nat
      BY <1>2, <3>3, <3>6
    <3>7. CASE k = 2 /\ i = 1
      <4>1. rest[1] \in Seq(Catalogues) /\ rest[1] # <<>> /\ rest[1][1] = c /\ k - 1 = 1
        BY <3>4, <3>6, <3>7, <3>a
      <4>2. Head(rest[1]) = c
        BY <4>1
      <4>3. QED
        BY <2>1, <3>5, <3>6, <4>2 DEF Here
    <3>8. CASE k = 2 /\ i # 1
      <4>1. k - 1 = 1 /\ i \in 2 .. Len(rest[1]) /\ rest[1][i] = c
        BY <3>4, <3>8, <3>a
      <4>2. QED
        BY <2>1, <3>5, <4>1 DEF Ahead
    <3>9. CASE k # 2
      <4>1. k - 1 \in 2 .. Len(rest)
        BY <1>1, <3>1, <3>3, <3>9
      <4>2. QED
        BY <2>1, <3>2, <3>4, <3>5, <4>1 DEF Ahead
    <3>10. QED
      BY <3>7, <3>8, <3>9
  <2>4. QED
    BY <1>2, <2>1, <2>2, <2>3
<1>4. CASE Len(first) # 1
  <2> DEFINE more == Tail(first)
  <2>1. /\ more \in Seq(Catalogues) /\ Len(more) = Len(first) - 1 /\ more # <<>>
        /\ \A i \in 1 .. Len(first) - 1 : more[i] = first[i + 1]
    <3>1. first # <<>>
      BY <1>1
    <3>2. /\ more \in Seq(Catalogues) /\ Len(more) = Len(first) - 1
          /\ \A i \in 1 .. Len(more) : more[i] = first[i + 1]
      BY <1>1, <3>1, HeadTailProperties
    <3>3. Len(more) # 0
      BY <1>1, <1>4, <3>2
    <3>4. more # <<>>
      <4> HIDE DEF more
      <4>1. more = <<>> => Len(more) = 0
        OBVIOUS
      <4>2. QED
        BY <3>3, <4>1
    <3>5. QED
      BY <3>2, <3>4
  <2>2. todo' = <<more>> \o rest
    BY <1>1, <1>4 DEF rest
  <2> HIDE DEF more, first
  <2>3. <<more>> \in Seq(Seq(Catalogues)) /\ Len(<<more>>) = 1 /\ <<more>>[1] = more
    BY <2>1
  <2>4. /\ todo' \in Seq(Seq(Catalogues)) /\ Len(todo') = 1 + Len(rest)
        /\ \A k \in 1 .. 1 + Len(rest) :
             todo'[k] = IF k <= 1 THEN <<more>>[k] ELSE rest[k - 1]
    <3> DEFINE q == <<more>>
    <3>1. q \in Seq(Seq(Catalogues)) /\ Len(q) = 1
      BY <2>3
    <3> DEFINE Walks == Seq(Catalogues)
    <3> HIDE DEF q, Walks
    <3>2. /\ q \o rest \in Seq(Seq(Catalogues)) /\ Len(q \o rest) = Len(q) + Len(rest)
          /\ \A k \in 1 .. Len(q) + Len(rest) :
               (q \o rest)[k] = IF k <= Len(q) THEN q[k] ELSE rest[k - Len(q)]
      <4>1. q \in Seq(Walks) /\ rest \in Seq(Walks)
        BY <1>2, <3>1 DEF Walks
      <4>2. QED
        BY <4>1, ConcatProperties DEF Walks
    <3>3. todo' = q \o rest
      BY <2>2 DEF q
    <3>4. /\ todo' \in Seq(Seq(Catalogues)) /\ Len(todo') = 1 + Len(rest)
          /\ \A k \in 1 .. 1 + Len(rest) : todo'[k] = IF k <= 1 THEN q[k] ELSE rest[k - 1]
      BY <3>1, <3>2, <3>3
    <3>5. QED
      BY <3>4 DEF q
  <2>5. /\ Len(todo') = Len(todo) /\ todo'[1] = more
        /\ \A k \in 2 .. Len(todo) : todo'[k] = todo[k]
    <3>1. Len(todo') = Len(todo) /\ todo'[1] = more
      <4>1. 1 \in 1 .. 1 + Len(rest) /\ 1 <= 1 /\ 1 + Len(rest) = Len(todo)
        BY <1>1, <1>2
      <4>2. todo'[1] = <<more>>[1]
        BY <2>4, <4>1
      <4>3. QED
        BY <2>3, <2>4, <4>1, <4>2
    <3>2. ASSUME NEW k \in 2 .. Len(todo) PROVE todo'[k] = todo[k]
      <4>1. k \in 1 .. 1 + Len(rest) /\ ~(k <= 1) /\ k - 1 \in 1 .. Len(todo) - 1 /\ (k - 1) + 1 = k
        BY <1>1, <1>2
      <4>2. QED
        BY <1>2, <2>4, <4>1
    <3>3. QED
      BY <3>1, <3>2
  <2>6. \A k \in 1 .. Len(todo') : todo'[k] # <<>>
    BY <1>1, <2>1, <2>5 DEF Walking
  <2>7. todo' # <<>> /\ Head(todo') = more /\ Head(more) = more[1]
    BY <1>1, <2>1, <2>4, <2>5
  <2>8. ASSUME NEW c \in Ahead PROVE Running' /\ (c = Here' \/ c \in Ahead')
    <3>1. CASE \E i \in 2 .. Len(first) : first[i] = c
      <4>1. PICK i \in 2 .. Len(first) : first[i] = c
        BY <3>1
      <4>2. i - 1 \in 1 .. Len(more) /\ more[i - 1] = c
        BY <1>1, <2>1, <4>1
      <4>3. CASE i = 2
        <5>1. more[1] = c
          BY <4>2, <4>3
        <5>2. QED
          BY <2>7, <5>1 DEF Running, Here
      <4>4. CASE i # 2
        <5>1. i - 1 \in 2 .. Len(todo'[1]) /\ todo'[1][i - 1] = c
          BY <1>1, <2>5, <4>1, <4>2, <4>4
        <5>2. QED
          BY <2>7, <5>1 DEF Running, Ahead
      <4>5. QED
        BY <4>3, <4>4
    <3>2. CASE c \in Catalogues /\ \E k \in 2 .. Len(todo) : \E i \in 1 .. Len(todo[k]) : todo[k][i] = c
      BY <2>5, <2>7, <3>2 DEF Running, Ahead
    <3>3. QED
      BY <2>8, <3>1, <3>2 DEF Ahead, first
  <2>9. QED
    BY <2>4, <2>6, <2>8
<1>5. QED
  BY <1>3, <1>4

\* The same when a strategy is given up: only its own catalogues are lost.
LEMMA GiveUp ==
  ASSUME Listed, Walking, Running, todo' = Tail(todo)
  PROVE  /\ todo' \in Seq(Seq(Catalogues)) /\ \A k \in 1 .. Len(todo') : todo'[k] # <<>>
         /\ \A c \in Ahead : \/ Running' /\ (c = Here' \/ c \in Ahead')
                             \/ c \in Range(Tail(Head(todo)))
<1>1. /\ Len(todo) \in Nat \ {0} /\ todo[1] \in Seq(Catalogues) /\ Len(todo[1]) \in Nat \ {0}
      /\ Head(todo) = todo[1] /\ todo \in Seq(Seq(Catalogues)) /\ todo # <<>>
  BY HereIs DEF Walking, Running
<1>2. /\ todo' \in Seq(Seq(Catalogues)) /\ Len(todo') = Len(todo) - 1
      /\ \A k \in 1 .. Len(todo) - 1 : todo'[k] = todo[k + 1] /\ todo'[k] # <<>>
  BY <1>1 DEF Walking
<1>3. ASSUME NEW c \in Ahead
      PROVE  (Running' /\ (c = Here' \/ c \in Ahead')) \/ c \in Range(Tail(Head(todo)))
  <2>1. CASE \E i \in 2 .. Len(todo[1]) : todo[1][i] = c
    <3>1. PICK i \in 2 .. Len(todo[1]) : todo[1][i] = c
      BY <2>1
    <3>2. /\ i - 1 \in 1 .. Len(todo[1]) - 1 /\ DOMAIN Tail(todo[1]) = 1 .. Len(todo[1]) - 1
          /\ Tail(todo[1])[i - 1] = c
      BY <1>1, <3>1
    <3>3. QED
      BY <1>1, <3>2 DEF Range
  <2>2. CASE c \in Catalogues /\ \E k \in 2 .. Len(todo) : \E i \in 1 .. Len(todo[k]) : todo[k][i] = c
    <3>0. PICK k \in 2 .. Len(todo) : \E i \in 1 .. Len(todo[k]) : todo[k][i] = c
      BY <2>2
    <3>1. PICK i \in 1 .. Len(todo[k]) : todo[k][i] = c
      BY <3>0
    <3>k. /\ Len(todo) - 1 \in Nat \ {0} /\ k - 1 \in 1 .. Len(todo) - 1 /\ (k - 1) + 1 = k
          /\ k \in 1 .. Len(todo)
      <4>1. Len(todo) \in Nat
        BY <1>1
      <4>2. QED
        BY <4>1
    <3>t. todo[k] \in Seq(Catalogues) /\ Len(todo[k]) \in Nat
      BY <1>1, <3>k
    <3>2. /\ k - 1 \in 1 .. Len(todo') /\ todo'[k - 1] = todo[k] /\ todo'[k - 1] \in Seq(Catalogues)
          /\ Len(todo[k]) \in Nat
      <4>1. todo'[k - 1] = todo[k - 1 + 1]
        BY <1>2, <3>k, Zenon
      <4>2. QED
        BY <1>2, <3>k, <3>t, <4>1
    <3>3. todo' # <<>> /\ Head(todo') = todo'[1]
      <4>1. Len(todo') \in Nat \ {0}
        BY <1>2, <3>k
      <4>2. todo' # <<>>
        BY <4>1
      <4>3. QED
        BY <1>2, <4>2
    <3>4. CASE k = 2 /\ i = 1
      <4>1. todo'[1] = todo[2] /\ todo'[1] \in Seq(Catalogues) /\ todo'[1] # <<>>
        BY <1>2, <3>2, <3>4
      <4>2. Head(todo'[1]) = c
        BY <3>1, <3>4, <4>1
      <4>3. QED
        BY <3>3, <4>2 DEF Running, Here
    <3>5. CASE k = 2 /\ i # 1
      BY <3>1, <3>2, <3>3, <3>5 DEF Running, Ahead
    <3>6. CASE k # 2
      <4>1. k - 1 \in 2 .. Len(todo')
        BY <1>1, <3>1, <3>2, <3>6
      <4>2. QED
        BY <2>2, <3>1, <3>2, <3>3, <4>1 DEF Running, Ahead
    <3>7. QED
      BY <3>4, <3>5, <3>6
  <2>3. QED
    BY <1>3, <2>1, <2>2 DEF Ahead
<1>4. QED
  BY <1>1, <1>2, <1>3

-----------------------------------------------------------------------------
(* Every step keeps the account.                                           *)

\* At the start of a catalogue, all it lists is behind page 0.
LEMMA FreshStart ==
  ASSUME Listed', Walking', Running', page' = 0, NEW x \in Range(site'[Here'])
  PROVE  x \in Behind(page)'
<1>1. Here' \in Catalogues /\ PageSize[Here'] \in Nat
  <2>1. (Walking /\ Running => Here \in Catalogues /\ PageSize[Here] \in Nat \ {0})'
    BY HereIs, PTL
  <2>2. QED
    BY <2>1
<1>2. site'[Here'] \in Seq(Lots)
  BY <1>1 DEF Listed
<1>3. PICK i \in 1 .. Len(site'[Here']) : site'[Here'][i] = x
  BY <1>2 DEF Range
<1>4. 0 * PageSize[Here'] = 0 /\ i \in Nat /\ i > 0
  BY <1>1, <1>2
<1>5. QED
  BY <1>2, <1>3, <1>4 DEF Behind

LEMMA WalkStarts == Init => WalkInv
<1> SUFFICES ASSUME Init PROVE WalkInv
  OBVIOUS
<1>1. Listed
  <2>1. ASSUME NEW c \in Catalogues, NEW i \in 1 .. Len(First[c])
        PROVE  /\ Home[First[c][i]] = c /\ First[c][i] \in Range(First[c])
               /\ \A j \in 1 .. Len(First[c]) : First[c][i] = First[c][j] => i = j
    <3>1. First[c] \in Seq(Lots) /\ IsInjective(First[c]) /\ \A x \in Range(First[c]) : Home[x] = c
      BY CatalogueWalkAssumption
    <3>2. QED
      BY <3>1 DEF Range, IsInjective
  <2>2. QED
    BY <2>1, CatalogueWalkAssumption DEF Init, Listed
<1>2. Walking /\ Accounted
  <2>1. todo = <<>> /\ todo \in Seq(Seq(Catalogues)) /\ Len(todo) = 0
    BY EmptySeq DEF Init
  <2>2. \A k \in 1 .. Len(todo) : todo[k] # <<>>
    BY <2>1
  <2>3. page \in Nat /\ last \in BOOLEAN /\ held = {} /\ due = {}
    BY DEF Init
  <2>4. QED
    BY <2>1, <2>2, <2>3 DEF Walking, Accounted
<1>3. QED
  BY <1>1, <1>2 DEF WalkInv

LEMMA StartRunStep ==
  ASSUME WalkInv, StartRun
  PROVE  WalkInv'
<1> DEFINE q == Strategies
<1>1. /\ todo' = q /\ page' = 0 /\ held' = {} /\ last' = FALSE /\ site' = site
      /\ unlisted' = unlisted
      /\ due' = Wanted \cap UNION {Range(site[c]) : c \in Catalogues}
  BY DEF StartRun, AtStart
<1>2. Provinces \in Seq(Catalogues) /\ Provinces # <<>> /\ <<McDougall>> \in Seq(Catalogues)
  <2>1. Provinces \in Seq(Range(Provinces)) /\ Range(Provinces) \subseteq Catalogues
    BY CatalogueWalkAssumption DEF Catalogues
  <2>2. Provinces \in Seq(Catalogues)
    BY <2>1, SeqMonotonic
  <2>3. QED
    BY <2>2, CatalogueWalkAssumption DEF Catalogues
<1>3. /\ q \in Seq(Seq(Catalogues)) /\ Len(q) = 2 /\ q[1] = Provinces /\ q[2] = <<McDougall>>
      /\ Head(q) = Provinces /\ q # <<>>
  BY <1>2 DEF Strategies
<1> HIDE DEF q
<1>4. Listed'
  BY <1>1 DEF WalkInv, Listed
<1>5. Walking'
  <2>1. \A k \in 1 .. Len(q) : q[k] # <<>>
    <3>1. \A k \in 1 .. Len(q) : k = 1 \/ k = 2
      BY <1>3
    <3>2. <<McDougall>> # <<>>
      OBVIOUS
    <3>3. QED
      BY <1>2, <1>3, <3>1, <3>2
  <2>2. QED
    BY <1>1, <1>3, <2>1 DEF Walking
<1>6. Running' /\ Here' = Provinces[1]
  BY <1>1, <1>2, <1>3 DEF Running, Here
<1>7. Accounted'
  <2> SUFFICES ASSUME NEW x \in due'
               PROVE  x \in Behind(page)' \/ \E c \in Ahead' : x \in Range(site'[c])
    BY <1>1, <1>6 DEF Accounted
  <2>1. PICK c \in Catalogues : x \in Range(site[c])
    BY <1>1
  <2>2. CASE c = Provinces[1]
    <3>1. x \in Range(site'[Here'])
      BY <1>1, <1>6, <2>1, <2>2
    <3>2. QED
      BY <1>1, <1>4, <1>5, <1>6, <3>1, FreshStart
  <2>3. CASE c = McDougall
    <3>1. 2 \in 2 .. Len(q) /\ 1 \in 1 .. Len(q[2]) /\ q[2][1] = McDougall
      BY <1>3
    <3>2. c \in Ahead'
      BY <1>1, <2>3, <3>1 DEF Ahead
    <3>3. QED
      BY <1>1, <2>1, <3>2
  <2>4. CASE c # Provinces[1] /\ c # McDougall
    <3>1. PICK i \in 1 .. Len(Provinces) : Provinces[i] = c
      BY <1>2, <2>4 DEF Catalogues, Range
    <3>2. i \in 2 .. Len(q[1]) /\ q[1][i] = c
      BY <1>2, <1>3, <2>4, <3>1
    <3>3. c \in Ahead'
      BY <1>1, <3>2 DEF Ahead
    <3>4. QED
      BY <1>1, <2>1, <3>3
  <2>5. QED
    BY <2>2, <2>3, <2>4
<1>8. QED
  BY <1>4, <1>5, <1>7 DEF WalkInv

LEMMA NextCatalogueStep ==
  ASSUME WalkInv, NextCatalogue
  PROVE  WalkInv'
<1>1. /\ Running /\ held = {} /\ last
      /\ todo' = IF Len(Head(todo)) = 1 THEN Tail(todo) ELSE <<Tail(Head(todo))>> \o Tail(todo)
      /\ page' = 0 /\ held' = {} /\ last' = FALSE /\ UNCHANGED <<site, unlisted, written, due>>
  BY DEF NextCatalogue, AtStart
<1>2. /\ todo' \in Seq(Seq(Catalogues)) /\ \A k \in 1 .. Len(todo') : todo'[k] # <<>>
      /\ \A c \in Ahead : Running' /\ (c = Here' \/ c \in Ahead')
  BY <1>1, GoOn DEF WalkInv
<1>3. Listed' /\ Walking'
  BY <1>1, <1>2 DEF WalkInv, Listed, Walking
<1>4. Accounted'
  <2> SUFFICES ASSUME NEW x \in due, x \notin written
               PROVE  Running' /\ (x \in Behind(page)' \/ \E c \in Ahead' : x \in Range(site'[c]))
    BY <1>1 DEF Accounted
  <2>1. PICK c \in Ahead : x \in Range(site[c])
    BY <1>1 DEF WalkInv, Accounted
  <2>2. Running' /\ (c = Here' \/ c \in Ahead')
    BY <1>2
  <2>3. CASE c = Here'
    BY <1>1, <1>3, <2>1, <2>2, <2>3, FreshStart
  <2>4. QED
    BY <1>1, <2>1, <2>2, <2>3
<1>5. QED
  BY <1>3, <1>4 DEF WalkInv

\* Only what the strategy has not seen is given up with it.
LEMMA StrategyFailsStep ==
  ASSUME WalkInv, StrategyFails
  PROVE  WalkInv'
<1>1. /\ Running /\ todo' = Tail(todo) /\ due' = due \ Forgone
      /\ page' = 0 /\ held' = {} /\ last' = FALSE /\ UNCHANGED <<site, unlisted, written>>
  BY DEF StrategyFails, AtStart
<1>2. /\ todo' \in Seq(Seq(Catalogues)) /\ \A k \in 1 .. Len(todo') : todo'[k] # <<>>
      /\ \A c \in Ahead : \/ Running' /\ (c = Here' \/ c \in Ahead')
                          \/ c \in Range(Tail(Head(todo)))
  BY <1>1, GiveUp DEF WalkInv
<1>3. Listed' /\ Walking'
  BY <1>1, <1>2 DEF WalkInv, Listed, Walking
<1>4. Accounted'
  <2> SUFFICES ASSUME NEW x \in due, x \notin Forgone, x \notin written
               PROVE  Running' /\ (x \in Behind(page)' \/ \E c \in Ahead' : x \in Range(site'[c]))
    BY <1>1 DEF Accounted
  <2>1. PICK c \in Ahead : x \in Range(site[c])
    BY DEF WalkInv, Accounted, Forgone
  <2>2. c \notin Range(Tail(Head(todo)))
    BY <2>1 DEF Forgone
  <2>3. Running' /\ (c = Here' \/ c \in Ahead')
    BY <1>2, <2>2
  <2>4. CASE c = Here'
    BY <1>1, <1>3, <2>1, <2>3, <2>4, FreshStart
  <2>5. QED
    BY <1>1, <2>1, <2>3, <2>4
<1>5. QED
  BY <1>3, <1>4 DEF WalkInv

\* A page is read: what the walk loses sight of with it is taken off the account.
LEMMA PageStepInv ==
  ASSUME WalkInv, Running, held = {}, ~last,
         UNCHANGED <<site, unlisted, todo, written>>, page' = page + 1,
         held' \subseteq NextPage, last' \in BOOLEAN, due' \subseteq due,
         (NextPage \ held') \cap due' = {}, last' => Behind(page + 1) \cap due' = {}
  PROVE  WalkInv'
<1>1. page \in Nat /\ NextPage \subseteq Lots /\ Here' = Here
  BY HereIs DEF WalkInv, Listed, Walking, NextPage, Here
<1>2. Listed' /\ Walking'
  BY <1>1 DEF WalkInv, Listed, Walking
<1>3. Behind(page)' = Behind(page + 1) /\ Ahead' = Ahead /\ Running'
  BY <1>1 DEF Behind, Ahead, Running
<1>4. Accounted'
  <2> SUFFICES ASSUME NEW x \in due', x \notin written, \A c \in Ahead : x \notin Range(site[c])
               PROVE  x \in held' \/ (~last' /\ x \in Behind(page)')
    BY <1>3 DEF Accounted
  <2>1. x \in Behind(page)
    BY DEF WalkInv, Accounted
  <2>2. x \in NextPage \cup Behind(page + 1)
    BY <2>1, PageTurned DEF WalkInv
  <2>3. CASE last'
    BY <2>2, <2>3
  <2>4. CASE ~last'
    BY <1>3, <2>2, <2>4
  <2>5. QED
    BY <2>3, <2>4
<1>5. QED
  BY <1>2, <1>4 DEF WalkInv

LEMMA AskHibidStep ==
  ASSUME WalkInv, AskHibid
  PROVE  WalkInv'
<1> DEFINE ends(n, counted) == LastPage(n, IF counted THEN Len(site[Here]) ELSE 0)
<1>1. /\ Running /\ held = {} /\ ~last
      /\ UNCHANGED <<site, unlisted, todo, written>> /\ page' = page + 1
  BY DEF AskHibid, Requesting
<1>2. PICK blank \in SUBSET NextPage, bare \in SUBSET NextPage, counted \in BOOLEAN :
        /\ last' = ends(Cardinality(NextPage \ blank), counted)
        /\ held' = NextPage \ (blank \cup bare)
        /\ due' = due \ (blank \cup bare
             \cup IF (blank \cup bare # {} \/ ~counted) /\ ends(Cardinality(NextPage \ blank), counted)
                  THEN Behind(page + 1) ELSE {})
  BY DEF AskHibid
<1>3. last' \in BOOLEAN
  BY <1>2 DEF LastPage
<1>4. last' => Behind(page + 1) \cap due' = {}
  <2> SUFFICES ASSUME last', Behind(page + 1) # {}, blank = {}, bare = {}, counted
               PROVE  FALSE
    BY <1>2
  <2>1. Cardinality(NextPage) = PageSize[Here] /\ Passed + PageSize[Here] < Len(site[Here])
    BY <1>1, ShortPageIsLast DEF WalkInv
  <2>2. LastPage(Cardinality(NextPage), Len(site[Here]))
    <3>1. NextPage \ blank = NextPage
      OBVIOUS
    <3>2. QED
      BY <1>2, <3>1
  <2>3. PageSize[Here] \in Nat /\ Passed \in Nat /\ Len(site[Here]) \in Nat
    BY <1>1, HereIs, PageStep DEF WalkInv, Walking, Listed, Passed
  <2>4. QED
    BY <2>1, <2>2, <2>3 DEF LastPage
<1>5. held' \subseteq NextPage /\ due' \subseteq due /\ (NextPage \ held') \cap due' = {}
  BY <1>2
<1>6. QED
  BY <1>1, <1>3, <1>4, <1>5, PageStepInv

LEMMA AskMcDougallStep ==
  ASSUME WalkInv, AskMcDougall
  PROVE  WalkInv'
<1>1. /\ Running /\ held = {} /\ ~last
      /\ UNCHANGED <<site, unlisted, todo, written>> /\ page' = page + 1
  BY DEF AskMcDougall, Requesting
<1>2. PICK bad \in SUBSET NextPage :
        /\ held' = NextPage \ bad
        /\ last' = (held' = {} \/ page + 1 = MaxPages)
        /\ due' = due \ (bad \cup IF last' THEN Behind(page + 1) ELSE {})
  BY DEF AskMcDougall
<1>3. /\ last' \in BOOLEAN
      /\ last' => Behind(page + 1) \cap due' = {}
      /\ held' \subseteq NextPage /\ due' \subseteq due /\ (NextPage \ held') \cap due' = {}
  BY <1>2
<1>4. QED
  BY <1>1, <1>3, PageStepInv

LEMMA LotStep ==
  ASSUME WalkInv, NEW x \in Lots, Write(x) \/ Skip(x)
  PROVE  WalkInv'
<1>1. /\ Running /\ held' = held \ {x}
      /\ UNCHANGED <<site, unlisted, todo, page, last>> /\ due' \subseteq due
      /\ written \subseteq written'
  BY DEF Write, Skip, Take
<1>2. x \in due' => x \in written'
  BY DEF Write, Skip, WalkInv, Walking
<1>3. Listed' /\ Walking'
  BY <1>1 DEF WalkInv, Listed, Walking
<1>4. Behind(page)' = Behind(page) /\ Ahead' = Ahead /\ Running'
  BY <1>1 DEF Behind, Here, Ahead, Running
<1>5. Accounted'
  <2> SUFFICES ASSUME NEW y \in due'
               PROVE  \/ y \in written'
                      \/ y \in held' \/ (~last' /\ y \in Behind(page)')
                      \/ \E c \in Ahead' : y \in Range(site'[c])
    BY <1>4 DEF Accounted
  <2>1. CASE y = x
    BY <1>2, <2>1
  <2>2. CASE y # x
    <3>1. \/ y \in written
          \/ y \in held \/ (~last /\ y \in Behind(page))
          \/ \E c \in Ahead : y \in Range(site[c])
      <4>1. y \in due
        BY <1>1
      <4>2. QED
        BY <4>1 DEF WalkInv, Accounted
    <3>2. QED
      BY <1>1, <1>4, <2>2, <3>1
  <2>3. QED
    BY <2>1, <2>2
<1>6. QED
  BY <1>3, <1>5 DEF WalkInv

\* A site changes while the run goes on.
LEMMA SiteStep ==
  ASSUME WalkInv, NEW x \in Lots, Appear(x) \/ Vanish(x)
  PROVE  WalkInv'
<1>1. UNCHANGED <<todo, page, held, last, written>> /\ due' \subseteq due
  BY DEF Appear, Vanish, walk
<1>2. /\ Listed'
      /\ \A c \in Catalogues : Range(site[c]) \cap due' \subseteq Range(site'[c])
      /\ Running => Behind(page) \cap due' \subseteq Behind(page)'
  BY AppearStep, VanishStep DEF WalkInv
<1>3. Walking'
  BY <1>1 DEF WalkInv, Walking
<1>4. Ahead' = Ahead /\ Running' = Running
  BY <1>1 DEF Ahead, Running
<1>5. ASSUME Running PROVE Ahead \subseteq Catalogues
  <2>1. todo[1] \in Seq(Catalogues)
    BY <1>5, HereIs DEF WalkInv
  <2>2. QED
    BY <2>1 DEF Ahead
<1>6. Accounted'
  <2> SUFFICES ASSUME NEW y \in due', y \notin written
               PROVE  /\ Running'
                      /\ \/ y \in held' \/ (~last' /\ y \in Behind(page)')
                         \/ \E c \in Ahead' : y \in Range(site'[c])
    BY <1>1 DEF Accounted
  <2>1. /\ Running
        /\ \/ y \in held \/ (~last /\ y \in Behind(page))
           \/ \E c \in Ahead : y \in Range(site[c])
    <3>1. y \in due /\ y \notin written
      BY <1>1
    <3>2. QED
      BY <3>1 DEF WalkInv, Accounted
  <2>2. QED
    BY <1>1, <1>2, <1>4, <1>5, <2>1
<1>7. QED
  BY <1>2, <1>3, <1>6 DEF WalkInv

LEMMA WalkKeeps == WalkInv /\ [Next]_vars => WalkInv'
<1> SUFFICES ASSUME WalkInv, [Next]_vars PROVE WalkInv'
  OBVIOUS
<1>1. CASE Dies
  <2>1. /\ todo' = <<>> /\ page' = 0 /\ held' = {} /\ last' = FALSE /\ due' = {}
        /\ UNCHANGED <<site, unlisted, written>>
    BY <1>1 DEF Dies, AtStart
  <2>2. todo' \in Seq(Seq(Catalogues)) /\ Len(todo') = 0
    BY <2>1, EmptySeq
  <2>3. \A k \in 1 .. Len(todo') : todo'[k] # <<>>
    BY <2>2
  <2>4. Listed' /\ Accounted'
    BY <2>1 DEF WalkInv, Listed, Accounted
  <2>5. Walking'
    BY <2>1, <2>2, <2>3 DEF Walking
  <2>6. QED
    BY <2>4, <2>5 DEF WalkInv
<1>2. CASE PageFails
  <2>1. /\ Running /\ held = {} /\ last' = TRUE /\ due' = due \ Behind(page)
        /\ UNCHANGED <<site, unlisted, todo, page, held, written>>
    BY <1>2 DEF PageFails, Requesting
  <2>2. Listed' /\ Walking'
    BY <2>1 DEF WalkInv, Listed, Walking
  <2>3. Accounted'
    BY <2>1 DEF WalkInv, Accounted, Ahead, Running
  <2>4. QED
    BY <2>2, <2>3 DEF WalkInv
<1>3. CASE UNCHANGED <<site, unlisted, todo, page, held, last, written, due>>
  BY <1>3 DEF WalkInv, Listed, Walking, Accounted, Ahead, Running, Behind, Here
<1>4. CASE Busy
  BY <1>3, <1>4 DEF Busy
<1>5. CASE UNCHANGED vars
  BY <1>3, <1>5 DEF vars, walk
<1>6. QED
  BY <1>1, <1>2, <1>4, <1>5, StartRunStep, NextCatalogueStep, StrategyFailsStep,
     AskHibidStep, AskMcDougallStep, LotStep, SiteStep
  DEF Next, Ingester

\* A run that has come to its end has written every wanted lot that was listed all the
\* time, but for those it could not see: whatever the catalogues, the order in which
\* lots come and go, and the size of the pages.
THEOREM NothingMissed == Spec => []MissedExplained
<1>1. WalkInv => MissedExplained
  BY DEF WalkInv, Accounted, MissedExplained
<1>2. QED
  BY <1>1, WalkStarts, WalkKeeps, PTL DEF Spec

-----------------------------------------------------------------------------
(* The watchdog.                                                           *)

\* Nobody was told, and no alert recorded, later than now or than the run under way.
Timely ==
  /\ \A s \in AuctionSources : alerted[s] <= told[s] /\ told[s] <= clock
  /\ watch # Off => /\ watch.at <= clock
                    /\ \A s \in AuctionSources : told[s] <= watch.at

\* What a run still has to tell, it has not recorded, and it may tell it; what it has
\* recorded, it told.
RunSound ==
  watch # Off =>
    /\ watch.todo \cap watch.recorded = {}
    /\ \A s \in watch.todo : ~Muted(s, watch.at)
    /\ \A s \in watch.recorded : told[s] = watch.at

\* The record is what the operator was told, but for what the run under way has still
\* to commit and for what was lost.
RecordSound ==
  \A s \in AuctionSources \ unrecorded :
    told[s] = alerted[s] \/ (watch # Off /\ s \in watch.recorded)

WatchInv == WatchTypeOK /\ Timely /\ RunSound /\ RecordSound

LEMMA WatchStarts == WatchInit => WatchInv
  BY SourceWatchdogAssumption
  DEF WatchInit, WatchInv, WatchTypeOK, Timely, RunSound, RecordSound, Never

\* What a run tells of a source is spaced from what the operator heard of it before.
LEMMA ToldSpaced ==
  ASSUME WatchInv, watch # Off, NEW s \in watch.todo,
         told[s] # Never, s \notin unrecorded
  PROVE  watch.at - told[s] >= DedupAge
<1>1. s \in AuctionSources /\ s \notin watch.recorded
  BY DEF WatchInv, WatchTypeOK, RunSound
<1>2. told[s] = alerted[s]
  BY <1>1 DEF WatchInv, RecordSound
<1>3. ~Muted(s, watch.at)
  BY DEF WatchInv, RunSound
<1>4. alerted[s] \in Int /\ watch.at \in Int /\ DedupAge \in Int
  <2>1. watch.at \in 0..MaxTime
    BY DEF WatchInv, WatchTypeOK
  <2>2. alerted[s] \in 0..MaxTime \cup {Never}
    BY <1>1 DEF WatchInv, WatchTypeOK
  <2>3. QED
    BY <2>1, <2>2, SourceWatchdogAssumption DEF Never
<1>5. QED
  BY <1>2, <1>3, <1>4 DEF Muted

LEMMA WatchKeeps == WatchInv /\ [WatchNext]_watchVars => WatchInv'
<1> SUFFICES ASSUME WatchInv, [WatchNext]_watchVars PROVE WatchInv'
  OBVIOUS
<1> USE SourceWatchdogAssumption DEF Never
<1>0. /\ clock \in 0..MaxTime /\ MaxTime \in Nat /\ DedupAge \in Nat
      /\ alerted \in [AuctionSources -> 0..MaxTime \cup {Never}]
      /\ told \in [AuctionSources -> 0..MaxTime \cup {Never}]
      /\ watch # Off =>
           watch \in [on : {TRUE}, at : 0..MaxTime, todo : SUBSET AuctionSources,
                      recorded : SUBSET AuctionSources]
  BY DEF WatchInv, WatchTypeOK
<1> USE DEF WatchInv
<1>1. CASE Tick
  <2> DEFINE rest == <<lastSeen, alerted, watch, faults, told, unrecorded>>
  <2>0. clock' \in 0..MaxTime /\ clock' = clock + 1 /\ UNCHANGED rest
    BY <1>0, <1>1 DEF Tick
  <2>1. WatchTypeOK'
    BY <2>0 DEF WatchTypeOK
  <2>2. Timely'
    <3>1. ASSUME NEW s \in AuctionSources PROVE told[s] \in Int /\ told[s] <= clock'
      BY <1>0, <2>0 DEF Timely
    <3>2. watch # Off => watch.at \in Int /\ watch.at <= clock'
      BY <1>0, <2>0 DEF Timely
    <3>3. QED
      BY <2>0, <3>1, <3>2 DEF Timely
  <2>3. RunSound' /\ RecordSound'
    BY <1>1 DEF Tick, RunSound, RecordSound, Muted
  <2>4. QED
    BY <2>1, <2>2, <2>3
<1>2. CASE StartWatch
  <2> DEFINE dark == {s \in AuctionSources : Stale(s, clock) /\ ~Muted(s, clock)}
  <2>1. /\ watch = Off /\ watch' = [on |-> TRUE, at |-> clock, todo |-> dark, recorded |-> {}]
        /\ UNCHANGED <<clock, lastSeen, alerted, faults, told, unrecorded>>
    BY <1>2 DEF StartWatch
  <2>2. /\ watch'.on = TRUE /\ watch'.at = clock /\ watch'.todo = dark /\ watch'.recorded = {}
        /\ dark \subseteq AuctionSources
    BY <2>1
  <2>3. watch' # Off
    BY <2>2 DEF Off
  <2>4. WatchTypeOK'
    BY <1>0, <2>1, <2>2 DEF WatchTypeOK
  <2>5. Timely'
    BY <1>0, <2>1, <2>2 DEF Timely
  <2>6. RunSound'
    BY <2>1, <2>2 DEF RunSound, Muted
  <2>7. RecordSound'
    BY <2>1, <2>2, <2>3 DEF RecordSound
  <2>8. QED
    BY <2>4, <2>5, <2>6, <2>7
<1>3. CASE EndWatch
  BY <1>3 DEF EndWatch, WatchTypeOK, Timely, RunSound, RecordSound
<1>4. CASE WatchDies
  <2>1. WatchTypeOK'
    BY <1>0, <1>4 DEF WatchDies, Fault, WatchTypeOK
  <2>2. Timely' /\ RunSound'
    BY <1>4 DEF WatchDies, Timely, RunSound
  <2>3. RecordSound'
    BY <1>4 DEF WatchDies, RecordSound
  <2>4. QED
    BY <2>1, <2>2, <2>3
<1>5. ASSUME NEW s \in AuctionSources, Walk(s) PROVE WatchInv'
  BY <1>5 DEF Walk, Muted, WatchTypeOK, Timely, RunSound, RecordSound
<1>6. ASSUME NEW s \in AuctionSources, Alert(s) PROVE WatchInv'
  <2>1. /\ watch # Off /\ s \in watch.todo /\ s \notin watch.recorded
        /\ told' = [told EXCEPT ![s] = watch.at]
        /\ UNCHANGED <<clock, lastSeen, alerted, faults, unrecorded>>
    BY <1>6 DEF Alert, RunSound
  <2>2. /\ watch' \in [on : {TRUE}, at : 0..MaxTime, todo : SUBSET AuctionSources,
                        recorded : SUBSET AuctionSources]
        /\ watch'.at = watch.at /\ watch'.todo = watch.todo \ {s}
        /\ watch'.recorded = watch.recorded \cup {s}
    BY <1>0, <1>6 DEF Alert
  <2>3. watch' # Off
    BY <2>2 DEF Off
  <2>4. Timely'
    BY <1>0, <2>1, <2>2 DEF Timely
  <2>5. WatchTypeOK'
    BY <1>0, <2>1, <2>2, <2>4 DEF WatchTypeOK, Timely
  <2>6. RunSound'
    BY <1>0, <2>1, <2>2 DEF RunSound, Muted
  <2>7. RecordSound'
    BY <1>0, <2>1, <2>2, <2>3 DEF RecordSound
  <2>8. QED
    BY <2>4, <2>5, <2>6, <2>7
<1>7. ASSUME NEW s \in AuctionSources, NEW arrived \in BOOLEAN, AlertFails(s, arrived)
      PROVE  WatchInv'
  <2>1. /\ watch # Off /\ s \in watch.todo /\ s \notin watch.recorded
        /\ told' = IF arrived THEN [told EXCEPT ![s] = watch.at] ELSE told
        /\ unrecorded' = IF arrived THEN unrecorded \cup {s} ELSE unrecorded
        /\ faults' \in 0..MaxFaults
        /\ UNCHANGED <<clock, lastSeen, alerted>>
    BY <1>7 DEF AlertFails, Fault, RunSound, WatchTypeOK
  <2>2. /\ watch' \in [on : {TRUE}, at : 0..MaxTime, todo : SUBSET AuctionSources,
                        recorded : SUBSET AuctionSources]
        /\ watch'.at = watch.at /\ watch'.todo = watch.todo \ {s}
        /\ watch'.recorded = watch.recorded
    BY <1>0, <1>7 DEF AlertFails
  <2>3. watch' # Off
    BY <2>2 DEF Off
  <2>4. Timely'
    BY <1>0, <2>1, <2>2 DEF Timely
  <2>5. WatchTypeOK'
    BY <1>0, <2>1, <2>2, <2>4 DEF WatchTypeOK, Timely
  <2>6. RunSound'
    BY <1>0, <2>1, <2>2 DEF RunSound, Muted
  <2>7. RecordSound'
    BY <1>0, <2>1, <2>2, <2>3 DEF RecordSound
  <2>8. QED
    BY <2>4, <2>5, <2>6, <2>7
<1>8. CASE UNCHANGED watchVars
  BY <1>8 DEF watchVars, Muted, WatchTypeOK, Timely, RunSound, RecordSound
<1>9. QED
  BY <1>1, <1>2, <1>3, <1>4, <1>5, <1>6, <1>7, <1>8 DEF WatchNext

\* The watchdog's variables keep their types, and nothing is recorded as told that
\* the operator has not got.
THEOREM WatchTypeCorrect == WatchSpec => []WatchTypeOK
<1>1. WatchInv => WatchTypeOK
  BY DEF WatchInv
<1>2. QED
  BY <1>1, WatchStarts, WatchKeeps, PTL DEF WatchSpec

\* The operator is not told of a source twice within DedupAge, unless the record of
\* the first alert was lost.
THEOREM AlertsAreSpaced == WatchSpec => TellsSparingly
<1> DEFINE Spaced ==
      \A s \in AuctionSources :
        told[s] # Never /\ told'[s] # told[s]
          => told'[s] - told[s] >= DedupAge \/ s \in unrecorded
<1>1. WatchInv /\ [WatchNext]_watchVars => Spaced
  <2> SUFFICES ASSUME WatchInv, [WatchNext]_watchVars,
                      NEW s \in AuctionSources, told[s] # Never, told'[s] # told[s],
                      s \notin unrecorded
               PROVE  told'[s] - told[s] >= DedupAge
    OBVIOUS
  <2>1. PICK t \in AuctionSources :
          /\ watch # Off /\ t \in watch.todo
          /\ told' = [told EXCEPT ![t] = watch.at]
    BY DEF WatchNext, watchVars, Tick, StartWatch, EndWatch, WatchDies, Walk, Alert, AlertFails
  <2>2. t = s /\ told'[s] = watch.at
    BY <2>1 DEF WatchInv, WatchTypeOK
  <2>3. QED
    BY <2>1, <2>2, ToldSpaced
<1>2. WatchInv /\ [WatchNext]_watchVars => [Spaced]_watchVars
  BY <1>1
<1>3. QED
  BY <1>2, WatchStarts, WatchKeeps, PTL DEF WatchSpec, TellsSparingly

=============================================================================
