--------------------------- MODULE CatalogueWalk ---------------------------
(***************************************************************************)
(* How the ingester goes through the catalogues of the auction sources,    *)
(* one page after the other, while the sites change under it: HiBid's lot  *)
(* search by province, and McDougall's one list, with a page for each lot. *)
(*                                                                         *)
(* A page is asked for by its number, so what is on it depends on what the *)
(* catalogue holds at that moment.  "due" keeps the account of the lots a  *)
(* run has no excuse to miss: every cause the code admits takes lots off   *)
(* it, and MissedExplained says that there is no other.                    *)
(*                                                                         *)
(* What is written of a lot is the subject of Pipeline and LotLifecycle;   *)
(* here a lot is written in this run, or it is not.                        *)
(***************************************************************************)
EXTENDS Integers, SequencesExt

CONSTANTS Lots,
          Provinces,    \* hibid_provinces: HiBid's catalogues, in the order they are walked
          McDougall,    \* McDougall's catalogue
          Home,         \* the catalogue a lot is listed in
          First,        \* what the catalogues hold at first
          Wanted,       \* lots that some active want might match
          PageSize,     \* lots on a page
          MaxPages,     \* _CATALOG_MAX_PAGES
          MaxRetries,   \* max_retries of the transport
          MaxSurprises  \* bound: faults, and odd records in an answer

Catalogues == Range(Provinces) \cup {McDougall}

ASSUME CatalogueWalkAssumption ==
  /\ Provinces \in Seq(Range(Provinces)) \ {<<>>} /\ IsInjective(Provinces)
  /\ McDougall \notin Range(Provinces)
  /\ Home \in [Lots -> Catalogues]
  /\ First \in [Catalogues -> Seq(Lots)]
  /\ \A c \in Catalogues :
       IsInjective(First[c]) /\ \A x \in Range(First[c]) : Home[x] = c
  /\ Wanted \subseteq Lots
  /\ PageSize \in [Catalogues -> Nat \ {0}]
  /\ MaxPages \in Nat \ {0}
  /\ {MaxRetries, MaxSurprises} \subseteq Nat

VARIABLES
  site,      \* the lots of each catalogue, in the order the site lists them
  unlisted,  \* lots that have not been listed yet; none is listed twice
  todo,      \* strategies to run, each the catalogues still to walk; <<>> between runs
  page,      \* pages of the present catalogue that have been read
  held,      \* lots of the page read and not yet looked at; in which order, is left open
  last,      \* no further page will be asked for
  tries,     \* how often the present request has been repeated
  written,   \* lots this run has written
  due,       \* history: wanted lots listed all the time, which the run can see
  surprises  \* number of surprises so far

walk == <<todo, page, held, last, tries>>
vars == <<site, unlisted, walk, written, due, surprises>>

Strategies == <<Provinces, <<McDougall>>>>

Running == todo # <<>>
Here == Head(Head(todo))

\* Places of the present catalogue up to the last that has been read.
Passed == page * PageSize[Here]

\* The answer to the next request, and what lies behind the first n pages.
NextPage ==
  {site[Here][i] : i \in DOMAIN site[Here] \cap (Passed + 1 .. Passed + PageSize[Here])}
Behind(n) == {site[Here][i] : i \in {j \in DOMAIN site[Here] : j > n * PageSize[Here]}}

Init ==
  /\ site = First
  /\ unlisted = Lots \ UNION {Range(First[c]) : c \in Catalogues}
  /\ todo = <<>> /\ page = 0 /\ held = {} /\ last = FALSE /\ tries = 0
  /\ written = {} /\ due = {}
  /\ surprises = 0

Surprise ==
  /\ surprises < MaxSurprises
  /\ surprises' = surprises + 1

-----------------------------------------------------------------------------
(* The sites.                                                              *)

\* HiBid lists what is new first, as it is asked to; of McDougall's order nothing
\* is known.
Appear(x) ==
  /\ x \in unlisted
  /\ unlisted' = unlisted \ {x}
  /\ \E i \in 1 .. Len(site[Home[x]]) + 1 :
       /\ Home[x] # McDougall => i = 1
       /\ site' = [site EXCEPT ![Home[x]] = InsertAt(@, i, x)]
  /\ UNCHANGED <<walk, written, due, surprises>>

\* A lot is sold or withdrawn.  If it was on a page that has been read, what was
\* first on the next page moves to where nobody will look.
Vanish(x) ==
  /\ \E i \in DOMAIN site[Home[x]] :
       /\ site[Home[x]][i] = x
       /\ site' = [site EXCEPT ![Home[x]] = RemoveAt(@, i)]
       /\ due' = due \ ({x} \cup
            IF Running /\ Here = Home[x] /\ i <= Passed /\ Passed < Len(site[Here])
            THEN {site[Here][Passed + 1]} ELSE {})
  /\ UNCHANGED <<unlisted, walk, written, surprises>>

-----------------------------------------------------------------------------
(* The run: one strategy after the other, whatever becomes of each.        *)

\* Where the walk stands at the start of a catalogue.
AtStart == page' = 0 /\ held' = {} /\ last' = FALSE /\ tries' = 0

\* The timer starts the ingester, which takes its lock.
StartRun ==
  /\ ~Running
  /\ todo' = Strategies
  /\ AtStart
  /\ written' = {}
  /\ due' = Wanted \cap UNION {Range(site[c]) : c \in Catalogues}
  /\ UNCHANGED <<site, unlisted, surprises>>

\* The catalogue is walked; the next one, the next strategy, or the end of the run.
NextCatalogue ==
  /\ Running /\ held = {} /\ last
  /\ todo' = IF Len(Head(todo)) = 1 THEN Tail(todo)
             ELSE <<Tail(Head(todo))>> \o Tail(todo)
  /\ AtStart
  /\ UNCHANGED <<site, unlisted, written, due, surprises>>

\* What a strategy that is given up has not seen.
Forgone ==
  held \cup Behind(page)
    \cup UNION {Range(site[c]) : c \in Range(Tail(Head(todo)))}

\* mutant: an exception of one strategy ends the run
StrategyAborts ==
  /\ Running /\ Surprise
  /\ due' = due \ Forgone
  /\ todo' = <<>>
  /\ AtStart
  /\ UNCHANGED <<site, unlisted, written>>

\* A request to HiBid, the parsing of a list or a transaction raises: the strategy
\* is given up, with the provinces it has not come to.
StrategyFails ==
  /\ Running /\ Surprise
  /\ due' = due \ Forgone
  /\ todo' = Tail(todo)
  /\ AtStart
  /\ UNCHANGED <<site, unlisted, written>>

\* The process dies.  The timer will start another.
Dies ==
  /\ Running /\ Surprise
  /\ due' = {}
  /\ todo' = <<>>
  /\ AtStart
  /\ UNCHANGED <<site, unlisted, written>>

-----------------------------------------------------------------------------
(* Requests.                                                               *)

\* For the next page, or for the page of a McDougall lot.
Requesting == Running /\ IF held = {} THEN ~last ELSE Here = McDougall

\* The site answers that it is busy, and the transport sleeps before it tries again.
Busy ==
  /\ Requesting /\ tries < MaxRetries
  /\ tries' = tries + 1
  /\ UNCHANGED <<site, unlisted, todo, page, held, last, written, due, surprises>>

\* mutant: a full page is taken for the last one
LastPageFull(n, count) == n <= PageSize[Here] \/ Passed + PageSize[Here] >= count

\* Does a HiBid walk end with an answer of n records, "count" in all?
LastPage(n, count) == n < PageSize[Here] \/ Passed + PageSize[Here] >= count

\* HiBid answers.  Records may be null ("blank"), or lack their auction or their id
\* ("bare"); the count may be missing.  A null record makes the page look short.
AskHibid ==
  /\ Requesting /\ Here # McDougall /\ held = {}
  /\ \E blank \in SUBSET NextPage, bare \in SUBSET NextPage, counted \in BOOLEAN :
       LET odd == blank \cup bare # {} \/ ~counted
           ends == LastPage(Cardinality(NextPage \ blank),
                            IF counted THEN Len(site[Here]) ELSE 0)
       IN  /\ IF odd THEN Surprise ELSE UNCHANGED surprises
           /\ last' = ends
           /\ held' = NextPage \ (blank \cup bare)
           /\ due' = due \ (blank \cup bare
                        \cup IF odd /\ ends THEN Behind(page + 1) ELSE {})
  /\ page' = page + 1 /\ tries' = 0
  /\ UNCHANGED <<site, unlisted, todo, written>>

\* McDougall's list.  Cards that cannot be read are skipped; a page without a card
\* ends the walk, and so does the last page the code is willing to ask for.
AskMcDougall ==
  /\ Requesting /\ Here = McDougall /\ held = {}
  /\ \E bad \in SUBSET NextPage :
       /\ IF bad # {} THEN Surprise ELSE UNCHANGED surprises
       /\ held' = NextPage \ bad
       /\ last' = (held' = {} \/ page + 1 = MaxPages)
       /\ due' = due \ (bad \cup IF last' THEN Behind(page + 1) ELSE {})
  /\ page' = page + 1 /\ tries' = 0
  /\ UNCHANGED <<site, unlisted, todo, written>>

\* A page of McDougall's list cannot be had: the walk ends as if it were complete.
PageFails ==
  /\ Requesting /\ Here = McDougall /\ held = {}
  /\ Surprise
  /\ last' = TRUE /\ tries' = 0
  /\ due' = due \ Behind(page)
  /\ UNCHANGED <<site, unlisted, todo, page, held, written>>

-----------------------------------------------------------------------------
(* Lots.                                                                   *)

Take(x) ==
  /\ Running /\ x \in held
  /\ held' = held \ {x} /\ tries' = 0
  /\ UNCHANGED <<site, unlisted, todo, page, last>>

\* A lot some want might match is written with its auction.  HiBid's record is
\* complete, McDougall's lot has to be there when its page is fetched.
Write(x) ==
  /\ Take(x)
  /\ Here = McDougall => x \in Range(site[Here])
  /\ written' = written \cup ({x} \cap Wanted)
  /\ UNCHANGED <<due, surprises>>

\* A McDougall lot whose page is gone, cannot be fetched or read, or names no auction.
Skip(x) ==
  /\ Take(x)
  /\ Here = McDougall
  /\ IF x \in Range(site[Here]) THEN Surprise ELSE UNCHANGED surprises
  /\ due' = due \ {x}
  /\ UNCHANGED written

-----------------------------------------------------------------------------

Ingester ==
  \/ StartRun \/ NextCatalogue \/ StrategyFails
  \/ Busy \/ AskHibid \/ AskMcDougall \/ PageFails
  \/ \E x \in Lots : Write(x) \/ Skip(x)

Next ==
  \/ Ingester \/ Dies
  \/ \E x \in Lots : Appear(x) \/ Vanish(x)

Spec == Init /\ [][Next]_vars

\* The timer fires six hours after the last run was started, and every request has
\* a timeout.  Nothing makes a site change or stay as it is.
FairSpec == Spec /\ WF_vars(Ingester)

-----------------------------------------------------------------------------
(* Properties.                                                             *)

\* A run that has come to its end has written every wanted lot that was listed all the
\* time, in whatever order the lots came and went on the site, except those it could
\* not see: bad records and what a short page hides, what moved up behind the walk,
\* what lies behind the page limit, a page that failed, a strategy that was given up.
\* One source that fails takes nothing of the other (ingester.py:261-285).
MissedExplained == ~Running => due \subseteq written

\* Can a walk that meets nothing unusual come to lot x?
Reachable(x) ==
  \E i \in DOMAIN site[Home[x]] :
    /\ site[Home[x]][i] = x
    /\ Home[x] = McDougall => i <= MaxPages * PageSize[McDougall]

\* A wanted lot that stays listed, before the page limit, is written in the end.
StandingIsWritten ==
  \A x \in Wanted : Reachable(x) ~> x \in written \/ ~Reachable(x)

=============================================================================
