----------------------------- MODULE SourcePull -----------------------------
(***************************************************************************)
(* The want-list pull of the ingester, one run after another, over the     *)
(* listing sources (Kijiji, Craigslist).  A source is asked, for every     *)
(* want, for what the want's searches find: a search is a keyword, in a    *)
(* region at Craigslist.  What a successful run has not seen is marked     *)
(* removed.  Both sources answer a search with its first page only, and    *)
(* skip a search that fails.                                               *)
(* Prices and content of what is pulled are Pipeline's subject.            *)
(***************************************************************************)
EXTENDS Integers, FiniteSets

CONSTANTS Sources,     \* the listing sources
          Listings,    \* everything ever posted on the listing sources
          At,          \* the source of a listing
          Wants,
          Searches,    \* keywords, in a region where the source has regions
          Asks,        \* the searches of a want
          Finds,       \* the listings a search would find were they all on one page
          PageSize,    \* listings on the first page
          MaxSurprises \* bound: changes of the sites and the wants and faults, together

ASSUME SourcePullAssumption ==
  /\ At \in [Listings -> Sources]
  /\ Asks \in [Wants -> SUBSET Searches] /\ Finds \in [Searches -> SUBSET Listings]
  /\ PageSize \in Nat \ {0} /\ MaxSurprises \in Nat

VARIABLES
  site,      \* the listings that are on their sites
  wants,     \* the wants that are enabled
  row,       \* listing_status of a listing's row
  run,       \* the ingester's run: [todo: sources still to pull, asked: its wants]
  pull,      \* the pull of a listing source: [source, todo, page, seen]
  surprises, \* number of surprises so far
  unseen     \* history: listings the pull cannot have seen although they are on the site

vars == <<site, wants, row, run, pull, surprises, unseen>>

NoPull == [source |-> "none"]
NoRun == [todo |-> {}, asked |-> {}]

Init ==
  /\ site \in SUBSET Listings
  /\ wants = Wants
  /\ row = [x \in Listings |-> "absent"]
  /\ run = NoRun
  /\ pull = NoPull
  /\ surprises = 0
  /\ unseen = {}

Surprise ==
  /\ surprises < MaxSurprises
  /\ surprises' = surprises + 1

-----------------------------------------------------------------------------
(* The world.                                                              *)

\* A listing is posted (or is back): a pull that has begun may have missed it.
Post(x) ==
  /\ x \notin site /\ Surprise
  /\ site' = site \cup {x}
  /\ unseen' = unseen \cup {x}
  /\ UNCHANGED <<wants, row, run, pull>>

\* A listing is sold or taken down.
Vanish(x) ==
  /\ x \in site /\ Surprise
  /\ site' = site \ {x}
  /\ UNCHANGED <<wants, row, run, pull, unseen>>

\* The buyer enables or disables a want.
Toggle(w) ==
  /\ Surprise
  /\ wants' = IF w \in wants THEN wants \ {w} ELSE wants \cup {w}
  /\ UNCHANGED <<site, row, run, pull, unseen>>

-----------------------------------------------------------------------------
(* The ingester.                                                           *)

\* A run of the timer: the wants are read once for all the sources, and without wants
\* no source is pulled.
StartRun ==
  /\ run = NoRun /\ pull = NoPull
  /\ wants # {}
  /\ run' = [todo |-> Sources, asked |-> wants]
  /\ UNCHANGED <<site, wants, row, pull, surprises, unseen>>

\* The pull of a source; the sources do not depend on each other's order.
StartPull(s) ==
  /\ s \in run.todo /\ pull = NoPull
  /\ run' = [run EXCEPT !.todo = @ \ {s}]
  /\ LET todo == {t \in run.asked \X Searches : t[2] \in Asks[t[1]]} IN
     /\ pull' = [source |-> s, todo |-> todo, page |-> {}, seen |-> {}]
     /\ unseen' = Listings \ UNION {Finds[t[2]] : t \in todo}
  /\ UNCHANGED <<site, wants, row, surprises>>

\* The run is over when the last source has been pulled.
EndRun ==
  /\ run # NoRun /\ run.todo = {} /\ pull = NoPull
  /\ run' = NoRun
  /\ UNCHANGED <<site, wants, row, pull, surprises, unseen>>

Shown(q) == {x \in Finds[q] \cap site : At[x] = pull.source}

\* The listings on the first page: which ones, when there are more, is the site's choice.
FirstPage(q) ==
  {P \in SUBSET Shown(q) :
     Cardinality(P) = (IF Cardinality(Shown(q)) < PageSize THEN Cardinality(Shown(q)) ELSE PageSize)}

\* mutant: what earlier searches have seen is forgotten
SearchAfresh(w, q) ==
  /\ pull # NoPull /\ pull.page = {} /\ <<w, q>> \in pull.todo
  /\ \E P \in FirstPage(q) :
       /\ pull' = [pull EXCEPT !.todo = @ \ {<<w, q>>}, !.page = P, !.seen = {}]
       /\ unseen' = unseen \cup (Shown(q) \ P)
  /\ UNCHANGED <<site, wants, row, run, surprises>>

\* One search: an answer is fetched; what this pull has seen already is passed over.
Search(w, q) ==
  /\ pull # NoPull /\ pull.page = {} /\ <<w, q>> \in pull.todo
  /\ \E P \in FirstPage(q) :
       /\ pull' = [pull EXCEPT !.todo = @ \ {<<w, q>>}, !.page = P \ pull.seen]
       /\ unseen' = unseen \cup (Shown(q) \ (P \cup pull.seen))
  /\ UNCHANGED <<site, wants, row, run, surprises>>

\* It fails, after RetryTransport's last attempt, or its answer cannot be parsed: it is
\* skipped, and the pull goes on.
SearchFails(w, q) ==
  /\ pull # NoPull /\ pull.page = {} /\ <<w, q>> \in pull.todo
  /\ Surprise
  /\ pull' = [pull EXCEPT !.todo = @ \ {<<w, q>>}]
  /\ unseen' = unseen \cup (Shown(q) \ pull.seen)
  /\ UNCHANGED <<site, wants, row, run>>

\* mutant: a row that is there keeps its listing_status
UpsertInsert(x) ==
  /\ pull # NoPull /\ x \in pull.page
  /\ row' = [row EXCEPT ![x] = IF @ = "absent" THEN "active" ELSE @]
  /\ pull' = [pull EXCEPT !.page = @ \ {x}, !.seen = @ \cup {x}]
  /\ UNCHANGED <<site, wants, run, surprises, unseen>>

\* One listing, in a transaction of its own; its status is the source's, "active".
Upsert(x) ==
  /\ pull # NoPull /\ x \in pull.page
  /\ row' = [row EXCEPT ![x] = "active"]
  /\ pull' = [pull EXCEPT !.page = @ \ {x}, !.seen = @ \cup {x}]
  /\ UNCHANGED <<site, wants, run, surprises, unseen>>

\* The client or a transaction raises: the source is given up, and not reconciled.
PullFails ==
  /\ pull # NoPull
  /\ Surprise
  /\ pull' = NoPull
  /\ UNCHANGED <<site, wants, row, run, unseen>>

\* mutant: the pull ends without reconciling
ReconcileNever ==
  /\ pull # NoPull /\ pull.page = {} /\ pull.todo = {}
  /\ pull' = NoPull
  /\ UNCHANGED <<site, wants, row, run, surprises, unseen>>

\* What is active in the source's rows and was not seen is removed, unless nothing
\* was seen.
Reconcile ==
  /\ pull # NoPull /\ pull.page = {} /\ pull.todo = {}
  /\ row' = [x \in Listings |->
               IF /\ pull.seen # {} /\ x \notin pull.seen
                  /\ At[x] = pull.source /\ row[x] = "active"
               THEN "removed" ELSE row[x]]
  /\ pull' = NoPull
  /\ UNCHANGED <<site, wants, run, surprises, unseen>>

\* The process dies, or reconciling raises: the sources that remain are not pulled.
IngesterDies ==
  /\ run # NoRun
  /\ Surprise
  /\ run' = NoRun /\ pull' = NoPull
  /\ UNCHANGED <<site, wants, row, unseen>>

-----------------------------------------------------------------------------
Next ==
  \/ \E x \in Listings : Post(x) \/ Vanish(x) \/ Upsert(x)
  \/ \E w \in Wants : Toggle(w)
  \/ StartRun \/ EndRun \/ PullFails \/ Reconcile \/ IngesterDies
  \/ \E s \in Sources : StartPull(s)
  \/ \E w \in Wants, q \in Searches : Search(w, q) \/ SearchFails(w, q)

Spec == Init /\ [][Next]_vars

\* systemd's timer starts the ingester again and again, and a run goes on.
FairSpec ==
  /\ Spec
  /\ WF_vars(\/ StartRun \/ EndRun \/ Reconcile
             \/ \E s \in Sources : StartPull(s)
             \/ \E w \in Wants, q \in Searches : Search(w, q)
             \/ \E x \in Listings : Upsert(x))

-----------------------------------------------------------------------------
(* Properties.                                                             *)

\* The types; no listing is both on a page still to be written and seen.
TypeOK ==
  /\ site \subseteq Listings /\ wants \subseteq Wants
  /\ row \in [Listings -> {"absent", "active", "removed"}]
  /\ run \in [todo : SUBSET Sources, asked : SUBSET Wants]
  /\ \/ pull = NoPull
     \/ /\ pull \in [source : Sources, todo : SUBSET (Wants \X Searches),
                     page : SUBSET Listings, seen : SUBSET Listings]
        /\ pull.page \cap pull.seen = {}
        /\ \A x \in pull.page \cup pull.seen : At[x] = pull.source
  /\ surprises \in 0..MaxSurprises
  /\ unseen \subseteq Listings

\* A listing is marked removed, and so becomes the price of a sale, while it is still on
\* its site only if the pull could not see it: it was posted during the pull, no enabled
\* want asks for it any more, its search failed, or it was not on the first page.
RemovedExplained ==
  [][\A x \in Listings :
       row[x] = "active" /\ row'[x] = "removed" /\ x \in site => x \in unseen]_vars

\* Listing x shows on the first page of a search of an enabled want, whatever else is there.
Visible(x) ==
  /\ x \in site
  /\ \E w \in wants : \E q \in Asks[w] :
       x \in Finds[q] /\ Cardinality({y \in Finds[q] \cap site : At[y] = At[x]}) <= PageSize

\* What a want asks for and the site shows is an active row in the end, also when it was
\* removed by mistake or has come back.
VisibleIsActive == \A x \in Listings : Visible(x) ~> row[x] = "active" \/ ~Visible(x)

\* What is no longer on its site is not active for ever, unless nothing else of the
\* source shows: then the pull sees nothing and removes nothing.
GoneIsRemoved ==
  \A x \in Listings :
    x \notin site /\ row[x] = "active"
      ~> row[x] = "removed" \/ x \in site \/ ~\E y \in Listings : At[y] = At[x] /\ Visible(y)
=============================================================================
