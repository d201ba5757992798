---------------------------- MODULE MCValuation ----------------------------
(* An instance of Valuation: sales at three prices, one of them with a       *)
(* mileage of its own; an auction lot of a common make whose premium is      *)
(* capped and floored, one of a rare make far from home without a premium,   *)
(* one not identified, and private listings with and without mileage.        *)
EXTENDS Valuation, TLC

CONSTANTS o1, o2

Cheap == [price |-> 800, km |-> 100, channel |-> "private"]
Dear == [price |-> 1300, km |-> 100, channel |-> "dealer"]
Worn == [price |-> 600, km |-> 125, channel |-> "auction_estate"]
MCSales == {Cheap, Dear, Worn}
Bag(c, d, w) == Cheap :> c @@ Dear :> d @@ Worn :> w

Mild == {[name |-> "rust_mentioned", weight |-> -9], [name |-> "service_records", weight |-> 2]}
Dire == {[name |-> "outstanding_lien", weight |-> 0], [name |-> "lemon_law_buyback", weight |-> 0]}

Lot == [kind |-> "auction", common |-> TRUE, identified |-> TRUE, km |-> 110, province |-> "none",
        seller |-> "none", pct |-> 0, cap |-> 100, floor |-> 20, gst |-> Null, pst |-> 7,
        condition |-> "decent", sparse |-> TRUE, flags |-> Mild, showstopper |-> FALSE,
        wanted |-> FALSE]

MCOffers ==
  {Lot,
   [Lot EXCEPT !.common = FALSE, !.province = "BC", !.condition = "great", !.flags = Dire],
   [Lot EXCEPT !.identified = FALSE, !.wanted = TRUE],
   [Lot EXCEPT !.kind = "listing", !.seller = "dealer", !.showstopper = TRUE],
   [Lot EXCEPT !.kind = "listing", !.km = 0]}
MCPrices == {1000, 1050}
MCRecorded == {Bag(0, 0, 0), Bag(3, 1, 1)}
MCSymmetry == Permutations(Operators)
MCBatches == {Bag(2, 1, 0), Bag(3, 1, 1)}
=============================================================================
