------------------------------ MODULE Scoring ------------------------------
(***************************************************************************)
(* The valuator's arithmetic: from comparable sales to a fair value, from  *)
(* a price to what the vehicle costs at home, and the weight of its flags. *)
(*                                                                         *)
(* Comparable sales are a bag: a function from descriptions of a sale,     *)
(* records [price, km, channel], to how many there are.  Prices are whole  *)
(* dollars, distances thousands of kilometres where a mileage is meant.    *)
(* Fractions are scaled: Normal is in cents, a FairValue in thousandths of *)
(* a cent, AllIn in hundredths of a cent; the code's rounding to cents is  *)
(* left out.  Null stands for None.                                        *)
(***************************************************************************)
EXTENDS Integers, FiniteSets, FiniteSetsExt

Null == -1

-----------------------------------------------------------------------------
(* Channels.                                                               *)

\* A channel that is not in the table is taken at face value.
Multiplier(channel) ==
  CASE channel = "dealer" -> 92 [] channel = "auction_estate" -> 120
    [] channel = "auction_govt" -> 115 [] channel = "auction_commercial" -> 110
    [] channel = "auction_salvage" -> 50 [] OTHER -> 100

\* normalize_to_private
Normal(c) == c.price * Multiplier(c.channel)

\* condition_position in percent: the enricher's "decent" for want of evidence
\* (sparse) counts less than one it means.
ConditionPosition(condition, sparse) ==
  IF condition = "decent" /\ sparse THEN 35
  ELSE CASE condition = "bad" -> 0 [] condition = "poor" -> 25
         [] condition = "good" -> 75 [] condition = "great" -> 100 [] OTHER -> 50

-----------------------------------------------------------------------------
(* Fair value.                                                             *)

INSUFFICIENT_COMPS_THRESHOLD == 5
HIGH_CONFIDENCE_MIN_COMPS == 10
MIN_COMPS_FOR_OUTLIER_TRIM == 4

Size(comps) == SumFunction(comps)

\* The mileage of a sale less the mean, times the number of comps.
Deviation(comps) ==
  LET n == Size(comps)
      sum == SumFunction([d \in DOMAIN comps |-> comps[d] * d.km])
  IN  [c \in DOMAIN comps |-> n * c.km - sum]

\* A sale's squared distance from the mean less that of two standard deviations, on
\* one scale: above zero where the sale is further than two deviations out.
Excess(comps) ==
  LET n == Size(comps)
      dev == Deviation(comps)
      spread == SumFunction([d \in DOMAIN comps |-> comps[d] * dev[d] * dev[d]])
  IN  [c \in DOMAIN comps |-> IF spread = 0 THEN -1 ELSE n * dev[c] * dev[c] - 4 * spread]

\* Sales further out than that, and those at exactly two deviations, where the
\* rounding of the float division decides.
Far(comps) == LET excess == Excess(comps) IN {c \in DOMAIN comps : comps[c] > 0 /\ excess[c] > 0}
AtEdge(comps) == LET excess == Excess(comps) IN {c \in DOMAIN comps : comps[c] > 0 /\ excess[c] = 0}

\* _trim_mileage_outliers; "lost" are the sales at the edge that rounding drops.
Trimmed(comps, lost) ==
  IF Size(comps) < MIN_COMPS_FOR_OUTLIER_TRIM THEN comps
  ELSE LET dropped == Far(comps) \cup lost
       IN  [c \in DOMAIN comps |-> IF c \in dropped THEN 0 ELSE comps[c]]

\* How many sales are not above p when normalized, and the k-th smallest such price.
UpTo(comps, p) == SumFunction([c \in DOMAIN comps |-> IF Normal(c) <= p THEN comps[c] ELSE 0])
Kth(comps, k) == Min({p \in {Normal(c) : c \in DOMAIN comps} : UpTo(comps, p) >= k})

\* First and last of the nine cut points of statistics.quantiles(n=10): at position
\* i * (n + 1) / 10 in the sorted prices, the index kept within them.
Decile(comps, i) ==
  LET n == Size(comps)
      j == Max({1, Min({n - 1, (i * (n + 1)) \div 10})})
      delta == i * (n + 1) - 10 * j
  IN  Kth(comps, j) * (10 - delta) + Kth(comps, j + 1) * delta

Median(comps) ==
  LET n == Size(comps)
  IN  5 * (Kth(comps, (n + 1) \div 2) + Kth(comps, n \div 2 + 1))

Unvalued(count) ==
  [count |-> count, low |-> Null, mid |-> Null, high |-> Null, expected |-> Null,
   confidence |-> "insufficient"]

\* mutant: deciles of any comp set, where the cut points lie outside the prices
BandOfDeciles(trimmed) == <<Decile(trimmed, 1), Decile(trimmed, 9)>>

\* p10 and p90 of compute_fair_value
Band(trimmed) ==
  LET n == Size(trimmed)
  IN  IF n >= HIGH_CONFIDENCE_MIN_COMPS THEN <<Decile(trimmed, 1), Decile(trimmed, 9)>>
      ELSE <<10 * Kth(trimmed, 1), 10 * Kth(trimmed, n)>>

\* compute_fair_value of what is left after trimming
FairValue(trimmed, condition, sparse) ==
  LET n == Size(trimmed)
      band == Band(trimmed)
      p10 == band[1]
      p90 == band[2]
  IN  IF n < INSUFFICIENT_COMPS_THRESHOLD THEN Unvalued(n)
      ELSE [count |-> n, low |-> 100 * p10, mid |-> 100 * Median(trimmed), high |-> 100 * p90,
            expected |-> 100 * p10 + ConditionPosition(condition, sparse) * (p90 - p10),
            confidence |-> IF n >= HIGH_CONFIDENCE_MIN_COMPS THEN "high" ELSE "medium"]

-----------------------------------------------------------------------------
(* Costs.                                                                  *)

\* distance_km_between, in kilometres
Distance(home, dest) ==
  CASE home = dest /\ home \in {"AB", "BC", "SK", "MB"} -> 0
    [] {home, dest} \in {{"AB", "SK"}, {"SK", "MB"}} -> 600
    [] {home, dest} = {"AB", "BC"} -> 1000
    [] {home, dest} = {"AB", "MB"} -> 1300
    [] {home, dest} = {"BC", "SK"} -> 1700
    [] {home, dest} = {"BC", "MB"} -> 2200
    [] OTHER -> 3000

Inspection(dest) ==
  CASE dest = "AB" -> 200 [] dest = "ON" -> 120 [] dest \in {"BC", "QC"} -> 125
    [] dest = "MB" -> 100 [] dest \in {"NS", "NB"} -> 50 [] OTHER -> 75
Contingency(dest) ==
  CASE dest \in {"AB", "ON"} -> 350 [] dest = "QC" -> 250 [] OTHER -> 150

\* landed_cost_premium, in dollars
LandedCost(home, dest) ==
  IF home = dest THEN 0
  ELSE Max({600, (40000 + 65 * Distance(home, dest)) \div 100}) + Inspection(dest) + Contingency(dest)

\* mutant: the floor is charged below the cap's price only
PremiumOfFloor(bid, pct, cap, floor) ==
  IF cap # Null /\ bid * pct > 100 * cap THEN (IF floor # Null THEN 100 * floor ELSE 0) ELSE bid * pct

\* _premium_amount, in cents: the cap first, the floor last.
Premium(bid, pct, cap, floor) ==
  LET capped == IF cap # Null THEN Min({bid * pct, 100 * cap}) ELSE bid * pct
  IN  IF floor # Null THEN Max({capped, 100 * floor}) ELSE capped

\* all_in_cost of a bid and its premium in cents
AllIn(cents, premium, tax, landed) == (cents + premium) * (100 + tax) + 10000 * landed

\* effective_acquisition_price of an asking price, in cents
Haircut(seller) == IF seller = "dealer" THEN 3 ELSE 5
Effective(asking, seller) == asking * (100 - Haircut(seller))

\* The numerator of price_deal_score, its denominator being the expected value; an
\* expected value of nothing scores nothing.
DealScore(expected, allin) == IF expected <= 0 THEN 0 ELSE expected - 10 * allin

-----------------------------------------------------------------------------
(* Flags.                                                                  *)

\* RED_FLAG_TAXONOMY and GREEN_FLAG_TAXONOMY by weight
RedFlags ==
  << {"needs_work", "no_service_records", "rust_mentioned", "smoker_owned", "mileage_unknown",
      "high_mileage_no_service", "modifications", "leaks_oil_minor", "bald_tires",
      "check_engine_light_on", "out_of_province", "winter_tires_only", "seller_dealer_only"},
     {"accident_history", "rocker_rust", "no_keys", "electrical_issues", "leaks_coolant",
      "diesel_emissions_deleted", "salvage_history_carfax", "abandoned_vehicle"},
     {"flood_damage_partial", "engine_knock", "wont_start", "transmission_slipping",
      "head_gasket_suspected", "frame_rust", "bill_of_sale_only"},
     {"salvage_not_rebuilt", "outstanding_lien", "lemon_law_buyback"} >>
GreenFlags ==
  << {"recent_timing_belt", "recent_transmission_service", "single_owner", "recent_major_service",
      "garage_kept", "non_smoker", "regular_oil_changes", "two_sets_of_tires",
      "block_heater_installed", "highway_mileage", "recent_inspection_passed", "recall_completed"},
     {"no_accidents_carfax", "service_records", "from_southern_climate", "warranty_remaining",
      "cpo_certified"} >>

\* _weight: the LLM's own weight of a flag is ignored, a flag that is not in the
\* tables weighs nothing, and vision's flag is pinned.
Weight(flag) ==
  CASE flag.name = "description_oversells_condition" -> -2
    [] \E w \in 1..4 : flag.name \in RedFlags[w] -> -(CHOOSE w \in 1..4 : flag.name \in RedFlags[w])
    [] \E w \in 1..2 : flag.name \in GreenFlags[w] -> CHOOSE w \in 1..2 : flag.name \in GreenFlags[w]
    [] OTHER -> 0

\* cumulative_flag_weight
FlagWeight(flags) == MapThenSumSet(Weight, flags)

\* _decide_notification_status
Silenced(flags, showstopper) == showstopper \/ FlagWeight(flags) <= -8
=============================================================================
