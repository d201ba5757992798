----------------------------- MODULE MCWantGate -----------------------------
(* An instance of WantGate: a want by make and model with a range of years   *)
(* and further criteria, one by an archetype's models; lots and a listing    *)
(* whose texts name the vehicle or not, and facts that meet the criteria,    *)
(* miss one of them, or are unknown.                                         *)
EXTENDS WantGate

CONSTANTS toyota, lexus, runner, gx, sr5, w1, w2

Any == [specs |-> {}, makes |-> {}, models |-> {}, trims |-> {}, min |-> Null, max |-> Null,
        drives |-> {}, ceiling |-> Null, maxkm |-> Null, provinces |-> {}, floor |-> Null]
Spec1 == [makes |-> {lexus}, models |-> {gx}, min |-> 2003, max |-> Null, trims |-> {}]
Spec2 == [makes |-> {toyota}, models |-> {runner}, min |-> Null, max |-> Null, trims |-> {sr5}]

MCCriteria ==
  [w \in Wants |->
     IF w = w1 THEN [Any EXCEPT !.makes = {toyota}, !.models = {runner}, !.min = 2003, !.max = 2009,
                                !.drives = {"4wd"}, !.ceiling = 9, !.maxkm = 200,
                                !.provinces = {"AB"}, !.floor = 3]
     ELSE [Any EXCEPT !.specs = {Spec1, Spec2}]]

Fact == [make |-> toyota, model |-> runner, year |-> 2005, trim |-> Unknown, drive |-> Unknown,
         price |-> 8, km |-> Null, province |-> "AB", condition |-> 3, sparse |-> FALSE,
         showstopper |-> FALSE]
Scraped(make, model, year) ==
  [Fact EXCEPT !.make = make, !.model = model, !.year = year, !.price = Null, !.condition = 0]
Vehicles ==
  {Fact, [Fact EXCEPT !.year = 2002, !.trim = sr5], [Fact EXCEPT !.make = lexus, !.model = gx],
   [Fact EXCEPT !.province = "BC"], [Fact EXCEPT !.condition = 2], [Fact EXCEPT !.km = 250],
   [Fact EXCEPT !.showstopper = TRUE, !.drive = "4wd"],
   [Fact EXCEPT !.condition = 2, !.sparse = TRUE]}
  \cup {Scraped(Unknown, Unknown, Null), Scraped(toyota, runner, 2002), Scraped(lexus, gx, Null),
        Scraped(toyota, Unknown, 2002),
        [Scraped(Unknown, Unknown, Null) EXCEPT !.province = "BC"]}
\* No bid yet, one below the ceiling of w1, and one above it.
MCFacts == {[f EXCEPT !.price = p] : f \in Vehicles, p \in {Null, 8, 10}}
MCRaws ==
  {[kind |-> "auction", text |-> {toyota, runner}, facts |-> Scraped(Unknown, Unknown, Null)],
   [kind |-> "auction", text |-> {toyota, runner}, facts |-> Scraped(toyota, runner, 2002)],
   [kind |-> "auction", text |-> {lexus, gx}, facts |-> Scraped(lexus, gx, Null)],
   [kind |-> "auction", text |-> {toyota}, facts |-> Scraped(toyota, Unknown, 2002)],
   [kind |-> "auction", text |-> {toyota, runner},
    facts |-> [Scraped(Unknown, Unknown, Null) EXCEPT !.province = "BC"]],
   [kind |-> "listing", text |-> {gx},
    facts |-> [Scraped(Unknown, Unknown, Null) EXCEPT !.price = 8]]}
=============================================================================
