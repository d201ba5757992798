---------------------------- MODULE MCSourcePull ----------------------------
(* An instance of SourcePull: three listings on two sources, two wants with  *)
(* a search in common, one search with more listings than fit its page.      *)
EXTENDS SourcePull

CONSTANTS kijiji, craigslist, x, y, z, w1, w2, q1, q2

MCAt == [l \in Listings |-> IF l = z THEN craigslist ELSE kijiji]
MCAsks == [w \in Wants |-> IF w = w1 THEN {q1, q2} ELSE {q2}]
MCFinds == [q \in Searches |-> IF q = q1 THEN {x} ELSE {x, y, z}]
=============================================================================
