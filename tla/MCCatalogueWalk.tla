-------------------------- MODULE MCCatalogueWalk --------------------------
(***************************************************************************)
(* CatalogueWalk for TLC: Alberta's catalogue grows to two pages, one of    *)
(* them full at first; Saskatchewan has one lot; McDougall's list grows     *)
(* beyond its page limit.                                                  *)
(***************************************************************************)
EXTENDS CatalogueWalk

CONSTANTS a1, a2, a3, s1, m1, m2, m3, AB, SK, McD

MCLots == {a1, a2, a3, s1, m1, m2, m3}
MCProvinces == <<AB, SK>>
MCHome == [x \in MCLots |->
             IF x \in {a1, a2, a3} THEN AB ELSE IF x = s1 THEN SK ELSE McD]
MCFirst == [c \in {AB, SK, McD} |->
             CASE c = AB -> <<a1, a2>> [] c = SK -> <<s1>> [] c = McD -> <<m1, m2, m3>>]
MCWanted == MCLots \ {a1, m1}
MCPageSize == [c \in {AB, SK, McD} |-> IF c = McD THEN 1 ELSE 2]

=============================================================================
