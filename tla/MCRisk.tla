------------------------------- MODULE MCRisk -------------------------------
(* A small instance of RiskBook for TLC: two candidates per venue.         *)
EXTENDS RiskBook, TLC

CONSTANTS a1, a2, h1, h2

AllKeys    == {a1, a2, h1, h2}
TwoEach    == [k \in AllKeys |-> IF k \in {a1, a2} THEN "alpaca" ELSE "hyperliquid"]
Allowances == [v \in Venues |-> IF v = "alpaca" THEN 5 ELSE 4]
Budgets    == [v \in Venues |-> IF v = "alpaca" THEN 5 ELSE 4]

VenueSymmetry == Permutations({a1, a2}) \cup Permutations({h1, h2})
=============================================================================
