------------------------------ MODULE MCOrder ------------------------------
(* Small instances of OrderLifecycle for TLC.                              *)
EXTENDS OrderLifecycle

\* Every candidate on an instrument of its own.
OwnSymbols == [k \in Keys |-> k]

\* Two zones on one asset.
OneSymbol == [k \in Keys |-> CHOOSE j \in Keys : TRUE]

AllLong  == [k \in Keys |-> "long"]
AllNamed == 1 .. MaxBrackets
\* The venue does not list the children of the second bracket's entry.
SomeNamed == AllNamed \ {2}
=============================================================================
