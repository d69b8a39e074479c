------------------------------- MODULE MCPool -------------------------------
(***************************************************************************)
(* Values for the constants of Pool that a configuration file cannot       *)
(* write, and a check of the operator that stands for a sum.               *)
(***************************************************************************)
EXTENDS Pool, FiniteSetsExt, TLC

SmallAmounts == 0 .. 2
SmallExts    == -2 .. 3
LargeExts    == -3 .. 3
SkewedProofs == {0, 1}
HonestProofs == {0}
SomeParams   == {<<2, 1>>, <<3, 0>>, <<1, 1>>, <<2, -1>>}
VaultParams  == {<<3, 2>>, <<3, 0>>, <<1, 1>>}
SomePrices   == 0 .. 3
OnePrice     == {2}
NoList       == {{}}
EveryList    == SUBSET Owners

\* ValueOf is the sum of the amounts.
ASSUME ValueOfIsSum ==
    \A amount \in [1 .. 3 -> 0 .. 2] : \A S \in SUBSET (1 .. 3) :
        ValueOf(amount, S) = MapThenSumSet(LAMBDA i : amount[i], S)
=============================================================================
