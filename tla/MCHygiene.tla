----------------------------- MODULE MCHygiene ------------------------------
(* HygieneReplay for TLC.                                                  *)
EXTENDS HygieneReplay, TLC

\* Single buyouts.
BuyoutKinds == {[instant |-> TRUE, online |-> TRUE, price |-> 10, count |-> 1]}

Symmetry == Permutations(Fps) \cup Permutations(Sellers)
=============================================================================
