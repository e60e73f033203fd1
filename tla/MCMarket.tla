------------------------------ MODULE MCMarket ------------------------------
(* MarketView for TLC: the kinds of offers and the symmetry.               *)
EXTENDS MarketView, TLC

Offer(instant, divine, price, count) ==
  [instant |-> instant, online |-> TRUE, divine |-> divine, price |-> price, count |-> count]

\* Buyouts in mirrors and in divines, a negotiable row.
SomeOffers ==
  {Offer(TRUE, FALSE, 9, 1), Offer(TRUE, FALSE, 10, 2), Offer(TRUE, TRUE, 10, 2),
   Offer(FALSE, FALSE, 11, 1)}

Symmetry == Permutations(Sellers)
=============================================================================
