----------------------------- MODULE MCPipeline -----------------------------
(* SalePipeline for TLC: kinds of listings and symmetry for the runs.      *)
EXTENDS PipelineLedger, TLC

Kind(instant, online, price, count) ==
  [instant |-> instant, online |-> online, price |-> price, count |-> count]

\* One price; buyouts alone or in a pair of copies, negotiable rows.
MixedKinds == {Kind(TRUE, TRUE, 10, 1), Kind(TRUE, TRUE, 10, 2), Kind(FALSE, TRUE, 10, 1)}

\* Single buyouts, for runs with many keys.
BuyoutKinds == {Kind(TRUE, TRUE, 10, 1)}

Symmetry == Permutations(Fps) \cup Permutations(Sellers)
=============================================================================
