----------------------------- MODULE MCMarketData -----------------------------
(* Bounded instance of MarketData. *)
EXTENDS MarketData, TLC
Interchangeable == Permutations(Workers) \cup Permutations(Policies) \cup Permutations(Requests)
=============================================================================
