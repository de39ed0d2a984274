----------------------------- MODULE MCWatchlist -----------------------------
(* Bounded instance of Watchlist. *)
EXTENDS Watchlist, TLC
SessionSymmetry == Permutations(Sessions) \cup Permutations(Keys) \cup Permutations(Options)
=============================================================================
