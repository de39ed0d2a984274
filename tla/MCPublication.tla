---------------------------- MODULE MCPublication ----------------------------
(* Bounded instance of Publication: a review of each kind, a request for      *)
(* each and one more, and a worker beside another that lost its lease.        *)
EXTENDS Publication, TLC
OneSelector(m) == "selector"
WorkerSymmetry == Permutations(Workers) \cup Permutations(Manifests)

\* Bound: when two workers are at work at once there are at most two requests.
FewRequests == (\A w \in Workers : worker[w] # idle) => Len(requests) <= 2

MCNext == Next /\ FewRequests'
MCSpec == Init /\ [][MCNext]_vars
=============================================================================
