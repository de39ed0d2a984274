--------------------------- MODULE MCSourcePipeline ---------------------------
(* Bounded instance of SourcePipeline: two runs of one issuer, whose       *)
(* replays have the same input, and runs of two issuers, which share rows. *)
EXTENDS SourcePipeline, TLC
CONSTANTS r1, r2, i1, i2
scenario(kind1, kind2, issuer2) ==
    r1 :> [kind |-> kind1, issuer |-> i1] @@ r2 :> [kind |-> kind2, issuer |-> issuer2]
MCScenarios ==
    {scenario("replay", "replay", i1), scenario("live", "replay", i2),
     scenario("analysis", "bootstrap", i2)}
=============================================================================
