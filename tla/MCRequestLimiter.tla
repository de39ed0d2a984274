-------------------------- MODULE MCRequestLimiter --------------------------
(***************************************************************************)
(* Workers of equal and of different rate; a second has a few ticks.  The  *)
(* first may be refused, dispatch, report a cooldown and dispatch again,   *)
(* the second dispatch and report a cooldown, and the third, which was     *)
(* configured with another rate, only ask.                                 *)
(***************************************************************************)
EXTENDS RequestLimiter, TLC

CONSTANTS w1, w2, w3

Rates == (w1 :> 1) @@ (w2 :> 1) @@ (w3 :> 2)
CallsOfEach == (w1 :> 4) @@ (w2 :> 2) @@ (w3 :> 1)

SameRate == [w \in Workers |-> Second \div 2]
ThreeCalls == [w \in Workers |-> 3]

\* Bounds: at most one call is under way that its worker no longer waits for,
\* and none of the worker that only asks; it asks when no other call is under
\* way; a key is lost while at most one dispatch has been made.
Late == {c \in calls : worker[c.token[1]].waits # c.script \/ token(c.token[1]) # c.token}
OneLate == Cardinality(Late) <= 1 /\ \A c \in Late : c.token[1] # w3
AsksAlone == (\E c \in calls : c.token[1] = w3) => Cardinality(calls) = 1
Loses == (hash # NoHash /\ hash' = NoHash) \/ (starts # {} /\ starts' = {})
EarlyLoss == Loses => Cardinality(started) <= 1
MCNext == LimiterNext /\ EarlyLoss /\ OneLate' /\ AsksAlone'
MCSpec == LimiterInit /\ [][MCNext]_limiter_vars

AnyLoss == SUBSET {"rate", "starts"}
WorkerSymmetry == Permutations(Workers)
=============================================================================
