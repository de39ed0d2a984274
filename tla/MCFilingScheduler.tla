------------------------- MODULE MCFilingScheduler -------------------------
(***************************************************************************)
(* A small instance of FilingScheduler.  The slots are nominally due at 8  *)
(* and 18; with jitter, the second is not due at 18 in the first revision. *)
(* A check that fails at 8 has waited enough at 18, one that fails at 18   *)
(* has not, and at 24 the filed window has ended.                          *)
(***************************************************************************)
EXTENDS FilingScheduler, TLC

CONSTANTS o1, o2, k1, k2

Active(jitter, budget) == [active |-> TRUE, jitter |-> jitter, budget |-> budget, lag |-> 10]
Paused == [active |-> FALSE, jitter |-> 0, budget |-> 6, lag |-> 10]

SomeConfigs == {Active(1, 1), Active(0, 2), Paused}

Interchangeable == Permutations(Operators) \cup Permutations(RevisionKeys)

Spread == [x \in Epochs \X (0..(MaxSlot + 1)) |-> x[1] * x[2]]

\* Bound: with two ticks under way, or once the clock went back, the schedule
\* is in its first revision and no request in its second attempt.
OneDisturbance ==
    (Cardinality({o \in Operators : calls[o] # NoTime}) > 1 \/ set_back > 0)
        => epoch <= 1 /\ \A k \in SlotIndexes : requests[k].attempt <= 1

MCNext == Next /\ OneDisturbance'
MCSpec == Init /\ [][MCNext]_vars
=============================================================================
