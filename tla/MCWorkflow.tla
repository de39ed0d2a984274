----------------------------- MODULE MCWorkflow -----------------------------
(***************************************************************************)
(* A small instance of Workflow: a bootstrap with two attempts, and the    *)
(* requests of the other kinds with one, of which the monitor's belongs to *)
(* a schedule.  A worker's earlier leases stay in use after it lost them   *)
(* (issued), so that one worker id is enough.                              *)
(***************************************************************************)
EXTENDS Workflow, TLC

CONSTANTS r1, r2, r3, w1

Kinds == (r1 :> "source_bootstrap") @@ (r2 :> "sec_filing_monitor") @@ (r3 :> "analysis")
AttemptsOfEach == (r1 :> 2) @@ (r2 :> 1) @@ (r3 :> 1)

\* The back-off doubles with the attempt: 60, 120, ... seconds in the code.
BackoffTicks == [n \in 1..AttemptLimit |-> n]

\* Bound: the bootstrap and the analysis are not made in one behaviour, and
\* the analysis' lease is not renewed.
TwoRequests ==
    /\ request_state[r1].current = 0 \/ request_state[r3].current = 0
    /\ executions[r3][1].renewals = 0

MCNext == Next /\ TwoRequests'
MCSpec == Init /\ [][MCNext]_vars /\ Fairness
=============================================================================
