-------------------------- MODULE RequestLifecycle --------------------------
(***************************************************************************)
(* What the work queue promises a caller about one request, with no        *)
(* leases, tokens, epochs, stages or clocks: the number of the attempt it  *)
(* is at and the phase of that attempt.  Only a running attempt finishes,  *)
(* an attempt is followed by the next one while attempts are left, and an  *)
(* outcome is for ever.  Requests move independently, and one call of the  *)
(* queue may move several of them.                                         *)
(***************************************************************************)
EXTENDS Integers

CONSTANTS Requests, MaxAttempts

VARIABLE lifecycle

Finished == {"completed", "completed_with_gaps", "waiting_for_input", "failed"}

Init == lifecycle = [r \in Requests |-> [attempt |-> 0, phase |-> "absent"]]

becomes(r, attempt, phase) == lifecycle'[r] = [attempt |-> attempt, phase |-> phase]

Enqueue(r) == lifecycle[r].phase = "absent" /\ becomes(r, 1, "queued")

Start(r) == lifecycle[r].phase = "queued" /\ becomes(r, lifecycle[r].attempt, "running")

\* The attempt failed and the next one waits for a worker, or was taken
\* over by one at once.
NextAttempt(r) ==
    /\ lifecycle[r].phase = "running"
    /\ lifecycle[r].attempt < MaxAttempts[r]
    /\ \E phase \in {"queued", "running"} : becomes(r, lifecycle[r].attempt + 1, phase)

Finish(r) ==
    /\ lifecycle[r].phase = "running"
    /\ \E outcome \in Finished : becomes(r, lifecycle[r].attempt, outcome)

Cancel(r) ==
    /\ lifecycle[r].phase \in {"queued", "running"}
    /\ becomes(r, lifecycle[r].attempt, "cancelled")

Stay(r) == lifecycle'[r] = lifecycle[r]

Next == \A r \in Requests :
    Stay(r) \/ Enqueue(r) \/ Start(r) \/ NextAttempt(r) \/ Finish(r) \/ Cancel(r)

Spec == Init /\ [][Next]_lifecycle
=============================================================================
