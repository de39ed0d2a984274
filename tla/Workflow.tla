------------------------------ MODULE Workflow ------------------------------
(***************************************************************************)
(* The persistent work queue: requests, their execution attempts, the      *)
(* worker's lease on the current attempt, and the stages run under it.     *)
(* Every action is one SECURITY DEFINER function of the migrations, hence  *)
(* one transaction; a call that raises rolls back and is a stutter, so a   *)
(* condition under which the function raises is a conjunct of the action.  *)
(*                                                                         *)
(* A request's tables are indexed by the request: request_state[r] is its  *)
(* analysis_request_state row, executions[r][n] its n-th execution (an     *)
(* execution id is the pair of request and attempt number), and            *)
(* stage_attempts[r] the set of stage rows of its executions.  issued[r]   *)
(* remembers every lease ever handed out, because a worker that lost its   *)
(* lease does not know it and may still call any function with it.         *)
(*                                                                         *)
(* Time is relative: lease_left and wait are the time until                *)
(* lease_expires_at and available_at, 0 when they have passed.             *)
(***************************************************************************)
EXTENDS Integers

CONSTANTS
    Requests,           \* request ids
    Workers,            \* worker ids
    NoWorker,           \* lease_owner IS NULL
    Trigger,            \* analysis_requests.trigger, per request
    MaxAttempts,        \* analysis_requests.max_attempts, per request
    Scheduled,          \* the monitor requests a filing schedule created
    StageKeys,          \* stage keys the workers use
    AttemptLimit,       \* bound: the largest max_attempts
    LeaseTimes,         \* lease durations asked for
    Delays,             \* retry delays asked for
    Backoff,            \* least delay before a scheduled attempt's successor
    MaxStageAttempts,   \* bound: attempts of one stage in one execution
    MaxRenewals         \* bound: renewals of one lease

Attempts == 1..AttemptLimit

Triggers == {"analysis", "source_bootstrap", "sec_filing_monitor"}

ASSUME WorkflowAssumption ==
    /\ NoWorker \notin Workers
    /\ AttemptLimit \in Nat \ {0}
    /\ Trigger \in [Requests -> Triggers]
    /\ MaxAttempts \in [Requests -> Attempts]
    /\ Scheduled \subseteq {r \in Requests : Trigger[r] = "sec_filing_monitor"}
    /\ LeaseTimes \subseteq Nat \ {0}
    /\ Delays \subseteq Nat
    /\ Backoff \in [Attempts -> Nat \ {0}]
    /\ MaxStageAttempts \in Nat \ {0}
    /\ MaxRenewals \in Nat

VARIABLES request_state, executions, stage_attempts, issued

vars == <<request_state, executions, stage_attempts, issued>>

(***************************************************************************)
(* The rows.                                                               *)
(***************************************************************************)
Outcomes == {"completed", "completed_with_gaps", "waiting_for_input",
             "failed", "cancelled"}
StageOutcomes == {"completed", "blocked", "unsupported", "failed", "cancelled"}
Results == {"none", "typed", "eligible", "incomplete", "error"}

Control == [current : 0..AttemptLimit, epoch : Nat, outcome : Outcomes \cup {"none"}]
Execution == [state : Outcomes \cup {"none", "queued", "running"},
              lease_owner : Workers \cup {NoWorker},
              lease_left : Nat, wait : Nat, fencing_token : Nat,
              cancellation_requested_at : {"null", "set"}, renewals : 0..MaxRenewals]
StageAttempt == [execution : Attempts, stage_key : StageKeys,
                 attempt_no : 1..MaxStageAttempts,
                 state : StageOutcomes \cup {"running"}, result : Results]
Lease == [execution : Attempts, epoch : Nat, worker_id : Workers, fencing_token : Nat]

no_execution == [state |-> "none", lease_owner |-> NoWorker, lease_left |-> 0,
                 wait |-> 0, fencing_token |-> 0,
                 cancellation_requested_at |-> "null", renewals |-> 0]

queued_execution(delay) == [no_execution EXCEPT !.state = "queued", !.wait = delay]

Init ==
    /\ request_state = [r \in Requests |-> [current |-> 0, epoch |-> 0, outcome |-> "none"]]
    /\ executions = [r \in Requests |-> [n \in Attempts |-> no_execution]]
    /\ stage_attempts = [r \in Requests |-> {}]
    /\ issued = [r \in Requests |-> {}]

enqueued(r) == request_state[r].current # 0
open(r) == enqueued(r) /\ request_state[r].outcome = "none"
current_execution(r) == executions[r][request_state[r].current]

(***************************************************************************)
(* workflow_enqueue, workflow_enqueue_bootstrap, workflow_enqueue_monitor: *)
(* a new request gets execution 1, queued and available, and epoch 1.      *)
(***************************************************************************)
enqueued_and_closed(r) == \* seeded fault: an open request is enqueued again
    request_state[r].outcome # "none"

already_enqueued(r) == enqueued(r)

workflow_enqueue(r) ==
    /\ ~already_enqueued(r)
    /\ request_state' = [request_state EXCEPT
            ![r] = [current |-> 1, epoch |-> 1, outcome |-> "none"]]
    /\ executions' = [executions EXCEPT ![r][1] = queued_execution(0)]
    /\ UNCHANGED <<stage_attempts, issued>>

(***************************************************************************)
(* The fence: the lease names the current execution and epoch of an open   *)
(* request, and that execution is running, owned by the caller under the   *)
(* same token, unexpired and not cancelled.                                *)
(***************************************************************************)
workflow_locked_lease(r, l) ==
    LET control == request_state[r]
        execution == current_execution(r)
    IN  /\ open(r)
        /\ control.current = l.execution
        /\ control.epoch = l.epoch
        /\ execution.state = "running"
        /\ execution.lease_owner = l.worker_id
        /\ execution.fencing_token = l.fencing_token
        /\ execution.lease_left > 0
        /\ execution.cancellation_requested_at = "null"

(***************************************************************************)
(* workflow_close_retry: fail the current execution and its running        *)
(* stages, then queue the next attempt or, at max_attempts, fail the       *)
(* request.  The epoch moves either way.                                   *)
(***************************************************************************)
attempts_exhausted(r) == request_state[r].current >= MaxAttempts[r]

ended_execution(e, state) ==
    [e EXCEPT !.state = state, !.lease_owner = NoWorker, !.lease_left = 0, !.wait = 0]

ended_stages_untouched(r, state) == \* seeded fault: running stages left behind
    stage_attempts[r]

ended_stages(r, state) ==
    {IF s.execution = request_state[r].current /\ s.state = "running"
     THEN [s EXCEPT !.state = state] ELSE s : s \in stage_attempts[r]}

retried_control(r) ==
    LET c == request_state[r]
    IN  IF attempts_exhausted(r)
        THEN [current |-> c.current, epoch |-> c.epoch + 1, outcome |-> "failed"]
        ELSE [current |-> c.current + 1, epoch |-> c.epoch + 1, outcome |-> c.outcome]

retried_executions(r, delay) ==
    LET n == request_state[r].current
        failed == [executions[r] EXCEPT ![n] = ended_execution(@, "failed")]
    IN  IF attempts_exhausted(r) THEN failed
        ELSE [failed EXCEPT ![n + 1] = queued_execution(delay)]

workflow_close_retry(r, delay) ==
    /\ request_state' = [request_state EXCEPT ![r] = retried_control(r)]
    /\ executions' = [executions EXCEPT ![r] = retried_executions(r, delay)]
    /\ stage_attempts' = [stage_attempts EXCEPT ![r] = ended_stages(r, "failed")]
    /\ UNCHANGED issued

(***************************************************************************)
(* Claiming.  The loop takes due requests in order of availability,        *)
(* skipping those another transaction has locked or the schedule holds     *)
(* back, so any due request may come next.  One whose lease expired is     *)
(* closed first.  If that used up its attempts, or it is scheduled and so  *)
(* has to back off, the loop goes on; the others are claimed and end it.   *)
(***************************************************************************)
lease_expired_unowned(r) == \* seeded fault: looks for expiry where no worker is
    open(r) /\ current_execution(r).lease_owner = NoWorker /\ current_execution(r).state = "running"

lease_expired(r) ==
    open(r) /\ current_execution(r).state = "running" /\ current_execution(r).lease_left = 0

due(r) ==
    \/ open(r) /\ current_execution(r).state = "queued" /\ current_execution(r).wait = 0
    \/ lease_expired(r)

closed_and_passed(r) ==
    lease_expired(r) /\ (attempts_exhausted(r) \/ r \in Scheduled)

reclaim_delay(r) == IF r \in Scheduled THEN Backoff[request_state[r].current] ELSE 0

\* The rows of a due request once an expired lease on it has been closed.
reclaimed_control(r) ==
    IF lease_expired(r) THEN retried_control(r) ELSE request_state[r]
reclaimed_executions(r) ==
    IF lease_expired(r) THEN retried_executions(r, reclaim_delay(r)) ELSE executions[r]
reclaimed_stages(r) ==
    IF lease_expired(r) THEN ended_stages(r, "failed") ELSE stage_attempts[r]

leased_execution(e, worker, seconds) ==
    [e EXCEPT !.state = "running", !.lease_owner = worker,
              !.lease_left = seconds, !.fencing_token = @ + 1]

leased_executions(r, worker, seconds) ==
    [reclaimed_executions(r) EXCEPT
        ![reclaimed_control(r).current] = leased_execution(@, worker, seconds)]

workflow_lease_result_before(r, worker) == \* seeded fault: token read before the update
    [execution |-> reclaimed_control(r).current, epoch |-> reclaimed_control(r).epoch,
     worker_id |-> worker,
     fencing_token |-> reclaimed_executions(r)[reclaimed_control(r).current].fencing_token]

workflow_lease_result(r, worker) ==
    LET control == reclaimed_control(r)
    IN  [execution |-> control.current, epoch |-> control.epoch, worker_id |-> worker,
         fencing_token |-> reclaimed_executions(r)[control.current].fencing_token + 1]

\* The effect of one call that passes over the requests of passed and
\* then claims those of taken (one, or none: the call returns NULL).
claim_effect(worker, seconds, passed, taken) ==
    /\ request_state' = [r \in Requests |->
            IF r \in passed \cup taken THEN reclaimed_control(r) ELSE request_state[r]]
    /\ executions' = [r \in Requests |->
            IF r \in taken THEN leased_executions(r, worker, seconds)
            ELSE IF r \in passed THEN reclaimed_executions(r) ELSE executions[r]]
    /\ stage_attempts' = [r \in Requests |->
            IF r \in passed \cup taken THEN reclaimed_stages(r) ELSE stage_attempts[r]]
    /\ issued' = [r \in Requests |->
            IF r \in taken THEN issued[r] \cup {workflow_lease_result(r, worker)} ELSE issued[r]]

claimable(r) == due(r) /\ ~closed_and_passed(r)

workflow_claim_kind(worker, seconds, candidates) ==
    \E passed \in SUBSET {r \in Requests : closed_and_passed(r) /\ r \in candidates},
       taken \in {{}} \cup {{r} : r \in {q \in Requests : claimable(q) /\ q \in candidates}} :
        /\ passed \cup taken # {}
        /\ claim_effect(worker, seconds, passed, taken)

triggered_by(trigger) == {r \in Requests : Trigger[r] = trigger}

workflow_claim(worker, seconds) ==
    workflow_claim_kind(worker, seconds, triggered_by("analysis"))
workflow_claim_bootstrap(worker, seconds) ==
    workflow_claim_kind(worker, seconds, triggered_by("source_bootstrap"))
workflow_claim_monitor(worker, seconds) ==
    workflow_claim_kind(worker, seconds, triggered_by("sec_filing_monitor"))

(***************************************************************************)
(* What the holder of a lease may do.                                      *)
(***************************************************************************)
renewed_execution(e, seconds) ==
    [e EXCEPT !.lease_left = seconds, !.renewals = @ + 1]

workflow_renew_late(r, l, seconds) == \* seeded fault: renews an expired lease
    /\ open(r) /\ request_state[r].current = l.execution
    /\ current_execution(r).state = "running" /\ current_execution(r).lease_owner = l.worker_id
    /\ current_execution(r).renewals < MaxRenewals
    /\ executions' = [executions EXCEPT ![r][l.execution] = renewed_execution(@, seconds)]
    /\ UNCHANGED <<request_state, stage_attempts, issued>>

workflow_renew(r, l, seconds) ==
    /\ workflow_locked_lease(r, l)
    /\ current_execution(r).renewals < MaxRenewals
    /\ executions' = [executions EXCEPT ![r][l.execution] = renewed_execution(@, seconds)]
    /\ UNCHANGED <<request_state, stage_attempts, issued>>

\* workflow_bootstrap_stage_guard and workflow_monitor_stage_guard.
stage_permitted(r, key) ==
    /\ Trigger[r] = "source_bootstrap" =>
          key \in {"sec_inventory_parse", "sec_inventory", "sec_bootstrap_manifest",
                   "sec_fetch", "sec_parse"}
    /\ Trigger[r] = "sec_filing_monitor" => key \in {"sec_monitor_result", "sec_fetch"}

workflow_start_stage(r, l, key) ==
    LET earlier == {s \in stage_attempts[r] : s.execution = l.execution /\ s.stage_key = key}
    IN  /\ workflow_locked_lease(r, l)
        /\ stage_permitted(r, key)
        /\ \A s \in earlier : s.state # "running"
        /\ \E no \in 1..MaxStageAttempts :
              /\ \A s \in earlier : s.attempt_no < no
              /\ no = 1 \/ \E s \in earlier : s.attempt_no = no - 1
              /\ stage_attempts' = [stage_attempts EXCEPT ![r] = @ \cup
                    {[execution |-> l.execution, stage_key |-> key, attempt_no |-> no,
                      state |-> "running", result |-> "none"]}]
        /\ UNCHANGED <<request_state, executions, issued>>

active_stage(r, l, s) ==
    s \in stage_attempts[r] /\ s.execution = l.execution /\ s.state = "running"

\* The stage whose completion carries the typed result of the request's kind.
result_stage(r) ==
    CASE Trigger[r] = "source_bootstrap" -> "sec_bootstrap_manifest"
      [] Trigger[r] = "sec_filing_monitor" -> "sec_monitor_result"
      [] OTHER -> "none"

\* The success guards on a stage row: a typed request's completed stage
\* carries no error, and its result stage completes only with a result.
stage_success_guard(r, key, has_reason, result) ==
    Trigger[r] # "analysis" =>
        ~has_reason /\ (key = result_stage(r) => result # "none")

finished_stage(r, s, outcome, result) ==
    stage_attempts' = [stage_attempts EXCEPT
        ![r] = (@ \ {s}) \cup {[s EXCEPT !.state = outcome, !.result = result]}]

workflow_finish_stage(r, l, s, outcome, has_reason) ==
    /\ workflow_locked_lease(r, l)
    /\ outcome # "completed" => has_reason
    /\ active_stage(r, l, s)
    /\ outcome = "completed" => stage_success_guard(r, s.stage_key, has_reason, "none")
    /\ finished_stage(r, s, outcome, "none")
    /\ UNCHANGED <<request_state, executions, issued>>

workflow_complete_bootstrap_stage(r, l, s) ==
    /\ workflow_locked_lease(r, l)
    /\ Trigger[r] = "source_bootstrap"
    /\ active_stage(r, l, s) /\ s.stage_key = "sec_bootstrap_manifest"
    /\ finished_stage(r, s, "completed", "typed")
    /\ UNCHANGED <<request_state, executions, issued>>

\* The unique index of 0009 admits one completed result per execution.
workflow_complete_monitor(r, l, s, result) ==
    /\ workflow_locked_lease(r, l)
    /\ Trigger[r] = "sec_filing_monitor"
    /\ active_stage(r, l, s) /\ s.stage_key = "sec_monitor_result"
    /\ ~\E t \in stage_attempts[r] :
          t.execution = l.execution /\ t.stage_key = s.stage_key /\ t.state = "completed"
    /\ finished_stage(r, s, "completed", result)
    /\ UNCHANGED <<request_state, executions, issued>>

\* workflow_bootstrap_success_guard and workflow_monitor_success_guard on
\* the execution row.
execution_success_ever(r, n, outcome, has_reason) == \* seeded fault: a result of any attempt
    Trigger[r] # "analysis" =>
        \E s \in stage_attempts[r] : s.stage_key = result_stage(r) /\ s.state = "completed"

execution_success_guard(r, n, outcome, has_reason) ==
    LET results == {s.result : s \in {t \in stage_attempts[r] :
                        /\ t.execution = n /\ t.stage_key = result_stage(r)
                        /\ t.state = "completed"}}
    IN  /\ Trigger[r] # "analysis" => ~has_reason
        /\ Trigger[r] = "source_bootstrap" => "typed" \in results
        /\ Trigger[r] = "sec_filing_monitor" =>
              IF outcome = "completed" THEN "eligible" \in results ELSE "incomplete" \in results

finishable_despite_gaps(r, n, outcome) == \* seeded fault: gap check dropped
    \A s \in stage_attempts[r] : s.execution = n => s.state # "running"

finishable(r, n, outcome) ==
    \A s \in stage_attempts[r] : s.execution = n =>
        /\ s.state # "running"
        /\ outcome = "completed" => s.state = "completed"

workflow_finish(r, l, outcome, has_reason) ==
    /\ workflow_locked_lease(r, l)
    /\ finishable(r, l.execution, outcome)
    /\ outcome \in {"failed", "waiting_for_input"} => has_reason
    /\ outcome \in {"completed", "completed_with_gaps"} =>
          execution_success_guard(r, l.execution, outcome, has_reason)
    /\ executions' = [executions EXCEPT ![r][l.execution] = ended_execution(@, outcome)]
    /\ request_state' = [request_state EXCEPT ![r].outcome = outcome]
    /\ UNCHANGED <<stage_attempts, issued>>

\* A scheduled request's next attempt is delayed at least by the back-off.
workflow_retry(r, l, delay) ==
    /\ workflow_locked_lease(r, l)
    /\ workflow_close_retry(r,
          IF r \in Scheduled /\ Backoff[l.execution] > delay THEN Backoff[l.execution] ELSE delay)

(***************************************************************************)
(* workflow_cancel needs no lease.  On a terminal request it returns FALSE *)
(* and changes nothing.                                                    *)
(***************************************************************************)
cancellable_always(r) == enqueued(r) \* seeded fault: terminal check dropped
cancellable(r) == open(r)

workflow_cancel(r) ==
    /\ cancellable(r)
    /\ stage_attempts' = [stage_attempts EXCEPT ![r] = ended_stages(r, "cancelled")]
    /\ executions' = [executions EXCEPT ![r][request_state[r].current] =
            [ended_execution(@, "cancelled") EXCEPT !.cancellation_requested_at = "set"]]
    /\ request_state' = [request_state EXCEPT
            ![r] = [current |-> @.current, epoch |-> @.epoch + 1, outcome |-> "cancelled"]]
    /\ UNCHANGED issued

(***************************************************************************)
(* Time passes: every running timer of every execution moves.              *)
(***************************************************************************)
less(t) == IF t > 0 THEN t - 1 ELSE 0

aged_execution(e) == [e EXCEPT !.lease_left = less(@), !.wait = less(@)]

Tick ==
    /\ \E r \in Requests : open(r) /\ (current_execution(r).lease_left > 0
                                       \/ current_execution(r).wait > 0)
    /\ executions' = [r \in Requests |-> [n \in Attempts |-> aged_execution(executions[r][n])]]
    /\ UNCHANGED <<request_state, stage_attempts, issued>>

Claim(worker, seconds) ==
    \/ workflow_claim(worker, seconds)
    \/ workflow_claim_bootstrap(worker, seconds)
    \/ workflow_claim_monitor(worker, seconds)

StageStep(r, l) ==
    \/ \E key \in StageKeys : workflow_start_stage(r, l, key)
    \/ \E s \in stage_attempts[r] :
          \/ \E outcome \in StageOutcomes, has_reason \in BOOLEAN :
                workflow_finish_stage(r, l, s, outcome, has_reason)
          \/ workflow_complete_bootstrap_stage(r, l, s)
          \/ \E result \in {"eligible", "incomplete", "error"} :
                workflow_complete_monitor(r, l, s, result)

WorkerStep(r, l) ==
    \/ \E seconds \in LeaseTimes : workflow_renew(r, l, seconds)
    \/ StageStep(r, l)
    \/ \E outcome \in Outcomes \ {"cancelled"}, has_reason \in BOOLEAN :
          workflow_finish(r, l, outcome, has_reason)
    \/ \E delay \in Delays : workflow_retry(r, l, delay)

Next ==
    \/ \E r \in Requests : workflow_enqueue(r) \/ workflow_cancel(r)
    \/ \E worker \in Workers, seconds \in LeaseTimes : Claim(worker, seconds)
    \/ \E r \in Requests : \E l \in issued[r] : WorkerStep(r, l)
    \/ Tick

Spec == Init /\ [][Next]_vars

(***************************************************************************)
(* Fairness: time passes, and the operator keeps polling, so that a        *)
(* request that stays due is eventually taken up.  Nothing is assumed of   *)
(* the worker that holds a lease, which may stop at any point, nor of a    *)
(* scheduled request, which its schedule may hold back for ever.           *)
(***************************************************************************)
TakeUp(r) ==
    /\ \E worker \in Workers, seconds \in LeaseTimes : Claim(worker, seconds)
    /\ request_state[r] # request_state'[r] \/ issued[r] # issued'[r]

Fairness == WF_vars(Tick) /\ \A r \in Requests \ Scheduled : WF_vars(TakeUp(r))

FairSpec == Spec /\ Fairness

-----------------------------------------------------------------------------
\* Every table holds rows of its type.
TypeOK ==
    /\ request_state \in [Requests -> Control]
    /\ executions \in [Requests -> [Attempts -> Execution]]
    /\ stage_attempts \in [Requests -> SUBSET StageAttempt]
    /\ issued \in [Requests -> SUBSET Lease]

\* While an execution is running and its lease has time left, exactly one of
\* the leases ever handed out on the request passes workflow_locked_lease:
\* the worker that claimed last can finish, and no other can interfere.
LeaseHasOneHolder ==
    \A r \in Requests :
        open(r) /\ current_execution(r).state = "running" /\ current_execution(r).lease_left > 0 =>
            \E l \in issued[r] :
                /\ workflow_locked_lease(r, l)
                /\ \A m \in issued[r] : workflow_locked_lease(r, m) => m = l

\* A lease that workflow_locked_lease refuses is refused for ever: neither
\* a renewal nor a later claim by the same worker brings it back to life.
LostLeaseStaysLost ==
    [][\A r \in Requests : \A l \in issued[r] :
          ~workflow_locked_lease(r, l) => ~workflow_locked_lease(r, l)']_vars

\* A stage is running only in the current execution of an open request and
\* while that execution is leased: whatever ends an execution (retry,
\* expiry, cancellation, finish) leaves no running stage behind.
NoOrphanedStage ==
    \A r \in Requests : \A s \in stage_attempts[r] : s.state = "running" =>
        /\ open(r)
        /\ s.execution = request_state[r].current
        /\ current_execution(r).state = "running"

\* The request's outcome is that of its current execution, every earlier
\* execution failed, none follows, and a request fails for want of attempts
\* only when all max_attempts of them were made.
AttemptHistory ==
    \A r \in Requests : enqueued(r) =>
        LET control == request_state[r]
            state == current_execution(r).state
        IN  /\ \A n \in Attempts :
                  /\ n < control.current => executions[r][n].state = "failed"
                  /\ n > control.current => executions[r][n].state = "none"
            /\ control.current <= MaxAttempts[r]
            /\ IF open(r) THEN state \in {"queued", "running"} ELSE state = control.outcome
            /\ control.outcome = "failed" /\ control.epoch > control.current =>
                  control.current = MaxAttempts[r]

\* A request reported complete has only completed stages in the execution
\* that finished it, and a bootstrap or monitor request that ends in success
\* rests on a typed result of that very execution.
SuccessIsBacked ==
    \A r \in Requests : LET rows == {s \in stage_attempts[r] :
                                        s.execution = request_state[r].current}
                            outcome == request_state[r].outcome
        IN  /\ outcome = "completed" => \A s \in rows : s.state = "completed"
            /\ outcome \in {"completed", "completed_with_gaps"} /\ Trigger[r] # "analysis" =>
                  \E s \in rows : /\ s.stage_key = result_stage(r) /\ s.state = "completed"
                                  /\ s.result # "none"
                                  /\ outcome = "completed" => s.result \in {"typed", "eligible"}

\* History is immutable: a terminal request never changes again, a stage
\* that finished keeps its row, and no execution leaves an end state.
HistoryIsFinal ==
    [][\A r \in Requests :
          /\ request_state[r].outcome # "none" =>
                /\ request_state'[r] = request_state[r]
                /\ executions'[r] = executions[r]
                /\ stage_attempts'[r] = stage_attempts[r]
          /\ \A s \in stage_attempts[r] : s.state # "running" => s \in stage_attempts'[r]
          /\ \A n \in Attempts : executions[r][n].state \in Outcomes =>
                executions'[r][n] = executions[r][n]]_vars

\* The queue implements RequestLifecycle: seen from outside, a request is at
\* the attempt its analysis_request_state row points to, in the phase of
\* that execution.
request_phase(r) ==
    [attempt |-> request_state[r].current,
     phase |-> IF enqueued(r) THEN current_execution(r).state ELSE "absent"]

Lifecycle == INSTANCE RequestLifecycle WITH
    lifecycle <- [r \in Requests |-> request_phase(r)]

\* Every step of the queue's functions is a step RequestLifecycle allows:
\* among others, a claim that takes over an expired execution moves the
\* request on to its next attempt and never past max_attempts.
ImplementsLifecycle == Lifecycle!Spec

\* Every request that is enqueued reaches a terminal outcome, even if every
\* worker that claims it dies holding the lease and claims keep passing over
\* scheduled requests (whose end is their schedule's business).
EveryRequestEnds ==
    \A r \in Requests \ Scheduled : enqueued(r) ~> request_state[r].outcome # "none"
=============================================================================
