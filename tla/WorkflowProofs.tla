--------------------------- MODULE WorkflowProofs ---------------------------
(***************************************************************************)
(* Proofs about Workflow for every set of requests and workers and every   *)
(* value of the bounds.                                                    *)
(*                                                                         *)
(* The functions of the queue touch the rows of one request at a time      *)
(* (a claim, of several, each on its own), so the inductive invariant is   *)
(* a predicate on the rows of one request, and each action gets a lemma    *)
(* that says what it makes of rows that satisfy it.                        *)
(***************************************************************************)
EXTENDS Workflow, TLAPS

USE DEF Attempts, Outcomes, StageOutcomes, Results

\* The lease under which the current execution runs.
HeldLease(c, e) ==
    [execution |-> c.current, epoch |-> c.epoch,
     worker_id |-> e.lease_owner, fencing_token |-> e.fencing_token]

RowTypes(c, E, S, I) ==
    /\ c \in Control
    /\ E \in [Attempts -> Execution]
    /\ S \in SUBSET StageAttempt
    /\ I \in SUBSET Lease

\* Nothing exists of a request that was not enqueued.
BlankRows(c, E, S, I) ==
    c.current = 0 =>
        /\ c.outcome = "none"
        /\ \A n \in Attempts : E[n].state = "none"
        /\ S = {} /\ I = {}

\* The attempts up to the current one, as AttemptHistory says; the epoch of
\* an open request is the number of its attempt.
AttemptRows(r, c, E) ==
    c.current # 0 =>
        /\ \A n \in Attempts : n < c.current => E[n].state = "failed"
        /\ \A n \in Attempts : n > c.current => E[n].state = "none"
        /\ c.current <= MaxAttempts[r]
        /\ c.outcome = "none" => E[c.current].state \in {"queued", "running"} /\ c.epoch = c.current
        /\ c.outcome # "none" => E[c.current].state = c.outcome
        /\ c.outcome = "failed" /\ c.epoch > c.current => c.current = MaxAttempts[r]

\* Only a running execution has a lease, only a queued one waits, and only
\* a cancelled one was asked to stop.
TimerRows(E) ==
    \A n \in Attempts :
        /\ E[n].state # "running" => E[n].lease_left = 0
        /\ E[n].state # "queued" => E[n].wait = 0
        /\ E[n].state # "cancelled" => E[n].cancellation_requested_at = "null"

\* No lease was handed out on an execution no worker claimed, and the lease
\* of the running execution was.
LeaseRows(c, E, I) ==
    /\ \A l \in I : E[l.execution].state \notin {"none", "queued"}
    /\ c.current # 0 /\ c.outcome = "none" /\ E[c.current].state = "running" =>
          HeldLease(c, E[c.current]) \in I

StageRows(c, E, S) ==
    \A s \in S : s.state = "running" =>
        /\ c.current # 0 /\ c.outcome = "none"
        /\ s.execution = c.current /\ E[c.current].state = "running"

\* The stage row that carries the typed result of a successful execution n.
Backing(r, n, outcome, s) ==
    /\ s.execution = n
    /\ s.stage_key = result_stage(r) /\ s.state = "completed"
    /\ s.result # "none"
    /\ outcome = "completed" => s.result \in {"typed", "eligible"}

SuccessRows(r, c, S) ==
    /\ c.outcome = "completed" =>
          \A s \in S : s.execution = c.current => s.state = "completed"
    /\ c.outcome \in {"completed", "completed_with_gaps"} /\ Trigger[r] # "analysis" =>
          \E s \in S : Backing(r, c.current, c.outcome, s)

RequestOK(r, c, E, S, I) ==
    /\ RowTypes(c, E, S, I)
    /\ BlankRows(c, E, S, I)
    /\ AttemptRows(r, c, E)
    /\ TimerRows(E)
    /\ LeaseRows(c, E, I)
    /\ StageRows(c, E, S)
    /\ SuccessRows(r, c, S)

\* The inductive invariant.
RowsOK(r) == RequestOK(r, request_state[r], executions[r], stage_attempts[r], issued[r])

IndInv == TypeOK /\ \A r \in Requests : RowsOK(r)

-----------------------------------------------------------------------------
\* The tables are empty at first.
LEMMA InitOK == Init => IndInv
  <1> SUFFICES ASSUME Init PROVE IndInv
    OBVIOUS
  <1> USE WorkflowAssumption
  <1>1. TypeOK
    BY DEF Init, TypeOK, Control, Execution, no_execution
  <1>2. ASSUME NEW r \in Requests PROVE RowsOK(r)
    <2>1. /\ request_state[r] = [current |-> 0, epoch |-> 0, outcome |-> "none"]
          /\ executions[r] = [n \in Attempts |-> no_execution]
          /\ stage_attempts[r] = {} /\ issued[r] = {}
      BY DEF Init
    <2> QED
      BY <1>1, <2>1 DEF TypeOK, RowsOK, RequestOK, RowTypes, BlankRows, AttemptRows, TimerRows,
         LeaseRows, StageRows, SuccessRows, no_execution
  <1> QED
    BY <1>1, <1>2 DEF IndInv

\* The row of a newly queued execution.
LEMMA QueuedRow ==
  ASSUME NEW delay \in Nat
  PROVE  /\ queued_execution(delay) \in Execution
         /\ queued_execution(delay).state = "queued"
         /\ queued_execution(delay).lease_left = 0
         /\ queued_execution(delay).wait = delay
         /\ queued_execution(delay).cancellation_requested_at = "null"
  <1>1. no_execution \in Execution
    BY WorkflowAssumption DEF Execution, no_execution
  <1>2. queued_execution(delay) \in Execution
    BY <1>1 DEF queued_execution, Execution
  <1> QED
    BY <1>2 DEF queued_execution, no_execution

\* The row of an execution that ends.
LEMMA EndedRow ==
  ASSUME NEW e \in Execution, NEW state \in Outcomes
  PROVE  /\ ended_execution(e, state) \in Execution
         /\ ended_execution(e, state).state = state
         /\ ended_execution(e, state).lease_left = 0
         /\ ended_execution(e, state).wait = 0
         /\ ended_execution(e, state).cancellation_requested_at = e.cancellation_requested_at
  BY WorkflowAssumption DEF ended_execution, Execution

\* Ending the stages of the current execution leaves none running.
LEMMA EndedStages ==
  ASSUME NEW r \in Requests, RowsOK(r), NEW state \in StageOutcomes
  PROVE  /\ ended_stages(r, state) \in SUBSET StageAttempt
         /\ \A s \in ended_stages(r, state) : s.state # "running"
         /\ \A s \in stage_attempts[r] : s.state # "running" => s \in ended_stages(r, state)
  <1> DEFINE ended(s) == IF s.execution = request_state[r].current /\ s.state = "running"
                         THEN [s EXCEPT !.state = state] ELSE s
  <1>1. ended_stages(r, state) = {ended(s) : s \in stage_attempts[r]}
    BY DEF ended_stages
  <1>2. ASSUME NEW s \in stage_attempts[r]
        PROVE  ended(s) \in StageAttempt /\ ended(s).state # "running"
               /\ (s.state # "running" => ended(s) = s)
    BY DEF RowsOK, RequestOK, RowTypes, StageRows, StageAttempt
  <1> HIDE DEF ended
  <1> QED
    BY <1>1, <1>2

\* What workflow_close_retry makes of the rows of an open, running request.
LEMMA RetriedOK ==
  ASSUME NEW r \in Requests, RowsOK(r), open(r), NEW delay \in Nat,
         current_execution(r).state = "running"
  PROVE  RequestOK(r, retried_control(r), retried_executions(r, delay),
                   ended_stages(r, "failed"), issued[r])
  <1> DEFINE c == request_state[r]
             E == executions[r]
             c2 == retried_control(r)
             E2 == retried_executions(r, delay)
             S2 == ended_stages(r, "failed")
             X == ended_execution(E[c.current], "failed")
             Q == queued_execution(delay)
  <1>1. /\ c \in Control /\ E \in [Attempts -> Execution] /\ issued[r] \in SUBSET Lease
        /\ c.current \in Attempts /\ c.outcome = "none" /\ E[c.current].state = "running"
        /\ c.epoch = c.current /\ c.current <= MaxAttempts[r]
        /\ MaxAttempts[r] \in Attempts
    BY WorkflowAssumption DEF RowsOK, RequestOK, RowTypes, AttemptRows, open, enqueued,
       current_execution, Control
  <1>2. /\ S2 \in SUBSET StageAttempt
        /\ \A s \in S2 : s.state # "running"
    BY EndedStages DEF RowsOK
  <1>3. /\ X \in Execution /\ X.state = "failed" /\ X.lease_left = 0 /\ X.wait = 0
        /\ X.cancellation_requested_at = E[c.current].cancellation_requested_at
    <2>1. E[c.current] \in Execution
      BY <1>1
    <2> QED
      BY <2>1, EndedRow
  <1>4. /\ Q \in Execution /\ Q.state = "queued" /\ Q.lease_left = 0
        /\ Q.cancellation_requested_at = "null"
    BY QueuedRow
  <1>5. AttemptRows(r, c, E) /\ TimerRows(E) /\ LeaseRows(c, E, issued[r])
    BY DEF RowsOK, RequestOK
  <1> HIDE DEF X, Q
  <1>6. CASE attempts_exhausted(r)
    <2>1. c2 = [current |-> c.current, epoch |-> c.epoch + 1, outcome |-> "failed"]
      BY <1>6 DEF retried_control
    <2>2. c.current = MaxAttempts[r]
      BY <1>1, <1>6, WorkflowAssumption DEF attempts_exhausted
    <2>3. c2 \in Control /\ c2.epoch = c.epoch + 1 /\ c2.current = c.current
          /\ c2.outcome = "failed"
      BY <1>1, <2>1 DEF Control
    <2>4. E2 = [E EXCEPT ![c.current] = X]
      BY <1>6 DEF retried_executions, X
    <2>5. /\ E2 \in [Attempts -> Execution]
          /\ E2[c.current] = X
          /\ \A n \in Attempts : n # c.current => E2[n] = E[n]
      BY <1>1, <1>3, <2>4
    <2>6. AttemptRows(r, c2, E2)
      BY <1>1, <1>3, <1>5, <2>5, <2>3, <2>2 DEF AttemptRows
    <2>7. TimerRows(E2)
      BY <1>1, <1>3, <1>5, <2>5 DEF TimerRows
    <2>8. LeaseRows(c2, E2, issued[r])
      BY <1>1, <1>3, <1>5, <2>5, <2>3 DEF LeaseRows, Lease
    <2> QED
      BY <1>1, <1>2, <2>5, <2>3, <2>6, <2>7, <2>8 DEF RequestOK, RowTypes, BlankRows, StageRows,
         SuccessRows
  <1>7. CASE ~attempts_exhausted(r)
    <2>1. c2 = [current |-> c.current + 1, epoch |-> c.epoch + 1, outcome |-> "none"]
      BY <1>1, <1>7 DEF retried_control
    <2>2. c.current < MaxAttempts[r] /\ c.current + 1 \in Attempts
      BY <1>1, <1>7, WorkflowAssumption DEF attempts_exhausted
    <2>3. c2 \in Control /\ c2.epoch = c.epoch + 1 /\ c2.current = c.current + 1
          /\ c2.outcome = "none" /\ c.current < MaxAttempts[r] /\ c.current + 1 \in Attempts
      BY <1>1, <2>1, <2>2, WorkflowAssumption DEF Control
    <2>4. E2 = [[E EXCEPT ![c.current] = X] EXCEPT ![c.current + 1] = Q]
      BY <1>7 DEF retried_executions, X, Q
    <2>5. /\ E2 \in [Attempts -> Execution]
          /\ E2[c.current] = X
          /\ E2[c.current + 1] = Q
          /\ \A n \in Attempts : n # c.current /\ n # c.current + 1 => E2[n] = E[n]
      <3> DEFINE E1 == [E EXCEPT ![c.current] = X]
      <3>1. /\ E1 \in [Attempts -> Execution] /\ E1[c.current] = X
            /\ \A n \in Attempts : n # c.current => E1[n] = E[n]
        BY <1>1, <1>3
      <3>2. c.current # c.current + 1
        BY <1>1
      <3>3. E2 = [E1 EXCEPT ![c.current + 1] = Q]
        BY <2>4
      <3> HIDE DEF E1
      <3> QED
        BY <1>1, <1>4, <2>3, <3>1, <3>2, <3>3
    <2>6. E[c.current + 1].state = "none"
      BY <1>1, <1>5, <2>3 DEF AttemptRows
    <2>7. AttemptRows(r, c2, E2)
      BY <1>1, <1>3, <1>5, <1>4, <2>3, <2>5 DEF AttemptRows
    <2>8. TimerRows(E2)
      BY <1>1, <1>3, <1>5, <1>4, <2>3, <2>5 DEF TimerRows
    <2>9. LeaseRows(c2, E2, issued[r])
      BY <1>1, <1>3, <1>5, <1>4, <2>3, <2>5, <2>6 DEF LeaseRows, Lease
    <2> QED
      BY <1>1, <1>2, <2>3, <2>5, <2>7, <2>8, <2>9 DEF RequestOK, RowTypes, BlankRows, StageRows,
         SuccessRows
  <1> QED
    BY <1>6, <1>7

-----------------------------------------------------------------------------
\* The tables after a step that replaces the rows of request r by the given ones.
Replaces(r, c, E, S, I) ==
    /\ request_state' = [request_state EXCEPT ![r] = c]
    /\ executions' = [executions EXCEPT ![r] = E]
    /\ stage_attempts' = [stage_attempts EXCEPT ![r] = S]
    /\ issued' = [issued EXCEPT ![r] = I]

\* Such a step keeps the invariant if the new rows are good.
LEMMA OneRequest ==
  \A r \in Requests : \A c, E, S, I :
     IndInv /\ RequestOK(r, c, E, S, I) /\ Replaces(r, c, E, S, I) => IndInv'
  <1> SUFFICES ASSUME NEW r \in Requests, NEW c, NEW E, NEW S, NEW I,
                      IndInv, RequestOK(r, c, E, S, I), Replaces(r, c, E, S, I)
               PROVE  IndInv'
    OBVIOUS
  <1>1. c \in Control /\ E \in [Attempts -> Execution] /\ S \in SUBSET StageAttempt
        /\ I \in SUBSET Lease
    BY DEF RequestOK, RowTypes
  <1>2. TypeOK'
    BY <1>1 DEF IndInv, TypeOK, Replaces
  <1>3. ASSUME NEW q \in Requests PROVE RowsOK(q)'
    <2>1. CASE q = r
      <3>1. request_state'[q] = c /\ executions'[q] = E /\ stage_attempts'[q] = S /\ issued'[q] = I
        BY <2>1 DEF IndInv, TypeOK, Replaces
      <3> QED
        BY <2>1, <3>1 DEF RowsOK
    <2>2. CASE q # r
      <3>1. request_state'[q] = request_state[q] /\ executions'[q] = executions[q]
            /\ stage_attempts'[q] = stage_attempts[q] /\ issued'[q] = issued[q]
        BY <2>2 DEF IndInv, TypeOK, Replaces
      <3> QED
        BY <3>1 DEF RowsOK, IndInv
    <2> QED
      BY <2>1, <2>2
  <1> QED
    BY <1>2, <1>3 DEF IndInv

\* A table a step leaves alone, written as an update.
LEMMA Untouched ==
  ASSUME TypeOK, NEW r \in Requests
  PROVE  /\ request_state = [request_state EXCEPT ![r] = request_state[r]]
         /\ executions = [executions EXCEPT ![r] = executions[r]]
         /\ stage_attempts = [stage_attempts EXCEPT ![r] = stage_attempts[r]]
         /\ issued = [issued EXCEPT ![r] = issued[r]]
  BY DEF TypeOK

\* What the fence establishes about the request of an accepted lease.
LEMMA Fence ==
  ASSUME TypeOK, NEW r \in Requests, RowsOK(r), NEW l \in issued[r], workflow_locked_lease(r, l)
  PROVE  /\ open(r) /\ request_state[r].current = l.execution /\ l.execution \in Attempts
         /\ current_execution(r) = executions[r][l.execution]
         /\ executions[r][l.execution] \in Execution
         /\ current_execution(r).state = "running"
  BY DEF workflow_locked_lease, current_execution, RowsOK, RequestOK, RowTypes, Lease, TypeOK

LEMMA EnqueueOK ==
  ASSUME IndInv, NEW r \in Requests, workflow_enqueue(r)
  PROVE  IndInv'
  <1> DEFINE c == [current |-> 1, epoch |-> 1, outcome |-> "none"]
             Q == queued_execution(0)
             E == [executions[r] EXCEPT ![1] = Q]
  <1>1. TypeOK /\ RowsOK(r) /\ request_state[r].current = 0
    BY DEF IndInv, workflow_enqueue, already_enqueued, enqueued
  <1>2. 1 \in Attempts /\ MaxAttempts[r] \in Attempts /\ executions[r] \in [Attempts -> Execution]
    BY <1>1, WorkflowAssumption DEF TypeOK
  <1>3. Q \in Execution /\ Q.state = "queued" /\ Q.lease_left = 0
        /\ Q.cancellation_requested_at = "null"
    BY QueuedRow
  <1> HIDE DEF Q
  <1>4. E \in [Attempts -> Execution] /\ E[1] = Q
        /\ \A n \in Attempts : n # 1 => E[n] = executions[r][n]
    BY <1>2, <1>3
  <1>5. /\ \A n \in Attempts : executions[r][n].state = "none"
        /\ stage_attempts[r] = {} /\ issued[r] = {}
    BY <1>1 DEF RowsOK, RequestOK, BlankRows
  <1>6. c \in Control /\ c.current = 1 /\ c.epoch = 1 /\ c.outcome = "none"
    BY <1>2, WorkflowAssumption DEF Control
  <1> HIDE DEF c, E
  <1>7. TimerRows(E)
    BY <1>1, <1>3, <1>4 DEF TimerRows, RowsOK, RequestOK
  <1>8. AttemptRows(r, c, E)
    BY <1>2, <1>3, <1>4, <1>5, <1>6, WorkflowAssumption DEF AttemptRows
  <1>9. RequestOK(r, c, E, stage_attempts[r], issued[r])
    BY <1>3, <1>4, <1>5, <1>6, <1>7, <1>8, <1>2
       DEF RequestOK, RowTypes, BlankRows, LeaseRows, StageRows, SuccessRows
  <1>10. Replaces(r, c, E, stage_attempts[r], issued[r])
    BY <1>1, Untouched DEF workflow_enqueue, c, E, Q, Replaces
  <1> QED
    BY <1>9, <1>10, OneRequest

LEMMA CloseRetryOK ==
  ASSUME IndInv, NEW r \in Requests, open(r), current_execution(r).state = "running",
         NEW delay \in Nat, workflow_close_retry(r, delay)
  PROVE  IndInv'
  <1>1. TypeOK /\ RowsOK(r)
    BY DEF IndInv
  <1>2. RequestOK(r, retried_control(r), retried_executions(r, delay),
                  ended_stages(r, "failed"), issued[r])
    BY <1>1, RetriedOK
  <1>3. Replaces(r, retried_control(r), retried_executions(r, delay),
                 ended_stages(r, "failed"), issued[r])
    BY <1>1, Untouched DEF workflow_close_retry, Replaces
  <1> QED
    BY <1>2, <1>3, OneRequest

\* Executions whose timers moved within what their states allow, and that
\* did not change otherwise.
LEMMA TimersMoved ==
  ASSUME NEW r \in Requests, RowsOK(r), NEW E2 \in [Attempts -> Execution],
         \A n \in Attempts :
            /\ E2[n].state = executions[r][n].state
            /\ E2[n].lease_owner = executions[r][n].lease_owner
            /\ E2[n].fencing_token = executions[r][n].fencing_token
            /\ E2[n].cancellation_requested_at = executions[r][n].cancellation_requested_at
            /\ E2[n].state # "running" => E2[n].lease_left = 0
            /\ E2[n].state # "queued" => E2[n].wait = 0
  PROVE  RequestOK(r, request_state[r], E2, stage_attempts[r], issued[r])
  <1> DEFINE c == request_state[r]
             E == executions[r]
  <1>1. /\ RowTypes(c, E, stage_attempts[r], issued[r])
        /\ BlankRows(c, E, stage_attempts[r], issued[r])
        /\ AttemptRows(r, c, E) /\ TimerRows(E) /\ LeaseRows(c, E, issued[r])
        /\ StageRows(c, E, stage_attempts[r]) /\ SuccessRows(r, c, stage_attempts[r])
    BY DEF RowsOK, RequestOK
  <1>2. c.current # 0 => c.current \in Attempts
    BY <1>1 DEF RowTypes, Control
  <1>3. RowTypes(c, E2, stage_attempts[r], issued[r])
    BY <1>1 DEF RowTypes
  <1>4. BlankRows(c, E2, stage_attempts[r], issued[r])
    BY <1>1 DEF BlankRows
  <1>5. AttemptRows(r, c, E2)
    BY <1>1, <1>2 DEF AttemptRows
  <1>6. TimerRows(E2)
    BY <1>1 DEF TimerRows
  <1>7. LeaseRows(c, E2, issued[r])
    BY <1>1, <1>2 DEF LeaseRows, RowTypes, Lease, HeldLease
  <1>8. StageRows(c, E2, stage_attempts[r])
    BY <1>1, <1>2 DEF StageRows
  <1> QED
    BY <1>1, <1>3, <1>4, <1>5, <1>6, <1>7, <1>8 DEF RequestOK

\* The row of an execution whose lease is renewed.
LEMMA RenewedRow ==
  ASSUME NEW e \in Execution, NEW seconds \in Nat, e.renewals < MaxRenewals
  PROVE  LET X == renewed_execution(e, seconds)
         IN  /\ X \in Execution /\ X.state = e.state /\ X.wait = e.wait
             /\ X.lease_owner = e.lease_owner /\ X.fencing_token = e.fencing_token
             /\ X.cancellation_requested_at = e.cancellation_requested_at
  <1> DEFINE k == e.renewals + 1
  <1>1. k \in 0..MaxRenewals
    BY WorkflowAssumption DEF Execution
  <1> HIDE DEF k
  <1>2. LET X == [e EXCEPT !.lease_left = seconds, !.renewals = k]
        IN  /\ X \in Execution /\ X.state = e.state /\ X.wait = e.wait
            /\ X.lease_owner = e.lease_owner /\ X.fencing_token = e.fencing_token
            /\ X.cancellation_requested_at = e.cancellation_requested_at
    BY <1>1 DEF Execution
  <1> QED
    BY <1>2 DEF k, renewed_execution

LEMMA RenewOK ==
  ASSUME IndInv, NEW r \in Requests, NEW l \in issued[r], NEW seconds \in LeaseTimes,
         workflow_renew(r, l, seconds)
  PROVE  IndInv'
  <1> DEFINE n == l.execution
             e == executions[r][n]
             X == renewed_execution(e, seconds)
             E2 == [executions[r] EXCEPT ![n] = X]
  <1>1. TypeOK /\ RowsOK(r) /\ executions[r] \in [Attempts -> Execution]
    BY DEF IndInv, TypeOK
  <1>2. n \in Attempts /\ e \in Execution /\ e.state = "running" /\ e.renewals < MaxRenewals
    BY <1>1, Fence DEF workflow_renew
  <1>3. seconds \in Nat
    BY WorkflowAssumption
  <1>4. X \in Execution /\ X.state = "running" /\ X.wait = e.wait
        /\ X.lease_owner = e.lease_owner /\ X.fencing_token = e.fencing_token
        /\ X.cancellation_requested_at = e.cancellation_requested_at
    <2> HIDE DEF e
    <2> QED
      BY <1>2, <1>3, RenewedRow
  <1> HIDE DEF X
  <1>5. E2 \in [Attempts -> Execution] /\ E2[n] = X
        /\ \A k \in Attempts : k # n => E2[k] = executions[r][k]
    BY <1>1, <1>2, <1>4
  <1>6. TimerRows(executions[r])
    BY <1>1 DEF RowsOK, RequestOK
  <1>7. RequestOK(r, request_state[r], E2, stage_attempts[r], issued[r])
    <2> HIDE DEF E2
    <2>1. \A k \in Attempts :
            /\ E2[k].state = executions[r][k].state
            /\ E2[k].lease_owner = executions[r][k].lease_owner
            /\ E2[k].fencing_token = executions[r][k].fencing_token
            /\ E2[k].cancellation_requested_at = executions[r][k].cancellation_requested_at
            /\ E2[k].state # "running" => E2[k].lease_left = 0
            /\ E2[k].state # "queued" => E2[k].wait = 0
      BY <1>2, <1>4, <1>5, <1>6 DEF TimerRows
    <2> QED
      BY <1>1, <1>5, <2>1, TimersMoved
  <1>8. Replaces(r, request_state[r], E2, stage_attempts[r], issued[r])
    <2>1. executions' = [executions EXCEPT ![r] = E2]
      BY DEF workflow_renew, X
    <2> QED
      BY <1>1, <2>1, Untouched DEF workflow_renew, Replaces
  <1> QED
    BY <1>7, <1>8, OneRequest

\* Time may pass.
LEMMA TickOK ==
  ASSUME IndInv, Tick
  PROVE  IndInv'
  <1> DEFINE E2(r) == [n \in Attempts |-> aged_execution(executions[r][n])]
  <1>1. TypeOK
    BY DEF IndInv
  <1>2. \A t \in Nat : less(t) \in Nat /\ (t = 0 => less(t) = 0)
    BY DEF less
  <1>3. ASSUME NEW e \in Execution
        PROVE  /\ aged_execution(e) \in Execution /\ aged_execution(e).state = e.state
               /\ aged_execution(e).lease_owner = e.lease_owner
               /\ aged_execution(e).fencing_token = e.fencing_token
               /\ aged_execution(e).cancellation_requested_at = e.cancellation_requested_at
               /\ e.lease_left = 0 => aged_execution(e).lease_left = 0
               /\ e.wait = 0 => aged_execution(e).wait = 0
    <2>1. e.lease_left \in Nat /\ e.wait \in Nat
      BY DEF Execution
    <2>2. less(e.lease_left) \in Nat /\ less(e.wait) \in Nat
      BY <1>2, <2>1
    <2> QED
      BY <1>2, <2>1, <2>2 DEF Execution, aged_execution
  <1>4. ASSUME NEW r \in Requests
        PROVE  /\ E2(r) \in [Attempts -> Execution]
               /\ RequestOK(r, request_state[r], E2(r), stage_attempts[r], issued[r])
    <2>1. RowsOK(r) /\ TimerRows(executions[r]) /\ executions[r] \in [Attempts -> Execution]
      BY <1>1 DEF IndInv, RowsOK, RequestOK, TypeOK
    <2>2. E2(r) \in [Attempts -> Execution]
          /\ \A n \in Attempts : E2(r)[n] = aged_execution(executions[r][n]) /\ executions[r][n] \in Execution
      BY <1>3, <2>1
    <2> HIDE DEF E2
    <2>3. \A n \in Attempts :
            /\ E2(r)[n].state = executions[r][n].state
            /\ E2(r)[n].lease_owner = executions[r][n].lease_owner
            /\ E2(r)[n].fencing_token = executions[r][n].fencing_token
            /\ E2(r)[n].cancellation_requested_at = executions[r][n].cancellation_requested_at
            /\ E2(r)[n].state # "running" => E2(r)[n].lease_left = 0
            /\ E2(r)[n].state # "queued" => E2(r)[n].wait = 0
      BY <1>3, <2>1, <2>2 DEF TimerRows
    <2> QED
      BY <2>1, <2>2, <2>3, TimersMoved
  <1>5. /\ executions' = [r \in Requests |-> E2(r)]
        /\ UNCHANGED <<request_state, stage_attempts, issued>>
    BY DEF Tick
  <1> HIDE DEF E2
  <1>6. TypeOK'
    BY <1>1, <1>4, <1>5 DEF TypeOK
  <1>7. \A r \in Requests : RowsOK(r)'
    BY <1>4, <1>5 DEF RowsOK
  <1> QED
    BY <1>6, <1>7 DEF IndInv

\* Stage rows of an open, running request that may change in any way that
\* leaves running ones only in its current execution.
LEMMA StagesMoved ==
  ASSUME NEW r \in Requests, RowsOK(r), open(r), current_execution(r).state = "running",
         NEW S2 \in SUBSET StageAttempt,
         \A s \in S2 : s.state = "running" => s.execution = request_state[r].current
  PROVE  RequestOK(r, request_state[r], executions[r], S2, issued[r])
  BY DEF RowsOK, RequestOK, RowTypes, BlankRows, StageRows, SuccessRows, open, enqueued,
     current_execution

LEMMA StartStageOK ==
  ASSUME IndInv, NEW r \in Requests, NEW l \in issued[r], NEW key \in StageKeys,
         workflow_start_stage(r, l, key)
  PROVE  IndInv'
  <1>1. TypeOK /\ RowsOK(r) /\ workflow_locked_lease(r, l)
    BY DEF IndInv, workflow_start_stage
  <1>2. open(r) /\ current_execution(r).state = "running"
        /\ request_state[r].current = l.execution /\ l.execution \in Attempts
    BY <1>1, Fence
  <1>3. PICK no \in 1..MaxStageAttempts :
          stage_attempts' = [stage_attempts EXCEPT ![r] = stage_attempts[r] \cup
             {[execution |-> l.execution, stage_key |-> key, attempt_no |-> no,
               state |-> "running", result |-> "none"]}]
    BY DEF workflow_start_stage
  <1> DEFINE s == [execution |-> l.execution, stage_key |-> key, attempt_no |-> no,
                   state |-> "running", result |-> "none"]
             S2 == stage_attempts[r] \cup {s}
  <1>4. s \in StageAttempt /\ s.execution = request_state[r].current
    BY <1>2 DEF StageAttempt
  <1>5. S2 \in SUBSET StageAttempt
        /\ \A t \in S2 : t.state = "running" => t.execution = request_state[r].current
    <2> HIDE DEF s
    <2> QED
      BY <1>1, <1>4 DEF RowsOK, RequestOK, RowTypes, StageRows
  <1>6. RequestOK(r, request_state[r], executions[r], S2, issued[r])
    <2> HIDE DEF S2
    <2> QED
      BY <1>1, <1>2, <1>5, StagesMoved
  <1>7. Replaces(r, request_state[r], executions[r], S2, issued[r])
    BY <1>1, <1>3, Untouched DEF workflow_start_stage, Replaces
  <1> QED
    BY <1>6, <1>7, OneRequest

\* The three ways a stage finishes have the same shape.
LEMMA StageFinishedOK ==
  ASSUME IndInv, NEW r \in Requests, NEW l \in issued[r], workflow_locked_lease(r, l),
         NEW s \in stage_attempts[r], NEW outcome \in StageOutcomes, NEW result \in Results,
         finished_stage(r, s, outcome, result),
         UNCHANGED <<request_state, executions, issued>>
  PROVE  IndInv'
  <1> DEFINE t == [s EXCEPT !.state = outcome, !.result = result]
             S2 == (stage_attempts[r] \ {s}) \cup {t}
  <1>1. TypeOK /\ RowsOK(r) /\ s \in StageAttempt
    BY DEF IndInv, TypeOK
  <1>2. open(r) /\ current_execution(r).state = "running"
    BY <1>1, Fence
  <1>3. t \in StageAttempt /\ t.state # "running"
    BY <1>1 DEF StageAttempt
  <1>4. S2 \in SUBSET StageAttempt
        /\ \A u \in S2 : u.state = "running" => u.execution = request_state[r].current
    <2> HIDE DEF t
    <2> QED
      BY <1>1, <1>3 DEF RowsOK, RequestOK, RowTypes, StageRows
  <1>5. RequestOK(r, request_state[r], executions[r], S2, issued[r])
    <2> HIDE DEF S2
    <2> QED
      BY <1>1, <1>2, <1>4, StagesMoved
  <1>6. Replaces(r, request_state[r], executions[r], S2, issued[r])
    BY <1>1, Untouched DEF finished_stage, Replaces
  <1> QED
    BY <1>5, <1>6, OneRequest

\* The rows of a request that ends, by workflow_finish or workflow_cancel.
LEMMA EndedOK ==
  ASSUME NEW r \in Requests, RowsOK(r), open(r), NEW outcome \in Outcomes,
         NEW X \in Execution, X.state = outcome, X.lease_left = 0, X.wait = 0,
         outcome # "cancelled" => X.cancellation_requested_at = "null",
         NEW c2 \in Control, c2.current = request_state[r].current, c2.outcome = outcome,
         outcome = "failed" => c2.epoch = request_state[r].epoch,
         NEW S2 \in SUBSET StageAttempt, \A s \in S2 : s.state # "running",
         SuccessRows(r, c2, S2)
  PROVE  RequestOK(r, c2, [executions[r] EXCEPT ![request_state[r].current] = X], S2, issued[r])
  <1> DEFINE c == request_state[r]
             E == executions[r]
             E2 == [E EXCEPT ![c.current] = X]
  <1>1. /\ E \in [Attempts -> Execution] /\ c.current \in Attempts /\ c.outcome = "none"
        /\ c.epoch = c.current /\ issued[r] \in SUBSET Lease
        /\ AttemptRows(r, c, E) /\ TimerRows(E) /\ LeaseRows(c, E, issued[r])
    BY DEF RowsOK, RequestOK, RowTypes, AttemptRows, Control, open, enqueued
  <1>2. E2 \in [Attempts -> Execution] /\ E2[c.current] = X
        /\ \A n \in Attempts : n # c.current => E2[n] = E[n]
    BY <1>1
  <1> HIDE DEF E2
  <1>3. AttemptRows(r, c2, E2)
    BY <1>1, <1>2 DEF AttemptRows, open, enqueued
  <1>4. TimerRows(E2)
    BY <1>1, <1>2 DEF TimerRows
  <1>5. LeaseRows(c2, E2, issued[r])
    BY <1>1, <1>2 DEF LeaseRows, Lease
  <1>6. RequestOK(r, c2, E2, S2, issued[r])
    BY <1>1, <1>2, <1>3, <1>4, <1>5 DEF RequestOK, RowTypes, BlankRows, StageRows
  <1> QED
    BY <1>6 DEF E2

LEMMA FinishOK ==
  ASSUME IndInv, NEW r \in Requests, NEW l \in issued[r], NEW outcome \in Outcomes \ {"cancelled"},
         NEW has_reason, workflow_finish(r, l, outcome, has_reason)
  PROVE  IndInv'
  <1> DEFINE c == request_state[r]
             n == c.current
             S == stage_attempts[r]
             X == ended_execution(executions[r][n], outcome)
             c2 == [c EXCEPT !.outcome = outcome]
             E2 == [executions[r] EXCEPT ![n] = X]
  <1>1. TypeOK /\ RowsOK(r) /\ workflow_locked_lease(r, l) /\ finishable(r, l.execution, outcome)
        /\ (outcome \in {"completed", "completed_with_gaps"} =>
               execution_success_guard(r, l.execution, outcome, has_reason))
    BY DEF IndInv, workflow_finish
  <1>2. open(r) /\ n = l.execution /\ n \in Attempts
        /\ executions[r][n] \in Execution /\ executions[r][n].state = "running"
        /\ current_execution(r) = executions[r][n]
    BY <1>1, Fence
  <1>3. c \in Control /\ S \in SUBSET StageAttempt /\ Trigger[r] \in Triggers
    BY <1>1, WorkflowAssumption DEF TypeOK
  <1>4. /\ X \in Execution /\ X.state = outcome /\ X.lease_left = 0 /\ X.wait = 0
        /\ X.cancellation_requested_at = executions[r][n].cancellation_requested_at
    BY <1>2, EndedRow
  <1>5. X.cancellation_requested_at = "null"
    BY <1>1, <1>2, <1>4 DEF workflow_locked_lease
  <1>6. c2 \in Control /\ c2.current = n /\ c2.outcome = outcome /\ c2.epoch = c.epoch
    BY <1>3 DEF Control
  <1> HIDE DEF X, c2
  <1>7. \A s \in S : s.state # "running"
    BY <1>1, <1>2 DEF finishable, RowsOK, RequestOK, StageRows
  <1>8. SuccessRows(r, c2, S)
    <2>1. outcome = "completed" => \A s \in S : s.execution = n => s.state = "completed"
      BY <1>1, <1>2 DEF finishable
    <2>2. ASSUME outcome \in {"completed", "completed_with_gaps"}, Trigger[r] # "analysis"
          PROVE  \E s \in S : Backing(r, n, outcome, s)
      <3>1. Trigger[r] \in {"source_bootstrap", "sec_filing_monitor"}
        BY <1>3, <2>2 DEF Triggers
      <3> DEFINE results == {s.result : s \in {t \in S :
                              /\ t.execution = n /\ t.stage_key = result_stage(r)
                              /\ t.state = "completed"}}
      <3>2. /\ Trigger[r] = "source_bootstrap" => "typed" \in results
            /\ Trigger[r] = "sec_filing_monitor" =>
                  IF outcome = "completed" THEN "eligible" \in results ELSE "incomplete" \in results
        BY <1>1, <1>2, <2>2 DEF execution_success_guard
      <3> QED
        BY <3>1, <3>2 DEF Backing
    <2> QED
      <3> HIDE DEF S, n
      <3>1. c2.outcome = outcome /\ c2.current = n
        BY <1>6
      <3>2. c2.outcome = "completed" => \A s \in S : s.execution = c2.current => s.state = "completed"
        BY <2>1, <3>1
      <3>3. c2.outcome \in {"completed", "completed_with_gaps"} /\ Trigger[r] # "analysis" =>
               \E s \in S : Backing(r, c2.current, c2.outcome, s)
        BY <2>2, <3>1
      <3> QED
        BY <3>2, <3>3 DEF SuccessRows
  <1>9. RequestOK(r, c2, E2, S, issued[r])
    BY <1>1, <1>2, <1>3, <1>4, <1>5, <1>6, <1>7, <1>8, EndedOK
  <1>10. Replaces(r, c2, E2, S, issued[r])
    BY <1>1, <1>2, Untouched DEF workflow_finish, Replaces, X, c2
  <1> QED
    BY <1>9, <1>10, OneRequest

LEMMA CancelOK ==
  ASSUME IndInv, NEW r \in Requests, workflow_cancel(r)
  PROVE  IndInv'
  <1> DEFINE c == request_state[r]
             n == c.current
             Y == ended_execution(executions[r][n], "cancelled")
             X == [Y EXCEPT !.cancellation_requested_at = "set"]
             c2 == [current |-> n, epoch |-> c.epoch + 1, outcome |-> "cancelled"]
             E2 == [executions[r] EXCEPT ![n] = X]
             S2 == ended_stages(r, "cancelled")
  <1>1. TypeOK /\ RowsOK(r) /\ open(r)
    BY DEF IndInv, workflow_cancel, cancellable
  <1>2. c \in Control /\ n \in Attempts /\ executions[r][n] \in Execution
    <2>1. c \in Control /\ c.current # 0 /\ executions[r] \in [Attempts -> Execution]
      BY <1>1 DEF TypeOK, open, enqueued
    <2>2. c.current \in Attempts
      BY <2>1 DEF Control
    <2> QED
      BY <2>1, <2>2
  <1>3. Y \in Execution /\ Y.state = "cancelled" /\ Y.lease_left = 0 /\ Y.wait = 0
    BY <1>2, EndedRow
  <1> HIDE DEF Y
  <1>4. X \in Execution /\ X.state = "cancelled" /\ X.lease_left = 0 /\ X.wait = 0
    BY <1>3 DEF Execution
  <1>5. c2 \in Control /\ c2.current = n /\ c2.outcome = "cancelled"
    BY <1>2 DEF Control
  <1>6. S2 \in SUBSET StageAttempt /\ \A s \in S2 : s.state # "running"
    BY <1>1, EndedStages
  <1> HIDE DEF X, c2, S2
  <1>7. SuccessRows(r, c2, S2)
    BY <1>5 DEF SuccessRows
  <1>8. RequestOK(r, c2, E2, S2, issued[r])
    BY <1>1, <1>4, <1>5, <1>6, <1>7, EndedOK
  <1>9. Replaces(r, c2, E2, S2, issued[r])
    BY <1>1, Untouched DEF workflow_cancel, Replaces, X, Y, c2, S2
  <1> QED
    BY <1>8, <1>9, OneRequest

\* The rows of a due request, once an expired lease on it has been closed.
LEMMA ReclaimedOK ==
  ASSUME NEW r \in Requests, RowsOK(r), due(r)
  PROVE  /\ RequestOK(r, reclaimed_control(r), reclaimed_executions(r), reclaimed_stages(r),
                      issued[r])
         /\ ~closed_and_passed(r) =>
               /\ reclaimed_control(r).current # 0 /\ reclaimed_control(r).outcome = "none"
               /\ reclaimed_executions(r)[reclaimed_control(r).current].state = "queued"
               /\ reclaimed_executions(r)[reclaimed_control(r).current].wait = 0
  <1>1. CASE lease_expired(r)
    <2>1. open(r) /\ current_execution(r).state = "running"
      BY <1>1 DEF lease_expired
    <2>2. request_state[r].current \in Attempts /\ request_state[r] \in Control
          /\ request_state[r].outcome = "none"
      BY <2>1 DEF open, enqueued, RowsOK, RequestOK, RowTypes, Control
    <2>3. reclaim_delay(r) \in Nat
      BY <2>2, WorkflowAssumption DEF reclaim_delay
    <2>4. RequestOK(r, retried_control(r), retried_executions(r, reclaim_delay(r)),
                    ended_stages(r, "failed"), issued[r])
      BY <2>1, <2>3, RetriedOK
    <2>5. ASSUME ~closed_and_passed(r)
          PROVE  /\ retried_control(r).current # 0 /\ retried_control(r).outcome = "none"
                 /\ retried_executions(r, reclaim_delay(r))[retried_control(r).current].state = "queued"
                 /\ retried_executions(r, reclaim_delay(r))[retried_control(r).current].wait = 0
      <3> DEFINE n == request_state[r].current
                 E1 == [executions[r] EXCEPT ![n] = ended_execution(executions[r][n], "failed")]
                 Q == queued_execution(reclaim_delay(r))
      <3>1. ~attempts_exhausted(r)
        BY <1>1, <2>5 DEF closed_and_passed
      <3>2. retried_control(r) = [current |-> n + 1, epoch |-> request_state[r].epoch + 1,
                                  outcome |-> "none"]
        BY <2>2, <3>1 DEF retried_control
      <3>3. retried_executions(r, reclaim_delay(r)) = [E1 EXCEPT ![n + 1] = Q]
        BY <3>1 DEF retried_executions
      <3>4. n + 1 \in Attempts /\ n + 1 # 0
        BY <2>2, <3>1, WorkflowAssumption DEF attempts_exhausted
      <3>5. DOMAIN E1 = Attempts
        BY DEF RowsOK, RequestOK, RowTypes
      <3>6. Q.state = "queued" /\ Q.wait = 0
        <4>1. reclaim_delay(r) = 0
          BY <1>1, <2>5 DEF closed_and_passed, reclaim_delay
        <4> QED
          BY <2>3, <4>1, QueuedRow
      <3> HIDE DEF E1, Q
      <3>7. [E1 EXCEPT ![n + 1] = Q][n + 1] = Q
        BY <3>4, <3>5
      <3> QED
        BY <3>2, <3>3, <3>4, <3>6, <3>7
    <2> QED
      BY <1>1, <2>4, <2>5 DEF reclaimed_control, reclaimed_executions, reclaimed_stages
  <1>2. CASE ~lease_expired(r)
    <2>1. /\ reclaimed_control(r) = request_state[r]
          /\ reclaimed_executions(r) = executions[r]
          /\ reclaimed_stages(r) = stage_attempts[r]
      BY <1>2 DEF reclaimed_control, reclaimed_executions, reclaimed_stages
    <2> QED
      BY <1>2, <2>1 DEF RowsOK, due, open, enqueued, current_execution
  <1> QED
    BY <1>1, <1>2

\* The row of an execution that a worker claims.
LEMMA LeasedRow ==
  ASSUME NEW e \in Execution, NEW worker \in Workers, NEW seconds \in Nat
  PROVE  LET X == leased_execution(e, worker, seconds)
         IN  /\ X \in Execution /\ X.state = "running" /\ X.wait = e.wait
             /\ X.lease_owner = worker /\ X.fencing_token = e.fencing_token + 1
             /\ X.cancellation_requested_at = e.cancellation_requested_at
             /\ e.fencing_token + 1 \in Nat
  <1> DEFINE k == e.fencing_token + 1
  <1>1. k \in Nat
    BY DEF Execution
  <1> HIDE DEF k
  <1>2. LET X == [e EXCEPT !.state = "running", !.lease_owner = worker, !.lease_left = seconds,
                          !.fencing_token = k]
        IN  /\ X \in Execution /\ X.state = "running" /\ X.wait = e.wait
            /\ X.lease_owner = worker /\ X.fencing_token = k
            /\ X.cancellation_requested_at = e.cancellation_requested_at
    BY <1>1 DEF Execution
  <1> QED
    BY <1>1, <1>2 DEF k, leased_execution

\* The rows of a due request that a worker claims.
LEMMA LeasedOK ==
  ASSUME NEW r \in Requests, RowsOK(r), due(r), ~closed_and_passed(r),
         NEW worker \in Workers, NEW seconds \in LeaseTimes
  PROVE  RequestOK(r, reclaimed_control(r), leased_executions(r, worker, seconds),
                   reclaimed_stages(r), issued[r] \cup {workflow_lease_result(r, worker)})
  <1> DEFINE c == reclaimed_control(r)
             E == reclaimed_executions(r)
             S == reclaimed_stages(r)
             n == c.current
             X == leased_execution(E[n], worker, seconds)
             E2 == leased_executions(r, worker, seconds)
             held == workflow_lease_result(r, worker)
             I2 == issued[r] \cup {held}
  <1>1. /\ RowTypes(c, E, S, issued[r]) /\ AttemptRows(r, c, E) /\ TimerRows(E)
        /\ LeaseRows(c, E, issued[r]) /\ StageRows(c, E, S)
        /\ n # 0 /\ c.outcome = "none" /\ E[n].state = "queued" /\ E[n].wait = 0
    BY ReclaimedOK DEF RequestOK
  <1> HIDE DEF c, E, S
  <1>2. c \in Control /\ E \in [Attempts -> Execution] /\ n \in Attempts /\ E[n] \in Execution
        /\ seconds \in Nat
    BY <1>1, WorkflowAssumption DEF RowTypes, Control
  <1>3. /\ X \in Execution /\ X.state = "running" /\ X.wait = 0 /\ X.lease_owner = worker
        /\ X.fencing_token = E[n].fencing_token + 1 /\ E[n].fencing_token + 1 \in Nat
        /\ X.cancellation_requested_at = E[n].cancellation_requested_at
    BY SMTT(40), <1>1, <1>2, LeasedRow
  <1>4. E2 = [E EXCEPT ![n] = X]
    BY DEF leased_executions, c, E
  <1> HIDE DEF X, E2
  <1>5. E2 \in [Attempts -> Execution] /\ E2[n] = X
        /\ \A k \in Attempts : k # n => E2[k] = E[k]
    BY <1>2, <1>3, <1>4
  <1>6. held = [execution |-> n, epoch |-> c.epoch, worker_id |-> worker,
                fencing_token |-> E[n].fencing_token + 1]
    BY DEF workflow_lease_result, c, E
  <1>7. held \in Lease /\ held.execution = n
    <2>1. c.epoch \in Nat
      BY <1>2 DEF Control
    <2> QED
      BY <1>2, <1>3, <1>6, <2>1 DEF Lease
  <1>8. held = HeldLease(c, E2[n])
    BY <1>3, <1>5, <1>6 DEF HeldLease
  <1> HIDE DEF held
  <1>9. AttemptRows(r, c, E2)
    BY <1>1, <1>2, <1>3, <1>5 DEF AttemptRows
  <1>10. TimerRows(E2)
    BY <1>1, <1>2, <1>3, <1>5 DEF TimerRows
  <1>11. LeaseRows(c, E2, I2)
    <2>1. ASSUME NEW l \in I2 PROVE E2[l.execution].state \notin {"none", "queued"}
      <3>1. CASE l = held
        BY <1>3, <1>5, <1>7, <3>1
      <3>2. CASE l \in issued[r]
        <4>1. l.execution \in Attempts /\ E[l.execution].state \notin {"none", "queued"}
          BY <1>1, <3>2 DEF LeaseRows, RowTypes, Lease
        <4> QED
          BY <1>1, <1>5, <4>1
      <3> QED
        BY <3>1, <3>2
    <2>2. HeldLease(c, E2[n]) \in I2
      BY <1>8
    <2> QED
      BY <2>1, <2>2 DEF LeaseRows
  <1>12. StageRows(c, E2, S)
    BY <1>1, <1>3, <1>5 DEF StageRows
  <1>13. RowTypes(c, E2, S, I2)
    BY <1>1, <1>5, <1>7 DEF RowTypes
  <1>14. RequestOK(r, c, E2, S, I2)
    BY <1>1, <1>9, <1>10, <1>11, <1>12, <1>13 DEF RequestOK, BlankRows, SuccessRows
  <1> QED
    BY <1>14 DEF c, E2, S, held

\* A claim passes over some due requests and takes at most one.
LEMMA ClaimEffectOK ==
  ASSUME IndInv, NEW worker \in Workers, NEW seconds \in LeaseTimes, NEW passed, NEW taken,
         \A r \in passed : due(r),
         \A r \in taken : due(r) /\ ~closed_and_passed(r),
         claim_effect(worker, seconds, passed, taken)
  PROVE  IndInv'
  <1>1. ASSUME NEW r \in Requests
        PROVE  RequestOK(r, request_state'[r], executions'[r], stage_attempts'[r], issued'[r])
    <2>1. RowsOK(r)
      BY DEF IndInv
    <2>2. CASE r \in taken
      <3>1. /\ request_state'[r] = reclaimed_control(r)
            /\ executions'[r] = leased_executions(r, worker, seconds)
            /\ stage_attempts'[r] = reclaimed_stages(r)
            /\ issued'[r] = issued[r] \cup {workflow_lease_result(r, worker)}
        BY <2>2 DEF claim_effect
      <3>2. due(r) /\ ~closed_and_passed(r)
        BY <2>2
      <3>3. RequestOK(r, reclaimed_control(r), leased_executions(r, worker, seconds),
                      reclaimed_stages(r), issued[r] \cup {workflow_lease_result(r, worker)})
        BY <2>1, <3>2, LeasedOK
      <3> QED
        BY <3>1, <3>3
    <2>3. CASE r \in passed /\ r \notin taken
      <3>1. /\ request_state'[r] = reclaimed_control(r)
            /\ executions'[r] = reclaimed_executions(r)
            /\ stage_attempts'[r] = reclaimed_stages(r)
            /\ issued'[r] = issued[r]
        BY <2>3 DEF claim_effect
      <3>2. RequestOK(r, reclaimed_control(r), reclaimed_executions(r), reclaimed_stages(r), issued[r])
        BY <2>1, <2>3, ReclaimedOK
      <3> QED
        BY <3>1, <3>2
    <2>4. CASE r \notin passed /\ r \notin taken
      <3>1. /\ request_state'[r] = request_state[r]
            /\ executions'[r] = executions[r]
            /\ stage_attempts'[r] = stage_attempts[r]
            /\ issued'[r] = issued[r]
        BY <2>4 DEF claim_effect
      <3> QED
        BY <2>1, <3>1 DEF RowsOK
    <2> QED
      BY <2>2, <2>3, <2>4
  <1>2. \A r \in Requests : /\ request_state'[r] \in Control
                            /\ executions'[r] \in [Attempts -> Execution]
                            /\ stage_attempts'[r] \in SUBSET StageAttempt
                            /\ issued'[r] \in SUBSET Lease
    BY <1>1 DEF RequestOK, RowTypes
  <1>3. /\ request_state' = [r \in Requests |-> request_state'[r]]
        /\ executions' = [r \in Requests |-> executions'[r]]
        /\ stage_attempts' = [r \in Requests |-> stage_attempts'[r]]
        /\ issued' = [r \in Requests |-> issued'[r]]
    BY DEF claim_effect
  <1>4. TypeOK'
    BY <1>2, <1>3 DEF TypeOK
  <1> QED
    BY <1>1, <1>4 DEF IndInv, RowsOK

LEMMA ClaimOK ==
  ASSUME IndInv, NEW worker \in Workers, NEW seconds \in LeaseTimes, Claim(worker, seconds)
  PROVE  IndInv'
  <1>1. PICK candidates \in SUBSET Requests : workflow_claim_kind(worker, seconds, candidates)
    BY DEF Claim, workflow_claim, workflow_claim_bootstrap, workflow_claim_monitor, triggered_by
  <1>2. PICK passed \in SUBSET {q \in candidates : closed_and_passed(q)},
             taken \in {{}} \cup {{q} : q \in {p \in candidates : claimable(p)}} :
                claim_effect(worker, seconds, passed, taken)
    BY <1>1 DEF workflow_claim_kind
  <1>3. \A q \in passed : due(q)
    BY <1>2 DEF closed_and_passed, due
  <1>4. \A q \in taken : due(q) /\ ~closed_and_passed(q)
    BY <1>2 DEF claimable
  <1> QED
    BY <1>2, <1>3, <1>4, ClaimEffectOK

\* The step of a worker that holds an accepted lease.
LEMMA WorkerStepOK ==
  ASSUME IndInv, NEW r \in Requests, NEW l \in issued[r], WorkerStep(r, l)
  PROVE  IndInv'
  <1>1. ASSUME NEW seconds \in LeaseTimes, workflow_renew(r, l, seconds) PROVE IndInv'
    BY <1>1, RenewOK
  <1>2. ASSUME NEW key \in StageKeys, workflow_start_stage(r, l, key) PROVE IndInv'
    BY <1>2, StartStageOK
  <1>3. ASSUME NEW s \in stage_attempts[r], NEW outcome \in StageOutcomes, NEW has_reason \in BOOLEAN,
               workflow_finish_stage(r, l, s, outcome, has_reason)
        PROVE  IndInv'
    BY <1>3, StageFinishedOK DEF workflow_finish_stage
  <1>4. ASSUME NEW s \in stage_attempts[r], workflow_complete_bootstrap_stage(r, l, s)
        PROVE  IndInv'
    BY <1>4, StageFinishedOK DEF workflow_complete_bootstrap_stage
  <1>5. ASSUME NEW s \in stage_attempts[r], NEW result \in {"eligible", "incomplete", "error"},
               workflow_complete_monitor(r, l, s, result)
        PROVE  IndInv'
    BY <1>5, StageFinishedOK DEF workflow_complete_monitor
  <1>6. ASSUME NEW outcome \in Outcomes \ {"cancelled"}, NEW has_reason \in BOOLEAN,
               workflow_finish(r, l, outcome, has_reason)
        PROVE  IndInv'
    BY <1>6, FinishOK
  <1>7. ASSUME NEW delay \in Delays, workflow_retry(r, l, delay) PROVE IndInv'
    <2> DEFINE d == IF r \in Scheduled /\ Backoff[l.execution] > delay
                    THEN Backoff[l.execution] ELSE delay
    <2>1. TypeOK /\ RowsOK(r) /\ workflow_locked_lease(r, l) /\ workflow_close_retry(r, d)
      BY <1>7 DEF IndInv, workflow_retry
    <2>2. open(r) /\ current_execution(r).state = "running" /\ l.execution \in Attempts
      BY <2>1, Fence
    <2>3. d \in Nat
      BY <2>2, WorkflowAssumption
    <2> HIDE DEF d
    <2> QED
      BY <2>1, <2>2, <2>3, CloseRetryOK
  <1> QED
    BY <1>1, <1>2, <1>3, <1>4, <1>5, <1>6, <1>7 DEF WorkerStep, StageStep

\* Every step keeps the invariant.
LEMMA NextOK == IndInv /\ [Next]_vars => IndInv'
  <1> SUFFICES ASSUME IndInv, [Next]_vars PROVE IndInv'
    OBVIOUS
  <1>1. ASSUME NEW r \in Requests, workflow_enqueue(r) PROVE IndInv'
    BY <1>1, EnqueueOK
  <1>2. ASSUME NEW r \in Requests, workflow_cancel(r) PROVE IndInv'
    BY <1>2, CancelOK
  <1>3. ASSUME NEW worker \in Workers, NEW seconds \in LeaseTimes, Claim(worker, seconds)
        PROVE  IndInv'
    BY <1>3, ClaimOK
  <1>4. ASSUME NEW r \in Requests, NEW l \in issued[r], WorkerStep(r, l) PROVE IndInv'
    BY <1>4, WorkerStepOK
  <1>5. CASE Tick
    BY <1>5, TickOK
  <1>6. CASE UNCHANGED vars
    BY <1>6 DEF vars, IndInv, TypeOK, RowsOK
  <1> QED
    BY <1>1, <1>2, <1>3, <1>4, <1>5, <1>6 DEF Next

\* The rows of every request stay consistent: the inductive invariant.
THEOREM Invariance == Spec => []IndInv
  BY InitOK, NextOK, PTL DEF Spec

-----------------------------------------------------------------------------
\* Every table always holds rows of its type.
THEOREM TypeCorrect == Spec => []TypeOK
  <1>1. IndInv => TypeOK
    BY DEF IndInv
  <1> QED
    BY <1>1, Invariance, PTL

\* Whatever ends an execution leaves no running stage behind.
THEOREM StagesEndWithTheirExecution == Spec => []NoOrphanedStage
  <1>1. IndInv => NoOrphanedStage
    BY DEF IndInv, RowsOK, RequestOK, StageRows, NoOrphanedStage, open, enqueued, current_execution
  <1> QED
    BY <1>1, Invariance, PTL

\* Attempts follow each other up to max_attempts, and the request's outcome
\* is that of its last one.
THEOREM AttemptsInOrder == Spec => []AttemptHistory
  <1>1. ASSUME IndInv, NEW r \in Requests, enqueued(r)
        PROVE  LET control == request_state[r]
                   state == current_execution(r).state
               IN  /\ \A n \in Attempts :
                         /\ n < control.current => executions[r][n].state = "failed"
                         /\ n > control.current => executions[r][n].state = "none"
                   /\ control.current <= MaxAttempts[r]
                   /\ IF open(r) THEN state \in {"queued", "running"} ELSE state = control.outcome
                   /\ control.outcome = "failed" /\ control.epoch > control.current =>
                         control.current = MaxAttempts[r]
    <2>1. AttemptRows(r, request_state[r], executions[r]) /\ request_state[r].current # 0
      BY <1>1 DEF IndInv, RowsOK, RequestOK, enqueued
    <2> QED
      BY <2>1 DEF AttemptRows, open, enqueued, current_execution
  <1>2. IndInv => AttemptHistory
    BY <1>1 DEF AttemptHistory
  <1> QED
    BY <1>2, Invariance, PTL

\* A request reported successful is backed by the stages of the execution
\* that finished it.
THEOREM SuccessBacked == Spec => []SuccessIsBacked
  <1>1. ASSUME IndInv, NEW r \in Requests
        PROVE  SuccessRows(r, request_state[r], stage_attempts[r])
    BY <1>1 DEF IndInv, RowsOK, RequestOK
  <1>2. IndInv => SuccessIsBacked
    BY <1>1 DEF SuccessIsBacked, SuccessRows, Backing
  <1> QED
    BY <1>2, Invariance, PTL

\* A running, unexpired execution has exactly one lease that the fence
\* accepts, and it was handed out.
THEOREM OneHolder == Spec => []LeaseHasOneHolder
  <1>1. ASSUME IndInv, NEW r \in Requests, open(r), current_execution(r).state = "running",
               current_execution(r).lease_left > 0
        PROVE  \E l \in issued[r] :
                  /\ workflow_locked_lease(r, l)
                  /\ \A m \in issued[r] : workflow_locked_lease(r, m) => m = l
    <2> DEFINE c == request_state[r]
               e == executions[r][c.current]
               l == HeldLease(c, e)
    <2>1. c.current # 0 /\ c.outcome = "none" /\ e = current_execution(r) /\ RowsOK(r)
      BY <1>1 DEF open, enqueued, current_execution, IndInv
    <2>2. c.current \in Attempts
      BY <2>1 DEF RowsOK, RequestOK, RowTypes, Control
    <2>3. l \in issued[r] /\ issued[r] \in SUBSET Lease
      BY <1>1, <2>1 DEF RowsOK, RequestOK, LeaseRows, RowTypes
    <2>4. e.cancellation_requested_at = "null"
      BY <1>1, <2>1, <2>2 DEF RowsOK, RequestOK, TimerRows
    <2>5. workflow_locked_lease(r, l)
      BY <1>1, <2>1, <2>4 DEF workflow_locked_lease, HeldLease
    <2>6. ASSUME NEW m \in issued[r], workflow_locked_lease(r, m) PROVE m = l
      <3>1. m \in Lease /\ l \in Lease
        BY <2>3
      <3>2. m.execution = l.execution /\ m.epoch = l.epoch /\ m.worker_id = l.worker_id
            /\ m.fencing_token = l.fencing_token
        BY <2>1, <2>6 DEF workflow_locked_lease, HeldLease
      <3> HIDE DEF l
      <3> QED
        BY <3>1, <3>2 DEF Lease
    <2> QED
      BY <2>3, <2>5, <2>6
  <1>2. IndInv => LeaseHasOneHolder
    BY <1>1 DEF LeaseHasOneHolder
  <1> QED
    BY <1>2, Invariance, PTL

-----------------------------------------------------------------------------
(***************************************************************************)
(* What a step may do to one request: not revive a lost lease, not touch   *)
(* what is final, and move it only as RequestLifecycle allows.             *)
(***************************************************************************)
LostStep(r) ==
    \A l \in issued[r] : ~workflow_locked_lease(r, l) => ~workflow_locked_lease(r, l)'

FinalStep(r) ==
    /\ request_state[r].outcome # "none" =>
          /\ request_state'[r] = request_state[r]
          /\ executions'[r] = executions[r]
          /\ stage_attempts'[r] = stage_attempts[r]
    /\ \A s \in stage_attempts[r] : s.state # "running" => s \in stage_attempts'[r]
    /\ \A n \in Attempts : executions[r][n].state \in Outcomes =>
          executions'[r][n] = executions[r][n]

Phase(attempt, phase) == [attempt |-> attempt, phase |-> phase]

LifeStep(r) ==
    LET p == request_phase(r)
        q == request_phase(r)'
    IN  \/ q = p
        \/ p.phase = "absent" /\ q = Phase(1, "queued")
        \/ p.phase = "queued" /\ q = Phase(p.attempt, "running")
        \/ /\ p.phase = "running" /\ p.attempt < MaxAttempts[r]
           /\ q \in {Phase(p.attempt + 1, "queued"), Phase(p.attempt + 1, "running")}
        \/ /\ p.phase = "running"
           /\ \E outcome \in Outcomes \ {"cancelled"} : q = Phase(p.attempt, outcome)
        \/ p.phase \in {"queued", "running"} /\ q = Phase(p.attempt, "cancelled")

StepOK(r) == LostStep(r) /\ FinalStep(r) /\ LifeStep(r)

\* A request none of whose rows change.
LEMMA StillStep ==
  ASSUME NEW r \in Requests,
         request_state'[r] = request_state[r], executions'[r] = executions[r],
         stage_attempts'[r] = stage_attempts[r], issued'[r] = issued[r]
  PROVE  StepOK(r)
  <1>1. \A l : workflow_locked_lease(r, l)' <=> workflow_locked_lease(r, l)
    BY DEF workflow_locked_lease, open, enqueued, current_execution
  <1>2. request_phase(r)' = request_phase(r)
    BY DEF request_phase, enqueued, current_execution
  <1> QED
    BY <1>1, <1>2 DEF StepOK, LostStep, FinalStep, LifeStep

\* A step that only moves the timers of executions that have not ended, and
\* gives no time to a lease that has none.
LEMMA TimerStep ==
  ASSUME IndInv, NEW r \in Requests,
         request_state'[r] = request_state[r], stage_attempts'[r] = stage_attempts[r],
         \A n \in Attempts :
            /\ executions'[r][n].state = executions[r][n].state
            /\ executions'[r][n].lease_owner = executions[r][n].lease_owner
            /\ executions'[r][n].fencing_token = executions[r][n].fencing_token
            /\ executions'[r][n].cancellation_requested_at
                  = executions[r][n].cancellation_requested_at
            /\ executions'[r][n].lease_left > 0 => executions[r][n].lease_left > 0
            /\ executions[r][n].state \in Outcomes => executions'[r][n] = executions[r][n],
         request_state[r].outcome # "none" => executions'[r] = executions[r]
  PROVE  StepOK(r)
  <1>1. enqueued(r) => request_state[r].current \in Attempts
    BY DEF IndInv, TypeOK, Control, enqueued
  <1>2. LostStep(r)
    BY <1>1 DEF LostStep, workflow_locked_lease, open, enqueued, current_execution
  <1>3. FinalStep(r)
    BY DEF FinalStep
  <1>4. request_phase(r)' = request_phase(r)
    BY <1>1 DEF request_phase, enqueued, current_execution
  <1> QED
    BY <1>2, <1>3, <1>4 DEF StepOK, LifeStep

\* A step after which the current execution is not running: no lease is
\* accepted then.
LEMMA NoLeaseAfter ==
  ASSUME NEW r \in Requests,
         executions'[r][request_state'[r].current].state # "running"
  PROVE  LostStep(r)
  BY DEF LostStep, workflow_locked_lease, current_execution

\* What closing an execution for a retry does to the attempts: the request
\* fails or is queued at its next attempt, and what had ended is untouched.
LEMMA RetriedRows ==
  ASSUME NEW r \in Requests, RowsOK(r), open(r), current_execution(r).state = "running",
         NEW delay \in Nat
  PROVE  LET c == request_state[r]
             E2 == retried_executions(r, delay)
         IN  /\ c.current \in Attempts
             /\ attempts_exhausted(r) =>
                   retried_control(r).current = c.current /\ E2[c.current].state = "failed"
             /\ ~attempts_exhausted(r) =>
                   /\ c.current < MaxAttempts[r]
                   /\ retried_control(r).current = c.current + 1
                   /\ E2[c.current + 1].state = "queued"
             /\ \A n \in Attempts : executions[r][n].state \in Outcomes => E2[n] = executions[r][n]
  <1> DEFINE c == request_state[r]
             E == executions[r]
             E2 == retried_executions(r, delay)
             X == ended_execution(E[c.current], "failed")
             Q == queued_execution(delay)
  <1>1. /\ c \in Control /\ E \in [Attempts -> Execution]
        /\ c.current \in Attempts /\ c.outcome = "none" /\ E[c.current].state = "running"
        /\ MaxAttempts[r] \in Attempts /\ AttemptRows(r, c, E)
    BY WorkflowAssumption DEF RowsOK, RequestOK, RowTypes, open, enqueued,
       current_execution, Control
  <1>2. X.state = "failed" /\ Q.state = "queued"
    <2>1. E[c.current] \in Execution
      BY <1>1
    <2> QED
      BY <2>1, EndedRow, QueuedRow
  <1> HIDE DEF X, Q
  <1>3. CASE attempts_exhausted(r)
    <2>1. retried_control(r).current = c.current
      BY <1>3 DEF retried_control
    <2>2. E2 = [E EXCEPT ![c.current] = X]
      BY <1>3 DEF retried_executions, X
    <2>3. E2[c.current] = X /\ \A n \in Attempts : n # c.current => E2[n] = E[n]
      BY <1>1, <2>2
    <2> QED
      BY <1>1, <1>2, <1>3, <2>1, <2>3
  <1>4. CASE ~attempts_exhausted(r)
    <2>1. retried_control(r).current = c.current + 1
      BY <1>1, <1>4 DEF retried_control
    <2>2. E2 = [[E EXCEPT ![c.current] = X] EXCEPT ![c.current + 1] = Q]
      BY <1>4 DEF retried_executions, X, Q
    <2>3. c.current + 1 \in Attempts /\ c.current < MaxAttempts[r]
      BY <1>1, <1>4, WorkflowAssumption DEF attempts_exhausted
    <2>4. E2[c.current + 1] = Q
          /\ \A n \in Attempts : n # c.current /\ n # c.current + 1 => E2[n] = E[n]
      <3> DEFINE E1 == [E EXCEPT ![c.current] = X]
      <3>1. DOMAIN E1 = Attempts /\ \A n \in Attempts : n # c.current => E1[n] = E[n]
        BY <1>1
      <3>2. E2 = [E1 EXCEPT ![c.current + 1] = Q]
        BY <2>2
      <3> HIDE DEF E1
      <3> QED
        BY <2>3, <3>1, <3>2
    <2>5. E[c.current + 1].state = "none"
      BY <1>1, <2>3 DEF AttemptRows
    <2> HIDE DEF E2
    <2>6. \A n \in Attempts : E[n].state \in Outcomes => E2[n] = E[n]
      BY <1>1, <2>4, <2>5
    <2> QED
      BY <1>1, <1>2, <1>4, <2>1, <2>3, <2>4, <2>6 DEF E2
  <1> QED
    BY <1>3, <1>4

\* A request that is closed for a retry.
LEMMA RetriedStep ==
  ASSUME IndInv, NEW r \in Requests, open(r), current_execution(r).state = "running",
         NEW delay \in Nat,
         request_state'[r] = retried_control(r),
         executions'[r] = retried_executions(r, delay),
         stage_attempts'[r] = ended_stages(r, "failed")
  PROVE  StepOK(r)
  <1> DEFINE c == request_state[r]
  <1>1. RowsOK(r) /\ c.outcome = "none" /\ c.current # 0
    BY DEF IndInv, open, enqueued
  <1>2. /\ c.current \in Attempts
        /\ attempts_exhausted(r) => /\ request_state'[r].current = c.current
                                    /\ executions'[r][c.current].state = "failed"
        /\ ~attempts_exhausted(r) => /\ c.current < MaxAttempts[r]
                                     /\ request_state'[r].current = c.current + 1
                                     /\ executions'[r][c.current + 1].state = "queued"
        /\ \A n \in Attempts : executions[r][n].state \in Outcomes =>
              executions'[r][n] = executions[r][n]
    BY <1>1, RetriedRows
  <1>3. \A s \in stage_attempts[r] : s.state # "running" => s \in stage_attempts'[r]
    BY <1>1, EndedStages
  <1>4. request_phase(r) = Phase(c.current, "running")
    BY <1>1 DEF request_phase, Phase, enqueued, current_execution
  <1>5. FinalStep(r)
    BY <1>1, <1>2, <1>3 DEF FinalStep
  <1>6. LostStep(r)
    BY <1>2, NoLeaseAfter
  <1>7. request_phase(r)' = IF attempts_exhausted(r) THEN Phase(c.current, "failed")
                            ELSE Phase(c.current + 1, "queued")
    <2>1. c.current + 1 # 0
      BY <1>2
    <2> QED
      BY <1>1, <1>2, <2>1 DEF request_phase, Phase, enqueued, current_execution
  <1>8. LifeStep(r)
    BY <1>2, <1>4, <1>7 DEF LifeStep, Phase
  <1> QED
    BY <1>5, <1>6, <1>8 DEF StepOK

\* A request that a worker claims, after closing an expired lease on it.
LEMMA LeasedStep ==
  ASSUME IndInv, NEW r \in Requests, due(r), ~closed_and_passed(r),
         NEW worker \in Workers, NEW seconds \in LeaseTimes,
         request_state'[r] = reclaimed_control(r),
         executions'[r] = leased_executions(r, worker, seconds),
         stage_attempts'[r] = reclaimed_stages(r)
  PROVE  StepOK(r)
  <1> DEFINE c == reclaimed_control(r)
             E == reclaimed_executions(r)
             n == c.current
             old == request_state[r]
             X == leased_execution(E[n], worker, seconds)
  <1>1. RowsOK(r) /\ open(r) /\ old.outcome = "none" /\ old.current # 0
        /\ old.current \in Attempts
    BY DEF IndInv, due, lease_expired, open, enqueued, TypeOK, Control
  <1>2. /\ RowTypes(c, E, reclaimed_stages(r), issued[r]) /\ LeaseRows(c, E, issued[r])
        /\ n # 0 /\ c.outcome = "none" /\ E[n].state = "queued"
    BY <1>1, ReclaimedOK DEF RequestOK
  <1>3. /\ n = IF lease_expired(r) THEN old.current + 1 ELSE old.current
        /\ lease_expired(r) => old.current < MaxAttempts[r]
        /\ \A k \in Attempts : executions[r][k].state \in Outcomes => E[k] = executions[r][k]
        /\ \A s \in stage_attempts[r] : s.state # "running" => s \in reclaimed_stages(r)
    <2>1. CASE lease_expired(r)
      <3>1. current_execution(r).state = "running" /\ ~attempts_exhausted(r)
        BY <2>1 DEF lease_expired, closed_and_passed
      <3>2. reclaim_delay(r) \in Nat
        BY <1>1, WorkflowAssumption DEF reclaim_delay
      <3>3. c = retried_control(r) /\ E = retried_executions(r, reclaim_delay(r))
            /\ reclaimed_stages(r) = ended_stages(r, "failed")
        BY <2>1 DEF reclaimed_control, reclaimed_executions, reclaimed_stages
      <3>4. /\ old.current < MaxAttempts[r]
            /\ retried_control(r).current = old.current + 1
            /\ \A k \in Attempts : executions[r][k].state \in Outcomes =>
                  retried_executions(r, reclaim_delay(r))[k] = executions[r][k]
        BY <1>1, <3>1, <3>2, RetriedRows
      <3>5. \A s \in stage_attempts[r] : s.state # "running" => s \in ended_stages(r, "failed")
        BY <1>1, EndedStages
      <3> QED
        BY <2>1, <3>3, <3>4, <3>5
    <2>2. CASE ~lease_expired(r)
      BY <2>2 DEF reclaimed_control, reclaimed_executions, reclaimed_stages
    <2> QED
      BY <2>1, <2>2
  <1> HIDE DEF c, E
  <1>4. n \in Attempts /\ E \in [Attempts -> Execution] /\ E[n] \in Execution
        /\ issued[r] \in SUBSET Lease
    BY <1>2 DEF RowTypes, Control
  <1>5. X.state = "running"
    <2>1. seconds \in Nat
      BY WorkflowAssumption
    <2> QED
      BY <1>4, <2>1, LeasedRow
  <1>6. executions'[r] = [E EXCEPT ![n] = X]
    BY DEF leased_executions, c, E
  <1> HIDE DEF X
  <1>7. executions'[r][n] = X /\ \A k \in Attempts : k # n => executions'[r][k] = E[k]
    BY <1>4, <1>6
  <1>8. request_state'[r].current = n
    BY DEF c
  <1>9. LostStep(r)
    <2>1. ASSUME NEW l \in issued[r] PROVE l.execution # n
      BY <1>2 DEF LeaseRows
    <2> QED
      BY <1>8, <2>1 DEF LostStep, workflow_locked_lease
  <1>10. FinalStep(r)
    <2>1. ASSUME NEW k \in Attempts, executions[r][k].state \in Outcomes
          PROVE  executions'[r][k] = executions[r][k]
      <3>1. E[k] = executions[r][k]
        BY <1>3, <2>1
      <3>2. k # n
        BY <1>2, <2>1, <3>1
      <3> QED
        BY <1>7, <3>1, <3>2
    <2> QED
      BY <1>1, <1>3, <2>1 DEF FinalStep
  <1>11. LifeStep(r)
    <2>1. request_phase(r)' = Phase(n, "running")
      BY <1>2, <1>5, <1>7, <1>8 DEF request_phase, Phase, enqueued, current_execution
    <2>2. CASE lease_expired(r)
      <3>1. request_phase(r) = Phase(old.current, "running")
        BY <1>1, <2>2 DEF lease_expired, request_phase, Phase, enqueued, current_execution
      <3> QED
        BY <1>3, <2>1, <2>2, <3>1 DEF LifeStep, Phase
    <2>3. CASE ~lease_expired(r)
      <3>1. request_phase(r) = Phase(old.current, "queued")
        BY <1>1, <2>3 DEF due, request_phase, Phase, enqueued, current_execution
      <3> QED
        BY <1>3, <2>1, <2>3, <3>1 DEF LifeStep, Phase
    <2> QED
      BY <2>2, <2>3
  <1> QED
    BY <1>9, <1>10, <1>11 DEF StepOK

\* The rows of the other requests, after a step that replaces those of one.
LEMMA OthersStep ==
  \A r \in Requests : \A c, E, S, I :
     IndInv /\ Replaces(r, c, E, S, I) /\ StepOK(r) => \A q \in Requests : StepOK(q)
  <1> SUFFICES ASSUME NEW r \in Requests, NEW c, NEW E, NEW S, NEW I,
                      IndInv, Replaces(r, c, E, S, I), StepOK(r), NEW q \in Requests, q # r
               PROVE  StepOK(q)
    OBVIOUS
  <1>1. request_state'[q] = request_state[q] /\ executions'[q] = executions[q]
        /\ stage_attempts'[q] = stage_attempts[q] /\ issued'[q] = issued[q]
    BY DEF IndInv, TypeOK, Replaces
  <1> QED
    BY <1>1, StillStep

LEMMA EnqueuedStep ==
  ASSUME IndInv, NEW r \in Requests, workflow_enqueue(r)
  PROVE  \A q \in Requests : StepOK(q)
  <1> DEFINE c == [current |-> 1, epoch |-> 1, outcome |-> "none"]
             Q == queued_execution(0)
             E == [executions[r] EXCEPT ![1] = Q]
  <1>1. TypeOK /\ RowsOK(r) /\ request_state[r].current = 0 /\ 1 \in Attempts
    BY WorkflowAssumption DEF IndInv, workflow_enqueue, already_enqueued, enqueued
  <1>2. Q.state = "queued"
    BY QueuedRow
  <1> HIDE DEF Q
  <1>3. Replaces(r, c, E, stage_attempts[r], issued[r])
    BY <1>1, Untouched DEF workflow_enqueue, Q, Replaces
  <1>4. request_state'[r] = c /\ executions'[r] = E /\ stage_attempts'[r] = stage_attempts[r]
    BY <1>1, <1>3 DEF TypeOK, Replaces
  <1>5. E[1] = Q /\ request_state'[r].current = 1
    <2>1. executions[r] \in [Attempts -> Execution]
      BY <1>1 DEF TypeOK
    <2>2. E[1] = Q
      BY <1>1, <2>1
    <2>3. c.current = 1
      OBVIOUS
    <2> QED
      BY <1>4, <2>2, <2>3
  <1>6. /\ request_state[r].outcome = "none"
        /\ \A n \in Attempts : executions[r][n].state = "none"
    BY <1>1 DEF RowsOK, RequestOK, BlankRows
  <1> HIDE DEF c, E
  <1>7. LostStep(r)
    BY <1>2, <1>4, <1>5, NoLeaseAfter
  <1>8. FinalStep(r)
    BY <1>4, <1>6 DEF FinalStep
  <1>9. LifeStep(r)
    <2>1. request_phase(r).phase = "absent"
      BY <1>1 DEF request_phase, enqueued
    <2>2. request_phase(r)' = Phase(1, "queued")
      BY <1>2, <1>4, <1>5 DEF request_phase, Phase, enqueued, current_execution
    <2> QED
      BY <2>1, <2>2 DEF LifeStep
  <1> QED
    BY <1>3, <1>7, <1>8, <1>9, OthersStep DEF StepOK

\* A request that ends, by workflow_finish or workflow_cancel.
LEMMA EndedStep ==
  ASSUME IndInv, NEW r \in Requests, open(r), NEW outcome \in Outcomes, NEW X, X.state = outcome,
         outcome # "cancelled" => current_execution(r).state = "running",
         request_state'[r].current = request_state[r].current,
         executions'[r] = [executions[r] EXCEPT ![request_state[r].current] = X],
         \A s \in stage_attempts[r] : s.state # "running" => s \in stage_attempts'[r]
  PROVE  StepOK(r)
  <1> DEFINE n == request_state[r].current
             E == executions[r]
  <1>1. RowsOK(r) /\ n # 0 /\ request_state[r].outcome = "none" /\ n \in Attempts
        /\ E \in [Attempts -> Execution] /\ AttemptRows(r, request_state[r], E)
    BY DEF IndInv, open, enqueued, TypeOK, Control, RowsOK, RequestOK
  <1>2. E[n].state \in {"queued", "running"}
    BY <1>1 DEF AttemptRows
  <1>3. executions'[r][n] = X /\ \A k \in Attempts : k # n => executions'[r][k] = E[k]
    BY <1>1
  <1>4. LostStep(r)
    BY <1>3, NoLeaseAfter
  <1>5. FinalStep(r)
    BY <1>1, <1>2, <1>3 DEF FinalStep
  <1>6. request_phase(r) = Phase(n, E[n].state) /\ request_phase(r)' = Phase(n, outcome)
    BY <1>1, <1>3 DEF request_phase, Phase, enqueued, current_execution
  <1>7. LifeStep(r)
    <2>1. Phase(n, E[n].state).phase = E[n].state /\ Phase(n, E[n].state).attempt = n
      BY DEF Phase
    <2> HIDE DEF n
    <2>2. CASE outcome = "cancelled"
      BY <1>2, <1>6, <2>1, <2>2 DEF LifeStep
    <2>3. CASE outcome # "cancelled"
      <3>1. E[n].state = "running"
        BY <2>3 DEF current_execution, n
      <3> QED
        BY <1>6, <2>1, <2>3, <3>1 DEF LifeStep
    <2> QED
      BY <2>2, <2>3
  <1> QED
    BY <1>4, <1>5, <1>7 DEF StepOK

LEMMA FinishStep ==
  ASSUME IndInv, NEW r \in Requests, NEW l \in issued[r], NEW outcome \in Outcomes \ {"cancelled"},
         NEW has_reason, workflow_finish(r, l, outcome, has_reason)
  PROVE  \A q \in Requests : StepOK(q)
  <1> DEFINE n == request_state[r].current
             X == ended_execution(executions[r][n], outcome)
             c2 == [request_state[r] EXCEPT !.outcome = outcome]
             E2 == [executions[r] EXCEPT ![n] = X]
  <1>1. TypeOK /\ RowsOK(r) /\ workflow_locked_lease(r, l)
    BY DEF IndInv, workflow_finish
  <1>2. open(r) /\ n = l.execution /\ executions[r][n] \in Execution
        /\ current_execution(r).state = "running"
    BY <1>1, Fence
  <1>3. X.state = outcome
    BY <1>2, EndedRow
  <1>4. c2.current = n
    BY <1>1 DEF TypeOK, Control
  <1> HIDE DEF X, c2
  <1>5. Replaces(r, c2, E2, stage_attempts[r], issued[r])
    BY <1>1, <1>2, Untouched DEF workflow_finish, Replaces, X, c2
  <1>6. request_state'[r] = c2 /\ executions'[r] = E2 /\ stage_attempts'[r] = stage_attempts[r]
    BY <1>1, <1>5 DEF TypeOK, Replaces
  <1>7. StepOK(r)
    BY <1>2, <1>3, <1>4, <1>6, EndedStep
  <1> QED
    BY <1>5, <1>7, OthersStep

LEMMA CancelStep ==
  ASSUME IndInv, NEW r \in Requests, workflow_cancel(r)
  PROVE  \A q \in Requests : StepOK(q)
  <1> DEFINE n == request_state[r].current
             Y == ended_execution(executions[r][n], "cancelled")
             X == [Y EXCEPT !.cancellation_requested_at = "set"]
             c2 == [current |-> n, epoch |-> request_state[r].epoch + 1, outcome |-> "cancelled"]
             E2 == [executions[r] EXCEPT ![n] = X]
             S2 == ended_stages(r, "cancelled")
  <1>1. TypeOK /\ RowsOK(r) /\ open(r)
    BY DEF IndInv, workflow_cancel, cancellable
  <1>2. executions[r][n] \in Execution
    <2>1. n \in Attempts
      BY <1>1 DEF open, enqueued, TypeOK, Control
    <2> QED
      BY <1>1, <2>1 DEF TypeOK
  <1>3. Y \in Execution /\ Y.state = "cancelled"
    BY <1>2, EndedRow
  <1> HIDE DEF Y
  <1>4. X.state = "cancelled"
    BY <1>3 DEF Execution
  <1>5. \A s \in stage_attempts[r] : s.state # "running" => s \in S2
    BY <1>1, EndedStages
  <1>6. c2.current = n
    OBVIOUS
  <1> HIDE DEF X, c2, S2
  <1>7. Replaces(r, c2, E2, S2, issued[r])
    BY <1>1, Untouched DEF workflow_cancel, Replaces, X, Y, c2, S2
  <1>8. request_state'[r] = c2 /\ executions'[r] = E2 /\ stage_attempts'[r] = S2
    BY <1>1, <1>7 DEF TypeOK, Replaces
  <1>9. StepOK(r)
    BY <1>1, <1>4, <1>5, <1>6, <1>8, EndedStep
  <1> QED
    BY <1>7, <1>9, OthersStep

LEMMA RetryStep ==
  ASSUME IndInv, NEW r \in Requests, open(r), current_execution(r).state = "running",
         NEW delay \in Nat, workflow_close_retry(r, delay)
  PROVE  \A q \in Requests : StepOK(q)
  <1> DEFINE c2 == retried_control(r)
             E2 == retried_executions(r, delay)
             S2 == ended_stages(r, "failed")
  <1>1. TypeOK
    BY DEF IndInv
  <1>2. Replaces(r, c2, E2, S2, issued[r])
    BY <1>1, Untouched DEF workflow_close_retry, Replaces
  <1> HIDE DEF c2, E2, S2
  <1>3. request_state'[r] = c2 /\ executions'[r] = E2 /\ stage_attempts'[r] = S2
    BY <1>1, <1>2 DEF TypeOK, Replaces
  <1>4. StepOK(r)
    BY <1>3, RetriedStep DEF c2, E2, S2
  <1> QED
    BY <1>2, <1>4, OthersStep

\* A stage starts or finishes: only the stage rows of the request change,
\* and none that had finished.
LEMMA StageRowsStep ==
  ASSUME IndInv, NEW r \in Requests, NEW l \in issued[r], workflow_locked_lease(r, l), NEW S2,
         stage_attempts' = [stage_attempts EXCEPT ![r] = S2],
         UNCHANGED <<request_state, executions, issued>>,
         \A s \in stage_attempts[r] : s.state # "running" => s \in S2
  PROVE  \A q \in Requests : StepOK(q)
  <1>1. TypeOK /\ RowsOK(r)
    BY DEF IndInv
  <1>2. Replaces(r, request_state[r], executions[r], S2, issued[r])
    BY <1>1, Untouched DEF Replaces
  <1>3. stage_attempts'[r] = S2 /\ request_state[r].outcome = "none"
    BY <1>1 DEF TypeOK, workflow_locked_lease, open
  <1>4. \A m : workflow_locked_lease(r, m)' <=> workflow_locked_lease(r, m)
    BY DEF workflow_locked_lease, open, enqueued, current_execution
  <1>5. request_phase(r)' = request_phase(r)
    BY DEF request_phase, enqueued, current_execution
  <1>6. StepOK(r)
    BY <1>3, <1>4, <1>5 DEF StepOK, LostStep, FinalStep, LifeStep
  <1> QED
    BY <1>2, <1>6, OthersStep

LEMMA StageFinishedStep ==
  ASSUME IndInv, NEW r \in Requests, NEW l \in issued[r], workflow_locked_lease(r, l), NEW s,
         active_stage(r, l, s), NEW outcome, NEW result,
         finished_stage(r, s, outcome, result),
         UNCHANGED <<request_state, executions, issued>>
  PROVE  \A q \in Requests : StepOK(q)
  <1> DEFINE t == [s EXCEPT !.state = outcome, !.result = result]
             S2 == (stage_attempts[r] \ {s}) \cup {t}
  <1>1. s.state = "running" /\ stage_attempts' = [stage_attempts EXCEPT ![r] = S2]
    BY DEF active_stage, finished_stage
  <1> HIDE DEF t
  <1>2. \A u \in stage_attempts[r] : u.state # "running" => u \in S2
    BY <1>1
  <1> HIDE DEF S2
  <1> QED
    BY <1>1, <1>2, StageRowsStep

LEMMA RenewStep ==
  ASSUME IndInv, NEW r \in Requests, NEW l \in issued[r], NEW seconds \in LeaseTimes,
         workflow_renew(r, l, seconds)
  PROVE  \A q \in Requests : StepOK(q)
  <1> DEFINE n == l.execution
             e == executions[r][n]
             X == renewed_execution(e, seconds)
             E2 == [executions[r] EXCEPT ![n] = X]
  <1>1. TypeOK /\ RowsOK(r) /\ executions[r] \in [Attempts -> Execution]
    BY DEF IndInv, TypeOK
  <1>2. n \in Attempts /\ e \in Execution /\ e.state = "running" /\ e.renewals < MaxRenewals
        /\ e.lease_left > 0 /\ request_state[r].outcome = "none"
    BY <1>1, Fence DEF workflow_renew, workflow_locked_lease, open
  <1>3. X.state = "running" /\ X.lease_owner = e.lease_owner /\ X.fencing_token = e.fencing_token
        /\ X.cancellation_requested_at = e.cancellation_requested_at
    <2>1. seconds \in Nat
      BY WorkflowAssumption
    <2> HIDE DEF e
    <2> QED
      BY <1>2, <2>1, RenewedRow
  <1>4. Replaces(r, request_state[r], E2, stage_attempts[r], issued[r])
    <2>1. executions' = [executions EXCEPT ![r] = E2]
      BY DEF workflow_renew
    <2> QED
      BY <1>1, <2>1, Untouched DEF workflow_renew, Replaces
  <1> HIDE DEF X
  <1>5. E2[n] = X /\ \A k \in Attempts : k # n => E2[k] = executions[r][k]
    BY <1>1, <1>2
  <1> HIDE DEF E2
  <1>6. request_state'[r] = request_state[r] /\ executions'[r] = E2
        /\ stage_attempts'[r] = stage_attempts[r]
    BY <1>1, <1>4 DEF TypeOK, Replaces
  <1>7. \A k \in Attempts :
            /\ executions'[r][k].state = executions[r][k].state
            /\ executions'[r][k].lease_owner = executions[r][k].lease_owner
            /\ executions'[r][k].fencing_token = executions[r][k].fencing_token
            /\ executions'[r][k].cancellation_requested_at
                  = executions[r][k].cancellation_requested_at
            /\ executions'[r][k].lease_left > 0 => executions[r][k].lease_left > 0
            /\ executions[r][k].state \in Outcomes => executions'[r][k] = executions[r][k]
    BY <1>2, <1>3, <1>5, <1>6
  <1>8. StepOK(r)
    BY <1>2, <1>6, <1>7, TimerStep
  <1> QED
    BY <1>4, <1>8, OthersStep

LEMMA TickStep ==
  ASSUME IndInv, Tick, NEW r \in Requests
  PROVE  StepOK(r)
  <1> DEFINE E == executions[r]
  <1>1. TypeOK /\ RowsOK(r) /\ E \in [Attempts -> Execution] /\ TimerRows(E)
        /\ AttemptRows(r, request_state[r], E) /\ BlankRows(request_state[r], E, stage_attempts[r], issued[r])
    BY DEF IndInv, TypeOK, RowsOK, RequestOK
  <1>2. /\ request_state'[r] = request_state[r] /\ stage_attempts'[r] = stage_attempts[r]
        /\ executions'[r] = [n \in Attempts |-> aged_execution(E[n])]
    BY DEF Tick
  <1>3. ASSUME NEW e \in Execution
        PROVE  /\ aged_execution(e).state = e.state
               /\ aged_execution(e).lease_owner = e.lease_owner
               /\ aged_execution(e).fencing_token = e.fencing_token
               /\ aged_execution(e).cancellation_requested_at = e.cancellation_requested_at
               /\ aged_execution(e).lease_left > 0 => e.lease_left > 0
               /\ e.lease_left = 0 /\ e.wait = 0 => aged_execution(e) = e
    <2>1. e.lease_left \in Nat /\ e.wait \in Nat
      BY DEF Execution
    <2> DEFINE x == less(e.lease_left)
               y == less(e.wait)
    <2>2. /\ x > 0 => e.lease_left > 0
          /\ e.lease_left = 0 => x = e.lease_left
          /\ e.wait = 0 => y = e.wait
      BY <2>1 DEF less
    <2>3. aged_execution(e) = [e EXCEPT !.lease_left = x, !.wait = y]
      BY DEF aged_execution
    <2> HIDE DEF x, y
    <2>4. ASSUME e.lease_left = 0, e.wait = 0 PROVE aged_execution(e) = e
      <3>1. x = e.lease_left /\ y = e.wait
        BY <2>2, <2>4
      <3> QED
        BY <2>3, <3>1 DEF Execution
    <2>5. /\ aged_execution(e).state = e.state
          /\ aged_execution(e).lease_owner = e.lease_owner
          /\ aged_execution(e).fencing_token = e.fencing_token
          /\ aged_execution(e).cancellation_requested_at = e.cancellation_requested_at
          /\ aged_execution(e).lease_left = x
      BY <2>3 DEF Execution
    <2> QED
      BY <2>2, <2>4, <2>5
  <1>4. \A n \in Attempts : executions'[r][n] = aged_execution(E[n]) /\ E[n] \in Execution
    BY <1>1, <1>2
  <1>5. ASSUME NEW n \in Attempts, E[n].state \notin {"queued", "running"}
        PROVE  executions'[r][n] = E[n]
    BY <1>1, <1>3, <1>4, <1>5 DEF TimerRows
  <1>6. request_state[r].outcome # "none" => executions'[r] = E
    <2>1. SUFFICES ASSUME request_state[r].outcome # "none" PROVE executions'[r] = E
      OBVIOUS
    <2>2. request_state[r].current # 0 /\ request_state[r].current \in Attempts
          /\ request_state[r].outcome \in Outcomes
      BY <1>1, <2>1 DEF BlankRows, TypeOK, Control
    <2>3. \A n \in Attempts : E[n].state \notin {"queued", "running"}
      <3>1. SUFFICES ASSUME NEW n \in Attempts PROVE E[n].state \notin {"queued", "running"}
        OBVIOUS
      <3>2. n < request_state[r].current \/ n = request_state[r].current
            \/ n > request_state[r].current
        BY <2>2, WorkflowAssumption
      <3> QED
        BY <1>1, <2>1, <2>2, <3>2 DEF AttemptRows
    <2>4. \A n \in Attempts : executions'[r][n] = E[n]
      BY <1>5, <2>3
    <2> QED
      BY <1>1, <1>2, <2>4
  <1>7. \A n \in Attempts :
            /\ executions'[r][n].state = executions[r][n].state
            /\ executions'[r][n].lease_owner = executions[r][n].lease_owner
            /\ executions'[r][n].fencing_token = executions[r][n].fencing_token
            /\ executions'[r][n].cancellation_requested_at
                  = executions[r][n].cancellation_requested_at
            /\ executions'[r][n].lease_left > 0 => executions[r][n].lease_left > 0
            /\ executions[r][n].state \in Outcomes => executions'[r][n] = executions[r][n]
    BY <1>3, <1>4, <1>5
  <1> QED
    BY <1>2, <1>6, <1>7, TimerStep

LEMMA ClaimEffectStep ==
  ASSUME IndInv, NEW worker \in Workers, NEW seconds \in LeaseTimes, NEW passed, NEW taken,
         \A r \in passed : closed_and_passed(r),
         \A r \in taken : due(r) /\ ~closed_and_passed(r),
         claim_effect(worker, seconds, passed, taken), NEW r \in Requests
  PROVE  StepOK(r)
  <1>1. CASE r \in taken
    <2>1. /\ request_state'[r] = reclaimed_control(r)
          /\ executions'[r] = leased_executions(r, worker, seconds)
          /\ stage_attempts'[r] = reclaimed_stages(r)
      BY <1>1 DEF claim_effect
    <2>2. due(r) /\ ~closed_and_passed(r)
      BY <1>1
    <2> QED
      BY <2>1, <2>2, LeasedStep
  <1>2. CASE r \in passed /\ r \notin taken
    <2>1. lease_expired(r)
      BY <1>2 DEF closed_and_passed
    <2>2. open(r) /\ current_execution(r).state = "running"
      BY <2>1 DEF lease_expired
    <2>3. reclaim_delay(r) \in Nat
      <3>1. request_state[r].current \in Attempts
        BY <2>2 DEF open, enqueued, IndInv, TypeOK, Control
      <3> QED
        BY <3>1, WorkflowAssumption DEF reclaim_delay
    <2>4. /\ request_state'[r] = retried_control(r)
          /\ executions'[r] = retried_executions(r, reclaim_delay(r))
          /\ stage_attempts'[r] = ended_stages(r, "failed")
      BY <1>2, <2>1 DEF claim_effect, reclaimed_control, reclaimed_executions, reclaimed_stages
    <2> QED
      BY <2>2, <2>3, <2>4, RetriedStep
  <1>3. CASE r \notin passed /\ r \notin taken
    <2>1. /\ request_state'[r] = request_state[r] /\ executions'[r] = executions[r]
          /\ stage_attempts'[r] = stage_attempts[r] /\ issued'[r] = issued[r]
      BY <1>3 DEF claim_effect
    <2> QED
      BY <2>1, StillStep
  <1> QED
    BY <1>1, <1>2, <1>3

LEMMA ClaimStep ==
  ASSUME IndInv, NEW worker \in Workers, NEW seconds \in LeaseTimes, Claim(worker, seconds),
         NEW r \in Requests
  PROVE  StepOK(r)
  <1>1. PICK candidates \in SUBSET Requests : workflow_claim_kind(worker, seconds, candidates)
    BY DEF Claim, workflow_claim, workflow_claim_bootstrap, workflow_claim_monitor, triggered_by
  <1>2. PICK passed \in SUBSET {q \in candidates : closed_and_passed(q)},
             taken \in {{}} \cup {{q} : q \in {p \in candidates : claimable(p)}} :
                claim_effect(worker, seconds, passed, taken)
    BY <1>1 DEF workflow_claim_kind
  <1>3. \A q \in passed : closed_and_passed(q)
    BY <1>2
  <1>4. \A q \in taken : due(q) /\ ~closed_and_passed(q)
    BY <1>2 DEF claimable
  <1> QED
    BY <1>2, <1>3, <1>4, ClaimEffectStep

LEMMA WorkerStepStep ==
  ASSUME IndInv, NEW r \in Requests, NEW l \in issued[r], WorkerStep(r, l)
  PROVE  \A q \in Requests : StepOK(q)
  <1> DEFINE Good == \A q \in Requests : StepOK(q)
  <1>1. ASSUME NEW seconds \in LeaseTimes, workflow_renew(r, l, seconds) PROVE Good
    BY <1>1, RenewStep
  <1>2. ASSUME NEW key \in StageKeys, workflow_start_stage(r, l, key) PROVE Good
    <2>1. workflow_locked_lease(r, l) /\ UNCHANGED <<request_state, executions, issued>>
      BY <1>2 DEF workflow_start_stage
    <2>2. PICK no \in 1..MaxStageAttempts :
            stage_attempts' = [stage_attempts EXCEPT ![r] = stage_attempts[r] \cup
               {[execution |-> l.execution, stage_key |-> key, attempt_no |-> no,
                 state |-> "running", result |-> "none"]}]
      BY <1>2 DEF workflow_start_stage
    <2> DEFINE S2 == stage_attempts[r] \cup
                        {[execution |-> l.execution, stage_key |-> key, attempt_no |-> no,
                          state |-> "running", result |-> "none"]}
    <2>3. \A s \in stage_attempts[r] : s.state # "running" => s \in S2
      OBVIOUS
    <2>4. stage_attempts' = [stage_attempts EXCEPT ![r] = S2]
      BY <2>2
    <2> HIDE DEF S2
    <2> QED
      BY <2>1, <2>3, <2>4, StageRowsStep
  <1>3. ASSUME NEW s \in stage_attempts[r], NEW outcome \in StageOutcomes, NEW has_reason \in BOOLEAN,
               workflow_finish_stage(r, l, s, outcome, has_reason)
        PROVE  Good
    BY <1>3, StageFinishedStep DEF workflow_finish_stage
  <1>4. ASSUME NEW s \in stage_attempts[r], workflow_complete_bootstrap_stage(r, l, s)
        PROVE  Good
    BY <1>4, StageFinishedStep DEF workflow_complete_bootstrap_stage
  <1>5. ASSUME NEW s \in stage_attempts[r], NEW result \in {"eligible", "incomplete", "error"},
               workflow_complete_monitor(r, l, s, result)
        PROVE  Good
    BY <1>5, StageFinishedStep DEF workflow_complete_monitor
  <1>6. ASSUME NEW outcome \in Outcomes \ {"cancelled"}, NEW has_reason \in BOOLEAN,
               workflow_finish(r, l, outcome, has_reason)
        PROVE  Good
    BY <1>6, FinishStep
  <1>7. ASSUME NEW delay \in Delays, workflow_retry(r, l, delay) PROVE Good
    <2> DEFINE d == IF r \in Scheduled /\ Backoff[l.execution] > delay
                    THEN Backoff[l.execution] ELSE delay
    <2>1. TypeOK /\ RowsOK(r) /\ workflow_locked_lease(r, l) /\ workflow_close_retry(r, d)
      BY <1>7 DEF IndInv, workflow_retry
    <2>2. open(r) /\ current_execution(r).state = "running" /\ l.execution \in Attempts
      BY <2>1, Fence
    <2>3. d \in Nat
      BY <2>2, WorkflowAssumption
    <2> HIDE DEF d
    <2> QED
      BY <2>1, <2>2, <2>3, RetryStep
  <1> HIDE DEF Good
  <1>8. Good
    BY <1>1, <1>2, <1>3, <1>4, <1>5, <1>6, <1>7 DEF WorkerStep, StageStep
  <1> QED
    BY <1>8 DEF Good

\* Every step moves every request as StepOK allows.
LEMMA NextStep == IndInv /\ [Next]_vars => \A q \in Requests : StepOK(q)
  <1> SUFFICES ASSUME IndInv, [Next]_vars, NEW q \in Requests PROVE StepOK(q)
    OBVIOUS
  <1>1. ASSUME NEW r \in Requests, workflow_enqueue(r) PROVE StepOK(q)
    BY <1>1, EnqueuedStep
  <1>2. ASSUME NEW r \in Requests, workflow_cancel(r) PROVE StepOK(q)
    BY <1>2, CancelStep
  <1>3. ASSUME NEW worker \in Workers, NEW seconds \in LeaseTimes, Claim(worker, seconds)
        PROVE  StepOK(q)
    BY <1>3, ClaimStep
  <1>4. ASSUME NEW r \in Requests, NEW l \in issued[r], WorkerStep(r, l) PROVE StepOK(q)
    BY <1>4, WorkerStepStep
  <1>5. CASE Tick
    BY <1>5, TickStep
  <1>6. CASE UNCHANGED vars
    BY <1>6, StillStep DEF vars
  <1> QED
    BY <1>1, <1>2, <1>3, <1>4, <1>5, <1>6 DEF Next

-----------------------------------------------------------------------------
\* A lease that workflow_locked_lease refuses is refused for ever.
THEOREM LostLeases == Spec => LostLeaseStaysLost
  <1>1. IndInv /\ [Next]_vars =>
          [\A r \in Requests : \A l \in issued[r] :
             ~workflow_locked_lease(r, l) => ~workflow_locked_lease(r, l)']_vars
    BY NextStep DEF StepOK, LostStep
  <1> QED
    BY <1>1, Invariance, PTL DEF Spec, LostLeaseStaysLost

\* Terminal requests, finished stages and ended executions never change.
THEOREM FinalHistory == Spec => HistoryIsFinal
  <1>1. IndInv /\ [Next]_vars => \A r \in Requests : FinalStep(r)
    BY NextStep DEF StepOK
  <1>2. IndInv /\ [Next]_vars =>
         [\A r \in Requests :
          /\ request_state[r].outcome # "none" =>
                /\ request_state'[r] = request_state[r]
                /\ executions'[r] = executions[r]
                /\ stage_attempts'[r] = stage_attempts[r]
          /\ \A s \in stage_attempts[r] : s.state # "running" => s \in stage_attempts'[r]
          /\ \A n \in Attempts : executions[r][n].state \in Outcomes =>
                executions'[r][n] = executions[r][n]]_vars
    BY <1>1 DEF FinalStep
  <1> QED
    BY <1>2, Invariance, PTL DEF Spec, HistoryIsFinal

\* The queue implements RequestLifecycle under the mapping request_phase.
THEOREM Refinement == Spec => ImplementsLifecycle
  <1>1. Init => Lifecycle!Init
    BY DEF Init, Lifecycle!Init, request_phase, enqueued
  <1>2. IndInv /\ [Next]_vars => Lifecycle!Next
    <2> SUFFICES ASSUME IndInv, [Next]_vars, NEW r \in Requests
                 PROVE  \/ Lifecycle!Stay(r) \/ Lifecycle!Enqueue(r) \/ Lifecycle!Start(r)
                        \/ Lifecycle!NextAttempt(r) \/ Lifecycle!Finish(r) \/ Lifecycle!Cancel(r)
      BY DEF Lifecycle!Next
    <2>1. LifeStep(r)
      BY NextStep DEF StepOK
    <2> QED
      BY <2>1 DEF LifeStep, Phase, Lifecycle!Stay, Lifecycle!Enqueue, Lifecycle!Start,
         Lifecycle!NextAttempt, Lifecycle!Finish, Lifecycle!Cancel, Lifecycle!becomes,
         Lifecycle!Finished
  <1> QED
    BY <1>1, <1>2, Invariance, PTL DEF Spec, ImplementsLifecycle, Lifecycle!Spec
=============================================================================
