--------------------------- MODULE FilingScheduler ---------------------------
(***************************************************************************)
(* One filing schedule: its revisions, its slots, the state row that an    *)
(* operator's tick moves, and the monitor request of each slot.            *)
(*                                                                         *)
(* A slot is named by its index k and its request by the same k.  The      *)
(* request is the queue's RequestLifecycle, which Workflow implements,     *)
(* together with what the schedule reads of it: the typed result of the    *)
(* current execution and the times at which fetches were dispatched.       *)
(* Every action is one transaction on the locked schedule row, except that *)
(* a tick reads the clock once before it waits for the lock: calls holds   *)
(* what the ticks under way have read.  All other reads of the clock are   *)
(* made under the lock.                                                    *)
(*                                                                         *)
(* The plan's scope, the anchor, the cadence and max_attempts are the same *)
(* in all revisions (scheduler_revise refuses any other), so they are      *)
(* constants, and so is the number of units a slot reserves.               *)
(***************************************************************************)
EXTENDS Integers, Sequences, FiniteSets

CONSTANTS
    Times,              \* bound: the instants at which the clock is read
    MaxSetBacks,        \* bound: how often the database clock goes back
    MaxSlot,            \* bound: the last slot whose nominal time is among them
    Operators,          \* sessions that call scheduler_tick
    Anchor, Cadence,    \* config anchor and cadence_seconds
    SeedCutoff,         \* cutoff of the reviewed initial baseline
    InventoryStart,     \* first instant of the filed window
    InventoryEnd,       \* first instant after it
    MaxAttempts,        \* config max_attempts
    Units,              \* reserved_units: 3 * resources * max_attempts
    BudgetWindow,       \* 24 hours
    BackoffCap,         \* 3600 seconds
    Configs,            \* the settings an operator may choose
    RevisionKeys,       \* operation keys of revisions
    CreationKey,        \* the key scheduler_create was called with
    Hash                \* the slot hash that spreads the jitter, per epoch and index

SlotIndexes == 0..MaxSlot
Epochs == 1..(Cardinality(RevisionKeys) + 1)
NoSlot == -1
NoTime == -1

\* scheduler_valid and ScheduleConfig.__post_init__.
scheduler_valid(c) ==
    /\ c.jitter \in 0..(Cadence \div 10)
    /\ c.budget >= Units
    /\ c.lag >= Cadence

Config == [active : BOOLEAN, jitter : Nat, budget : Nat, lag : Nat]

ASSUME SchedulerAssumption ==
    /\ Times \subseteq Nat /\ 0 \in Times
    /\ Anchor \in Nat /\ Cadence \in Nat \ {0} /\ MaxSlot \in Nat
    /\ \A t \in Times : t < Anchor + (MaxSlot + 1) * Cadence
    /\ SeedCutoff \in Int /\ Anchor >= SeedCutoff
    /\ InventoryStart \in Int /\ InventoryEnd \in Int
    /\ MaxAttempts \in 1..3 /\ Units \in Nat \ {0}
    /\ BudgetWindow \in Nat \ {0} /\ BackoffCap \in Nat \ {0}
    /\ Configs \subseteq Config /\ \A c \in Configs : scheduler_valid(c)
    /\ IsFiniteSet(RevisionKeys) /\ CreationKey \notin RevisionKeys
    /\ Hash \in [Epochs \X (0..(MaxSlot + 1)) -> Nat]

VARIABLES set_back, now, calls, revisions, state, slots, missed, requests

vars == <<set_back, now, calls, revisions, state, slots, missed, requests>>

Terminal == {"completed", "completed_with_gaps", "failed", "cancelled"}

\* The typed result of a check; "structural" is one with a flag that no
\* later check of the same scope can clear.
Results == {"none", "eligible", "incomplete", "structural", "error"}

\* A slot row with the time of its 'resolved' event; baseline is the slot
\* whose result the plan compares with, NoSlot for the initial baseline.
Slot == [created_at : Times \cup {NoTime}, epoch : Epochs \cup {0}, due_at : Int,
         baseline : SlotIndexes \cup {NoSlot}, resolved_at : Times \cup {NoTime}]
no_slot == [created_at |-> NoTime, epoch |-> 0, due_at |-> 0, baseline |-> NoSlot,
            resolved_at |-> NoTime]

Request == [attempt : 0..MaxAttempts, phase : Terminal \cup {"absent", "queued", "running"},
            result : Results, dispatched : Seq(Times)]
no_request == [attempt |-> 0, phase |-> "absent", result |-> "none", dispatched |-> <<>>]

State == [last_slot : SlotIndexes \cup {NoSlot}, unresolved_slot : SlotIndexes \cup {NoSlot},
          baseline_slot : SlotIndexes \cup {NoSlot}, failures : Nat,
          retry_at : Nat \cup {NoTime}, rebase_reason : {"null", "structural_coverage_incomplete"}]

Init ==
    /\ set_back = 0
    /\ now = 0
    /\ calls = [o \in Operators |-> NoTime]
    /\ revisions = <<>>
    /\ state = [last_slot |-> NoSlot, unresolved_slot |-> NoSlot, baseline_slot |-> NoSlot,
                failures |-> 0, retry_at |-> NoTime, rebase_reason |-> "null"]
    /\ slots = [k \in SlotIndexes |-> no_slot]
    /\ missed = {}
    /\ requests = [k \in SlotIndexes |-> no_request]

created == revisions # <<>>
epoch == Len(revisions)
config == revisions[epoch].config
materialized(k) == slots[k].created_at # NoTime
resolved(k) == slots[k].resolved_at # NoTime

(***************************************************************************)
(* Revisions.  A call that repeats an operation key returns the stored     *)
(* revision (or raises, if it asks for something else) and changes         *)
(* nothing; a call with a stale epoch raises.                              *)
(***************************************************************************)
scheduler_create(c) ==
    /\ ~created
    /\ revisions' = <<[config |-> c, first_slot |-> 0, operation_key |-> CreationKey]>>
    /\ UNCHANGED <<now, calls, state, slots, missed, requests>>

revised_state_reset(st) == \* seeded fault: a revision clears the back-off
    [st EXCEPT !.retry_at = NoTime]
revised_state(st) == st

scheduler_revise(expected, key, c) ==
    /\ created
    /\ \A e \in 1..epoch : revisions[e].operation_key # key
    /\ expected = epoch
    /\ revisions' = Append(revisions, [config |-> c, first_slot |-> state.last_slot + 1,
                                       operation_key |-> key])
    /\ state' = revised_state(state)
    /\ UNCHANGED <<now, calls, slots, missed, requests>>

(***************************************************************************)
(* Slot times: slot k is due at its nominal time plus a jitter that only   *)
(* depends on the revision and k.                                          *)
(***************************************************************************)
nominal_at(k) == Anchor + k * Cadence

scheduler_due(e, k) == nominal_at(k) + (Hash[<<e, k>>] % (revisions[e].config.jitter + 1))

\* The newest revision in force at slot k.
revision_at(k) ==
    CHOOSE e \in 1..epoch :
        /\ revisions[e].first_slot <= k
        /\ \A f \in (e + 1)..epoch : revisions[f].first_slot > k

\* Units held by the slots of rows that are not resolved, or were within
\* the window.
scheduler_budget_open(rows) == \* seeded fault: a resolved slot frees its units at once
    Units * Cardinality({k \in SlotIndexes :
        rows[k].created_at # NoTime /\ rows[k].resolved_at = NoTime})

scheduler_budget(rows) ==
    Units * Cardinality({k \in SlotIndexes : rows[k].created_at # NoTime /\
        (rows[k].resolved_at = NoTime \/ rows[k].resolved_at > now - BudgetWindow)})

(***************************************************************************)
(* scheduler_reconcile: what a tick first makes of the state row when the  *)
(* request of the unresolved slot has ended.  Its 'resolved' event is the  *)
(* slot's resolved_at.                                                     *)
(***************************************************************************)
window_expired(t) == t >= InventoryEnd

baseline_cutoff(b) == IF b = NoSlot THEN SeedCutoff ELSE nominal_at(b)

success_with_gaps(k) == \* seeded fault: a result with gaps becomes the baseline
    requests[k].phase \in {"completed", "completed_with_gaps"}
success(k) == requests[k].phase = "completed" /\ requests[k].result = "eligible"

backoff(failures) ==
    LET delay == Cadence * 2^(IF failures < 4 THEN failures ELSE 4)
    IN  IF delay < BackoffCap THEN delay ELSE BackoffCap

to_reconcile_active == \* seeded fault: a paused schedule does not reconcile
    /\ state.unresolved_slot # NoSlot /\ config.active
    /\ requests[state.unresolved_slot].phase \in Terminal
to_reconcile ==
    /\ state.unresolved_slot # NoSlot
    /\ requests[state.unresolved_slot].phase \in Terminal

\* The function raises here, and the tick with it, if the baseline would
\* move back.
reconcile_refused ==
    /\ to_reconcile /\ success(state.unresolved_slot)
    /\ \/ state.unresolved_slot <= state.baseline_slot
       \/ nominal_at(state.unresolved_slot) < baseline_cutoff(state.baseline_slot)

reconciled_state ==
    LET k == state.unresolved_slot
    IN  IF ~to_reconcile THEN state
        ELSE IF success(k)
        THEN [state EXCEPT !.unresolved_slot = NoSlot, !.baseline_slot = k, !.failures = 0,
                           !.retry_at = NoTime]
        ELSE [state EXCEPT !.unresolved_slot = NoSlot, !.failures = @ + 1,
                           !.retry_at = now + backoff(state.failures),
                           !.rebase_reason = IF requests[k].result = "structural"
                                             THEN "structural_coverage_incomplete" ELSE @]

reconciled_slots ==
    IF to_reconcile THEN [slots EXCEPT ![state.unresolved_slot].resolved_at = now] ELSE slots

(***************************************************************************)
(* scheduler_tick: reconcile, then materialize the latest due slot unless  *)
(* something holds it back.  st is the reconciled row, t the time the tick *)
(* read at its call.                                                       *)
(***************************************************************************)
latest_slot_early(last_slot, t) == \* seeded fault: jitter ignored
    (t - Anchor) \div Cadence

\* The last slot whose nominal time has come or, if its jitter has not run
\* out, the one before.
latest_slot(last_slot, t) ==
    LET k == (t - Anchor) \div Cadence
    IN  IF k > last_slot /\ scheduler_due(revision_at(k), k) > t THEN k - 1 ELSE k

tick_answer(st, rows, t) ==
    LET k == latest_slot(st.last_slot, t)
    IN  IF window_expired(t) \/ st.rebase_reason # "null" THEN "rebase_required"
        ELSE IF ~config.active THEN "paused"
        ELSE IF st.unresolved_slot # NoSlot THEN "pending"
        ELSE IF st.retry_at > t THEN "deferred"
        ELSE IF k < 0 \/ k <= st.last_slot THEN "not_due"
        ELSE IF nominal_at(k) \notin InventoryStart..(InventoryEnd - 1) THEN "rebase_required"
        ELSE IF scheduler_budget(rows) + Units > config.budget THEN "deferred"
        ELSE "materialized"

missed_range_inclusive(last_slot, k) == \* seeded fault: counts the slot taken
    IF k > last_slot + 1 THEN {<<last_slot + 1, k>>} ELSE {}
missed_range(last_slot, k) ==
    IF k > last_slot + 1 THEN {<<last_slot + 1, k - 1>>} ELSE {}

\* The slot, its request and the cursor, in one transaction.
materialize(st, rows, k) ==
    /\ slots' = [rows EXCEPT ![k] =
            [created_at |-> now, epoch |-> revision_at(k), due_at |-> scheduler_due(revision_at(k), k),
             baseline |-> st.baseline_slot, resolved_at |-> NoTime]]
    /\ requests' = [requests EXCEPT ![k] = [no_request EXCEPT !.attempt = 1, !.phase = "queued"]]
    /\ missed' = missed \cup missed_range(st.last_slot, k)
    /\ state' = [st EXCEPT !.last_slot = k, !.unresolved_slot = k]

call_tick(o) ==
    /\ created /\ calls[o] = NoTime
    /\ calls' = [calls EXCEPT ![o] = now]
    /\ UNCHANGED <<now, revisions, state, slots, missed, requests>>

\* The tick raises and rolls back all it did, the reconciliation included:
\* the baseline would move back, or the clock has gone back since the call
\* and the new request's cutoff is in the future.
tick_refused(answer, k) == reconcile_refused \/ (answer = "materialized" /\ nominal_at(k) > now)

scheduler_tick(o) ==
    LET t == calls[o]
        answer == tick_answer(reconciled_state, reconciled_slots, t)
        k == latest_slot(reconciled_state.last_slot, t)
    IN  /\ t # NoTime
        /\ calls' = [calls EXCEPT ![o] = NoTime]
        /\ \/ /\ tick_refused(answer, k)
              /\ UNCHANGED <<state, slots, missed, requests>>
           \/ /\ ~tick_refused(answer, k) /\ answer = "materialized"
              /\ materialize(reconciled_state, reconciled_slots, k)
           \/ /\ ~tick_refused(answer, k) /\ answer # "materialized"
              /\ state' = reconciled_state /\ slots' = reconciled_slots
              /\ UNCHANGED <<missed, requests>>
        /\ UNCHANGED <<now, revisions>>

(***************************************************************************)
(* The request of slot k.  The schedule gates claims and dispatches; it    *)
(* cannot hold up a retry, a result, an end or a cancellation.             *)
(***************************************************************************)
scheduler_request_allowed(k) ==
    /\ config.active
    /\ state.rebase_reason = "null"
    /\ state.unresolved_slot = k
    /\ ~window_expired(now)
    /\ slots[k].baseline = state.baseline_slot
    /\ scheduler_budget(slots) <= config.budget

moved(k, row) ==
    /\ requests' = [requests EXCEPT ![k] = row]
    /\ UNCHANGED <<now, calls, revisions, state, slots, missed>>

workflow_claim_monitor(k) ==
    /\ requests[k].phase = "queued"
    /\ scheduler_request_allowed(k)
    /\ moved(k, [requests[k] EXCEPT !.phase = "running"])

attempts_left_one_more(k) == requests[k].attempt <= MaxAttempts \* seeded fault: off by one
attempts_left(k) == requests[k].attempt < MaxAttempts

\* workflow_retry by the worker.  A claim that finds the lease expired does
\* the same, when the schedule lets it.
workflow_retry(k) ==
    /\ requests[k].phase = "running"
    /\ IF attempts_left(k)
       THEN moved(k, [requests[k] EXCEPT !.attempt = @ + 1, !.phase = "queued", !.result = "none"])
       ELSE moved(k, [requests[k] EXCEPT !.phase = "failed"])

ingestion_dispatch(k) ==
    /\ requests[k].phase = "running"
    /\ scheduler_request_allowed(k)
    /\ Len(requests[k].dispatched) < Units
    /\ moved(k, [requests[k] EXCEPT !.dispatched = Append(@, now)])

\* An eligible result rests on a capture fetched for this request.
workflow_complete_monitor(k, result) ==
    /\ requests[k].phase = "running" /\ requests[k].result = "none"
    /\ result = "eligible" => requests[k].dispatched # <<>>
    /\ moved(k, [requests[k] EXCEPT !.result = result])

\* The outcomes with which run_filing_monitor ends an execution.
outcomes(result) ==
    CASE result = "eligible"   -> {"completed"}
      [] result = "incomplete" -> {"completed_with_gaps"}
      [] result = "structural" -> {"completed_with_gaps", "failed"}
      [] result = "error"      -> {"failed"}
      [] result = "none"       -> {}

workflow_finish(k) ==
    /\ requests[k].phase = "running"
    /\ \E outcome \in outcomes(requests[k].result) :
          moved(k, [requests[k] EXCEPT !.phase = outcome])

workflow_cancel(k) ==
    /\ requests[k].phase \in {"queued", "running"}
    /\ moved(k, [requests[k] EXCEPT !.phase = "cancelled"])

RequestStep(k) ==
    \/ workflow_claim_monitor(k)
    \/ workflow_retry(k)
    \/ ingestion_dispatch(k)
    \/ \E result \in Results \ {"none"} : workflow_complete_monitor(k, result)
    \/ workflow_finish(k)
    \/ workflow_cancel(k)

\* The database clock.
Clock ==
    /\ \E t \in Times :
          /\ t # now /\ now' = t
          /\ set_back' = IF t < now THEN set_back + 1 ELSE set_back
    /\ set_back' <= MaxSetBacks
    /\ UNCHANGED <<calls, revisions, state, slots, missed, requests>>

Next ==
    \/ /\ UNCHANGED set_back
       /\ \/ \E c \in Configs : scheduler_create(c)
          \/ \E expected \in 1..Cardinality(RevisionKeys), key \in RevisionKeys, c \in Configs :
                scheduler_revise(expected, key, c)
          \/ \E o \in Operators : call_tick(o) \/ scheduler_tick(o)
          \/ \E k \in SlotIndexes : RequestStep(k)
    \/ Clock

Spec == Init /\ [][Next]_vars

(***************************************************************************)
(* schedule_snapshot: the health an operator is shown, without a tick.     *)
(***************************************************************************)
next_due_at == scheduler_due(epoch, state.last_slot + 1)

lag ==
    LET due == IF state.unresolved_slot = NoSlot THEN next_due_at
               ELSE slots[state.unresolved_slot].due_at
    IN  IF now > due THEN now - due ELSE 0

budget_full_never == FALSE \* seeded fault: the reservation is not looked at
budget_full == scheduler_budget(slots) + Units > config.budget

health ==
    IF window_expired(now) \/ state.rebase_reason # "null" THEN "rebase_required"
    ELSE IF ~config.active THEN "paused"
    ELSE IF state.failures > 0 THEN "degraded"
    ELSE IF lag > config.lag THEN "lagging"
    ELSE IF state.unresolved_slot # NoSlot \/ state.retry_at > now \/ budget_full THEN "waiting"
    ELSE "ready"

-----------------------------------------------------------------------------
\* Every row has its type.
TypeOK ==
    /\ now \in Times
    /\ calls \in [Operators -> Times \cup {NoTime}]
    /\ \A e \in 1..epoch : revisions[e].config \in Configs /\ revisions[e].first_slot \in 0..(MaxSlot + 1)
    /\ epoch <= Cardinality(RevisionKeys) + 1
    /\ state \in State
    /\ slots \in [SlotIndexes -> Slot]
    /\ missed \subseteq SlotIndexes \X SlotIndexes
    /\ requests \in [SlotIndexes -> Request]

\* No slot is lost or polled twice: every index up to the cursor was either
\* materialized or lies in exactly one missed range, whatever order ticks,
\* pauses, failures and clock jumps came in; only the slot the state row
\* points to is unresolved, and a slot is resolved only once its request
\* has ended.
SlotsAccounted ==
    /\ \A k \in SlotIndexes :
          /\ materialized(k) => k <= state.last_slot
          /\ k <= state.last_slot =>
                Cardinality({m \in missed : m[1] <= k /\ k <= m[2]}) = IF materialized(k) THEN 0 ELSE 1
          /\ materialized(k) /\ ~resolved(k) <=> state.unresolved_slot = k
          /\ materialized(k) <=> requests[k].phase # "absent"
          /\ resolved(k) => requests[k].phase \in Terminal

\* Every slot is compared with the latest eligible result before it, so a
\* reconciliation never moves the baseline back and is never refused, and
\* the unresolved slot never falls out of step with the state row.
BaselineLineage ==
    /\ ~reconcile_refused
    /\ \A k \in SlotIndexes : materialized(k) =>
          LET b == slots[k].baseline
          IN  /\ b # NoSlot => b < k /\ resolved(b) /\ requests[b].phase = "completed"
              /\ \A j \in (b + 1)..(k - 1) : requests[j].phase # "completed"
    /\ \A k \in SlotIndexes :
          resolved(k) /\ requests[k].phase = "completed" => k <= state.baseline_slot
    /\ state.unresolved_slot # NoSlot =>
          slots[state.unresolved_slot].baseline = state.baseline_slot

\* A tick never polls early and never polls an old slot when a newer one is
\* due: the slot it materializes is the latest due, under the revision in
\* force, at the time of the call.
TakesLatestDueSlot ==
    [][\A k \in SlotIndexes : ~materialized(k) /\ materialized(k)' =>
          \E o \in Operators :
              /\ calls[o] # NoTime /\ calls'[o] = NoTime
              /\ slots'[k].epoch = epoch
              /\ slots'[k].due_at <= calls[o]
              /\ \A j \in SlotIndexes : j > k => scheduler_due(epoch, j) > calls[o]]_vars

\* After a check that did not succeed, the next slot waits out the back-off,
\* which doubles with every failure since the last success, also when the
\* schedule is paused, revised and resumed in between.
BackoffSurvivesResume ==
    set_back = 0 => \A j, k \in SlotIndexes :
        /\ j < k /\ materialized(j) /\ materialized(k) /\ requests[j].phase # "completed"
        /\ \A i \in (j + 1)..(k - 1) : ~materialized(i)
        => slots[k].created_at >= slots[j].resolved_at +
              backoff(Cardinality({i \in SlotIndexes :
                          slots[j].baseline < i /\ i < j /\ materialized(i)}))

\* No fetch is dispatched that would exceed the budget of the rolling window
\* as it is now configured, retries and earlier slots included (as long as
\* the clock does not step back).
recent_dispatches ==
    Cardinality({d \in SlotIndexes \X (1..Units) :
        /\ d[2] <= Len(requests[d[1]].dispatched)
        /\ requests[d[1]].dispatched[d[2]] > now - BudgetWindow})

RollingBudget ==
    [][\A k \in SlotIndexes : set_back = 0 /\ requests'[k].dispatched # requests[k].dispatched =>
          recent_dispatches' <= config.budget]_vars

\* What the snapshot tells the operator is what a tick would do: a schedule
\* shown ready materializes a slot exactly when the shown next due time has
\* come, and one shown as needing a rebase does nothing.
HealthAgreesWithTick ==
    created =>
        LET answer == tick_answer(reconciled_state, reconciled_slots, now)
        IN  /\ health = "rebase_required" => answer = "rebase_required"
            /\ health = "ready" /\ nominal_at(state.last_slot + 1) >= InventoryStart =>
                  answer = IF next_due_at <= now THEN "materialized" ELSE "not_due"

\* The slots' requests move only as RequestLifecycle, and so Workflow, lets
\* a request move.
Lifecycle == INSTANCE RequestLifecycle WITH
    Requests <- SlotIndexes,
    MaxAttempts <- [k \in SlotIndexes |-> MaxAttempts],
    lifecycle <- [k \in SlotIndexes |-> [attempt |-> requests[k].attempt, phase |-> requests[k].phase]]

RequestsFollowLifecycle == Lifecycle!Spec

\* A check that ended is reconciled by the next tick, also on a schedule that is
\* paused, out of budget, backing off or past its window: only a clock that
\* went back since the tick was called can make the tick raise.
FinishedCheckIsReconciled ==
    [][\A o \in Operators, k \in SlotIndexes :
         (/\ calls[o] # NoTime /\ calls'[o] = NoTime /\ calls[o] <= now
          /\ requests[k].phase \in Terminal) => resolved(k)']_vars

-----------------------------------------------------------------------------
\* The rows a schedule leaves behind tell its history truly: no slot lost or
\* polled twice, no baseline moved back, no back-off cut short
\* (scheduler_tick, scheduler_reconcile, scheduler_revise).
ScheduleHistory == TypeOK /\ SlotsAccounted /\ BaselineLineage /\ BackoffSurvivesResume

\* What one transaction may do: a tick reconciles a finished check and takes no
\* slot but the latest due, and no dispatch exceeds the budget
\* (scheduler_tick, ingestion_dispatch).
StepsAllowed == TakesLatestDueSlot /\ RollingBudget /\ FinishedCheckIsReconciled
=============================================================================
