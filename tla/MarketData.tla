------------------------------ MODULE MarketData ------------------------------
(***************************************************************************)
(* Market data of one reviewed source account (migration 0004, the         *)
(* provider transport and store, the market pipeline and publisher):       *)
(* policy revisions that are activated and disabled while fetches run, the *)
(* reservation of dispatches under account quotas, the transport's retry   *)
(* loop, the recovery of fetch evidence, and the publication of batches    *)
(* that live runs and replays of their captures share.                     *)
(*                                                                         *)
(* A request has one resource, so its stage sequence is fetch, publish,    *)
(* end.  A logical fetch is known by its request and execution, an attempt *)
(* by these and its place in the fetch, a capture by its attempt.  Leases  *)
(* are as in Workflow, kept to the execution a worker holds.               *)
(***************************************************************************)
EXTENDS Integers, FiniteSets, Bags

CONSTANTS Policies,      \* policy revisions of the source
          Requests,      \* requests with a market plan
          Workers,
          Dispatches,    \* 3: tries of a fetch, and attempts of a request's resource
          Quota,         \* hourly_requests
          Hour,          \* length of the rolling window
          ReviewEnds,    \* the last time at which the policies' review is valid
          Horizon,       \* bound on the clock
          MaxExecutions, \* max_attempts of a request
          MaxDisturbed   \* bound on the requests that meet a fault or a wait

VARIABLES policy,        \* source_policy_capabilities
          control,       \* request -> execution number and state
          attempts,      \* source_fetch_attempts that were prepared
          batches,       \* market_data_batches, a bag of evidence
          account,       \* holder of the source's advisory lock 904
          clock,         \* the database's clock
          worker         \* what each worker holds in memory

vars == <<policy, control, attempts, batches, account, clock, worker>>

none == [none |-> TRUE]
idle == [pc |-> "idle"]
ASSUME BoundsAssumption == {Dispatches, Quota, Hour, ReviewEnds, Horizon, MaxExecutions, MaxDisturbed}
                               \subseteq Nat \ {0}
ASSUME WorkersAssumption == none \notin Workers

PolicyState == {"inactive", "active", "disabled"}
Unresolved == {"prepared", "in_progress"}
Outcomes == {"complete", "http_error", "transport_error", "cancelled"}
Keys == Requests \X (1..MaxExecutions) \X (1..Dispatches)
Attempt == [policy : Policies, state : Unresolved \cup Outcomes, prepared_at : 0..Horizon]
Evidence == [captures : SUBSET Keys, attempts : SUBSET Keys, observed : BOOLEAN,
             policy : Policies]
Worker == [pc : {"waiting", "reserving", "prepared", "sent", "fetched", "done"},
           request : Requests, execution : 1..MaxExecutions, policy : Policies,
           began : 0..Horizon, deferred : BOOLEAN]

TypeOK ==
    /\ policy \in [Policies -> PolicyState]
    /\ control \in [Requests -> [execution : 1..MaxExecutions,
                                 state : {"queued", "running", "ended", "failed"}]]
    /\ DOMAIN attempts \subseteq Keys /\ \A a \in DOMAIN attempts : attempts[a] \in Attempt
    /\ IsABag(batches) /\ BagToSet(batches) \subseteq Evidence
    /\ account \in Workers \cup {none}
    /\ clock \in 0..Horizon
    /\ worker \in [Workers -> {idle} \cup Worker]

Init ==
    /\ policy = [p \in Policies |-> "inactive"]
    /\ control = [r \in Requests |-> [execution |-> 1, state |-> "queued"]]
    /\ attempts = EmptyBag /\ batches = EmptyBag
    /\ account = none /\ clock = 0
    /\ worker = [w \in Workers |-> idle]

-----------------------------------------------------------------------------
(* Policies.  Activation replaces the active revision; neither an active   *)
(* nor a disabled revision is activated again.  Both take the account      *)
(* lock.                                                                   *)
reviewed == clock <= ReviewEnds
\* Mutant: the review's end is forgotten.
grants_dispatch_unreviewed(p) == policy[p] = "active"
grants_dispatch(p) == policy[p] = "active" /\ reviewed

ActivatePolicy(p) ==
    /\ account = none
    /\ policy[p] = "inactive" /\ reviewed
    /\ policy' = [q \in Policies |->
                    CASE q = p -> "active"
                      [] q # p /\ policy[q] = "active" -> "disabled"
                      [] OTHER -> policy[q]]
    /\ UNCHANGED <<control, attempts, batches, account, clock, worker>>

DisablePolicy(p) ==
    /\ account = none
    /\ policy[p] = "active"
    /\ policy' = [policy EXCEPT ![p] = "disabled"]
    /\ UNCHANGED <<control, attempts, batches, account, clock, worker>>

Tick ==
    /\ clock < Horizon
    /\ clock' = clock + 1
    /\ UNCHANGED <<policy, control, attempts, batches, account, worker>>

-----------------------------------------------------------------------------
(* The pipeline claims a request and starts its fetch. *)
holds_lease(w) ==
    control[worker[w].request] = [execution |-> worker[w].execution, state |-> "running"]

may_disturb(r) ==
    Cardinality({r} \cup {q \in Requests : control[q].execution > 1}) <= MaxDisturbed

\* What the worker has in memory of its fetch: its attempts and the last of them.
same_fetch(a, b) == a[1] = b[1] /\ a[2] = b[2]
ids(w) == {a \in DOMAIN attempts : same_fetch(a, <<worker[w].request, worker[w].execution, 1>>)}
attempt_key(w, sequence) == <<worker[w].request, worker[w].execution, sequence>>
current_attempt(w) == attempt_key(w, Cardinality(ids(w)))

successful(a) == attempts[a].state = "complete"
captured(a) == attempts[a].state \in {"complete", "http_error"}

claimed(r, p) ==
    [pc |-> "waiting", request |-> r, execution |-> control[r].execution, policy |-> p,
     began |-> clock, deferred |-> FALSE]

\* p is the revision the worker's process is configured with.  One that is not
\* active is refused at its first reservation, as is one disabled after the
\* claim, so only active ones are tried.
Claim(w, r, p) ==
    /\ worker[w] = idle /\ policy[p] = "active"
    /\ control[r].state = "queued"
    /\ control' = [control EXCEPT ![r].state = "running"]
    /\ worker' = [worker EXCEPT ![w] = claimed(r, p)]
    /\ UNCHANGED <<policy, attempts, batches, account, clock>>

-----------------------------------------------------------------------------
(* prepare: one transaction under the account lock, which `began' before the lock was had. *)
\* _reserve.  now() is the start of the transaction, not the time of the insert.
\* Mutant: an attempt exactly an hour old is not counted.
consumed_in_window_open(w) ==
    Cardinality({a \in DOMAIN attempts : attempts[a].prepared_at > worker[w].began - Hour})
consumed_in_window(w) ==
    Cardinality({a \in DOMAIN attempts : attempts[a].prepared_at >= worker[w].began - Hour})
\* Mutant: only the attempts of this execution count.
consumed_by_request_execution(w) ==
    Cardinality({a \in DOMAIN attempts :
        a[1] = worker[w].request /\ a[2] = worker[w].execution})
consumed_by_request(w) ==
    Cardinality({a \in DOMAIN attempts : a[1] = worker[w].request})

within_budget(w) ==
    consumed_by_request(w) < Dispatches /\ consumed_in_window(w) < Quota

\* The result of a fetch that ends without a usable record.
unusable(w) == [worker[w] EXCEPT !.pc = "fetched"]

\* _guard and _reserve, with the lock.
Reserve(w) ==
    /\ worker[w].pc = "waiting" /\ account = none
    /\ \/ /\ holds_lease(w) /\ grants_dispatch(worker[w].policy) /\ within_budget(w)
          /\ account' = w
          /\ worker' = [worker EXCEPT ![w].pc = "reserving", ![w].began = 0]
       \/ /\ holds_lease(w) /\ ~(grants_dispatch(worker[w].policy) /\ within_budget(w))
          /\ worker' = [worker EXCEPT ![w] = unusable(w)]
          /\ UNCHANGED account
       \/ /\ ~holds_lease(w)
          /\ worker' = [worker EXCEPT ![w] = idle]
          /\ UNCHANGED account
    /\ UNCHANGED <<policy, control, attempts, batches, clock>>

prepared_attempt(w) ==
    [policy |-> worker[w].policy, state |-> "prepared", prepared_at |-> clock]

with_attempt(key, row) ==
    [a \in DOMAIN attempts \cup {key} |-> IF a = key THEN row ELSE attempts[a]]

\* ingestion_prepare and commit; market_attempt_policy_guard looks at the
\* policy again.
Prepare(w) ==
    /\ worker[w].pc = "reserving"
    /\ account' = none
    /\ \/ /\ holds_lease(w) /\ grants_dispatch(worker[w].policy)
          /\ attempts' = with_attempt(attempt_key(w, Cardinality(ids(w)) + 1), prepared_attempt(w))
          /\ worker' = [worker EXCEPT ![w].pc = "prepared"]
       \/ /\ holds_lease(w) /\ ~grants_dispatch(worker[w].policy)
          /\ worker' = [worker EXCEPT ![w] = unusable(w)]
          /\ UNCHANGED attempts
       \/ /\ ~holds_lease(w)
          /\ worker' = [worker EXCEPT ![w] = idle]
          /\ UNCHANGED attempts
    /\ UNCHANGED <<policy, control, batches, clock>>

\* finish: the lease is needed, and the retained-content grant, which neither
\* disabling nor expiry takes away.
\* Mutant: the policy must still be active.
may_finish_active(w) == holds_lease(w) /\ grants_dispatch(worker[w].policy)
may_finish(w) == holds_lease(w)

finished(w, outcome) ==
    [attempts EXCEPT ![current_attempt(w)].state = outcome]
refused(w) ==
    worker' = [worker EXCEPT ![w] = IF holds_lease(w) THEN unusable(w) ELSE idle]

\* dispatched, after a permit.  Without a permit, or without an active policy,
\* the attempt is cancelled.
Dispatch(w) ==
    /\ worker[w].pc = "prepared"
    /\ \/ /\ holds_lease(w) /\ grants_dispatch(worker[w].policy)
          /\ attempts' = [attempts EXCEPT ![current_attempt(w)].state = "in_progress"]
          /\ worker' = [worker EXCEPT ![w].pc = "sent"]
       \/ /\ may_finish(w)
          /\ attempts' = finished(w, "cancelled")
          /\ \E wait \in BOOLEAN : (wait => may_disturb(worker[w].request)) /\
               worker' = [worker EXCEPT ![w] = [unusable(w) EXCEPT !.deferred = @ \/ wait]]
       \/ /\ ~may_finish(w) /\ refused(w)
          /\ UNCHANGED attempts
    /\ UNCHANGED <<policy, control, batches, account, clock>>

\* What the worker does with an answer; a retryable one is tried again while
\* the loop and the deadline allow.  A refused redirect is an error with a
\* capture, a permit that ran out one without.
Answers == {"complete", "error", "retryable", "wait", "broken"}
outcome_of(answer) ==
    CASE answer = "complete" -> "complete"
      [] answer \in {"error", "retryable", "wait"} -> "http_error"
      [] answer = "broken" -> "transport_error"
after_answer(w, answer) ==
    IF answer = "retryable" /\ Cardinality(ids(w)) < Dispatches
    THEN [worker[w] EXCEPT !.pc = "waiting", !.began = clock]
    ELSE [worker[w] EXCEPT !.pc = "fetched", !.deferred = answer = "wait"]

Receive(w, answer) ==
    /\ worker[w].pc = "sent" /\ (answer = "wait" => may_disturb(worker[w].request))
    /\ \/ /\ may_finish(w)
          /\ attempts' = finished(w, outcome_of(answer))
          /\ worker' = [worker EXCEPT ![w] = after_answer(w, answer)]
       \/ /\ ~may_finish(w) /\ refused(w)
          /\ UNCHANGED attempts
    /\ UNCHANGED <<policy, control, batches, account, clock>>

-----------------------------------------------------------------------------
(* Publication.  _fetch_history: the attempts of the fetch up to each      *)
(* pinned capture, and the captures of those attempts.                     *)
\* Mutant: only the attempts the result itself names.
fetch_history_of_result(records, named) ==
    [captures |-> records, attempts |-> named]
fetch_history(records, named) ==
    LET recovered == named \cup {a \in DOMAIN attempts : \E c \in records :
                                    same_fetch(a, c) /\ a[3] <= c[3]}
    IN  [captures |-> records \cup {a \in recovered : captured(a)}, attempts |-> recovered]

evidence(records, named, p) ==
    LET history == fetch_history(records, named)
    IN  [captures |-> history.captures, attempts |-> history.attempts,
         observed |-> \E c \in records : successful(c), policy |-> p]

\* _snapshot and market_publish: evidence of the batch's own policy, resolved.
admissible(input) ==
    \A a \in input.attempts \cup input.captures :
        attempts[a].policy = input.policy /\ attempts[a].state \notin Unresolved

\* Lock 905 on source and input hash makes look-up and insert one step.  A
\* published batch with this input is reused.
\* Mutant: every publication inserts.
with_batch_always(input) == batches (+) SetToBag({input})
with_batch(input) ==
    IF BagIn(input, batches) THEN batches ELSE batches (+) SetToBag({input})

\* normalize: without any evidence the stage is blocked; a conflict blocks it too.
blocked(input) == input.attempts = {} \/ ~admissible(input)

Publish(w) ==
    /\ worker[w].pc = "fetched"
    /\ LET input == evidence({a \in ids(w) : captured(a)}, ids(w), worker[w].policy) IN
       \/ /\ holds_lease(w)
          /\ ~blocked(input)
          /\ batches' = with_batch(input)
          /\ worker' = [worker EXCEPT ![w].pc = "done"]
       \/ /\ holds_lease(w)
          /\ blocked(input)
          /\ worker' = [worker EXCEPT ![w].pc = "done"]
          /\ UNCHANGED batches
       \/ /\ ~holds_lease(w)
          /\ worker' = [worker EXCEPT ![w] = idle]
          /\ UNCHANGED batches
    /\ UNCHANGED <<policy, control, attempts, account, clock>>

\* A run with explicit replay records reads a pinned, successful capture back
\* and sends nothing.  All it needs is immutable once the capture is complete, so the run
\* is one step; it can be made any number of times, under any revision.
Replay(p, a) ==
    /\ successful(a)
    /\ LET input == evidence({a}, {}, p) IN
       admissible(input) /\ batches' = with_batch(input)
    /\ UNCHANGED <<policy, control, attempts, account, clock, worker>>

retried(c) ==
    IF c.execution < MaxExecutions THEN [execution |-> c.execution + 1, state |-> "queued"]
    ELSE [c EXCEPT !.state = "failed"]

\* A deferred source ends the execution with a retry, else it is complete.
EndExecution(w) ==
    /\ worker[w].pc = "done"
    /\ LET r == worker[w].request IN
       control' = IF ~holds_lease(w) THEN control
                  ELSE [control EXCEPT ![r] = IF worker[w].deferred THEN retried(@)
                                              ELSE [@ EXCEPT !.state = "ended"]]
    /\ worker' = [worker EXCEPT ![w] = idle]
    /\ UNCHANGED <<policy, attempts, batches, account, clock>>

-----------------------------------------------------------------------------
(* Faults.  A lease expires; a worker that died is one that takes no step   *)
(* until then, except that its open transaction rolls back.                *)
ExpireLease(r) ==
    /\ control[r].state = "running" /\ may_disturb(r)
    /\ control' = [control EXCEPT ![r] = retried(@)]
    /\ UNCHANGED <<policy, attempts, batches, account, clock, worker>>

Die(w) ==
    /\ worker[w].pc = "reserving" /\ may_disturb(worker[w].request)
    /\ worker' = [worker EXCEPT ![w] = idle]
    /\ account' = none
    /\ UNCHANGED <<policy, control, attempts, batches, clock>>

Next ==
    \/ \E p \in Policies : ActivatePolicy(p) \/ DisablePolicy(p)
    \/ Tick
    \/ \E w \in Workers :
         \/ \E r \in Requests, p \in Policies : Claim(w, r, p)
         \/ Reserve(w) \/ Prepare(w) \/ Dispatch(w)
         \/ \E answer \in Answers : Receive(w, answer)
         \/ Publish(w) \/ EndExecution(w) \/ Die(w)
    \/ \E p \in Policies, a \in DOMAIN attempts : Replay(p, a)
    \/ \E r \in Requests : ExpireLease(r)

Spec == Init /\ [][Next]_vars

-----------------------------------------------------------------------------
\* The account's rolling quota is never exceeded: counted back from any
\* reservation over the full closed window, there are at most Quota of them,
\* whoever made them and whenever their transactions began.
QuotaKept ==
    \A t \in 0..Horizon :
        Cardinality({a \in DOMAIN attempts : attempts[a].prepared_at \in t..(t + Hour)}) <= Quota

\* A request spends at most three attempts on its resource over all its
\* executions, so a crash or a retry never buys more dispatches.
DispatchBudgetKept ==
    \A r \in Requests :
        Cardinality({a \in DOMAIN attempts : a[1] = r}) <= Dispatches

\* A policy that is disabled, replaced or expires while a fetch runs never
\* leaves the fetch unrecorded: an attempt is unresolved only while a worker is
\* at work on it, or after its execution lost its worker or its lease.
StartedIsResolved ==
    \A a \in DOMAIN attempts : attempts[a].state \in Unresolved =>
        \A w \in Workers :
            (worker[w] # idle /\ holds_lease(w) /\ a \in ids(w))
            => worker[w].pc \in {"prepared", "sent"} /\ a = current_attempt(w)

\* What a batch was made from can be recovered from its one successful capture
\* alone, whatever was fetched later: a replay has the same input and finds the
\* batch instead of publishing another.
ReplayFindsBatch ==
    \A b \in BagToSet(batches) : b.observed =>
        \A c \in {a \in b.captures : successful(a)} : evidence({c}, {}, b.policy) = b

\* Equal evidence is published once, and a published batch rests on resolved
\* attempts of one policy, with exactly one coherent response if it has values.
BatchesDistinctAndResolved ==
    \A b \in BagToSet(batches) :
        /\ batches[b] = 1
        /\ \A a \in b.attempts : attempts[a].state \in Outcomes /\ attempts[a].policy = b.policy
        /\ b.observed => Cardinality({a \in b.captures : successful(a)}) = 1

\* Nothing is sent under a policy that is not in force at the time, however long
\* before the dispatch the attempt was reserved, and a revision once disabled
\* stays disabled.
SentUnderActivePolicy ==
    [][/\ \A a \in DOMAIN attempts :
            (attempts[a].state = "prepared" /\ attempts'[a].state = "in_progress")
                => policy[attempts[a].policy] = "active" /\ clock <= ReviewEnds
       /\ \A p \in Policies : policy[p] = "disabled" => policy'[p] = "disabled"]_vars

\* Neither the account's quota nor the request's dispatch budget is exceeded,
\* whatever is retried (_reserve of provider_store.py).
BudgetsKept == TypeOK /\ QuotaKept /\ DispatchBudgetKept

\* Every fetch that started is accounted for: resolved, published once, and
\* found again by a replay (provider_store.py, market_pipeline.py).
FetchesAccounted == StartedIsResolved /\ ReplayFindsBatch /\ BatchesDistinctAndResolved
=============================================================================
