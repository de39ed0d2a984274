----------------------------- MODULE Publication -----------------------------
(***************************************************************************)
(* Reviewed inputs, frozen snapshots, immutable results and the latest     *)
(* pointers (migrations 0011 and 0012, the fundamentals and valuation      *)
(* stores, pipelines and read models).  Both kinds of result go through    *)
(* the same four functions - approve, enqueue, freeze, publish - over      *)
(* tables of their own, so one set of actions carries the kind.            *)
(*                                                                         *)
(* A request is known by its request_sequence.  Its execution is kept to   *)
(* what these functions look at: the attempt that a lease names, its state *)
(* and its running stage; Workflow has the whole queue.  A membership is   *)
(* known by its generation: one watchlist, one security, one quote.        *)
(***************************************************************************)
EXTENDS Naturals, Sequences, FiniteSets

CONSTANTS Manifests,     \* canonical fundamentals manifests an owner may approve
          Selector(_),   \* the selector part of a manifest: its compatibility hash
          Plans,         \* valuation inputs: assumptions, price, claims, model
          Outcomes,      \* "completed", "completed_with_gaps": what a payload earns
          Workers,       \* worker processes
          MaxRequests,   \* bound on requests
          MaxReviews,    \* bound on approved reviews
          MaxOrdinary,   \* bound on the requests made without a review
          MaxDisturbed,  \* bound on the requests that are retried or cancelled
          MaxAttempts    \* p_attempts

ASSUME PublicationAssumption ==
    /\ MaxRequests \in Nat /\ MaxReviews \in Nat /\ MaxAttempts \in Nat \ {0}
    /\ Outcomes \cap {"queued", "running", "failed", "cancelled"} = {}

VARIABLES memberships,   \* generation -> removed?
          requests,      \* sequence -> membership, parent and selection
          control,       \* sequence -> attempt, state and running stage
          reviews,       \* fundamentals_input_reviews and valuation_input_reviews, in order
          intents,       \* kind -> request -> review, scope
          inputs,        \* kind -> request -> frozen input snapshot
          results,       \* kind -> request -> published snapshot or model run
          latest,        \* context -> newest request and displayed request
          worker         \* what each worker holds in memory

vars == <<memberships, requests, control, reviews, intents, inputs, results, latest, worker>>

Kinds == {"fundamentals", "valuation"}
Requests == 1..MaxRequests
none == [none |-> TRUE]
idle == [pc |-> "idle"]

\* A review is known by its position in `reviews'.  A valuation review names the
\* saved fundamentals snapshot it was made against, by the snapshot's request.
Review == [kind : {"fundamentals"}, manifest : Manifests]
            \cup [kind : {"valuation"}, manifest : Manifests, plan : Plans, source : Requests]

\* fundamentals: hash of the selector, so the first review with that selector
\* stands for it; valuation: the manifest hash, so the review itself.
compatible(rows, v) ==
    {u \in 1..v : /\ rows[u].kind = "fundamentals"
                 /\ Selector(rows[u].manifest) = Selector(rows[v].manifest)}
compatibility(rows, v) ==
    IF rows[v].kind = "valuation" THEN v
    ELSE CHOOSE u \in compatible(rows, v) : \A t \in compatible(rows, v) : u <= t
context(v, scope) == <<compatibility(reviews, v), scope>>
Contexts == (1..MaxReviews) \X (0..MaxRequests)

selection(v) == Selector(reviews[v].manifest)
open(r) == control[r].state \in {"queued", "running"}

Request == [membership : 0..MaxRequests, parent : 0..MaxRequests,
            selection : {Selector(m) : m \in Manifests}]
Control == [attempt : 1..MaxAttempts, stage : Kinds \cup {"none"},
            state : {"queued", "running", "failed", "cancelled"} \cup Outcomes]
Binding == [review : 1..MaxReviews, scope : 0..MaxRequests]
Result == [attempt : 1..MaxAttempts, outcome : Outcomes]
Work == [pc : {"claimed", "started", "frozen"}, request : Requests,
         attempt : 1..MaxAttempts, kind : Kinds]

TypeOK ==
    /\ memberships \in Seq([removed : BOOLEAN])
    /\ requests \in Seq(Request)
    /\ control \in Seq(Control) /\ Len(control) = Len(requests)
    /\ reviews \in Seq(Review)
    /\ intents \in [Kinds -> [Requests -> Binding \cup {none}]]
    /\ inputs \in [Kinds -> [Requests -> Binding \cup {none}]]
    /\ results \in [Kinds -> [Requests -> Result \cup {none}]]
    /\ latest \in [Contexts -> [request : 0..MaxRequests, snapshot : 0..MaxRequests]]
    /\ worker \in [Workers -> Work \cup {idle}]

Init ==
    /\ memberships = <<>> /\ requests = <<>> /\ control = <<>>
    /\ reviews = <<>>
    /\ intents = [k \in Kinds |-> [r \in Requests |-> none]]
    /\ inputs = intents /\ results = intents
    /\ latest = [c \in Contexts |-> [request |-> 0, snapshot |-> 0]]
    /\ worker = [w \in Workers |-> idle]

-----------------------------------------------------------------------------
(* Reviews.  approve_fixture_manifest returns the prior review of the same *)
(* manifest, so approving twice changes nothing.                           *)
approve(review) ==
    /\ Len(reviews) < MaxReviews
    /\ \A v \in DOMAIN reviews : reviews[v] # review
    /\ reviews' = Append(reviews, review)
    /\ UNCHANGED <<memberships, requests, control, intents, inputs, results, latest, worker>>

ApproveFundamentals(manifest) == approve([kind |-> "fundamentals", manifest |-> manifest])

\* Mutant: any earlier request will do as a source.
source_owned_any(manifest, source) == requests[source].selection = Selector(manifest)

\* valuation_review_guard: the source is a saved fundamentals snapshot with the
\* same manifest and selector.
source_owned(manifest, source) ==
    /\ results["fundamentals"][source] # none
    /\ reviews[inputs["fundamentals"][source].review].manifest = manifest

ApproveValuation(manifest, plan, source) ==
    /\ source_owned(manifest, source)
    /\ approve([kind |-> "valuation", manifest |-> manifest, plan |-> plan, source |-> source])

-----------------------------------------------------------------------------
(* Contexts: the nearest membership along the parents of a request, of    *)
(* which the lineage is the least set that holds it and their parents.    *)
lineage(history, r) ==
    {n \in 1..r : \A S \in SUBSET (1..r) :
        r \in S /\ (\A m \in S : history[m].parent \in S \cup {0}) => n \in S}
in_membership(history, r) == {n \in lineage(history, r) : history[n].membership # 0}

\* A parent is older than its child, so the nearest is the latest.
nearest_membership(history, r) ==
    LET found == in_membership(history, r)
    IN  IF found = {} THEN 0 ELSE history[CHOOSE n \in found : \A m \in found : m <= n].membership

eligible(scope, members) == scope # 0 => ~members[scope].removed

\* INSERT ... ON CONFLICT DO UPDATE ... WHERE the stored sequence is smaller.
with_latest_request(table, c, r) ==
    IF table[c].request < r THEN [table EXCEPT ![c].request = r] ELSE table

\* Mutant: the membership of the request itself, not the nearest in its lineage.
bind_intent_own(v, r, history, members) ==
    LET scope == history[r].membership IN
    /\ eligible(scope, members)
    /\ intents' = [intents EXCEPT ![reviews[v].kind][r] = [review |-> v, scope |-> scope]]
    /\ latest' = with_latest_request(latest, context(v, scope), r)

\* The part of *_enqueue after workflow_enqueue has returned request r.
bind_intent(v, r, history, members) ==
    LET scope == nearest_membership(history, r) IN
    /\ eligible(scope, members)
    /\ intents' = [intents EXCEPT ![reviews[v].kind][r] = [review |-> v, scope |-> scope]]
    /\ latest' = with_latest_request(latest, context(v, scope), r)

\* valuation_enqueue: no watchlist, and a parent that is the reviewed source or
\* another saved valuation run.
parent_allowed(v, parent) ==
    reviews[v].kind = "valuation" =>
        /\ parent # 0
        /\ parent = reviews[v].source \/ results["valuation"][parent] # none

new_request(membership, parent, chosen) ==
    [membership |-> membership, parent |-> parent, selection |-> chosen]
queued == [attempt |-> 1, state |-> "queued", stage |-> "none"]

\* fundamentals_enqueue / valuation_enqueue with a new operation key, as a
\* refresh below an earlier request or as a watchlist add.
EnqueueReview(v, parent, add) ==
    /\ Len(requests) < MaxRequests
    /\ parent_allowed(v, parent)
    /\ add => /\ reviews[v].kind = "fundamentals" /\ parent = 0
              /\ \A g \in DOMAIN memberships : memberships[g].removed
    /\ LET members == IF add THEN Append(memberships, [removed |-> FALSE]) ELSE memberships
           own == IF add THEN Len(members) ELSE 0
           history == Append(requests, new_request(own, parent, selection(v)))
       IN  /\ memberships' = members
           /\ requests' = history
           /\ control' = Append(control, queued)
           /\ bind_intent(v, Len(history), history, members)
    /\ UNCHANGED <<reviews, inputs, results, worker>>

\* workflow_enqueue alone: an ordinary refresh or add, without a review.
ordinary == {r \in DOMAIN requests : \A k \in Kinds : intents[k][r] = none}
EnqueueOrdinary(parent, chosen, add) ==
    /\ Len(requests) < MaxRequests /\ Cardinality(ordinary) < MaxOrdinary
    /\ add => parent = 0 /\ \A g \in DOMAIN memberships : memberships[g].removed
    /\ memberships' = IF add THEN Append(memberships, [removed |-> FALSE]) ELSE memberships
    /\ requests' = Append(requests, new_request(IF add THEN Len(memberships) + 1 ELSE 0,
                                                parent, chosen))
    /\ control' = Append(control, queued)
    /\ UNCHANGED <<reviews, intents, inputs, results, latest, worker>>

\* *_enqueue with the key of a request that exists: the same parameters give
\* the same request, and an intent is added only if none is recorded and the
\* request has not been started.  An equal intent changes nothing.
not_started(r) == control[r].attempt = 1 /\ control[r].state = "queued"
EnqueueReplay(v, r) ==
    /\ requests[r].selection = selection(v)
    /\ parent_allowed(v, requests[r].parent)
    /\ reviews[v].kind = "valuation" => requests[r].membership = 0
    /\ intents[reviews[v].kind][r] = none
    /\ not_started(r)
    /\ bind_intent(v, r, requests, memberships)
    /\ UNCHANGED <<memberships, requests, control, reviews, inputs, results, worker>>

RemoveMembership(g) ==
    /\ ~memberships[g].removed
    /\ memberships' = [memberships EXCEPT ![g].removed = TRUE]
    /\ UNCHANGED <<requests, control, reviews, intents, inputs, results, latest, worker>>

-----------------------------------------------------------------------------
(* A worker runs a stage: run_fundamentals_stage, run_valuation_stage. *)
holds_lease(w) ==
    LET r == worker[w].request IN
    control[r].state = "running" /\ control[r].attempt = worker[w].attempt

Claim(w, r, k) ==
    /\ worker[w] = idle
    /\ control[r].state = "queued"
    /\ intents[k][r] # none
    /\ control' = [control EXCEPT ![r].state = "running"]
    /\ worker' = [worker EXCEPT ![w] =
                    [pc |-> "claimed", request |-> r, attempt |-> control[r].attempt, kind |-> k]]
    /\ UNCHANGED <<memberships, requests, reviews, intents, inputs, results, latest>>

\* A running stage of the kind is reused, else one is started.
StartStage(w) ==
    /\ worker[w].pc = "claimed" /\ holds_lease(w)
    /\ control[worker[w].request].stage \in {"none", worker[w].kind}
    /\ control' = [control EXCEPT ![worker[w].request].stage = worker[w].kind]
    /\ worker' = [worker EXCEPT ![w].pc = "started"]
    /\ UNCHANGED <<memberships, requests, reviews, intents, inputs, results, latest>>

freezable(w) ==
    /\ worker[w].pc = "started" /\ holds_lease(w)
    /\ control[worker[w].request].stage = worker[w].kind
frozen_selection_matches(w) ==
    requests[worker[w].request].selection
        = selection(intents[worker[w].kind][worker[w].request].review)

\* fundamentals_freeze / valuation_freeze: an earlier attempt's input is kept.
Freeze(w) ==
    /\ freezable(w) /\ frozen_selection_matches(w)
    /\ LET r == worker[w].request
           k == worker[w].kind
           v == intents[k][r].review
           scope == nearest_membership(requests, r)
       IN  /\ eligible(scope, memberships)
           /\ IF inputs[k][r] # none
              THEN UNCHANGED <<inputs, latest>>
              ELSE /\ inputs' = [inputs EXCEPT ![k][r] = [review |-> v, scope |-> scope]]
                   /\ latest' = with_latest_request(latest, context(v, scope), r)
    /\ worker' = [worker EXCEPT ![w].pc = "frozen"]
    /\ UNCHANGED <<memberships, requests, control, reviews, intents, results>>

\* Mutant: only an empty pointer is filled.
with_displayed_first(table, c, r) ==
    IF table[c].request = r /\ table[c].snapshot = 0
    THEN [table EXCEPT ![c].snapshot = r] ELSE table

\* Mutant: the last to publish is displayed.
with_displayed_always(table, c, r) == [table EXCEPT ![c].snapshot = r]

\* The result becomes the displayed one only if its request is still the newest.
with_displayed(table, c, r) ==
    IF table[c].request = r THEN [table EXCEPT ![c].snapshot = r] ELSE table

\* Mutant: the lease is not looked at again.
publishable_unfenced(w) == worker[w].pc = "frozen"
publishable(w) ==
    /\ worker[w].pc = "frozen" /\ holds_lease(w)
    /\ control[worker[w].request].stage = worker[w].kind
\* Mutant: the freeze has checked it already.
scope_still_eligible_trusted(input) == TRUE
scope_still_eligible(input) == eligible(input.scope, memberships)

\* fundamentals_publish / valuation_publish: payload, result, stage, execution
\* and pointer in one transaction.  The payload is the reviewed one: any other
\* is refused, and a replay of a committed publication changes nothing.
Publish(w, outcome) ==
    /\ publishable(w)
    /\ LET r == worker[w].request
           k == worker[w].kind
           input == inputs[k][r]
       IN  /\ results[k][r] = none
           /\ scope_still_eligible(input)
           /\ results' = [results EXCEPT ![k][r] =
                            [attempt |-> worker[w].attempt, outcome |-> outcome]]
           /\ control' = [control EXCEPT ![r].state = outcome, ![r].stage = "none"]
           /\ latest' = with_displayed(latest, context(input.review, input.scope), r)
    /\ worker' = [worker EXCEPT ![w] = idle]
    /\ UNCHANGED <<memberships, requests, reviews, intents, inputs>>

\* The worker is told its call failed (lost lease, ineligible membership), has
\* its answer, or dies: what it held in memory is gone.
WorkerStops(w) ==
    /\ worker[w] # idle
    /\ worker' = [worker EXCEPT ![w] = idle]
    /\ UNCHANGED <<memberships, requests, control, reviews, intents, inputs, results, latest>>

\* The lease runs out, or the worker reports an error: workflow_close_retry.
retried(c) ==
    IF c.attempt < MaxAttempts
    THEN [attempt |-> c.attempt + 1, state |-> "queued", stage |-> "none"]
    ELSE [c EXCEPT !.state = "failed", !.stage = "none"]
disturbed_others(r) ==
    {q \in DOMAIN requests \ {r} : control[q].attempt > 1 \/ control[q].state = "cancelled"}
CloseRetry(r) ==
    /\ control[r].state = "running"
    /\ Cardinality(disturbed_others(r)) < MaxDisturbed
    /\ control' = [control EXCEPT ![r] = retried(control[r])]
    /\ UNCHANGED <<memberships, requests, reviews, intents, inputs, results, latest, worker>>

Cancel(r) ==
    /\ open(r)
    /\ Cardinality(disturbed_others(r)) < MaxDisturbed
    /\ control' = [control EXCEPT ![r].state = "cancelled", ![r].stage = "none"]
    /\ UNCHANGED <<memberships, requests, reviews, intents, inputs, results, latest, worker>>

WorkerStep(w) ==
    \/ \E r \in DOMAIN requests, k \in Kinds : Claim(w, r, k)
    \/ StartStage(w) \/ Freeze(w)
    \/ \E outcome \in Outcomes : Publish(w, outcome)
    \/ WorkerStops(w)

Client ==
    \/ \E m \in Manifests : ApproveFundamentals(m)
    \/ \E m \in Manifests, p \in Plans, r \in DOMAIN requests : ApproveValuation(m, p, r)
    \/ \E v \in DOMAIN reviews, parent \in {0} \cup DOMAIN requests, add \in BOOLEAN :
         EnqueueReview(v, parent, add)
    \/ \E chosen \in {Selector(m) : m \in Manifests},
         parent \in {0} \cup DOMAIN requests, add \in BOOLEAN :
         EnqueueOrdinary(parent, chosen, add)
    \/ \E v \in DOMAIN reviews, r \in DOMAIN requests : EnqueueReplay(v, r)
    \/ \E g \in DOMAIN memberships : RemoveMembership(g)
    \/ \E r \in DOMAIN requests : Cancel(r)

Next ==
    \/ Client
    \/ \E w \in Workers : WorkerStep(w)
    \/ \E r \in DOMAIN requests : CloseRetry(r)

Spec == Init /\ [][Next]_vars

-----------------------------------------------------------------------------
(* The read model: get_latest of both stores. *)
get_latest(c) ==
    IF latest[c].request = 0 \/ ~eligible(c[2], memberships) THEN none
    ELSE [request |-> latest[c].request, state |-> control[latest[c].request].state,
          snapshot |-> latest[c].snapshot]

\* What a reader is shown is the newest publication of its context: once a
\* request has published, a reader is told of that request or a newer one, and
\* of its own result if it is the newest (the conditional UPDATE of *_publish).
LatestIsNewest ==
    \A k \in Kinds, r \in Requests :
        results[k][r] # none =>
            LET c == context(inputs[k][r].review, inputs[k][r].scope)
                seen == get_latest(c)
            IN  /\ seen = none => ~eligible(c[2], memberships)
                /\ seen # none => seen.request >= r
                /\ seen # none /\ seen.request = r =>
                     seen.snapshot = r /\ seen.state = results[k][r].outcome

\* A pointer row only holds requests and results of its own context: same kind,
\* same compatibility, and the membership that is nearest in the request's
\* lineage.  The latest_guard triggers therefore never refuse a write.
LatestInContext ==
    \A c \in Contexts :
        LET row == latest[c]
            k == reviews[c[1]].kind
        IN
        /\ row.request # 0 =>
             /\ intents[k][row.request] # none
             /\ context(intents[k][row.request].review,
                        nearest_membership(requests, row.request)) = c
        /\ row.snapshot # 0 =>
             /\ results[k][row.snapshot] # none
             /\ context(inputs[k][row.snapshot].review, inputs[k][row.snapshot].scope) = c

\* A request publishes at most one result of one kind, under the attempt that
\* finished it, from an input frozen for the review it was enqueued with; no
\* retry, takeover or stale worker adds a second.
PublishedOnce ==
    \A k \in Kinds, r \in Requests :
        results[k][r] # none =>
            /\ control[r].state = results[k][r].outcome
            /\ control[r].attempt = results[k][r].attempt
            /\ inputs[k][r].review = intents[k][r].review
            /\ \A other \in Kinds \ {k} : results[other][r] = none

\* A result is never published into a membership that has been removed, however
\* long before the removal its inputs were frozen; a stock added again starts
\* without the results of its earlier generation.
RemovedMembershipGetsNoResult ==
    [][\A k \in Kinds, r \in Requests :
         (results[k][r] = none /\ results'[k][r] # none)
            => eligible(nearest_membership(requests, r), memberships)]_vars

\* A saved valuation rests on a saved fundamentals snapshot reached through its
\* parents.
ValuationHasSource ==
    \A r \in Requests : results["valuation"][r] # none =>
        /\ results["fundamentals"][reviews[inputs["valuation"][r].review].source] # none
        /\ requests[r].parent # 0

\* Every row of the latest tables is a forward-moving pointer.
Pointer == INSTANCE LatestPointer
             WITH Rows <- Contexts,
                  wanted <- [c \in Contexts |-> latest[c].request],
                  shown <- [c \in Contexts |-> latest[c].snapshot]
LatestRowsImplementPointer == Pointer!Spec

\* A reader sees the newest publication of the context it asks for.
LatestIsRight == TypeOK /\ LatestIsNewest /\ LatestInContext

\* A result is published once, by the attempt that finished the request, from
\* what was reviewed and, for a valuation, from saved fundamentals.
ResultsAreRight == PublishedOnce /\ ValuationHasSource
=============================================================================
