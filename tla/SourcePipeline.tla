---------------------------- MODULE SourcePipeline ----------------------------
(***************************************************************************)
(* The SEC source pipeline (pipeline.py), alone, as a bootstrap, as an     *)
(* archive replay and inside an analysis run (analysis_pipeline.py), with  *)
(* the publication of its normalisation batch (publisher.py).              *)
(*                                                                         *)
(* A stage is opened in one transaction and closed in a later one; the     *)
(* fetch, the parse or the normalisation happens in between, and there the *)
(* lease may lapse.  Publication is one transaction that takes the issuer's*)
(* lock and then finds or inserts the identity rows (periods, units) that  *)
(* batches of all issuers share.  Fencing of stale workers is the subject  *)
(* of Workflow and Publication: here a worker whose lease lapsed is one    *)
(* that takes no further step.                                             *)
(***************************************************************************)
EXTENDS Integers, Sequences, FiniteSets, Bags

CONSTANTS Requests,
          Issuers,
          Scenarios,      \* requests -> kind of run and issuer, the cases to consider
          MaxExecutions,  \* max_attempts
          MaxDisturbed,   \* bound on the requests that lose a lease or must wait
          SharedRows      \* natural keys of identity rows, in the order of their ids

VARIABLES given,          \* request -> kind of run and issuer
          request,        \* request -> execution number and state
          lapsed,         \* request -> its lease has expired
          stages,         \* request -> stage attempts of the current execution
          run,            \* request -> the worker's memory
          rows,           \* identity row -> request that inserted it, or none
          open,           \* request -> 0 and the rows its open transaction has, or nothing
          batches         \* published normalisation batches, a bag

vars == <<given, request, lapsed, stages, run, rows, open, batches>>

none == "none"
idle == [at |-> "idle"]
ASSUME RequestsAssumption == none \notin Requests
ASSUME BoundsAssumption == {MaxExecutions, MaxDisturbed, SharedRows} \subseteq Nat \ {0}
Kinds == {"live", "replay", "analysis", "bootstrap"}
ASSUME ScenariosAssumption == Scenarios \subseteq [Requests -> [kind : Kinds, issuer : Issuers]]

Fetches == {"companyfacts", "submissions", "history", "documents"}
SourceStages == Fetches \cup {"parse", "inventory"}
StageKeys == SourceStages \cup {"bootstrap_manifest", "normalization", "sec_sources", "valuation"}
\* The stage that is running, whether a source stage ended otherwise than
\* completed, and whether a normalisation was completed.
Stages == [running : StageKeys \cup {none}, blocked : BOOLEAN, normalized : BOOLEAN]
Terminal == {"completed", "completed_with_gaps", "waiting_for_input", "failed"}
\* at: the stage that is open or next; what was learnt so far.
Memory == [at : StageKeys \cup {"decide", "publish", "market", "end"},
           facts : BOOLEAN, gap : BOOLEAN, deferred : BOOLEAN,
           inventory : {"unknown", "complete", "incomplete"}, sec : {none} \cup Terminal]
Input == [issuer : Issuers, request : Requests \cup {none}, execution : 0..MaxExecutions,
          complete : BOOLEAN]

TypeOK ==
    /\ given \in Scenarios
    /\ request \in [Requests -> [execution : 1..MaxExecutions,
                                 state : {"queued", "running"} \cup Terminal]]
    /\ lapsed \in [Requests -> BOOLEAN]
    /\ stages \in [Requests -> Stages]
    /\ run \in [Requests -> {idle} \cup Memory]
    /\ rows \in [1..SharedRows -> Requests \cup {none}]
    /\ open \in [Requests -> SUBSET (0..SharedRows)]
    /\ IsABag(batches) /\ BagToSet(batches) \subseteq Input

no_stages == [running |-> none, blocked |-> FALSE, normalized |-> FALSE]

Init ==
    /\ given \in Scenarios
    /\ request = [r \in Requests |-> [execution |-> 1, state |-> "queued"]]
    /\ lapsed = [r \in Requests |-> FALSE]
    /\ stages = [r \in Requests |-> no_stages]
    /\ run = [r \in Requests |-> idle]
    /\ rows = [k \in 1..SharedRows |-> none]
    /\ open = [r \in Requests |-> {}]
    /\ batches = EmptyBag

-----------------------------------------------------------------------------
bootstrap(r) == given[r].kind = "bootstrap"
finalize_execution(r) == given[r].kind # "analysis"

at(r, key) == run[r] # idle /\ run[r].at = key /\ ~lapsed[r]
in_stage(r, key) == at(r, key) /\ stages[r].running = key

may_disturb(r) ==
    Cardinality({r} \cup {q \in Requests : request[q].execution > 1 \/ lapsed[q]}) <= MaxDisturbed

Claim(r) ==
    /\ request[r].state = "queued"
    /\ request' = [request EXCEPT ![r].state = "running"]
    /\ lapsed' = [lapsed EXCEPT ![r] = FALSE]
    /\ stages' = [stages EXCEPT ![r] = no_stages]
    /\ run' = [run EXCEPT ![r] = [at |-> "companyfacts", facts |-> FALSE, gap |-> FALSE,
                                  deferred |-> FALSE, inventory |-> "unknown", sec |-> none]]
    /\ UNCHANGED <<given, rows, open, batches>>

\* start_stage.
OpenStage(r) ==
    /\ run[r] # idle /\ run[r].at \in StageKeys
    /\ at(r, run[r].at) /\ stages[r].running = none
    /\ stages' = [stages EXCEPT ![r].running = run[r].at]
    /\ UNCHANGED <<given, request, lapsed, run, rows, open, batches>>

\* finish_stage, and what the worker remembers of it.
ended_stage(r, key, completed) ==
    [stages EXCEPT ![r].running = none,
                   ![r].blocked = @ \/ (key \in SourceStages /\ ~completed)]
close(r, key, completed, memory) ==
    /\ in_stage(r, key)
    /\ stages' = ended_stage(r, key, completed)
    /\ run' = [run EXCEPT ![r] = memory]
    /\ UNCHANGED <<given, request, lapsed, rows, open, batches>>

\* The stage after a fetch.  Without a usable root there is no inventory, which
\* is a gap; a bootstrap also has a gap without company facts.
after_fetch(r, key, usable) ==
    CASE key = "companyfacts" -> "submissions"
      [] key = "submissions" -> IF usable THEN "parse" ELSE "documents"
      [] key = "history" -> "inventory"
      [] key = "documents" -> IF bootstrap(r) THEN "bootstrap_manifest" ELSE "decide"

\* outcome: one usable record, a gap, or a source that must be tried again later.
\* Only a live run can meet the last.
Fetch(r, key, outcome) ==
    /\ outcome = "later" => given[r].kind # "replay" /\ may_disturb(r)
    /\ close(r, key, outcome = "usable",
             [run[r] EXCEPT !.at = after_fetch(r, key, outcome = "usable"),
                            !.facts = @ \/ (key = "companyfacts" /\ outcome = "usable"),
                            !.gap = @ \/ outcome # "usable",
                            !.inventory = IF key = "history" /\ outcome # "usable"
                                          THEN "incomplete" ELSE @,
                            !.deferred = @ \/ outcome = "later"])

\* A root a bootstrap cannot parse is a gap; any other run fails (see Raise).
Parse(r, valid) ==
    /\ valid \/ bootstrap(r)
    /\ close(r, "parse", valid,
             [run[r] EXCEPT !.at = IF valid THEN "history" ELSE "documents",
                            !.gap = @ \/ ~valid])

\* assemble_inventory: history that is missing makes it incomplete, as may flags.
Inventory(r, flagged) ==
    LET whole == ~flagged /\ run[r].inventory # "incomplete" IN
    close(r, "inventory", whole,
          [run[r] EXCEPT !.at = "documents", !.gap = @ \/ ~whole,
                         !.inventory = IF whole THEN "complete" ELSE "incomplete"])

\* complete_bootstrap_stage, with the archived manifest and the readiness.
Manifest(r) ==
    close(r, "bootstrap_manifest", TRUE, [run[r] EXCEPT !.at = "decide"])

-----------------------------------------------------------------------------
(* The end of an execution. *)
closed(c) ==
    IF c.execution < MaxExecutions THEN [execution |-> c.execution + 1, state |-> "queued"]
    ELSE [c EXCEPT !.state = "failed"]

ended(r, control) ==
    /\ request' = [request EXCEPT ![r] = control]
    /\ run' = [run EXCEPT ![r] = idle]
    /\ UNCHANGED <<given, lapsed, stages, rows, open, batches>>

\* What the SEC part leaves to an analysis run.
sec_result(r, state) ==
    /\ run' = [run EXCEPT ![r].at = "market", ![r].sec = state]
    /\ UNCHANGED <<given, request, lapsed, stages, rows, open, batches>>

\* A deferred source is retried and nothing is normalised; a bootstrap is complete.
Decide(r) ==
    /\ at(r, "decide")
    /\ \/ run[r].deferred /\ finalize_execution(r) /\ ended(r, closed(request[r]))
       \/ run[r].deferred /\ ~finalize_execution(r) /\ sec_result(r, none)
       \/ /\ ~run[r].deferred /\ bootstrap(r)
          /\ ended(r, [request[r] EXCEPT !.state =
                         IF run[r].gap THEN "completed_with_gaps" ELSE "completed"])
       \/ /\ ~run[r].deferred /\ ~bootstrap(r)
          /\ run' = [run EXCEPT ![r].at = "normalization"]
          /\ UNCHANGED <<given, request, lapsed, stages, rows, open, batches>>

\* build_inputs finds nothing reviewed, or there are no company facts.
Block(r) ==
    close(r, "normalization", FALSE,
          [run[r] EXCEPT !.at = IF finalize_execution(r) THEN "end" ELSE "market",
                         !.sec = "waiting_for_input"])

\* _pin_context and source.normalize; the manifest is archived.
Normalize(r) ==
    /\ in_stage(r, "normalization") /\ run[r].facts
    /\ run' = [run EXCEPT ![r].at = "publish"]
    /\ UNCHANGED <<given, request, lapsed, stages, rows, open, batches>>

\* A ValueError or ArchiveError: the open stage fails, then the execution, or the
\* analysis run goes on without this source.
raised(r, key) ==
    /\ stages' = ended_stage(r, key, FALSE)
    /\ run' = [run EXCEPT ![r] = [@ EXCEPT !.at = IF finalize_execution(r) THEN "end"
                                                  ELSE "sec_sources",
                                           !.sec = "failed"]]

Raise(r) ==
    /\ \E key \in SourceStages \cup {"bootstrap_manifest", "normalization"} :
         in_stage(r, key) /\ raised(r, key)
    /\ UNCHANGED <<given, request, lapsed, rows, open, batches>>

NoteFailure(r) ==
    close(r, "sec_sources", FALSE, [run[r] EXCEPT !.at = "market"])

\* run_market_stages, from its side only (see MarketData).
Market(r, deferred) ==
    /\ at(r, "market") /\ (deferred => may_disturb(r))
    /\ run' = [run EXCEPT ![r].deferred = @ \/ deferred,
                          ![r].at = IF run[r].deferred \/ deferred THEN "end" ELSE "valuation"]
    /\ UNCHANGED <<given, request, lapsed, stages, rows, open, batches>>

Valuation(r) ==
    close(r, "valuation", FALSE, [run[r] EXCEPT !.at = "end"])

\* finish_execution or retry_execution; the former refuses while a stage is running.
End(r) ==
    /\ at(r, "end")
    /\ IF run[r].deferred /\ ~finalize_execution(r) THEN ended(r, closed(request[r]))
       ELSE /\ stages[r].running = none
            /\ ended(r, [request[r] EXCEPT !.state =
                 CASE run[r].sec = "waiting_for_input" -> "waiting_for_input"
                   [] run[r].sec = "failed" /\ finalize_execution(r) -> "failed"
                   [] OTHER -> "completed_with_gaps"])

-----------------------------------------------------------------------------
(* publish_bundle.  READ COMMITTED; the issuer's advisory lock, then the    *)
(* identity rows, each found or inserted.  An insert waits for a           *)
(* transaction that has inserted the same key.                             *)
in_transaction(r) == open[r] # {}

\* Mutant: rows in the order the bundle happens to hold them.
identity_order_unsorted(r, n) == IF given[r].issuer = CHOOSE i \in Issuers : TRUE
                                 THEN n ELSE SharedRows + 1 - n
identity_order(r, n) == n

\* Mutant: only the inventory decides on completeness.
pinned_input_inventory(r) ==
    [issuer |-> given[r].issuer, request |-> r, execution |-> request[r].execution,
     complete |-> run[r].inventory = "complete"]
pinned_input(r) ==
    [issuer |-> given[r].issuer,
     request |-> IF given[r].kind = "replay" THEN none ELSE r,
     execution |-> IF given[r].kind = "replay" THEN 0 ELSE request[r].execution,
     complete |-> ~run[r].gap /\ run[r].inventory = "complete"]

BeginPublish(r) ==
    /\ at(r, "publish") /\ stages[r].running = "normalization" /\ ~in_transaction(r)
    /\ \A q \in Requests : in_transaction(q) => given[q].issuer # given[r].issuer
    /\ open' = [open EXCEPT ![r] = {0}]
    /\ UNCHANGED <<given, request, lapsed, stages, run, rows, batches>>

identified(r) == open[r] = 0..SharedRows
next_row(r) == identity_order(r, Cardinality(open[r]))
holder(k) == {q \in Requests : in_transaction(q) /\ rows[k] = q /\ k \in open[q]}

Identify(r) ==
    /\ in_transaction(r) /\ ~identified(r)
    /\ ~BagIn(pinned_input(r), batches)
    /\ holder(next_row(r)) \subseteq {r}
    /\ open' = [open EXCEPT ![r] = @ \cup {next_row(r)}]
    /\ rows' = [rows EXCEPT ![next_row(r)] = IF @ = none THEN r ELSE @]
    /\ UNCHANGED <<given, request, lapsed, stages, run, batches>>

\* Mutant: the reuse of a published batch is dropped.
with_batch_always(r) == batches (+) SetToBag({pinned_input(r)})
with_batch(r) ==
    IF BagIn(pinned_input(r), batches) THEN batches
    ELSE batches (+) SetToBag({pinned_input(r)})

\* The batch, and the stage with it: _check_stage wants an unexpired lease again.
completed_stage(r) == [stages EXCEPT ![r].running = none, ![r].normalized = TRUE]

CommitPublish(r) ==
    /\ in_transaction(r) /\ ~lapsed[r]
    /\ BagIn(pinned_input(r), batches) \/ identified(r)
    /\ batches' = with_batch(r)
    /\ stages' = completed_stage(r)
    /\ open' = [open EXCEPT ![r] = {}]
    /\ run' = [run EXCEPT ![r] = [@ EXCEPT !.at = IF finalize_execution(r) THEN "valuation"
                                                  ELSE "market",
                                           !.sec = "completed_with_gaps"]]
    /\ UNCHANGED <<given, request, lapsed, rows>>

\* Mutant: rows survive the transaction that inserted them.
rolled_back_never(r) == rows
rolled_back(r) == [k \in 1..SharedRows |-> IF rows[k] = r /\ k \in open[r] THEN none ELSE rows[k]]

\* PublicationConflict: a pinned row or identity differs from the database's; not
\* while the publication waits for a row that another one inserts.
Conflict(r) ==
    /\ in_transaction(r) /\ ~lapsed[r]
    /\ ~identified(r) => holder(next_row(r)) \subseteq {r}
    /\ open' = [open EXCEPT ![r] = {}]
    /\ rows' = rolled_back(r)
    /\ raised(r, "normalization")
    /\ UNCHANGED <<given, request, lapsed, batches>>

\* The worker dies or its lease lapsed: rollback.
Rollback(r) ==
    /\ in_transaction(r) /\ lapsed[r]
    /\ open' = [open EXCEPT ![r] = {}]
    /\ rows' = rolled_back(r)
    /\ run' = [run EXCEPT ![r] = idle]
    /\ UNCHANGED <<given, request, lapsed, stages, batches>>

-----------------------------------------------------------------------------
Lapse(r) ==
    /\ request[r].state = "running" /\ ~lapsed[r] /\ may_disturb(r)
    /\ lapsed' = [lapsed EXCEPT ![r] = TRUE]
    /\ UNCHANGED <<given, request, stages, run, rows, open, batches>>

\* Mutant: the running stage is forgotten.
abandoned_stages_kept(r) == stages
abandoned_stages(r) == [stages EXCEPT ![r].running = none]

\* The next claim closes the lapsed execution and its running stages.  The
\* publication holds the execution's row, so not during one.
Requeue(r) ==
    /\ request[r].state = "running" /\ lapsed[r] /\ ~in_transaction(r)
    /\ request' = [request EXCEPT ![r] = closed(@)]
    /\ stages' = abandoned_stages(r)
    /\ run' = [run EXCEPT ![r] = idle]
    /\ UNCHANGED <<given, lapsed, rows, open, batches>>

Work(r) ==
    \/ Claim(r) \/ OpenStage(r)
    \/ \E key \in Fetches, outcome \in {"usable", "gap", "later"} : Fetch(r, key, outcome)
    \/ \E b \in BOOLEAN : Parse(r, b) \/ Inventory(r, b) \/ Market(r, b)
    \/ Manifest(r) \/ Decide(r) \/ Block(r) \/ Normalize(r) \/ Raise(r) \/ NoteFailure(r)
    \/ Valuation(r) \/ End(r)
    \/ BeginPublish(r) \/ Identify(r) \/ CommitPublish(r) \/ Conflict(r) \/ Rollback(r)
    \/ Requeue(r)

Next == \E r \in Requests : Work(r) \/ Lapse(r)
Spec == Init /\ [][Next]_vars

-----------------------------------------------------------------------------
\* A publication waits for the one that has its issuer's lock, or inserted the
\* row it comes to next.
waits_for(r, q) ==
    /\ q # r /\ in_transaction(q)
    /\ \/ at(r, "publish") /\ ~in_transaction(r) /\ given[q].issuer = given[r].issuer
       \/ in_transaction(r) /\ ~identified(r) /\ q \in holder(next_row(r))

\* Publications that share periods and units never come to a circular wait, as
\* every bundle lists its rows in the order of their ids.
NoCircularWait ==
    \A Q \in SUBSET Requests : Q # {} => \E r \in Q : \A q \in Q : ~waits_for(r, q)

\* Until every request has its outcome some worker can go on without a fault to
\* free it, and no error path ends in a call that the database refuses.
SomeoneMoves ==
    \/ \A r \in Requests : request[r].state \in Terminal
    \/ ENABLED (\E r \in Requests : Work(r))

\* Nobody waits for ever, whoever shares rows with whom and wherever workers
\* stop (publisher.py, pipeline.py).
NeverStuck == NoCircularWait /\ SomeoneMoves

\* A batch is there exactly when the stage that made it is complete: a crash
\* between the two cannot leave one without the other, and equal inputs are
\* published once.
BatchWithStage ==
    /\ \A b \in BagToSet(batches) : batches[b] = 1
    /\ \A r \in Requests : given[r].kind # "replay" /\ request[r].state # "queued" =>
         (stages[r].normalized <=> \E b \in BagToSet(batches) :
                                      b.request = r /\ b.execution = request[r].execution)

\* A batch claims complete history only if every source stage of its own
\* execution ended well: what was missed cannot be forgotten on the way.
CompleteMeansWhole ==
    \A r \in Requests : \A b \in BagToSet(batches) :
        (b.request = r /\ b.execution = request[r].execution /\ request[r].state # "queued")
            => (b.complete => ~stages[r].blocked)

\* Rows inserted by a transaction that is not committed are never part of a
\* published batch's evidence: a rolled back publication leaves none behind.
NoOrphanRows ==
    \A k \in 1..SharedRows : rows[k] # none =>
        \/ in_transaction(rows[k]) /\ k \in open[rows[k]]
        \/ \E b \in BagToSet(batches) : b.issuer = given[rows[k]].issuer

\* An execution never ends with a stage of its own still running, whichever way
\* it ended, and an ended bootstrap never normalised anything.
NothingLeftRunning ==
    \A r \in Requests : request[r].state # "running" =>
        stages[r].running = none /\ (bootstrap(r) => ~stages[r].normalized)

\* A batch, its rows and the stage that made it stand or fall together, across
\* crashes, replays and concurrent publications (publisher.py, pipeline.py).
BatchesWhole ==
    TypeOK /\ BatchWithStage /\ CompleteMeansWhole /\ NoOrphanRows /\ NothingLeftRunning
=============================================================================
