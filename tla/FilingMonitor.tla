----------------------------- MODULE FilingMonitor -----------------------------
(***************************************************************************)
(* One logical poll of an issuer's filings after the other                 *)
(* (monitor_pipeline.py): the SEC accepts filings, lists them later, moves *)
(* them from the root document to an older one and may revise their        *)
(* metadata, while polls fetch root and older document at different times, *)
(* crash and are run again.  sec_inventory.py assembles the documents and  *)
(* filing_monitor.py compares them with the baseline, the last eligible    *)
(* poll.  All filings lie in the pinned window and have a verified         *)
(* acceptance time.                                                        *)
(***************************************************************************)
EXTENDS Integers, Sequences, FiniteSets

CONSTANTS Filings,        \* accessions
          Amendments,     \* those whose form ends in /A
          MaxTime,        \* bound on the clock
          MaxPolls,       \* bound on the polls
          MaxExecutions,  \* max_attempts of a poll's request
          MaxRevisions    \* bound on revisions of a filing's metadata

VARIABLES clock,
          sec,            \* what the SEC holds: filing -> acceptance, place, metadata
          captures,       \* what the current poll has captured, over its executions
          poll,           \* the current poll: cutoff, execution and step
          results,        \* results saved for the current poll, by execution
          chain           \* eligible results, the seed first

monitor_vars == <<clock, sec, captures, poll, results, chain>>

none == [none |-> TRUE]
ASSUME BoundsAssumption == {MaxTime, MaxPolls, MaxExecutions} \subseteq Nat \ {0}
ASSUME RevisionsAssumption == MaxRevisions \in Nat
ASSUME FilingsAssumption == IsFiniteSet(Filings) /\ "none" \notin Filings
ASSUME AmendmentsAssumption == Amendments \subseteq Filings

\* A document maps the accessions it lists to their metadata: the acceptance time
\* and a version.  The root also advertises how many filings the older one has;
\* listed, which only the properties use, is what the SEC listed at that moment.
Metadata == [acceptance_at : 0..MaxTime, version : 0..MaxRevisions]
Document == UNION {[S -> Metadata] : S \in SUBSET Filings}
Root == [filings : Document, older_count : 0..Cardinality(Filings), listed : SUBSET Filings]
Place == {"unknown", "accepted", "recent", "older"}
Capture == [root : {none} \cup Root, older : {none} \cup Document]
Comparison == [outcome : {"error", "incomplete", "mixed_changes", "new_filing", "amendment",
                          "no_change"},
               baseline_eligible : BOOLEAN, added : SUBSET Filings]
Result == [comparison : Comparison, captures : Capture, cutoff : 0..MaxTime]

MonitorTypeOK ==
    /\ clock \in 0..MaxTime
    /\ sec \in [Filings -> [place : Place, metadata : Metadata]]
    /\ captures \in Capture
    /\ poll \in [number : 0..MaxPolls, cutoff : 0..MaxTime, execution : 1..MaxExecutions,
                 step : {"idle", "root", "older", "compare", "finish"}, failed : BOOLEAN]
    /\ results \in Seq(Result) /\ chain \in Seq(Result)

empty == [f \in {} |-> none]
seed == [comparison |-> [outcome |-> "no_change", baseline_eligible |-> TRUE, added |-> {}],
         captures |-> [root |-> [filings |-> empty, older_count |-> 0, listed |-> {}], older |-> empty],
         cutoff |-> 0]

MonitorInit ==
    /\ clock = 0
    /\ sec = [f \in Filings |-> [place |-> "unknown",
                                 metadata |-> [acceptance_at |-> 0, version |-> 0]]]
    /\ captures = [root |-> none, older |-> none]
    /\ poll = [number |-> 0, cutoff |-> 0, execution |-> 1, step |-> "idle", failed |-> FALSE]
    /\ results = <<>> /\ chain = <<seed>>

-----------------------------------------------------------------------------
(* The SEC. *)
Tick ==
    /\ clock < MaxTime /\ clock' = clock + 1
    /\ UNCHANGED <<sec, captures, poll, results, chain>>

relocated(f, from, to) ==
    /\ sec[f].place = from
    /\ sec' = [sec EXCEPT ![f].place = to, ![f].metadata.acceptance_at =
                 IF to = "accepted" THEN clock ELSE @]
    /\ UNCHANGED <<clock, captures, poll, results, chain>>

Accept(f) == relocated(f, "unknown", "accepted")
List(f) == relocated(f, "accepted", "recent")
Archive(f) == relocated(f, "recent", "older")

Revise(f) ==
    /\ sec[f].place \in {"recent", "older"} /\ sec[f].metadata.version < MaxRevisions
    /\ sec' = [sec EXCEPT ![f].metadata.version = @ + 1]
    /\ UNCHANGED <<clock, captures, poll, results, chain>>

document(place) ==
    [f \in {g \in Filings : sec[g].place = place} |-> sec[f].metadata]

-----------------------------------------------------------------------------
(* assemble_inventory and compare_inventories. *)

\* Missing or mismatching history, or two versions of a filing, make it incomplete.
history_matches(c) ==
    c.older # none /\ Cardinality(DOMAIN c.older) = c.root.older_count

\* Mutant: the overlap with the window is computed wrongly.
history_required_never(c) == FALSE
history_required(c) == c.root.older_count > 0
\* A filing in both documents is in the inventory twice.
complete(c) ==
    /\ history_required(c) => history_matches(c)
    /\ history_required(c) /\ c.older # none => DOMAIN c.root.filings \cap DOMAIN c.older = {}

inventory(c) ==
    IF ~history_required(c) \/ c.older = none THEN c.root.filings
    ELSE [f \in DOMAIN c.root.filings \cup DOMAIN c.older |->
            IF f \in DOMAIN c.root.filings THEN c.root.filings[f] ELSE c.older[f]]

selected(c, cutoff) ==
    {f \in DOMAIN inventory(c) : inventory(c)[f].acceptance_at <= cutoff}

\* Mutant: what is new is told by its acceptance after the baseline's cutoff.
additions_by_time(baseline, c, cutoff) ==
    {f \in selected(c, cutoff) : inventory(c)[f].acceptance_at > baseline.cutoff}
additions(baseline, c, cutoff) ==
    selected(c, cutoff) \ selected(baseline.captures, baseline.cutoff)

unchanged(baseline, c, cutoff) ==
    \A f \in selected(baseline.captures, baseline.cutoff) :
        f \in selected(c, cutoff) /\ inventory(baseline.captures)[f] = inventory(c)[f]

\* A failed fetch is an error; any flag makes the result incomplete.
comparison(baseline, c, cutoff, failed) ==
    LET whole == ~failed /\ complete(c) /\ unchanged(baseline, c, cutoff)
        added == IF failed THEN {} ELSE additions(baseline, c, cutoff)
    IN  [outcome |->
           CASE failed -> "error"
             [] ~failed /\ ~whole -> "incomplete"
             [] whole /\ added # {} /\ added \cap Amendments = {} -> "new_filing"
             [] whole /\ added # {} /\ added \subseteq Amendments -> "amendment"
             [] whole /\ added = {} -> "no_change"
             [] OTHER -> "mixed_changes",
         baseline_eligible |-> whole, added |-> added]

-----------------------------------------------------------------------------
(* The poll's request and its executions. *)
Enqueue ==
    /\ poll.step = "idle" /\ poll.number < MaxPolls
    /\ poll' = [number |-> poll.number + 1, cutoff |-> clock, execution |-> 1,
                step |-> "root", failed |-> FALSE]
    /\ captures' = [root |-> none, older |-> none]
    /\ results' = <<>>
    /\ UNCHANGED <<clock, sec, chain>>

\* fetch: the first successful observation of the request is kept over its
\* executions.
\* Mutant: every execution looks again.
observed_again(prior, fresh) == fresh
observed(prior, fresh) == IF prior # none THEN prior ELSE fresh

FetchRoot ==
    /\ poll.step = "root"
    /\ \/ /\ captures' = [captures EXCEPT !.root = observed(@,
                 [filings |-> document("recent"),
                  older_count |-> Cardinality(DOMAIN document("older")),
                  listed |-> DOMAIN document("recent") \cup DOMAIN document("older")])]
          /\ poll' = [poll EXCEPT !.step = "older"]
       \/ /\ captures.root = none
          /\ poll' = [poll EXCEPT !.step = "compare", !.failed = TRUE]
          /\ UNCHANGED captures
    /\ UNCHANGED <<clock, sec, results, chain>>

\* Only the history the root advertises is fetched.
FetchOlder ==
    /\ poll.step = "older"
    /\ poll' \in {[poll EXCEPT !.step = "compare"],
                  [poll EXCEPT !.step = "compare", !.failed = TRUE]}
    /\ poll'.failed => history_required(captures) /\ captures.older = none
    /\ captures' = IF history_required(captures) /\ ~poll'.failed
                   THEN [captures EXCEPT !.older = observed(@, document("older"))]
                   ELSE captures
    /\ UNCHANGED <<clock, sec, results, chain>>

\* Mutant: the baseline is never advanced.
baseline_result_seed == chain[1]
baseline_result == chain[Len(chain)]

\* The manifest is archived and complete_filing_monitor saves the result.
SaveResult ==
    /\ poll.step = "compare"
    /\ results' = Append(results,
         [comparison |-> comparison(baseline_result, captures, poll.cutoff, poll.failed),
          captures |-> captures, cutoff |-> poll.cutoff])
    /\ poll' = [poll EXCEPT !.step = "finish"]
    /\ UNCHANGED <<clock, sec, captures, chain>>

\* _finish.  An eligible result is the baseline of the next poll.
Finish ==
    /\ poll.step = "finish"
    /\ chain' = IF results[Len(results)].comparison.baseline_eligible
                THEN Append(chain, results[Len(results)]) ELSE chain
    /\ poll' = [poll EXCEPT !.step = "idle"]
    /\ captures' = [root |-> none, older |-> none] /\ results' = <<>>
    /\ UNCHANGED <<clock, sec>>

may_retry == poll.execution < MaxExecutions

\* The lease lapses anywhere, also between the saved result and the finish.
Crash ==
    /\ poll.step # "idle"
    /\ IF may_retry
       THEN /\ poll' = [poll EXCEPT !.execution = @ + 1, !.step = "root", !.failed = FALSE]
            /\ UNCHANGED <<captures, results>>
       ELSE /\ poll' = [poll EXCEPT !.step = "idle"]
            /\ captures' = [root |-> none, older |-> none] /\ results' = <<>>
    /\ UNCHANGED <<clock, sec, chain>>

MonitorNext ==
    \/ Tick
    \/ \E f \in Filings : Accept(f) \/ List(f) \/ Archive(f) \/ Revise(f)
    \/ Enqueue \/ FetchRoot \/ FetchOlder \/ SaveResult \/ Finish \/ Crash

MonitorSpec == MonitorInit /\ [][MonitorNext]_monitor_vars

-----------------------------------------------------------------------------
reported(k) == chain[k].comparison.added

\* Over the chain of eligible polls a filing is reported once: never again by a
\* later poll, however it moved between documents.
ReportedOnce ==
    \A j, k \in DOMAIN chain : j # k => reported(j) \cap reported(k) = {}

\* After an eligible poll every filing in its documents that was accepted by the
\* cutoff has been reported, by this poll or an earlier one; also one listed long
\* after its acceptance, which the poll of that time could not see.
NothingMissed ==
    \A k \in DOMAIN chain :
        selected(chain[k].captures, chain[k].cutoff) = UNION {reported(j) : j \in 1..k}

\* The documents of an eligible poll miss no filing the SEC had listed when the
\* root was captured, though the older one was captured later, possibly by
\* another execution, and filings moved between them meanwhile.
InventoryWhole ==
    \A k \in DOMAIN chain : k > 1 =>
        chain[k].captures.root.listed \subseteq DOMAIN inventory(chain[k].captures)

\* Running a poll again after a crash cannot contradict what it had saved: two
\* results of one request that are no errors are the same.
SameResultAgain ==
    \A j, k \in DOMAIN results :
        (results[j].comparison.outcome # "error" /\ results[k].comparison.outcome # "error")
            => results[j] = results[k]

\* Over the polls of a chain every filing is reported exactly once
\* (compare_inventories and the baseline of the next poll).
ReportsExact == MonitorTypeOK /\ ReportedOnce /\ NothingMissed

\* The documents a poll compares are as good as one read of the inventory: no
\* filing slips between them, and running it again gives the same result.
PollIsOneRead == InventoryWhole /\ SameResultAgain
=============================================================================
