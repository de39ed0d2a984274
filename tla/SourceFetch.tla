---------------------------- MODULE SourceFetch ----------------------------
(***************************************************************************)
(* Executions of one request fetch one SEC resource.  Each worker runs the *)
(* pipeline's fetch step and SecTransport.fetch; every call to PostgreSQL, *)
(* to the limiter, to the server and to the file system is a step of its   *)
(* own, so that a lost lease, a crash or the next execution may come in    *)
(* between.  Rows of source_fetch_attempts are kept per execution, in the  *)
(* order of their sequence_no; an attempt is named by the pair of both,    *)
(* and so is the capture that completes it and the file with its bytes.    *)
(*                                                                         *)
(* Which lease is live is Workflow's business; here one execution at a     *)
(* time holds it and a lost lease never comes back (Workflow's theorems    *)
(* OneHolder and LostLeases).                                              *)
(***************************************************************************)
EXTENDS Integers, Sequences, FiniteSets

CONSTANTS
    MaxExecutions,      \* bound: the most attempts of a request
    MaxRows,            \* bound: the most rows of a logical fetch
    Pipelines           \* by name: the callers, and the bounds within which each is examined

Executions == 1..MaxExecutions
Attempts == Executions \X (1..MaxRows)
Base == <<0, 1>>        \* the capture of an earlier request
Keys == Attempts \cup {Base}
None == <<>>

\* monitor: a filing monitor, or another pipeline; modes: the cache modes it
\* asks for; executions: attempts of the request; rows: attempts per logical
\* fetch (3 in the code); responses: what servers answer; damageable: files
\* that may be damaged after they were published.
Response == [status : 200..599, body : STRING, target : BOOLEAN, readable : BOOLEAN,
             retry_after : {"none", "finite", "never"}]
Redirects == {301, 302, 303, 307, 308}      \* the statuses whose Location is looked at
CacheModes == {"refresh", "reuse", "conditional", "replay"}

\* The bodies there are: of answers, of the earlier capture, and none.
Bodies == {"none", "old"} \cup
          {r.body : r \in UNION {Pipelines[n].responses : n \in DOMAIN Pipelines}}

ASSUME SourceFetchAssumption ==
    /\ MaxExecutions \in Nat \ {0} /\ MaxRows \in Nat \ {0}
    /\ \A n \in DOMAIN Pipelines : LET p == Pipelines[n] IN
        /\ p.executions \in Executions /\ p.rows \in 1..MaxRows
        /\ p.monitor \in BOOLEAN
        /\ p.modes \subseteq CacheModes /\ (p.monitor => p.modes = {"conditional"})
        /\ p.responses \subseteq Response
        /\ \A r \in p.responses : r.target => r.status \in Redirects
        /\ p.damageable \subseteq Keys

VARIABLES
    pipeline,           \* the caller's name
    holder,             \* the execution whose lease is live, or 0
    rows,               \* source_fetch_attempts with its payloads
    captures,           \* source_captures
    archive,            \* the files
    worker,             \* the workers' own variables
    sent,               \* attempts whose request went out
    cooled              \* attempts after which a cooldown was recorded

vars == <<pipeline, holder, rows, captures, archive, worker, sent, cooled>>

Monitor == Pipelines[pipeline].monitor
MaxSequence == Pipelines[pipeline].rows
Unfinished == {"prepared", "in_progress"}
Successful == {"complete", "not_modified", "content_unchanged"}
Failed == {"redirected", "http_error", "transport_error", "body_limit", "redirect_refused",
           "archive_error", "cancelled", "interrupted_unknown"}

Row == [state : Unfinished \cup Successful \cup Failed, requested : BOOLEAN, status : 0..599,
        location : BOOLEAN, retry_after : {"none", "finite", "never"},
        completed : Keys \cup {None}, reused : Keys \cup {None}, validator : Keys \cup {None},
        payload : Bodies]

no_response == [status |-> 0, body |-> "none", target |-> FALSE, readable |-> TRUE, retry_after |-> "none"]
no_outcome == [state |-> "cancelled", capture |-> FALSE, reused |-> None, gap |-> "none", then |-> "return"]

idle_worker ==
    [pc |-> "unclaimed", abandoned |-> {}, mode |-> "refresh", cached |-> None, replay |-> None,
     validator |-> None, response |-> no_response, outcome |-> no_outcome,
     records |-> <<>>, outcomes |-> <<>>, gaps |-> {}]

\* An earlier request may have left a capture, with or without validators.
Init ==
    /\ pipeline \in DOMAIN Pipelines
    /\ holder = 0
    /\ rows = [e \in Executions |-> <<>>]
    /\ captures \in {{}} \cup {{[id |-> Base, status |-> 200, body |-> "old", tagged |-> tagged]} :
                                  tagged \in BOOLEAN}
    /\ archive = [k \in Keys |-> IF k = Base THEN "durable" ELSE "none"]
    /\ worker = [e \in Executions |-> idle_worker]
    /\ sent = {}
    /\ cooled = {}

at(e, pc) == worker[e].pc = pc
current(e) == <<e, Len(rows[e])>>
row(k) == rows[k[1]][k[2]]
on_record == {k \in Attempts : k[2] <= Len(rows[k[1]])}
successful(c) == c.status \in 200..299
captured(k) == \E c \in captures : c.id = k /\ successful(c)
capture_of(k) == CHOOSE c \in captures : c.id = k
readable(k) == archive[k] \in {"linked", "durable"}

\* A worker's step that changes only its own variables.
move(e, w) ==
    /\ worker' = [worker EXCEPT ![e] = w]
    /\ UNCHANGED <<holder, rows, captures, archive, sent, cooled>>

\* A worker that returns forgets its other variables.
returned(w, gaps) ==
    [idle_worker EXCEPT !.pc = "returned", !.records = w.records, !.outcomes = w.outcomes,
                        !.gaps = gaps]

(***************************************************************************)
(* The lease.                                                              *)
(***************************************************************************)
Claim(e) ==
    /\ holder = 0 /\ at(e, "unclaimed") /\ e <= Pipelines[pipeline].executions
    /\ \A earlier \in 1..(e - 1) : ~at(earlier, "unclaimed")
    /\ holder' = e
    /\ worker' = [worker EXCEPT ![e].pc = "claimed"]
    /\ UNCHANGED <<rows, captures, archive, sent, cooled>>

\* Expiry, cancellation, a retry or the end of the execution.
LoseLease ==
    /\ holder # 0
    /\ holder' = 0
    /\ UNCHANGED <<rows, captures, archive, worker, sent, cooled>>

\* The lease a call carries passes ingestion_locked_stage.
locked_stage(e) == holder = e

\* ... and the attempt is this lease's and not terminal.
locked_attempt_any(e) == TRUE \* seeded fault: the fence is not checked
locked_attempt(e) == locked_stage(e) /\ row(current(e)).state \in Unfinished

\* A refused call inside SecTransport.fetch.
database_calls == {"fetch", "prepare", "guard", "dispatch", "headers", "payload", "finish"}

LeaseLost_with_record(e) == \* seeded fault: reports a capture that was not recorded
    /\ worker[e].pc \in database_calls /\ ~locked_stage(e)
    /\ ~(at(e, "fetch") /\ worker[e].mode = "replay")
    /\ move(e, [returned(worker[e], {"lease_lost"}) EXCEPT
                  !.records = IF worker[e].outcome.capture THEN Append(@, current(e)) ELSE @])

LeaseLost(e) ==
    /\ worker[e].pc \in database_calls /\ ~locked_stage(e)
    /\ ~(at(e, "fetch") /\ worker[e].mode = "replay")
    /\ move(e, returned(worker[e], {"lease_lost"}))

\* A refused renewal or stage start in the pipeline.
lease_refused(e) ==
    /\ worker[e].pc \in {"claimed", "choose"} /\ ~locked_stage(e)
    /\ move(e, [idle_worker EXCEPT !.pc = "raised"])

\* The process dies; a directory entry that was not synced may be lost.
Crash(e) ==
    /\ worker[e].pc \notin {"unclaimed", "returned", "raised", "dead"}
    /\ worker' = [worker EXCEPT ![e] = [idle_worker EXCEPT !.pc = "dead"]]
    /\ \E lost \in SUBSET {k \in Keys : k[1] = e /\ archive[k] = "linked"} :
          archive' = [k \in Keys |-> IF k \in lost THEN "none" ELSE archive[k]]
    /\ UNCHANGED <<holder, rows, captures, sent, cooled>>

\* A file is damaged or removed after it was published.
Damage(k) ==
    /\ archive[k] = "durable"
    /\ archive' = [archive EXCEPT ![k] = "damaged"]
    /\ UNCHANGED <<holder, rows, captures, worker, sent, cooled>>

(***************************************************************************)
(* The pipeline before the fetch.  A monitor ends the unfinished attempts  *)
(* of other executions first, and replays the request's first observation  *)
(* if there is one.                                                        *)
(***************************************************************************)
abandoned_dispatched(e) == \* seeded fault: forgets attempts not yet dispatched
    {k \in on_record : k[1] # e /\ row(k).state = "in_progress"}
abandoned(e) == {k \in on_record : k[1] # e /\ row(k).state \in Unfinished}

select_abandoned(e) ==
    /\ at(e, "claimed") /\ locked_stage(e)
    /\ move(e, [worker[e] EXCEPT !.pc = IF Monitor THEN "recover" ELSE "choose",
                                 !.abandoned = IF Monitor THEN abandoned(e) ELSE {}])

recovered(r) == [r EXCEPT !.state = "interrupted_unknown"]

ingestion_recover(e, k) ==
    /\ at(e, "recover") /\ k \in worker[e].abandoned
    /\ ~locked_stage(k[1])
    /\ rows' = IF row(k).state \in Unfinished
               THEN [rows EXCEPT ![k[1]][k[2]] = recovered(@)] ELSE rows
    /\ worker' = [worker EXCEPT ![e].abandoned = @ \ {k}]
    /\ UNCHANGED <<holder, captures, archive, sent, cooled>>

all_recovered(e) ==
    /\ at(e, "recover") /\ worker[e].abandoned = {}
    /\ move(e, [worker[e] EXCEPT !.pc = "choose"])

prior_completed == {k \in on_record : row(k).state = "complete"} \* seeded fault
prior == {k \in on_record : row(k).state \in Successful}

observation(k) == IF row(k).completed # None THEN row(k).completed ELSE row(k).reused

choose_monitor(e) ==
    /\ Monitor /\ at(e, "choose") /\ locked_stage(e)
    /\ \/ \E k \in prior :
            /\ \A other \in prior : k[1] <= other[1]
            /\ move(e, [worker[e] EXCEPT !.pc = "fetch", !.mode = "replay", !.replay = observation(k)])
       \/ /\ prior = {}
          /\ move(e, [worker[e] EXCEPT !.pc = "fetch", !.mode = "conditional",
                                       !.cached = IF captured(Base) THEN Base ELSE None])

choose_other(e) ==
    /\ ~Monitor /\ at(e, "choose") /\ locked_stage(e)
    /\ \E mode \in Pipelines[pipeline].modes, k \in {None} \cup {b \in {Base} : captured(b)} :
          move(e, [worker[e] EXCEPT !.pc = "fetch", !.mode = mode,
                                    !.cached = IF mode = "replay" THEN None ELSE k,
                                    !.replay = IF mode = "replay" THEN k ELSE None])

(***************************************************************************)
(* SecTransport.fetch.                                                     *)
(***************************************************************************)
fetch_replay(e) ==
    LET k == worker[e].replay
    IN  /\ at(e, "fetch") /\ worker[e].mode = "replay"
        /\ move(e, IF k = None THEN returned(worker[e], {"capture_unavailable"})
                   ELSE IF readable(k) THEN [returned(worker[e], {}) EXCEPT !.records = <<k>>]
                   ELSE returned(worker[e], {"archive_integrity"}))

verifiable(k) == k # None /\ readable(k)

\* A cached capture that cannot be verified is not used at all.
verified(e) == IF verifiable(worker[e].cached) THEN worker[e].cached ELSE None

conditional(e) ==
    IF worker[e].mode = "conditional" /\ verified(e) # None /\ capture_of(verified(e)).tagged
    THEN verified(e) ELSE None

fetch(e) ==
    /\ at(e, "fetch") /\ worker[e].mode # "replay" /\ locked_stage(e)
    /\ \/ move(e, [worker[e] EXCEPT !.pc = "prepare", !.cached = verified(e),
                                    !.validator = conditional(e)])
       \/ /\ worker[e].mode = "reuse" /\ verified(e) # None      \* fresh enough
          /\ move(e, [returned(worker[e], {}) EXCEPT !.records = <<verified(e)>>])

ingestion_prepare(e) ==
    /\ at(e, "prepare") /\ locked_stage(e)
    /\ Len(rows[e]) < MaxSequence
    /\ \A n \in 1..Len(rows[e]) : rows[e][n].state \notin Unfinished
    /\ rows' = [rows EXCEPT ![e] = Append(@,
          [state |-> "prepared", requested |-> FALSE, status |-> 0, location |-> FALSE,
           retry_after |-> "none", completed |-> None, reused |-> None,
           validator |-> worker[e].validator, payload |-> "none"])]
    /\ worker' = [worker EXCEPT ![e] = [@ EXCEPT !.pc = "acquire", !.response = no_response,
                                                !.outcome = no_outcome]]
    /\ UNCHANGED <<holder, captures, archive, sent, cooled>>

\* The outcome the worker goes on to record: its state, the capture it
\* brings or reuses, the gap it reports, and where it goes next.
concluding(w, state, gap, then) ==
    [w EXCEPT !.pc = "finish", !.response = no_response,
              !.outcome = [state |-> state, capture |-> FALSE, reused |-> None, gap |-> gap,
                           then |-> then]]

\* RateDeferred, CoordinationUnavailable or PermitExpired.
cancelling(w, reason) == concluding(w, "cancelled", reason, "return")

\* TransportError, DispatchDeadline or TransferIncomplete: tried again.
transfer_failed(w) == concluding(w, "transport_error", "none", "retry")

\* BodyLimitExceeded, ContentDecodingError, any other ArchiveError or OSError.
archive_failed(w, state) == concluding(w, state, state, "return")

acquire(e) ==
    /\ at(e, "acquire")
    /\ \/ move(e, [worker[e] EXCEPT !.pc = "guard"])
       \/ \E reason \in {"rate_deferred", "coordination_unavailable"} :
             move(e, cancelling(worker[e], reason))

guard(e) ==
    /\ at(e, "guard") /\ locked_stage(e)
    /\ move(e, [worker[e] EXCEPT !.pc = "dispatch"])

\* The schedule's gate raises an error that fetch does not handle.
dispatch_blocked(e) ==
    /\ Monitor /\ at(e, "dispatch")
    /\ move(e, [idle_worker EXCEPT !.pc = "raised"])

ingestion_dispatch(e) ==
    /\ at(e, "dispatch") /\ locked_attempt(e)
    /\ row(current(e)).state = "prepared"
    /\ rows' = [rows EXCEPT ![e][Len(rows[e])] = [@ EXCEPT !.state = "in_progress", !.requested = TRUE]]
    /\ worker' = [worker EXCEPT ![e].pc = "confirm"]
    /\ UNCHANGED <<holder, captures, archive, sent, cooled>>

confirm(e) ==
    /\ at(e, "confirm")
    /\ \/ move(e, [worker[e] EXCEPT !.pc = "send"])
       \/ move(e, transfer_failed(worker[e]))               \* the deadline passed
       \/ \E reason \in {"permit_expired", "coordination_unavailable"} :
             move(e, cancelling(worker[e], reason))

send_unconfirmed(e) == \* seeded fault: the permit is confirmed after the send
    /\ at(e, "send")
    /\ sent' = sent \cup {current(e)}
    /\ \E w \in {cancelling(worker[e], "permit_expired")} \cup
                {[worker[e] EXCEPT !.pc = "headers", !.response = r] : r \in Pipelines[pipeline].responses} :
          worker' = [worker EXCEPT ![e] = w]
    /\ UNCHANGED <<holder, rows, captures, archive, cooled>>

\* The request goes out; it is answered, or the connection fails.
send(e) ==
    /\ at(e, "send")
    /\ sent' = sent \cup {current(e)}
    /\ \E w \in {transfer_failed(worker[e])} \cup
                {[worker[e] EXCEPT !.pc = "headers", !.response = r] : r \in Pipelines[pipeline].responses} :
          worker' = [worker EXCEPT ![e] = w]
    /\ UNCHANGED <<holder, rows, captures, archive, cooled>>

\* The next step once the headers are on record.
after_headers(w) ==
    IF ~w.response.readable THEN {archive_failed(w, "transport_error")}
    ELSE {transfer_failed(w),
          [w EXCEPT !.pc = IF w.response.status = 304 THEN "not_modified" ELSE "write"]}

ingestion_headers(e) ==
    LET r == worker[e].response
    IN  /\ at(e, "headers") /\ locked_attempt(e)
        /\ row(current(e)).state = "in_progress" /\ row(current(e)).status = 0
        /\ rows' = [rows EXCEPT ![e][Len(rows[e])] =
              [@ EXCEPT !.status = r.status, !.location = r.readable /\ r.target,
                        !.retry_after = IF r.readable THEN r.retry_after ELSE "none"]]
        /\ \E w \in after_headers(worker[e]) : worker' = [worker EXCEPT ![e] = w]
        /\ UNCHANGED <<holder, captures, archive, sent, cooled>>

\* A 304 counts only against a validator that can still be verified;
\* without one the resource is asked for again, unconditionally.
not_modified(e) ==
    LET k == worker[e].validator
    IN  /\ at(e, "not_modified")
        /\ \/ /\ ~verifiable(k)
              /\ move(e, concluding([worker[e] EXCEPT !.validator = None], "transport_error", "none", "next"))
           \/ /\ verifiable(k)
              /\ \/ move(e, transfer_failed(worker[e]))
                 \/ move(e, [concluding(worker[e], "not_modified", "none", "return") EXCEPT
                               !.outcome.reused = k])

(***************************************************************************)
(* LocalArchive.write: a temporary file, verified and linked to its name,  *)
(* then the directory synced.                                              *)
(***************************************************************************)
write(e) ==
    /\ at(e, "write")
    /\ \/ /\ archive' = [archive EXCEPT ![current(e)] = "temporary"]
          /\ worker' = [worker EXCEPT ![e].pc = "link"]
       \/ /\ \E w \in {transfer_failed(worker[e])} \cup
                      {archive_failed(worker[e], s) :
                          s \in {"body_limit", "transport_error", "archive_error"}} :
                worker' = [worker EXCEPT ![e] = w]
          /\ UNCHANGED archive
    /\ UNCHANGED <<holder, rows, captures, sent, cooled>>

link(e) ==
    /\ at(e, "link")
    /\ \/ /\ archive' = [archive EXCEPT ![current(e)] = "linked"]
          /\ worker' = [worker EXCEPT ![e].pc = "sync"]
       \/ /\ archive' = [archive EXCEPT ![current(e)] = "none"]
          /\ worker' = [worker EXCEPT ![e] = archive_failed(@, "archive_error")]
    /\ UNCHANGED <<holder, rows, captures, sent, cooled>>

\* The next step once the bytes are archived.
retains_payload(w) == Monitor /\ w.response.status = 200

synced_no(e) == "linked" \* seeded fault: the directory is not synced
synced(e) == "durable"

sync(e) ==
    /\ at(e, "sync")
    /\ \/ /\ archive' = [archive EXCEPT ![current(e)] = synced(e)]
          /\ \E w \in {transfer_failed(worker[e]),
                       [worker[e] EXCEPT !.pc = IF retains_payload(worker[e]) THEN "payload"
                                                ELSE "conclude"]} :
                worker' = [worker EXCEPT ![e] = w]
       \/ /\ worker' = [worker EXCEPT ![e] = archive_failed(@, "archive_error")]
          /\ UNCHANGED archive
    /\ UNCHANGED <<holder, rows, captures, sent, cooled>>

(***************************************************************************)
(* A monitor keeps the body of every 200 with its attempt, and takes a     *)
(* body equal to the cached one for the cached capture.                    *)
(***************************************************************************)
same_body_assumed(w) == w.cached # None \* seeded fault: the bodies are not compared
same_body(w) == w.cached # None /\ w.response.body = capture_of(w.cached).body

ingestion_monitor_payload(e) ==
    /\ at(e, "payload") /\ readable(current(e)) /\ locked_attempt(e)
    /\ row(current(e)).state = "in_progress" /\ row(current(e)).status = 200
    /\ rows' = [rows EXCEPT ![e][Len(rows[e])] = [@ EXCEPT !.payload = worker[e].response.body]]
    /\ worker' = [worker EXCEPT ![e].pc = IF same_body(worker[e]) THEN "unchanged" ELSE "conclude"]
    /\ UNCHANGED <<holder, captures, archive, sent, cooled>>

payload_unreadable(e) ==
    /\ at(e, "payload") /\ ~readable(current(e))
    /\ move(e, archive_failed(worker[e], "archive_error"))

content_unchanged(e) ==
    /\ at(e, "unchanged")
    /\ move(e, IF readable(worker[e].cached)
               THEN [concluding(worker[e], "content_unchanged", "none", "return") EXCEPT
                       !.outcome.reused = worker[e].cached]
               ELSE archive_failed(worker[e], "archive_error"))

redirects_further(w, n) == w.response.target /\ n < MaxSequence

\* What a complete response comes to.
response_outcome(w, n) ==
    IF w.response.status \in 200..299 THEN concluding(w, "complete", "none", "return")
    ELSE IF w.response.status \in 300..399
    THEN IF redirects_further(w, n) THEN concluding(w, "redirected", "none", "next")
         ELSE concluding(w, "redirect_refused", "redirect_refused", "return")
    ELSE concluding(w, "http_error", "none", "cooldown")

conclude(e) ==
    /\ at(e, "conclude")
    /\ move(e, [response_outcome(worker[e], Len(rows[e])) EXCEPT
                  !.outcome.capture = TRUE, !.response = worker[e].response])

(***************************************************************************)
(* ingestion_finalize and ingestion_monitor_unchanged, with the checks of  *)
(* the table and of its triggers.                                          *)
(***************************************************************************)
finished(r, k, o) ==
    [r EXCEPT !.state = o.state, !.completed = IF o.capture THEN k ELSE None, !.reused = o.reused]

row_shape(r) ==
    /\ r.state \in {"complete", "http_error", "redirected", "redirect_refused"} \/ r.completed = None
    /\ r.state = "complete" => r.status \in 200..299 /\ r.completed # None
    /\ r.state = "http_error" => r.status \in 400..599
    /\ r.state = "redirected" => r.status \in Redirects /\ r.location
    /\ r.state = "redirect_refused" => r.status \in 300..399 \ {304}
    /\ r.state = "not_modified" => r.status = 304 /\ r.reused # None /\ r.reused = r.validator
    /\ r.state = "content_unchanged" => r.status = 200
    /\ r.state \in {"not_modified", "content_unchanged"} <=> r.reused # None

payload_guard(r, bodies) ==
    Monitor /\ r.status = 200 /\ r.state \in {"complete", "content_unchanged"} => r.payload \in bodies

\* The body the row refers to: of the capture it reuses, or of this response.
referred_bodies(e, o) ==
    IF o.capture THEN {worker[e].response.body}
    ELSE {c.body : c \in {x \in captures : x.id = o.reused /\ successful(x)}}

accepted(e) ==
    LET r == row(current(e))
        o == worker[e].outcome
    IN  /\ r.state = "prepared" => o.state \in {"transport_error", "archive_error", "cancelled"}
        /\ o.capture => r.status # 0
        /\ o.state = "content_unchanged" => Monitor /\ r.state = "in_progress"
        /\ row_shape(finished(r, current(e), o))
        /\ payload_guard(finished(r, current(e), o), referred_bodies(e, o))

next_hop(w, n) ==
    IF n < MaxSequence THEN [w EXCEPT !.pc = "prepare", !.validator = None]
    ELSE returned(w, {"dispatch_budget_exhausted"})

continued(w, n) ==
    CASE w.outcome.then = "return"   -> returned(w, {w.outcome.gap} \ {"none"})
      [] w.outcome.then = "next"     -> next_hop(w, n)
      [] w.outcome.then = "retry"    -> [w EXCEPT !.pc = "retry"]
      [] w.outcome.then = "cooldown" -> [w EXCEPT !.pc = "cooldown"]

reported(w, k) ==
    [w EXCEPT !.outcomes = Append(@, w.outcome.state),
              !.records = IF w.outcome.capture THEN Append(@, k)
                          ELSE IF w.outcome.reused # None THEN Append(@, w.outcome.reused) ELSE @]

ingestion_finalize(e) ==
    LET o == worker[e].outcome
        k == current(e)
    IN  /\ at(e, "finish") /\ locked_attempt(e) /\ accepted(e)
        /\ rows' = [rows EXCEPT ![e][k[2]] = finished(@, k, o)]
        /\ captures' = IF o.capture
                       THEN captures \cup {[id |-> k, status |-> row(k).status,
                                            body |-> worker[e].response.body, tagged |-> FALSE]}
                       ELSE captures
        /\ worker' = [worker EXCEPT ![e] = continued(reported(@, k), k[2])]
        /\ UNCHANGED <<holder, archive, sent, cooled>>

(***************************************************************************)
(* After an error response: the limiter is told to wait where the server   *)
(* asked for it, and the fetch goes on only if the status can be retried.  *)
(***************************************************************************)
Retryable == {408, 429, 500, 502, 503, 504}

asks_to_wait_header(r) == r.retry_after # "none" \* seeded fault: 403 and 429 alone do not count
asks_to_wait(r) == r.status \in {403, 429} \/ r.retry_after # "none"

\* Where the fetch goes once the limiter was told, or need not be: it gives
\* up where the wait would pass the deadline.
deferred(w) == {returned(x, {"source_access_deferred"}) : x \in {y \in {w} : asks_to_wait(y.response)}}

going_on(w) ==
    {IF w.response.status \in Retryable THEN [x EXCEPT !.pc = "retry"] ELSE returned(x, {"http_error"}) :
        x \in {y \in {w} : y.response.status # 403}}

after_error(w) ==
    IF w.response.retry_after = "never" THEN {returned(w, {"retry_after_requires_review"})}
    ELSE deferred(w) \cup going_on(w)

cooldown(e) ==
    LET w == worker[e]
    IN  /\ at(e, "cooldown")
        /\ \/ /\ asks_to_wait(w.response)
              /\ cooled' = cooled \cup {current(e)}
              /\ \E next \in after_error(w) : worker' = [worker EXCEPT ![e] = next]
           \/ /\ asks_to_wait(w.response)
              /\ worker' = [worker EXCEPT ![e] = returned(w, {"coordination_unavailable"})]
              /\ UNCHANGED cooled
           \/ /\ ~asks_to_wait(w.response)
              /\ \E next \in after_error(w) : worker' = [worker EXCEPT ![e] = next]
              /\ UNCHANGED cooled
        /\ UNCHANGED <<holder, rows, captures, archive, sent>>

retry_beyond(e) == \* seeded fault: the last attempt is retried as well
    /\ at(e, "retry")
    /\ move(e, [worker[e] EXCEPT !.pc = "prepare"])

\* Sleep and try again, unless the deadline or the budget is reached.
retry(e) ==
    /\ at(e, "retry")
    /\ \/ /\ Len(rows[e]) < MaxSequence
          /\ move(e, [worker[e] EXCEPT !.pc = "prepare"])
       \/ move(e, returned(worker[e], {"dispatch_budget_exhausted"}))

-----------------------------------------------------------------------------
Prepare(e) ==
    \/ select_abandoned(e) \/ all_recovered(e) \/ choose_monitor(e) \/ choose_other(e)
    \/ \E k \in Attempts : ingestion_recover(e, k)

Dispatch(e) ==
    \/ fetch_replay(e) \/ fetch(e) \/ ingestion_prepare(e) \/ acquire(e) \/ guard(e)
    \/ ingestion_dispatch(e) \/ dispatch_blocked(e) \/ confirm(e) \/ send(e)

Receive(e) ==
    \/ ingestion_headers(e) \/ not_modified(e) \/ write(e) \/ link(e) \/ sync(e)
    \/ ingestion_monitor_payload(e) \/ payload_unreadable(e) \/ content_unchanged(e)
    \/ conclude(e) \/ ingestion_finalize(e) \/ cooldown(e) \/ retry(e)

Next ==
    /\ UNCHANGED pipeline
    /\ \/ \E e \in Executions : \/ Prepare(e) \/ Dispatch(e) \/ Receive(e)
                                \/ LeaseLost(e) \/ lease_refused(e) \/ Claim(e) \/ Crash(e)
       \/ LoseLease
       \/ \E k \in Pipelines[pipeline].damageable : Damage(k)

Spec == Init /\ [][Next]_vars

-----------------------------------------------------------------------------
Pcs == {"unclaimed", "claimed", "recover", "choose", "fetch", "prepare", "acquire", "guard",
        "dispatch", "confirm", "send", "headers", "not_modified", "write", "link", "sync",
        "payload", "unchanged", "conclude", "finish", "cooldown", "retry", "returned", "raised",
        "dead"}

\* Rows, captures, files and the workers' variables have their types.
TypeOK ==
    /\ holder \in {0} \cup Executions
    /\ \A e \in Executions :
          /\ rows[e] \in Seq(Row) /\ Len(rows[e]) <= MaxSequence
          /\ worker[e].pc \in Pcs
          /\ worker[e].cached \in Keys \cup {None} /\ worker[e].validator \in Keys \cup {None}
          /\ worker[e].records \in Seq(Keys)
    /\ \A c \in captures : c.id \in Keys
    /\ archive \in [Keys -> {"none", "temporary", "linked", "durable", "damaged"}]
    /\ sent \subseteq Attempts /\ cooled \subseteq Attempts

\* A request that went out is on record as dispatched, and its attempt is
\* never recorded as cancelled, whoever ends it: a cancelled attempt was not
\* sent.
SentIsOnRecord ==
    \A k \in sent : k \in on_record /\ row(k).requested /\ row(k).state # "cancelled"

\* A capture on record has its bytes in the archive, in a file that outlives
\* a crash of the worker at any later moment (unless it is damaged later).
CaptureHasBytes == \A c \in captures : archive[c.id] \in {"durable", "damaged"}

\* An attempt that ended keeps its row for ever: a worker that comes back
\* after its attempt was recovered cannot overwrite it, and recovery does not
\* overwrite what a worker recorded in time.
OutcomeIsFinal ==
    [][\A k \in on_record : row(k).state \notin Unfinished => rows'[k[1]][k[2]] = row(k)]_vars

usable(w) == w.gaps = {} /\ \E i \in 1..Len(w.records) : captured(w.records[i])

\* A monitor request observes the resource at most once over all its
\* executions, and every execution that gets a usable result gets that one.
OneObservation ==
    Monitor =>
        /\ Cardinality(prior) <= 1
        /\ \A e \in Executions : at(e, "returned") /\ usable(worker[e]) =>
              \E k \in prior : worker[e].records[Len(worker[e].records)] = observation(k)

\* What a fetch returns is what is on record: every attempt with its outcome
\* (all but the last if the lease was lost over it), records that were
\* captured, and a usable result exactly when its last attempt succeeded or
\* no attempt was needed.
ResultIsTrue ==
    \A e \in {f \in Executions : at(f, "returned")} :
        LET w == worker[e]
            n == Len(w.outcomes)
        IN  /\ n <= Len(rows[e]) /\ \A i \in 1..n : w.outcomes[i] = rows[e][i].state
            /\ \A i \in (n + 1)..Len(rows[e]) :
                  /\ "lease_lost" \in w.gaps
                  /\ rows[e][i].state \in Unfinished \cup {"interrupted_unknown"}
            /\ \A i \in 1..Len(w.records) : \E c \in captures : c.id = w.records[i]
            /\ usable(w) <=> w.gaps = {}
            /\ rows[e] # <<>> => (usable(w) <=> rows[e][Len(rows[e])].state \in Successful)

\* When a monitor's execution has an attempt of its own, no attempt of an
\* earlier execution is left open, and none is opened any more.
NoneAbandoned ==
    Monitor => \A e \in Executions : rows[e] # <<>> =>
                   \A k \in on_record : k[1] < e => row(k).state \notin Unfinished

\* No call of a worker that holds the lease is refused by the table's checks,
\* its triggers or the functions' own conditions.
NothingRefused ==
    \A e \in {f \in Executions : locked_stage(f)} :
        /\ at(e, "prepare") => /\ Len(rows[e]) < MaxSequence
                               /\ \A n \in 1..Len(rows[e]) : rows[e][n].state \notin Unfinished
        /\ worker[e].pc \in {"dispatch", "headers", "payload", "finish"} => locked_attempt(e)
        /\ at(e, "dispatch") => row(current(e)).state = "prepared"
        /\ at(e, "headers") => row(current(e)).state = "in_progress" /\ row(current(e)).status = 0
        /\ at(e, "finish") => accepted(e)

\* An attempt is followed by another only where that is allowed: after a
\* redirect, a failed transfer or a retryable error, never after a 403, and
\* after an error that asks to wait only once the limiter was told.
WaitsWhenAsked ==
    \A k \in on_record : k[2] < Len(rows[k[1]]) =>
        \/ row(k).state \in {"redirected", "transport_error"}
        \/ /\ row(k).state = "http_error" /\ row(k).status \in Retryable
           /\ row(k).status = 429 \/ row(k).retry_after # "none" => k \in cooled

\* What a fetch reports is backed by what was stored: rows of their type, bytes
\* behind every capture, and a result that is true of the recorded attempts
\* (transport.py, archive.py).
EvidenceBacked == TypeOK /\ CaptureHasBytes /\ ResultIsTrue

\* Nothing that was sent is missing from the record, observed twice or left
\* open, whichever executions were lost on the way (ingestion_recover, prior).
AttemptsOnRecord == SentIsOnRecord /\ OneObservation /\ NoneAbandoned

\* The worker's own decisions agree with what the database and the server ask:
\* no call is refused by a trigger, and a wait asked for is recorded.
DecisionsAgree == NothingRefused /\ WaitsWhenAsked
=============================================================================
