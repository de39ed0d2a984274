-------------------------- MODULE SourceFetchProofs --------------------------
(***************************************************************************)
(* Proofs about SourceFetch for any executions, attempts, answers and      *)
(* pipelines.                                                              *)
(*                                                                         *)
(* The argument is the lease and the order of claims: an attempt that is   *)
(* open is worked on by the execution that prepared it and by no other, as *)
(* long as that execution holds the lease; without it, its worker can      *)
(* still send, receive and archive, but no longer record.  The inductive   *)
(* invariant says for each place of SecTransport.fetch how the worker's    *)
(* variables, its newest row and its newest file agree there.              *)
(***************************************************************************)
EXTENDS SourceFetch, FiniteSetTheorems, SequenceTheorems, TLAPS

\* The places of a worker: before the fetch, between two attempts, and with
\* an attempt that is open in its hands, not sent or answered.
Early == {"unclaimed", "claimed", "recover", "choose", "fetch"}
Between == {"prepare", "cooldown", "retry"}
Prepared == {"acquire", "guard", "dispatch"}
Unsent == Prepared \cup {"confirm", "send"}
Answered == {"not_modified", "write", "link", "sync", "payload", "unchanged", "conclude"}
Open == Unsent \cup {"headers", "finish"} \cup Answered
Active == Between \cup Open

newest(rs) == rs[Len(rs)]
Refs == Keys \cup {None}
Gaps == {"none", "rate_deferred", "coordination_unavailable", "permit_expired", "transport_error",
         "archive_error", "body_limit", "redirect_refused", "lease_lost", "capture_unavailable",
         "archive_integrity", "dispatch_budget_exhausted", "source_access_deferred", "http_error",
         "retry_after_requires_review"}
Outcome == [state : Successful \cup Failed, capture : BOOLEAN, reused : Refs, gap : Gaps,
            then : {"return", "next", "retry", "cooldown"}]
Worker == [pc : Pcs, abandoned : SUBSET Attempts, mode : CacheModes, cached : Refs, replay : Refs,
           validator : Refs, response : Response \cup {no_response}, outcome : Outcome,
           records : Seq(Keys), outcomes : Seq(Successful \cup Failed), gaps : SUBSET Gaps]
Capture == [id : Keys, status : 0..599, body : Bodies \cup STRING, tagged : BOOLEAN]

\* The values of all variables.
Typed ==
    /\ pipeline \in DOMAIN Pipelines /\ holder \in {0} \cup Executions
    /\ rows \in [Executions -> Seq(Row)] /\ captures \subseteq Capture
    /\ archive \in [Keys -> {"none", "temporary", "linked", "durable", "damaged"}]
    /\ worker \in [Executions -> Worker]
    /\ sent \subseteq Attempts /\ cooled \subseteq Attempts
    /\ \A e \in Executions : Len(rows[e]) <= MaxSequence

\* Executions are claimed one after the other: only the last may hold the
\* lease.
ClaimsInOrder ==
    /\ \A e \in Executions : holder = e => ~at(e, "unclaimed")
    /\ \A d, e \in Executions : d < e /\ ~at(e, "unclaimed") => holder # d /\ ~at(d, "unclaimed")

\* A capture is one of its attempt, whose row names it.
CapturesWhole ==
    /\ \A c, d \in captures : c.id = d.id => c = d
    /\ \A c \in captures : c.id # Base => c.id \in on_record /\ row(c.id).completed = c.id

\* A row that a later one follows is one after which the fetch may go on.
GoesOn(r, told) ==
    \/ r.state \in {"redirected", "transport_error"}
    \/ /\ r.state = "http_error" /\ r.status \in Retryable
       /\ r.status = 429 \/ r.retry_after # "none" => told

RowsGoOn(e) == \A i \in 1..(Len(rows[e]) - 1) : GoesOn(rows[e][i], <<e, i>> \in cooled)

\* A successful row refers to a capture of a successful response.
Observed ==
    \A k \in on_record : row(k).state \in Successful => observation(k) # None /\ captured(observation(k))

\* The worker has reported every attempt but the one in its hands.
Counted(w, n) ==
    /\ Len(w.outcomes) <= n
    /\ w.pc \in Early => n = 0 /\ w.records = <<>>
    /\ w.pc \in Open => n > 0 /\ Len(w.outcomes) = n - 1
    /\ w.pc \in Between => Len(w.outcomes) = n
    /\ w.pc \in {"cooldown", "retry"} => n > 0
    /\ w.pc = "prepare" => n < MaxSequence

Reported(w, rs) == \A i \in 1..Len(w.outcomes) : w.outcomes[i] = rs[i].state

\* The captures a worker knows of exist.
KnownRefs(w) == \A k \in {w.cached, w.replay, w.validator} : k # None => captured(k)

Known(w) ==
    /\ KnownRefs(w)
    /\ \A i \in 1..Len(w.records) : \E c \in captures : c.id = w.records[i]

\* The row in the worker's hands.
RowInHand(w, r, held) ==
    w.pc \in Open =>
        /\ r.state \in Unfinished \cup {"interrupted_unknown"} /\ r.completed = None
        /\ held => r.state \in Unfinished
        /\ w.pc \in Prepared => r.state # "in_progress"
        /\ w.pc \in {"confirm", "send", "headers"} \cup Answered => r.state # "prepared" /\ r.requested
        /\ w.pc \in Unsent \cup {"headers"} => r.status = 0
        /\ w.pc # "finish" => r.validator = w.validator

\* What the row in hand says of the answer that the worker received.
HeadersInHand(w, r) ==
    /\ w.pc = "headers" => w.response \in Pipelines[pipeline].responses
    /\ w.pc \in Answered =>
          /\ w.response \in Pipelines[pipeline].responses
          /\ r.status = w.response.status /\ r.location = w.response.target
          /\ r.retry_after = w.response.retry_after
          /\ r.status = 304 <=> w.pc = "not_modified"
    /\ w.pc \in {"payload", "unchanged"} => retains_payload(w)
    /\ w.pc \in {"unchanged", "conclude"} /\ retains_payload(w) => r.payload = w.response.body
    /\ w.pc = "unchanged" => same_body(w)

\* The bodies an outcome may refer to.
ReferredTo(o, body, C) ==
    IF o.capture THEN {body} ELSE {c.body : c \in {x \in C : x.id = o.reused /\ successful(x)}}

\* The outcome a worker is about to record: the table accepts it, and it
\* agrees with where the worker goes on.
Concluded(w, r, k) ==
    w.pc = "finish" =>
        LET o == w.outcome
        IN  /\ r.state = "prepared" => o.state \in {"transport_error", "archive_error", "cancelled"}
            /\ o.capture => r.status # 0
            /\ o.reused # None => captured(o.reused)
            /\ o.state = "content_unchanged" => Monitor
            /\ row_shape(finished(r, k, o))
            /\ payload_guard(finished(r, k, o), ReferredTo(o, w.response.body, captures))
            /\ (o.then = "return" /\ o.gap = "none") <=> o.state \in Successful
            /\ o.then = "next" => o.state \in {"redirected", "transport_error"}
            /\ o.then = "retry" => o.state = "transport_error"
            /\ o.then = "cooldown" => /\ o.state = "http_error" /\ r.status = w.response.status
                                      /\ r.retry_after = w.response.retry_after

\* The newest row of a worker between two attempts.
RowBehind(w, r, told) ==
    /\ w.pc \in {"prepare", "retry"} => GoesOn(r, told)
    /\ w.pc = "cooldown" => /\ r.state = "http_error" /\ r.status = w.response.status
                            /\ r.retry_after = w.response.retry_after

\* What a worker returned.
Returned(w, rs) ==
    w.pc = "returned" =>
        /\ w.gaps = {} <=> usable(w)
        /\ \A i \in (Len(w.outcomes) + 1)..Len(rs) :
              "lease_lost" \in w.gaps /\ rs[i].state \in Unfinished \cup {"interrupted_unknown"}
        /\ rs # <<>> => (w.gaps = {} <=> newest(rs).state \in Successful)

\* What was sent is not in a worker's hands before that, nor cancelled after.
NotYetSent(e) ==
    worker[e].pc \in Unsent \/ (at(e, "finish") /\ worker[e].outcome.state = "cancelled") =>
        current(e) \notin sent

\* The bytes of a capture that is about to be recorded.
Archived(e) ==
    worker[e].pc \in {"payload", "unchanged", "conclude"} \/ (at(e, "finish") /\ worker[e].outcome.capture) =>
        archive[current(e)] \in {"durable", "damaged"}

WorkerFits(e) ==
    LET w == worker[e]
        rs == rows[e]
    IN  /\ RowsGoOn(e) /\ Counted(w, Len(rs)) /\ Reported(w, rs) /\ Known(w)
        /\ rs # <<>> => /\ RowInHand(w, newest(rs), holder = e)
                        /\ HeadersInHand(w, newest(rs))
                        /\ Concluded(w, newest(rs), current(e))
                        /\ RowBehind(w, newest(rs), current(e) \in cooled)
        /\ Returned(w, rs) /\ NotYetSent(e) /\ Archived(e)

\* A monitor's execution looks for an earlier observation before it fetches,
\* and no other execution can make one while it holds the lease.
PriorFits(w, held) ==
    /\ w.pc \in Active => w.mode = "conditional"
    /\ w.pc = "fetch" => w.mode \in {"conditional", "replay"}
    /\ w.pc = "fetch" /\ w.mode = "replay" => \E k \in prior : w.replay = observation(k)
    /\ held /\ (w.pc \in Active \/ (w.pc = "fetch" /\ w.mode = "conditional")) => prior = {}
    /\ w.pc = "returned" /\ usable(w) => \E k \in prior : w.records[Len(w.records)] = observation(k)

OnePrior ==
    Monitor =>
        /\ \A k, l \in prior : k = l
        /\ \A e \in Executions : PriorFits(worker[e], holder = e)

\* ... and ends what earlier executions left open.
NoneLeft ==
    Monitor =>
        \A e \in Executions : \A k \in on_record : k[1] < e /\ row(k).state \in Unfinished =>
            /\ rows[e] = <<>> /\ worker[e].pc \notin {"choose", "fetch"} \cup Active
            /\ at(e, "recover") => k \in worker[e].abandoned

IndInv ==
    /\ Typed /\ ClaimsInOrder /\ CapturesWhole /\ Observed /\ SentIsOnRecord /\ CaptureHasBytes
    /\ \A e \in Executions : WorkerFits(e)
    /\ OnePrior /\ NoneLeft

-----------------------------------------------------------------------------
LEMMA Constants ==
  /\ MaxExecutions \in Nat /\ MaxRows \in Nat /\ MaxRows > 0 /\ Executions \subseteq Nat \ {0}
  /\ \A n \in DOMAIN Pipelines :
        /\ Pipelines[n].rows \in 1..MaxRows /\ Pipelines[n].monitor \in BOOLEAN
        /\ Pipelines[n].responses \subseteq Response
        /\ \A r \in Pipelines[n].responses : r.target => r.status \in Redirects
        /\ Pipelines[n].modes \subseteq CacheModes
        /\ Pipelines[n].monitor => Pipelines[n].modes = {"conditional"}
  BY SourceFetchAssumption DEF Executions

LEMMA KeyFacts ==
  /\ \A e \in Executions, n \in 1..MaxRows : <<e, n>> \in Attempts
  /\ \A k \in Attempts : k[1] \in Executions /\ k[2] \in 1..MaxRows /\ k = <<k[1], k[2]>>
  /\ Attempts \subseteq Keys /\ Base \in Keys /\ Base \notin Attempts /\ None \notin Keys
  <1>1. Base \notin Attempts
    BY Constants DEF Base, Attempts
  <1>2. \A k \in Keys : Len(k) = 2
    BY DEF Keys, Base, Attempts
  <1>3. Len(None) = 0
    BY DEF None
  <1> QED
    BY <1>1, <1>2, <1>3 DEF Keys, Attempts

\* Every row has a place in the budget, so every row in hand is an attempt.
LEMMA InHand ==
  ASSUME Typed, NEW e \in Executions, Len(rows[e]) > 0
  PROVE  /\ current(e) \in Attempts /\ current(e) \in on_record
         /\ current(e)[1] = e /\ current(e)[2] = Len(rows[e])
         /\ row(current(e)) = newest(rows[e]) /\ newest(rows[e]) \in Row
  <1>1. Len(rows[e]) \in 1..MaxRows
    BY Constants DEF Typed, MaxSequence
  <1>2. current(e) \in Attempts /\ current(e)[1] = e /\ current(e)[2] = Len(rows[e])
    BY <1>1, KeyFacts DEF current
  <1> QED
    BY <1>1, <1>2 DEF Typed, on_record, row, newest

LEMMA OneCapture ==
  ASSUME NEW C, \A c, d \in C : c.id = d.id => c = d, NEW c \in C
  PROVE  (CHOOSE x \in C : x.id = c.id) = c
  OBVIOUS

-----------------------------------------------------------------------------
(***************************************************************************)
(* A step of another execution.                                            *)
(***************************************************************************)
\* A row stays, or is ended by a recovery while its execution is not leased.
RowStays(r, r2, held2) ==
    r2 = r \/ (r.state \in Unfinished /\ ~held2 /\ r2 = recovered(r))

RowsStay(rs, rs2, held2) ==
    /\ rs2 \in Seq(Row) /\ Len(rs2) = Len(rs)
    /\ \A i \in 1..Len(rs) : RowStays(rs[i], rs2[i], held2)

\* A file stays, or is damaged after it was durable.
FileStays(f, f2) == f2 = f \/ (f = "durable" /\ f2 = "damaged")

\* What a step of another execution may do to the surroundings of d.
Beside(d) ==
    /\ pipeline' = pipeline /\ worker'[d] = worker[d]
    /\ RowsStay(rows[d], rows'[d], holder' = d)
    /\ holder' = d => holder = d
    /\ captures \subseteq captures' /\ CapturesWhole'
    /\ \A n \in 1..MaxRows : /\ FileStays(archive[<<d, n>>], archive'[<<d, n>>])
                             /\ <<d, n>> \in sent' <=> <<d, n>> \in sent
                             /\ <<d, n>> \in cooled => <<d, n>> \in cooled'

LEMMA RowFacts ==
  ASSUME NEW r \in Row, NEW r2, NEW held2, RowStays(r, r2, held2)
  PROVE  /\ r2.requested = r.requested /\ r2.status = r.status /\ r2.location = r.location
         /\ r2.retry_after = r.retry_after /\ r2.completed = r.completed /\ r2.reused = r.reused
         /\ r2.validator = r.validator /\ r2.payload = r.payload /\ r2 \in Row
         /\ r2.state = r.state \/ (r.state \in Unfinished /\ ~held2 /\ r2.state = "interrupted_unknown")
  BY DEF RowStays, recovered, Row, Failed

LEMMA InHandStays ==
  ASSUME NEW w, NEW r \in Row, NEW r2, NEW h, NEW h2, RowStays(r, r2, h2), h2 => h, RowInHand(w, r, h)
  PROVE  RowInHand(w, r2, h2)
  BY RowFacts DEF RowInHand, Unfinished

LEMMA CapturedStays ==
  ASSUME captures \subseteq captures', NEW k, captured(k)
  PROVE  captured(k)'
  BY DEF captured

LEMMA HeadersStay ==
  ASSUME pipeline' = pipeline, captures \subseteq captures', CapturesWhole', NEW w, NEW r \in Row, NEW r2, NEW h2,
         RowStays(r, r2, h2), HeadersInHand(w, r), Known(w)
  PROVE  HeadersInHand(w, r2)'
  <1>1. same_body(w) => same_body(w)'
    <2>1. SUFFICES ASSUME same_body(w) PROVE capture_of(w.cached)' = capture_of(w.cached)
      BY DEF same_body
    <2>2. PICK c \in captures : c.id = w.cached
      BY <2>1 DEF same_body, Known, KnownRefs, captured
    <2>3. \A a, b \in captures : a.id = b.id => a = b
      BY DEF CapturesWhole
    <2>4. capture_of(w.cached) = c /\ capture_of(w.cached)' = c
      BY <2>2, <2>3, OneCapture DEF capture_of, CapturesWhole
    <2> QED
      BY <2>1, <2>4 DEF same_body
  <1>2. retains_payload(w)' = retains_payload(w)
    BY DEF retains_payload, Monitor
  <1> QED
    BY <1>1, <1>2, RowFacts DEF HeadersInHand

LEMMA FinishedFields ==
  ASSUME NEW r \in Row, NEW k, NEW o, NEW f, f = finished(r, k, o)
  PROVE  /\ f.requested = r.requested /\ f.status = r.status /\ f.location = r.location
         /\ f.retry_after = r.retry_after /\ f.validator = r.validator /\ f.payload = r.payload
         /\ f.state = o.state /\ f.completed = (IF o.capture THEN k ELSE None) /\ f.reused = o.reused
  BY DEF finished, Row

LEMMA ConcludedStays ==
  ASSUME pipeline' = pipeline, captures \subseteq captures', NEW w, NEW r \in Row, NEW r2, NEW h2, NEW k,
         RowStays(r, r2, h2), Concluded(w, r, k)
  PROVE  Concluded(w, r2, k)'
  <1> SUFFICES ASSUME w.pc = "finish" PROVE Concluded(w, r2, k)'
    BY DEF Concluded
  <1> DEFINE o == w.outcome
             f == finished(r, k, o)
             f2 == finished(r2, k, o)
  <1>1. /\ f2.status = f.status /\ f2.location = f.location /\ f2.validator = f.validator
        /\ f2.payload = f.payload /\ f2.state = f.state /\ f2.completed = f.completed
        /\ f2.reused = f.reused /\ f.state = o.state
    BY RowFacts, FinishedFields
  <1>2. row_shape(f) => row_shape(f2)
    BY <1>1 DEF row_shape
  <1>3. ReferredTo(o, w.response.body, captures) \subseteq ReferredTo(o, w.response.body, captures')
    BY DEF ReferredTo, successful
  <1>4. payload_guard(f, ReferredTo(o, w.response.body, captures)) =>
           payload_guard(f2, ReferredTo(o, w.response.body, captures))'
    BY <1>1, <1>3 DEF payload_guard, Monitor, ReferredTo
  <1>5. captured(o.reused) => captured(o.reused)'
    BY CapturedStays
  <1>6. Monitor' = Monitor
    BY DEF Monitor
  <1>7. /\ r2.status = r.status /\ r2.retry_after = r.retry_after
        /\ r2.state = "prepared" => r.state = "prepared"
    BY RowFacts
  <1> HIDE DEF f, f2
  <1>8. /\ r.state = "prepared" => o.state \in {"transport_error", "archive_error", "cancelled"}
        /\ o.capture => r.status # 0
        /\ o.reused # None => captured(o.reused)
        /\ o.state = "content_unchanged" => Monitor
        /\ row_shape(f) /\ payload_guard(f, ReferredTo(o, w.response.body, captures))
        /\ (o.then = "return" /\ o.gap = "none") <=> o.state \in Successful
        /\ o.then = "next" => o.state \in {"redirected", "transport_error"}
        /\ o.then = "retry" => o.state = "transport_error"
        /\ o.then = "cooldown" => /\ o.state = "http_error" /\ r.status = w.response.status
                                  /\ r.retry_after = w.response.retry_after
    BY DEF Concluded, ReferredTo, f
  <1> QED
    BY <1>2, <1>4, <1>5, <1>6, <1>7, <1>8 DEF Concluded, ReferredTo, f2

LEMMA KnownStays ==
  ASSUME captures \subseteq captures', NEW w, Known(w)
  PROVE  Known(w)'
  BY CapturedStays DEF Known, KnownRefs

LEMMA BehindStays ==
  ASSUME NEW w, NEW r \in Row, NEW r2, NEW h2, NEW told, NEW told2, RowStays(r, r2, h2), told => told2,
         RowBehind(w, r, told)
  PROVE  RowBehind(w, r2, told2)
  BY RowFacts DEF RowBehind, GoesOn, Unfinished

LEMMA ReturnedStays ==
  ASSUME captures \subseteq captures', NEW w, NEW rs \in Seq(Row), NEW rs2, NEW h2, RowsStay(rs, rs2, h2),
         Len(w.outcomes) \in Nat, \A i \in 1..Len(w.records) : w.records[i] \in Keys, Returned(w, rs)
  PROVE  Returned(w, rs2)'
  <1> SUFFICES ASSUME w.pc = "returned" PROVE Returned(w, rs2)'
    BY DEF Returned
  <1>1. usable(w) => usable(w)'
    BY DEF usable, captured
  <1>2. usable(w)' => w.gaps = {}
    BY DEF usable
  <1>3. Len(rs2) = Len(rs) /\ (rs2 # <<>> => rs # <<>>)
    BY DEF RowsStay
  <1>4. ASSUME NEW i \in (Len(w.outcomes) + 1)..Len(rs)
        PROVE  "lease_lost" \in w.gaps /\ rs2[i].state \in Unfinished \cup {"interrupted_unknown"}
    <2>1. RowStays(rs[i], rs2[i], h2) /\ rs[i] \in Row
      BY <1>4 DEF RowsStay
    <2> QED
      BY <1>4, <2>1, RowFacts DEF Returned
  <1>5. rs # <<>> => (newest(rs2).state \in Successful <=> newest(rs).state \in Successful)
    <2>1. rs # <<>> => Len(rs) \in 1..Len(rs)
      OBVIOUS
    <2>2. rs # <<>> => RowStays(newest(rs), newest(rs2), h2) /\ newest(rs) \in Row
      BY <2>1, <1>3 DEF RowsStay, newest
    <2> QED
      BY <2>2, RowFacts DEF Successful, Unfinished
  <1> QED
    BY <1>1, <1>2, <1>3, <1>4, <1>5 DEF Returned

LEMMA OthersFit ==
  ASSUME Typed, NEW d \in Executions, WorkerFits(d), Beside(d)
  PROVE  WorkerFits(d)'
  <1>1. PICK w \in Worker : w = worker[d]
    BY DEF Typed
  <1>2. PICK rs \in Seq(Row) : rs = rows[d]
    BY DEF Typed
  <1>3. PICK rs2 : rs2 = rows'[d] /\ rs2 \in Seq(Row) /\ Len(rs2) = Len(rs)
    BY <1>2 DEF Beside, RowsStay
  <1>4. PICK h2 \in BOOLEAN : h2 = (holder' = d)
    OBVIOUS
  <1>5. RowsStay(rs, rs2, h2) /\ w = worker'[d] /\ captures \subseteq captures' /\ CapturesWhole'
        /\ pipeline' = pipeline /\ (h2 => holder = d)
    BY <1>1, <1>2, <1>3, <1>4 DEF Beside
  <1>6. \A i \in 1..Len(rs) : RowStays(rs[i], rs2[i], h2) /\ rs[i] \in Row
    BY <1>5 DEF RowsStay
  <1>7. /\ RowsGoOn(d) /\ Counted(w, Len(rs)) /\ Reported(w, rs) /\ Known(w)
        /\ rs # <<>> => /\ RowInHand(w, newest(rs), holder = d)
                        /\ HeadersInHand(w, newest(rs))
                        /\ Concluded(w, newest(rs), current(d))
                        /\ RowBehind(w, newest(rs), current(d) \in cooled)
        /\ Returned(w, rs) /\ NotYetSent(d) /\ Archived(d)
    BY <1>1, <1>2 DEF WorkerFits
  <1>8. current(d)' = current(d) /\ (Len(rs) > 0 => current(d) = <<d, Len(rs)>> /\ Len(rs) \in 1..MaxRows)
    BY <1>2, <1>3, Constants DEF current, Typed, MaxSequence
  <1>9. RowsGoOn(d)'
    <2>1. SUFFICES ASSUME NEW i \in 1..(Len(rs) - 1)
                   PROVE  GoesOn(rs2[i], <<d, i>> \in cooled')
      BY <1>3 DEF RowsGoOn
    <2>2. i \in 1..Len(rs) /\ i \in 1..MaxRows
      BY <1>2, Constants DEF Typed, MaxSequence
    <2>3. GoesOn(rs[i], <<d, i>> \in cooled) /\ (<<d, i>> \in cooled => <<d, i>> \in cooled')
      BY <1>2, <1>7, <2>2 DEF RowsGoOn, Beside
    <2> QED
      BY <1>6, <2>2, <2>3, RowFacts DEF GoesOn, Unfinished
  <1>10. Counted(w, Len(rs2))'
    BY <1>3, <1>5, <1>7 DEF Counted, MaxSequence
  <1>11. Reported(w, rs2)
    <2>1. SUFFICES ASSUME NEW i \in 1..Len(w.outcomes) PROVE w.outcomes[i] = rs2[i].state
      BY DEF Reported
    <2>2. i \in 1..Len(rs) /\ w.outcomes[i] \in Successful \cup Failed /\ w.outcomes[i] = rs[i].state
      BY <1>7 DEF Worker, Counted, Reported
    <2> QED
      BY <1>6, <2>2, RowFacts DEF Unfinished, Successful, Failed
  <1>12. Known(w)'
    BY <1>5, <1>7, KnownStays
  <1>13. rs2 # <<>> => /\ RowInHand(w, newest(rs2), h2)
                       /\ HeadersInHand(w, newest(rs2))'
                       /\ Concluded(w, newest(rs2), current(d))'
                       /\ RowBehind(w, newest(rs2), current(d) \in cooled')
    <2> SUFFICES ASSUME rs2 # <<>>
                 PROVE  /\ RowInHand(w, newest(rs2), h2)
                        /\ HeadersInHand(w, newest(rs2))'
                        /\ Concluded(w, newest(rs2), current(d))'
                        /\ RowBehind(w, newest(rs2), current(d) \in cooled')
      OBVIOUS
    <2>1. rs # <<>> /\ Len(rs) \in 1..Len(rs)
      BY <1>3
    <2>2. PICK r \in Row : r = newest(rs)
      BY <2>1 DEF newest
    <2>3. PICK r2 : r2 = newest(rs2)
      OBVIOUS
    <2>4. RowStays(r, r2, h2)
      BY <1>3, <1>6, <2>1, <2>2, <2>3 DEF newest
    <2>5. PICK k : k = current(d)
      OBVIOUS
    <2>6. k \in cooled => k \in cooled'
      BY <1>8, <2>1, <2>5 DEF Beside
    <2>7. RowInHand(w, r2, h2)
      BY <1>5, <1>7, <2>1, <2>2, <2>4, InHandStays
    <2>8. HeadersInHand(w, r2)'
      BY <1>5, <1>7, <2>1, <2>2, <2>4, HeadersStay
    <2>9. Concluded(w, r2, k)'
      BY <1>5, <1>7, <2>1, <2>2, <2>4, <2>5, ConcludedStays
    <2>10. RowBehind(w, r2, k \in cooled')
      BY <1>7, <2>1, <2>2, <2>4, <2>5, <2>6, BehindStays
    <2> QED
      BY <1>8, <2>3, <2>5, <2>7, <2>8, <2>9, <2>10
  <1>14. Returned(w, rs2)'
    <2>1. Len(w.outcomes) \in Nat /\ \A i \in 1..Len(w.records) : w.records[i] \in Keys
      BY DEF Worker
    <2> QED
      BY <1>5, <1>7, <2>1, ReturnedStays
  <1>15. NotYetSent(d)'
    <2>1. w.pc \in Open => Len(rs) > 0
      BY <1>7 DEF Counted
    <2> QED
      BY <1>1, <1>5, <1>7, <1>8, <2>1 DEF NotYetSent, at, Open, Beside
  <1>16. Archived(d)'
    <2>1. w.pc \in Open => Len(rs) > 0
      BY <1>7 DEF Counted
    <2> QED
      BY <1>1, <1>5, <1>7, <1>8, <2>1 DEF Archived, at, Open, Answered, Beside, FileStays
  <1> QED
    BY <1>3, <1>4, <1>5, <1>8, <1>9, <1>10, <1>11, <1>12, <1>13, <1>14, <1>15, <1>16 DEF WorkerFits

-----------------------------------------------------------------------------
(***************************************************************************)
(* A step of a worker with an attempt in its hands.                        *)
(***************************************************************************)
\* Row and file of the attempt may change, and it may be sent.
OpenStep(e, w2, r2, f2, out) ==
    LET r == newest(rows[e])
    IN  /\ worker[e].pc \in Open /\ w2 \in Worker /\ w2.pc \in Open
        /\ w2.outcomes = worker[e].outcomes /\ w2.records = worker[e].records /\ w2.mode = worker[e].mode
        /\ r2 \in Row
        /\ \/ r2 = r
           \/ /\ holder = e /\ r.state \in Unfinished /\ r2.state \in Unfinished
              /\ r.requested => r2.requested
              /\ r2.completed = None
        /\ f2 \in {"none", "temporary", "linked", "durable", "damaged"}
        /\ out \in BOOLEAN /\ (out => r2.requested /\ r2.state # "cancelled")
        /\ pipeline' = pipeline /\ holder' = holder /\ captures' = captures /\ cooled' = cooled
        /\ worker' = [worker EXCEPT ![e] = w2]
        /\ rows' \in [Executions -> Seq(Row)] /\ \A d \in Executions \ {e} : rows'[d] = rows[d]
        /\ Len(rows'[e]) = Len(rows[e])
        /\ \A i \in 1..Len(rows[e]) : rows'[e][i] = IF i = Len(rows[e]) THEN r2 ELSE rows[e][i]
        /\ archive' = [archive EXCEPT ![current(e)] = f2]
        /\ sent' = IF out THEN sent \cup {current(e)} ELSE sent

\* What that must leave in the worker's hands.
OpenFits(e, w2, r2, f2, out) ==
    /\ RowInHand(w2, r2, holder = e) /\ HeadersInHand(w2, r2) /\ Concluded(w2, r2, current(e))
    /\ KnownRefs(w2)
    /\ w2.pc \in Unsent \/ (w2.pc = "finish" /\ w2.outcome.state = "cancelled") =>
          ~out /\ current(e) \notin sent
    /\ w2.pc \in {"payload", "unchanged", "conclude"} \/ (w2.pc = "finish" /\ w2.outcome.capture) =>
          f2 \in {"durable", "damaged"}

LEMMA OpenRows ==
  ASSUME IndInv, NEW e \in Executions, NEW w2, NEW r2, NEW f2, NEW out, OpenStep(e, w2, r2, f2, out)
  PROVE  /\ Len(rows[e]) > 0 /\ current(e) \in Attempts /\ current(e) \in on_record /\ current(e)' = current(e)
         /\ current(e)[1] = e /\ current(e) = <<e, Len(rows[e])>> /\ current(e) \in Keys
         /\ row(current(e)) = newest(rows[e]) /\ newest(rows[e]) \in Row
         /\ newest(rows[e]).state \in Unfinished \cup {"interrupted_unknown"}
         /\ newest(rows[e]).completed = None /\ r2.completed = None
         /\ newest(rows'[e]) = r2 /\ on_record' = on_record /\ row(current(e))' = r2
         /\ \A k \in on_record : k # current(e) => row(k)' = row(k)
         /\ \A c \in captures : c.id # current(e)
         /\ \A d \in Executions : d # e => worker'[d] = worker[d]
         /\ worker'[e] = w2 /\ w2.pc # "unclaimed"
         /\ r2.state = newest(rows[e]).state \/ {r2.state, newest(rows[e]).state} \subseteq Unfinished
  <1>1. Typed /\ WorkerFits(e) /\ CapturesWhole
    BY DEF IndInv
  <1>2. Len(rows[e]) > 0 /\ Len(rows[e]) \in Nat
    BY <1>1 DEF OpenStep, WorkerFits, Counted, Typed
  <1>3. /\ current(e) \in Attempts /\ current(e) \in on_record /\ current(e)[1] = e
        /\ current(e)[2] = Len(rows[e]) /\ current(e) = <<e, Len(rows[e])>>
        /\ row(current(e)) = newest(rows[e]) /\ newest(rows[e]) \in Row
    BY <1>1, <1>2, InHand DEF current
  <1>4. rows[e] # <<>>
    BY <1>2
  <1>5. /\ newest(rows[e]).state \in Unfinished \cup {"interrupted_unknown"}
        /\ newest(rows[e]).completed = None
    BY <1>1, <1>4 DEF WorkerFits, RowInHand, OpenStep
  <1>6. current(e)' = current(e) /\ newest(rows'[e]) = r2
    BY <1>2 DEF OpenStep, current, newest
  <1>7. on_record' = on_record
    <2>1. ASSUME NEW d \in Executions PROVE Len(rows'[d]) = Len(rows[d])
      BY DEF OpenStep
    <2> QED
      BY <2>1, KeyFacts DEF on_record
  <1>8. ASSUME NEW k \in on_record PROVE row(k)' = IF k = current(e) THEN r2 ELSE row(k)
    <2>1. k \in Attempts /\ k[1] \in Executions /\ k[2] \in 1..Len(rows[k[1]]) /\ k = <<k[1], k[2]>>
      BY <1>8, <1>1, KeyFacts DEF on_record, Typed
    <2>2. CASE k[1] # e
      BY <2>1, <2>2, <1>3 DEF row, OpenStep
    <2>3. CASE k[1] = e
      BY <2>1, <2>3, <1>3 DEF row, OpenStep
    <2> QED
      BY <2>2, <2>3
  <1>9. ASSUME NEW c \in captures PROVE c.id # current(e)
    <2> SUFFICES ASSUME c.id = current(e) PROVE FALSE
      OBVIOUS
    <2>1. c.id # Base
      BY <1>3, KeyFacts
    <2>2. row(c.id).completed = c.id
      BY <1>1, <2>1 DEF CapturesWhole
    <2>3. current(e) = None
      BY <1>3, <1>5, <2>2
    <2> QED
      BY <1>3, <2>3, KeyFacts
  <1>10. worker'[e] = w2 /\ \A d \in Executions : d # e => worker'[d] = worker[d]
    BY <1>1 DEF OpenStep, Typed
  <1>11. /\ w2.pc # "unclaimed" /\ r2.completed = None
         /\ r2.state = newest(rows[e]).state \/ {r2.state, newest(rows[e]).state} \subseteq Unfinished
    BY <1>5 DEF OpenStep, Open, Unsent, Prepared, Answered
  <1> QED
    BY <1>2, <1>3, <1>5, <1>6, <1>7, <1>8, <1>9, <1>10, <1>11, KeyFacts

LEMMA OpenTables ==
  ASSUME IndInv, NEW e \in Executions, NEW w2, NEW r2, NEW f2, NEW out, OpenStep(e, w2, r2, f2, out)
  PROVE  Typed' /\ ClaimsInOrder' /\ CapturesWhole' /\ Observed' /\ SentIsOnRecord' /\ CaptureHasBytes'
  <1>1. /\ Typed /\ ClaimsInOrder /\ CapturesWhole /\ Observed /\ SentIsOnRecord /\ CaptureHasBytes
    BY DEF IndInv
  <1>2. PICK k \in Attempts : k = current(e)
    BY OpenRows
  <1>3. /\ k \in on_record /\ row(k) = newest(rows[e]) /\ row(k) \in Row
        /\ row(k).state \in Unfinished \cup {"interrupted_unknown"}
        /\ row(k).completed = None /\ r2.completed = None
        /\ on_record' = on_record /\ row(k)' = r2
        /\ \A l \in on_record : l # k => row(l)' = row(l)
        /\ \A c \in captures : c.id # k
        /\ r2.state = row(k).state \/ {r2.state, row(k).state} \subseteq Unfinished
    BY <1>2, OpenRows
  <1>4. r2 = row(k) \/ ((row(k).requested => r2.requested) /\ r2.state \in Unfinished)
    BY <1>2, <1>3 DEF OpenStep
  <1>5. Typed'
    <2>1. worker' \in [Executions -> Worker]
      BY <1>1 DEF OpenStep, Typed
    <2>2. archive' \in [Keys -> {"none", "temporary", "linked", "durable", "damaged"}]
      BY <1>1 DEF OpenStep, Typed
    <2>3. sent' \subseteq Attempts
      BY <1>1, <1>2 DEF OpenStep, Typed
    <2>4. \A d \in Executions : Len(rows'[d]) <= MaxSequence'
      BY <1>1 DEF OpenStep, Typed, MaxSequence
    <2> QED
      BY <1>1, <2>1, <2>2, <2>3, <2>4 DEF OpenStep, Typed
  <1>6. ClaimsInOrder'
    <2>1. \A d \in Executions : at(d, "unclaimed")' <=> at(d, "unclaimed")
      BY OpenRows DEF at, OpenStep, Open, Unsent, Prepared, Answered
    <2> QED
      BY <1>1, <2>1 DEF ClaimsInOrder, OpenStep
  <1>7. CapturesWhole'
    BY <1>1, <1>3 DEF CapturesWhole, OpenStep
  <1>8. Observed'
    <2> SUFFICES ASSUME NEW l \in on_record', row(l)'.state \in Successful
                 PROVE  (observation(l) # None /\ captured(observation(l)))'
      BY DEF Observed
    <2>1. l # k
      BY <1>3 DEF Unfinished, Successful
    <2>2. l \in on_record /\ row(l)' = row(l) /\ observation(l)' = observation(l)
      BY <1>3, <2>1 DEF observation
    <2>3. observation(l) # None /\ captured(observation(l))
      BY <1>1, <2>2 DEF Observed
    <2> QED
      BY <2>2, <2>3 DEF captured, OpenStep
  <1>9. SentIsOnRecord'
    <2> SUFFICES ASSUME NEW l \in sent'
                 PROVE  l \in on_record' /\ row(l)'.requested /\ row(l)'.state # "cancelled"
      BY DEF SentIsOnRecord
    <2>1. CASE l \in sent /\ l # k
      BY <1>1, <1>3, <2>1 DEF SentIsOnRecord
    <2>2. CASE l \in sent /\ l = k
      BY <1>1, <1>3, <1>4, <2>2 DEF SentIsOnRecord, Unfinished
    <2>3. CASE l \notin sent
      BY <1>2, <1>3, <2>3 DEF OpenStep
    <2> QED
      BY <2>1, <2>2, <2>3
  <1>10. CaptureHasBytes'
    <2> SUFFICES ASSUME NEW c \in captures PROVE archive'[c.id] \in {"durable", "damaged"}
      BY DEF CaptureHasBytes, OpenStep
    <2>1. c.id \in Keys /\ c.id # k
      BY <1>1, <1>3 DEF Typed, Capture
    <2> QED
      BY <1>1, <1>2, <2>1 DEF OpenStep, Typed, CaptureHasBytes
  <1> QED
    BY <1>5, <1>6, <1>7, <1>8, <1>9, <1>10

LEMMA OpenMonitor ==
  ASSUME IndInv, NEW e \in Executions, NEW w2, NEW r2, NEW f2, NEW out, OpenStep(e, w2, r2, f2, out)
  PROVE  OnePrior' /\ NoneLeft'
  <1>1. OnePrior /\ NoneLeft
    BY DEF IndInv
  <1>2. PICK k \in Attempts : k = current(e)
    BY OpenRows
  <1>3. /\ k \in on_record /\ row(k) = newest(rows[e]) /\ k[1] = e
        /\ row(k).state \in Unfinished \cup {"interrupted_unknown"}
        /\ on_record' = on_record /\ row(k)' = r2
        /\ \A l \in on_record : l # k => row(l)' = row(l)
        /\ r2.state = row(k).state \/ {r2.state, row(k).state} \subseteq Unfinished
        /\ \A d \in Executions : d # e => worker'[d] = worker[d]
        /\ worker'[e] = w2
    BY <1>2, OpenRows
  <1>4. Monitor' = Monitor /\ holder' = holder /\ captures' = captures /\ w2.mode = worker[e].mode
        /\ {w2.pc, worker[e].pc} \subseteq Open
    BY DEF OpenStep, Monitor
  <1>5. prior' = prior /\ \A l \in prior : observation(l)' = observation(l)
    <2>1. k \notin prior /\ k \notin prior'
      BY <1>3 DEF prior, Successful, Unfinished
    <2> QED
      BY <1>3, <2>1 DEF prior, observation
  <1>6. ASSUME NEW d \in Executions
        PROVE  /\ at(d, "returned")' => at(d, "returned") /\ worker'[d] = worker[d]
               /\ worker'[d].mode = worker[d].mode
    BY <1>3, <1>4 DEF at, Active, Between, Open, Unsent, Prepared, Answered, Early
  <1>7. OnePrior'
    <2> SUFFICES ASSUME Monitor' PROVE OnePrior'
      BY DEF OnePrior
    <2>1. ASSUME NEW d \in Executions PROVE PriorFits(worker[d], holder = d)'
      <3>1. PICK w : w = worker[d]
        OBVIOUS
      <3>2. PICK w3 : w3 = worker'[d]
        OBVIOUS
      <3>3. PICK h : h = (holder = d)
        OBVIOUS
      <3>4. PriorFits(w, h)
        BY <1>1, <1>4, <3>1, <3>3 DEF OnePrior
      <3>5. w3 = w \/ ({w3.pc, w.pc} \subseteq Active \ {"fetch", "returned"} /\ w3.mode = w.mode)
        BY <1>3, <1>4, <3>1, <3>2 DEF Active, Open, Unsent, Prepared, Answered, Between
      <3>6. usable(w)' = usable(w)
        BY <1>4 DEF usable, captured
      <3>7. PriorFits(w3, h)'
        BY <1>5, <3>4, <3>5, <3>6 DEF PriorFits
      <3> QED
        BY <1>4, <3>2, <3>3, <3>7
    <2> QED
      BY <1>1, <1>4, <1>5, <2>1 DEF OnePrior
  <1>8. NoneLeft'
    <2> SUFFICES ASSUME Monitor', NEW d \in Executions, NEW l \in on_record', l[1] < d,
                        row(l)'.state \in Unfinished
                 PROVE  /\ rows'[d] = <<>> /\ worker'[d].pc \notin {"choose", "fetch"} \cup Active
                        /\ at(d, "recover")' => l \in worker'[d].abandoned
      BY DEF NoneLeft
    <2>1. l \in on_record /\ row(l).state \in Unfinished
      BY <1>3 DEF Unfinished
    <2>2. /\ rows[d] = <<>> /\ worker[d].pc \notin {"choose", "fetch"} \cup Active
          /\ at(d, "recover") => l \in worker[d].abandoned
      BY <1>1, <1>4, <2>1 DEF NoneLeft
    <2>3. d # e
      BY <1>4, <2>2 DEF Active
    <2> QED
      BY <1>3, <2>2, <2>3 DEF at, OpenStep
  <1> QED
    BY <1>7, <1>8

\* Files and rows of other executions are other keys.
LEMMA OpenBeside ==
  ASSUME IndInv, NEW e \in Executions, NEW w2, NEW r2, NEW f2, NEW out, OpenStep(e, w2, r2, f2, out),
         NEW d \in Executions \ {e}
  PROVE  Beside(d)
  <1>1. CapturesWhole' /\ Typed
    BY OpenTables DEF IndInv
  <1>2. rows'[d] = rows[d] /\ rows[d] \in Seq(Row)
    BY <1>1 DEF OpenStep, Typed
  <1>3. RowsStay(rows[d], rows'[d], holder' = d)
    BY <1>2 DEF RowsStay, RowStays
  <1>4. ASSUME NEW n \in 1..MaxRows
        PROVE  /\ archive'[<<d, n>>] = archive[<<d, n>>]
               /\ <<d, n>> \in sent' <=> <<d, n>> \in sent
    <2>1. <<d, n>> # current(e) /\ <<d, n>> \in Keys /\ current(e) \in Keys
      BY OpenRows, KeyFacts
    <2> QED
      BY <1>1, <2>1 DEF OpenStep, Typed
  <1> QED
    BY <1>1, <1>3, <1>4, OpenRows DEF Beside, OpenStep, FileStays

LEMMA OpenOK ==
  ASSUME IndInv, NEW e \in Executions, NEW w2, NEW r2, NEW f2, NEW out, OpenStep(e, w2, r2, f2, out),
         OpenFits(e, w2, r2, f2, out)
  PROVE  IndInv'
  <1>1. WorkerFits(e)'
    <2>1. PICK w \in Worker : w = worker[e]
      BY DEF IndInv, Typed
    <2>2. PICK rs \in Seq(Row) : rs = rows[e] /\ rs # <<>> /\ Len(rs) \in Nat /\ Len(rs) > 0
      BY OpenRows DEF IndInv, Typed
    <2>3. PICK rs2 \in Seq(Row) : rs2 = rows'[e]
      BY DEF OpenStep
    <2>4. PICK k \in Attempts : k = current(e) /\ k = current(e)' /\ k = <<e, Len(rs)>>
      BY <2>2, OpenRows
    <2>5. /\ w2 = worker'[e] /\ newest(rs2) = r2 /\ Len(rs2) = Len(rs) /\ rs2 # <<>>
          /\ \A i \in 1..(Len(rs) - 1) : rs2[i] = rs[i]
          /\ w.pc \in Open /\ w2.pc \in Open /\ w2.outcomes = w.outcomes /\ w2.records = w.records
      <3>1. /\ Len(rs2) = Len(rs) /\ \A i \in 1..Len(rs) : i # Len(rs) => rs2[i] = rs[i]
            /\ w.pc \in Open /\ w2.pc \in Open /\ w2.outcomes = w.outcomes /\ w2.records = w.records
        BY <2>1, <2>2, <2>3 DEF OpenStep
      <3>2. w2 = worker'[e] /\ newest(rs2) = r2
        BY <2>3, OpenRows
      <3> QED
        BY <2>2, <3>1, <3>2
    <2>6. RowsGoOn(e) /\ Counted(w, Len(rs)) /\ Reported(w, rs) /\ Known(w)
      BY <2>1, <2>2 DEF IndInv, WorkerFits
    <2>7. RowsGoOn(e)'
      BY <2>2, <2>3, <2>5, <2>6 DEF RowsGoOn, OpenStep
    <2>8. Counted(w2, Len(rs2))'
      BY <2>5, <2>6 DEF Counted, Open, Unsent, Prepared, Answered, Early, Between
    <2>9. Reported(w2, rs2)
      BY <2>2, <2>5, <2>6 DEF Reported, Counted
    <2>10. Known(w2)'
      BY <2>5, <2>6 DEF Known, KnownRefs, captured, OpenFits, OpenStep
    <2>11. RowInHand(w2, r2, holder' = e) /\ HeadersInHand(w2, r2)' /\ Concluded(w2, r2, k)'
      <3>1. /\ RowInHand(w2, r2, holder' = e) /\ HeadersInHand(w2, r2) /\ Concluded(w2, r2, k)
            /\ r2 \in Row /\ pipeline' = pipeline /\ captures \subseteq captures'
        BY <2>4 DEF OpenFits, OpenStep
      <3>2. Known(w2) /\ RowStays(r2, r2, FALSE)
        BY <2>5, <2>6 DEF Known, OpenFits, RowStays
      <3> QED
        BY <3>1, <3>2, HeadersStay, ConcludedStays, OpenTables
    <2>12. RowBehind(w2, r2, k \in cooled') /\ Returned(w2, rs2)'
      BY <2>5 DEF RowBehind, Returned, Open, Unsent, Prepared, Answered
    <2>13. NotYetSent(e)'
      <3>1. w2.pc \in Unsent \/ (w2.pc = "finish" /\ w2.outcome.state = "cancelled") => k \notin sent'
        BY <2>4 DEF OpenFits, OpenStep
      <3> QED
        BY <2>4, <2>5, <3>1 DEF NotYetSent, at
    <2>14. Archived(e)'
      <3>1. archive'[k] = f2
        BY <2>4, KeyFacts DEF OpenStep, IndInv, Typed
      <3> QED
        BY <2>4, <2>5, <3>1 DEF Archived, OpenFits, at
    <2> QED
      BY <2>3, <2>4, <2>5, <2>7, <2>8, <2>9, <2>10, <2>11, <2>12, <2>13, <2>14 DEF WorkerFits
  <1>2. ASSUME NEW d \in Executions \ {e} PROVE WorkerFits(d)'
    BY <1>2, OpenBeside, OthersFit DEF IndInv
  <1> QED
    BY <1>1, <1>2, OpenTables, OpenMonitor DEF IndInv

\* A worker with a row in hand and all that is said of them.
LEMMA HandFacts ==
  ASSUME IndInv, NEW e \in Executions, worker[e].pc \in Open
  PROVE  /\ worker[e] \in Worker /\ newest(rows[e]) \in Row /\ current(e) \in Keys /\ current(e) \in Attempts
         /\ rows[e] # <<>> /\ Len(rows[e]) \in Nat /\ Len(rows[e]) > 0 /\ row(current(e)) = newest(rows[e])
         /\ RowInHand(worker[e], newest(rows[e]), holder = e)
         /\ HeadersInHand(worker[e], newest(rows[e]))
         /\ Concluded(worker[e], newest(rows[e]), current(e))
         /\ KnownRefs(worker[e])
         /\ NotYetSent(e) /\ Archived(e) /\ Typed
  <1>1. Typed /\ WorkerFits(e)
    BY DEF IndInv
  <1>2. Len(rows[e]) > 0 /\ Len(rows[e]) \in Nat /\ rows[e] # <<>>
    BY <1>1 DEF WorkerFits, Counted, Typed
  <1>3. KnownRefs(worker[e])
    BY <1>1 DEF WorkerFits, Known
  <1> QED
    BY <1>1, <1>2, <1>3, InHand, KeyFacts DEF WorkerFits, Typed

Files == {"none", "temporary", "linked", "durable", "damaged"}

\* A worker moves on, its row stays; its file may change and it may be sent.
Advance(e, w2, f2, out) ==
    /\ worker' = [worker EXCEPT ![e] = w2]
    /\ archive' = [archive EXCEPT ![current(e)] = f2]
    /\ sent' = IF out THEN sent \cup {current(e)} ELSE sent
    /\ UNCHANGED <<holder, rows, captures, cooled>>

LEMMA Moves ==
  ASSUME IndInv, NEW e \in Executions, worker[e].pc \in Open, NEW w2, move(e, w2)
  PROVE  Advance(e, w2, archive[current(e)], FALSE) /\ archive[current(e)] \in Files
  <1>1. Typed /\ current(e) \in Keys
    BY HandFacts
  <1> QED
    BY <1>1 DEF move, Advance, Typed, Files

LEMMA AdvanceOK ==
  ASSUME IndInv, pipeline' = pipeline, NEW e \in Executions, worker[e].pc \in Open,
         NEW w2 \in Worker, NEW f2 \in Files, NEW out \in BOOLEAN, Advance(e, w2, f2, out),
         w2.pc \in Open, w2.outcomes = worker[e].outcomes, w2.records = worker[e].records,
         w2.mode = worker[e].mode, out => worker[e].pc = "send",
         OpenFits(e, w2, newest(rows[e]), f2, out)
  PROVE  IndInv'
  <1>1. Typed /\ newest(rows[e]) \in Row /\ Len(rows[e]) \in Nat /\ Len(rows[e]) > 0
    BY HandFacts
  <1>2. RowInHand(worker[e], newest(rows[e]), holder = e)
    BY HandFacts
  <1>3. out => newest(rows[e]).requested /\ newest(rows[e]).state # "cancelled"
    BY <1>2 DEF RowInHand, Unfinished
  <1>4. \A i \in 1..Len(rows[e]) :
           rows'[e][i] = IF i = Len(rows[e]) THEN newest(rows[e]) ELSE rows[e][i]
    BY <1>1 DEF Advance, newest
  <1>5. OpenStep(e, w2, newest(rows[e]), f2, out)
    BY <1>1, <1>3, <1>4 DEF OpenStep, Advance, Typed, Files
  <1> QED
    BY <1>5, OpenOK

Broken == {"transport_error", "archive_error", "body_limit", "cancelled"}

\* The table accepts such an outcome of any row.
LEMMA BrokenIsAccepted ==
  ASSUME NEW r \in Row, NEW k, NEW o, o.state \in Broken, o.capture = FALSE, o.reused = None
  PROVE  row_shape(finished(r, k, o)) /\ \A B : payload_guard(finished(r, k, o), B)
  <1>1. PICK f : f = finished(r, k, o)
    OBVIOUS
  <1>2. f.state \in Broken /\ f.completed = None /\ f.reused = None
    BY <1>1, FinishedFields
  <1>3. row_shape(f)
    BY <1>2 DEF row_shape, Broken
  <1>4. \A B : payload_guard(f, B)
    BY <1>2 DEF payload_guard, Broken
  <1> QED
    BY <1>1, <1>3, <1>4

\* The worker gives up an attempt without a response on record to refer to.
LEMMA GivenUp ==
  ASSUME NEW w \in Worker, NEW r \in Row, NEW h, NEW k, w.pc \in Open, RowInHand(w, r, h),
         NEW st \in Broken, NEW reason \in Gaps, NEW next \in {"return", "next", "retry"},
         next = "return" => reason # "none", next # "return" => st = "transport_error",
         st = "body_limit" => r.state # "prepared", NEW w2, w2 = concluding(w, st, reason, next)
  PROVE  /\ w2 \in Worker /\ w2.pc = "finish" /\ w2.outcomes = w.outcomes /\ w2.records = w.records
         /\ w2.mode = w.mode /\ w2.cached = w.cached /\ w2.replay = w.replay
         /\ w2.validator = w.validator /\ w2.outcome.state = st /\ ~w2.outcome.capture
         /\ RowInHand(w2, r, h) /\ HeadersInHand(w2, r) /\ Concluded(w2, r, k)
  <1> DEFINE u == [state |-> st, capture |-> FALSE, reused |-> None, gap |-> reason, then |-> next]
             v == [w EXCEPT !.pc = "finish", !.response = no_response, !.outcome = u]
  <1>1. v = concluding(w, st, reason, next)
    BY DEF concluding
  <1>2. u \in Outcome
    BY DEF Outcome, Broken, Successful, Failed, Refs
  <1>3. v \in Worker
    BY <1>2 DEF Worker, Pcs
  <1>4. PICK o \in Outcome : /\ o = u /\ o.state = st /\ o.capture = FALSE /\ o.reused = None
                             /\ o.gap = reason /\ o.then = next
    BY <1>2
  <1>5. /\ w2 \in Worker /\ w2.pc = "finish" /\ w2.outcomes = w.outcomes /\ w2.records = w.records
        /\ w2.mode = w.mode /\ w2.cached = w.cached /\ w2.replay = w.replay
        /\ w2.validator = w.validator /\ w2.outcome = o
    BY <1>1, <1>3, <1>4 DEF Worker
  <1> HIDE DEF u, v
  <1>6. RowInHand(w2, r, h)
    BY <1>5 DEF RowInHand, Open, Unsent, Prepared, Answered
  <1>7. HeadersInHand(w2, r)
    BY <1>5 DEF HeadersInHand, Answered
  <1>8. row_shape(finished(r, k, o)) /\ \A B : payload_guard(finished(r, k, o), B)
    BY <1>4, BrokenIsAccepted
  <1>9. Concluded(w2, r, k)
    BY <1>4, <1>5, <1>8 DEF Concluded, Broken, Successful
  <1> QED
    BY <1>1, <1>4, <1>5, <1>6, <1>7, <1>9

\* ... and goes on to record that, the file as it is.
LEMMA GivesUp ==
  ASSUME IndInv, pipeline' = pipeline, NEW e \in Executions, worker[e].pc \in Open,
         NEW st \in Broken, NEW reason \in Gaps, NEW next \in {"return", "next", "retry"},
         next = "return" => reason # "none", next # "return" => st = "transport_error",
         st = "body_limit" => newest(rows[e]).state # "prepared",
         NEW f2 \in Files, NEW out \in BOOLEAN, out => worker[e].pc = "send",
         st = "cancelled" => ~out /\ current(e) \notin sent,
         Advance(e, concluding(worker[e], st, reason, next), f2, out)
  PROVE  IndInv'
  <1>1. PICK w \in Worker : w = worker[e]
    BY HandFacts
  <1>2. PICK r \in Row : r = newest(rows[e])
    BY HandFacts
  <1>3. PICK k : k = current(e)
    OBVIOUS
  <1>4. PICK h : h = (holder = e)
    OBVIOUS
  <1>5. RowInHand(w, r, h) /\ w.pc \in Open
    BY <1>1, <1>2, <1>4, HandFacts
  <1>6. PICK w2 : w2 = concluding(w, st, reason, next)
    OBVIOUS
  <1>7. /\ w2 \in Worker /\ w2.pc = "finish" /\ w2.outcomes = w.outcomes /\ w2.records = w.records
        /\ w2.mode = w.mode /\ w2.cached = w.cached /\ w2.replay = w.replay
        /\ w2.validator = w.validator /\ w2.outcome.state = st /\ ~w2.outcome.capture
        /\ RowInHand(w2, r, h) /\ HeadersInHand(w2, r) /\ Concluded(w2, r, k)
    BY <1>2, <1>5, <1>6, GivenUp
  <1>8. OpenFits(e, w2, r, f2, out)
    <2>1. RowInHand(w2, r, holder = e) /\ HeadersInHand(w2, r) /\ Concluded(w2, r, current(e))
      BY <1>3, <1>4, <1>7
    <2>2. KnownRefs(w2)
      <3>1. KnownRefs(w)
        BY <1>1, HandFacts
      <3> QED
        BY <1>7, <3>1 DEF KnownRefs
    <2>3. w2.pc \in Unsent \/ (w2.pc = "finish" /\ w2.outcome.state = "cancelled") =>
             ~out /\ current(e) \notin sent
      BY <1>7 DEF Unsent, Prepared
    <2>4. ~(w2.pc \in {"payload", "unchanged", "conclude"} \/ (w2.pc = "finish" /\ w2.outcome.capture))
      BY <1>7
    <2> QED
      BY <2>1, <2>2, <2>3, <2>4 DEF OpenFits
  <1>9. Advance(e, w2, f2, out) /\ w2.pc \in Open /\ w2.outcomes = worker[e].outcomes
        /\ w2.records = worker[e].records /\ w2.mode = worker[e].mode
        /\ OpenFits(e, w2, newest(rows[e]), f2, out)
    BY <1>1, <1>2, <1>6, <1>7, <1>8 DEF Open
  <1> QED
    BY <1>7, <1>9, AdvanceOK

\* ... and goes to another place, with only its row to look at there.
LEMMA GoesTo ==
  ASSUME IndInv, pipeline' = pipeline, NEW e \in Executions, worker[e].pc \in Open,
         NEW p \in Open \ {"finish"}, NEW f2 \in Files, Advance(e, [worker[e] EXCEPT !.pc = p], f2, FALSE),
         RowInHand([worker[e] EXCEPT !.pc = p], newest(rows[e]), holder = e),
         HeadersInHand([worker[e] EXCEPT !.pc = p], newest(rows[e])),
         p \in Unsent => worker[e].pc \in Unsent,
         p \in {"payload", "unchanged", "conclude"} => f2 \in {"durable", "damaged"}
  PROVE  IndInv'
  <1>1. PICK w \in Worker : w = worker[e]
    BY HandFacts
  <1>2. PICK w2 : w2 = [w EXCEPT !.pc = p]
    OBVIOUS
  <1>3. /\ w2 \in Worker /\ w2.pc = p /\ w2.outcomes = w.outcomes /\ w2.records = w.records
        /\ w2.mode = w.mode /\ w2.cached = w.cached /\ w2.replay = w.replay /\ w2.validator = w.validator
    BY <1>2 DEF Worker, Pcs, Open, Unsent, Prepared, Answered
  <1>4. Concluded(w2, newest(rows[e]), current(e))
    BY <1>3 DEF Concluded
  <1>5. p \in Unsent => current(e) \notin sent
    BY HandFacts DEF NotYetSent
  <1>6. OpenFits(e, w2, newest(rows[e]), f2, FALSE)
    <2>1. RowInHand(w2, newest(rows[e]), holder = e) /\ HeadersInHand(w2, newest(rows[e]))
      BY <1>1, <1>2
    <2>2. KnownRefs(w2)
      <3>1. KnownRefs(w)
        BY <1>1, HandFacts
      <3> QED
        BY <1>3, <3>1 DEF KnownRefs
    <2> QED
      BY <1>3, <1>4, <1>5, <2>1, <2>2 DEF OpenFits
  <1>7. Advance(e, w2, f2, FALSE) /\ w2.pc \in Open /\ w2.outcomes = worker[e].outcomes
        /\ w2.records = worker[e].records /\ w2.mode = worker[e].mode
    BY <1>1, <1>2, <1>3
  <1> QED
    BY <1>3, <1>6, <1>7, AdvanceOK

LEMMA TransferFails ==
  ASSUME IndInv, pipeline' = pipeline, NEW e \in Executions, worker[e].pc \in Open,
         NEW f2 \in Files, NEW out \in BOOLEAN, out => worker[e].pc = "send",
         Advance(e, transfer_failed(worker[e]), f2, out)
  PROVE  IndInv'
  <1>1. "transport_error" \in Broken /\ "none" \in Gaps /\ "retry" \in {"return", "next", "retry"}
    BY DEF Broken, Gaps
  <1>2. Advance(e, concluding(worker[e], "transport_error", "none", "retry"), f2, out)
    BY DEF transfer_failed
  <1> QED
    BY <1>1, <1>2, GivesUp

LEMMA Cancels ==
  ASSUME IndInv, pipeline' = pipeline, NEW e \in Executions, worker[e].pc \in Unsent,
         NEW reason \in Gaps, reason # "none", move(e, cancelling(worker[e], reason))
  PROVE  IndInv'
  <1>1. worker[e].pc \in Open /\ current(e) \notin sent
    BY HandFacts DEF Open, NotYetSent
  <1>2. /\ "cancelled" \in Broken
        /\ Advance(e, concluding(worker[e], "cancelled", reason, "return"), archive[current(e)], FALSE)
        /\ archive[current(e)] \in Files
    BY <1>1, Moves DEF cancelling, Broken
  <1> QED
    BY <1>1, <1>2, GivesUp

LEMMA ArchiveFails ==
  ASSUME IndInv, pipeline' = pipeline, NEW e \in Executions, worker[e].pc \in Open,
         NEW st \in {"transport_error", "archive_error", "body_limit"},
         st = "body_limit" => newest(rows[e]).state # "prepared",
         NEW f2 \in Files, Advance(e, archive_failed(worker[e], st), f2, FALSE)
  PROVE  IndInv'
  <1>1. st \in Broken /\ st # "cancelled" /\ st # "none" /\ st \in Gaps
    BY DEF Broken, Gaps
  <1>2. Advance(e, concluding(worker[e], st, st, "return"), f2, FALSE)
    BY DEF archive_failed
  <1> QED
    BY <1>1, <1>2, GivesUp

\* The same where the file stays.
LEMMA MovesTo ==
  ASSUME IndInv, pipeline' = pipeline, NEW e \in Executions, worker[e].pc \in Open,
         NEW p \in Open \ {"finish"}, move(e, [worker[e] EXCEPT !.pc = p]),
         RowInHand([worker[e] EXCEPT !.pc = p], newest(rows[e]), holder = e),
         HeadersInHand([worker[e] EXCEPT !.pc = p], newest(rows[e])),
         p \in Unsent => worker[e].pc \in Unsent, p \notin {"payload", "unchanged", "conclude"}
  PROVE  IndInv'
  BY Moves, GoesTo

LEMMA AcquireOK ==
  ASSUME IndInv, pipeline' = pipeline, NEW e \in Executions, acquire(e) \/ guard(e)
  PROVE  IndInv'
  <1> DEFINE w == worker[e]
             r == newest(rows[e])
  <1>1. w.pc \in Prepared /\ w.pc \in Open
    BY DEF acquire, guard, at, Open, Unsent, Prepared
  <1>2. w \in Worker /\ RowInHand(w, r, holder = e)
    BY <1>1, HandFacts
  <1>3. ASSUME NEW p \in {"guard", "dispatch"}, move(e, [w EXCEPT !.pc = p])
        PROVE  IndInv'
    <2>1. [w EXCEPT !.pc = p].pc = p /\ [w EXCEPT !.pc = p].validator = w.validator
      BY <1>2 DEF Worker
    <2>2. RowInHand([w EXCEPT !.pc = p], r, holder = e)
      BY <1>1, <1>2, <2>1 DEF RowInHand, Open, Unsent, Prepared, Answered
    <2>3. HeadersInHand([w EXCEPT !.pc = p], r)
      BY <2>1 DEF HeadersInHand, Answered
    <2> QED
      BY <1>1, <1>3, <2>2, <2>3, MovesTo DEF Open, Unsent, Prepared
  <1>4. CASE \E reason \in {"rate_deferred", "coordination_unavailable"} : move(e, cancelling(w, reason))
    <2>1. PICK reason \in {"rate_deferred", "coordination_unavailable"} : move(e, cancelling(w, reason))
      BY <1>4
    <2>2. reason \in Gaps /\ reason # "none" /\ worker[e].pc \in Unsent
      BY <1>1, <2>1 DEF Unsent, Gaps
    <2> QED
      BY <2>1, <2>2, Cancels
  <1> QED
    BY <1>3, <1>4 DEF acquire, guard

LEMMA ConfirmOK ==
  ASSUME IndInv, pipeline' = pipeline, NEW e \in Executions, confirm(e)
  PROVE  IndInv'
  <1> DEFINE w == worker[e]
             r == newest(rows[e])
  <1>1. w.pc = "confirm" /\ w.pc \in Open /\ w.pc \in Unsent
    BY DEF confirm, at, Open, Unsent
  <1>2. w \in Worker /\ RowInHand(w, r, holder = e)
    BY <1>1, HandFacts
  <1>3. CASE move(e, [w EXCEPT !.pc = "send"])
    <2>1. [w EXCEPT !.pc = "send"].pc = "send" /\ [w EXCEPT !.pc = "send"].validator = w.validator
      BY <1>2 DEF Worker
    <2>2. RowInHand([w EXCEPT !.pc = "send"], r, holder = e)
      BY <1>1, <1>2, <2>1 DEF RowInHand, Open, Unsent, Prepared, Answered
    <2>3. HeadersInHand([w EXCEPT !.pc = "send"], r)
      BY <2>1 DEF HeadersInHand, Answered
    <2> QED
      BY <1>1, <1>3, <2>2, <2>3, MovesTo DEF Open, Unsent, Prepared
  <1>4. CASE move(e, transfer_failed(w))
    BY <1>1, <1>4, Moves, TransferFails
  <1>5. CASE \E reason \in {"permit_expired", "coordination_unavailable"} : move(e, cancelling(w, reason))
    <2>1. PICK reason \in {"permit_expired", "coordination_unavailable"} : move(e, cancelling(w, reason))
      BY <1>5
    <2>2. reason \in Gaps /\ reason # "none" /\ worker[e].pc \in Unsent
      BY <1>1, <2>1 DEF Gaps
    <2> QED
      BY <2>1, <2>2, Cancels
  <1> QED
    BY <1>3, <1>4, <1>5 DEF confirm

LEMMA SendOK ==
  ASSUME IndInv, pipeline' = pipeline, NEW e \in Executions, send(e)
  PROVE  IndInv'
  <1> DEFINE w == worker[e]
             r == newest(rows[e])
             k == current(e)
  <1>1. w.pc = "send" /\ w.pc \in Open /\ w.pc \in Unsent
    BY DEF send, at, Open, Unsent
  <1>2. w \in Worker /\ RowInHand(w, r, holder = e) /\ KnownRefs(w) /\ k \in Keys /\ Typed
    BY <1>1, HandFacts
  <1>3. archive[k] \in Files
    BY <1>2 DEF Typed, Files
  <1>4. PICK w2 : /\ w2 \in {transfer_failed(w)} \cup
                         {[w EXCEPT !.pc = "headers", !.response = a] : a \in Pipelines[pipeline].responses}
                  /\ worker' = [worker EXCEPT ![e] = w2]
    BY DEF send
  <1>5. Advance(e, w2, archive[k], TRUE)
    BY <1>2, <1>4 DEF send, Advance, Typed
  <1>6. CASE w2 = transfer_failed(w)
    BY <1>1, <1>3, <1>5, <1>6, TransferFails
  <1>7. ASSUME NEW a \in Pipelines[pipeline].responses, w2 = [w EXCEPT !.pc = "headers", !.response = a]
        PROVE  IndInv'
    <2>1. a \in Response
      BY <1>2, Constants DEF Typed
    <2>2. w2 \in Worker
      BY <1>2, <1>7, <2>1 DEF Worker, Pcs
    <2>3. /\ w2.pc = "headers" /\ w2.response = a /\ w2.outcomes = w.outcomes /\ w2.records = w.records
          /\ w2.mode = w.mode /\ w2.cached = w.cached /\ w2.replay = w.replay /\ w2.validator = w.validator
      BY <1>2, <1>7 DEF Worker
    <2>4. RowInHand(w2, r, holder = e)
      BY <1>1, <1>2, <2>3 DEF RowInHand, Open, Unsent, Prepared, Answered
    <2>5. HeadersInHand(w2, r) /\ Concluded(w2, r, k)
      BY <2>3 DEF HeadersInHand, Concluded, Answered
    <2>6. KnownRefs(w2)
      BY <1>2, <2>3 DEF KnownRefs
    <2>7. OpenFits(e, w2, r, archive[k], TRUE)
      BY <2>3, <2>4, <2>5, <2>6 DEF OpenFits, Unsent, Prepared
    <2>8. w2.pc \in Open
      BY <2>3 DEF Open
    <2> QED
      BY <1>1, <1>3, <1>5, <2>2, <2>3, <2>7, <2>8, AdvanceOK
  <1> QED
    BY <1>4, <1>6, <1>7

\* The holder writes to its row.
LEMMA RowChanges ==
  ASSUME IndInv, pipeline' = pipeline, NEW e \in Executions, worker[e].pc \in Open, locked_attempt(e),
         NEW w2 \in Worker, NEW r2 \in Row, r2.state \in Unfinished, r2.completed = None,
         newest(rows[e]).requested => r2.requested,
         rows' = [rows EXCEPT ![e] = [rows[e] EXCEPT ![Len(rows[e])] = r2]],
         worker' = [worker EXCEPT ![e] = w2], UNCHANGED <<holder, captures, archive, sent, cooled>>,
         w2.pc \in Open, w2.outcomes = worker[e].outcomes, w2.records = worker[e].records,
         w2.mode = worker[e].mode, OpenFits(e, w2, r2, archive[current(e)], FALSE)
  PROVE  IndInv'
  <1>1. /\ Typed /\ Len(rows[e]) \in Nat /\ Len(rows[e]) > 0 /\ current(e) \in Keys
        /\ row(current(e)) = newest(rows[e])
    BY HandFacts
  <1>2. holder = e /\ newest(rows[e]).state \in Unfinished
    BY <1>1 DEF locked_attempt, locked_stage
  <1>3. rows[e] \in Seq(Row) /\ [rows[e] EXCEPT ![Len(rows[e])] = r2] \in Seq(Row)
    BY <1>1 DEF Typed
  <1>4. /\ rows' \in [Executions -> Seq(Row)] /\ \A d \in Executions \ {e} : rows'[d] = rows[d]
        /\ Len(rows'[e]) = Len(rows[e])
        /\ \A i \in 1..Len(rows[e]) : rows'[e][i] = IF i = Len(rows[e]) THEN r2 ELSE rows[e][i]
    BY <1>1, <1>3 DEF Typed
  <1>5. archive' = [archive EXCEPT ![current(e)] = archive[current(e)]] /\ archive[current(e)] \in Files
    BY <1>1 DEF Typed, Files
  <1>6. OpenStep(e, w2, r2, archive[current(e)], FALSE)
    BY <1>2, <1>4, <1>5 DEF OpenStep, Files
  <1> QED
    BY <1>6, OpenOK

\* What the table functions make of a row is a row.
LEMMA DispatchedRow ==
  ASSUME NEW r \in Row, NEW r2, r2 = [r EXCEPT !.state = "in_progress", !.requested = TRUE]
  PROVE  /\ r2 \in Row /\ r2.state = "in_progress" /\ r2.requested /\ r2.status = r.status
         /\ r2.completed = r.completed /\ r2.validator = r.validator
  <1> DEFINE u == [state |-> "in_progress", requested |-> TRUE, status |-> r.status,
                   location |-> r.location, retry_after |-> r.retry_after, completed |-> r.completed,
                   reused |-> r.reused, validator |-> r.validator, payload |-> r.payload]
  <1>1. u \in Row
    BY DEF Row, Unfinished
  <1>2. r2 = u
    BY DEF Row
  <1> QED
    BY <1>1, <1>2

answered(r, a) ==
    [r EXCEPT !.status = a.status, !.location = a.readable /\ a.target,
              !.retry_after = IF a.readable THEN a.retry_after ELSE "none"]

LEMMA AnsweredRow ==
  ASSUME NEW r \in Row, NEW a \in Response, NEW r2, r2 = answered(r, a)
  PROVE  /\ r2 \in Row /\ r2.state = r.state /\ r2.requested = r.requested /\ r2.status = a.status
         /\ a.readable => r2.location = a.target /\ r2.retry_after = a.retry_after
         /\ r2.completed = r.completed /\ r2.validator = r.validator
  <1>1. a.status \in 0..599 /\ a.retry_after \in {"none", "finite", "never"}
    BY DEF Response
  <1>2. PICK wait \in {"none", "finite", "never"} : wait = IF a.readable THEN a.retry_after ELSE "none"
    BY <1>1
  <1>3. a.target \in BOOLEAN /\ a.readable \in BOOLEAN
    BY DEF Response
  <1> DEFINE u == [state |-> r.state, requested |-> r.requested, status |-> a.status,
                   location |-> (a.readable /\ a.target), retry_after |-> wait, completed |-> r.completed,
                   reused |-> r.reused, validator |-> r.validator, payload |-> r.payload]
  <1>4. u \in Row
    BY <1>1, <1>2, <1>3 DEF Row
  <1>5. r2 = u
    BY <1>1, <1>2, <1>3 DEF Row, answered
  <1>6. a.readable => u.location = a.target /\ u.retry_after = a.retry_after
    BY <1>2, <1>3
  <1> QED
    BY <1>4, <1>5, <1>6

LEMMA EndedRow ==
  ASSUME NEW r \in Row, NEW state \in Successful \cup Failed, NEW c \in Keys \cup {None},
         NEW reused \in Keys \cup {None},
         NEW r2, r2 = [r EXCEPT !.state = state, !.completed = c, !.reused = reused]
  PROVE  r2 \in Row
  <1> DEFINE u == [state |-> state, requested |-> r.requested, status |-> r.status,
                   location |-> r.location, retry_after |-> r.retry_after, completed |-> c,
                   reused |-> reused, validator |-> r.validator, payload |-> r.payload]
  <1>1. u \in Row
    BY DEF Row
  <1>2. r2 = u
    BY DEF Row
  <1> QED
    BY <1>1, <1>2

LEMMA FinishedRow ==
  ASSUME NEW r \in Row, NEW k \in Keys, NEW o \in Outcome
  PROVE  finished(r, k, o) \in Row
  <1>1. PICK c \in Keys \cup {None} : c = IF o.capture THEN k ELSE None
    OBVIOUS
  <1>2. PICK state \in Successful \cup Failed, reused \in Keys \cup {None} : state = o.state /\ reused = o.reused
    BY DEF Outcome, Refs
  <1>3. PICK r2 : r2 = finished(r, k, o)
    OBVIOUS
  <1>4. r2 = [r EXCEPT !.state = state, !.completed = c, !.reused = reused]
    BY <1>1, <1>2, <1>3 DEF finished
  <1>5. r2 \in Row
    BY <1>1, <1>2, <1>4, EndedRow, Zenon
  <1> QED
    BY <1>3, <1>5

LEMMA DispatchOK ==
  ASSUME IndInv, pipeline' = pipeline, NEW e \in Executions, ingestion_dispatch(e)
  PROVE  IndInv'
  <1> DEFINE w == worker[e]
             k == current(e)
  <1>1. w.pc = "dispatch" /\ w.pc \in Open /\ locked_attempt(e)
    BY DEF ingestion_dispatch, at, Open, Unsent, Prepared
  <1>2. PICK r \in Row : r = newest(rows[e])
    BY <1>1, HandFacts
  <1>3. /\ w \in Worker /\ RowInHand(w, r, holder = e) /\ KnownRefs(w) /\ NotYetSent(e)
        /\ rows[e] # <<>> /\ Typed /\ row(k) = r
    BY <1>1, <1>2, HandFacts
  <1>4. PICK r2 : r2 = [r EXCEPT !.state = "in_progress", !.requested = TRUE]
    OBVIOUS
  <1>5. /\ r2 \in Row /\ r2.state = "in_progress" /\ r2.requested /\ r2.status = r.status
        /\ r2.completed = r.completed /\ r2.validator = r.validator
    BY <1>4, DispatchedRow
  <1>6. rows' = [rows EXCEPT ![e] = [rows[e] EXCEPT ![Len(rows[e])] = r2]]
    BY <1>2, <1>4 DEF ingestion_dispatch, newest
  <1>7. PICK w2 : w2 = [w EXCEPT !.pc = "confirm"]
    OBVIOUS
  <1>8. /\ w2 \in Worker /\ w2.pc = "confirm" /\ w2.outcomes = w.outcomes /\ w2.records = w.records
        /\ w2.mode = w.mode /\ w2.cached = w.cached /\ w2.replay = w.replay /\ w2.validator = w.validator
    BY <1>3, <1>7 DEF Worker, Pcs
  <1>9. RowInHand(w2, r2, holder = e)
    BY <1>1, <1>3, <1>5, <1>8 DEF RowInHand, Open, Unsent, Prepared, Answered, Unfinished
  <1>10. HeadersInHand(w2, r2) /\ Concluded(w2, r2, k) /\ r2.completed = None
    BY <1>1, <1>3, <1>5, <1>8 DEF HeadersInHand, Concluded, Answered, RowInHand
  <1>11. KnownRefs(w2) /\ k \notin sent
    BY <1>1, <1>3, <1>8 DEF KnownRefs, NotYetSent, Unsent, Prepared
  <1>12. OpenFits(e, w2, r2, archive[k], FALSE) /\ w2.pc \in Open
    BY <1>8, <1>9, <1>10, <1>11 DEF OpenFits, Open, Unsent
  <1>13. worker' = [worker EXCEPT ![e] = w2] /\ UNCHANGED <<holder, captures, archive, sent, cooled>>
    BY <1>3, <1>7 DEF ingestion_dispatch, Typed
  <1> QED
    BY <1>1, <1>5, <1>6, <1>8, <1>10, <1>12, <1>13, RowChanges DEF Unfinished

LEMMA HeadersOK ==
  ASSUME IndInv, pipeline' = pipeline, NEW e \in Executions, ingestion_headers(e)
  PROVE  IndInv'
  <1> DEFINE w == worker[e]
             k == current(e)
  <1>1. w.pc = "headers" /\ w.pc \in Open /\ locked_attempt(e)
    BY DEF ingestion_headers, at, Open
  <1>2. PICK r \in Row : r = newest(rows[e])
    BY <1>1, HandFacts
  <1>3. /\ w \in Worker /\ RowInHand(w, r, holder = e) /\ HeadersInHand(w, r) /\ KnownRefs(w) /\ Typed
        /\ row(k) = r /\ r.state = "in_progress"
    BY <1>1, <1>2, HandFacts DEF ingestion_headers
  <1>4. PICK a \in Response : a = w.response /\ a \in Pipelines[pipeline].responses
    BY <1>1, <1>3, Constants DEF HeadersInHand, Typed
  <1>5. a.status \in 0..599 /\ a.status # 0 /\ a.retry_after \in {"none", "finite", "never"}
        /\ a.target \in BOOLEAN /\ a.readable \in BOOLEAN
    BY DEF Response
  <1>6. PICK r2 : r2 = answered(r, a)
    OBVIOUS
  <1>7. /\ r2 \in Row /\ r2.state = r.state /\ r2.requested = r.requested /\ r2.status = a.status
        /\ a.readable => r2.location = a.target /\ r2.retry_after = a.retry_after
        /\ r2.completed = r.completed /\ r2.validator = r.validator
    BY <1>2, <1>4, <1>6, AnsweredRow
  <1>8. rows' = [rows EXCEPT ![e] = [rows[e] EXCEPT ![Len(rows[e])] = r2]]
    BY <1>2, <1>4, <1>6 DEF ingestion_headers, newest, answered
  <1>9. PICK p \in {"not_modified", "write"} : p = IF a.status = 304 THEN "not_modified" ELSE "write"
    OBVIOUS
  <1>10. PICK u : u = [w EXCEPT !.pc = p]
    OBVIOUS
  <1>11. /\ u \in Worker /\ u.pc = p /\ u.pc \in Open /\ u.outcomes = w.outcomes /\ u.records = w.records
         /\ u.mode = w.mode /\ u.cached = w.cached /\ u.replay = w.replay /\ u.validator = w.validator
         /\ u.response = a
    BY <1>3, <1>4, <1>10 DEF Worker, Pcs, Open, Answered
  <1>12. RowInHand(u, r2, holder = e) /\ r2.completed = None
    BY <1>1, <1>3, <1>7, <1>11 DEF RowInHand, Open, Unsent, Prepared, Answered, Unfinished
  <1>13. KnownRefs(u)
    BY <1>3, <1>11 DEF KnownRefs
  <1>14. PICK w2 : /\ w2 \in after_headers(w) /\ worker' = [worker EXCEPT ![e] = w2]
                   /\ UNCHANGED <<holder, captures, archive, sent, cooled>>
    BY DEF ingestion_headers
  <1>15. ASSUME w2 \in Worker, w2.pc \in Open, w2.outcomes = w.outcomes, w2.records = w.records,
                w2.mode = w.mode, OpenFits(e, w2, r2, archive[k], FALSE)
         PROVE  IndInv'
    <2>1. r2.state \in Unfinished /\ (r.requested => r2.requested)
      BY <1>3, <1>7 DEF Unfinished
    <2> QED
      BY <1>1, <1>2, <1>7, <1>8, <1>12, <1>14, <1>15, <2>1, RowChanges
  <1>16. ASSUME NEW reason \in Gaps, NEW next \in {"return", "next", "retry"}, next = "return" => reason # "none",
                w2 = concluding(u, "transport_error", reason, next)
         PROVE  IndInv'
    <2>1. PICK st \in Broken : st = "transport_error" /\ st # "body_limit"
      BY DEF Broken
    <2>2. /\ w2 \in Worker /\ w2.pc = "finish" /\ w2.outcomes = u.outcomes /\ w2.records = u.records
          /\ w2.mode = u.mode /\ w2.cached = u.cached /\ w2.replay = u.replay
          /\ w2.validator = u.validator /\ w2.outcome.state = st /\ ~w2.outcome.capture
          /\ RowInHand(w2, r2, holder = e) /\ HeadersInHand(w2, r2) /\ Concluded(w2, r2, k)
      <3>1. w2 = concluding(u, st, reason, next) /\ (next # "return" => st = "transport_error")
        BY <1>16, <2>1
      <3> QED
        BY <1>7, <1>11, <1>12, <1>16, <2>1, <3>1, GivenUp
    <2>3. KnownRefs(w2)
      BY <1>13, <2>2 DEF KnownRefs
    <2>4. OpenFits(e, w2, r2, archive[k], FALSE)
      BY <2>1, <2>2, <2>3 DEF OpenFits, Unsent, Prepared
    <2> QED
      BY <1>11, <1>15, <2>2, <2>4 DEF Open
  <1>17. ASSUME a.readable, w2 = u
         PROVE  IndInv'
    <2>1. HeadersInHand(u, r2)
      BY <1>4, <1>5, <1>7, <1>9, <1>11, <1>17 DEF HeadersInHand
    <2>2. Concluded(u, r2, k)
      BY <1>11 DEF Concluded
    <2>3. OpenFits(e, u, r2, archive[k], FALSE)
      BY <1>11, <1>12, <1>13, <2>1, <2>2 DEF OpenFits, Unsent, Prepared
    <2> QED
      BY <1>11, <1>15, <1>17, <2>3
  <1>18. \/ w2 = concluding(u, "transport_error", "transport_error", "return")
         \/ w2 = concluding(u, "transport_error", "none", "retry")
         \/ a.readable /\ w2 = u
    <2>1. w2 \in {concluding(w, "transport_error", "transport_error", "return"),
                  concluding(w, "transport_error", "none", "retry")} \/ (a.readable /\ w2 = u)
      BY <1>4, <1>9, <1>10, <1>14 DEF after_headers, archive_failed, transfer_failed
    <2>2. ASSUME NEW st, NEW reason, NEW next
          PROVE  concluding(u, st, reason, next) = concluding(w, st, reason, next)
      BY <1>3, <1>10 DEF concluding, Worker
    <2> QED
      BY <2>1, <2>2
  <1> QED
    BY <1>16, <1>17, <1>18 DEF Gaps

\* A 304 is an answer to the validator on record.
LEMMA NotModifiedOK ==
  ASSUME IndInv, pipeline' = pipeline, NEW e \in Executions, not_modified(e)
  PROVE  IndInv'
  <1> DEFINE w == worker[e]
             k == current(e)
             v == w.validator
  <1>1. w.pc = "not_modified" /\ w.pc \in Open
    BY DEF not_modified, at, Open, Answered
  <1>2. PICK r \in Row : r = newest(rows[e])
    BY <1>1, HandFacts
  <1>3. /\ w \in Worker /\ RowInHand(w, r, holder = e) /\ HeadersInHand(w, r) /\ KnownRefs(w) /\ Typed
        /\ archive[k] \in Files /\ r.status = 304 /\ r.validator = v /\ v \in Refs
    BY <1>1, <1>2, HandFacts DEF HeadersInHand, RowInHand, Answered, Typed, Files, Worker
  <1>4. CASE move(e, concluding([w EXCEPT !.validator = None], "transport_error", "none", "next"))
    <2>1. PICK u : u = [w EXCEPT !.validator = None, !.pc = "finish"]
      OBVIOUS
    <2>2. /\ u \in Worker /\ u.pc = "finish" /\ u.outcomes = w.outcomes /\ u.records = w.records
          /\ u.mode = w.mode /\ u.cached = w.cached /\ u.replay = w.replay /\ u.validator = None
      BY <1>3, <2>1 DEF Worker, Pcs, Refs
    <2>3. RowInHand(u, r, holder = e) /\ u.pc \in Open
      BY <1>1, <1>3, <2>2 DEF RowInHand, Open, Unsent, Prepared, Answered
    <2>4. KnownRefs(u)
      BY <1>3, <2>2 DEF KnownRefs
    <2>5. PICK w2 : w2 = concluding(u, "transport_error", "none", "next")
      OBVIOUS
    <2>6. w2 = concluding([w EXCEPT !.validator = None], "transport_error", "none", "next")
      BY <1>3, <2>1, <2>5 DEF concluding, Worker
    <2>7. "transport_error" \in Broken /\ "none" \in Gaps
      BY DEF Broken, Gaps
    <2>8. /\ w2 \in Worker /\ w2.pc = "finish" /\ w2.outcomes = u.outcomes /\ w2.records = u.records
          /\ w2.mode = u.mode /\ w2.cached = u.cached /\ w2.replay = u.replay
          /\ w2.validator = u.validator /\ w2.outcome.state = "transport_error" /\ ~w2.outcome.capture
          /\ RowInHand(w2, r, holder = e) /\ HeadersInHand(w2, r) /\ Concluded(w2, r, k)
      BY <2>2, <2>3, <2>5, <2>7, GivenUp
    <2>9. OpenFits(e, w2, r, archive[k], FALSE)
      BY <2>2, <2>4, <2>8 DEF OpenFits, Unsent, Prepared, KnownRefs
    <2>10. Advance(e, w2, archive[k], FALSE) /\ w2.pc \in Open
      BY <1>1, <1>4, <2>6, <2>8, Moves DEF Open
    <2>11. w2 \in Worker /\ w2.outcomes = w.outcomes /\ w2.records = w.records /\ w2.mode = w.mode
      BY <2>2, <2>8
    <2> QED
      BY <1>1, <1>2, <1>3, <2>9, <2>10, <2>11, AdvanceOK
  <1>5. CASE move(e, transfer_failed(w))
    BY <1>1, <1>5, Moves, TransferFails
  <1>6. CASE /\ verifiable(v)
             /\ move(e, [concluding(w, "not_modified", "none", "return") EXCEPT !.outcome.reused = v])
    <2>1. PICK o : o = [state |-> "not_modified", capture |-> FALSE, reused |-> v, gap |-> "none", then |-> "return"]
      OBVIOUS
    <2>2. o \in Outcome
      BY <1>3, <2>1 DEF Outcome, Successful, Gaps
    <2>3. PICK w2 : w2 = [w EXCEPT !.pc = "finish", !.response = no_response, !.outcome = o]
      OBVIOUS
    <2>4. w2 = [concluding(w, "not_modified", "none", "return") EXCEPT !.outcome.reused = v]
      BY <1>3, <2>1, <2>3 DEF concluding, Worker
    <2>5. /\ w2 \in Worker /\ w2.pc = "finish" /\ w2.outcomes = w.outcomes /\ w2.records = w.records
          /\ w2.mode = w.mode /\ w2.cached = w.cached /\ w2.replay = w.replay
          /\ w2.validator = v /\ w2.outcome = o
      BY <1>3, <2>2, <2>3 DEF Worker, Pcs
    <2>6. v # None /\ captured(v)
      BY <1>3, <1>6 DEF verifiable, KnownRefs
    <2>7. RowInHand(w2, r, holder = e)
      BY <1>1, <1>3, <2>5 DEF RowInHand, Open, Unsent, Prepared, Answered
    <2>8. Concluded(w2, r, k)
      <3>1. PICK f : f = finished(r, k, o)
        OBVIOUS
      <3>2. f.status = 304 /\ f.validator = v /\ f.state = "not_modified" /\ f.completed = None /\ f.reused = v
        BY <1>3, <2>1, <3>1, FinishedFields
      <3>3. row_shape(f)
        BY <2>6, <3>2 DEF row_shape
      <3>4. \A B : payload_guard(f, B)
        BY <3>2 DEF payload_guard
      <3>5. /\ o.state = "not_modified" /\ o.capture = FALSE /\ o.reused = v /\ o.gap = "none" /\ o.then = "return"
            /\ r.state # "prepared"
        BY <1>1, <1>3, <2>1 DEF RowInHand, Answered
      <3> QED
        BY <2>5, <2>6, <3>1, <3>3, <3>4, <3>5 DEF Concluded, Successful
    <2>9. OpenFits(e, w2, r, archive[k], FALSE)
      <3>1. KnownRefs(w2) /\ HeadersInHand(w2, r)
        BY <1>3, <2>5 DEF KnownRefs, HeadersInHand, Answered
      <3>2. o.state = "not_modified" /\ o.capture = FALSE
        BY <2>1
      <3> QED
        BY <2>5, <2>7, <2>8, <3>1, <3>2 DEF OpenFits, Unsent, Prepared
    <2>10. Advance(e, w2, archive[k], FALSE) /\ w2.pc \in Open
      BY <1>1, <1>6, <2>4, <2>5, Moves DEF Open
    <2> QED
      BY <1>1, <1>2, <1>3, <2>5, <2>9, <2>10, AdvanceOK
  <1> QED
    BY <1>4, <1>5, <1>6 DEF not_modified

\* While the bytes are archived the row stays as it is.
LEMMA ArchivesOn ==
  ASSUME IndInv, pipeline' = pipeline, NEW e \in Executions, worker[e].pc \in {"write", "link", "sync"},
         NEW p \in {"link", "sync", "payload", "conclude"}, NEW f2 \in Files,
         Advance(e, [worker[e] EXCEPT !.pc = p], f2, FALSE),
         p = "payload" => retains_payload(worker[e]), p = "conclude" => ~retains_payload(worker[e]),
         p \in {"payload", "conclude"} => f2 \in {"durable", "damaged"}
  PROVE  IndInv'
  <1>1. worker[e].pc \in Open
    BY DEF Open, Answered
  <1>2. PICK w \in Worker : w = worker[e]
    BY <1>1, HandFacts
  <1>3. PICK r \in Row : r = newest(rows[e])
    BY <1>1, HandFacts
  <1>4. RowInHand(w, r, holder = e) /\ HeadersInHand(w, r) /\ w.pc \in {"write", "link", "sync"}
    BY <1>1, <1>2, <1>3, HandFacts
  <1>5. PICK w2 : w2 = [w EXCEPT !.pc = p]
    OBVIOUS
  <1>6. w2.pc = p /\ w2.response = w.response /\ w2.validator = w.validator
    BY <1>2, <1>5 DEF Worker
  <1>7. RowInHand(w2, r, holder = e)
    BY <1>4, <1>6 DEF RowInHand, Open, Unsent, Prepared, Answered
  <1>8. HeadersInHand(w2, r)
    BY <1>2, <1>4, <1>6 DEF HeadersInHand, Answered, retains_payload
  <1>9. p \in Open \ {"finish"} /\ p \notin Unsent /\ p # "unchanged"
    BY DEF Open, Answered, Unsent, Prepared
  <1> QED
    BY <1>1, <1>2, <1>3, <1>5, <1>7, <1>8, <1>9, GoesTo

LEMMA WriteOK ==
  ASSUME IndInv, pipeline' = pipeline, NEW e \in Executions, write(e)
  PROVE  IndInv'
  <1> DEFINE w == worker[e]
  <1>1. w.pc = "write" /\ w.pc \in Open
    BY DEF write, at, Open, Answered
  <1>2. PICK r \in Row : r = newest(rows[e])
    BY <1>1, HandFacts
  <1>3. Typed /\ current(e) \in Keys /\ archive[current(e)] \in Files /\ r.state # "prepared"
    BY <1>1, <1>2, HandFacts DEF Typed, Files, RowInHand, Answered
  <1>4. CASE archive' = [archive EXCEPT ![current(e)] = "temporary"] /\ worker' = [worker EXCEPT ![e].pc = "link"]
    <2>1. Advance(e, [w EXCEPT !.pc = "link"], "temporary", FALSE) /\ "temporary" \in Files
      BY <1>3, <1>4 DEF Advance, Typed, write, Files
    <2> QED
      BY <1>1, <2>1, ArchivesOn
  <1>5. ASSUME NEW w2, worker' = [worker EXCEPT ![e] = w2], archive' = archive
        PROVE  Advance(e, w2, archive[current(e)], FALSE)
    BY <1>3, <1>5 DEF Advance, Typed, write
  <1>6. CASE worker' = [worker EXCEPT ![e] = transfer_failed(w)] /\ archive' = archive
    BY <1>1, <1>3, <1>5, <1>6, TransferFails
  <1>7. ASSUME NEW st \in {"body_limit", "transport_error", "archive_error"}, archive' = archive,
               worker' = [worker EXCEPT ![e] = archive_failed(w, st)]
        PROVE  IndInv'
    BY <1>1, <1>2, <1>3, <1>5, <1>7, ArchiveFails
  <1> QED
    BY <1>4, <1>6, <1>7 DEF write

LEMMA LinkOK ==
  ASSUME IndInv, pipeline' = pipeline, NEW e \in Executions, link(e)
  PROVE  IndInv'
  <1> DEFINE w == worker[e]
  <1>1. w.pc = "link" /\ w.pc \in Open
    BY DEF link, at, Open, Answered
  <1>2. Typed
    BY DEF IndInv
  <1>3. CASE archive' = [archive EXCEPT ![current(e)] = "linked"] /\ worker' = [worker EXCEPT ![e].pc = "sync"]
    <2>1. Advance(e, [w EXCEPT !.pc = "sync"], "linked", FALSE) /\ "linked" \in Files
      BY <1>2, <1>3 DEF Advance, Typed, link, Files
    <2> QED
      BY <1>1, <2>1, ArchivesOn
  <1>4. CASE /\ archive' = [archive EXCEPT ![current(e)] = "none"]
             /\ worker' = [worker EXCEPT ![e] = archive_failed(@, "archive_error")]
    <2>1. Advance(e, archive_failed(w, "archive_error"), "none", FALSE) /\ "none" \in Files
      BY <1>2, <1>4 DEF Advance, Typed, link, Files
    <2> QED
      BY <1>1, <2>1, ArchiveFails
  <1> QED
    BY <1>3, <1>4 DEF link

LEMMA SyncOK ==
  ASSUME IndInv, pipeline' = pipeline, NEW e \in Executions, sync(e)
  PROVE  IndInv'
  <1> DEFINE w == worker[e]
  <1>1. w.pc = "sync" /\ w.pc \in Open
    BY DEF sync, at, Open, Answered
  <1>2. Typed /\ current(e) \in Keys /\ archive[current(e)] \in Files
    BY <1>1, HandFacts DEF Typed, Files
  <1>3. CASE /\ archive' = [archive EXCEPT ![current(e)] = synced(e)]
             /\ \E w2 \in {transfer_failed(w),
                           [w EXCEPT !.pc = IF retains_payload(w) THEN "payload" ELSE "conclude"]} :
                   worker' = [worker EXCEPT ![e] = w2]
    <2>1. PICK w2 : /\ worker' = [worker EXCEPT ![e] = w2]
                    /\ \/ w2 = transfer_failed(w)
                       \/ w2 = [w EXCEPT !.pc = IF retains_payload(w) THEN "payload" ELSE "conclude"]
      BY <1>3
    <2>2. Advance(e, w2, "durable", FALSE) /\ "durable" \in Files
      BY <1>2, <1>3, <2>1 DEF Advance, sync, synced, Files
    <2>3. CASE w2 = transfer_failed(w)
      BY <1>1, <2>2, <2>3, TransferFails
    <2>4. CASE w2 = [w EXCEPT !.pc = "payload"] /\ retains_payload(w)
      BY <1>1, <2>2, <2>4, ArchivesOn
    <2>5. CASE w2 = [w EXCEPT !.pc = "conclude"] /\ ~retains_payload(w)
      BY <1>1, <2>2, <2>5, ArchivesOn
    <2> QED
      BY <2>1, <2>3, <2>4, <2>5
  <1>4. CASE worker' = [worker EXCEPT ![e] = archive_failed(@, "archive_error")] /\ archive' = archive
    <2>1. Advance(e, archive_failed(w, "archive_error"), archive[current(e)], FALSE)
      BY <1>2, <1>4 DEF Advance, Typed, sync
    <2> QED
      BY <1>1, <1>2, <2>1, ArchiveFails
  <1> QED
    BY <1>3, <1>4 DEF sync

LEMMA PayloadOK ==
  ASSUME IndInv, pipeline' = pipeline, NEW e \in Executions, ingestion_monitor_payload(e)
  PROVE  IndInv'
  <1> DEFINE k == current(e)
  <1>1. worker[e].pc = "payload" /\ worker[e].pc \in Open /\ locked_attempt(e)
    BY DEF ingestion_monitor_payload, at, Open, Answered
  <1>2. PICK r \in Row : r = newest(rows[e])
    BY <1>1, HandFacts
  <1>3. PICK w \in Worker : w = worker[e]
    BY <1>1, HandFacts
  <1>4. /\ RowInHand(w, r, holder = e) /\ HeadersInHand(w, r) /\ KnownRefs(w) /\ Typed
        /\ row(k) = r /\ r.state = "in_progress" /\ w.pc = "payload" /\ archive[k] \in {"durable", "damaged"}
    BY <1>1, <1>2, <1>3, HandFacts DEF ingestion_monitor_payload, Archived
  <1>5. PICK body \in Bodies : body = w.response.body
    <2>1. w.response \in Pipelines[pipeline].responses /\ pipeline \in DOMAIN Pipelines
      BY <1>4 DEF HeadersInHand, Answered, Typed
    <2> QED
      BY <2>1 DEF Bodies
  <1>6. PICK r2 : r2 = [r EXCEPT !.payload = body]
    OBVIOUS
  <1>7. /\ r2 \in Row /\ r2.state = r.state /\ r2.requested = r.requested /\ r2.status = r.status
        /\ r2.location = r.location /\ r2.retry_after = r.retry_after
        /\ r2.completed = r.completed /\ r2.validator = r.validator /\ r2.payload = body
    BY <1>2, <1>5, <1>6 DEF Row
  <1>8. rows' = [rows EXCEPT ![e] = [rows[e] EXCEPT ![Len(rows[e])] = r2]]
    BY <1>2, <1>3, <1>5, <1>6 DEF ingestion_monitor_payload, newest
  <1>9. PICK p \in {"unchanged", "conclude"} : p = IF same_body(w) THEN "unchanged" ELSE "conclude"
    OBVIOUS
  <1>10. PICK w2 : w2 = [w EXCEPT !.pc = p]
    OBVIOUS
  <1>11. /\ w2 \in Worker /\ w2.pc = p /\ w2.outcomes = w.outcomes /\ w2.records = w.records
         /\ w2.mode = w.mode /\ w2.cached = w.cached /\ w2.replay = w.replay /\ w2.validator = w.validator
         /\ w2.response = w.response
    BY <1>3, <1>9, <1>10 DEF Worker, Pcs
  <1>12. RowInHand(w2, r2, holder = e) /\ r2.completed = None /\ r2.state \in Unfinished
    BY <1>4, <1>7, <1>9, <1>11 DEF RowInHand, Open, Unsent, Prepared, Answered, Unfinished
  <1>13. HeadersInHand(w2, r2)
    <2>1. p = "unchanged" => same_body(w2)
      BY <1>9, <1>11 DEF same_body
    <2>2. retains_payload(w2)
      BY <1>4, <1>11 DEF HeadersInHand, retains_payload
    <2>3. /\ w2.response \in Pipelines[pipeline].responses
          /\ r2.status = w2.response.status /\ r2.location = w2.response.target
          /\ r2.retry_after = w2.response.retry_after /\ r2.status # 304
      BY <1>4, <1>7, <1>11 DEF HeadersInHand, Answered
    <2> QED
      BY <1>5, <1>7, <1>9, <1>11, <2>1, <2>2, <2>3 DEF HeadersInHand
  <1>14. KnownRefs(w2) /\ Concluded(w2, r2, k) /\ w2.pc \in Open /\ w2.pc \notin Unsent
    BY <1>4, <1>9, <1>11 DEF KnownRefs, Concluded, Open, Answered, Unsent, Prepared
  <1>15. OpenFits(e, w2, r2, archive[k], FALSE)
    BY <1>4, <1>9, <1>11, <1>12, <1>13, <1>14 DEF OpenFits
  <1>16. worker' = [worker EXCEPT ![e] = w2] /\ UNCHANGED <<holder, captures, archive, sent, cooled>>
    BY <1>3, <1>9, <1>10 DEF ingestion_monitor_payload
  <1>17. newest(rows[e]).requested => r2.requested
    BY <1>2, <1>7
  <1> QED
    BY <1>1, <1>3, <1>7, <1>8, <1>11, <1>12, <1>14, <1>15, <1>16, <1>17, RowChanges

LEMMA UnreadableOK ==
  ASSUME IndInv, pipeline' = pipeline, NEW e \in Executions, payload_unreadable(e)
  PROVE  IndInv'
  <1>1. worker[e].pc \in Open /\ move(e, archive_failed(worker[e], "archive_error"))
    BY DEF payload_unreadable, at, Open, Answered
  <1> QED
    BY <1>1, Moves, ArchiveFails

\* The worker goes on to record what an answer comes to.
LEMMA Concludes ==
  ASSUME IndInv, pipeline' = pipeline, NEW e \in Executions, worker[e].pc \in {"unchanged", "conclude"},
         NEW o \in Outcome, o.state # "cancelled", NEW a \in Response \cup {no_response},
         NEW w2, w2 = [worker[e] EXCEPT !.pc = "finish", !.response = a, !.outcome = o], move(e, w2),
         Concluded(w2, newest(rows[e]), current(e))
  PROVE  IndInv'
  <1>1. worker[e].pc \in Open
    BY DEF Open, Answered
  <1>2. PICK w \in Worker : w = worker[e]
    BY <1>1, HandFacts
  <1>3. PICK r \in Row : r = newest(rows[e])
    BY <1>1, HandFacts
  <1>4. /\ RowInHand(w, r, holder = e) /\ KnownRefs(w) /\ archive[current(e)] \in {"durable", "damaged"}
        /\ w.pc \in {"unchanged", "conclude"}
    BY <1>1, <1>2, <1>3, HandFacts DEF Archived
  <1>5. /\ w2 \in Worker /\ w2.pc = "finish" /\ w2.outcomes = w.outcomes /\ w2.records = w.records
        /\ w2.mode = w.mode /\ w2.cached = w.cached /\ w2.replay = w.replay
        /\ w2.validator = w.validator /\ w2.outcome = o
    BY <1>2 DEF Worker, Pcs
  <1>6. RowInHand(w2, r, holder = e)
    BY <1>4, <1>5 DEF RowInHand, Open, Unsent, Prepared, Answered
  <1>7. HeadersInHand(w2, r) /\ KnownRefs(w2) /\ w2.pc \in Open /\ w2.pc \notin Unsent
    BY <1>4, <1>5 DEF HeadersInHand, KnownRefs, Open, Answered, Unsent, Prepared
  <1>8. OpenFits(e, w2, r, archive[current(e)], FALSE)
    BY <1>3, <1>4, <1>5, <1>6, <1>7 DEF OpenFits
  <1>9. Advance(e, w2, archive[current(e)], FALSE) /\ archive[current(e)] \in Files
    BY <1>1, Moves
  <1> QED
    BY <1>1, <1>2, <1>3, <1>5, <1>7, <1>8, <1>9, AdvanceOK

LEMMA UnchangedOK ==
  ASSUME IndInv, pipeline' = pipeline, NEW e \in Executions, content_unchanged(e)
  PROVE  IndInv'
  <1>1. worker[e].pc = "unchanged" /\ worker[e].pc \in Open
    BY DEF content_unchanged, at, Open, Answered
  <1>2. PICK w \in Worker : w = worker[e]
    BY <1>1, HandFacts
  <1>3. PICK r \in Row : r = newest(rows[e])
    BY <1>1, HandFacts
  <1>4. PICK k : k = current(e)
    OBVIOUS
  <1>5. /\ RowInHand(w, r, holder = e) /\ HeadersInHand(w, r) /\ KnownRefs(w) /\ w.pc = "unchanged"
        /\ CapturesWhole
    BY <1>1, <1>2, <1>3, HandFacts DEF IndInv
  <1>6. CASE move(e, archive_failed(w, "archive_error"))
    BY <1>1, <1>2, <1>6, Moves, ArchiveFails
  <1>7. CASE move(e, [concluding(w, "content_unchanged", "none", "return") EXCEPT !.outcome.reused = w.cached])
    <2>1. PICK o : o = [state |-> "content_unchanged", capture |-> FALSE, reused |-> w.cached, gap |-> "none",
                        then |-> "return"]
      OBVIOUS
    <2>2. o \in Outcome
      BY <1>2, <2>1 DEF Worker, Outcome, Successful, Gaps
    <2>3. PICK w2 : w2 = [w EXCEPT !.pc = "finish", !.response = no_response, !.outcome = o]
      OBVIOUS
    <2>4. w2 = [concluding(w, "content_unchanged", "none", "return") EXCEPT !.outcome.reused = w.cached]
      BY <1>2, <2>1, <2>3 DEF concluding, Worker
    <2>5. w2.pc = "finish" /\ w2.outcome = o
      BY <1>2, <2>3 DEF Worker
    <2>6. w.cached # None /\ w.response.body = capture_of(w.cached).body /\ retains_payload(w)
          /\ r.payload = w.response.body /\ r.status = 200
      BY <1>5 DEF HeadersInHand, same_body, Answered, retains_payload
    <2>7. PICK c \in captures : c.id = w.cached /\ successful(c)
      BY <1>5, <2>6 DEF KnownRefs, captured
    <2>8. capture_of(w.cached) = c
      BY <1>5, <2>7, OneCapture DEF CapturesWhole, capture_of
    <2>9. Concluded(w2, r, k)
      <3>1. PICK f : f = finished(r, k, o)
        OBVIOUS
      <3>2. /\ f.status = 200 /\ f.state = "content_unchanged" /\ f.completed = None /\ f.reused = w.cached
            /\ f.payload = w.response.body
        BY <1>3, <2>1, <2>6, <3>1, FinishedFields
      <3>3. row_shape(f)
        BY <2>6, <3>2 DEF row_shape
      <3>4. o.state = "content_unchanged" /\ o.capture = FALSE /\ o.reused = w.cached /\ o.gap = "none"
            /\ o.then = "return"
        BY <2>1
      <3>5. f.payload \in ReferredTo(o, w2.response.body, captures)
        BY <2>6, <2>7, <2>8, <3>2, <3>4 DEF ReferredTo
      <3>6. payload_guard(f, ReferredTo(o, w2.response.body, captures))
        BY <3>5 DEF payload_guard
      <3>7. Monitor /\ captured(w.cached)
        BY <2>6, <2>7 DEF retains_payload, captured
      <3>8. r.state # "prepared"
        BY <1>5 DEF RowInHand, Open, Answered
      <3> QED
        BY <2>5, <2>6, <3>1, <3>3, <3>4, <3>6, <3>7, <3>8 DEF Concluded, Successful
    <2>10. o.state # "cancelled" /\ no_response \in Response \cup {no_response} /\ move(e, w2)
      BY <1>7, <2>1, <2>4
    <2> QED
      BY <1>1, <1>2, <1>3, <1>4, <2>2, <2>3, <2>9, <2>10, Concludes
  <1> QED
    BY <1>2, <1>6, <1>7 DEF content_unchanged

LEMMA ConcludeOK ==
  ASSUME IndInv, pipeline' = pipeline, NEW e \in Executions, conclude(e)
  PROVE  IndInv'
  <1>1. worker[e].pc = "conclude" /\ worker[e].pc \in Open
    BY DEF conclude, at, Open, Answered
  <1>2. PICK w \in Worker : w = worker[e]
    BY <1>1, HandFacts
  <1>3. PICK r \in Row : r = newest(rows[e])
    BY <1>1, HandFacts
  <1>4. PICK k \in Keys : k = current(e)
    BY <1>1, HandFacts
  <1>5. RowInHand(w, r, holder = e) /\ HeadersInHand(w, r) /\ w.pc = "conclude" /\ Typed
    BY <1>1, <1>2, <1>3, HandFacts
  <1>6. PICK a \in Response : a = w.response /\ a \in Pipelines[pipeline].responses
    BY <1>5, Constants DEF HeadersInHand, Answered, Typed
  <1>7. /\ a.status \in 200..599 /\ a.status # 304 /\ (a.target => a.status \in Redirects)
        /\ r.status = a.status /\ r.location = a.target /\ r.retry_after = a.retry_after
        /\ r.state # "prepared"
    <2>1. a.status \in 200..599 /\ (a.target => a.status \in Redirects)
      BY SMTT(40), <1>5, <1>6, Constants DEF Typed, Response
    <2>2. /\ r.status = a.status /\ r.location = a.target /\ r.retry_after = a.retry_after
          /\ r.status # 304
      BY <1>5, <1>6 DEF HeadersInHand, Answered
    <2>3. r.state # "prepared"
      BY <1>5 DEF RowInHand, Open, Answered
    <2> QED
      BY <2>1, <2>2, <2>3
  <1>8. PICK s \in {"complete", "redirected", "redirect_refused", "http_error"},
             gap \in {"none", "redirect_refused"}, then \in {"return", "next", "cooldown"} :
           /\ response_outcome(w, Len(rows[e])) = concluding(w, s, gap, then)
           /\ s = "complete" => a.status \in 200..299 /\ gap = "none" /\ then = "return"
           /\ s = "redirected" => a.status \in 300..399 /\ a.target /\ gap = "none" /\ then = "next"
           /\ s = "redirect_refused" => a.status \in 300..399 /\ gap = "redirect_refused" /\ then = "return"
           /\ s = "http_error" => a.status \in 400..599 /\ gap = "none" /\ then = "cooldown"
    <2>1. CASE a.status \in 200..299
      BY <1>6, <2>1 DEF response_outcome
    <2>2. CASE a.status \in 300..399 /\ redirects_further(w, Len(rows[e]))
      BY <1>6, <2>2 DEF response_outcome, redirects_further
    <2>3. CASE a.status \in 300..399 /\ ~redirects_further(w, Len(rows[e]))
      BY <1>6, <2>3 DEF response_outcome
    <2>4. CASE a.status \in 400..599
      <3>1. a.status \notin 200..299 /\ a.status \notin 300..399
        <4>1. PICK n \in 400..599 : n = a.status
          BY <2>4
        <4>2. ~(n \in 200..299) /\ ~(n \in 300..399)
          <5>1. n \in Int /\ n >= 400
            BY <4>1
          <5> QED
            BY <5>1
        <4> QED
          BY <4>1, <4>2
      <3>2. response_outcome(w, Len(rows[e])) = concluding(w, "http_error", "none", "cooldown")
        BY <1>6, <3>1 DEF response_outcome
      <3> QED
        BY <2>4, <3>2
    <2> QED
      BY <1>7, <2>1, <2>2, <2>3, <2>4
  <1>9. PICK o : o = [state |-> s, capture |-> TRUE, reused |-> None, gap |-> gap, then |-> then]
    OBVIOUS
  <1>10. o \in Outcome /\ o.state = s /\ o.capture = TRUE /\ o.reused = None /\ o.gap = gap /\ o.then = then
    BY <1>8, <1>9 DEF Outcome, Successful, Failed, Gaps, Refs
  <1>11. PICK w2 : w2 = [w EXCEPT !.pc = "finish", !.response = a, !.outcome = o]
    OBVIOUS
  <1>12. w2 = [response_outcome(w, Len(rows[e])) EXCEPT !.outcome.capture = TRUE, !.response = w.response]
    <2>1. PICK q : q = [state |-> s, capture |-> FALSE, reused |-> None, gap |-> gap, then |-> then]
      OBVIOUS
    <2>2. PICK v : v = [w EXCEPT !.pc = "finish", !.response = no_response, !.outcome = q]
      OBVIOUS
    <2>3. v = response_outcome(w, Len(rows[e]))
      BY <1>8, <2>1, <2>2 DEF concluding
    <2>4. v.outcome = q /\ [q EXCEPT !.capture = TRUE] = o
      <3>1. PICK q2 : q2 = [q EXCEPT !.capture = TRUE]
        OBVIOUS
      <3>2. q2 = [state |-> s, capture |-> TRUE, reused |-> None, gap |-> gap, then |-> then]
        BY <2>1, <3>1
      <3>3. v.outcome = q
        BY <1>2, <2>2 DEF Worker
      <3> QED
        BY <1>9, <3>1, <3>3, <3>2
    <2>5. w2 = [[v EXCEPT !.outcome = o] EXCEPT !.response = a]
      BY <1>2, <1>11, <2>2 DEF Worker
    <2>6. w2 = [v EXCEPT !.outcome.capture = TRUE, !.response = a]
      BY <2>4, <2>5
    <2> QED
      BY <1>6, <2>3, <2>6
  <1>13. w2.pc = "finish" /\ w2.outcome = o /\ w2.response = a
    BY <1>2, <1>11 DEF Worker
  <1>14. Concluded(w2, r, k)
    <2>1. PICK f : f = finished(r, k, o)
      OBVIOUS
    <2>2. /\ f.status = a.status /\ f.state = s /\ f.completed = k /\ f.reused = None
          /\ f.payload = r.payload /\ f.location = a.target
      BY <1>3, <1>7, <1>10, <2>1, FinishedFields
    <2>3. row_shape(f)
      BY <1>4, <1>7, <1>8, <2>2, KeyFacts DEF row_shape
    <2>4. payload_guard(f, ReferredTo(o, a.body, captures))
      <3>1. Monitor /\ a.status = 200 => r.payload = a.body
        BY <1>5, <1>6 DEF HeadersInHand, retains_payload
      <3> QED
        BY <1>10, <2>2, <3>1 DEF payload_guard, ReferredTo
    <2>5. /\ s # "content_unchanged"
          /\ (then = "return" /\ gap = "none") <=> s \in Successful
          /\ then = "next" => s \in {"redirected", "transport_error"}
          /\ then # "retry"
          /\ then = "cooldown" => s = "http_error"
      BY <1>8 DEF Successful
    <2> QED
      BY <1>7, <1>10, <1>13, <2>1, <2>3, <2>4, <2>5 DEF Concluded
  <1>15. o.state # "cancelled" /\ a \in Response \cup {no_response} /\ move(e, w2)
    BY <1>2, <1>6, <1>8, <1>10, <1>12 DEF conclude
  <1> QED
    BY <1>1, <1>2, <1>3, <1>4, <1>10, <1>11, <1>14, <1>15, Concludes

-----------------------------------------------------------------------------
(***************************************************************************)
(* A step of a worker that leaves the tables alone, but for the limiter's  *)
(* cooldown; a crash may lose a file that was not synced.                  *)
(***************************************************************************)
QuietStep(e, w2) ==
    /\ w2 \in Worker /\ w2.pc # "unclaimed" /\ worker[e].pc # "unclaimed"
    /\ worker' = [worker EXCEPT ![e] = w2]
    /\ UNCHANGED <<pipeline, holder, rows, captures, sent>>
    /\ cooled' = cooled \/ (rows[e] # <<>> /\ cooled' = cooled \cup {current(e)})
    /\ archive' \in [Keys -> Files]
    /\ \A k \in Keys : archive'[k] = archive[k] \/ (k[1] = e /\ archive[k] = "linked" /\ archive'[k] = "none")

LEMMA QuietBeside ==
  ASSUME IndInv, NEW e \in Executions, NEW w2, QuietStep(e, w2), NEW d \in Executions \ {e}
  PROVE  Beside(d)
  <1>1. Typed /\ CapturesWhole
    BY DEF IndInv
  <1>2. rows'[d] = rows[d] /\ rows[d] \in Seq(Row) /\ worker'[d] = worker[d]
    BY <1>1 DEF QuietStep, Typed
  <1>3. RowsStay(rows[d], rows'[d], holder' = d)
    BY <1>2 DEF RowsStay, RowStays
  <1>4. CapturesWhole'
    BY <1>1 DEF QuietStep, CapturesWhole, on_record, row
  <1>5. ASSUME NEW n \in 1..MaxRows
        PROVE  archive'[<<d, n>>] = archive[<<d, n>>]
    <2>1. <<d, n>> \in Keys /\ <<d, n>>[1] # e
      BY KeyFacts
    <2> QED
      BY <2>1 DEF QuietStep
  <1>6. captures \subseteq captures' /\ cooled \subseteq cooled' /\ holder' = holder /\ pipeline' = pipeline
        /\ sent' = sent
    BY DEF QuietStep
  <1> QED
    BY <1>2, <1>3, <1>4, <1>5, <1>6 DEF Beside, FileStays

LEMMA QuietOK ==
  ASSUME IndInv, NEW e \in Executions, NEW w2, QuietStep(e, w2), WorkerFits(e)',
         Monitor => PriorFits(w2, holder = e),
         Monitor => \A k \in on_record : k[1] < e /\ row(k).state \in Unfinished =>
                       /\ w2.pc \notin {"choose", "fetch"} \cup Active
                       /\ w2.pc = "recover" => k \in w2.abandoned
  PROVE  IndInv'
  <1>1. /\ Typed /\ ClaimsInOrder /\ CapturesWhole /\ Observed /\ SentIsOnRecord /\ CaptureHasBytes
        /\ OnePrior /\ NoneLeft
    BY DEF IndInv
  <1>2. worker'[e] = w2 /\ \A d \in Executions : d # e => worker'[d] = worker[d]
    BY <1>1 DEF QuietStep, Typed
  <1>3. Typed'
    <2>1. current(e) \in Attempts \/ rows[e] = <<>>
      <3>1. rows[e] # <<>> => Len(rows[e]) > 0
        BY <1>1 DEF Typed
      <3> QED
        BY <1>1, <3>1, InHand
    <2>2. cooled' \subseteq Attempts
      BY <1>1, <2>1 DEF QuietStep, Typed
    <2>3. worker' \in [Executions -> Worker]
      BY <1>1 DEF QuietStep, Typed
    <2>4. archive' \in [Keys -> {"none", "temporary", "linked", "durable", "damaged"}]
      BY DEF QuietStep, Files
    <2> QED
      BY <1>1, <2>2, <2>3, <2>4 DEF QuietStep, Typed, MaxSequence
  <1>4. ClaimsInOrder'
    <2>1. \A d \in Executions : at(d, "unclaimed")' <=> at(d, "unclaimed")
      BY <1>2 DEF at, QuietStep
    <2> QED
      BY <1>1, <2>1 DEF ClaimsInOrder, QuietStep
  <1>5. on_record' = on_record /\ \A k \in on_record : row(k)' = row(k) /\ observation(k)' = observation(k)
    BY DEF QuietStep, on_record, row, observation
  <1>6. \A k : captured(k)' = captured(k)
    BY DEF QuietStep, captured
  <1>7. CapturesWhole' /\ Observed' /\ SentIsOnRecord'
    BY <1>1, <1>5, <1>6 DEF QuietStep, CapturesWhole, Observed, SentIsOnRecord
  <1>8. CaptureHasBytes'
    <2> SUFFICES ASSUME NEW c \in captures PROVE archive'[c.id] \in {"durable", "damaged"}
      BY DEF CaptureHasBytes, QuietStep
    <2>1. c.id \in Keys /\ archive[c.id] \in {"durable", "damaged"}
      BY <1>1 DEF Typed, Capture, CaptureHasBytes
    <2> QED
      BY <2>1 DEF QuietStep
  <1>9. prior' = prior /\ Monitor' = Monitor /\ holder' = holder
    BY <1>5 DEF prior, QuietStep, Monitor
  <1>10. \A w : usable(w)' = usable(w)
    BY <1>6 DEF usable
  <1>11. OnePrior'
    <2> SUFFICES ASSUME Monitor, NEW d \in Executions PROVE PriorFits(worker[d], holder = d)'
      BY <1>1, <1>9 DEF OnePrior
    <2>1. PICK w : w = worker'[d]
      OBVIOUS
    <2>2. PICK h : h = (holder = d)
      OBVIOUS
    <2>3. PriorFits(w, h)
      BY <1>1, <1>2, <2>1, <2>2 DEF OnePrior
    <2>4. \A k \in prior : observation(k)' = observation(k)
      BY <1>5 DEF prior
    <2>5. PriorFits(w, h)'
      BY <1>9, <1>10, <2>3, <2>4 DEF PriorFits
    <2> QED
      BY <1>9, <2>1, <2>2, <2>5
  <1>12. NoneLeft'
    <2> SUFFICES ASSUME Monitor, NEW d \in Executions, NEW k \in on_record, k[1] < d, row(k).state \in Unfinished
                 PROVE  /\ rows'[d] = <<>> /\ worker'[d].pc \notin {"choose", "fetch"} \cup Active
                        /\ worker'[d].pc = "recover" => k \in worker'[d].abandoned
      BY <1>5, <1>9 DEF NoneLeft, at
    <2>1. /\ rows'[d] = <<>> /\ worker[d].pc \notin {"choose", "fetch"} \cup Active
          /\ worker[d].pc = "recover" => k \in worker[d].abandoned
      BY <1>1 DEF NoneLeft, at, QuietStep
    <2> QED
      BY <1>2, <2>1
  <1>13. ASSUME NEW d \in Executions PROVE WorkerFits(d)'
    BY <1>1, QuietBeside, OthersFit DEF IndInv
  <1> QED
    BY <1>3, <1>4, <1>7, <1>8, <1>11, <1>12, <1>13 DEF IndInv

\* Before the first attempt there is little to say of a worker.
LEMMA BareWorkerFits ==
  ASSUME IndInv, NEW e \in Executions, NEW w2, worker'[e] = w2, rows'[e] = rows[e], captures' = captures,
         pipeline' = pipeline, worker[e].pc \in Early, w2.pc \in Early \cup {"prepare"},
         w2.outcomes = worker[e].outcomes, w2.records = worker[e].records, KnownRefs(w2)
  PROVE  WorkerFits(e)' /\ rows[e] = <<>>
  <1>1. Typed /\ WorkerFits(e)
    BY DEF IndInv
  <1>2. PICK w \in Worker : w = worker[e]
    BY <1>1 DEF Typed
  <1>3. rows[e] = <<>> /\ Len(rows[e]) = 0 /\ Len(w.outcomes) = 0 /\ w.records = <<>>
    BY <1>1, <1>2 DEF WorkerFits, Counted, Typed, Worker
  <1>4. worker'[e] = w2 /\ rows'[e] = rows[e] /\ captures' = captures /\ MaxSequence' = MaxSequence
    BY DEF MaxSequence
  <1>5. MaxSequence > 0
    BY <1>1, Constants DEF Typed, MaxSequence
  <1>6. /\ w2.pc \notin Open /\ w2.pc \notin {"cooldown", "retry", "returned", "finish"}
        /\ w2.pc \notin Unsent /\ w2.pc \notin {"payload", "unchanged", "conclude"}
    BY DEF Early, Open, Unsent, Prepared, Answered
  <1>7. Len(w2.outcomes) = 0 /\ Len(w2.records) = 0 /\ w2.records = <<>>
    BY <1>2, <1>3
  <1>8. Counted(w2, 0)'
    BY <1>4, <1>5, <1>6, <1>7 DEF Counted, Between
  <1>9. Reported(w2, <<>>) /\ Known(w2)'
    BY <1>4, <1>7 DEF Reported, Known, KnownRefs, captured
  <1>10. RowsGoOn(e)'
    BY <1>3, <1>4 DEF RowsGoOn
  <1>11. Returned(w2, <<>>)' /\ NotYetSent(e)' /\ Archived(e)'
    BY <1>4, <1>6 DEF Returned, NotYetSent, Archived, at
  <1> QED
    BY <1>3, <1>4, <1>8, <1>9, <1>10, <1>11 DEF WorkerFits

LEMMA BareFits ==
  ASSUME IndInv, NEW e \in Executions, NEW w2, QuietStep(e, w2), worker[e].pc \in Early,
         w2.pc \in Early \cup {"prepare"}, w2.outcomes = worker[e].outcomes,
         w2.records = worker[e].records, KnownRefs(w2)
  PROVE  WorkerFits(e)' /\ rows[e] = <<>>
  <1>1. worker'[e] = w2 /\ rows'[e] = rows[e] /\ captures' = captures /\ pipeline' = pipeline
    BY DEF QuietStep, IndInv, Typed
  <1> QED
    BY <1>1, BareWorkerFits

LEMMA MoveIsQuiet ==
  ASSUME IndInv, pipeline' = pipeline, NEW e \in Executions, NEW w2 \in Worker, move(e, w2),
         worker[e].pc # "unclaimed", w2.pc # "unclaimed"
  PROVE  QuietStep(e, w2)
  BY DEF move, QuietStep, IndInv, Typed, Files

\* Where an early worker knows no more than before.
LEMMA EarlyFacts ==
  ASSUME IndInv, NEW e \in Executions
  PROVE  /\ worker[e] \in Worker /\ KnownRefs(worker[e])
         /\ Monitor => PriorFits(worker[e], holder = e)
         /\ Monitor => \A k \in on_record : k[1] < e /\ row(k).state \in Unfinished =>
                          /\ rows[e] = <<>> /\ worker[e].pc \notin {"choose", "fetch"} \cup Active
                          /\ worker[e].pc = "recover" => k \in worker[e].abandoned
  <1>1. Typed /\ WorkerFits(e) /\ OnePrior /\ NoneLeft
    BY DEF IndInv
  <1> QED
    BY <1>1 DEF Typed, WorkerFits, Known, OnePrior, NoneLeft, at

LEMMA SelectOK ==
  ASSUME IndInv, pipeline' = pipeline, NEW e \in Executions, select_abandoned(e)
  PROVE  IndInv'
  <1>1. PICK w \in Worker : w = worker[e]
    BY EarlyFacts
  <1>2. PICK p \in {"recover", "choose"} : p = IF Monitor THEN "recover" ELSE "choose"
    OBVIOUS
  <1>3. PICK A \in SUBSET Attempts : A = IF Monitor THEN abandoned(e) ELSE {}
    BY DEF abandoned, on_record
  <1>4. PICK w2 : w2 = [w EXCEPT !.pc = p, !.abandoned = A]
    OBVIOUS
  <1>5. w.pc = "claimed" /\ move(e, w2)
    BY <1>1, <1>2, <1>3, <1>4 DEF select_abandoned, at
  <1>6. /\ w2 \in Worker /\ w2.pc = p /\ w2.abandoned = A /\ w2.outcomes = w.outcomes /\ w2.records = w.records
        /\ w2.cached = w.cached /\ w2.replay = w.replay /\ w2.validator = w.validator
    BY <1>1, <1>2, <1>3, <1>4 DEF Worker, Pcs
  <1>7. QuietStep(e, w2)
    BY <1>1, <1>2, <1>5, <1>6, MoveIsQuiet
  <1>8. KnownRefs(w2)
    BY <1>1, <1>6, EarlyFacts DEF KnownRefs
  <1>9. WorkerFits(e)'
    BY <1>1, <1>2, <1>5, <1>6, <1>7, <1>8, BareFits DEF Early
  <1>10. Monitor => PriorFits(w2, holder = e)
    BY <1>2, <1>6 DEF PriorFits, Active, Between, Open, Unsent, Prepared, Answered
  <1>11. ASSUME Monitor, NEW k \in on_record, k[1] < e, row(k).state \in Unfinished
         PROVE  w2.pc \notin {"choose", "fetch"} \cup Active /\ k \in w2.abandoned
    <2>1. k[1] # e
      BY <1>11, KeyFacts, Constants DEF on_record
    <2>2. k \in A /\ p = "recover"
      BY <1>2, <1>3, <1>11, <2>1 DEF abandoned
    <2> QED
      BY <1>6, <2>2 DEF Active, Between, Open, Unsent, Prepared, Answered
  <1> QED
    BY <1>7, <1>9, <1>10, <1>11, QuietOK

LEMMA AllRecoveredOK ==
  ASSUME IndInv, pipeline' = pipeline, NEW e \in Executions, all_recovered(e)
  PROVE  IndInv'
  <1>1. PICK w \in Worker : w = worker[e]
    BY EarlyFacts
  <1>2. PICK w2 : w2 = [w EXCEPT !.pc = "choose"]
    OBVIOUS
  <1>3. w.pc = "recover" /\ w.abandoned = {} /\ move(e, w2)
    BY <1>1, <1>2 DEF all_recovered, at
  <1>4. /\ w2 \in Worker /\ w2.pc = "choose" /\ w2.outcomes = w.outcomes /\ w2.records = w.records
        /\ w2.cached = w.cached /\ w2.replay = w.replay /\ w2.validator = w.validator
    BY <1>1, <1>2 DEF Worker, Pcs
  <1>5. QuietStep(e, w2)
    BY <1>1, <1>3, <1>4, MoveIsQuiet
  <1>6. KnownRefs(w2)
    BY <1>1, <1>4, EarlyFacts DEF KnownRefs
  <1>7. WorkerFits(e)'
    BY <1>1, <1>3, <1>4, <1>5, <1>6, BareFits DEF Early
  <1>8. Monitor => PriorFits(w2, holder = e)
    BY <1>4 DEF PriorFits, Active, Between, Open, Unsent, Prepared, Answered
  <1>9. Monitor => \A k \in on_record : ~(k[1] < e /\ row(k).state \in Unfinished)
    BY <1>1, <1>3, EarlyFacts
  <1> QED
    BY <1>5, <1>7, <1>8, <1>9, QuietOK

\* A worker that chose what to fetch, and from which capture.
LEMMA Chooses ==
  ASSUME IndInv, pipeline' = pipeline, NEW e \in Executions, at(e, "choose"),
         NEW mode \in CacheModes, NEW cached \in Refs, NEW replay \in Refs, NEW w2,
         w2 = [worker[e] EXCEPT !.pc = "fetch", !.mode = mode, !.cached = cached, !.replay = replay],
         move(e, w2), cached # None => captured(cached), replay # None => captured(replay),
         Monitor => \/ mode = "replay" /\ \E k \in prior : replay = observation(k)
                    \/ mode = "conditional" /\ prior = {}
  PROVE  IndInv'
  <1>1. PICK w \in Worker : w = worker[e]
    BY EarlyFacts
  <1>2. /\ w2 \in Worker /\ w2.pc = "fetch" /\ w2.outcomes = w.outcomes /\ w2.records = w.records
        /\ w2.cached = cached /\ w2.replay = replay /\ w2.validator = w.validator /\ w2.mode = mode
    BY <1>1 DEF Worker, Pcs
  <1>3. w.pc = "choose" /\ QuietStep(e, w2)
    BY <1>1, <1>2, MoveIsQuiet DEF at
  <1>4. KnownRefs(w2)
    BY <1>1, <1>2, EarlyFacts DEF KnownRefs
  <1>5. WorkerFits(e)'
    BY <1>1, <1>2, <1>3, <1>4, BareFits DEF Early
  <1>6. Monitor => PriorFits(w2, holder = e)
    BY <1>2 DEF PriorFits, Active, Between, Open, Unsent, Prepared, Answered
  <1>7. Monitor => \A k \in on_record : ~(k[1] < e /\ row(k).state \in Unfinished)
    BY <1>1, <1>3, EarlyFacts
  <1> QED
    BY <1>3, <1>5, <1>6, <1>7, QuietOK

LEMMA ChooseMonitorOK ==
  ASSUME IndInv, pipeline' = pipeline, NEW e \in Executions, choose_monitor(e)
  PROVE  IndInv'
  <1>1. PICK w \in Worker : w = worker[e]
    BY EarlyFacts
  <1>2. at(e, "choose") /\ Observed /\ w.cached \in Refs /\ w.replay \in Refs /\ KnownRefs(w)
    BY <1>1, EarlyFacts DEF choose_monitor, IndInv, Worker
  <1>3. ASSUME NEW k \in prior,
               move(e, [worker[e] EXCEPT !.pc = "fetch", !.mode = "replay", !.replay = observation(k)])
        PROVE  IndInv'
    <2>1. k \in on_record /\ row(k).state \in Successful /\ row(k) \in Row
      BY <1>3, KeyFacts DEF prior, on_record, IndInv, Typed, row
    <2>2. observation(k) \in Refs /\ observation(k) # None /\ captured(observation(k))
      BY <1>2, <2>1 DEF Observed, observation, Row, Refs
    <2>3. PICK w2 : w2 = [w EXCEPT !.pc = "fetch", !.mode = "replay", !.replay = observation(k)]
      OBVIOUS
    <2>4. w2 = [worker[e] EXCEPT !.pc = "fetch", !.mode = "replay", !.cached = w.cached, !.replay = observation(k)]
      BY <1>1, <2>3 DEF Worker
    <2>5. "replay" \in CacheModes /\ move(e, w2) /\ (w.cached # None => captured(w.cached))
      BY <1>1, <1>2, <1>3, <2>3 DEF CacheModes, KnownRefs
    <2> QED
      BY <1>2, <2>2, <2>4, <2>5, Chooses
  <1>4. ASSUME prior = {}, NEW c, c = IF captured(Base) THEN Base ELSE None,
               move(e, [worker[e] EXCEPT !.pc = "fetch", !.mode = "conditional", !.cached = c])
        PROVE  IndInv'
    <2>1. c \in Refs /\ (c # None => captured(c))
      BY <1>4, KeyFacts DEF Refs
    <2>2. PICK w2 : w2 = [w EXCEPT !.pc = "fetch", !.mode = "conditional", !.cached = c]
      OBVIOUS
    <2>3. w2 = [worker[e] EXCEPT !.pc = "fetch", !.mode = "conditional", !.cached = c, !.replay = w.replay]
      BY <1>1, <2>2 DEF Worker
    <2>4. "conditional" \in CacheModes /\ move(e, w2) /\ (w.replay # None => captured(w.replay))
      BY <1>1, <1>2, <1>4, <2>2 DEF CacheModes, KnownRefs
    <2> QED
      BY <1>2, <1>4, <2>1, <2>3, <2>4, Chooses
  <1> QED
    BY <1>3, <1>4 DEF choose_monitor

LEMMA ChooseOtherOK ==
  ASSUME IndInv, pipeline' = pipeline, NEW e \in Executions, choose_other(e)
  PROVE  IndInv'
  <1>1. at(e, "choose") /\ ~Monitor /\ Typed
    BY DEF choose_other, IndInv
  <1>2. PICK mode \in Pipelines[pipeline].modes, k \in {None} \cup {b \in {Base} : captured(b)} :
           move(e, [worker[e] EXCEPT !.pc = "fetch", !.mode = mode,
                                     !.cached = IF mode = "replay" THEN None ELSE k,
                                     !.replay = IF mode = "replay" THEN k ELSE None])
    BY DEF choose_other
  <1>3. mode \in CacheModes
    BY <1>1, <1>2, Constants DEF Typed
  <1>4. k \in Refs /\ (k # None => captured(k))
    BY <1>2, KeyFacts DEF Refs
  <1>5. PICK cached \in Refs : cached = (IF mode = "replay" THEN None ELSE k)
    BY <1>4 DEF Refs
  <1>6. PICK replay \in Refs : replay = (IF mode = "replay" THEN k ELSE None)
    BY <1>4 DEF Refs
  <1>7. PICK w2 : w2 = [worker[e] EXCEPT !.pc = "fetch", !.mode = mode, !.cached = cached, !.replay = replay]
    OBVIOUS
  <1>8. move(e, w2)
    BY <1>2, <1>5, <1>6, <1>7
  <1>9. (cached # None => captured(cached)) /\ (replay # None => captured(replay))
    BY <1>4, <1>5, <1>6
  <1> QED
    BY <1>1, <1>3, <1>5, <1>6, <1>7, <1>8, <1>9, Chooses

\* An attempt follows, with what is left of the cached capture.
LEMMA FetchesOK ==
  ASSUME IndInv, pipeline' = pipeline, NEW e \in Executions, at(e, "fetch"), worker[e].mode # "replay",
         move(e, [worker[e] EXCEPT !.pc = "prepare", !.cached = verified(e), !.validator = conditional(e)])
  PROVE  IndInv'
  <1>1. PICK w \in Worker : w = worker[e]
    BY EarlyFacts
  <1>2. KnownRefs(w)
    BY <1>1, EarlyFacts
  <1>3. PICK c \in Refs : c = verified(e)
    BY <1>1 DEF verified, Worker, Refs
  <1>4. PICK v \in Refs : v = conditional(e)
    BY <1>3 DEF conditional, Refs
  <1>5. c \in {w.cached, None} /\ v \in {c, None}
    BY <1>1, <1>3, <1>4 DEF verified, conditional
  <1>6. PICK w2 : w2 = [w EXCEPT !.pc = "prepare", !.cached = c, !.validator = v]
    OBVIOUS
  <1>7. /\ w2 \in Worker /\ w2.pc = "prepare" /\ w2.outcomes = w.outcomes /\ w2.records = w.records
        /\ w2.cached = c /\ w2.replay = w.replay /\ w2.validator = v /\ w2.mode = w.mode
    BY <1>1, <1>6 DEF Worker, Pcs
  <1>8. w.pc = "fetch" /\ QuietStep(e, w2)
    BY <1>1, <1>3, <1>4, <1>6, <1>7, MoveIsQuiet DEF at
  <1>9. KnownRefs(w2)
    BY <1>2, <1>5, <1>7 DEF KnownRefs
  <1>10. WorkerFits(e)'
    BY <1>1, <1>7, <1>8, <1>9, BareFits DEF Early
  <1>11. Monitor => PriorFits(w2, holder = e)
    <2>1. Monitor => PriorFits(w, holder = e)
      BY <1>1, EarlyFacts
    <2> QED
      BY <1>1, <1>7, <1>8, <2>1 DEF PriorFits, Active, Between
  <1>12. Monitor => \A k \in on_record : ~(k[1] < e /\ row(k).state \in Unfinished)
    BY <1>1, <1>8, EarlyFacts
  <1> QED
    BY <1>8, <1>10, <1>11, <1>12, QuietOK

-----------------------------------------------------------------------------
(***************************************************************************)
(* A worker's last step.                                                   *)
(***************************************************************************)
Over == {"returned", "raised", "dead"}

LEMMA Ends ==
  ASSUME IndInv, NEW e \in Executions, NEW w2, QuietStep(e, w2), w2.pc \in Over,
         w2.cached = None, w2.replay = None, w2.validator = None,
         w2.outcomes = worker[e].outcomes \/ w2.outcomes = <<>>,
         \A i \in 1..Len(w2.records) : \E c \in captures : c.id = w2.records[i],
         Returned(w2, rows[e]),
         Monitor /\ w2.pc = "returned" /\ usable(w2) =>
            \E k \in prior : w2.records[Len(w2.records)] = observation(k)
  PROVE  IndInv'
  <1>1. Typed /\ WorkerFits(e)
    BY DEF IndInv
  <1>2. PICK w \in Worker : w = worker[e]
    BY <1>1 DEF Typed
  <1>3. PICK rs \in Seq(Row) : rs = rows[e]
    BY <1>1 DEF Typed
  <1>4. worker'[e] = w2 /\ rows' = rows /\ captures' = captures /\ pipeline' = pipeline
    BY <1>1 DEF QuietStep, Typed
  <1>5. RowsGoOn(e) /\ Counted(w, Len(rs)) /\ Reported(w, rs)
    BY <1>1, <1>2, <1>3 DEF WorkerFits
  <1>6. /\ w2.pc \notin Open /\ w2.pc \notin Early /\ w2.pc \notin Between /\ w2.pc # "finish"
        /\ w2.pc \notin Unsent /\ w2.pc \notin {"payload", "unchanged", "conclude"} /\ w2.pc \notin Active
    BY DEF Over, Early, Open, Unsent, Prepared, Answered, Between, Active
  <1>7. RowsGoOn(e)'
    <2>1. SUFFICES ASSUME NEW i \in 1..(Len(rows[e]) - 1) PROVE GoesOn(rows[e][i], <<e, i>> \in cooled')
      BY <1>4 DEF RowsGoOn
    <2>2. GoesOn(rows[e][i], <<e, i>> \in cooled) /\ cooled \subseteq cooled'
      BY <1>5, <2>1 DEF RowsGoOn, QuietStep
    <2> QED
      BY <2>2 DEF GoesOn
  <1>8. Counted(w2, Len(rs))' /\ Reported(w2, rs)
    BY <1>2, <1>3, <1>5, <1>6 DEF Counted, Reported, Between
  <1>9. Known(w2)'
    BY <1>4 DEF Known, KnownRefs
  <1>10. /\ RowInHand(w2, newest(rs), holder' = e) /\ HeadersInHand(w2, newest(rs))'
         /\ Concluded(w2, newest(rs), current(e))' /\ RowBehind(w2, newest(rs), (current(e) \in cooled)')
    BY <1>6 DEF RowInHand, HeadersInHand, Concluded, RowBehind, Open, Between
  <1>11. Returned(w2, rs)'
    BY <1>3, <1>4 DEF Returned, usable, captured
  <1>12. NotYetSent(e)' /\ Archived(e)'
    BY <1>4, <1>6 DEF NotYetSent, Archived, at
  <1>13. WorkerFits(e)'
    BY <1>3, <1>4, <1>7, <1>8, <1>9, <1>10, <1>11, <1>12 DEF WorkerFits
  <1>14. Monitor => PriorFits(w2, holder = e)
    BY <1>6 DEF PriorFits, Over
  <1>15. w2.pc \notin {"choose", "fetch"} \cup Active /\ w2.pc # "recover"
    BY <1>6 DEF Over
  <1> QED
    BY <1>13, <1>14, <1>15, QuietOK

LEMMA IdleWorker ==
  ASSUME NEW w, w = idle_worker
  PROVE  /\ w \in Worker /\ w.pc = "unclaimed" /\ w.cached = None /\ w.replay = None /\ w.validator = None
         /\ w.outcomes = <<>> /\ w.records = <<>> /\ w.gaps = {}
  <1>1. no_outcome \in Outcome
    BY DEF no_outcome, Outcome, Failed, Refs, Gaps
  <1>2. no_response \in Response \cup {no_response} /\ None \in Refs /\ "refresh" \in CacheModes
        /\ "unclaimed" \in Pcs
    BY DEF Refs, CacheModes, Pcs
  <1>3. <<>> \in Seq(Keys) /\ <<>> \in Seq(Successful \cup Failed)
    OBVIOUS
  <1>4. w \in Worker
    BY <1>1, <1>2, <1>3 DEF idle_worker, Worker
  <1>5. /\ w.pc = "unclaimed" /\ w.cached = None /\ w.replay = None /\ w.validator = None
        /\ w.outcomes = <<>> /\ w.records = <<>> /\ w.gaps = {}
    BY DEF idle_worker
  <1> QED
    BY <1>4, <1>5

LEMMA ReturnedWorker ==
  ASSUME NEW w \in Worker, NEW gaps \in SUBSET Gaps, NEW w2, w2 = returned(w, gaps)
  PROVE  /\ w2 \in Worker /\ w2.pc = "returned" /\ w2.cached = None /\ w2.replay = None
         /\ w2.validator = None /\ w2.outcomes = w.outcomes /\ w2.records = w.records /\ w2.gaps = gaps
  <1>1. PICK i \in Worker : /\ i = idle_worker /\ i.cached = None /\ i.replay = None /\ i.validator = None
    BY IdleWorker
  <1>2. w2 = [i EXCEPT !.pc = "returned", !.records = w.records, !.outcomes = w.outcomes, !.gaps = gaps]
    BY <1>1 DEF returned
  <1>3. "returned" \in Pcs
    BY DEF Pcs
  <1> QED
    BY <1>1, <1>2, <1>3 DEF Worker

\* It reports why it has no result.
LEMMA GapEnds ==
  ASSUME IndInv, NEW e \in Executions, NEW gap \in Gaps \ {"none"}, NEW w2, w2 = returned(worker[e], {gap}),
         QuietStep(e, w2),
         \/ worker[e].pc \in {"fetch"} \cup Between
         \/ worker[e].pc \in Open /\ gap = "lease_lost"
  PROVE  IndInv'
  <1>1. Typed /\ WorkerFits(e)
    BY DEF IndInv
  <1>2. PICK w \in Worker : w = worker[e]
    BY <1>1 DEF Typed
  <1>3. PICK rs \in Seq(Row) : rs = rows[e]
    BY <1>1 DEF Typed
  <1>4. {gap} \in SUBSET Gaps /\ {gap} # {}
    OBVIOUS
  <1>5. /\ w2 \in Worker /\ w2.pc = "returned" /\ w2.cached = None /\ w2.replay = None
        /\ w2.validator = None /\ w2.outcomes = w.outcomes /\ w2.records = w.records /\ w2.gaps = {gap}
    BY <1>2, <1>4, ReturnedWorker
  <1>6. /\ Counted(w, Len(rs)) /\ Known(w)
        /\ rs # <<>> => /\ RowInHand(w, newest(rs), holder = e)
                        /\ RowBehind(w, newest(rs), current(e) \in cooled)
    BY <1>1, <1>2, <1>3 DEF WorkerFits
  <1>7. ~usable(w2)
    BY <1>5 DEF usable
  <1>8. rs # <<>> => newest(rs).state \notin Successful
    <2> SUFFICES ASSUME rs # <<>> PROVE newest(rs).state \notin Successful
      OBVIOUS
    <2>1. Len(rs) > 0
      OBVIOUS
    <2>2. CASE w.pc = "fetch"
      BY <1>6, <2>1, <2>2 DEF Counted, Early
    <2>3. CASE w.pc \in Between
      BY <1>6, <2>3 DEF RowBehind, GoesOn, Between, Successful
    <2>4. CASE w.pc \in Open
      BY <1>6, <2>4 DEF RowInHand, Successful, Unfinished
    <2> QED
      BY <1>2, <2>2, <2>3, <2>4
  <1>9. ASSUME NEW i \in (Len(w.outcomes) + 1)..Len(rs)
        PROVE  gap = "lease_lost" /\ rs[i].state \in Unfinished \cup {"interrupted_unknown"}
    <2>1. Len(rs) > Len(w.outcomes) /\ Len(w.outcomes) \in Nat /\ Len(rs) \in Nat /\ rs # <<>>
      BY <1>9 DEF Worker
    <2>2. w.pc \notin {"fetch"} \cup Between
      BY <1>6, <2>1 DEF Counted, Early, Between
    <2>3. w.pc \in Open /\ gap = "lease_lost"
      BY <1>2, <2>2
    <2>4. i = Len(rs)
      BY <1>6, <2>1, <2>3 DEF Counted
    <2> QED
      BY <1>6, <2>1, <2>3, <2>4 DEF RowInHand, newest
  <1>10. Returned(w2, rs)
    BY <1>5, <1>7, <1>8, <1>9 DEF Returned
  <1>11. \A i \in 1..Len(w2.records) : \E c \in captures : c.id = w2.records[i]
    BY <1>5, <1>6 DEF Known
  <1>12. w2.pc \in Over
    BY <1>5 DEF Over
  <1> QED
    BY <1>2, <1>3, <1>5, <1>7, <1>10, <1>11, <1>12, Ends

LEMMA FoundWorker ==
  ASSUME NEW v \in Worker, NEW k \in Keys, NEW w2, w2 = [v EXCEPT !.records = <<k>>]
  PROVE  w2 \in Worker /\ w2.pc = v.pc
  <1>1. <<k>> \in Seq(Keys)
    OBVIOUS
  <1>2. PICK ks \in Seq(Keys) : ks = <<k>>
    BY <1>1
  <1>3. w2 = [v EXCEPT !.records = ks]
    BY <1>2
  <1> QED
    BY <1>2, <1>3 DEF Worker

\* It reports one capture, which it found, and no gap.
LEMMA FindEnds ==
  ASSUME IndInv, NEW e \in Executions, at(e, "fetch"), NEW k \in Keys, captured(k),
         Monitor => \E l \in prior : k = observation(l),
         NEW w2, w2 = [returned(worker[e], {}) EXCEPT !.records = <<k>>], QuietStep(e, w2)
  PROVE  IndInv'
  <1>1. Typed /\ WorkerFits(e)
    BY DEF IndInv
  <1>2. PICK w \in Worker : w = worker[e]
    BY <1>1 DEF Typed
  <1>3. rows[e] = <<>> /\ Len(rows[e]) = 0
    BY <1>1, <1>2 DEF WorkerFits, Counted, Typed, Early, at
  <1>4. PICK v : v = returned(w, {})
    OBVIOUS
  <1>5. /\ v \in Worker /\ v.pc = "returned" /\ v.cached = None /\ v.replay = None
        /\ v.validator = None /\ v.outcomes = w.outcomes /\ v.gaps = {}
    BY <1>4, ReturnedWorker
  <1>6. w2 = [v EXCEPT !.records = <<k>>]
    BY <1>2, <1>4
  <1>7. /\ w2.pc = "returned" /\ w2.cached = None /\ w2.replay = None
        /\ w2.validator = None /\ w2.outcomes = w.outcomes /\ w2.gaps = {} /\ w2.records = <<k>>
    BY <1>5, <1>6 DEF Worker
  <1>8. Len(w2.records) = 1 /\ w2.records[1] = k
    BY <1>7
  <1>9. usable(w2)
    BY <1>7, <1>8 DEF usable
  <1>10. Returned(w2, rows[e])
    <2>1. Len(w.outcomes) \in Nat
      BY DEF Worker
    <2> QED
      BY <1>3, <1>7, <1>9, <2>1 DEF Returned
  <1>11. \A i \in 1..Len(w2.records) : \E c \in captures : c.id = w2.records[i]
    BY <1>8 DEF captured
  <1>12. w2.pc \in Over
    BY <1>7 DEF Over
  <1> QED
    BY <1>2, <1>7, <1>8, <1>10, <1>11, <1>12, Ends

\* It ends without a word.
LEMMA SilentEnds ==
  ASSUME IndInv, NEW e \in Executions, NEW p \in {"raised", "dead"}, NEW w2,
         w2 = [idle_worker EXCEPT !.pc = p], QuietStep(e, w2)
  PROVE  IndInv'
  <1>1. PICK w \in Worker : /\ w = idle_worker /\ w.cached = None /\ w.replay = None /\ w.validator = None
                            /\ w.outcomes = <<>> /\ w.records = <<>>
    BY IdleWorker
  <1>2. /\ w2.pc = p /\ w2.cached = None /\ w2.replay = None /\ w2.validator = None
        /\ w2.outcomes = <<>> /\ w2.records = <<>>
    BY <1>1 DEF Worker
  <1>3. w2.pc \in Over /\ w2.pc # "returned" /\ Returned(w2, rows[e])
    BY <1>2 DEF Over, Returned
  <1>4. \A i \in 1..Len(w2.records) : \E c \in captures : c.id = w2.records[i]
    BY <1>2
  <1> QED
    BY <1>2, <1>3, <1>4, Ends

LEMMA LeaseLostOK ==
  ASSUME IndInv, pipeline' = pipeline, NEW e \in Executions, LeaseLost(e)
  PROVE  IndInv'
  <1>1. PICK w2 : w2 = returned(worker[e], {"lease_lost"})
    OBVIOUS
  <1>2. "lease_lost" \in Gaps \ {"none"}
    BY DEF Gaps
  <1>3. w2 \in Worker /\ w2.pc = "returned"
    BY <1>1, <1>2, EarlyFacts, ReturnedWorker
  <1>4. worker[e].pc \in {"fetch"} \cup Between \cup Open /\ worker[e].pc # "unclaimed"
    BY DEF LeaseLost, database_calls, Between, Open, Unsent, Prepared, Answered
  <1>5. QuietStep(e, w2)
    BY <1>1, <1>3, <1>4, MoveIsQuiet DEF LeaseLost
  <1> QED
    BY <1>1, <1>2, <1>4, <1>5, GapEnds

LEMMA RaisesOK ==
  ASSUME IndInv, pipeline' = pipeline, NEW e \in Executions, lease_refused(e) \/ dispatch_blocked(e)
  PROVE  IndInv'
  <1>1. PICK w2 : w2 = [idle_worker EXCEPT !.pc = "raised"]
    OBVIOUS
  <1>2. w2 \in Worker /\ w2.pc = "raised"
    BY <1>1, IdleWorker DEF Worker, Pcs
  <1>3. worker[e].pc # "unclaimed" /\ move(e, w2)
    BY <1>1 DEF lease_refused, dispatch_blocked, at
  <1>4. QuietStep(e, w2)
    BY <1>2, <1>3, MoveIsQuiet
  <1> QED
    BY <1>1, <1>4, SilentEnds

LEMMA CrashOK ==
  ASSUME IndInv, pipeline' = pipeline, NEW e \in Executions, Crash(e)
  PROVE  IndInv'
  <1>1. PICK w2 : w2 = [idle_worker EXCEPT !.pc = "dead"]
    OBVIOUS
  <1>2. w2 \in Worker /\ w2.pc = "dead"
    BY <1>1, IdleWorker DEF Worker, Pcs
  <1>3. PICK lost \in SUBSET {k \in Keys : k[1] = e /\ archive[k] = "linked"} :
           archive' = [k \in Keys |-> IF k \in lost THEN "none" ELSE archive[k]]
    BY DEF Crash
  <1>4. archive \in [Keys -> Files]
    BY DEF IndInv, Typed, Files
  <1>5. /\ archive' \in [Keys -> Files]
        /\ \A k \in Keys : archive'[k] = archive[k] \/ (k[1] = e /\ archive[k] = "linked" /\ archive'[k] = "none")
    BY <1>3, <1>4 DEF Files
  <1>6. QuietStep(e, w2)
    BY <1>1, <1>2, <1>5 DEF Crash, QuietStep
  <1> QED
    BY <1>1, <1>6, SilentEnds

LEMMA ReplayOK ==
  ASSUME IndInv, pipeline' = pipeline, NEW e \in Executions, fetch_replay(e)
  PROVE  IndInv'
  <1>1. PICK w \in Worker : w = worker[e]
    BY EarlyFacts
  <1>2. PICK k \in Refs : k = w.replay
    BY <1>1 DEF Worker
  <1>3. w.pc = "fetch" /\ w.mode = "replay" /\ KnownRefs(w) /\ (Monitor => PriorFits(w, holder = e))
    BY <1>1, EarlyFacts DEF fetch_replay, at
  <1>4. ASSUME NEW gap \in {"capture_unavailable", "archive_integrity"}, move(e, returned(w, {gap}))
        PROVE  IndInv'
    <2>1. PICK w2 : w2 = returned(w, {gap})
      OBVIOUS
    <2>2. gap \in Gaps \ {"none"} /\ {gap} \in SUBSET Gaps
      BY <1>4 DEF Gaps
    <2>3. w2 \in Worker /\ w2.pc = "returned"
      BY <2>1, <2>2, ReturnedWorker
    <2>4. QuietStep(e, w2)
      BY <1>1, <1>3, <1>4, <2>1, <2>3, MoveIsQuiet
    <2> QED
      BY <1>1, <1>3, <2>1, <2>2, <2>4, GapEnds
  <1>5. CASE k # None /\ move(e, [returned(w, {}) EXCEPT !.records = <<k>>])
    <2>1. k \in Keys /\ captured(k)
      BY <1>2, <1>3, <1>5 DEF Refs, KnownRefs
    <2>2. Monitor => \E l \in prior : k = observation(l)
      BY <1>2, <1>3 DEF PriorFits
    <2>3. PICK v : v = returned(w, {})
      OBVIOUS
    <2>4. v \in Worker /\ v.pc = "returned"
      BY <2>3, ReturnedWorker
    <2>5. PICK w2 : w2 = [v EXCEPT !.records = <<k>>]
      OBVIOUS
    <2>6. w2 \in Worker /\ w2.pc = "returned"
      BY <2>1, <2>4, <2>5, FoundWorker
    <2>7. QuietStep(e, w2)
      BY <1>1, <1>3, <1>5, <2>3, <2>5, <2>6, MoveIsQuiet
    <2> QED
      BY <1>1, <1>3, <2>1, <2>2, <2>3, <2>5, <2>7, FindEnds DEF at
  <1>6. \/ move(e, returned(w, {"capture_unavailable"})) \/ move(e, returned(w, {"archive_integrity"}))
        \/ (k # None /\ move(e, [returned(w, {}) EXCEPT !.records = <<k>>]))
    BY <1>1, <1>2 DEF fetch_replay
  <1> QED
    BY <1>4, <1>5, <1>6

LEMMA FetchOK ==
  ASSUME IndInv, pipeline' = pipeline, NEW e \in Executions, fetch(e)
  PROVE  IndInv'
  <1>1. PICK w \in Worker : w = worker[e]
    BY EarlyFacts
  <1>2. /\ w.pc = "fetch" /\ at(e, "fetch") /\ w.mode # "replay" /\ KnownRefs(w)
        /\ Monitor => PriorFits(w, holder = e)
    BY <1>1, EarlyFacts DEF fetch, at
  <1>3. CASE w.mode = "reuse" /\ verified(e) # None /\ move(e, [returned(w, {}) EXCEPT !.records = <<verified(e)>>])
    <2>1. PICK k \in Keys : k = verified(e) /\ k = w.cached /\ captured(k)
      BY <1>1, <1>2, <1>3 DEF verified, verifiable, Worker, Refs, KnownRefs
    <2>2. ~Monitor
      BY <1>2, <1>3 DEF PriorFits
    <2>3. PICK v : v = returned(w, {})
      OBVIOUS
    <2>4. v \in Worker /\ v.pc = "returned"
      BY <2>3, ReturnedWorker
    <2>5. PICK w2 : w2 = [v EXCEPT !.records = <<k>>]
      OBVIOUS
    <2>6. w2 \in Worker /\ w2.pc = "returned"
      BY <2>1, <2>4, <2>5, FoundWorker
    <2>7. QuietStep(e, w2)
      BY <1>1, <1>2, <1>3, <2>1, <2>3, <2>5, <2>6, MoveIsQuiet
    <2> QED
      BY <1>1, <1>2, <2>1, <2>2, <2>3, <2>5, <2>7, FindEnds
  <1> QED
    BY <1>1, <1>2, <1>3, FetchesOK DEF fetch

-----------------------------------------------------------------------------
(***************************************************************************)
(* Between two attempts.                                                   *)
(***************************************************************************)
LEMMA BetweenOK ==
  ASSUME IndInv, NEW e \in Executions, worker[e].pc \in {"cooldown", "retry"}, NEW p \in {"retry", "prepare"},
         NEW w2, w2 = [worker[e] EXCEPT !.pc = p], QuietStep(e, w2),
         GoesOn(newest(rows[e]), current(e) \in cooled'), p = "prepare" => Len(rows[e]) < MaxSequence
  PROVE  IndInv'
  <1>1. Typed /\ WorkerFits(e)
    BY DEF IndInv
  <1>2. PICK w \in Worker : w = worker[e]
    BY <1>1 DEF Typed
  <1>3. PICK rs \in Seq(Row) : rs = rows[e]
    BY <1>1 DEF Typed
  <1>4. /\ w2.pc = p /\ w2.outcomes = w.outcomes /\ w2.records = w.records /\ w2.mode = w.mode
        /\ w2.cached = w.cached /\ w2.replay = w.replay /\ w2.validator = w.validator
    BY <1>2 DEF Worker
  <1>5. RowsGoOn(e) /\ Counted(w, Len(rs)) /\ Reported(w, rs) /\ Known(w)
    BY <1>1, <1>2, <1>3 DEF WorkerFits
  <1>6. /\ worker'[e] = w2 /\ rows' = rows /\ captures' = captures /\ pipeline' = pipeline /\ holder' = holder
        /\ MaxSequence' = MaxSequence
    BY <1>1 DEF QuietStep, Typed, MaxSequence
  <1>7. /\ w2.pc \notin Open /\ w2.pc \notin Early /\ w2.pc \in Between /\ w2.pc \notin {"cooldown", "finish", "returned"}
        /\ w2.pc \notin Unsent /\ w2.pc \notin {"payload", "unchanged", "conclude"} /\ w2.pc \in Active
    BY <1>4 DEF Early, Open, Unsent, Prepared, Answered, Between, Active
  <1>8. RowsGoOn(e)'
    <2>1. SUFFICES ASSUME NEW i \in 1..(Len(rows[e]) - 1) PROVE GoesOn(rows[e][i], <<e, i>> \in cooled')
      BY <1>6 DEF RowsGoOn
    <2>2. GoesOn(rows[e][i], <<e, i>> \in cooled) /\ cooled \subseteq cooled'
      BY <1>5, <2>1 DEF RowsGoOn, QuietStep
    <2> QED
      BY <2>2 DEF GoesOn
  <1>9. Counted(w2, Len(rs))'
    <2>1. /\ Len(w.outcomes) = Len(rs) /\ Len(rs) > 0
      BY <1>2, <1>5 DEF Counted, Between
    <2> QED
      BY <1>3, <1>4, <1>6, <1>7, <2>1 DEF Counted
  <1>10. Reported(w2, rs) /\ Known(w2)'
    BY <1>4, <1>5, <1>6 DEF Reported, Known, KnownRefs, captured
  <1>11. /\ RowInHand(w2, newest(rs), holder' = e) /\ HeadersInHand(w2, newest(rs))'
         /\ Concluded(w2, newest(rs), current(e))' /\ Returned(w2, rs)'
    BY <1>7 DEF RowInHand, HeadersInHand, Concluded, Returned, Open
  <1>12. RowBehind(w2, newest(rs), (current(e) \in cooled)')
    <2>1. current(e)' = current(e)
      BY <1>6 DEF current
    <2> QED
      BY <1>3, <1>7, <2>1 DEF RowBehind
  <1>13. NotYetSent(e)' /\ Archived(e)'
    BY <1>6, <1>7 DEF NotYetSent, Archived, at
  <1>14. WorkerFits(e)'
    BY <1>3, <1>6, <1>8, <1>9, <1>10, <1>11, <1>12, <1>13 DEF WorkerFits
  <1>15. w.pc \in Active /\ w.pc # "fetch"
    BY <1>2 DEF Active, Between
  <1>16. Monitor => PriorFits(w2, holder = e)
    BY <1>2, <1>4, <1>7, <1>15, EarlyFacts DEF PriorFits
  <1>17. Monitor => \A k \in on_record : ~(k[1] < e /\ row(k).state \in Unfinished)
    BY <1>2, <1>15, EarlyFacts
  <1> QED
    BY <1>14, <1>16, <1>17, QuietOK

LEMMA RetryOK ==
  ASSUME IndInv, pipeline' = pipeline, NEW e \in Executions, retry(e)
  PROVE  IndInv'
  <1>1. PICK w \in Worker : w = worker[e]
    BY EarlyFacts
  <1>2. w.pc = "retry"
    BY <1>1 DEF retry, at
  <1>3. CASE Len(rows[e]) < MaxSequence /\ move(e, [w EXCEPT !.pc = "prepare"])
    <2>1. PICK w2 : w2 = [w EXCEPT !.pc = "prepare"]
      OBVIOUS
    <2>2. w2 \in Worker /\ w2.pc = "prepare"
      BY <1>1, <2>1 DEF Worker, Pcs
    <2>3. QuietStep(e, w2) /\ cooled' = cooled
      BY <1>1, <1>2, <1>3, <2>1, <2>2, MoveIsQuiet DEF move
    <2>4. GoesOn(newest(rows[e]), current(e) \in cooled')
      <3>1. WorkerFits(e) /\ rows[e] # <<>>
        BY <1>1, <1>2 DEF IndInv, WorkerFits, Counted, Typed
      <3> QED
        BY <1>1, <1>2, <2>3, <3>1 DEF WorkerFits, RowBehind
    <2> QED
      BY <1>1, <1>2, <1>3, <2>1, <2>3, <2>4, BetweenOK
  <1>4. CASE move(e, returned(w, {"dispatch_budget_exhausted"}))
    <2>1. PICK w2 : w2 = returned(w, {"dispatch_budget_exhausted"})
      OBVIOUS
    <2>2. "dispatch_budget_exhausted" \in Gaps \ {"none"}
      BY DEF Gaps
    <2>3. w2 \in Worker /\ w2.pc = "returned"
      BY <2>1, <2>2, ReturnedWorker
    <2>4. QuietStep(e, w2)
      BY <1>1, <1>2, <1>4, <2>1, <2>3, MoveIsQuiet
    <2> QED
      BY <1>1, <1>2, <2>1, <2>2, <2>4, GapEnds DEF Between
  <1> QED
    BY <1>1, <1>3, <1>4 DEF retry

LEMMA CooldownOK ==
  ASSUME IndInv, pipeline' = pipeline, NEW e \in Executions, cooldown(e)
  PROVE  IndInv'
  <1>1. PICK w \in Worker : w = worker[e]
    BY EarlyFacts
  <1>2. w.pc = "cooldown" /\ Typed /\ WorkerFits(e)
    BY <1>1 DEF cooldown, at, IndInv
  <1>3. rows[e] # <<>> /\ RowBehind(w, newest(rows[e]), current(e) \in cooled)
    BY <1>1, <1>2 DEF WorkerFits, Counted, Typed
  <1>4. PICK w2 :
           /\ worker' = [worker EXCEPT ![e] = w2]
           /\ cooled' = cooled \/ cooled' = cooled \cup {current(e)}
           /\ \/ \E gap \in {"coordination_unavailable", "retry_after_requires_review",
                             "source_access_deferred", "http_error"} : w2 = returned(w, {gap})
              \/ /\ w2 = [w EXCEPT !.pc = "retry"] /\ w.response.status \in Retryable
                 /\ w.response.status = 429 \/ w.response.retry_after # "none" => current(e) \in cooled'
    <2>1. ASSUME NEW next \in after_error(w)
          PROVE  \/ \E gap \in {"retry_after_requires_review", "source_access_deferred", "http_error"} :
                       next = returned(w, {gap})
                 \/ next = [w EXCEPT !.pc = "retry"] /\ w.response.status \in Retryable
      BY <2>1 DEF after_error, deferred, going_on
    <2>2. CASE /\ asks_to_wait(w.response) /\ cooled' = cooled \cup {current(e)}
               /\ \E next \in after_error(w) : worker' = [worker EXCEPT ![e] = next]
      BY <2>1, <2>2
    <2>3. CASE worker' = [worker EXCEPT ![e] = returned(w, {"coordination_unavailable"})] /\ cooled' = cooled
      BY <2>3
    <2>4. CASE /\ ~asks_to_wait(w.response) /\ cooled' = cooled
               /\ \E next \in after_error(w) : worker' = [worker EXCEPT ![e] = next]
      BY ZenonT(40), <2>1, <2>4 DEF asks_to_wait
    <2> QED
      BY <1>1, <2>2, <2>3, <2>4 DEF cooldown
  <1>5. ASSUME w2 \in Worker, w2.pc # "unclaimed"
        PROVE  QuietStep(e, w2)
    BY <1>1, <1>2, <1>3, <1>4, <1>5 DEF cooldown, QuietStep, Typed, Files
  <1>6. ASSUME NEW gap \in {"coordination_unavailable", "retry_after_requires_review",
                            "source_access_deferred", "http_error"}, w2 = returned(w, {gap})
        PROVE  IndInv'
    <2>1. gap \in Gaps \ {"none"}
      BY <1>6 DEF Gaps
    <2>2. w2 \in Worker /\ w2.pc = "returned"
      BY <1>6, <2>1, ReturnedWorker
    <2> QED
      BY <1>1, <1>2, <1>5, <1>6, <2>1, <2>2, GapEnds DEF Between
  <1>7. CASE /\ w2 = [w EXCEPT !.pc = "retry"] /\ w.response.status \in Retryable
             /\ w.response.status = 429 \/ w.response.retry_after # "none" => current(e) \in cooled'
    <2>1. w2 \in Worker /\ w2.pc = "retry"
      BY <1>1, <1>7 DEF Worker, Pcs
    <2>2. GoesOn(newest(rows[e]), current(e) \in cooled')
      BY <1>2, <1>3, <1>7 DEF RowBehind, GoesOn
    <2> QED
      BY <1>1, <1>2, <1>5, <1>7, <2>1, <2>2, BetweenOK
  <1> QED
    BY <1>4, <1>6, <1>7

-----------------------------------------------------------------------------
(***************************************************************************)
(* A new attempt.                                                          *)
(***************************************************************************)
PreparedRow(v) ==
    [state |-> "prepared", requested |-> FALSE, status |-> 0, location |-> FALSE,
     retry_after |-> "none", completed |-> None, reused |-> None, validator |-> v, payload |-> "none"]

LEMMA NewRow ==
  ASSUME NEW v \in Refs, NEW r, r = PreparedRow(v)
  PROVE  /\ r \in Row /\ r.state = "prepared" /\ r.status = 0 /\ r.completed = None /\ r.validator = v
  BY DEF PreparedRow, Row, Unfinished, Bodies, Refs

Appends(e, r, k) ==
    /\ pipeline' = pipeline /\ Len(rows[e]) < MaxSequence
    /\ rows' = [rows EXCEPT ![e] = Append(rows[e], r)]
    /\ k = <<e, Len(rows[e]) + 1>>

\* The rows after it: those before it, and a new one that was not sent yet.
LEMMA AppendedRows ==
  ASSUME IndInv, NEW e \in Executions, NEW r \in Row, NEW k, Appends(e, r, k)
  PROVE  /\ rows' \in [Executions -> Seq(Row)] /\ Len(rows'[e]) = Len(rows[e]) + 1
         /\ newest(rows'[e]) = r /\ rows'[e] # <<>>
         /\ \A i \in 1..Len(rows[e]) : rows'[e][i] = rows[e][i]
         /\ \A d \in Executions : d # e => rows'[d] = rows[d]
         /\ current(e)' = k /\ k \in Attempts /\ k[1] = e /\ k \notin on_record
         /\ on_record' = on_record \cup {k} /\ row(k)' = r
         /\ \A l \in on_record : row(l)' = row(l)
         /\ k \notin sent
  <1>1. Typed /\ SentIsOnRecord
    BY DEF IndInv
  <1>2. PICK rs \in Seq(Row) : rs = rows[e] /\ Len(rs) \in Nat /\ Len(rs) < MaxSequence
    BY <1>1 DEF Typed, Appends
  <1>3. PICK rs2 : rs2 = Append(rs, r)
    OBVIOUS
  <1>4. /\ rs2 \in Seq(Row) /\ Len(rs2) = Len(rs) + 1 /\ rs2[Len(rs) + 1] = r
        /\ \A i \in 1..Len(rs) : rs2[i] = rs[i]
    BY <1>2, <1>3
  <1>5. rows'[e] = rs2 /\ \A d \in Executions : d # e => rows'[d] = rows[d]
    BY <1>1, <1>2, <1>3 DEF Typed, Appends
  <1>6. rows' \in [Executions -> Seq(Row)]
    BY <1>1, <1>2, <1>3, <1>4 DEF Typed, Appends
  <1>7. newest(rows'[e]) = r /\ rows'[e] # <<>> /\ current(e)' = <<e, Len(rs) + 1>>
    BY <1>2, <1>4, <1>5 DEF newest, current
  <1>8. Len(rs) + 1 \in 1..MaxRows
    BY <1>1, <1>2, Constants DEF Typed, MaxSequence
  <1>9. k \in Attempts /\ k = current(e)' /\ k[1] = e /\ k[2] = Len(rs) + 1
    BY <1>2, <1>7, <1>8, KeyFacts DEF Appends
  <1>10. k \notin on_record
    BY <1>2, <1>9 DEF on_record
  <1>11. on_record' = on_record \cup {k}
    <2>1. ASSUME NEW l \in Attempts PROVE l[2] <= Len(rows'[l[1]]) <=> (l[2] <= Len(rows[l[1]]) \/ l = k)
      <3>1. l[1] \in Executions /\ l[2] \in 1..MaxRows /\ l = <<l[1], l[2]>> /\ k = <<e, Len(rs) + 1>>
        BY <1>7, <1>9, <2>1, KeyFacts
      <3>2. CASE l[1] = e
        BY <1>2, <1>4, <1>5, <3>1, <3>2
      <3>3. CASE l[1] # e
        BY <1>5, <1>9, <3>1, <3>3
      <3> QED
        BY <3>2, <3>3
    <2> QED
      BY <1>9, <2>1 DEF on_record
  <1>12. ASSUME NEW l \in on_record PROVE row(l)' = row(l)
    <2>1. l[1] \in Executions /\ l[2] \in 1..Len(rows[l[1]])
      BY <1>1, KeyFacts DEF on_record, Typed
    <2>2. CASE l[1] = e
      BY <1>2, <1>4, <1>5, <2>1, <2>2 DEF row
    <2>3. CASE l[1] # e
      BY <1>5, <2>1, <2>3 DEF row
    <2> QED
      BY <2>2, <2>3
  <1>13. row(k)' = r
    BY <1>4, <1>5, <1>9 DEF row
  <1>14. k \notin sent
    BY <1>1, <1>10 DEF SentIsOnRecord
  <1> QED
    BY <1>2, <1>4, <1>5, <1>6, <1>7, <1>9, <1>10, <1>11, <1>12, <1>13, <1>14

LEMMA PrepareOK ==
  ASSUME IndInv, pipeline' = pipeline, NEW e \in Executions, ingestion_prepare(e)
  PROVE  IndInv'
  <1>1. /\ Typed /\ ClaimsInOrder /\ CapturesWhole /\ Observed /\ SentIsOnRecord /\ CaptureHasBytes
        /\ OnePrior /\ NoneLeft /\ WorkerFits(e)
    BY DEF IndInv
  <1>2. PICK w \in Worker : w = worker[e]
    BY EarlyFacts
  <1>3. w.pc = "prepare" /\ holder = e /\ Len(rows[e]) < MaxSequence /\ w.pc \in Active
    BY <1>2 DEF ingestion_prepare, at, locked_stage, Active, Between
  <1>4. PICK rs \in Seq(Row) : rs = rows[e] /\ Len(rs) \in Nat
    BY <1>1 DEF Typed
  <1>5. PICK r \in Row : /\ r = PreparedRow(w.validator) /\ r.state = "prepared" /\ r.status = 0
                         /\ r.completed = None /\ r.validator = w.validator
    BY NewRow DEF Worker
  <1>6. PICK k : k = <<e, Len(rows[e]) + 1>>
    OBVIOUS
  <1>7. rows' = [rows EXCEPT ![e] = Append(rows[e], r)]
    BY <1>2, <1>5 DEF ingestion_prepare, PreparedRow
  <1>8. /\ rows' \in [Executions -> Seq(Row)] /\ Len(rows'[e]) = Len(rows[e]) + 1
        /\ newest(rows'[e]) = r /\ rows'[e] # <<>>
        /\ \A i \in 1..Len(rows[e]) : rows'[e][i] = rows[e][i]
        /\ \A d \in Executions : d # e => rows'[d] = rows[d]
        /\ current(e)' = k /\ k \in Attempts /\ k[1] = e /\ k \notin on_record
        /\ on_record' = on_record \cup {k} /\ row(k)' = r
        /\ \A l \in on_record : row(l)' = row(l)
        /\ k \notin sent
    <2>1. Appends(e, r, k)
      BY <1>3, <1>6, <1>7 DEF Appends
    <2> QED
      BY <1>5, <2>1, AppendedRows
  <1>9. PICK w2 : w2 = [w EXCEPT !.pc = "acquire", !.response = no_response, !.outcome = no_outcome]
    OBVIOUS
  <1>10. /\ w2 \in Worker /\ w2.pc = "acquire" /\ w2.outcomes = w.outcomes /\ w2.records = w.records
         /\ w2.mode = w.mode /\ w2.cached = w.cached /\ w2.replay = w.replay /\ w2.validator = w.validator
    <2>1. no_outcome \in Outcome
      BY DEF no_outcome, Outcome, Failed, Refs, Gaps
    <2> QED
      BY <1>2, <1>9, <2>1 DEF Worker, Pcs
  <1>11. /\ worker' = [worker EXCEPT ![e] = w2]
         /\ UNCHANGED <<holder, captures, archive, sent, cooled>>
    BY <1>2, <1>9 DEF ingestion_prepare
  <1>12. worker'[e] = w2 /\ \A d \in Executions : d # e => worker'[d] = worker[d]
    BY <1>1, <1>11 DEF Typed
  <1>13. MaxSequence' = MaxSequence /\ Monitor' = Monitor
    BY DEF MaxSequence, Monitor
  <1>14. Typed'
    <2>1. worker' \in [Executions -> Worker]
      BY <1>1, <1>10, <1>11 DEF Typed
    <2>2. \A d \in Executions : Len(rows'[d]) <= MaxSequence'
      <3>1. Len(rows'[e]) <= MaxSequence
        BY <1>1, <1>3, <1>4, <1>8, Constants DEF Typed, MaxSequence
      <3>2. \A d \in Executions : d # e => Len(rows'[d]) <= MaxSequence
        BY <1>1, <1>8 DEF Typed
      <3> QED
        BY <1>13, <3>1, <3>2
    <2> QED
      BY <1>1, <1>8, <1>11, <2>1, <2>2 DEF Typed
  <1>15. ClaimsInOrder'
    <2>1. \A d \in Executions : at(d, "unclaimed")' <=> at(d, "unclaimed")
      BY <1>2, <1>3, <1>10, <1>12 DEF at
    <2> QED
      BY <1>1, <1>11, <2>1 DEF ClaimsInOrder
  <1>16. CapturesWhole' /\ SentIsOnRecord' /\ CaptureHasBytes'
    BY <1>1, <1>8, <1>11 DEF CapturesWhole, SentIsOnRecord, CaptureHasBytes
  <1>17. \A l \in on_record : observation(l)' = observation(l)
    BY <1>8 DEF observation
  <1>18. \A l : captured(l)' = captured(l)
    BY <1>11 DEF captured
  <1>19. row(k)'.state \notin Successful
    BY <1>5, <1>8 DEF Successful
  <1>20. Observed'
    BY <1>1, <1>8, <1>17, <1>18, <1>19 DEF Observed
  <1>21. prior' = prior
    <2>1. k \notin prior /\ k \notin prior'
      BY <1>8, <1>19 DEF prior
    <2> QED
      BY <1>8, <2>1 DEF prior
  <1>22. OnePrior'
    <2> SUFFICES ASSUME Monitor, NEW d \in Executions PROVE PriorFits(worker[d], holder = d)'
      BY <1>1, <1>13, <1>21 DEF OnePrior
    <2>1. PICK v : v = worker[d]
      OBVIOUS
    <2>2. PICK v2 : v2 = worker'[d]
      OBVIOUS
    <2>3. PICK h : h = (holder = d)
      OBVIOUS
    <2>4. PriorFits(v, h)
      BY <1>1, <2>1, <2>3 DEF OnePrior
    <2>5. \A l \in prior : observation(l)' = observation(l)
      BY <1>17 DEF prior
    <2>6. usable(v2)' = usable(v2)
      BY <1>18 DEF usable
    <2>7. v2 = v \/ ({v.pc, v2.pc} \subseteq Active \ {"fetch", "returned"} /\ v2.mode = v.mode)
      BY <1>2, <1>3, <1>10, <1>12, <2>1, <2>2 DEF Active, Open, Unsent, Prepared, Answered, Between
    <2>8. PriorFits(v2, h)'
      BY <1>21, <2>4, <2>5, <2>6, <2>7 DEF PriorFits
    <2> QED
      BY <1>11, <2>2, <2>3, <2>8
  <1>23. NoneLeft'
    <2> SUFFICES ASSUME Monitor, NEW d \in Executions, NEW l \in on_record', l[1] < d,
                        row(l)'.state \in Unfinished
                 PROVE  /\ rows'[d] = <<>> /\ worker'[d].pc \notin {"choose", "fetch"} \cup Active
                        /\ worker'[d].pc = "recover" => l \in worker'[d].abandoned
      BY <1>13 DEF NoneLeft, at
    <2>1. CASE l = k
      <3>1. d # e /\ e < d
        BY <1>8, <2>1, Constants
      <3>2. at(d, "unclaimed")
        BY <1>1, <1>3, <3>1 DEF ClaimsInOrder
      <3>3. rows[d] = <<>>
        BY <1>1, <3>2 DEF IndInv, WorkerFits, Counted, Early, at, Typed
      <3> QED
        BY <1>8, <1>12, <3>1, <3>2, <3>3 DEF at, Active, Open, Unsent, Prepared, Answered, Between
    <2>2. CASE l # k
      <3>1. l \in on_record /\ row(l)' = row(l)
        BY <1>8, <2>2
      <3>2. /\ rows[d] = <<>> /\ worker[d].pc \notin {"choose", "fetch"} \cup Active
            /\ worker[d].pc = "recover" => l \in worker[d].abandoned
        BY <1>1, <3>1 DEF NoneLeft, at
      <3>3. d # e
        BY <1>2, <1>3, <3>2
      <3> QED
        BY <1>8, <1>12, <3>2, <3>3
    <2> QED
      BY <2>1, <2>2
  <1>24. WorkerFits(e)'
    <2>1. PICK rs2 \in Seq(Row) : /\ rs2 = rows'[e] /\ Len(rs2) = Len(rs) + 1 /\ newest(rs2) = r /\ rs2 # <<>>
                                  /\ \A i \in 1..Len(rs) : rs2[i] = rs[i]
      BY <1>4, <1>8
    <2>2. /\ RowsGoOn(e) /\ Counted(w, Len(rs)) /\ Reported(w, rs) /\ Known(w)
          /\ rs # <<>> => RowBehind(w, newest(rs), current(e) \in cooled)
      BY <1>1, <1>2, <1>4 DEF WorkerFits
    <2>3. Len(w.outcomes) = Len(rs)
      BY <1>3, <2>2 DEF Counted, Between
    <2>4. RowsGoOn(e)'
      <3>1. SUFFICES ASSUME NEW i \in 1..Len(rs) PROVE GoesOn(rs2[i], <<e, i>> \in cooled')
        BY <1>4, <2>1 DEF RowsGoOn
      <3>2. CASE i < Len(rs)
        BY <1>4, <1>11, <2>1, <2>2, <3>2 DEF RowsGoOn
      <3>3. CASE i = Len(rs)
        <4>1. GoesOn(newest(rs), current(e) \in cooled)
          BY <1>3, <1>4, <2>2, <3>3 DEF RowBehind
        <4>2. newest(rs) = rs2[i] /\ current(e) = <<e, i>>
          BY <1>4, <2>1, <3>3 DEF newest, current
        <4> QED
          BY <1>11, <4>1, <4>2
      <3> QED
        BY <1>4, <3>2, <3>3
    <2>5. Counted(w2, Len(rs2))'
      BY <1>4, <1>10, <2>1, <2>3 DEF Counted, Early, Between
    <2>6. Reported(w2, rs2)
      BY <1>4, <1>10, <2>1, <2>2, <2>3 DEF Reported
    <2>7. Known(w2)'
      BY <1>10, <1>11, <2>2 DEF Known, KnownRefs, captured
    <2>8. RowInHand(w2, r, holder' = e)
      BY <1>5, <1>10 DEF RowInHand, Open, Unsent, Prepared, Answered, Unfinished
    <2>9. /\ HeadersInHand(w2, r)' /\ Concluded(w2, r, k)' /\ RowBehind(w2, r, k \in cooled')
          /\ Returned(w2, rs2)'
      BY <1>10 DEF HeadersInHand, Concluded, RowBehind, Returned, Answered
    <2>10. NotYetSent(e)' /\ Archived(e)'
      BY <1>8, <1>10, <1>11, <1>12 DEF NotYetSent, Archived, at
    <2> QED
      BY <1>8, <1>12, <2>1, <2>4, <2>5, <2>6, <2>7, <2>8, <2>9, <2>10 DEF WorkerFits
  <1>25. ASSUME NEW d \in Executions \ {e} PROVE WorkerFits(d)'
    <2>1. rows'[d] = rows[d] /\ rows[d] \in Seq(Row) /\ worker'[d] = worker[d]
      BY <1>1, <1>8, <1>12 DEF Typed
    <2>2. RowsStay(rows[d], rows'[d], holder' = d)
      BY <2>1 DEF RowsStay, RowStays
    <2>3. Beside(d)
      BY <1>11, <1>16, <2>1, <2>2 DEF Beside, FileStays
    <2> QED
      BY <1>1, <2>3, OthersFit DEF IndInv
  <1> QED
    BY <1>14, <1>15, <1>16, <1>20, <1>22, <1>23, <1>24, <1>25 DEF IndInv

-----------------------------------------------------------------------------
(***************************************************************************)
(* The end of an attempt.                                                  *)
(***************************************************************************)
\* Where the worker goes, and what it takes along.
GoesBack(w, w3, n) ==
    LET o == w.outcome
    IN  \/ /\ w3.pc = "returned" /\ w3.cached = None /\ w3.replay = None /\ w3.validator = None
           /\ \/ o.then = "return" /\ (w3.gaps = {} <=> o.gap = "none")
              \/ o.then = "next" /\ w3.gaps # {}
        \/ /\ w3.mode = w.mode /\ w3.cached = w.cached /\ w3.replay = w.replay
           /\ w3.validator \in {w.validator, None} /\ w3.response = w.response
           /\ \/ w3.pc = "prepare" /\ o.then = "next" /\ n < MaxSequence
              \/ w3.pc \in {"retry", "cooldown"} /\ o.then = w3.pc

\* The records with what the outcome adds.
Records(w, o, k) ==
    IF o.capture THEN Append(w.records, k)
    ELSE IF o.reused # None THEN Append(w.records, o.reused) ELSE w.records

LEMMA ReportedWorker ==
  ASSUME NEW w \in Worker, NEW k \in Keys, NEW x, x = reported(w, k), NEW o, o = w.outcome
  PROVE  /\ x \in Worker /\ x.outcomes = Append(w.outcomes, o.state) /\ x.records = Records(w, o, k)
         /\ x.outcome = w.outcome /\ x.mode = w.mode /\ x.cached = w.cached /\ x.replay = w.replay
         /\ x.validator = w.validator /\ x.response = w.response
  <1>1. o \in Outcome
    BY DEF Worker
  <1>2. o.state \in Successful \cup Failed /\ o.reused \in Refs
    BY <1>1 DEF Outcome
  <1>3. PICK outs \in Seq(Successful \cup Failed) : outs = Append(w.outcomes, o.state)
    <2>1. PICK S : S = Successful \cup Failed
      OBVIOUS
    <2>2. w.outcomes \in Seq(S) /\ o.state \in S
      BY <1>2, <2>1 DEF Worker
    <2>3. Append(w.outcomes, o.state) \in Seq(S)
      BY <2>2
    <2> QED
      BY <2>1, <2>3
  <1>4. PICK recs \in Seq(Keys) : recs = Records(w, o, k)
    <2>1. w.records \in Seq(Keys) /\ Append(w.records, k) \in Seq(Keys)
      BY DEF Worker
    <2>2. o.reused # None => Append(w.records, o.reused) \in Seq(Keys)
      BY <1>2, <2>1 DEF Refs
    <2> QED
      BY <2>1, <2>2 DEF Records
  <1>5. x = [w EXCEPT !.outcomes = outs, !.records = recs]
    BY <1>1, <1>3, <1>4 DEF reported, Records, Worker
  <1>6. /\ x \in Worker /\ x.outcomes = outs /\ x.records = recs
        /\ x.outcome = w.outcome /\ x.mode = w.mode /\ x.cached = w.cached /\ x.replay = w.replay
        /\ x.validator = w.validator /\ x.response = w.response
    BY <1>3, <1>4, <1>5 DEF Worker
  <1> QED
    BY <1>1, <1>3, <1>4, <1>6

LEMMA ContinuedWorker ==
  ASSUME Typed, NEW w \in Worker, NEW k \in Keys, NEW n \in Nat, NEW x, x = reported(w, k),
         NEW w3, w3 = continued(x, n)
  PROVE  w3 \in Worker /\ w3.outcomes = x.outcomes /\ w3.records = x.records /\ GoesBack(w, w3, n)
  <1>1. /\ x \in Worker /\ x.outcome = w.outcome /\ x.mode = w.mode /\ x.cached = w.cached
        /\ x.replay = w.replay /\ x.validator = w.validator /\ x.response = w.response
    BY ReportedWorker
  <1>2. PICK o \in Outcome : o = w.outcome
    BY DEF Worker
  <1>3. o.then \in {"return", "next", "retry", "cooldown"} /\ o.gap \in Gaps
    BY DEF Outcome
  <1>4. CASE o.then = "return"
    <2>1. w3 = returned(x, {o.gap} \ {"none"})
      BY <1>1, <1>2, <1>4 DEF continued
    <2>2. {o.gap} \ {"none"} \in SUBSET Gaps
      BY <1>3
    <2> QED
      BY <1>1, <1>2, <1>4, <2>1, <2>2, ReturnedWorker DEF GoesBack
  <1>5. CASE o.then = "next" /\ n < MaxSequence
    <2>1. w3 = [x EXCEPT !.pc = "prepare", !.validator = None]
      BY <1>1, <1>2, <1>5 DEF continued, next_hop
    <2>2. /\ w3 \in Worker /\ w3.pc = "prepare" /\ w3.validator = None /\ w3.outcomes = x.outcomes
          /\ w3.records = x.records /\ w3.mode = x.mode /\ w3.cached = x.cached /\ w3.replay = x.replay
          /\ w3.response = x.response
      BY <1>1, <2>1 DEF Worker, Pcs, Refs
    <2> QED
      BY <1>1, <1>2, <1>5, <2>2 DEF GoesBack
  <1>6. CASE o.then = "next" /\ ~(n < MaxSequence)
    <2>1. w3 = returned(x, {"dispatch_budget_exhausted"})
      BY <1>1, <1>2, <1>6 DEF continued, next_hop
    <2>2. {"dispatch_budget_exhausted"} \in SUBSET Gaps /\ {"dispatch_budget_exhausted"} # {}
      BY DEF Gaps
    <2> QED
      BY <1>1, <1>2, <1>6, <2>1, <2>2, ReturnedWorker DEF GoesBack
  <1>7. CASE o.then \in {"retry", "cooldown"}
    <2>1. w3 = [x EXCEPT !.pc = o.then]
      BY <1>1, <1>2, <1>7 DEF continued
    <2>2. /\ w3 \in Worker /\ w3.pc = o.then /\ w3.validator = x.validator /\ w3.outcomes = x.outcomes
          /\ w3.records = x.records /\ w3.mode = x.mode /\ w3.cached = x.cached /\ w3.replay = x.replay
          /\ w3.response = x.response
      BY <1>1, <1>7, <2>1 DEF Worker, Pcs
    <2> QED
      BY <1>1, <1>2, <1>7, <2>2 DEF GoesBack
  <1> QED
    BY <1>3, <1>4, <1>5, <1>6, <1>7

\* A worker's outcome, recorded: k the attempt, r its row, f the row's end.
FinalStep(e, w, r, k, o, f, w3, c) ==
    /\ pipeline' = pipeline /\ holder = e /\ UNCHANGED <<holder, archive, sent, cooled>>
    /\ w = worker[e] /\ w.pc = "finish" /\ o = w.outcome /\ r = newest(rows[e]) /\ k = current(e)
    /\ f = finished(r, k, o) /\ f \in Row /\ row_shape(f)
    /\ w3 \in Worker /\ worker' = [worker EXCEPT ![e] = w3]
    /\ w3.outcomes = Append(w.outcomes, o.state) /\ GoesBack(w, w3, k[2])
    /\ w3.records = Records(w, o, k)
    /\ rows' = [rows EXCEPT ![e] = [rows[e] EXCEPT ![k[2]] = f]]
    /\ c \in Capture /\ c.id = k /\ c.status = r.status
    /\ captures' = IF o.capture THEN captures \cup {c} ELSE captures

LEMMA FinalizeSteps ==
  ASSUME IndInv, pipeline' = pipeline, NEW e \in Executions, ingestion_finalize(e)
  PROVE  \E w \in Worker, r \in Row, k \in Attempts, o \in Outcome :
            \E f, w3, c : FinalStep(e, w, r, k, o, f, w3, c)
  <1>1. at(e, "finish") /\ worker[e].pc = "finish" /\ worker[e].pc \in Open /\ holder = e
    BY DEF ingestion_finalize, at, locked_attempt, locked_stage, Open
  <1>2. Typed
    BY DEF IndInv
  <1>3. PICK w \in Worker : w = worker[e]
    BY <1>1, HandFacts
  <1>4. PICK r \in Row : r = newest(rows[e]) /\ r = row(current(e))
    BY <1>1, HandFacts
  <1>5. PICK k \in Attempts : k = current(e) /\ k = <<e, Len(rows[e])>> /\ k[1] = e /\ k[2] = Len(rows[e])
                              /\ k[2] \in Nat /\ k \in Keys
    BY <1>1, HandFacts, KeyFacts DEF current
  <1>6. PICK o \in Outcome : o = w.outcome
    BY DEF Worker
  <1>7. PICK f \in Row : f = finished(r, k, o)
    BY <1>5, FinishedRow
  <1>8. row_shape(f)
    BY <1>3, <1>4, <1>5, <1>6, <1>7 DEF ingestion_finalize, accepted
  <1>9. PICK x : x = reported(w, k)
    OBVIOUS
  <1>10. PICK w3 : w3 = continued(x, k[2])
    OBVIOUS
  <1>11. x.outcomes = Append(w.outcomes, o.state) /\ x.records = Records(w, o, k)
    BY SMTT(40), <1>5, <1>6, <1>9, ReportedWorker
  <1>12. w3 \in Worker /\ w3.outcomes = x.outcomes /\ w3.records = x.records /\ GoesBack(w, w3, k[2])
    BY <1>2, <1>5, <1>9, <1>10, ContinuedWorker
  <1>13. PICK n \in Nat : n = k[2]
    BY <1>5
  <1>14. rows' = [rows EXCEPT ![e] = [rows[e] EXCEPT ![n] = f]] /\ worker' = [worker EXCEPT ![e] = w3]
    <2>1. /\ rows' = [rows EXCEPT ![e][k[2]] = finished(@, k, o)]
          /\ worker' = [worker EXCEPT ![e] = continued(reported(@, k), k[2])]
      BY <1>3, <1>5, <1>6 DEF ingestion_finalize
    <2>2. rows[e][n] = r
      BY <1>4, <1>5, <1>13 DEF newest
    <2> QED
      BY <1>3, <1>7, <1>9, <1>10, <1>13, <2>1, <2>2
  <1>15. PICK c : c = [id |-> k, status |-> r.status, body |-> w.response.body, tagged |-> FALSE]
    OBVIOUS
  <1>16. c \in Capture /\ c.id = k /\ c.status = r.status
    <2>1. w.response.body \in Bodies \cup STRING
      BY DEF Worker, Response, no_response, Bodies
    <2>2. r.status \in 0..599
      BY DEF Row
    <2> QED
      BY <1>5, <1>15, <2>1, <2>2 DEF Capture
  <1>17. captures' = IF o.capture THEN captures \cup {c} ELSE captures
    BY <1>3, <1>4, <1>5, <1>6, <1>15 DEF ingestion_finalize
  <1>18. UNCHANGED <<holder, archive, sent, cooled>>
    BY DEF ingestion_finalize
  <1>19. FinalStep(e, w, r, k, o, f, w3, c)
    BY <1>1, <1>3, <1>4, <1>5, <1>6, <1>7, <1>8, <1>11, <1>12, <1>13, <1>14, <1>16, <1>17, <1>18 DEF FinalStep
  <1> QED
    BY <1>19

LEMMA FinalFacts ==
  ASSUME IndInv, NEW e \in Executions, NEW w \in Worker, NEW r \in Row, NEW k \in Attempts,
         NEW o \in Outcome, NEW f, NEW w3, NEW c, FinalStep(e, w, r, k, o, f, w3, c)
  PROVE  /\ k[1] = e /\ k = <<e, Len(rows[e])>> /\ k[2] = Len(rows[e]) /\ k \in Keys /\ k # None
         /\ Len(rows[e]) \in Nat /\ Len(rows[e]) > 0
         /\ k \in on_record /\ row(k) = r /\ r.state \in Unfinished /\ r.completed = None
         /\ rows' \in [Executions -> Seq(Row)] /\ \A d \in Executions : d # e => rows'[d] = rows[d]
         /\ Len(rows'[e]) = Len(rows[e]) /\ newest(rows'[e]) = f
         /\ \A i \in 1..(Len(rows[e]) - 1) : rows'[e][i] = rows[e][i]
         /\ on_record' = on_record /\ row(k)' = f /\ current(e)' = k
         /\ \A l \in on_record : l # k => row(l)' = row(l)
         /\ \A a \in captures : a.id # k
         /\ worker'[e] = w3 /\ \A d \in Executions : d # e => worker'[d] = worker[d]
         /\ w3.pc \in {"returned", "prepare", "retry", "cooldown"}
  <1>1. Typed /\ CapturesWhole /\ worker[e].pc \in Open /\ holder = e
    BY DEF IndInv, FinalStep, Open
  <1>2. /\ k = current(e) /\ r = newest(rows[e]) /\ w = worker[e]
        /\ rows' = [rows EXCEPT ![e] = [rows[e] EXCEPT ![k[2]] = f]]
        /\ worker' = [worker EXCEPT ![e] = w3] /\ f \in Row
    BY DEF FinalStep
  <1>3. Len(rows[e]) \in Nat /\ Len(rows[e]) > 0 /\ row(k) = r /\ RowInHand(w, r, TRUE)
    BY <1>1, <1>2, HandFacts
  <1>4. k[1] = e /\ k = <<e, Len(rows[e])>> /\ k[2] = Len(rows[e]) /\ k \in Keys /\ k # None
    BY <1>2, KeyFacts DEF current
  <1>5. k \in on_record
    BY <1>4 DEF on_record
  <1>6. r.state \in Unfinished /\ r.completed = None
    BY <1>1, <1>2, <1>3 DEF RowInHand
  <1>7. PICK rs \in Seq(Row) : rs = rows[e]
    BY <1>1 DEF Typed
  <1>8. PICK rs2 \in Seq(Row) : /\ rs2 = [rs EXCEPT ![Len(rs)] = f] /\ Len(rs2) = Len(rs) /\ rs2[Len(rs)] = f
                                /\ \A i \in 1..(Len(rs) - 1) : rs2[i] = rs[i]
    <2>1. Len(rs) \in 1..Len(rs) /\ f \in Row /\ Len(rs) \in Nat
      BY <1>2, <1>3, <1>7
    <2>2. [rs EXCEPT ![Len(rs)] = f] \in Seq(Row)
      BY <2>1
    <2>3. PICK rs2 \in Seq(Row) : rs2 = [rs EXCEPT ![Len(rs)] = f]
      BY <2>2
    <2>4. /\ Len(rs2) = Len(rs) /\ rs2[Len(rs)] = f
          /\ \A i \in 1..(Len(rs) - 1) : rs2[i] = rs[i]
      BY <2>1, <2>3
    <2> QED
      BY <2>3, <2>4
  <1>9. rows' = [rows EXCEPT ![e] = rs2]
    BY <1>2, <1>4, <1>7, <1>8
  <1>10. /\ rows' \in [Executions -> Seq(Row)] /\ rows'[e] = rs2
         /\ \A d \in Executions : d # e => rows'[d] = rows[d]
    BY <1>1, <1>9 DEF Typed
  <1>11. newest(rows'[e]) = f /\ row(k)' = f /\ current(e)' = k
    BY <1>2, <1>4, <1>7, <1>8, <1>10 DEF newest, row, current
  <1>12. on_record' = on_record
    <2>1. \A d \in Executions : Len(rows'[d]) = Len(rows[d])
      BY <1>7, <1>8, <1>10
    <2> QED
      BY <2>1, KeyFacts DEF on_record
  <1>13. ASSUME NEW l \in on_record, l # k PROVE row(l)' = row(l)
    <2>1. l[1] \in Executions /\ l[2] \in 1..Len(rows[l[1]]) /\ l = <<l[1], l[2]>>
      BY <1>1, KeyFacts DEF on_record, Typed
    <2>2. CASE l[1] = e
      <3>1. l[2] # Len(rs) /\ l[2] \in 1..(Len(rs) - 1)
        BY <1>3, <1>4, <1>7, <1>13, <2>1, <2>2
      <3> QED
        BY <1>7, <1>8, <1>10, <2>2, <3>1 DEF row
    <2>3. CASE l[1] # e
      BY <1>10, <2>1, <2>3 DEF row
    <2> QED
      BY <2>2, <2>3
  <1>14. ASSUME NEW a \in captures PROVE a.id # k
    <2> SUFFICES ASSUME a.id = k PROVE FALSE
      OBVIOUS
    <2>1. a.id # Base
      BY KeyFacts
    <2>2. row(a.id).completed = a.id
      BY <1>1, <2>1 DEF CapturesWhole
    <2> QED
      BY <1>3, <1>4, <1>6, <2>2
  <1>15. worker'[e] = w3 /\ \A d \in Executions : d # e => worker'[d] = worker[d]
    BY <1>1, <1>2 DEF Typed
  <1>16. w3.pc \in {"returned", "prepare", "retry", "cooldown"}
    BY DEF FinalStep, GoesBack
  <1> QED
    BY <1>3, <1>4, <1>5, <1>6, <1>7, <1>8, <1>10, <1>11, <1>12, <1>13, <1>14, <1>15, <1>16

\* What the attempt was recorded as, and the capture that comes of it.
LEMMA FinalRow ==
  ASSUME IndInv, NEW e \in Executions, NEW w \in Worker, NEW r \in Row, NEW k \in Attempts,
         NEW o \in Outcome, NEW f, NEW w3, NEW c, FinalStep(e, w, r, k, o, f, w3, c)
  PROVE  /\ f.state = o.state /\ f.requested = r.requested /\ f.completed = (IF o.capture THEN k ELSE None)
         /\ f.status = r.status /\ f.retry_after = r.retry_after
         /\ f.reused = o.reused /\ o.state \in Successful \cup Failed
         /\ captures \subseteq captures'
         /\ \A l : captured(l) => captured(l)'
         /\ \A l : l # k => (captured(l)' <=> captured(l))
         /\ o.state \in Successful => observation(k)' # None /\ captured(observation(k))'
         /\ o.state \in Successful => Len(w3.records) > 0 /\ w3.records[Len(w3.records)] = observation(k)'
         /\ \A i \in 1..Len(w3.records) : \E a \in captures' : a.id = w3.records[i]
         /\ (o.then = "return" /\ o.gap = "none") <=> o.state \in Successful
  <1>1. /\ f = finished(r, k, o) /\ row_shape(f) /\ w3.records = Records(w, o, k) /\ c.id = k
        /\ c.status = r.status /\ captures' = (IF o.capture THEN captures \cup {c} ELSE captures)
        /\ w = worker[e] /\ w.pc = "finish" /\ o = w.outcome /\ r = newest(rows[e]) /\ k = current(e)
    BY DEF FinalStep
  <1>2. /\ f.requested = r.requested /\ f.state = o.state /\ f.completed = (IF o.capture THEN k ELSE None)
        /\ f.reused = o.reused /\ f.status = r.status /\ f.retry_after = r.retry_after
    BY <1>1, FinishedFields
  <1>3. row(k)' = f /\ k # None /\ \A a \in captures : a.id # k
    BY FinalFacts
  <1>4. captures \subseteq captures' /\ (o.capture => c \in captures')
    BY <1>1
  <1>5. \A l : captured(l) => captured(l)'
    BY <1>4 DEF captured
  <1>6. \A l : l # k => (captured(l)' <=> captured(l))
    BY <1>1 DEF captured
  <1>7. worker[e].pc \in Open
    BY <1>1 DEF Open
  <1>8. /\ Concluded(w, r, k)
        /\ Known(w)
    BY <1>1, <1>7, HandFacts DEF IndInv, WorkerFits
  <1>9. /\ o.reused # None => captured(o.reused)
        /\ (o.then = "return" /\ o.gap = "none") <=> o.state \in Successful
    BY <1>1, <1>8 DEF Concluded
  <1>10. o.state \in Successful \cup Failed /\ o.reused \in Refs
    BY DEF Outcome
  <1>11. PICK recs \in Seq(Keys) : recs = w.records
    BY DEF Worker
  <1>12. ASSUME o.state \in Successful
         PROVE  \/ /\ o.capture /\ r.status \in 200..299
                \/ /\ ~o.capture /\ o.reused # None
    <2>1. /\ f.state = "complete" => f.status \in 200..299 /\ f.completed # None
          /\ f.state \in {"not_modified", "content_unchanged"} => f.reused # None /\ f.completed = None
      BY <1>1 DEF row_shape
    <2>2. CASE o.state = "complete"
      BY <1>2, <2>1, <2>2
    <2>3. CASE o.state \in {"not_modified", "content_unchanged"}
      BY <1>2, <1>3, <2>1, <2>3
    <2> QED
      BY <1>12, <2>2, <2>3 DEF Successful
  <1>13. ASSUME o.state \in Successful, o.capture, r.status \in 200..299
         PROVE  /\ observation(k)' = k /\ captured(k)'
                /\ Len(w3.records) > 0 /\ w3.records[Len(w3.records)] = k
    <2>1. observation(k)' = k
      BY <1>2, <1>3, <1>13 DEF observation
    <2>2. captured(k)'
      BY <1>1, <1>4, <1>13 DEF captured, successful
    <2>3. k \in Keys
      BY KeyFacts
    <2>4. w3.records = Append(recs, k)
      BY <1>1, <1>11, <1>13 DEF Records
    <2> QED
      BY <2>1, <2>2, <2>3, <2>4
  <1>14. ASSUME o.state \in Successful, ~o.capture, o.reused # None
         PROVE  /\ observation(k)' = o.reused /\ captured(o.reused)'
                /\ Len(w3.records) > 0 /\ w3.records[Len(w3.records)] = o.reused
    <2>1. observation(k)' = o.reused
      BY <1>2, <1>3, <1>14 DEF observation
    <2>2. o.reused \in Keys
      BY <1>10, <1>14 DEF Refs
    <2>3. w3.records = Append(recs, o.reused)
      BY <1>1, <1>11, <1>14 DEF Records
    <2> QED
      BY <1>5, <1>9, <1>14, <2>1, <2>2, <2>3
  <1>15. ASSUME NEW i \in 1..Len(w3.records) PROVE \E a \in captures' : a.id = w3.records[i]
    <2>1. CASE o.capture
      <3>1. w3.records = Append(recs, k) /\ k \in Keys
        BY <1>1, <1>11, <2>1, KeyFacts DEF Records
      <3>2. w3.records[i] = k \/ (i \in 1..Len(recs) /\ w3.records[i] = recs[i])
        BY <1>15, <3>1
      <3> QED
        BY <1>1, <1>4, <1>8, <1>11, <2>1, <3>2 DEF Known
    <2>2. CASE ~o.capture /\ o.reused # None
      <3>1. w3.records = Append(recs, o.reused) /\ o.reused \in Keys
        BY <1>1, <1>10, <1>11, <2>2 DEF Records, Refs
      <3>2. w3.records[i] = o.reused \/ (i \in 1..Len(recs) /\ w3.records[i] = recs[i])
        BY <1>15, <3>1
      <3> QED
        BY <1>4, <1>8, <1>9, <1>11, <2>2, <3>2 DEF Known, captured
    <2>3. CASE ~o.capture /\ o.reused = None
      BY <1>1, <1>4, <1>8, <1>15, <2>3 DEF Records, Known
    <2> QED
      BY <2>1, <2>2, <2>3
  <1> QED
    BY <1>2, <1>3, <1>4, <1>5, <1>6, <1>9, <1>10, <1>12, <1>13, <1>14, <1>15

LEMMA FinalTables ==
  ASSUME IndInv, NEW e \in Executions, NEW w \in Worker, NEW r \in Row, NEW k \in Attempts,
         NEW o \in Outcome, NEW f, NEW w3, NEW c, FinalStep(e, w, r, k, o, f, w3, c)
  PROVE  Typed' /\ ClaimsInOrder' /\ CapturesWhole' /\ Observed' /\ SentIsOnRecord' /\ CaptureHasBytes'
  <1>1. /\ Typed /\ ClaimsInOrder /\ CapturesWhole /\ Observed /\ SentIsOnRecord /\ CaptureHasBytes
    BY DEF IndInv
  <1>2. /\ k \in Keys /\ k \in on_record /\ row(k) = r /\ on_record' = on_record /\ row(k)' = f
        /\ rows' \in [Executions -> Seq(Row)] /\ \A d \in Executions : d # e => rows'[d] = rows[d]
        /\ Len(rows'[e]) = Len(rows[e])
        /\ \A l \in on_record : l # k => row(l)' = row(l)
        /\ \A a \in captures : a.id # k
        /\ worker'[e] = w3 /\ \A d \in Executions : d # e => worker'[d] = worker[d]
        /\ w3.pc # "unclaimed"
    BY FinalFacts
  <1>3. /\ f.state = o.state /\ f.requested = r.requested /\ (o.capture => f.completed = k)
        /\ \A l : captured(l) => captured(l)'
        /\ o.state \in Successful => observation(k)' # None /\ captured(observation(k))'
    BY FinalRow
  <1>4. /\ pipeline' = pipeline /\ UNCHANGED <<holder, archive, sent, cooled>>
        /\ w = worker[e] /\ w.pc = "finish" /\ o = w.outcome /\ k = current(e)
        /\ w3 \in Worker /\ worker' = [worker EXCEPT ![e] = w3]
        /\ c \in Capture /\ c.id = k /\ captures' = (IF o.capture THEN captures \cup {c} ELSE captures)
    BY DEF FinalStep
  <1>5. Typed'
    <2>1. captures' \subseteq Capture
      BY <1>1, <1>4 DEF Typed
    <2>2. worker' \in [Executions -> Worker]
      BY <1>1, <1>4 DEF Typed
    <2>3. \A d \in Executions : Len(rows'[d]) <= MaxSequence'
      BY <1>1, <1>2, <1>4 DEF Typed, MaxSequence
    <2> QED
      BY <1>1, <1>2, <1>4, <2>1, <2>2, <2>3 DEF Typed
  <1>6. ClaimsInOrder'
    <2>1. \A d \in Executions : at(d, "unclaimed")' <=> at(d, "unclaimed")
      BY <1>2, <1>4 DEF at
    <2> QED
      BY <1>1, <1>4, <2>1 DEF ClaimsInOrder
  <1>7. CapturesWhole'
    <2>1. ASSUME NEW a \in captures', a.id # Base PROVE a.id \in on_record' /\ (row(a.id)' ).completed = a.id
      <3>1. CASE a \in captures
        BY <1>1, <1>2, <2>1, <3>1 DEF CapturesWhole
      <3>2. CASE a = c /\ o.capture
        BY <1>2, <1>3, <1>4, <3>2
      <3> QED
        BY <1>4, <2>1, <3>1, <3>2
    <2>2. \A a, b \in captures' : a.id = b.id => a = b
      BY <1>1, <1>2, <1>4 DEF CapturesWhole
    <2> QED
      BY <2>1, <2>2 DEF CapturesWhole
  <1>8. Observed'
    <2> SUFFICES ASSUME NEW l \in on_record', row(l)'.state \in Successful
                 PROVE  observation(l)' # None /\ captured(observation(l))'
      BY DEF Observed
    <2>1. CASE l = k
      BY <1>2, <1>3, <2>1
    <2>2. CASE l # k
      <3>1. l \in on_record /\ row(l)' = row(l) /\ observation(l)' = observation(l)
        BY <1>2, <2>2 DEF observation
      <3>2. observation(l) # None /\ captured(observation(l))
        BY <1>1, <3>1 DEF Observed
      <3> QED
        BY <1>3, <3>1, <3>2 DEF captured
    <2> QED
      BY <2>1, <2>2
  <1>9. SentIsOnRecord'
    <2>1. k \in sent => o.state # "cancelled"
      <3>1. NotYetSent(e)
        BY DEF IndInv, WorkerFits
      <3> QED
        BY <1>4, <3>1 DEF NotYetSent, at
    <2> QED
      BY <1>1, <1>2, <1>3, <1>4, <2>1 DEF SentIsOnRecord
  <1>10. CaptureHasBytes'
    <2>1. o.capture => archive[k] \in {"durable", "damaged"}
      <3>1. Archived(e)
        BY DEF IndInv, WorkerFits
      <3> QED
        BY <1>4, <3>1 DEF Archived, at
    <2> QED
      BY <1>1, <1>4, <2>1 DEF CaptureHasBytes
  <1> QED
    BY <1>5, <1>6, <1>7, <1>8, <1>9, <1>10

\* A capture is usable to those that knew it, as before.
LEMMA UsableAsBefore ==
  ASSUME NEW k, \A l : captured(l) => captured(l)', \A l : l # k => (captured(l)' <=> captured(l)),
         \A a \in captures : a.id # k, NEW v, Known(v)
  PROVE  usable(v)' <=> usable(v)
  BY DEF usable, Known

LEMMA FinalMonitor ==
  ASSUME IndInv, NEW e \in Executions, NEW w \in Worker, NEW r \in Row, NEW k \in Attempts,
         NEW o \in Outcome, NEW f, NEW w3, NEW c, FinalStep(e, w, r, k, o, f, w3, c)
  PROVE  OnePrior' /\ NoneLeft'
  <1>1. OnePrior /\ NoneLeft
    BY DEF IndInv
  <1>2. /\ k \in on_record /\ row(k) = r /\ r.state \in Unfinished /\ on_record' = on_record /\ row(k)' = f
        /\ \A d \in Executions : d # e => rows'[d] = rows[d]
        /\ \A l \in on_record : l # k => row(l)' = row(l)
        /\ \A a \in captures : a.id # k
        /\ worker'[e] = w3 /\ \A d \in Executions : d # e => worker'[d] = worker[d]
        /\ w3.pc \in {"returned", "prepare", "retry", "cooldown"}
    BY FinalFacts
  <1>3. /\ f.state = o.state /\ o.state \in Successful \cup Failed
        /\ \A l : captured(l) => captured(l)'
        /\ \A l : l # k => (captured(l)' <=> captured(l))
        /\ o.state \in Successful => Len(w3.records) > 0 /\ w3.records[Len(w3.records)] = observation(k)'
        /\ (o.then = "return" /\ o.gap = "none") <=> o.state \in Successful
    BY FinalRow
  <1>4. /\ pipeline' = pipeline /\ holder' = holder /\ holder = e
        /\ w = worker[e] /\ w.pc = "finish" /\ o = w.outcome /\ GoesBack(w, w3, k[2])
    BY DEF FinalStep
  <1>5. Monitor' = Monitor /\ w.pc \in Active
    BY <1>4 DEF Monitor, Active, Open
  <1>6. Monitor => prior = {} /\ w.mode = "conditional"
    BY <1>1, <1>4, <1>5 DEF OnePrior, PriorFits
  <1>7. Monitor => \A l \in prior' : l = k
    BY <1>2, <1>6 DEF prior
  <1>8. o.state \in Successful => k \in prior'
    BY <1>2, <1>3 DEF prior
  <1>9. o.state \notin Successful => k \notin prior'
    BY <1>2, <1>3 DEF prior
  <1>10. ASSUME Monitor, NEW d \in Executions, d # e PROVE PriorFits(worker[d], holder = d)'
    <2>1. PICK v : v = worker[d]
      OBVIOUS
    <2>2. PriorFits(v, FALSE) /\ Known(v)
      BY <1>1, <1>4, <1>10, <2>1 DEF OnePrior, IndInv, WorkerFits
    <2>3. usable(v)' <=> usable(v)
      BY <1>2, <1>3, <2>2, UsableAsBefore
    <2>4. PriorFits(v, FALSE)'
      BY <1>6, <1>10, <2>2, <2>3 DEF PriorFits
    <2>5. worker'[d] = v /\ (holder' = d) = FALSE
      BY <1>2, <1>4, <1>10, <2>1
    <2> QED
      BY <2>4, <2>5
  <1>11. ASSUME Monitor PROVE PriorFits(w3, TRUE)'
    <2>1. CASE w3.pc = "returned"
      <3>1. usable(w3)' => w3.gaps = {}
        BY DEF usable
      <3>2. w3.gaps = {} => o.state \in Successful
        BY <1>2, <1>3, <1>4, <2>1 DEF GoesBack
      <3> QED
        BY <1>3, <1>8, <2>1, <3>1, <3>2 DEF PriorFits, Active, Between, Open, Unsent, Prepared, Answered
    <2>2. CASE w3.pc # "returned"
      <3>1. w3.mode = w.mode /\ o.then # "return"
        BY <1>2, <1>4, <2>2 DEF GoesBack
      <3>2. prior' = {}
        BY <1>3, <1>7, <1>9, <1>11, <3>1
      <3> QED
        BY <1>2, <1>6, <1>11, <2>2, <3>1, <3>2 DEF PriorFits
    <2> QED
      BY <2>1, <2>2
  <1>12. OnePrior'
    <2> SUFFICES ASSUME Monitor PROVE OnePrior'
      BY <1>5 DEF OnePrior
    <2>1. PriorFits(worker[e], holder = e)'
      <3>1. worker'[e] = w3 /\ (holder' = e) = TRUE
        BY <1>2, <1>4
      <3> QED
        BY <1>11, <3>1
    <2>2. \A d \in Executions : PriorFits(worker[d], holder = d)'
      BY <1>10, <2>1
    <2> QED
      BY <1>7, <2>2 DEF OnePrior
  <1>13. NoneLeft'
    <2> SUFFICES ASSUME Monitor, NEW d \in Executions, NEW l \in on_record', l[1] < d,
                        row(l)'.state \in Unfinished
                 PROVE  /\ rows'[d] = <<>> /\ worker'[d].pc \notin {"choose", "fetch"} \cup Active
                        /\ worker'[d].pc = "recover" => l \in worker'[d].abandoned
      BY <1>5 DEF NoneLeft, at
    <2>1. l # k
      BY <1>2, <1>3 DEF Successful, Failed, Unfinished
    <2>2. /\ rows[d] = <<>> /\ worker[d].pc \notin {"choose", "fetch"} \cup Active
          /\ worker[d].pc = "recover" => l \in worker[d].abandoned
      BY <1>1, <1>2, <2>1 DEF NoneLeft, at
    <2>3. d # e
      BY <1>4, <1>5, <2>2
    <2> QED
      BY <1>2, <2>2, <2>3
  <1> QED
    BY <1>12, <1>13

LEMMA FinalWorker ==
  ASSUME IndInv, NEW e \in Executions, NEW w \in Worker, NEW r \in Row, NEW k \in Attempts,
         NEW o \in Outcome, NEW f, NEW w3, NEW c, FinalStep(e, w, r, k, o, f, w3, c)
  PROVE  WorkerFits(e)'
  <1>1. Typed /\ WorkerFits(e)
    BY DEF IndInv
  <1>2. PICK rs \in Seq(Row) : rs = rows[e] /\ Len(rs) \in Nat /\ Len(rs) > 0
    BY <1>1, FinalFacts DEF Typed
  <1>3. PICK rs2 \in Seq(Row) : /\ rs2 = rows'[e] /\ Len(rs2) = Len(rs) /\ newest(rs2) = f /\ rs2 # <<>>
                                /\ \A i \in 1..(Len(rs) - 1) : rs2[i] = rs[i]
    BY <1>2, FinalFacts
  <1>4. /\ worker'[e] = w3 /\ current(e)' = k /\ k[2] = Len(rs)
        /\ w3.pc \in {"returned", "prepare", "retry", "cooldown"}
    BY <1>2, FinalFacts
  <1>5. /\ pipeline' = pipeline /\ UNCHANGED <<holder, archive, sent, cooled>>
        /\ w = worker[e] /\ w.pc = "finish" /\ o = w.outcome /\ k = current(e) /\ r = newest(rs)
        /\ w3 \in Worker /\ w3.outcomes = Append(w.outcomes, o.state) /\ GoesBack(w, w3, Len(rs))
    BY <1>2, <1>4 DEF FinalStep
  <1>6. w.pc \in Open /\ MaxSequence' = MaxSequence
    BY <1>5 DEF Open, MaxSequence
  <1>7. /\ RowsGoOn(e) /\ Counted(w, Len(rs)) /\ Reported(w, rs) /\ KnownRefs(w)
        /\ Concluded(w, r, k)
    BY <1>1, <1>2, <1>5, <1>6, HandFacts DEF WorkerFits
  <1>8. PICK outs \in Seq(Successful \cup Failed) : outs = w.outcomes /\ Len(outs) = Len(rs) - 1
    BY <1>6, <1>7 DEF Worker, Counted
  <1>9. /\ f.state = o.state /\ o.state \in Successful \cup Failed
        /\ f.status = r.status /\ f.retry_after = r.retry_after
        /\ \A l : captured(l) => captured(l)'
        /\ o.state \in Successful => captured(observation(k))'
        /\ o.state \in Successful => Len(w3.records) > 0 /\ w3.records[Len(w3.records)] = observation(k)'
        /\ \A i \in 1..Len(w3.records) : \E a \in captures' : a.id = w3.records[i]
        /\ (o.then = "return" /\ o.gap = "none") <=> o.state \in Successful
    BY FinalRow
  <1>10. /\ Len(w3.outcomes) = Len(rs) /\ w3.outcomes[Len(rs)] = o.state
         /\ \A i \in 1..(Len(rs) - 1) : w3.outcomes[i] = outs[i]
    BY <1>2, <1>5, <1>8, <1>9
  <1>11. RowsGoOn(e)'
    BY <1>2, <1>3, <1>5, <1>7 DEF RowsGoOn
  <1>12. Counted(w3, Len(rs2))'
    <2>1. w3.pc = "prepare" => Len(rs) < MaxSequence
      BY <1>5 DEF GoesBack
    <2> QED
      BY <1>2, <1>3, <1>4, <1>6, <1>10, <2>1 DEF Counted, Early, Open, Unsent, Prepared, Answered, Between
  <1>13. Reported(w3, rs2)
    <2>1. SUFFICES ASSUME NEW i \in 1..Len(rs) PROVE w3.outcomes[i] = rs2[i].state
      BY <1>10 DEF Reported
    <2>2. CASE i = Len(rs)
      BY <1>2, <1>3, <1>9, <1>10, <2>2 DEF newest
    <2>3. CASE i # Len(rs)
      <3>1. i \in 1..(Len(rs) - 1) /\ i \in 1..Len(outs)
        BY <1>2, <1>8, <2>3
      <3> QED
        BY <1>3, <1>7, <1>8, <1>10, <3>1 DEF Reported
    <2> QED
      BY <2>2, <2>3
  <1>14. Known(w3)'
    <2>1. {w3.cached, w3.replay, w3.validator} \subseteq {w.cached, w.replay, w.validator, None}
      BY <1>5 DEF GoesBack
    <2>2. KnownRefs(w3)'
      BY <1>7, <1>9, <2>1 DEF KnownRefs
    <2> QED
      BY <1>9, <2>2 DEF Known
  <1>15. /\ RowInHand(w3, f, holder' = e) /\ HeadersInHand(w3, f)' /\ Concluded(w3, f, k)'
    BY <1>4 DEF RowInHand, HeadersInHand, Concluded, Open, Unsent, Prepared, Answered
  <1>16. RowBehind(w3, f, k \in cooled')
    <2>1. CASE w3.pc = "returned"
      BY <2>1 DEF RowBehind
    <2>2. CASE w3.pc # "returned"
      <3>1. /\ w3.response = w.response
            /\ \/ w3.pc = "prepare" /\ o.then = "next"
               \/ w3.pc \in {"retry", "cooldown"} /\ o.then = w3.pc
        BY <1>5, <2>2 DEF GoesBack
      <3>2. /\ o.then = "next" => o.state \in {"redirected", "transport_error"}
            /\ o.then = "retry" => o.state = "transport_error"
            /\ o.then = "cooldown" => /\ o.state = "http_error" /\ r.status = w.response.status
                                      /\ r.retry_after = w.response.retry_after
        BY <1>5, <1>7 DEF Concluded
      <3> QED
        BY <1>9, <3>1, <3>2 DEF RowBehind, GoesOn
    <2> QED
      BY <2>1, <2>2
  <1>17. Returned(w3, rs2)'
    <2> SUFFICES ASSUME w3.pc = "returned" PROVE Returned(w3, rs2)'
      BY DEF Returned
    <2>1. w3.gaps = {} <=> o.state \in Successful
      BY <1>5, <1>9 DEF GoesBack
    <2>2. o.state \in Successful => usable(w3)'
      <3> SUFFICES ASSUME o.state \in Successful PROVE usable(w3)'
        OBVIOUS
      <3>1. Len(w3.records) \in 1..Len(w3.records)
        BY <1>5, <1>9 DEF Worker
      <3>2. captured(w3.records[Len(w3.records)])'
        BY <1>9
      <3> QED
        BY <2>1, <3>1, <3>2 DEF usable
    <2>3. usable(w3)' => w3.gaps = {}
      BY DEF usable
    <2>4. (Len(w3.outcomes) + 1)..Len(rs2) = {}
      BY <1>2, <1>3, <1>10
    <2> QED
      BY <1>3, <1>9, <2>1, <2>2, <2>3, <2>4 DEF Returned
  <1>18. NotYetSent(e)' /\ Archived(e)'
    BY <1>4 DEF NotYetSent, Archived, at, Unsent, Prepared
  <1> QED
    BY <1>3, <1>4, <1>11, <1>12, <1>13, <1>14, <1>15, <1>16, <1>17, <1>18 DEF WorkerFits

LEMMA FinalizeOK ==
  ASSUME IndInv, pipeline' = pipeline, NEW e \in Executions, ingestion_finalize(e)
  PROVE  IndInv'
  <1>1. PICK w \in Worker, r \in Row, k \in Attempts, o \in Outcome :
            \E f, w3, c : FinalStep(e, w, r, k, o, f, w3, c)
    BY FinalizeSteps
  <1>2. PICK f, w3, c : FinalStep(e, w, r, k, o, f, w3, c)
    BY <1>1
  <1>3. Typed' /\ ClaimsInOrder' /\ CapturesWhole' /\ Observed' /\ SentIsOnRecord' /\ CaptureHasBytes'
    BY <1>2, FinalTables
  <1>4. OnePrior' /\ NoneLeft' /\ WorkerFits(e)'
    BY <1>2, FinalMonitor, FinalWorker
  <1>5. ASSUME NEW d \in Executions \ {e} PROVE WorkerFits(d)'
    <2>1. rows'[d] = rows[d] /\ rows[d] \in Seq(Row) /\ worker'[d] = worker[d]
      BY <1>2, FinalFacts DEF IndInv, Typed
    <2>2. RowsStay(rows[d], rows'[d], holder' = d)
      BY <2>1 DEF RowsStay, RowStays
    <2>3. captures \subseteq captures'
      BY <1>2, FinalRow
    <2>4. Beside(d)
      BY <1>2, <1>3, <2>1, <2>2, <2>3 DEF Beside, FileStays, FinalStep
    <2> QED
      BY <2>4, OthersFit DEF IndInv
  <1> QED
    BY <1>3, <1>4, <1>5 DEF IndInv

-----------------------------------------------------------------------------
(***************************************************************************)
(* The lease, files that are damaged, and recovery.                        *)
(***************************************************************************)
\* No worker moves and no row changes.
Aside ==
    /\ UNCHANGED <<pipeline, rows, captures, worker, sent, cooled>>
    /\ holder' \in {holder, 0}
    /\ archive' \in [Keys -> Files] /\ \A k \in Keys : FileStays(archive[k], archive'[k])

LEMMA AsideOK ==
  ASSUME IndInv, Aside
  PROVE  IndInv'
  <1>1. /\ Typed /\ ClaimsInOrder /\ CapturesWhole /\ Observed /\ SentIsOnRecord /\ CaptureHasBytes
        /\ OnePrior /\ NoneLeft
    BY DEF IndInv
  <1>2. /\ UNCHANGED <<pipeline, rows, captures, worker, sent, cooled>>
        /\ holder' \in {holder, 0}
        /\ archive' \in [Keys -> Files] /\ \A k \in Keys : FileStays(archive[k], archive'[k])
    BY DEF Aside
  <1>3. \A d \in Executions : holder' = d => holder = d
    BY <1>2, Constants
  <1>4. Typed' /\ ClaimsInOrder' /\ CapturesWhole'
    <2>1. Typed'
      BY <1>1, <1>2 DEF Typed, MaxSequence, Files
    <2>2. ClaimsInOrder'
      BY <1>1, <1>2, <1>3 DEF ClaimsInOrder, at
    <2>3. CapturesWhole'
      BY <1>1, <1>2 DEF CapturesWhole, on_record, row
    <2> QED
      BY <2>1, <2>2, <2>3
  <1>5. on_record' = on_record /\ \A k \in on_record : row(k)' = row(k) /\ observation(k)' = observation(k)
    BY <1>2 DEF on_record, row, observation
  <1>6. \A k : captured(k)' = captured(k)
    BY <1>2 DEF captured
  <1>7. Observed' /\ SentIsOnRecord'
    BY <1>1, <1>2, <1>5, <1>6 DEF Observed, SentIsOnRecord
  <1>8. CaptureHasBytes'
    <2> SUFFICES ASSUME NEW c \in captures PROVE archive'[c.id] \in {"durable", "damaged"}
      BY <1>2 DEF CaptureHasBytes
    <2>1. c.id \in Keys /\ archive[c.id] \in {"durable", "damaged"}
      BY <1>1 DEF Typed, Capture, CaptureHasBytes
    <2> QED
      BY <1>2, <2>1 DEF FileStays
  <1>9. prior' = prior /\ Monitor' = Monitor
    BY <1>2, <1>5 DEF prior, Monitor
  <1>10. OnePrior'
    <2> SUFFICES ASSUME Monitor, NEW d \in Executions PROVE PriorFits(worker[d], holder = d)'
      BY <1>1, <1>9 DEF OnePrior
    <2>1. PICK w : w = worker[d]
      OBVIOUS
    <2>2. PICK h, h2 : h = (holder = d) /\ h2 = (holder' = d) /\ (h2 => h)
      BY <1>3
    <2>3. PriorFits(w, h)
      BY <1>1, <2>1, <2>2 DEF OnePrior
    <2>4. \A k \in prior : observation(k)' = observation(k)
      BY <1>5 DEF prior
    <2>5. usable(w)' = usable(w)
      BY <1>6 DEF usable
    <2>6. PriorFits(w, h2)'
      BY <1>9, <2>2, <2>3, <2>4, <2>5 DEF PriorFits
    <2> QED
      BY <1>2, <2>1, <2>2, <2>6
  <1>11. NoneLeft'
    BY <1>1, <1>2, <1>5, <1>9 DEF NoneLeft, at
  <1>12. ASSUME NEW d \in Executions PROVE WorkerFits(d)'
    <2>1. rows'[d] = rows[d] /\ rows[d] \in Seq(Row)
      BY <1>1, <1>2 DEF Typed
    <2>2. RowsStay(rows[d], rows'[d], holder' = d)
      BY <2>1 DEF RowsStay, RowStays
    <2>3. \A n \in 1..MaxRows : FileStays(archive[<<d, n>>], archive'[<<d, n>>])
      BY <1>2, KeyFacts
    <2>4. Beside(d)
      BY <1>2, <1>3, <1>4, <2>2, <2>3 DEF Beside
    <2> QED
      BY <1>1, <2>4, OthersFit DEF IndInv
  <1> QED
    BY <1>4, <1>7, <1>8, <1>10, <1>11, <1>12 DEF IndInv

LEMMA LoseLeaseOK ==
  ASSUME IndInv, pipeline' = pipeline, LoseLease
  PROVE  IndInv'
  <1>1. archive \in [Keys -> Files]
    BY DEF IndInv, Typed, Files
  <1>2. Aside
    BY <1>1 DEF LoseLease, Aside, FileStays
  <1> QED
    BY <1>2, AsideOK

LEMMA DamageOK ==
  ASSUME IndInv, pipeline' = pipeline, NEW k, Damage(k)
  PROVE  IndInv'
  <1>1. archive \in [Keys -> Files] /\ "damaged" \in Files
    BY DEF IndInv, Typed, Files
  <1>2. archive[k] = "durable" /\ archive' = [archive EXCEPT ![k] = "damaged"]
    BY DEF Damage
  <1>3. archive' \in [Keys -> Files] /\ \A l \in Keys : FileStays(archive[l], archive'[l])
    BY <1>1, <1>2 DEF FileStays
  <1>4. Aside
    BY <1>3 DEF Damage, Aside
  <1> QED
    BY <1>4, AsideOK

LEMMA ClaimOK ==
  ASSUME IndInv, pipeline' = pipeline, NEW e \in Executions, Claim(e)
  PROVE  IndInv'
  <1>1. /\ Typed /\ ClaimsInOrder /\ CapturesWhole /\ Observed /\ SentIsOnRecord /\ CaptureHasBytes
        /\ OnePrior /\ NoneLeft
    BY DEF IndInv
  <1>2. PICK w \in Worker : w = worker[e] /\ KnownRefs(w)
    BY EarlyFacts
  <1>3. PICK w2 : w2 = [w EXCEPT !.pc = "claimed"]
    OBVIOUS
  <1>4. /\ holder = 0 /\ w.pc = "unclaimed" /\ \A d \in 1..(e - 1) : ~at(d, "unclaimed")
        /\ holder' = e /\ worker' = [worker EXCEPT ![e] = w2]
        /\ UNCHANGED <<rows, captures, archive, sent, cooled>>
    BY <1>2, <1>3 DEF Claim, at
  <1>5. /\ w2 \in Worker /\ w2.pc = "claimed" /\ w2.outcomes = w.outcomes /\ w2.records = w.records
        /\ w2.cached = w.cached /\ w2.replay = w.replay /\ w2.validator = w.validator
    BY <1>2, <1>3 DEF Worker, Pcs
  <1>6. worker'[e] = w2 /\ \A d \in Executions : d # e => worker'[d] = worker[d]
    BY <1>1, <1>4 DEF Typed
  <1>7. Typed'
    <2>1. worker' \in [Executions -> Worker]
      BY <1>1, <1>4, <1>5 DEF Typed
    <2> QED
      BY <1>1, <1>4, <2>1 DEF Typed, MaxSequence
  <1>8. ClaimsInOrder'
    <2>1. /\ ~at(e, "unclaimed")' /\ at(e, "unclaimed")
          /\ \A d \in Executions : d # e => (at(d, "unclaimed")' <=> at(d, "unclaimed"))
      BY <1>2, <1>4, <1>5, <1>6 DEF at
    <2>2. \A d \in Executions : d < e => ~at(d, "unclaimed")
      BY <1>4, Constants
    <2>3. ASSUME NEW c \in Executions, NEW d \in Executions, c < d, ~at(d, "unclaimed")'
          PROVE  holder' # c /\ ~at(c, "unclaimed")'
      <3>1. CASE d = e
        <4>1. c # e
          BY <2>3, <3>1, Constants
        <4> QED
          BY <1>4, <2>1, <2>2, <2>3, <3>1, <4>1
      <3>2. CASE d # e
        <4>1. ~at(c, "unclaimed")
          BY <1>1, <2>1, <2>3, <3>2 DEF ClaimsInOrder
        <4> QED
          BY <1>4, <2>1, <4>1
      <3> QED
        BY <3>1, <3>2
    <2>4. \A d \in Executions : holder' = d => ~at(d, "unclaimed")'
      BY <1>4, <2>1
    <2> QED
      BY <2>3, <2>4 DEF ClaimsInOrder
  <1>9. on_record' = on_record /\ \A k \in on_record : row(k)' = row(k) /\ observation(k)' = observation(k)
    BY <1>4 DEF on_record, row, observation
  <1>10. \A k : captured(k)' = captured(k)
    BY <1>4 DEF captured
  <1>11. CapturesWhole' /\ Observed' /\ SentIsOnRecord' /\ CaptureHasBytes'
    BY <1>1, <1>4, <1>9, <1>10 DEF CapturesWhole, Observed, SentIsOnRecord, CaptureHasBytes
  <1>12. prior' = prior /\ Monitor' = Monitor
    BY <1>9 DEF prior, Monitor
  <1>13. OnePrior'
    <2> SUFFICES ASSUME Monitor, NEW d \in Executions PROVE PriorFits(worker[d], holder = d)'
      BY <1>1, <1>12 DEF OnePrior
    <2>1. CASE d = e
      <3>1. PriorFits(w2, TRUE)'
        BY <1>5 DEF PriorFits, Active, Between, Open, Unsent, Prepared, Answered
      <3>2. worker'[d] = w2 /\ (holder' = d) = TRUE
        BY <1>4, <1>6, <2>1
      <3> QED
        BY <3>1, <3>2
    <2>2. CASE d # e
      <3>1. PICK v : v = worker[d]
        OBVIOUS
      <3>2. PriorFits(v, FALSE)
        BY <1>1, <1>4, <3>1, Constants DEF OnePrior
      <3>3. \A k \in prior : observation(k)' = observation(k)
        BY <1>9 DEF prior
      <3>4. usable(v)' = usable(v)
        BY <1>10 DEF usable
      <3>5. PriorFits(v, FALSE)'
        BY <1>12, <3>2, <3>3, <3>4 DEF PriorFits
      <3>6. worker'[d] = v /\ (holder' = d) = FALSE
        BY <1>4, <1>6, <2>2, <3>1
      <3> QED
        BY <3>5, <3>6
    <2> QED
      BY <2>1, <2>2
  <1>14. NoneLeft'
    <2> SUFFICES ASSUME Monitor, NEW d \in Executions, NEW k \in on_record, k[1] < d, row(k).state \in Unfinished
                 PROVE  /\ rows'[d] = <<>> /\ worker'[d].pc \notin {"choose", "fetch"} \cup Active
                        /\ worker'[d].pc = "recover" => k \in worker'[d].abandoned
      BY <1>9, <1>12 DEF NoneLeft, at
    <2>1. /\ rows'[d] = <<>> /\ worker[d].pc \notin {"choose", "fetch"} \cup Active
          /\ worker[d].pc = "recover" => k \in worker[d].abandoned
      BY <1>1, <1>4 DEF NoneLeft, at
    <2>2. w2.pc \notin {"choose", "fetch"} \cup Active /\ w2.pc # "recover"
      BY <1>5 DEF Active, Between, Open, Unsent, Prepared, Answered
    <2> QED
      BY <1>6, <2>1, <2>2
  <1>15. WorkerFits(e)'
    <2>1. KnownRefs(w2)
      BY <1>2, <1>5 DEF KnownRefs
    <2>2. worker[e].pc \in Early /\ w2.pc \in Early \cup {"prepare"}
      BY <1>2, <1>4, <1>5 DEF Early
    <2> QED
      BY <1>2, <1>4, <1>5, <1>6, <2>1, <2>2, BareWorkerFits
  <1>16. ASSUME NEW d \in Executions \ {e} PROVE WorkerFits(d)'
    <2>1. rows'[d] = rows[d] /\ rows[d] \in Seq(Row) /\ worker'[d] = worker[d]
      BY <1>1, <1>4, <1>6 DEF Typed
    <2>2. RowsStay(rows[d], rows'[d], holder' = d)
      BY <2>1 DEF RowsStay, RowStays
    <2>3. Beside(d)
      BY <1>4, <1>11, <2>1, <2>2 DEF Beside, FileStays
    <2> QED
      BY <1>1, <2>3, OthersFit DEF IndInv
  <1> QED
    BY <1>7, <1>8, <1>11, <1>13, <1>14, <1>15, <1>16 DEF IndInv

\* The rows after a recovery of k: one may be ended, none changes otherwise.
LEMMA RecoveredRows ==
  ASSUME Typed, NEW e \in Executions, NEW k \in Attempts, ingestion_recover(e, k)
  PROVE  /\ \A d \in Executions : RowsStay(rows[d], rows'[d], holder = d)
         /\ rows' \in [Executions -> Seq(Row)] /\ on_record' = on_record
         /\ \A l \in on_record : RowStays(row(l), row(l)', holder = l[1]) /\ row(l) \in Row
         /\ k \in on_record => row(k)'.state \notin Unfinished
  <1>1. k[1] \in Executions /\ k[2] \in 1..MaxRows /\ holder # k[1]
    BY KeyFacts DEF ingestion_recover, locked_stage
  <1>2. PICK rs \in Seq(Row) : rs = rows[k[1]]
    BY <1>1 DEF Typed
  <1>3. PICK rs2 \in Seq(Row) :
           /\ rows' = [rows EXCEPT ![k[1]] = rs2] /\ Len(rs2) = Len(rs)
           /\ \A i \in 1..Len(rs) : rs2[i] = rs[i] \/ (i = k[2] /\ rs[i].state \in Unfinished /\ rs2[i] = recovered(rs[i]))
           /\ k[2] \in 1..Len(rs) => rs2[k[2]].state \notin Unfinished
    <2>1. CASE rs[k[2]].state \in Unfinished /\ k[2] \in 1..Len(rs)
      <3>1. PICK r \in Row : r = rs[k[2]]
        BY <2>1
      <3>2. PICK r2 : r2 = recovered(r)
        OBVIOUS
      <3>3. r2 \in Row /\ r2.state = "interrupted_unknown"
        <4>1. RowStays(r, r2, FALSE)
          BY <2>1, <3>1, <3>2 DEF RowStays
        <4>2. r2.state = "interrupted_unknown"
          BY <3>2 DEF recovered, Row
        <4> QED
          BY <4>1, <4>2, RowFacts
      <3>4. PICK n \in 1..Len(rs) : n = k[2]
        BY <2>1
      <3>5. [rs EXCEPT ![n] = r2] \in Seq(Row)
        BY <3>3, <3>4
      <3>6. PICK rs2 \in Seq(Row) : rs2 = [rs EXCEPT ![n] = r2]
        BY <3>5
      <3>7. Len(rs2) = Len(rs) /\ rs2[n] = r2 /\ \A i \in 1..Len(rs) : i # n => rs2[i] = rs[i]
        BY <3>4, <3>6
      <3>8. rows' = [rows EXCEPT ![k[1]] = rs2]
        <4>1. rows' = [rows EXCEPT ![k[1]][k[2]] = recovered(@)]
          BY <1>2, <2>1 DEF ingestion_recover, row
        <4>2. rows' = [rows EXCEPT ![k[1]] = [rs EXCEPT ![n] = r2]]
          BY <1>2, <3>1, <3>2, <3>4, <4>1
        <4> QED
          BY <3>6, <4>2
      <3> QED
        BY <2>1, <3>1, <3>2, <3>3, <3>4, <3>7, <3>8 DEF Unfinished
    <2>2. CASE k[2] \notin 1..Len(rs)
      <3>1. rows' = [rows EXCEPT ![k[1]] = rs]
        <4>1. CASE row(k).state \in Unfinished
          <5>1. rows' = [rows EXCEPT ![k[1]] = [rs EXCEPT ![k[2]] = recovered(rs[k[2]])]]
            BY <1>2, <4>1 DEF ingestion_recover
          <5>2. [rs EXCEPT ![k[2]] = recovered(rs[k[2]])] = rs
            BY <2>2
          <5> QED
            BY <5>1, <5>2
        <4>2. CASE row(k).state \notin Unfinished
          BY <1>2, <4>2 DEF ingestion_recover, Typed
        <4> QED
          BY <4>1, <4>2
      <3> QED
        BY <2>2, <3>1
    <2>3. CASE rs[k[2]].state \notin Unfinished
      <3>1. rows' = [rows EXCEPT ![k[1]] = rs]
        BY <1>2, <2>3 DEF ingestion_recover, row, Typed
      <3> QED
        BY <2>3, <3>1
    <2> QED
      BY <2>1, <2>2, <2>3
  <1>4. /\ rows' \in [Executions -> Seq(Row)] /\ rows'[k[1]] = rs2
        /\ \A d \in Executions : d # k[1] => rows'[d] = rows[d]
    BY <1>1, <1>3 DEF Typed
  <1>5. ASSUME NEW d \in Executions PROVE RowsStay(rows[d], rows'[d], holder = d)
    <2>1. CASE d = k[1]
      BY <1>1, <1>2, <1>3, <1>4, <2>1 DEF RowsStay, RowStays
    <2>2. CASE d # k[1]
      BY <1>4, <2>2 DEF RowsStay, RowStays, Typed
    <2> QED
      BY <2>1, <2>2
  <1>6. on_record' = on_record
    <2>1. \A d \in Executions : Len(rows'[d]) = Len(rows[d])
      BY <1>5 DEF RowsStay
    <2> QED
      BY <2>1, KeyFacts DEF on_record
  <1>7. ASSUME NEW l \in on_record PROVE RowStays(row(l), row(l)', holder = l[1]) /\ row(l) \in Row
    <2>1. l[1] \in Executions /\ l[2] \in 1..Len(rows[l[1]]) /\ rows[l[1]] \in Seq(Row)
      BY KeyFacts DEF on_record, Typed
    <2> QED
      BY <1>5, <2>1 DEF RowsStay, row
  <1>8. k \in on_record => row(k)'.state \notin Unfinished
    BY <1>1, <1>2, <1>3, <1>4 DEF on_record, row
  <1> QED
    BY <1>4, <1>5, <1>6, <1>7, <1>8

LEMMA RecoverOK ==
  ASSUME IndInv, pipeline' = pipeline, NEW e \in Executions, NEW k \in Attempts, ingestion_recover(e, k)
  PROVE  IndInv'
  <1>1. /\ Typed /\ ClaimsInOrder /\ CapturesWhole /\ Observed /\ SentIsOnRecord /\ CaptureHasBytes
        /\ OnePrior /\ NoneLeft /\ WorkerFits(e)
    BY DEF IndInv
  <1>2. /\ \A d \in Executions : RowsStay(rows[d], rows'[d], holder = d)
        /\ rows' \in [Executions -> Seq(Row)] /\ on_record' = on_record
        /\ \A l \in on_record : RowStays(row(l), row(l)', holder = l[1]) /\ row(l) \in Row
        /\ k \in on_record => row(k)'.state \notin Unfinished
    BY <1>1, RecoveredRows
  <1>3. PICK w \in Worker : w = worker[e] /\ KnownRefs(w)
    BY EarlyFacts
  <1>4. PICK w2 : w2 = [w EXCEPT !.abandoned = w.abandoned \ {k}]
    OBVIOUS
  <1>5. /\ w.pc = "recover" /\ worker' = [worker EXCEPT ![e] = w2]
        /\ UNCHANGED <<holder, captures, archive, sent, cooled>>
    BY <1>3, <1>4 DEF ingestion_recover, at
  <1>6. /\ w2 \in Worker /\ w2.pc = "recover" /\ w2.outcomes = w.outcomes /\ w2.records = w.records
        /\ w2.cached = w.cached /\ w2.replay = w.replay /\ w2.validator = w.validator
        /\ w2.abandoned = w.abandoned \ {k}
    BY <1>3, <1>4, <1>5 DEF Worker
  <1>7. worker'[e] = w2 /\ \A d \in Executions : d # e => worker'[d] = worker[d]
    BY <1>1, <1>5 DEF Typed
  <1>8. Typed'
    <2>1. worker' \in [Executions -> Worker]
      BY <1>1, <1>5, <1>6 DEF Typed
    <2>2. \A d \in Executions : Len(rows'[d]) <= MaxSequence'
      BY <1>1, <1>2 DEF Typed, MaxSequence, RowsStay
    <2> QED
      BY <1>1, <1>2, <1>5, <2>1, <2>2 DEF Typed
  <1>9. ClaimsInOrder'
    <2>1. \A d \in Executions : at(d, "unclaimed")' <=> at(d, "unclaimed")
      BY <1>3, <1>5, <1>6, <1>7 DEF at
    <2> QED
      BY <1>1, <1>5, <2>1 DEF ClaimsInOrder
  <1>10. ASSUME NEW l \in on_record
         PROVE  /\ row(l)'.completed = row(l).completed /\ row(l)'.reused = row(l).reused
                /\ row(l)'.requested = row(l).requested
                /\ row(l)'.state = row(l).state \/ (row(l).state \in Unfinished /\ row(l)'.state = "interrupted_unknown")
    BY <1>2, RowFacts
  <1>11. \A l \in on_record : observation(l)' = observation(l)
    BY <1>10 DEF observation
  <1>12. \A l : captured(l)' = captured(l)
    BY <1>5 DEF captured
  <1>13. prior' = prior /\ Monitor' = Monitor
    BY <1>2, <1>10 DEF prior, Monitor, Successful, Unfinished
  <1>14. CapturesWhole' /\ CaptureHasBytes'
    BY <1>1, <1>2, <1>5, <1>10 DEF CapturesWhole, CaptureHasBytes
  <1>15. Observed'
    BY <1>1, <1>2, <1>10, <1>11, <1>12 DEF Observed, Successful
  <1>16. SentIsOnRecord'
    BY <1>1, <1>2, <1>5, <1>10 DEF SentIsOnRecord
  <1>17. OnePrior'
    <2> SUFFICES ASSUME Monitor, NEW d \in Executions PROVE PriorFits(worker[d], holder = d)'
      BY <1>1, <1>13 DEF OnePrior
    <2>1. PICK h : h = (holder = d)
      OBVIOUS
    <2>2. CASE d = e
      <3>1. PriorFits(w2, h)'
        BY <1>6 DEF PriorFits, Active, Between, Open, Unsent, Prepared, Answered
      <3> QED
        BY <1>5, <1>7, <2>1, <2>2, <3>1
    <2>3. CASE d # e
      <3>1. PICK v : v = worker[d]
        OBVIOUS
      <3>2. PriorFits(v, h)
        BY <1>1, <2>1, <3>1 DEF OnePrior
      <3>3. \A l \in prior : observation(l)' = observation(l)
        BY <1>11 DEF prior
      <3>4. usable(v)' = usable(v)
        BY <1>12 DEF usable
      <3>5. PriorFits(v, h)'
        BY <1>13, <3>2, <3>3, <3>4 DEF PriorFits
      <3> QED
        BY <1>5, <1>7, <2>1, <2>3, <3>1, <3>5
    <2> QED
      BY <2>2, <2>3
  <1>18. NoneLeft'
    <2> SUFFICES ASSUME Monitor, NEW d \in Executions, NEW l \in on_record', l[1] < d,
                        row(l)'.state \in Unfinished
                 PROVE  /\ rows'[d] = <<>> /\ worker'[d].pc \notin {"choose", "fetch"} \cup Active
                        /\ worker'[d].pc = "recover" => l \in worker'[d].abandoned
      BY <1>13 DEF NoneLeft, at
    <2>1. l \in on_record /\ row(l).state \in Unfinished /\ l # k
      BY <1>2, <1>10 DEF Unfinished
    <2>2. /\ rows[d] = <<>> /\ worker[d].pc \notin {"choose", "fetch"} \cup Active
          /\ worker[d].pc = "recover" => l \in worker[d].abandoned
      BY <1>1, <2>1 DEF NoneLeft, at
    <2>3. rows'[d] = <<>>
      BY <1>2, <2>2 DEF RowsStay
    <2> QED
      BY <1>3, <1>5, <1>6, <1>7, <2>1, <2>2, <2>3
  <1>19. WorkerFits(e)'
    <2>1. KnownRefs(w2)
      BY <1>3, <1>6 DEF KnownRefs
    <2>2. worker[e].pc \in Early /\ w2.pc \in Early \cup {"prepare"}
      BY <1>3, <1>5, <1>6 DEF Early
    <2>3. rows[e] = <<>>
      BY <1>1, <2>2 DEF WorkerFits, Counted, Typed
    <2>4. rows'[e] = rows[e]
      BY <1>2, <2>3 DEF RowsStay
    <2> QED
      BY <1>3, <1>5, <1>6, <1>7, <2>1, <2>2, <2>4, BareWorkerFits
  <1>20. ASSUME NEW d \in Executions \ {e} PROVE WorkerFits(d)'
    <2>1. RowsStay(rows[d], rows'[d], holder' = d) /\ worker'[d] = worker[d]
      BY <1>2, <1>5, <1>7
    <2>2. Beside(d)
      BY <1>5, <1>14, <2>1 DEF Beside, FileStays
    <2> QED
      BY <1>1, <2>2, OthersFit DEF IndInv
  <1> QED
    BY <1>8, <1>9, <1>14, <1>15, <1>16, <1>17, <1>18, <1>19, <1>20 DEF IndInv

-----------------------------------------------------------------------------
(***************************************************************************)
(* The theorems.                                                           *)
(***************************************************************************)
LEMMA InitOK ==
  ASSUME Init
  PROVE  IndInv
  <1>1. PICK w \in Worker : /\ w = idle_worker /\ w.pc = "unclaimed" /\ w.cached = None /\ w.replay = None
                            /\ w.validator = None /\ w.outcomes = <<>> /\ w.records = <<>> /\ w.gaps = {}
    BY IdleWorker
  <1>2. /\ pipeline \in DOMAIN Pipelines /\ holder = 0 /\ sent = {} /\ cooled = {}
        /\ rows \in [Executions -> Seq(Row)] /\ \A e \in Executions : rows[e] = <<>> /\ Len(rows[e]) = 0
        /\ worker \in [Executions -> Worker] /\ \A e \in Executions : worker[e] = w
        /\ archive \in [Keys -> {"none", "temporary", "linked", "durable", "damaged"}]
        /\ archive[Base] = "durable"
    <2>1. <<>> \in Seq(Row)
      OBVIOUS
    <2>2. PICK rs \in Seq(Row) : rs = <<>>
      BY <2>1
    <2>3. rows \in [Executions -> Seq(Row)] /\ \A e \in Executions : rows[e] = <<>> /\ Len(rows[e]) = 0
      BY <2>2 DEF Init
    <2>4. worker \in [Executions -> Worker] /\ \A e \in Executions : worker[e] = w
      BY <1>1 DEF Init
    <2> QED
      BY <2>3, <2>4, KeyFacts DEF Init
  <1>3. captures \subseteq Capture /\ (\A c, d \in captures : c = d) /\ \A c \in captures : c.id = Base
    <2>1. \A t \in BOOLEAN : [id |-> Base, status |-> 200, body |-> "old", tagged |-> t] \in Capture
      BY KeyFacts DEF Capture, Bodies
    <2> QED
      BY <2>1 DEF Init
  <1>4. \A e \in Executions : Len(rows[e]) <= MaxSequence
    BY <1>2, Constants DEF MaxSequence
  <1>5. on_record = {} /\ prior = {}
    <2>1. on_record = {}
      BY <1>2, KeyFacts DEF on_record
    <2> QED
      BY <2>1 DEF prior
  <1>6. Typed
    BY <1>2, <1>3, <1>4 DEF Typed
  <1>7. ClaimsInOrder
    BY <1>1, <1>2, Constants DEF ClaimsInOrder, at
  <1>8. CapturesWhole /\ Observed /\ SentIsOnRecord /\ CaptureHasBytes
    BY <1>2, <1>3, <1>5 DEF CapturesWhole, Observed, SentIsOnRecord, CaptureHasBytes
  <1>9. ASSUME NEW e \in Executions PROVE WorkerFits(e)
    <2>1. w.pc \notin Open /\ w.pc \notin Between /\ w.pc \notin Unsent
      BY <1>1 DEF Open, Between, Unsent, Prepared, Answered
    <2>2. worker[e] = w /\ rows[e] = <<>> /\ Len(rows[e]) = 0
      BY <1>2
    <2>3. Counted(w, 0)
      BY <1>1, <2>1 DEF Counted, Between
    <2>4. Reported(w, rows[e]) /\ Known(w) /\ RowsGoOn(e)
      BY <1>1, <2>2 DEF Reported, Known, KnownRefs, RowsGoOn
    <2>5. Returned(w, rows[e]) /\ NotYetSent(e) /\ Archived(e)
      BY <1>1, <2>1, <2>2 DEF Returned, NotYetSent, Archived, at
    <2> QED
      BY <2>2, <2>3, <2>4, <2>5 DEF WorkerFits
  <1>10. OnePrior
    <2>1. \A h \in BOOLEAN : PriorFits(w, h)
      BY <1>1, <1>5 DEF PriorFits, Active, Between, Open, Unsent, Prepared, Answered
    <2> QED
      BY <1>2, <1>5, <2>1 DEF OnePrior
  <1>11. NoneLeft
    BY <1>5 DEF NoneLeft
  <1> QED
    BY <1>6, <1>7, <1>8, <1>9, <1>10, <1>11 DEF IndInv

LEMMA NextOK ==
  ASSUME IndInv, [Next]_vars
  PROVE  IndInv'
  <1>1. CASE UNCHANGED vars
    <2>1. archive \in [Keys -> Files]
      BY DEF IndInv, Typed, Files
    <2>2. Aside
      BY <1>1, <2>1 DEF vars, Aside, FileStays
    <2> QED
      BY <2>2, AsideOK
  <1>2. CASE Next
    <2>1. pipeline' = pipeline
      BY <1>2 DEF Next
    <2>2. ASSUME NEW e \in Executions, Prepare(e) PROVE IndInv'
      BY <2>1, <2>2, SelectOK, AllRecoveredOK, ChooseMonitorOK, ChooseOtherOK, RecoverOK DEF Prepare
    <2>3. ASSUME NEW e \in Executions, Dispatch(e) PROVE IndInv'
      BY <2>1, <2>3, ReplayOK, FetchOK, PrepareOK, AcquireOK, DispatchOK, RaisesOK, ConfirmOK, SendOK
         DEF Dispatch
    <2>4. ASSUME NEW e \in Executions, Receive(e) PROVE IndInv'
      BY <2>1, <2>4, HeadersOK, NotModifiedOK, WriteOK, LinkOK, SyncOK, PayloadOK, UnreadableOK,
         UnchangedOK, ConcludeOK, FinalizeOK, CooldownOK, RetryOK DEF Receive
    <2>5. ASSUME NEW e \in Executions, LeaseLost(e) \/ lease_refused(e) \/ Claim(e) \/ Crash(e)
          PROVE  IndInv'
      BY <2>1, <2>5, LeaseLostOK, RaisesOK, ClaimOK, CrashOK
    <2>6. ASSUME LoseLease \/ \E k \in Pipelines[pipeline].damageable : Damage(k)
          PROVE  IndInv'
      BY <2>1, <2>6, LoseLeaseOK, DamageOK
    <2> QED
      BY <1>2, <2>2, <2>3, <2>4, <2>5, <2>6 DEF Next
  <1> QED
    BY <1>1, <1>2

\* The inductive invariant holds: worker, row, file and lease agree at every
\* place of the fetch (transport.py, pipeline.py).
THEOREM Invariance == Spec => []IndInv
  BY InitOK, NextOK, PTL DEF Spec

\* A result that is true of the rows, as ResultIsTrue has it.
TrueOf(w, rs) ==
    LET n == Len(w.outcomes)
    IN  /\ n <= Len(rs) /\ \A i \in 1..n : w.outcomes[i] = rs[i].state
        /\ \A i \in (n + 1)..Len(rs) :
              /\ "lease_lost" \in w.gaps
              /\ rs[i].state \in Unfinished \cup {"interrupted_unknown"}
        /\ \A i \in 1..Len(w.records) : \E c \in captures : c.id = w.records[i]
        /\ usable(w) <=> w.gaps = {}
        /\ rs # <<>> => (usable(w) <=> rs[Len(rs)].state \in Successful)

\* What a fetch reports is backed by what was stored: bytes behind every
\* capture and a result that is true of the recorded attempts (transport.py,
\* archive.py).
THEOREM EvidenceIsBacked == Spec => []EvidenceBacked
  <1>1. IndInv => EvidenceBacked
    <2> SUFFICES ASSUME IndInv PROVE EvidenceBacked
      OBVIOUS
    <2>1. Typed /\ CaptureHasBytes
      BY DEF IndInv
    <2>2. TypeOK
      <3>1. \A e \in Executions : /\ worker[e].pc \in Pcs /\ worker[e].cached \in Keys \cup {None}
                                  /\ worker[e].validator \in Keys \cup {None} /\ worker[e].records \in Seq(Keys)
        BY <2>1 DEF Typed, Worker, Refs
      <3>2. \A c \in captures : c.id \in Keys
        BY <2>1 DEF Typed, Capture
      <3> QED
        BY <2>1, <3>1, <3>2 DEF Typed, TypeOK
    <2>3. ASSUME NEW e \in Executions, at(e, "returned")
          PROVE  TrueOf(worker[e], rows[e])
      <3>1. PICK w \in Worker : w = worker[e]
        BY <2>1 DEF Typed
      <3>2. PICK rs \in Seq(Row) : rs = rows[e]
        BY <2>1 DEF Typed
      <3>3. Counted(w, Len(rs)) /\ Reported(w, rs) /\ Known(w) /\ Returned(w, rs) /\ w.pc = "returned"
        BY <2>3, <3>1, <3>2 DEF IndInv, WorkerFits, at
      <3>4. TrueOf(w, rs)
        BY <3>3 DEF Counted, Reported, Known, Returned, newest, TrueOf
      <3> QED
        BY <3>1, <3>2, <3>4
    <2>4. ResultIsTrue
      BY <2>3 DEF ResultIsTrue, TrueOf
    <2> QED
      BY <2>1, <2>2, <2>4 DEF EvidenceBacked
  <1> QED
    BY <1>1, Invariance, PTL

\* Nothing that was sent is missing from the record, observed twice or left
\* open, whichever executions were lost on the way (ingestion_recover, prior).
THEOREM AttemptsKept == Spec => []AttemptsOnRecord
  <1>1. IndInv => AttemptsOnRecord
    <2> SUFFICES ASSUME IndInv PROVE AttemptsOnRecord
      OBVIOUS
    <2>1. SentIsOnRecord /\ OnePrior /\ NoneLeft
      BY DEF IndInv
    <2>2. Monitor => Cardinality(prior) <= 1
      <3>1. CASE prior = {}
        BY <3>1, FS_EmptySet
      <3>2. CASE Monitor /\ prior # {}
        <4>1. PICK k : k \in prior
          BY <3>2
        <4>2. prior = {k}
          BY <2>1, <3>2, <4>1 DEF OnePrior
        <4> QED
          BY <4>2, FS_Singleton
      <3> QED
        BY <3>1, <3>2
    <2>3. OneObservation
      BY <2>1, <2>2 DEF OneObservation, OnePrior, PriorFits, at
    <2>4. NoneAbandoned
      BY <2>1 DEF NoneAbandoned, NoneLeft
    <2> QED
      BY <2>1, <2>3, <2>4 DEF AttemptsOnRecord
  <1> QED
    BY <1>1, Invariance, PTL

\* The worker's own decisions agree with what the database and the server
\* ask: no call is refused by a trigger, and a wait asked for is recorded
\* (transport.py).
THEOREM DecisionsRight == Spec => []DecisionsAgree
  <1>1. IndInv => DecisionsAgree
    <2> SUFFICES ASSUME IndInv PROVE DecisionsAgree
      OBVIOUS
    <2>1. Typed
      BY DEF IndInv
    <2>2. ASSUME NEW e \in Executions, holder = e, at(e, "prepare")
          PROVE  /\ Len(rows[e]) < MaxSequence
                 /\ \A n \in 1..Len(rows[e]) : rows[e][n].state \notin Unfinished
      <3>1. PICK rs \in Seq(Row) : rs = rows[e]
        BY <2>1 DEF Typed
      <3>2. /\ RowsGoOn(e) /\ Len(rs) < MaxSequence
            /\ rs # <<>> => GoesOn(newest(rs), current(e) \in cooled)
        BY <2>2, <3>1 DEF IndInv, WorkerFits, Counted, RowBehind, at
      <3>3. ASSUME NEW n \in 1..Len(rs) PROVE rs[n].state \notin Unfinished
        <4>1. CASE n = Len(rs)
          BY <3>2, <3>3, <4>1 DEF newest, GoesOn, Unfinished
        <4>2. CASE n # Len(rs)
          <5>1. GoesOn(rs[n], <<e, n>> \in cooled)
            BY <3>1, <3>2, <3>3, <4>2 DEF RowsGoOn
          <5> QED
            BY <5>1 DEF GoesOn, Unfinished
        <4> QED
          BY <4>1, <4>2
      <3> QED
        BY <3>1, <3>2, <3>3
    <2>3. ASSUME NEW e \in Executions, holder = e, worker[e].pc \in {"dispatch", "headers", "payload", "finish"}
          PROVE  /\ locked_attempt(e)
                 /\ at(e, "dispatch") => row(current(e)).state = "prepared"
                 /\ at(e, "headers") => row(current(e)).state = "in_progress" /\ row(current(e)).status = 0
                 /\ at(e, "finish") => accepted(e)
      <3>1. worker[e].pc \in Open
        BY <2>3 DEF Open, Unsent, Prepared, Answered
      <3>2. PICK w \in Worker : w = worker[e]
        BY <3>1, HandFacts
      <3>3. PICK r \in Row : r = row(current(e))
        BY <3>1, HandFacts
      <3>4. PICK k : k = current(e)
        OBVIOUS
      <3>5. RowInHand(w, r, TRUE) /\ Concluded(w, r, k)
        BY <2>3, <3>1, <3>2, <3>3, <3>4, HandFacts
      <3>6. /\ r.state \in Unfinished
            /\ w.pc = "dispatch" => r.state = "prepared"
            /\ w.pc = "headers" => r.state = "in_progress" /\ r.status = 0
        BY <3>1, <3>2, <3>5 DEF RowInHand, Unsent, Prepared, Unfinished
      <3>7. locked_attempt(e)
        BY <2>3, <3>3, <3>6 DEF locked_attempt, locked_stage
      <3>8. ASSUME w.pc = "finish" PROVE accepted(e)
        <4>1. PICK o : o = w.outcome
          OBVIOUS
        <4>2. /\ r.state = "prepared" => o.state \in {"transport_error", "archive_error", "cancelled"}
              /\ o.capture => r.status # 0
              /\ o.state = "content_unchanged" => Monitor
              /\ row_shape(finished(r, k, o))
              /\ payload_guard(finished(r, k, o), ReferredTo(o, w.response.body, captures))
          BY <3>5, <3>8, <4>1 DEF Concluded
        <4>3. o.state = "content_unchanged" => r.state = "in_progress"
          BY <3>6, <4>2 DEF Unfinished
        <4>4. referred_bodies(e, o) = ReferredTo(o, w.response.body, captures)
          BY <3>2 DEF referred_bodies, ReferredTo
        <4> QED
          BY <3>2, <3>3, <3>4, <4>1, <4>2, <4>3, <4>4 DEF accepted
      <3> QED
        BY <3>2, <3>3, <3>6, <3>7, <3>8 DEF at
    <2>4. NothingRefused
      BY <2>2, <2>3 DEF NothingRefused, locked_stage, at
    <2>5. WaitsWhenAsked
      <3> SUFFICES ASSUME NEW k \in on_record, k[2] < Len(rows[k[1]])
                   PROVE  GoesOn(row(k), k \in cooled)
        BY DEF WaitsWhenAsked, GoesOn
      <3>1. k[1] \in Executions /\ k[2] \in 1..MaxRows /\ k = <<k[1], k[2]>>
        BY KeyFacts DEF on_record
      <3>2. RowsGoOn(k[1]) /\ rows[k[1]] \in Seq(Row)
        BY <2>1, <3>1 DEF IndInv, WorkerFits, Typed
      <3>3. k[2] \in 1..(Len(rows[k[1]]) - 1)
        BY <3>1, <3>2
      <3> QED
        BY <3>1, <3>2, <3>3 DEF RowsGoOn, row
    <2> QED
      BY <2>4, <2>5 DEF DecisionsAgree
  <1> QED
    BY <1>1, Invariance, PTL

\* Rows that have ended stay what they are.
EndedRowsStay == \A k \in on_record : row(k).state \notin Unfinished => rows'[k[1]][k[2]] = row(k)

LEMMA WrittenInHand ==
  ASSUME Typed, NEW e \in Executions, locked_attempt(e), NEW r2,
         rows' = [rows EXCEPT ![e] = [rows[e] EXCEPT ![Len(rows[e])] = r2]]
  PROVE  EndedRowsStay
  <1> SUFFICES ASSUME NEW k \in on_record, row(k).state \notin Unfinished PROVE rows'[k[1]][k[2]] = row(k)
    BY DEF EndedRowsStay
  <1>1. k[1] \in Executions /\ k[2] \in 1..Len(rows[k[1]]) /\ k = <<k[1], k[2]>> /\ rows[k[1]] \in Seq(Row)
    BY KeyFacts DEF on_record, Typed
  <1>2. k # current(e)
    BY DEF locked_attempt
  <1>3. CASE k[1] # e
    BY <1>1, <1>3 DEF row, Typed
  <1>4. CASE k[1] = e
    <2>1. k[2] # Len(rows[e])
      BY <1>1, <1>2, <1>4 DEF current
    <2> QED
      BY <1>1, <1>4, <2>1 DEF row, Typed
  <1> QED
    BY <1>3, <1>4

\* An attempt that ended keeps its row for ever, whoever comes back to it
\* (ingestion_locked_attempt, ingestion_recover).
THEOREM FinalOutcomes == Spec => OutcomeIsFinal
  <1>1. IndInv /\ [Next]_vars => [EndedRowsStay]_vars
    <2> SUFFICES ASSUME IndInv, Next PROVE EndedRowsStay
      BY DEF vars
    <2>1. Typed
      BY DEF IndInv
    <2>2. CASE rows' = rows
      BY <2>2 DEF EndedRowsStay, row
    <2>3. ASSUME NEW e \in Executions, NEW k \in Attempts, ingestion_recover(e, k) PROVE EndedRowsStay
      <3> SUFFICES ASSUME NEW l \in on_record, row(l).state \notin Unfinished PROVE row(l)' = row(l)
        BY DEF EndedRowsStay, row
      <3> QED
        BY <2>1, <2>3, RecoveredRows DEF RowStays
    <2>4. ASSUME NEW e \in Executions, ingestion_prepare(e) PROVE EndedRowsStay
      <3>1. PICK r : rows' = [rows EXCEPT ![e] = Append(rows[e], r)]
        BY <2>4 DEF ingestion_prepare
      <3> SUFFICES ASSUME NEW k \in on_record PROVE rows'[k[1]][k[2]] = row(k)
        BY DEF EndedRowsStay
      <3>2. k[1] \in Executions /\ k[2] \in 1..Len(rows[k[1]]) /\ rows[k[1]] \in Seq(Row)
        BY <2>1, KeyFacts DEF on_record, Typed
      <3> QED
        BY <2>1, <3>1, <3>2 DEF row, Typed
    <2>5. ASSUME NEW e \in Executions, ingestion_dispatch(e) \/ ingestion_headers(e) \/ ingestion_monitor_payload(e)
                                       \/ ingestion_finalize(e)
          PROVE  EndedRowsStay
      <3>1. locked_attempt(e)
        BY <2>5 DEF ingestion_dispatch, ingestion_headers, ingestion_monitor_payload, ingestion_finalize
      <3>2. \E r2 : rows' = [rows EXCEPT ![e] = [rows[e] EXCEPT ![Len(rows[e])] = r2]]
        <4>1. current(e)[2] = Len(rows[e])
          BY DEF current
        <4> QED
          BY <2>5, <4>1 DEF ingestion_dispatch, ingestion_headers, ingestion_monitor_payload, ingestion_finalize
      <3> QED
        BY <2>1, <3>1, <3>2, WrittenInHand
    <2>6. ASSUME NEW e \in Executions, Prepare(e) PROVE EndedRowsStay
      BY <2>2, <2>3, <2>6 DEF Prepare, select_abandoned, all_recovered, choose_monitor, choose_other, move
    <2>7. ASSUME NEW e \in Executions, Dispatch(e) PROVE EndedRowsStay
      BY <2>2, <2>4, <2>5, <2>7 DEF Dispatch, fetch_replay, fetch, acquire, guard, dispatch_blocked, confirm,
         send, move
    <2>8. ASSUME NEW e \in Executions, Receive(e) PROVE EndedRowsStay
      BY <2>2, <2>5, <2>8 DEF Receive, not_modified, write, link, sync, payload_unreadable, content_unchanged,
         conclude, cooldown, retry, move
    <2>9. ASSUME NEW e \in Executions, LeaseLost(e) \/ lease_refused(e) \/ Claim(e) \/ Crash(e)
          PROVE  EndedRowsStay
      BY <2>2, <2>9 DEF LeaseLost, lease_refused, Claim, Crash, move
    <2>10. ASSUME LoseLease \/ \E k \in Pipelines[pipeline].damageable : Damage(k) PROVE EndedRowsStay
      BY <2>2, <2>10 DEF LoseLease, Damage
    <2> QED
      BY <2>6, <2>7, <2>8, <2>9, <2>10 DEF Next
  <1>2. Spec => [][EndedRowsStay]_vars
    BY <1>1, Invariance, PTL DEF Spec
  <1> QED
    BY <1>2 DEF OutcomeIsFinal, EndedRowsStay
=============================================================================
