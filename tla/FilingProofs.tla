---------------------------- MODULE FilingProofs ----------------------------
(***************************************************************************)
(* Proofs about how an issuer's filings are followed: when the polls are   *)
(* made (FilingScheduler), for any instants, cadence, window, limits,      *)
(* settings, slots, operators and revisions; and what a poll and the       *)
(* chain of polls report (FilingMonitor), for any filings and times.       *)
(*                                                                         *)
(* The scheduler's cursor (last_slot), the unresolved slot and the         *)
(* baseline carry the whole history: at most one check is under way, it is *)
(* the one at the cursor, all before it are resolved or in a missed range, *)
(* and failures and back-off are those of the slots after the baseline.    *)
(*                                                                         *)
(* A tick makes up to two changes in one step, so what it keeps is stated  *)
(* of any state row st, slots rows, requests reqs and missed ranges gone:  *)
(* the invariant is that of the variables, and each change keeps it.       *)
(*                                                                         *)
(* A poll's chain of results carries what was reported: each eligible poll *)
(* selects all that the one before it did, and what it reports.            *)
(***************************************************************************)
EXTENDS FilingScheduler, FilingMonitor, FiniteSetTheorems, TLAPS

Made(rows, k) == rows[k].created_at # NoTime
Done(rows, k) == rows[k].resolved_at # NoTime
covering(gone, k) == {m \in gone : m[1] <= k /\ k <= m[2]}
above(st, rows) == {i \in SlotIndexes : i > st.baseline_slot /\ Done(rows, i)}
between(rows, b, j) == {i \in SlotIndexes : b < i /\ i < j /\ Made(rows, i)}

Types(st, rows, reqs, gone) ==
    /\ st \in State /\ rows \in [SlotIndexes -> Slot] /\ reqs \in [SlotIndexes -> Request]
    /\ gone \subseteq SlotIndexes \X SlotIndexes

\* Only the check at the cursor may be under way.
Cursor(st, rows, gone) ==
    /\ st.unresolved_slot \in {NoSlot, st.last_slot}
    /\ st.last_slot # NoSlot => Made(rows, st.last_slot)
    /\ \A m \in gone : m[2] <= st.last_slot

Accounted(st, rows, reqs, gone) ==
    \A k \in SlotIndexes :
        /\ Made(rows, k) => k <= st.last_slot
        /\ k <= st.last_slot => Cardinality(covering(gone, k)) = IF Made(rows, k) THEN 0 ELSE 1
        /\ Made(rows, k) /\ ~Done(rows, k) <=> st.unresolved_slot = k
        /\ Made(rows, k) <=> reqs[k].phase # "absent"
        /\ Done(rows, k) => reqs[k].phase \in Terminal

RequestRows(reqs) ==
    \A k \in SlotIndexes :
        /\ reqs[k].phase = "absent" => reqs[k] = no_request
        /\ reqs[k].phase = "completed" => reqs[k].result = "eligible"

\* Slot k is compared with the last completed check before it.
Compared(rows, reqs, k) ==
    LET b == rows[k].baseline
    IN  /\ b # NoSlot => b < k /\ Done(rows, b) /\ reqs[b].phase = "completed"
        /\ \A j \in (b + 1)..(k - 1) : reqs[j].phase # "completed"

\* The baseline is the last completed check.
Baseline(st, rows, reqs) ==
    /\ st.baseline_slot # NoSlot => Done(rows, st.baseline_slot) /\ reqs[st.baseline_slot].phase = "completed"
    /\ \A k \in SlotIndexes : Made(rows, k) => Compared(rows, reqs, k)
    /\ \A k \in SlotIndexes : Done(rows, k) /\ reqs[k].phase = "completed" => k <= st.baseline_slot
    /\ \A k \in SlotIndexes : k = st.last_slot /\ (reqs[k].phase # "completed" \/ st.unresolved_slot = k) =>
          rows[k].baseline = st.baseline_slot

\* The back-off in force is that of the last check, after all failures since
\* the baseline.
Backoff(st, rows, reqs) ==
    /\ st.failures = Cardinality(above(st, rows))
    /\ \A j \in SlotIndexes : j = st.last_slot /\ Done(rows, j) /\ reqs[j].phase # "completed" =>
          st.retry_at = rows[j].resolved_at + backoff(Cardinality(between(rows, rows[j].baseline, j)))

History(st, rows, reqs, gone) ==
    /\ Types(st, rows, reqs, gone) /\ Cursor(st, rows, gone) /\ Accounted(st, rows, reqs, gone)
    /\ RequestRows(reqs) /\ Baseline(st, rows, reqs) /\ Backoff(st, rows, reqs)

\* Consecutive slots j and k keep the back-off between them.
Waited(rows, reqs) ==
    \A j, k \in SlotIndexes :
        /\ j < k /\ Made(rows, j) /\ Made(rows, k) /\ reqs[j].phase # "completed"
        /\ \A i \in (j + 1)..(k - 1) : ~Made(rows, i)
        => rows[k].created_at >= rows[j].resolved_at + backoff(Cardinality(between(rows, rows[j].baseline, j)))

\* Nothing on record lies ahead of the clock t.
Past(rows, reqs, t) ==
    \A k \in SlotIndexes :
        /\ rows[k].resolved_at <= t
        /\ \A i \in 1..Len(reqs[k].dispatched) :
              /\ reqs[k].dispatched[i] <= t
              /\ Done(rows, k) => reqs[k].dispatched[i] <= rows[k].resolved_at

Revision == [config : Configs, first_slot : 0..(MaxSlot + 1), operation_key : RevisionKeys \cup {CreationKey}]

\* All revisions begin no later than the slot after the cursor.
RevisionsWhole ==
    /\ revisions \in Seq(Revision) /\ set_back \in Nat
    /\ \A e \in 1..epoch : revisions[e].first_slot <= state.last_slot + 1
    /\ ~created => state.last_slot = NoSlot /\ \A o \in Operators : calls[o] = NoTime

\* What only a clock that never went back keeps.
Timely ==
    set_back = 0 => /\ \A o \in Operators : calls[o] <= now
                    /\ Past(slots, requests, now)
                    /\ Waited(slots, requests)

\* The inductive invariant.
IndInv == TypeOK /\ RevisionsWhole /\ History(state, slots, requests, missed) /\ Timely

-----------------------------------------------------------------------------
LEMMA Numbers ==
  /\ MaxSlot \in Nat /\ SlotIndexes = 0..MaxSlot /\ NoSlot = -1 /\ NoTime = -1
  /\ Cadence \in Nat /\ Cadence > 0 /\ Anchor \in Nat /\ Times \subseteq Nat /\ 0 \in Times
  /\ Units \in Nat /\ Units > 0 /\ BudgetWindow \in Nat /\ BackoffCap \in Nat
  BY SchedulerAssumption DEF SlotIndexes, NoSlot, NoTime

LEMMA BackoffType ==
  ASSUME NEW f \in Nat
  PROVE  backoff(f) \in Nat
  <1> DEFINE n == IF f < 4 THEN f ELSE 4
  <1>1. n = 0 \/ n = 1 \/ n = 2 \/ n = 3 \/ n = 4
    OBVIOUS
  <1>2. 2^0 \in Nat /\ 2^1 \in Nat /\ 2^2 \in Nat /\ 2^3 \in Nat /\ 2^4 \in Nat
    OBVIOUS
  <1>3. PICK p : p = 2^n
    OBVIOUS
  <1>4. p \in Nat
    BY <1>1, <1>2, <1>3
  <1>5. Cadence * p \in Nat
    BY <1>4, Numbers
  <1>6. backoff(f) = IF Cadence * p < BackoffCap THEN Cadence * p ELSE BackoffCap
    BY <1>3 DEF backoff
  <1> QED
    BY <1>5, <1>6, Numbers

LEMMA SlotsFinite ==
  ASSUME NEW S, S \subseteq SlotIndexes
  PROVE  IsFiniteSet(S) /\ Cardinality(S) \in Nat
  <1>1. IsFiniteSet(SlotIndexes)
    BY Numbers, FS_Interval
  <1> QED
    BY <1>1, FS_Subset, FS_CardinalityType

\* What the fields of the rows are.
LEMMA RowTypes ==
  ASSUME NEW st, NEW rows, NEW reqs, NEW gone, Types(st, rows, reqs, gone)
  PROVE  /\ st.last_slot \in SlotIndexes \cup {NoSlot} /\ st.unresolved_slot \in SlotIndexes \cup {NoSlot}
         /\ st.baseline_slot \in SlotIndexes \cup {NoSlot} /\ st.failures \in Nat
         /\ st.retry_at \in Nat \cup {NoTime}
         /\ \A k \in SlotIndexes :
               /\ rows[k] \in Slot /\ rows[k].created_at \in Times \cup {NoTime}
               /\ rows[k].baseline \in SlotIndexes \cup {NoSlot} /\ rows[k].resolved_at \in Times \cup {NoTime}
               /\ reqs[k] \in Request /\ reqs[k].dispatched \in Seq(Times)
  <1>1. \A k \in SlotIndexes : rows[k] \in Slot /\ reqs[k] \in Request
    BY DEF Types
  <1>2. \A k \in SlotIndexes :
           /\ rows[k].created_at \in Times \cup {NoTime}
           /\ rows[k].baseline \in SlotIndexes \cup {NoSlot} /\ rows[k].resolved_at \in Times \cup {NoTime}
    BY <1>1 DEF Slot
  <1>3. \A k \in SlotIndexes : reqs[k].dispatched \in Seq(Times)
    BY <1>1 DEF Request
  <1>4. st \in State
    BY DEF Types
  <1> QED
    BY <1>1, <1>2, <1>3, <1>4 DEF State

-----------------------------------------------------------------------------
(* The reconciliation of the check at the cursor.                          *)

Resolves(st, reqs, k, n, next) ==
    /\ next.unresolved_slot = NoSlot /\ next.last_slot = st.last_slot
    /\ \/ /\ reqs[k].phase = "completed" /\ next.baseline_slot = k /\ next.failures = 0
       \/ /\ reqs[k].phase # "completed" /\ next.baseline_slot = st.baseline_slot
          /\ next.failures = st.failures + 1 /\ next.retry_at = n + backoff(st.failures)

ResolvedRow(rows, k, n, after) == after = [rows EXCEPT ![k].resolved_at = n]

LEMMA Reconciles ==
  ASSUME NEW st, NEW rows, NEW reqs, NEW gone, History(st, rows, reqs, gone),
         NEW k \in SlotIndexes, k = st.unresolved_slot, reqs[k].phase \in Terminal,
         NEW n \in Times, NEW next \in State, Resolves(st, reqs, k, n, next),
         NEW after, ResolvedRow(rows, k, n, after)
  PROVE  /\ History(next, after, reqs, gone)
         /\ Waited(rows, reqs) => Waited(after, reqs)
         /\ Past(rows, reqs, n) => Past(after, reqs, n)
  <1>1. next.unresolved_slot = NoSlot /\ next.last_slot = st.last_slot
    BY DEF Resolves
  <1>2. \/ /\ reqs[k].phase = "completed" /\ next.baseline_slot = k /\ next.failures = 0
        \/ /\ reqs[k].phase # "completed" /\ next.baseline_slot = st.baseline_slot
           /\ next.failures = st.failures + 1 /\ next.retry_at = n + backoff(st.failures)
    BY DEF Resolves
  <1> USE <1>1, <1>2
  <1>3. Types(st, rows, reqs, gone)
    BY DEF History
  <1>4. k = st.last_slot /\ k # NoSlot /\ Made(rows, k) /\ ~Done(rows, k) /\ n # NoTime
    BY Numbers DEF History, Cursor, Accounted
  <1>5. /\ after \in [SlotIndexes -> Slot] /\ after[k].resolved_at = n
        /\ \A i \in SlotIndexes : /\ after[i].created_at = rows[i].created_at
                                  /\ after[i].baseline = rows[i].baseline
                                  /\ i # k => after[i].resolved_at = rows[i].resolved_at
    <2>1. PICK row : row = [rows[k] EXCEPT !.resolved_at = n]
      OBVIOUS
    <2>2. row \in Slot /\ row.resolved_at = n /\ row.created_at = rows[k].created_at /\ row.baseline = rows[k].baseline
      BY <1>3, <2>1, RowTypes DEF Slot
    <2>3. after = [rows EXCEPT ![k] = row]
      BY <2>1 DEF ResolvedRow
    <2> QED
      BY <1>3, <2>2, <2>3 DEF Types
  <1>6. \A i \in SlotIndexes : Made(after, i) <=> Made(rows, i)
    BY <1>5 DEF Made
  <1>7. \A i \in SlotIndexes : Done(after, i) <=> (Done(rows, i) \/ i = k)
    BY <1>4, <1>5 DEF Done
  <1>8. Types(next, after, reqs, gone)
    BY <1>3, <1>5 DEF Types
  <1>9. Cursor(next, after, gone)
    <2>1. next.last_slot = k /\ Made(after, k)
      BY <1>4, <1>6
    <2>2. \A m \in gone : m[2] <= next.last_slot
      BY DEF History, Cursor
    <2> QED
      BY <2>1, <2>2 DEF Cursor
  <1>10. Accounted(next, after, reqs, gone)
    <2> SUFFICES ASSUME NEW i \in SlotIndexes
                 PROVE  /\ Made(after, i) => i <= next.last_slot
                        /\ i <= next.last_slot => Cardinality(covering(gone, i)) = IF Made(after, i) THEN 0 ELSE 1
                        /\ Made(after, i) /\ ~Done(after, i) <=> next.unresolved_slot = i
                        /\ Made(after, i) <=> reqs[i].phase # "absent"
                        /\ Done(after, i) => reqs[i].phase \in Terminal
      BY DEF Accounted
    <2>1. /\ Made(rows, i) => i <= st.last_slot
          /\ i <= st.last_slot => Cardinality(covering(gone, i)) = IF Made(rows, i) THEN 0 ELSE 1
          /\ Made(rows, i) /\ ~Done(rows, i) <=> st.unresolved_slot = i
          /\ Made(rows, i) <=> reqs[i].phase # "absent"
          /\ Done(rows, i) => reqs[i].phase \in Terminal
      BY DEF History, Accounted
    <2>2. next.unresolved_slot # i
      BY Numbers
    <2> QED
      BY <1>6, <1>7, <2>1, <2>2
  <1>11. Baseline(next, after, reqs)
    <2>1. next.baseline_slot # NoSlot => Done(after, next.baseline_slot) /\ reqs[next.baseline_slot].phase = "completed"
      <3>1. CASE next.baseline_slot = k
        <4>1. st.baseline_slot # k
          BY <1>4 DEF History, Baseline
        <4> QED
          BY <1>7, <3>1, <4>1
      <3>2. CASE next.baseline_slot # k
        BY <1>3, <1>7, <3>2, RowTypes DEF History, Baseline
      <3> QED
        BY <3>1, <3>2
    <2>2. ASSUME NEW i \in SlotIndexes, Made(after, i) PROVE Compared(after, reqs, i)
      <3>1. Compared(rows, reqs, i) /\ rows[i].baseline \in SlotIndexes \cup {NoSlot} /\ after[i].baseline = rows[i].baseline
        BY <1>3, <1>5, <1>6, <2>2, RowTypes DEF History, Baseline
      <3> QED
        BY <1>7, <3>1 DEF Compared
    <2>3. ASSUME NEW i \in SlotIndexes, Done(after, i), reqs[i].phase = "completed" PROVE i <= next.baseline_slot
      <3>1. i <= k
        <4>1. Made(rows, i)
          BY <1>7, <1>4, <2>3 DEF History, Accounted, Terminal
        <4> QED
          BY <1>4, <4>1 DEF History, Accounted
      <3>2. CASE next.baseline_slot = k
        BY <3>1, <3>2
      <3>3. CASE next.baseline_slot # k
        <4>1. i # k /\ Done(rows, i)
          BY <1>7, <2>3, <3>3
        <4> QED
          BY <2>3, <3>3, <4>1 DEF History, Baseline
      <3> QED
        BY <3>2, <3>3
    <2>4. ASSUME NEW i \in SlotIndexes, i = next.last_slot, reqs[i].phase # "completed" \/ next.unresolved_slot = i
          PROVE  after[i].baseline = next.baseline_slot
      <3>1. i = k /\ reqs[k].phase # "completed"
        BY <1>4, <2>4, Numbers
      <3> QED
        BY <1>4, <1>5, <3>1 DEF History, Baseline
    <2> QED
      BY <2>1, <2>2, <2>3, <2>4 DEF Baseline
  <1>12. Backoff(next, after, reqs)
    <2>1. above(st, rows) = between(rows, rows[k].baseline, k)
      <3>1. rows[k].baseline = st.baseline_slot
        BY <1>4 DEF History, Baseline
      <3>2. \A i \in SlotIndexes : Done(rows, i) <=> Made(rows, i) /\ i # k
        BY <1>4 DEF History, Accounted, Terminal
      <3>3. \A i \in SlotIndexes : Made(rows, i) => i <= k
        BY <1>4 DEF History, Accounted
      <3>4. \A i \in SlotIndexes : i \in Int /\ k \in Int /\ (i <= k /\ i # k <=> i < k)
        BY Numbers
      <3> QED
        BY <3>1, <3>2, <3>3, <3>4 DEF above, between
    <2>2. st.failures = Cardinality(above(st, rows))
      BY DEF History, Backoff
    <2>3. between(after, after[k].baseline, k) = between(rows, rows[k].baseline, k)
      BY <1>5, <1>6 DEF between
    <2>4. CASE reqs[k].phase = "completed"
      <3>1. above(next, after) = {}
        <4> SUFFICES ASSUME NEW i \in SlotIndexes, i > next.baseline_slot, Done(after, i) PROVE FALSE
          BY DEF above
        <4>1. next.baseline_slot = k
          BY <2>4
        <4>2. Made(rows, i)
          BY <1>4, <1>7 DEF History, Accounted, Terminal
        <4>3. i <= k
          BY <1>4, <4>2 DEF History, Accounted
        <4> QED
          BY <4>1, <4>3, Numbers
      <3>2. next.failures = 0 /\ next.last_slot = k
        BY <1>4, <2>4
      <3> QED
        BY <2>4, <3>1, <3>2, FS_EmptySet DEF Backoff
    <2>5. CASE reqs[k].phase # "completed"
      <3>1. next.baseline_slot = st.baseline_slot /\ next.failures = st.failures + 1 /\ next.retry_at = n + backoff(st.failures)
        BY <2>5
      <3>2. st.baseline_slot < k
        <4>1. \/ st.baseline_slot = NoSlot
              \/ /\ Made(rows, st.baseline_slot) /\ st.baseline_slot # k
                 /\ st.baseline_slot \in SlotIndexes
          <5>1. st.baseline_slot \in SlotIndexes \cup {NoSlot}
            BY <1>3, RowTypes
          <5>2. st.baseline_slot # NoSlot => Done(rows, st.baseline_slot) /\ reqs[st.baseline_slot].phase = "completed"
            BY DEF History, Baseline
          <5>3. \A i \in SlotIndexes : reqs[i].phase = "completed" => Made(rows, i)
            BY DEF History, Accounted
          <5> QED
            BY <1>4, <5>1, <5>2, <5>3
        <4>2. st.baseline_slot # NoSlot => st.baseline_slot <= k
          BY <1>4, <4>1 DEF History, Accounted
        <4> QED
          BY <4>1, <4>2, Numbers
      <3>3. above(next, after) = above(st, rows) \cup {k}
        BY <1>7, <3>1, <3>2, Numbers DEF above
      <3>4. k \notin above(st, rows)
        BY <1>4 DEF above
      <3>5. IsFiniteSet(above(st, rows)) /\ Cardinality(above(st, rows)) \in Nat
        BY SlotsFinite DEF above
      <3>6. Cardinality(above(next, after)) = next.failures
        BY ZenonT(40), <2>2, <3>1, <3>3, <3>4, <3>5, FS_AddElement
      <3>7. next.retry_at = after[k].resolved_at + backoff(Cardinality(between(after, after[k].baseline, k)))
        BY <1>5, <2>1, <2>2, <2>3, <3>1
      <3>8. next.last_slot = k
        BY <1>4
      <3> QED
        BY <3>6, <3>7, <3>8 DEF Backoff
    <2> QED
      BY <2>4, <2>5
  <1>13. RequestRows(reqs)
    BY DEF History
  <1>14. ASSUME Waited(rows, reqs) PROVE Waited(after, reqs)
    <2> SUFFICES ASSUME NEW j \in SlotIndexes, NEW i \in SlotIndexes,
                        j < i, Made(after, j), Made(after, i), reqs[j].phase # "completed",
                        \A h \in (j + 1)..(i - 1) : ~Made(after, h)
                 PROVE  after[i].created_at >=
                           after[j].resolved_at + backoff(Cardinality(between(after, after[j].baseline, j)))
      BY DEF Waited
    <2>1. Made(rows, j) /\ Made(rows, i)
      BY <1>6
    <2>2. j # k
      <3>1. i <= k
        BY <1>4, <2>1 DEF History, Accounted
      <3> QED
        BY <3>1, Numbers
    <2>3. \A h \in (j + 1)..(i - 1) : ~Made(rows, h)
      <3>1. (j + 1)..(i - 1) \subseteq SlotIndexes
        BY Numbers
      <3> QED
        BY <1>6, <3>1
    <2>4. rows[i].created_at >= rows[j].resolved_at + backoff(Cardinality(between(rows, rows[j].baseline, j)))
      BY <1>14, <2>1, <2>3 DEF Waited
    <2>5. between(after, after[j].baseline, j) = between(rows, rows[j].baseline, j)
      BY <1>5, <1>6 DEF between
    <2> QED
      BY <1>5, <2>2, <2>4, <2>5
  <1>15. ASSUME Past(rows, reqs, n) PROVE Past(after, reqs, n)
    <2> SUFFICES ASSUME NEW i \in SlotIndexes
                 PROVE  /\ after[i].resolved_at <= n
                        /\ \A h \in 1..Len(reqs[i].dispatched) :
                              /\ reqs[i].dispatched[h] <= n
                              /\ Done(after, i) => reqs[i].dispatched[h] <= after[i].resolved_at
      BY DEF Past
    <2>1. /\ rows[i].resolved_at <= n
          /\ \A h \in 1..Len(reqs[i].dispatched) :
                /\ reqs[i].dispatched[h] <= n
                /\ Done(rows, i) => reqs[i].dispatched[h] <= rows[i].resolved_at
      BY <1>15 DEF Past
    <2>2. CASE i = k
      <3>1. n <= n
        BY Numbers
      <3> QED
        BY <1>5, <2>1, <2>2, <3>1
    <2>3. CASE i # k
      BY <1>5, <1>7, <2>1, <2>3
    <2> QED
      BY <2>2, <2>3
  <1> QED
    BY <1>8, <1>9, <1>10, <1>11, <1>12, <1>13, <1>14, <1>15 DEF History
-----------------------------------------------------------------------------
(* A new slot, and the request it queues.                                  *)

Adds(st, rows, reqs, k, row, req, next, after, asked) ==
    /\ st.unresolved_slot = NoSlot /\ k > st.last_slot
    /\ row.created_at \in Times /\ row.baseline = st.baseline_slot /\ row.resolved_at = NoTime
    /\ req.phase = "queued" /\ req.dispatched = <<>>
    /\ next.last_slot = k /\ next.unresolved_slot = k /\ next.failures = st.failures
    /\ next.baseline_slot = st.baseline_slot /\ next.retry_at = st.retry_at
    /\ after[k] = row /\ \A i \in SlotIndexes \ {k} : after[i] = rows[i]
    /\ asked[k] = req /\ \A i \in SlotIndexes \ {k} : asked[i] = reqs[i]

LEMMA Materializes ==
  ASSUME NEW st, NEW rows, NEW reqs, NEW gone, History(st, rows, reqs, gone),
         NEW k \in SlotIndexes, NEW row \in Slot, NEW req \in Request,
         NEW next \in State, NEW after \in [SlotIndexes -> Slot], NEW asked \in [SlotIndexes -> Request],
         Adds(st, rows, reqs, k, row, req, next, after, asked)
  PROVE  /\ History(next, after, asked, gone \cup missed_range(st.last_slot, k))
         /\ Waited(rows, reqs) /\ st.retry_at <= row.created_at => Waited(after, asked)
         /\ \A n \in Times : Past(rows, reqs, n) => Past(after, asked, n)
  <1>1. /\ st.unresolved_slot = NoSlot /\ k > st.last_slot
        /\ row.created_at \in Times /\ row.baseline = st.baseline_slot /\ row.resolved_at = NoTime
        /\ req.phase = "queued" /\ req.dispatched = <<>>
        /\ next.last_slot = k /\ next.unresolved_slot = k /\ next.failures = st.failures
        /\ next.baseline_slot = st.baseline_slot /\ next.retry_at = st.retry_at
        /\ after[k] = row /\ \A i \in SlotIndexes \ {k} : after[i] = rows[i]
        /\ asked[k] = req /\ \A i \in SlotIndexes \ {k} : asked[i] = reqs[i]
    BY DEF Adds
  <1> USE <1>1
  <1> DEFINE lost == gone \cup missed_range(st.last_slot, k)
  <1>2. Types(st, rows, reqs, gone)
    BY DEF History
  <1>3. /\ k \in Int /\ st.last_slot \in Int /\ st.last_slot >= -1 /\ k >= 0 /\ k <= MaxSlot
        /\ \A i \in SlotIndexes : i \in Int /\ 0 <= i /\ i <= MaxSlot
    BY <1>2, RowTypes, Numbers
  <1>4. /\ ~Made(rows, k) /\ ~Done(rows, k) /\ reqs[k].phase = "absent"
        /\ \A i \in SlotIndexes : i > st.last_slot => ~Made(rows, i) /\ ~Done(rows, i) /\ reqs[i].phase = "absent"
    <2>1. \A i \in SlotIndexes : i > st.last_slot => ~Made(rows, i)
      BY <1>3 DEF History, Accounted
    <2> QED
      BY <2>1 DEF History, Accounted, Terminal
  <1>5. /\ next.last_slot = k /\ next.unresolved_slot = k /\ next.baseline_slot = st.baseline_slot
        /\ next.failures = st.failures /\ next.retry_at = st.retry_at /\ next \in State
    OBVIOUS
  <1>6. /\ after \in [SlotIndexes -> Slot] /\ after[k] = row
        /\ \A i \in SlotIndexes : i # k => after[i] = rows[i]
    BY <1>1
  <1>7. /\ asked \in [SlotIndexes -> Request] /\ asked[k] = req
        /\ \A i \in SlotIndexes : i # k => asked[i] = reqs[i]
    BY <1>1
  <1>8. \A i \in SlotIndexes : Made(after, i) <=> (Made(rows, i) \/ i = k)
    BY <1>6, Numbers DEF Made
  <1>9. \A i \in SlotIndexes : Done(after, i) <=> Done(rows, i)
    BY <1>4, <1>6 DEF Done
  <1>10. lost \subseteq SlotIndexes \X SlotIndexes /\ \A m \in lost : m[2] <= k
    <2>1. missed_range(st.last_slot, k) \subseteq SlotIndexes \X SlotIndexes
      BY <1>3, Numbers DEF missed_range
    <2>2. \A m \in missed_range(st.last_slot, k) : m[2] <= k
      BY <1>3 DEF missed_range
    <2>3. \A m \in gone : m[2] \in Int /\ m[2] <= st.last_slot
      <3>1. \A m \in gone : m[2] \in SlotIndexes
        BY <1>2 DEF Types
      <3> QED
        BY <3>1, <1>3 DEF History, Cursor
    <2>4. \A m \in gone : m[2] <= k
      BY <2>3, <1>3
    <2> QED
      BY <1>2, <2>1, <2>2, <2>4 DEF Types
  <1>11. Types(next, after, asked, lost)
    BY <1>5, <1>6, <1>7, <1>10 DEF Types
  <1>12. Cursor(next, after, lost)
    BY <1>5, <1>8, <1>10 DEF Cursor
  <1>13. ASSUME NEW i \in SlotIndexes, i <= k
         PROVE  Cardinality(covering(lost, i)) = IF Made(after, i) THEN 0 ELSE 1
    <2>1. covering(lost, i) = covering(gone, i) \cup covering(missed_range(st.last_slot, k), i)
      BY DEF covering
    <2>2. CASE i <= st.last_slot
      <3>1. covering(missed_range(st.last_slot, k), i) = {}
        <4>1. ~(st.last_slot + 1 <= i)
          BY <1>3, <2>2
        <4>2. \A m \in missed_range(st.last_slot, k) : m[1] = st.last_slot + 1
          BY DEF missed_range
        <4> QED
          BY <4>1, <4>2 DEF covering
      <3>2. Made(after, i) <=> Made(rows, i)
        BY <1>3, <1>8, <2>2
      <3>3. Cardinality(covering(gone, i)) = IF Made(rows, i) THEN 0 ELSE 1
        BY <2>2 DEF History, Accounted
      <3> QED
        BY <2>1, <3>1, <3>2, <3>3
    <2>3. CASE ~(i <= st.last_slot)
      <3>1. covering(gone, i) = {}
        <4>1. \A m \in gone : m[2] \in SlotIndexes /\ m[2] <= st.last_slot
          BY <1>2 DEF Types, History, Cursor
        <4>2. ASSUME NEW h \in SlotIndexes, h <= st.last_slot PROVE ~(i <= h)
          BY <1>3, <2>3, <4>2
        <4>3. \A m \in gone : ~(i <= m[2])
          BY <4>1, <4>2
        <4> QED
          BY <4>3 DEF covering
      <3>2. CASE i = k
        <4>1. covering(missed_range(st.last_slot, k), i) = {}
          BY <1>3, <3>2 DEF covering, missed_range
        <4> QED
          BY <1>8, <2>1, <3>1, <3>2, <4>1, FS_EmptySet
      <3>3. CASE i # k
        <4>1. missed_range(st.last_slot, k) = {<<st.last_slot + 1, k - 1>>}
          BY <1>3, <1>13, <2>3, <3>3 DEF missed_range
        <4>2. st.last_slot + 1 <= i /\ i <= k - 1
          BY <1>3, <1>13, <2>3, <3>3
        <4>3. covering(missed_range(st.last_slot, k), i) = {<<st.last_slot + 1, k - 1>>}
          BY <4>1, <4>2 DEF covering
        <4>4. ~Made(after, i)
          BY <1>3, <1>4, <1>8, <2>3, <3>3
        <4>5. covering(lost, i) = {<<st.last_slot + 1, k - 1>>}
          BY <2>1, <3>1, <4>3
        <4> QED
          BY <4>4, <4>5, FS_Singleton
      <3> QED
        BY <3>2, <3>3
    <2> QED
      BY <2>2, <2>3
  <1>14. Accounted(next, after, asked, lost)
    <2> SUFFICES ASSUME NEW i \in SlotIndexes
                 PROVE  /\ Made(after, i) => i <= k
                        /\ i <= k => Cardinality(covering(lost, i)) = IF Made(after, i) THEN 0 ELSE 1
                        /\ Made(after, i) /\ ~Done(after, i) <=> k = i
                        /\ Made(after, i) <=> asked[i].phase # "absent"
                        /\ Done(after, i) => asked[i].phase \in Terminal
      BY <1>5 DEF Accounted
    <2>1. /\ Made(rows, i) => i <= st.last_slot
          /\ Made(rows, i) /\ ~Done(rows, i) <=> st.unresolved_slot = i
          /\ Made(rows, i) <=> reqs[i].phase # "absent"
          /\ Done(rows, i) => reqs[i].phase \in Terminal
      BY DEF History, Accounted
    <2>2. CASE i = k
      <3>1. asked[i].phase = "queued" /\ Made(after, i) /\ ~Done(after, i)
        BY <1>4, <1>7, <1>8, <1>9, <2>2
      <3>2. i <= k
        BY <1>3, <2>2
      <3> QED
        BY <1>13, <2>2, <3>1, <3>2
    <2>3. CASE i # k
      <3>1. st.unresolved_slot # i
        BY Numbers
      <3>2. Made(rows, i) => i <= k
        BY <1>3, <2>1
      <3> QED
        BY <1>7, <1>8, <1>9, <1>13, <2>1, <2>3, <3>1, <3>2
    <2> QED
      BY <2>2, <2>3
  <1>15. RequestRows(asked)
    BY <1>7 DEF History, RequestRows
  <1>16. st.baseline_slot # NoSlot => /\ st.baseline_slot \in SlotIndexes /\ Done(rows, st.baseline_slot)
                                      /\ reqs[st.baseline_slot].phase = "completed" /\ st.baseline_slot < k
    <2>1. st.baseline_slot # NoSlot => /\ st.baseline_slot \in SlotIndexes /\ Done(rows, st.baseline_slot)
                                       /\ reqs[st.baseline_slot].phase = "completed"
      BY <1>2, RowTypes DEF History, Baseline
    <2>2. st.baseline_slot # NoSlot => st.baseline_slot \in SlotIndexes /\ ~(st.baseline_slot > st.last_slot)
      BY <1>4, <2>1
    <2>3. ASSUME NEW b \in SlotIndexes, ~(b > st.last_slot) PROVE b < k
      BY <1>3, <2>3
    <2> QED
      BY <2>1, <2>2, <2>3
  <1>17. ASSUME NEW i \in SlotIndexes, Made(after, i) PROVE Compared(after, asked, i)
    <2>1. CASE i = k
      <3>1. after[i].baseline = st.baseline_slot
        BY <1>6, <2>1
      <3>2. st.baseline_slot # NoSlot => asked[st.baseline_slot].phase = "completed" /\ Done(after, st.baseline_slot)
        BY <1>3, <1>7, <1>9, <1>16
      <3>3. ASSUME NEW j \in (st.baseline_slot + 1)..(k - 1) PROVE asked[j].phase # "completed"
        <4>1. st.baseline_slot \in Int /\ st.baseline_slot >= -1
          BY <1>2, RowTypes, Numbers
        <4>2. j \in SlotIndexes /\ j # k /\ ~(j <= st.baseline_slot)
          BY <1>3, <3>3, <4>1, Numbers
        <4>3. ~(Done(rows, j) /\ reqs[j].phase = "completed")
          BY <4>2 DEF History, Baseline
        <4>4. reqs[j].phase = "completed" => Made(rows, j)
          BY <4>2 DEF History, Accounted
        <4>5. Made(rows, j) => Done(rows, j)
          BY <1>3, <4>2, Numbers DEF History, Accounted
        <4> QED
          BY <1>7, <4>2, <4>3, <4>4, <4>5
      <3> QED
        BY <1>16, <2>1, <3>1, <3>2, <3>3 DEF Compared
    <2>2. CASE i # k
      <3>1. Compared(rows, reqs, i) /\ Made(rows, i) /\ after[i].baseline = rows[i].baseline
        BY <1>6, <1>8, <1>17, <2>2 DEF History, Baseline
      <3>2. i < k
        <4>1. ~(i > st.last_slot)
          BY <1>4, <3>1
        <4> QED
          BY <1>3, <4>1
      <3>3. rows[i].baseline \in SlotIndexes \cup {NoSlot}
        BY <1>2, RowTypes
      <3>4. rows[i].baseline # NoSlot => /\ rows[i].baseline < i /\ Done(after, rows[i].baseline)
                                         /\ asked[rows[i].baseline].phase = "completed"
        <4>1. rows[i].baseline # NoSlot => /\ rows[i].baseline < i /\ Done(rows, rows[i].baseline)
                                           /\ reqs[rows[i].baseline].phase = "completed"
          BY <3>1 DEF Compared
        <4>2. rows[i].baseline # NoSlot => rows[i].baseline # k
          BY <1>3, <3>2, <3>3, <4>1
        <4> QED
          BY <1>7, <1>9, <3>3, <4>1, <4>2
      <3>5. ASSUME NEW j \in (rows[i].baseline + 1)..(i - 1) PROVE asked[j].phase # "completed"
        <4>1. reqs[j].phase # "completed"
          BY <3>1, <3>5 DEF Compared
        <4>2. rows[i].baseline \in Int /\ rows[i].baseline >= -1
          BY <3>3, Numbers
        <4>3. j \in SlotIndexes /\ j # k
          BY <1>3, <3>2, <3>5, <4>2, Numbers
        <4> QED
          BY <1>7, <4>1, <4>3
      <3> QED
        BY <3>1, <3>4, <3>5 DEF Compared
    <2> QED
      BY <2>1, <2>2
  <1>18. Baseline(next, after, asked)
    <2>1. next.baseline_slot # NoSlot => Done(after, next.baseline_slot) /\ asked[next.baseline_slot].phase = "completed"
      BY <1>3, <1>5, <1>7, <1>9, <1>16
    <2>2. ASSUME NEW i \in SlotIndexes, Done(after, i), asked[i].phase = "completed" PROVE i <= next.baseline_slot
      <3>1. i # k /\ Done(rows, i)
        BY <1>4, <1>9, <2>2
      <3>2. reqs[i].phase = "completed"
        BY <1>7, <2>2, <3>1
      <3> QED
        BY <1>5, <3>1, <3>2 DEF History, Baseline
    <2>3. ASSUME NEW i \in SlotIndexes, i = next.last_slot PROVE after[i].baseline = next.baseline_slot
      BY <1>5, <1>6, <2>3
    <2> QED
      BY <1>17, <2>1, <2>2, <2>3 DEF Baseline
  <1>19. Backoff(next, after, asked)
    <2>1. above(next, after) = above(st, rows)
      BY <1>5, <1>9 DEF above
    <2>2. ~Done(after, k)
      BY <1>4, <1>9
    <2> QED
      BY <1>5, <2>1, <2>2 DEF History, Backoff
  <1>20. ASSUME Waited(rows, reqs), st.retry_at <= row.created_at PROVE Waited(after, asked)
    <2> SUFFICES ASSUME NEW j \in SlotIndexes, NEW i \in SlotIndexes,
                        j < i, Made(after, j), Made(after, i), asked[j].phase # "completed",
                        \A h \in (j + 1)..(i - 1) : ~Made(after, h)
                 PROVE  after[i].created_at >=
                           after[j].resolved_at + backoff(Cardinality(between(after, after[j].baseline, j)))
      BY DEF Waited
    <2>1. j # k /\ Made(rows, j) /\ j <= st.last_slot
      <3>1. i <= k
        BY <1>3, <1>4, <1>8
      <3>2. j # k
        BY <1>3, <3>1
      <3> QED
        BY <1>3, <1>4, <1>8, <3>2
    <2>2. reqs[j].phase # "completed" /\ after[j] = rows[j]
      BY <1>6, <1>7, <2>1
    <2>3. between(after, after[j].baseline, j) = between(rows, rows[j].baseline, j)
      <3>1. \A h \in SlotIndexes : h < j => (Made(after, h) <=> Made(rows, h))
        BY <1>3, <1>8, <2>1
      <3> QED
        BY <2>2, <3>1 DEF between
    <2>4. \A h \in (j + 1)..(i - 1) : ~Made(rows, h)
      <3>1. (j + 1)..(i - 1) \subseteq SlotIndexes
        BY Numbers
      <3> QED
        BY <1>8, <3>1
    <2>5. CASE i = k
      <3>1. st.last_slot \in SlotIndexes /\ Made(rows, st.last_slot)
        <4>1. st.last_slot # NoSlot /\ st.last_slot \in SlotIndexes
          BY <1>2, <1>3, <2>1, Numbers, RowTypes
        <4> QED
          BY <4>1 DEF History, Cursor
      <3>2. j = st.last_slot
        <4>1. ~(st.last_slot \in (j + 1)..(k - 1))
          BY <2>4, <2>5, <3>1
        <4> QED
          BY <1>3, <2>1, <4>1
      <3>3. Done(rows, j)
        BY <2>1, Numbers DEF History, Accounted
      <3>4. st.retry_at = rows[j].resolved_at + backoff(Cardinality(between(rows, rows[j].baseline, j)))
        BY <2>2, <3>2, <3>3 DEF History, Backoff
      <3>5. st.retry_at \in Int /\ row.created_at \in Int /\ after[i].created_at = row.created_at
        <4>1. st.retry_at \in Nat \cup {NoTime} /\ row.created_at \in Times /\ after[i] = row
          BY <1>2, <1>6, <2>5, RowTypes
        <4>2. \A x : x \in Nat \cup {NoTime} \/ x \in Times => x \in Int
          BY Numbers
        <4> QED
          BY <4>1, <4>2
      <3>6. row.created_at >= st.retry_at
        BY <1>20, <3>5
      <3> QED
        BY <2>2, <2>3, <3>4, <3>5, <3>6
    <2>6. CASE i # k
      <3>1. Made(rows, i) /\ after[i] = rows[i]
        BY <1>6, <1>8, <2>6
      <3> QED
        BY <1>20, <2>1, <2>2, <2>3, <2>4, <3>1 DEF Waited
    <2> QED
      BY <2>5, <2>6
  <1>21. ASSUME NEW n \in Times, Past(rows, reqs, n) PROVE Past(after, asked, n)
    <2> SUFFICES ASSUME NEW i \in SlotIndexes
                 PROVE  /\ after[i].resolved_at <= n
                        /\ \A h \in 1..Len(asked[i].dispatched) :
                              /\ asked[i].dispatched[h] <= n
                              /\ Done(after, i) => asked[i].dispatched[h] <= after[i].resolved_at
      BY DEF Past
    <2>1. CASE i = k
      <3>1. NoTime <= n
        BY Numbers
      <3>2. 1..Len(asked[i].dispatched) = {}
        BY <1>7, <2>1
      <3> QED
        BY <1>6, <2>1, <3>1, <3>2
    <2>2. CASE i # k
      <3>1. after[i] = rows[i] /\ asked[i] = reqs[i]
        BY <1>6, <1>7, <2>2
      <3> QED
        BY <1>9, <1>21, <3>1 DEF Past
    <2> QED
      BY <2>1, <2>2
  <1> QED
    BY <1>11, <1>12, <1>14, <1>15, <1>18, <1>19, <1>20, <1>21 DEF History
-----------------------------------------------------------------------------
(* A move of a request that is under way, which only the check at the      *)
(* cursor can be.                                                          *)

LEMMA UnderWay ==
  ASSUME NEW st, NEW rows, NEW reqs, NEW gone, History(st, rows, reqs, gone),
         NEW k \in SlotIndexes, reqs[k].phase \in {"queued", "running"}
  PROVE  k = st.last_slot /\ k = st.unresolved_slot /\ Made(rows, k) /\ ~Done(rows, k)
  <1>1. Made(rows, k) /\ ~Done(rows, k)
    BY DEF History, Accounted, Terminal
  <1>2. k = st.unresolved_slot
    BY <1>1 DEF History, Accounted
  <1> QED
    BY <1>1, <1>2, Numbers DEF History, Cursor

LEMMA RequestMoves ==
  ASSUME NEW st, NEW rows, NEW reqs, NEW gone, History(st, rows, reqs, gone),
         NEW k \in SlotIndexes, reqs[k].phase \in {"queued", "running"},
         NEW row \in Request, row.phase # "absent", row.phase = "completed" => row.result = "eligible",
         NEW asked \in [SlotIndexes -> Request], asked[k] = row, \A i \in SlotIndexes \ {k} : asked[i] = reqs[i]
  PROVE  /\ History(st, rows, asked, gone)
         /\ Waited(rows, reqs) => Waited(rows, asked)
         /\ \A n \in Times : Past(rows, reqs, n) /\ (\A i \in 1..Len(row.dispatched) : row.dispatched[i] <= n)
                             => Past(rows, asked, n)
  <1>1. k = st.last_slot /\ k = st.unresolved_slot /\ Made(rows, k) /\ ~Done(rows, k)
    BY UnderWay
  <1>2. Types(st, rows, reqs, gone) /\ \A i \in SlotIndexes : i \in Int
    BY Numbers DEF History
  <1>3. \A i \in SlotIndexes : i # k => asked[i] = reqs[i]
    OBVIOUS
  <1>4. \A i \in SlotIndexes : Made(rows, i) => i <= k
    BY <1>1 DEF History, Accounted
  <1>5. Types(st, rows, asked, gone) /\ Cursor(st, rows, gone)
    BY <1>2 DEF History, Types
  <1>6. Accounted(st, rows, asked, gone)
    <2> SUFFICES ASSUME NEW i \in SlotIndexes
                 PROVE  /\ Made(rows, i) <=> asked[i].phase # "absent"
                        /\ Done(rows, i) => asked[i].phase \in Terminal
      BY DEF History, Accounted
    <2>1. /\ Made(rows, i) <=> reqs[i].phase # "absent"
          /\ Done(rows, i) => reqs[i].phase \in Terminal
      BY DEF History, Accounted
    <2>2. CASE i = k
      BY <1>1, <2>2
    <2>3. CASE i # k
      BY <1>3, <2>1, <2>3
    <2> QED
      BY <2>2, <2>3
  <1>7. RequestRows(asked)
    BY <1>3 DEF History, RequestRows
  <1>8. ASSUME NEW i \in SlotIndexes, Made(rows, i) PROVE Compared(rows, asked, i)
    <2>1. Compared(rows, reqs, i) /\ i <= k
      BY <1>4, <1>8 DEF History, Baseline
    <2>2. rows[i].baseline \in SlotIndexes \cup {NoSlot}
      BY <1>2, RowTypes
    <2>3. rows[i].baseline # NoSlot => rows[i].baseline # k /\ rows[i].baseline \in SlotIndexes
      BY <1>1, <2>1, <2>2 DEF Compared
    <2>4. rows[i].baseline # NoSlot => asked[rows[i].baseline].phase = "completed"
      BY <1>3, <2>1, <2>3 DEF Compared
    <2>5. ASSUME NEW j \in (rows[i].baseline + 1)..(i - 1) PROVE asked[j].phase # "completed"
      <3>1. reqs[j].phase # "completed"
        BY <2>1, <2>5 DEF Compared
      <3>2. rows[i].baseline \in Int /\ rows[i].baseline >= -1
        BY <2>2, Numbers
      <3>3. j \in SlotIndexes /\ j # k
        BY <1>2, <2>1, <2>5, <3>2, Numbers
      <3> QED
        BY <1>3, <3>1, <3>3
    <2> QED
      BY <2>1, <2>4, <2>5 DEF Compared
  <1>9. Baseline(st, rows, asked)
    <2>1. st.baseline_slot # NoSlot => Done(rows, st.baseline_slot) /\ asked[st.baseline_slot].phase = "completed"
      <3>1. st.baseline_slot # NoSlot => Done(rows, st.baseline_slot) /\ reqs[st.baseline_slot].phase = "completed"
        BY DEF History, Baseline
      <3>2. st.baseline_slot \in SlotIndexes \cup {NoSlot}
        BY <1>2, RowTypes
      <3> QED
        BY <1>1, <1>3, <3>1, <3>2
    <2>2. ASSUME NEW i \in SlotIndexes, Done(rows, i), asked[i].phase = "completed" PROVE i <= st.baseline_slot
      <3>1. reqs[i].phase = "completed"
        BY <1>1, <1>3, <2>2
      <3> QED
        BY <2>2, <3>1 DEF History, Baseline
    <2>3. ASSUME NEW i \in SlotIndexes, i = st.last_slot PROVE rows[i].baseline = st.baseline_slot
      BY <1>1, <2>3 DEF History, Baseline
    <2> QED
      BY <1>8, <2>1, <2>2, <2>3 DEF Baseline
  <1>10. Backoff(st, rows, asked)
    BY <1>1 DEF History, Backoff
  <1>11. ASSUME Waited(rows, reqs) PROVE Waited(rows, asked)
    <2> SUFFICES ASSUME NEW j \in SlotIndexes, NEW i \in SlotIndexes,
                        j < i, Made(rows, j), Made(rows, i), asked[j].phase # "completed",
                        \A h \in (j + 1)..(i - 1) : ~Made(rows, h)
                 PROVE  rows[i].created_at >=
                           rows[j].resolved_at + backoff(Cardinality(between(rows, rows[j].baseline, j)))
      BY DEF Waited
    <2>1. j # k
      BY <1>2, <1>4
    <2>2. reqs[j].phase # "completed"
      BY <1>3, <2>1
    <2> QED
      BY <1>11, <2>2 DEF Waited
  <1>12. ASSUME NEW n \in Times, Past(rows, reqs, n), \A i \in 1..Len(row.dispatched) : row.dispatched[i] <= n
         PROVE  Past(rows, asked, n)
    <2> SUFFICES ASSUME NEW i \in SlotIndexes
                 PROVE  /\ rows[i].resolved_at <= n
                        /\ \A h \in 1..Len(asked[i].dispatched) :
                              /\ asked[i].dispatched[h] <= n
                              /\ Done(rows, i) => asked[i].dispatched[h] <= rows[i].resolved_at
      BY DEF Past
    <2>1. rows[i].resolved_at <= n
      BY <1>12 DEF Past
    <2>2. CASE i = k
      BY <1>1, <1>12, <2>1, <2>2
    <2>3. CASE i # k
      BY <1>3, <1>12, <2>3 DEF Past
    <2> QED
      BY <2>2, <2>3
  <1> QED
    BY <1>5, <1>6, <1>7, <1>9, <1>10, <1>11, <1>12 DEF History

\* The baseline never has to move back, so no reconciliation is refused.
LEMMA NeverRefused ==
  ASSUME NEW st, NEW rows, NEW reqs, NEW gone, History(st, rows, reqs, gone),
         NEW k \in SlotIndexes, k = st.unresolved_slot
  PROVE  /\ reqs[k].phase = "completed" => st.baseline_slot < k
         /\ reqs[k].phase = "completed" => nominal_at(k) >= baseline_cutoff(st.baseline_slot)
  <1>1. k = st.last_slot /\ k # NoSlot /\ Made(rows, k) /\ ~Done(rows, k)
    BY Numbers DEF History, Cursor, Accounted
  <1>2. rows[k].baseline = st.baseline_slot /\ Compared(rows, reqs, k)
    BY <1>1 DEF History, Baseline
  <1>3. st.baseline_slot \in SlotIndexes \cup {NoSlot}
    BY RowTypes DEF History
  <1>4. st.baseline_slot < k
    <2>1. st.baseline_slot # NoSlot => st.baseline_slot < k
      BY <1>2 DEF Compared
    <2> QED
      BY <1>3, <2>1, Numbers
  <1>5. nominal_at(k) >= SeedCutoff
    <2>1. k * Cadence >= 0 /\ k * Cadence \in Int
      BY Numbers
    <2>2. Anchor \in Int /\ SeedCutoff \in Int /\ Anchor >= SeedCutoff
      BY SchedulerAssumption
    <2> QED
      BY <2>1, <2>2 DEF nominal_at
  <1>6. st.baseline_slot # NoSlot => nominal_at(k) >= nominal_at(st.baseline_slot)
    <2>1. ASSUME NEW a \in Int, NEW b \in Int, a < b PROVE a * Cadence <= b * Cadence
      BY <2>1, Numbers
    <2>2. ASSUME NEW b \in SlotIndexes, b < k PROVE nominal_at(k) >= nominal_at(b)
      <3>1. b * Cadence <= k * Cadence /\ b * Cadence \in Int /\ k * Cadence \in Int
        BY <2>1, <2>2, Numbers
      <3> QED
        BY <3>1, Numbers DEF nominal_at
    <2> QED
      BY <1>3, <1>4, <2>2
  <1> QED
    BY <1>4, <1>5, <1>6 DEF baseline_cutoff
-----------------------------------------------------------------------------
(* Slot times.                                                             *)

LEMMA Configured ==
  ASSUME TypeOK, RevisionsWhole, created
  PROVE  /\ epoch \in Epochs /\ config \in Config /\ scheduler_valid(config)
         /\ config.jitter \in Nat /\ config.jitter <= Cadence \div 10
         /\ config.budget \in Nat /\ config.lag \in Nat
  <1>1. epoch \in Nat /\ epoch >= 1 /\ epoch <= Cardinality(RevisionKeys) + 1
    BY DEF TypeOK, RevisionsWhole, created, epoch
  <1>2. Cardinality(RevisionKeys) \in Nat
    BY SchedulerAssumption, FS_CardinalityType
  <1>3. epoch \in Epochs /\ epoch \in 1..epoch
    BY <1>1, <1>2 DEF Epochs
  <1>4. config \in Configs
    BY <1>3 DEF TypeOK, config
  <1>5. config \in Config /\ scheduler_valid(config)
    BY <1>4, SchedulerAssumption
  <1> QED
    BY <1>3, <1>5, Numbers DEF Config, scheduler_valid

LEMMA NominalOrder ==
  /\ \A i \in Int : nominal_at(i) \in Int
  /\ \A i, j \in Int : i <= j => nominal_at(i) <= nominal_at(j)
  /\ \A i \in Int : nominal_at(i + 1) = nominal_at(i) + Cadence
  BY Numbers DEF nominal_at

\* A slot falls due no earlier than its nominal time and before the next one's.
LEMMA DueTimes ==
  ASSUME TypeOK, RevisionsWhole, created, NEW i \in 0..(MaxSlot + 1)
  PROVE  /\ scheduler_due(epoch, i) \in Int
         /\ nominal_at(i) <= scheduler_due(epoch, i)
         /\ scheduler_due(epoch, i) < nominal_at(i + 1)
  <1>1. Hash[<<epoch, i>>] \in Nat
    BY Configured, SchedulerAssumption
  <1>2. PICK j \in Nat : j = config.jitter
    BY Configured
  <1>3. PICK h \in Nat : h = Hash[<<epoch, i>>]
    BY <1>1
  <1>4. h % (j + 1) \in Int /\ 0 <= h % (j + 1) /\ h % (j + 1) <= j
    BY <1>2, <1>3
  <1>5. j < Cadence
    <2>1. j <= Cadence \div 10
      BY <1>2, Configured
    <2>2. Cadence \div 10 < Cadence /\ Cadence \div 10 \in Int
      BY Numbers
    <2> QED
      BY <1>2, <2>1, <2>2, Numbers
  <1>6. scheduler_due(epoch, i) = nominal_at(i) + (h % (j + 1))
    BY <1>2, <1>3 DEF scheduler_due, config
  <1>7. i \in Int
    BY Numbers
  <1>8. nominal_at(i) \in Int /\ nominal_at(i + 1) = nominal_at(i) + Cadence
    BY <1>7, NominalOrder
  <1> QED
    BY <1>4, <1>5, <1>6, <1>8, Numbers

\* All slots after the cursor fall under the newest revision.
LEMMA NewestRevision ==
  ASSUME TypeOK, RevisionsWhole, created, NEW i \in Int, i > state.last_slot
  PROVE  revision_at(i) = epoch
  <1>1. epoch \in Nat /\ epoch >= 1
    BY DEF RevisionsWhole, created, epoch
  <1>2. state.last_slot \in Int
    BY Numbers DEF TypeOK, State
  <1>3. \A e \in 1..epoch : revisions[e].first_slot <= i
    <2> SUFFICES ASSUME NEW e \in 1..epoch PROVE revisions[e].first_slot <= i
      OBVIOUS
    <2>1. PICK n : n = revisions[e].first_slot
      OBVIOUS
    <2>2. n \in 0..(MaxSlot + 1) /\ n <= state.last_slot + 1
      BY <2>1 DEF TypeOK, RevisionsWhole
    <2> QED
      BY <1>2, <2>1, <2>2, Numbers
  <1> DEFINE Newest(e) == /\ revisions[e].first_slot <= i
                          /\ \A f \in (e + 1)..epoch : revisions[f].first_slot > i
  <1>4. Newest(epoch)
    BY <1>1, <1>3
  <1>5. \A e \in 1..epoch : Newest(e) => e = epoch
    <2> SUFFICES ASSUME NEW e \in 1..epoch, Newest(e), e # epoch PROVE FALSE
      OBVIOUS
    <2>1. epoch \in (e + 1)..epoch /\ epoch \in 1..epoch
      BY <1>1
    <2>2. revisions[epoch].first_slot > i /\ revisions[epoch].first_slot <= i
      BY <1>3, <2>1
    <2>3. PICK n \in 0..(MaxSlot + 1) : n = revisions[epoch].first_slot
      BY <2>1 DEF TypeOK
    <2> QED
      BY <2>2, <2>3, Numbers
  <1>6. revision_at(i) = CHOOSE e \in 1..epoch : Newest(e)
    BY DEF revision_at
  <1>7. epoch \in 1..epoch
    BY <1>1
  <1> HIDE DEF Newest
  <1> QED
    BY <1>4, <1>5, <1>6, <1>7

LEMMA LatestSlot ==
  ASSUME TypeOK, RevisionsWhole, created, NEW t \in Times,
         NEW k, k = latest_slot(state.last_slot, t)
  PROVE  /\ k \in Int /\ k <= MaxSlot
         /\ k > state.last_slot => /\ k \in SlotIndexes /\ revision_at(k) = epoch
                                   /\ scheduler_due(epoch, k) <= t /\ nominal_at(k) <= t
                                   /\ \A j \in SlotIndexes : j > k => scheduler_due(epoch, j) > t
         /\ k > state.last_slot <=> scheduler_due(epoch, state.last_slot + 1) <= t
  <1>1. PICK q : q = (t - Anchor) \div Cadence
    OBVIOUS
  <1>2. t \in Int /\ q \in Int /\ nominal_at(q) <= t /\ t < nominal_at(q + 1)
    <2>1. t \in Int /\ Anchor \in Int /\ Cadence \in Int /\ Cadence > 0
      BY Numbers
    <2>2. ASSUME NEW x \in Int, NEW c \in Int, c > 0
          PROVE  x \div c \in Int /\ (x \div c) * c <= x /\ x < ((x \div c) + 1) * c
      BY <2>2
    <2>3. PICK x \in Int : x = t - Anchor
      BY <2>1
    <2>4. q \in Int /\ q * Cadence <= x /\ x < (q + 1) * Cadence
      BY <1>1, <2>1, <2>2, <2>3
    <2>5. PICK a \in Int : a = q * Cadence
      BY <2>1, <2>4
    <2>6. PICK b \in Int : b = (q + 1) * Cadence
      BY <2>1, <2>4
    <2>7. nominal_at(q) = Anchor + a /\ nominal_at(q + 1) = Anchor + b /\ a <= x /\ x < b
      BY <2>4, <2>5, <2>6 DEF nominal_at
    <2> QED
      BY <2>1, <2>3, <2>4, <2>7
  <1>3. q <= MaxSlot
    <2>1. t < nominal_at(MaxSlot + 1)
      BY SchedulerAssumption DEF nominal_at
    <2>2. ~(MaxSlot + 1 <= q)
      <3>1. MaxSlot + 1 <= q => nominal_at(MaxSlot + 1) <= nominal_at(q)
        BY <1>2, NominalOrder, Numbers
      <3>2. nominal_at(MaxSlot + 1) \in Int /\ nominal_at(q) \in Int
        BY <1>2, NominalOrder, Numbers
      <3> QED
        BY <1>2, <2>1, <3>1, <3>2
    <2> QED
      BY <1>2, <2>2, Numbers
  <1>4. PICK last : last = state.last_slot
    OBVIOUS
  <1>5. last \in Int /\ last >= -1
    BY <1>4, Numbers DEF TypeOK, State
  <1>6. q > last => revision_at(q) = epoch /\ q \in SlotIndexes /\ q \in 0..(MaxSlot + 1)
    BY <1>2, <1>3, <1>4, <1>5, NewestRevision, Numbers
  <1>7. k = IF q > last /\ scheduler_due(epoch, q) > t THEN q - 1 ELSE q
    BY <1>1, <1>4, <1>6 DEF latest_slot
  <1>8. ASSUME NEW i \in 0..(MaxSlot + 1) PROVE /\ i < q => scheduler_due(epoch, i) <= t
                                                /\ i > q => scheduler_due(epoch, i) > t
    <2>1. /\ scheduler_due(epoch, i) \in Int /\ nominal_at(i) <= scheduler_due(epoch, i)
          /\ scheduler_due(epoch, i) < nominal_at(i + 1)
      BY DueTimes
    <2>2. i \in Int
      BY Numbers
    <2>3. /\ nominal_at(i) \in Int /\ nominal_at(i + 1) \in Int /\ nominal_at(q) \in Int
          /\ nominal_at(q + 1) \in Int /\ i \in Int
      BY <1>2, <2>2, NominalOrder
    <2>4. i < q => nominal_at(i + 1) <= nominal_at(q)
      BY <1>2, <2>3, NominalOrder
    <2>5. i > q => nominal_at(q + 1) <= nominal_at(i)
      BY <1>2, <2>3, NominalOrder
    <2> QED
      BY <1>2, <2>1, <2>3, <2>4, <2>5
  <1>9. ASSUME NEW i \in 0..(MaxSlot + 1) PROVE scheduler_due(epoch, i) \in Int /\ i \in Int
    BY DueTimes, Numbers
  <1>10. k \in Int /\ k <= MaxSlot /\ k <= q
    BY <1>2, <1>3, <1>7, Numbers
  <1>11. ASSUME k > last
         PROVE  /\ k \in SlotIndexes /\ revision_at(k) = epoch
                /\ scheduler_due(epoch, k) <= t /\ nominal_at(k) <= t
                /\ \A j \in SlotIndexes : j > k => scheduler_due(epoch, j) > t
    <2>1. k \in SlotIndexes /\ k \in 0..(MaxSlot + 1)
      BY <1>5, <1>10, <1>11, Numbers
    <2>2. revision_at(k) = epoch
      BY <1>4, <1>10, <1>11, NewestRevision
    <2>3. q > last
      BY <1>2, <1>5, <1>10, <1>11
    <2>4. nominal_at(k) <= t
      <3>1. nominal_at(k) <= nominal_at(q) /\ nominal_at(k) \in Int /\ nominal_at(q) \in Int
        BY <1>2, <1>10, NominalOrder
      <3> QED
        BY <1>2, <3>1
    <2>5. CASE scheduler_due(epoch, q) > t
      <3>1. k = q - 1 /\ k < q
        BY <1>2, <1>7, <2>3, <2>5
      <3>2. scheduler_due(epoch, k) <= t
        BY <1>8, <2>1, <3>1
      <3>3. ASSUME NEW j \in SlotIndexes, j > k PROVE scheduler_due(epoch, j) > t
        <4>1. j \in 0..(MaxSlot + 1) /\ j \in Int
          BY <3>3, Numbers
        <4>2. j = q \/ j > q
          BY <1>2, <3>1, <3>3, <4>1
        <4> QED
          BY <1>8, <2>5, <4>2, <4>1
      <3> QED
        BY <2>1, <2>2, <2>4, <3>2, <3>3
    <2>6. CASE ~(scheduler_due(epoch, q) > t)
      <3>1. k = q
        BY <1>7, <2>6
      <3>2. scheduler_due(epoch, k) <= t
        BY <1>2, <1>9, <2>1, <2>6, <3>1
      <3>3. ASSUME NEW j \in SlotIndexes, j > k PROVE scheduler_due(epoch, j) > t
        BY <1>8, <3>1, <3>3, Numbers
      <3> QED
        BY <2>1, <2>2, <2>4, <3>2, <3>3
    <2> QED
      BY <2>5, <2>6
  <1>12. k > last <=> scheduler_due(epoch, last + 1) <= t
    <2>1. last + 1 \in 0..(MaxSlot + 1)
      <3>1. last <= MaxSlot
        BY <1>4, Numbers DEF TypeOK, State
      <3> QED
        BY <1>5, <3>1, Numbers
    <2>2. scheduler_due(epoch, last + 1) \in Int
      BY <1>9, <2>1
    <2>3. ASSUME k > last PROVE scheduler_due(epoch, last + 1) <= t
      <3>1. CASE k = last + 1
        BY <1>11, <2>3, <3>1
      <3>2. CASE k # last + 1
        <4>1. last + 1 < q
          BY <1>2, <1>5, <1>10, <2>3, <3>2
        <4> QED
          BY <1>8, <2>1, <4>1
      <3> QED
        BY <3>1, <3>2
    <2>4. ASSUME ~(k > last) PROVE ~(scheduler_due(epoch, last + 1) <= t)
      <3>1. CASE q > last
        <4>1. scheduler_due(epoch, q) > t /\ q = last + 1
          BY <1>2, <1>5, <1>7, <2>4, <3>1
        <4> QED
          BY <1>2, <2>2, <4>1
      <3>2. CASE ~(q > last)
        <4>1. last + 1 > q
          BY <1>2, <1>5, <3>2
        <4>2. scheduler_due(epoch, last + 1) > t
          BY <1>8, <2>1, <4>1
        <4> QED
          BY <1>2, <2>2, <4>2
      <3> QED
        BY <3>1, <3>2
    <2> QED
      BY <2>3, <2>4
  <1> QED
    BY <1>4, <1>10, <1>11, <1>12
-----------------------------------------------------------------------------
(* What a tick makes of the rows before it looks for a slot.               *)

LEMMA Reconciled ==
  ASSUME TypeOK, History(state, slots, requests, missed)
  PROVE  /\ ~reconcile_refused
         /\ History(reconciled_state, reconciled_slots, requests, missed)
         /\ reconciled_state.last_slot = state.last_slot
         /\ to_reconcile => /\ reconciled_state.unresolved_slot = NoSlot
                            /\ reconciled_slots[state.unresolved_slot].resolved_at = now
         /\ Waited(slots, requests) => Waited(reconciled_slots, requests)
         /\ Past(slots, requests, now) => Past(reconciled_slots, requests, now)
         /\ \A i \in SlotIndexes : /\ Made(reconciled_slots, i) <=> Made(slots, i)
                                   /\ Done(slots, i) => Done(reconciled_slots, i)
  <1>1. CASE ~to_reconcile
    BY <1>1 DEF reconcile_refused, reconciled_state, reconciled_slots
  <1>2. CASE to_reconcile
    <2>1. PICK k : k = state.unresolved_slot
      OBVIOUS
    <2>2. k \in SlotIndexes /\ k = state.unresolved_slot /\ requests[k].phase \in Terminal /\ k \in Int
      <3>1. state.unresolved_slot \in SlotIndexes \cup {NoSlot}
        BY DEF TypeOK, State
      <3>2. k \in SlotIndexes /\ requests[k].phase \in Terminal
        BY <1>2, <2>1, <3>1 DEF to_reconcile
      <3> QED
        BY <2>1, <3>2, Numbers
    <2>3. /\ requests[k].phase = "completed" => state.baseline_slot < k
          /\ requests[k].phase = "completed" => nominal_at(k) >= baseline_cutoff(state.baseline_slot)
      BY <2>2, NeverRefused
    <2>4. success(k) <=> requests[k].phase = "completed"
      BY <2>2 DEF History, RequestRows, success
    <2>5. ~reconcile_refused
      <3>1. state.baseline_slot \in Int
        BY Numbers DEF TypeOK, State
      <3>2. /\ nominal_at(k) \in Int /\ baseline_cutoff(state.baseline_slot) \in Int
        <4>1. nominal_at(k) \in Int /\ nominal_at(state.baseline_slot) \in Int
          BY <2>2, <3>1, NominalOrder
        <4> QED
          BY <4>1, SchedulerAssumption DEF baseline_cutoff
      <3>3. success(k) => ~(k <= state.baseline_slot) /\ ~(nominal_at(k) < baseline_cutoff(state.baseline_slot))
        BY <2>2, <2>3, <2>4, <3>1, <3>2
      <3> QED
        BY <2>2, <3>3 DEF reconcile_refused
    <2>6. PICK n : n = now
      OBVIOUS
    <2>7. n \in Times /\ n \in Nat
      BY <2>6, Numbers DEF TypeOK
    <2>8. PICK next : next = reconciled_state
      OBVIOUS
    <2>9. /\ next \in State /\ next.unresolved_slot = NoSlot /\ next.last_slot = state.last_slot
          /\ Resolves(state, requests, k, n, next)
      <3>1. state \in State /\ state.failures \in Nat
        BY DEF TypeOK, State
      <3>2. CASE success(k)
        <4>1. next = [state EXCEPT !.unresolved_slot = NoSlot, !.baseline_slot = k, !.failures = 0,
                                   !.retry_at = NoTime]
          BY <1>2, <2>1, <2>8, <3>2 DEF reconciled_state
        <4>2. 0 \in Nat
          OBVIOUS
        <4> QED
          BY <2>2, <2>4, <3>1, <3>2, <4>1, <4>2 DEF State, Resolves
      <3>3. CASE ~success(k)
        <4>1. PICK r : r = IF requests[k].result = "structural" THEN "structural_coverage_incomplete" ELSE state.rebase_reason
          OBVIOUS
        <4>2. PICK d : d = n + backoff(state.failures)
          OBVIOUS
        <4>3. PICK f : f = state.failures + 1
          OBVIOUS
        <4>4. d \in Nat /\ f \in Nat
          BY <2>7, <3>1, <4>2, <4>3, BackoffType
        <4>5. r \in {"null", "structural_coverage_incomplete"}
          BY <3>1, <4>1 DEF State
        <4>6. next = [state EXCEPT !.unresolved_slot = NoSlot, !.failures = f, !.retry_at = d, !.rebase_reason = r]
          BY <1>2, <2>1, <2>6, <2>8, <3>3, <4>1, <4>2, <4>3 DEF reconciled_state
        <4>7. /\ next \in State /\ next.unresolved_slot = NoSlot /\ next.last_slot = state.last_slot
              /\ next.baseline_slot = state.baseline_slot /\ next.failures = f /\ next.retry_at = d
          BY <3>1, <4>4, <4>5, <4>6 DEF State
        <4> QED
          BY <2>4, <3>3, <4>2, <4>3, <4>7 DEF Resolves
      <3> QED
        BY <3>2, <3>3
    <2>10. PICK after : after = [slots EXCEPT ![k].resolved_at = n]
      OBVIOUS
    <2>11. reconciled_slots = after
      BY <1>2, <2>1, <2>6, <2>10 DEF reconciled_slots
    <2>12. /\ History(next, after, requests, missed)
           /\ Waited(slots, requests) => Waited(after, requests)
           /\ Past(slots, requests, n) => Past(after, requests, n)
      <3>1. ResolvedRow(slots, k, n, after)
        BY <2>10 DEF ResolvedRow
      <3> QED
        BY <2>2, <2>7, <2>9, <3>1, Reconciles
    <2>13. slots \in [SlotIndexes -> Slot]
      BY DEF TypeOK
    <2>14. /\ after[k].resolved_at = n
           /\ \A i \in SlotIndexes : /\ after[i].created_at = slots[i].created_at
                                     /\ i # k => after[i].resolved_at = slots[i].resolved_at
      BY <2>2, <2>10, <2>13 DEF Slot
    <2>15. \A i \in SlotIndexes : /\ Made(after, i) <=> Made(slots, i)
                                  /\ Done(slots, i) => Done(after, i)
      BY <2>7, <2>14, Numbers DEF Made, Done
    <2>16. next.unresolved_slot = NoSlot /\ next.last_slot = state.last_slot
      BY <2>9 DEF Resolves
    <2>17. reconciled_slots[state.unresolved_slot].resolved_at = now
      BY <2>1, <2>6, <2>11, <2>14
    <2>18. History(reconciled_state, reconciled_slots, requests, missed)
      BY <2>8, <2>11, <2>12
    <2>19. /\ Waited(slots, requests) => Waited(reconciled_slots, requests)
           /\ Past(slots, requests, now) => Past(reconciled_slots, requests, now)
      BY <2>6, <2>11, <2>12
    <2>20. \A i \in SlotIndexes : /\ Made(reconciled_slots, i) <=> Made(slots, i)
                                  /\ Done(slots, i) => Done(reconciled_slots, i)
      BY <2>11, <2>15
    <2>21. reconciled_state.unresolved_slot = NoSlot /\ reconciled_state.last_slot = state.last_slot
      BY <2>8, <2>16
    <2> QED
      BY <2>5, <2>17, <2>18, <2>19, <2>20, <2>21
  <1> QED
    BY <1>1, <1>2
-----------------------------------------------------------------------------
(* The invariant holds initially and every transaction keeps it.           *)

LEMMA InitOK ==
  ASSUME Init
  PROVE  IndInv
  <1>1. /\ set_back = 0 /\ now = 0 /\ calls = [o \in Operators |-> NoTime] /\ revisions = <<>>
        /\ slots = [k \in SlotIndexes |-> no_slot] /\ missed = {}
        /\ requests = [k \in SlotIndexes |-> no_request]
    BY DEF Init
  <1>2. /\ state.last_slot = NoSlot /\ state.unresolved_slot = NoSlot /\ state.baseline_slot = NoSlot
        /\ state.failures = 0 /\ state.retry_at = NoTime /\ state \in State
    BY DEF Init, State
  <1>3. no_slot \in Slot /\ no_slot.created_at = NoTime /\ no_slot.resolved_at = NoTime
    BY Numbers DEF no_slot, Slot
  <1>4. /\ no_request \in Request /\ no_request.phase = "absent" /\ no_request.dispatched = <<>>
        /\ no_request.phase \notin Terminal /\ no_request.phase # "completed"
    <2>1. <<>> \in Seq(Times) /\ 0 \in 0..MaxAttempts
      BY SchedulerAssumption
    <2> QED
      BY <2>1 DEF no_request, Request, Terminal, Results
  <1>5. \A k \in SlotIndexes : /\ slots[k] = no_slot /\ requests[k] = no_request
                               /\ ~Made(slots, k) /\ ~Done(slots, k)
    BY <1>1, <1>3 DEF Made, Done
  <1>6. Types(state, slots, requests, missed)
    BY <1>1, <1>2, <1>3, <1>4 DEF Types
  <1>7. TypeOK
    <2>1. Cardinality(RevisionKeys) \in Nat
      BY SchedulerAssumption, FS_CardinalityType
    <2>2. epoch = 0
      BY <1>1 DEF epoch
    <2>3. now \in Times /\ calls \in [Operators -> Times \cup {NoTime}]
      BY <1>1, Numbers
    <2>4. epoch <= Cardinality(RevisionKeys) + 1 /\ 1..epoch = {}
      BY <2>1, <2>2
    <2> QED
      BY <1>6, <2>3, <2>4 DEF TypeOK, Types
  <1>8. RevisionsWhole
    BY <1>1, <1>2 DEF RevisionsWhole, created, epoch
  <1>9. History(state, slots, requests, missed)
    <2>1. Cursor(state, slots, missed)
      BY <1>1, <1>2 DEF Cursor
    <2>2. Accounted(state, slots, requests, missed)
      <3>1. \A k \in SlotIndexes : ~(k <= NoSlot) /\ k # NoSlot
        BY Numbers
      <3> QED
        BY <1>2, <1>4, <1>5, <3>1 DEF Accounted
    <2>3. RequestRows(requests)
      BY <1>4, <1>5 DEF RequestRows
    <2>4. Baseline(state, slots, requests)
      <3>1. \A k \in SlotIndexes : k # NoSlot
        BY Numbers
      <3> QED
        BY <1>2, <1>5, <3>1 DEF Baseline
    <2>5. Backoff(state, slots, requests)
      <3>1. above(state, slots) = {}
        BY <1>5 DEF above
      <3> QED
        BY <1>2, <1>5, <3>1, FS_EmptySet DEF Backoff
    <2> QED
      BY <1>6, <2>1, <2>2, <2>3, <2>4, <2>5 DEF History
  <1>10. Timely
    <2>1. Past(slots, requests, now)
      <3>1. \A k \in SlotIndexes : slots[k].resolved_at <= now
        BY <1>1, <1>3, <1>5, Numbers
      <3>2. \A k \in SlotIndexes : 1..Len(requests[k].dispatched) = {}
        BY <1>4, <1>5
      <3> QED
        BY <3>1, <3>2 DEF Past
    <2>2. Waited(slots, requests)
      BY <1>5 DEF Waited
    <2>3. \A o \in Operators : calls[o] <= now
      BY <1>1, Numbers
    <2> QED
      BY <2>1, <2>2, <2>3 DEF Timely
  <1> QED
    BY <1>7, <1>8, <1>9, <1>10 DEF IndInv

LEMMA CreateOK ==
  ASSUME IndInv, NEW c \in Configs, scheduler_create(c), UNCHANGED set_back
  PROVE  IndInv'
  <1>1. /\ revisions' = <<[config |-> c, first_slot |-> 0, operation_key |-> CreationKey]>>
        /\ now' = now /\ calls' = calls /\ state' = state /\ slots' = slots /\ missed' = missed
        /\ requests' = requests /\ set_back' = set_back /\ ~created
    BY DEF scheduler_create
  <1>2. [config |-> c, first_slot |-> 0, operation_key |-> CreationKey] \in Revision
    BY Numbers DEF Revision
  <1>3. /\ revisions' \in Seq(Revision) /\ epoch' = 1 /\ revisions' # <<>>
        /\ \A e \in 1..epoch' : revisions'[e].config = c /\ revisions'[e].first_slot = 0
    BY <1>1, <1>2 DEF epoch
  <1>4. TypeOK'
    <2>1. Cardinality(RevisionKeys) \in Nat
      BY SchedulerAssumption, FS_CardinalityType
    <2>2. epoch' <= Cardinality(RevisionKeys) + 1
      BY <1>3, <2>1
    <2>3. \A e \in 1..epoch' : revisions'[e].config \in Configs /\ revisions'[e].first_slot \in 0..(MaxSlot + 1)
      BY <1>3, Numbers
    <2> QED
      BY <1>1, <2>2, <2>3 DEF IndInv, TypeOK
  <1>5. RevisionsWhole'
    <2>1. 0 <= state.last_slot + 1 /\ set_back \in Nat
      BY Numbers DEF IndInv, TypeOK, State, RevisionsWhole
    <2> QED
      BY <1>1, <1>3, <2>1 DEF RevisionsWhole, created
  <1> QED
    BY <1>1, <1>4, <1>5 DEF IndInv, Timely

LEMMA ReviseOK ==
  ASSUME IndInv, NEW expected \in 1..Cardinality(RevisionKeys), NEW key \in RevisionKeys, NEW c \in Configs,
         scheduler_revise(expected, key, c), UNCHANGED set_back
  PROVE  IndInv'
  <1>1. PICK row : row = [config |-> c, first_slot |-> state.last_slot + 1, operation_key |-> key]
    OBVIOUS
  <1>2. /\ revisions' = Append(revisions, row) /\ expected = epoch /\ created
        /\ now' = now /\ calls' = calls /\ state' = state /\ slots' = slots /\ missed' = missed
        /\ requests' = requests /\ set_back' = set_back
    BY <1>1 DEF scheduler_revise, revised_state
  <1>3. state.last_slot + 1 \in 0..(MaxSlot + 1) /\ state.last_slot + 1 <= state.last_slot + 1
    BY Numbers DEF IndInv, TypeOK, State
  <1>4. row \in Revision /\ row.config \in Configs /\ row.first_slot = state.last_slot + 1
    BY <1>1, <1>3 DEF Revision
  <1>5. revisions \in Seq(Revision) /\ epoch \in Nat
    BY DEF IndInv, RevisionsWhole, epoch
  <1>6. /\ revisions' \in Seq(Revision) /\ epoch' = epoch + 1 /\ revisions'[epoch + 1] = row
        /\ \A e \in 1..epoch : revisions'[e] = revisions[e]
    BY <1>2, <1>4, <1>5 DEF epoch
  <1>7. \A e \in 1..epoch' : e \in 1..epoch \/ e = epoch + 1
    BY <1>5, <1>6
  <1>8. TypeOK'
    <2>1. Cardinality(RevisionKeys) \in Nat
      BY SchedulerAssumption, FS_CardinalityType
    <2>2. epoch' <= Cardinality(RevisionKeys) + 1
      BY <1>2, <1>5, <1>6, <2>1
    <2>3. \A e \in 1..epoch : revisions[e].config \in Configs /\ revisions[e].first_slot \in 0..(MaxSlot + 1)
      BY DEF IndInv, TypeOK
    <2>4. \A e \in 1..epoch' : revisions'[e].config \in Configs /\ revisions'[e].first_slot \in 0..(MaxSlot + 1)
      BY <1>3, <1>4, <1>6, <1>7, <2>3
    <2> QED
      BY <1>2, <2>2, <2>4 DEF IndInv, TypeOK
  <1>9. RevisionsWhole'
    <2>1. \A e \in 1..epoch : revisions[e].first_slot <= state.last_slot + 1
      BY DEF IndInv, RevisionsWhole
    <2>2. \A e \in 1..epoch' : revisions'[e].first_slot <= state.last_slot + 1
      BY <1>3, <1>4, <1>6, <1>7, <2>1
    <2>3. revisions' # <<>> /\ set_back \in Nat
      <3>1. epoch' # 0
        BY <1>5, <1>6
      <3> QED
        BY <3>1 DEF IndInv, RevisionsWhole, epoch
    <2> QED
      BY <1>2, <1>6, <2>2, <2>3 DEF RevisionsWhole, created
  <1> QED
    BY <1>2, <1>8, <1>9 DEF IndInv, Timely

LEMMA CallOK ==
  ASSUME IndInv, NEW o \in Operators, call_tick(o), UNCHANGED set_back
  PROVE  IndInv'
  <1>1. /\ calls' = [calls EXCEPT ![o] = now] /\ created
        /\ now' = now /\ revisions' = revisions /\ state' = state /\ slots' = slots /\ missed' = missed
        /\ requests' = requests /\ set_back' = set_back
    BY DEF call_tick
  <1>2. calls \in [Operators -> Times \cup {NoTime}] /\ now \in Times
    BY DEF IndInv, TypeOK
  <1>3. calls' \in [Operators -> Times \cup {NoTime}] /\ \A p \in Operators : calls'[p] \in {calls[p], now}
    BY <1>1, <1>2
  <1>4. epoch' = epoch /\ created'
    BY <1>1 DEF epoch, created
  <1>5. TypeOK'
    BY <1>1, <1>2, <1>3, <1>4 DEF IndInv, TypeOK
  <1>6. RevisionsWhole'
    BY <1>1, <1>4 DEF IndInv, RevisionsWhole
  <1>7. Timely'
    <2>1. now <= now
      BY <1>2, Numbers
    <2> QED
      BY <1>1, <1>3, <2>1 DEF IndInv, Timely
  <1> QED
    BY <1>1, <1>5, <1>6, <1>7 DEF IndInv

LEMMA ClockOK ==
  ASSUME IndInv, Clock
  PROVE  IndInv'
  <1>1. PICK t \in Times : t # now /\ now' = t /\ set_back' = IF t < now THEN set_back + 1 ELSE set_back
    BY DEF Clock
  <1>2. /\ calls' = calls /\ revisions' = revisions /\ state' = state /\ slots' = slots /\ missed' = missed
        /\ requests' = requests
    BY DEF Clock
  <1>3. epoch' = epoch /\ (created' <=> created)
    BY <1>2 DEF epoch, created
  <1>4. TypeOK'
    BY <1>1, <1>2, <1>3 DEF IndInv, TypeOK
  <1>5. set_back \in Nat /\ set_back' \in Nat
    BY <1>1 DEF IndInv, RevisionsWhole
  <1>6. RevisionsWhole'
    BY <1>2, <1>3, <1>5 DEF IndInv, RevisionsWhole
  <1>7. ASSUME set_back' = 0
        PROVE  (\A o \in Operators : calls[o] <= t) /\ Past(slots, requests, t) /\ Waited(slots, requests)
    <2>1. now \in Int /\ t \in Int
      BY <1>1, Numbers DEF IndInv, TypeOK
    <2>2. set_back = 0 /\ now <= t
      BY <1>1, <1>5, <1>7, <2>1
    <2>3. (\A o \in Operators : calls[o] <= now) /\ Past(slots, requests, now) /\ Waited(slots, requests)
      BY <2>2 DEF IndInv, Timely
    <2>4. \A x \in Times \cup {NoTime} : x \in Int
      BY Numbers
    <2>5. \A o \in Operators : calls[o] \in Int
      <3>1. \A o \in Operators : calls[o] \in Times \cup {NoTime}
        BY DEF IndInv, TypeOK
      <3> QED
        BY <2>4, <3>1
    <2>6. \A o \in Operators : calls[o] <= t
      BY <2>1, <2>2, <2>3, <2>5
    <2>7. Past(slots, requests, t)
      <3> SUFFICES ASSUME NEW k \in SlotIndexes
                   PROVE  /\ slots[k].resolved_at <= t
                          /\ \A i \in 1..Len(requests[k].dispatched) :
                                /\ requests[k].dispatched[i] <= t
                                /\ Done(slots, k) => requests[k].dispatched[i] <= slots[k].resolved_at
        BY DEF Past
      <3>1. slots[k].resolved_at \in Times \cup {NoTime} /\ requests[k].dispatched \in Seq(Times)
        BY RowTypes DEF IndInv, History
      <3>2. slots[k].resolved_at \in Int /\ \A i \in 1..Len(requests[k].dispatched) : requests[k].dispatched[i] \in Int
        <4>1. \A i \in 1..Len(requests[k].dispatched) : requests[k].dispatched[i] \in Times \cup {NoTime}
          BY <3>1
        <4> QED
          BY <2>4, <3>1, <4>1
      <3>3. /\ slots[k].resolved_at <= now
            /\ \A i \in 1..Len(requests[k].dispatched) :
                  /\ requests[k].dispatched[i] <= now
                  /\ Done(slots, k) => requests[k].dispatched[i] <= slots[k].resolved_at
        BY <2>3 DEF Past
      <3>4. ASSUME NEW x \in Int, x <= now PROVE x <= t
        BY <2>1, <2>2, <3>4
      <3> QED
        BY <3>2, <3>3, <3>4
    <2> QED
      BY <2>3, <2>6, <2>7
  <1>8. Timely'
    BY <1>1, <1>2, <1>7 DEF Timely
  <1> QED
    BY <1>2, <1>4, <1>6, <1>8 DEF IndInv

\* A move of a request that is under way.
LEMMA MovedOK ==
  ASSUME IndInv, NEW k \in SlotIndexes, requests[k].phase \in {"queued", "running"},
         NEW row \in Request, row.phase # "absent", row.phase = "completed" => row.result = "eligible",
         row.dispatched \in {requests[k].dispatched, Append(requests[k].dispatched, now)},
         moved(k, row), UNCHANGED set_back
  PROVE  IndInv'
  <1>1. /\ requests' = [requests EXCEPT ![k] = row]
        /\ now' = now /\ calls' = calls /\ revisions' = revisions /\ state' = state /\ slots' = slots
        /\ missed' = missed /\ set_back' = set_back
    BY DEF moved
  <1>2. requests \in [SlotIndexes -> Request] /\ now \in Times /\ History(state, slots, requests, missed)
    BY DEF IndInv, TypeOK
  <1>3. PICK asked : asked = requests'
    OBVIOUS
  <1>4. /\ asked \in [SlotIndexes -> Request] /\ asked[k] = row
        /\ \A i \in SlotIndexes \ {k} : asked[i] = requests[i]
    BY <1>1, <1>2, <1>3
  <1>5. /\ History(state, slots, asked, missed)
        /\ Waited(slots, requests) => Waited(slots, asked)
        /\ Past(slots, requests, now) /\ (\A i \in 1..Len(row.dispatched) : row.dispatched[i] <= now)
              => Past(slots, asked, now)
    BY <1>2, <1>4, RequestMoves
  <1>6. ASSUME Past(slots, requests, now) PROVE \A i \in 1..Len(row.dispatched) : row.dispatched[i] <= now
    <2>1. \A i \in 1..Len(requests[k].dispatched) : requests[k].dispatched[i] <= now
      BY <1>6 DEF Past
    <2>2. requests[k].dispatched \in Seq(Times) /\ now <= now
      BY <1>2, RowTypes, Numbers DEF History
    <2>3. CASE row.dispatched = requests[k].dispatched
      BY <2>1, <2>3
    <2>4. CASE row.dispatched = Append(requests[k].dispatched, now)
      <3>1. PICK d \in Seq(Times) : d = requests[k].dispatched
        BY <2>2
      <3>2. Len(row.dispatched) = Len(d) + 1 /\ row.dispatched[Len(d) + 1] = now /\ Len(d) \in Nat
        BY <1>2, <2>4, <3>1
      <3>3. \A i \in 1..Len(d) : row.dispatched[i] = d[i]
        BY <1>2, <2>4, <3>1
      <3>4. ASSUME NEW i \in 1..Len(row.dispatched) PROVE row.dispatched[i] <= now
        <4>1. i \in 1..Len(d) \/ i = Len(d) + 1
          BY <3>2
        <4> QED
          BY <2>1, <2>2, <3>1, <3>2, <3>3, <4>1
      <3> QED
        BY <3>4
    <2> QED
      BY <2>3, <2>4
  <1>7. epoch' = epoch /\ (created' <=> created)
    BY <1>1 DEF epoch, created
  <1>8. TypeOK'
    BY <1>1, <1>3, <1>4, <1>7 DEF IndInv, TypeOK
  <1>9. RevisionsWhole'
    BY <1>1, <1>7 DEF IndInv, RevisionsWhole
  <1>10. Timely'
    <2> SUFFICES ASSUME set_back = 0
                 PROVE  (\A o \in Operators : calls[o] <= now) /\ Past(slots, asked, now) /\ Waited(slots, asked)
      BY <1>1, <1>3 DEF Timely
    <2>1. (\A o \in Operators : calls[o] <= now) /\ Past(slots, requests, now) /\ Waited(slots, requests)
      BY DEF IndInv, Timely
    <2> QED
      BY <1>5, <1>6, <2>1
  <1> QED
    BY <1>1, <1>3, <1>5, <1>8, <1>9, <1>10 DEF IndInv

\* Only a request under way moves, and only to a row that keeps its type.
LEMMA RequestRow ==
  ASSUME IndInv, NEW k \in SlotIndexes, RequestStep(k)
  PROVE  /\ requests[k].phase \in {"queued", "running"}
         /\ \E row \in Request :
               /\ row.phase # "absent" /\ (row.phase = "completed" => row.result = "eligible")
               /\ row.dispatched \in {requests[k].dispatched, Append(requests[k].dispatched, now)}
               /\ row.dispatched # requests[k].dispatched => scheduler_request_allowed(k) /\ Len(row.dispatched) <= Units
               /\ moved(k, row)
  <1>1. PICK old \in Request : old = requests[k]
    BY DEF IndInv, TypeOK
  <1>2. /\ old.attempt \in 0..MaxAttempts /\ old.phase \in Terminal \cup {"absent", "queued", "running"}
        /\ old.result \in Results /\ old.dispatched \in Seq(Times)
        /\ old = [attempt |-> old.attempt, phase |-> old.phase, result |-> old.result, dispatched |-> old.dispatched]
    BY <1>1 DEF Request
  <1>3. now \in Times
    BY DEF IndInv, TypeOK
  <1> DEFINE Good(row) ==
               /\ row.phase # "absent" /\ (row.phase = "completed" => row.result = "eligible")
               /\ row.dispatched \in {requests[k].dispatched, Append(requests[k].dispatched, now)}
               /\ row.dispatched # requests[k].dispatched => scheduler_request_allowed(k) /\ Len(row.dispatched) <= Units
               /\ moved(k, row)
  <1>4. CASE workflow_claim_monitor(k)
    <2>1. PICK row : row = [old EXCEPT !.phase = "running"]
      OBVIOUS
    <2>2. row \in Request /\ row.phase = "running" /\ row.dispatched = old.dispatched
      BY <1>2, <2>1 DEF Request
    <2>3. old.phase = "queued" /\ moved(k, row)
      BY <1>1, <1>4, <2>1 DEF workflow_claim_monitor
    <2> QED
      BY <1>1, <2>2, <2>3
  <1>5. CASE workflow_retry(k)
    <2>1. old.phase = "running"
      BY <1>1, <1>5 DEF workflow_retry
    <2>2. CASE attempts_left(k)
      <3>1. PICK n : n = old.attempt + 1
        OBVIOUS
      <3>2. n \in 0..MaxAttempts
        <4>1. old.attempt < MaxAttempts
          BY <1>1, <2>2 DEF attempts_left
        <4>2. old.attempt \in 0..MaxAttempts
          BY <1>2 DEF Request
        <4>3. MaxAttempts \in Nat
          BY SchedulerAssumption
        <4> QED
          BY <3>1, <4>1, <4>2, <4>3
      <3>3. PICK row : row = [old EXCEPT !.attempt = n, !.phase = "queued", !.result = "none"]
        OBVIOUS
      <3>4. row \in Request /\ row.phase = "queued" /\ row.dispatched = old.dispatched
        BY <1>2, <3>2, <3>3 DEF Request, Results
      <3>5. moved(k, row)
        BY <1>1, <1>5, <2>2, <3>1, <3>3 DEF workflow_retry
      <3> QED
        BY <1>1, <2>1, <3>4, <3>5
    <2>3. CASE ~attempts_left(k)
      <3>1. PICK row : row = [old EXCEPT !.phase = "failed"]
        OBVIOUS
      <3>2. row \in Request /\ row.phase = "failed" /\ row.dispatched = old.dispatched
        BY <1>2, <3>1 DEF Request, Terminal
      <3>3. moved(k, row)
        BY <1>1, <1>5, <2>3, <3>1 DEF workflow_retry
      <3> QED
        BY <1>1, <2>1, <3>2, <3>3
    <2> QED
      BY <2>2, <2>3
  <1>6. CASE ingestion_dispatch(k)
    <2>1. PICK d : d = Append(old.dispatched, now)
      OBVIOUS
    <2>2. d \in Seq(Times) /\ Len(d) = Len(old.dispatched) + 1 /\ Len(old.dispatched) \in Nat
      BY <1>2, <1>3, <2>1
    <2>3. PICK row : row = [old EXCEPT !.dispatched = d]
      OBVIOUS
    <2>4. old.phase = "running" /\ Len(old.dispatched) < Units /\ moved(k, row) /\ scheduler_request_allowed(k)
      BY <1>1, <1>6, <2>1, <2>3 DEF ingestion_dispatch
    <2>5. row \in Request /\ row.phase = "running" /\ row.dispatched = d
      BY <1>2, <2>2, <2>3, <2>4 DEF Request
    <2>6. Len(row.dispatched) <= Units
      BY <2>2, <2>4, <2>5, Numbers
    <2> QED
      BY <1>1, <2>1, <2>4, <2>5, <2>6
  <1>7. CASE \E result \in Results \ {"none"} : workflow_complete_monitor(k, result)
    <2>1. PICK result \in Results \ {"none"} : workflow_complete_monitor(k, result)
      BY <1>7
    <2>2. PICK row : row = [old EXCEPT !.result = result]
      OBVIOUS
    <2>3. old.phase = "running" /\ moved(k, row)
      BY <1>1, <2>1, <2>2 DEF workflow_complete_monitor
    <2>4. row \in Request /\ row.phase = "running" /\ row.dispatched = old.dispatched
      BY <1>2, <2>2, <2>3 DEF Request
    <2> QED
      BY <1>1, <2>3, <2>4
  <1>8. CASE workflow_finish(k)
    <2>1. PICK outcome \in outcomes(old.result) : moved(k, [requests[k] EXCEPT !.phase = outcome])
      BY <1>1, <1>8 DEF workflow_finish
    <2>2. outcome \in Terminal /\ (outcome = "completed" => old.result = "eligible")
      BY <1>2, <2>1 DEF outcomes, Terminal, Results
    <2>3. PICK row : row = [old EXCEPT !.phase = outcome]
      OBVIOUS
    <2>4. old.phase = "running" /\ moved(k, row)
      BY <1>1, <1>8, <2>1, <2>3 DEF workflow_finish
    <2>5. row \in Request /\ row.phase = outcome /\ row.dispatched = old.dispatched /\ row.result = old.result
      BY <1>2, <2>2, <2>3 DEF Request
    <2> QED
      BY <1>1, <2>2, <2>4, <2>5 DEF Terminal
  <1>9. CASE workflow_cancel(k)
    <2>1. PICK row : row = [old EXCEPT !.phase = "cancelled"]
      OBVIOUS
    <2>2. row \in Request /\ row.phase = "cancelled" /\ row.dispatched = old.dispatched
      BY <1>2, <2>1 DEF Request, Terminal
    <2>3. old.phase \in {"queued", "running"} /\ moved(k, row)
      BY <1>1, <1>9, <2>1 DEF workflow_cancel
    <2> QED
      BY <1>1, <2>2, <2>3
  <1> QED
    BY <1>4, <1>5, <1>6, <1>7, <1>8, <1>9 DEF RequestStep

LEMMA RequestOK ==
  ASSUME IndInv, NEW k \in SlotIndexes, RequestStep(k), UNCHANGED set_back
  PROVE  IndInv'
  <1>1. PICK row \in Request :
               /\ row.phase # "absent" /\ (row.phase = "completed" => row.result = "eligible")
               /\ row.dispatched \in {requests[k].dispatched, Append(requests[k].dispatched, now)}
               /\ moved(k, row)
    BY RequestRow
  <1> QED
    BY <1>1, RequestRow, MovedOK
-----------------------------------------------------------------------------
(* A tick: it is refused only if the clock has gone back since its call;   *)
(* otherwise it reconciles, and then may take the latest due slot.         *)

new_request == [no_request EXCEPT !.attempt = 1, !.phase = "queued"]

Takes(k, row, t) ==
    /\ row \in Slot /\ row.created_at = now /\ row.epoch = epoch /\ row.due_at = scheduler_due(epoch, k)
    /\ row.baseline = reconciled_state.baseline_slot /\ row.resolved_at = NoTime
    /\ reconciled_state.unresolved_slot = NoSlot /\ reconciled_state.retry_at <= t /\ k > state.last_slot
    /\ scheduler_due(epoch, k) <= t /\ \A j \in SlotIndexes : j > k => scheduler_due(epoch, j) > t
    /\ slots' = [reconciled_slots EXCEPT ![k] = row]
    /\ requests' = [requests EXCEPT ![k] = new_request]
    /\ missed' = missed \cup missed_range(state.last_slot, k)
    /\ state' = [reconciled_state EXCEPT !.last_slot = k, !.unresolved_slot = k]

LEMMA TickCases ==
  ASSUME IndInv, NEW o \in Operators, scheduler_tick(o)
  PROVE  /\ created /\ calls[o] \in Times
         /\ calls' = [calls EXCEPT ![o] = NoTime] /\ now' = now /\ revisions' = revisions
         /\ \/ calls[o] > now /\ UNCHANGED <<state, slots, missed, requests>>
            \/ state' = reconciled_state /\ slots' = reconciled_slots /\ UNCHANGED <<missed, requests>>
            \/ \E k \in SlotIndexes, row \in Slot : Takes(k, row, calls[o])
  <1>1. PICK t : t = calls[o]
    OBVIOUS
  <1>2. PICK st : st = reconciled_state
    OBVIOUS
  <1>3. PICK k : k = latest_slot(state.last_slot, t)
    OBVIOUS
  <1>4. /\ ~reconcile_refused /\ History(reconciled_state, reconciled_slots, requests, missed)
        /\ st.last_slot = state.last_slot
    BY <1>2, Reconciled DEF IndInv
  <1>5. PICK answer : answer = tick_answer(reconciled_state, reconciled_slots, t)
    OBVIOUS
  <1>6. /\ t # NoTime /\ calls' = [calls EXCEPT ![o] = NoTime] /\ now' = now /\ revisions' = revisions
        /\ \/ /\ tick_refused(answer, k) /\ UNCHANGED <<state, slots, missed, requests>>
           \/ /\ ~tick_refused(answer, k) /\ answer = "materialized"
              /\ materialize(reconciled_state, reconciled_slots, k)
           \/ /\ state' = reconciled_state /\ slots' = reconciled_slots /\ UNCHANGED <<missed, requests>>
    BY <1>1, <1>2, <1>3, <1>4, <1>5 DEF scheduler_tick
  <1>7. created /\ t \in Times
    <2>1. t \in Times
      BY <1>1, <1>6 DEF IndInv, TypeOK
    <2> QED
      BY <1>1, <1>6, <2>1 DEF IndInv, RevisionsWhole
  <1>8. ASSUME answer = "materialized"
        PROVE  st.unresolved_slot = NoSlot /\ ~(st.retry_at > t) /\ k >= 0 /\ k > state.last_slot
    <2>1. st.unresolved_slot = NoSlot /\ ~(st.retry_at > t) /\ ~(k < 0) /\ ~(k <= state.last_slot)
      BY <1>2, <1>3, <1>4, <1>5, <1>8 DEF tick_answer
    <2>2. k \in Int
      BY <1>3, <1>7, LatestSlot DEF IndInv
    <2>3. state.last_slot \in Int
      BY Numbers DEF IndInv, TypeOK, State
    <2> QED
      BY <2>1, <2>2, <2>3
  <1>9. ASSUME k > state.last_slot
        PROVE  /\ k \in SlotIndexes /\ revision_at(k) = epoch
               /\ scheduler_due(epoch, k) <= t /\ nominal_at(k) <= t
               /\ \A j \in SlotIndexes : j > k => scheduler_due(epoch, j) > t
    BY <1>3, <1>7, <1>9, LatestSlot DEF IndInv
  <1>10. CASE tick_refused(answer, k) /\ UNCHANGED <<state, slots, missed, requests>>
    <2>1. answer = "materialized" /\ nominal_at(k) > now
      BY <1>4, <1>10 DEF tick_refused
    <2>2. nominal_at(k) <= t /\ k \in Int
      BY <1>8, <1>9, <2>1, Numbers
    <2>3. nominal_at(k) \in Int /\ t \in Int /\ now \in Int
      BY <1>7, <2>2, NominalOrder, Numbers DEF IndInv, TypeOK
    <2>4. t > now
      BY <2>1, <2>2, <2>3
    <2> QED
      BY <1>1, <1>6, <1>7, <1>10, <2>4
  <1>11. CASE answer = "materialized" /\ materialize(reconciled_state, reconciled_slots, k)
    <2>1. /\ k \in SlotIndexes /\ revision_at(k) = epoch /\ k > state.last_slot
          /\ scheduler_due(epoch, k) <= t /\ \A j \in SlotIndexes : j > k => scheduler_due(epoch, j) > t
      BY <1>8, <1>9, <1>11
    <2>2. PICK b : b = reconciled_state.baseline_slot
      OBVIOUS
    <2>3. b \in SlotIndexes \cup {NoSlot} /\ st.retry_at \in Nat \cup {NoTime}
      BY <1>2, <1>4, <2>2, RowTypes DEF History
    <2>4. st.retry_at <= t /\ st.unresolved_slot = NoSlot
      <3>1. st.retry_at \in Int /\ t \in Int
        BY <1>7, <2>3, Numbers
      <3> QED
        BY <1>8, <1>11, <3>1
    <2>5. PICK d \in Int : d = scheduler_due(epoch, k)
      BY <1>7, <2>1, DueTimes, Numbers DEF IndInv
    <2>6. PICK row : row = [created_at |-> now, epoch |-> epoch, due_at |-> d, baseline |-> b, resolved_at |-> NoTime]
      OBVIOUS
    <2>7. /\ row \in Slot /\ row.created_at = now /\ row.epoch = epoch /\ row.due_at = d
          /\ row.baseline = b /\ row.resolved_at = NoTime
      <3>1. now \in Times /\ epoch \in Epochs
        BY <1>7, Configured DEF IndInv, TypeOK
      <3> QED
        BY <2>3, <2>6, <3>1 DEF Slot
    <2>8. slots' = [reconciled_slots EXCEPT ![k] = row]
      BY <1>11, <2>1, <2>2, <2>5, <2>6 DEF materialize
    <2>9. /\ requests' = [requests EXCEPT ![k] = new_request]
          /\ missed' = missed \cup missed_range(st.last_slot, k)
          /\ state' = [reconciled_state EXCEPT !.last_slot = k, !.unresolved_slot = k]
      BY <1>2, <1>11 DEF materialize, new_request
    <2>10. missed' = missed \cup missed_range(state.last_slot, k)
      BY <1>4, <2>9
    <2>11. Takes(k, row, t)
      BY <1>2, <2>1, <2>2, <2>4, <2>5, <2>7, <2>8, <2>9, <2>10 DEF Takes
    <2> QED
      BY <1>1, <1>6, <1>7, <2>1, <2>7, <2>11
  <1>12. CASE state' = reconciled_state /\ slots' = reconciled_slots /\ UNCHANGED <<missed, requests>>
    BY <1>1, <1>6, <1>7, <1>12
  <1> QED
    BY <1>6, <1>10, <1>11, <1>12

LEMMA TickOK ==
  ASSUME IndInv, NEW o \in Operators, scheduler_tick(o), UNCHANGED set_back
  PROVE  IndInv'
  <1>1. /\ created /\ calls[o] \in Times /\ calls' = [calls EXCEPT ![o] = NoTime]
        /\ now' = now /\ revisions' = revisions /\ set_back' = set_back
    BY TickCases
  <1>2. epoch' = epoch /\ (created' <=> created)
    BY <1>1 DEF epoch, created
  <1>3. now \in Times /\ calls \in [Operators -> Times \cup {NoTime}]
    BY DEF IndInv, TypeOK
  <1>4. calls' \in [Operators -> Times \cup {NoTime}] /\ \A p \in Operators : calls'[p] \in {calls[p], NoTime}
    BY <1>1, <1>3
  <1>5. set_back = 0 => calls[o] <= now /\ Past(slots, requests, now) /\ Waited(slots, requests)
                        /\ \A p \in Operators : calls'[p] <= now
    <2>1. NoTime <= now
      BY <1>3, Numbers
    <2> QED
      BY <1>4, <2>1 DEF IndInv, Timely
  <1>6. /\ History(reconciled_state, reconciled_slots, requests, missed)
        /\ reconciled_state.last_slot = state.last_slot
        /\ Waited(slots, requests) => Waited(reconciled_slots, requests)
        /\ Past(slots, requests, now) => Past(reconciled_slots, requests, now)
    BY Reconciled DEF IndInv
  <1>7. ASSUME History(state', slots', requests', missed'), state'.last_slot >= state.last_slot,
               set_back = 0 => Past(slots', requests', now) /\ Waited(slots', requests')
        PROVE  IndInv'
    <2>1. TypeOK'
      <3>1. Types(state', slots', requests', missed')
        BY <1>7 DEF History
      <3> QED
        BY <1>1, <1>2, <1>4, <3>1 DEF IndInv, TypeOK, Types
    <2>2. RevisionsWhole'
      <3>1. PICK old : old = state.last_slot
        OBVIOUS
      <3>2. PICK last : last = state'.last_slot
        OBVIOUS
      <3>3. old \in Int /\ last \in Int /\ old <= last
        <4>1. old \in SlotIndexes \cup {NoSlot}
          BY <3>1 DEF IndInv, TypeOK, State
        <4>2. last \in SlotIndexes \cup {NoSlot}
          BY <2>1, <3>2 DEF TypeOK, State
        <4> QED
          BY <1>7, <3>1, <3>2, <4>1, <4>2, Numbers
      <3>4. \A e \in 1..epoch : revisions[e].first_slot \in 0..(MaxSlot + 1) /\ revisions[e].first_slot <= old + 1
        BY <3>1 DEF IndInv, TypeOK, RevisionsWhole
      <3>5. ASSUME NEW n \in 0..(MaxSlot + 1), n <= old + 1 PROVE n <= last + 1
        BY <3>3, <3>5, Numbers
      <3>6. \A e \in 1..epoch : revisions[e].first_slot <= last + 1
        BY <3>4, <3>5
      <3> QED
        BY <1>1, <1>2, <3>2, <3>6 DEF IndInv, RevisionsWhole
    <2>3. Timely'
      BY <1>1, <1>5, <1>7 DEF Timely
    <2> QED
      BY <1>7, <2>1, <2>2, <2>3 DEF IndInv
  <1>8. state.last_slot \in Int
    BY Numbers DEF IndInv, TypeOK, State
  <1>9. CASE UNCHANGED <<state, slots, missed, requests>>
    <2>1. state' = state /\ slots' = slots /\ requests' = requests /\ missed' = missed
      BY <1>9
    <2>2. state.last_slot >= state.last_slot
      BY <1>8
    <2> QED
      BY <1>5, <1>7, <2>1, <2>2 DEF IndInv
  <1>10. CASE state' = reconciled_state /\ slots' = reconciled_slots /\ UNCHANGED <<missed, requests>>
    <2>1. missed' = missed /\ requests' = requests
      BY <1>10
    <2>2. state'.last_slot >= state.last_slot
      BY <1>6, <1>8, <1>10
    <2> QED
      BY <1>5, <1>6, <1>7, <1>10, <2>1, <2>2
  <1>11. CASE \E k \in SlotIndexes, row \in Slot : Takes(k, row, calls[o])
    <2>1. PICK k \in SlotIndexes, row \in Slot : Takes(k, row, calls[o])
      BY <1>11
    <2>2. PICK st : st = reconciled_state
      OBVIOUS
    <2>3. PICK rows : rows = reconciled_slots
      OBVIOUS
    <2>4. /\ History(st, rows, requests, missed) /\ st.unresolved_slot = NoSlot /\ k > st.last_slot
          /\ row.created_at \in Times /\ row.created_at = now /\ row.baseline = st.baseline_slot
          /\ row.resolved_at = NoTime /\ st.retry_at <= calls[o]
      BY <1>3, <1>6, <2>1, <2>2, <2>3 DEF Takes
    <2>5. /\ st \in State /\ rows \in [SlotIndexes -> Slot] /\ requests \in [SlotIndexes -> Request]
      BY <2>4 DEF History, Types
    <2>6. new_request \in Request /\ new_request.phase = "queued" /\ new_request.dispatched = <<>>
      <3>1. <<>> \in Seq(Times) /\ 1 \in 0..MaxAttempts
        BY SchedulerAssumption
      <3> QED
        BY <3>1 DEF new_request, no_request, Request, Results
    <2>7. PICK next : next = [st EXCEPT !.last_slot = k, !.unresolved_slot = k]
      OBVIOUS
    <2>8. /\ next \in State /\ next.last_slot = k /\ next.unresolved_slot = k /\ next.failures = st.failures
          /\ next.baseline_slot = st.baseline_slot /\ next.retry_at = st.retry_at
      BY <2>5, <2>7 DEF State
    <2>9. PICK after : after = [rows EXCEPT ![k] = row]
      OBVIOUS
    <2>10. after \in [SlotIndexes -> Slot] /\ after[k] = row /\ \A i \in SlotIndexes \ {k} : after[i] = rows[i]
      BY <2>5, <2>9
    <2>11. PICK asked : asked = [requests EXCEPT ![k] = new_request]
      OBVIOUS
    <2>12. /\ asked \in [SlotIndexes -> Request] /\ asked[k] = new_request
           /\ \A i \in SlotIndexes \ {k} : asked[i] = requests[i]
      BY <2>5, <2>6, <2>11
    <2>13. /\ History(next, after, asked, missed \cup missed_range(st.last_slot, k))
           /\ Waited(rows, requests) /\ st.retry_at <= row.created_at => Waited(after, asked)
           /\ \A n \in Times : Past(rows, requests, n) => Past(after, asked, n)
      <3>1. Adds(st, rows, requests, k, row, new_request, next, after, asked)
        BY <2>4, <2>6, <2>8, <2>10, <2>12 DEF Adds
      <3> QED
        BY <2>4, <2>5, <2>6, <2>8, <2>10, <2>12, <3>1, Materializes
    <2>14. /\ state' = next /\ slots' = after /\ requests' = asked
           /\ missed' = missed \cup missed_range(st.last_slot, k)
      BY <1>6, <2>1, <2>2, <2>3, <2>7, <2>9, <2>11 DEF Takes
    <2>15. set_back = 0 => Past(after, asked, now) /\ Waited(after, asked)
      <3>1. st.retry_at \in Int /\ calls[o] \in Int /\ now \in Int
        <4>1. st.retry_at \in Nat \cup {NoTime}
          BY <2>5 DEF State
        <4>2. calls[o] \in Nat \cup {NoTime} /\ now \in Nat \cup {NoTime}
          BY <1>1, <1>3, Numbers
        <4>3. \A x \in Nat \cup {NoTime} : x \in Int
          BY Numbers
        <4> QED
          BY <4>1, <4>2, <4>3
      <3>2. calls[o] <= now => st.retry_at <= row.created_at
        BY <2>4, <3>1
      <3> QED
        BY <1>3, <1>5, <1>6, <2>3, <2>13, <3>2
    <2>16. state'.last_slot >= state.last_slot
      <3>1. k > state.last_slot /\ k \in Int
        BY <2>1, Numbers DEF Takes
      <3> QED
        BY <1>8, <2>8, <2>14, <3>1
    <2> QED
      BY <1>7, <2>13, <2>14, <2>15, <2>16
  <1> QED
    BY <1>9, <1>10, <1>11, TickCases
-----------------------------------------------------------------------------
(* The theorems.                                                           *)

LEMMA NextOK ==
  ASSUME IndInv, [Next]_vars
  PROVE  IndInv'
  <1>1. CASE \E c \in Configs : scheduler_create(c) /\ UNCHANGED set_back
    BY <1>1, CreateOK
  <1>2. CASE \E expected \in 1..Cardinality(RevisionKeys), key \in RevisionKeys, c \in Configs :
                scheduler_revise(expected, key, c) /\ UNCHANGED set_back
    BY <1>2, ReviseOK
  <1>3. CASE \E o \in Operators : call_tick(o) /\ UNCHANGED set_back
    BY <1>3, CallOK
  <1>4. CASE \E o \in Operators : scheduler_tick(o) /\ UNCHANGED set_back
    BY <1>4, TickOK
  <1>5. CASE \E k \in SlotIndexes : RequestStep(k) /\ UNCHANGED set_back
    BY <1>5, RequestOK
  <1>6. CASE Clock
    BY <1>6, ClockOK
  <1>7. CASE UNCHANGED vars
    <2>1. /\ set_back' = set_back /\ now' = now /\ calls' = calls /\ revisions' = revisions /\ state' = state
          /\ slots' = slots /\ missed' = missed /\ requests' = requests
      BY <1>7 DEF vars
    <2>2. epoch' = epoch /\ (created' <=> created)
      BY <2>1 DEF epoch, created
    <2> QED
      BY <2>1, <2>2 DEF IndInv, TypeOK, RevisionsWhole, Timely
  <1> QED
    BY <1>1, <1>2, <1>3, <1>4, <1>5, <1>6, <1>7 DEF Next

\* The rows of the schedule keep their types, and its cursor, unresolved
\* slot and baseline carry the whole history.
THEOREM Invariance == Spec => []IndInv
  BY InitOK, NextOK, PTL DEF Spec

LEMMA HistoryTold ==
  ASSUME IndInv
  PROVE  ScheduleHistory
  <1>1. History(state, slots, requests, missed) /\ TypeOK
    BY DEF IndInv
  <1>2. \A k \in SlotIndexes : (materialized(k) <=> Made(slots, k)) /\ (resolved(k) <=> Done(slots, k))
    BY DEF materialized, resolved, Made, Done
  <1>3. SlotsAccounted
    <2> SUFFICES ASSUME NEW k \in SlotIndexes
                 PROVE  /\ materialized(k) => k <= state.last_slot
                        /\ k <= state.last_slot =>
                              Cardinality({m \in missed : m[1] <= k /\ k <= m[2]}) = IF materialized(k) THEN 0 ELSE 1
                        /\ materialized(k) /\ ~resolved(k) <=> state.unresolved_slot = k
                        /\ materialized(k) <=> requests[k].phase # "absent"
                        /\ resolved(k) => requests[k].phase \in Terminal
      BY DEF SlotsAccounted
    <2>1. /\ Made(slots, k) => k <= state.last_slot
          /\ k <= state.last_slot => Cardinality(covering(missed, k)) = IF Made(slots, k) THEN 0 ELSE 1
          /\ Made(slots, k) /\ ~Done(slots, k) <=> state.unresolved_slot = k
          /\ Made(slots, k) <=> requests[k].phase # "absent"
          /\ Done(slots, k) => requests[k].phase \in Terminal
      BY <1>1 DEF History, Accounted
    <2> QED
      BY <1>2, <2>1 DEF covering
  <1>4. BaselineLineage
    <2>1. ~reconcile_refused
      BY <1>1, Reconciled
    <2>2. ASSUME NEW k \in SlotIndexes, materialized(k), NEW b, b = slots[k].baseline
          PROVE  /\ b # NoSlot => b < k /\ resolved(b) /\ requests[b].phase = "completed"
                 /\ \A j \in (b + 1)..(k - 1) : requests[j].phase # "completed"
      <3>1. Compared(slots, requests, k)
        BY <1>1, <1>2, <2>2 DEF History, Baseline
      <3> QED
        BY <2>2, <3>1 DEF Compared, resolved, Done
    <2>3. \A k \in SlotIndexes : resolved(k) /\ requests[k].phase = "completed" => k <= state.baseline_slot
      BY <1>1, <1>2 DEF History, Baseline
    <2>4. ASSUME state.unresolved_slot # NoSlot
          PROVE  slots[state.unresolved_slot].baseline = state.baseline_slot
      <3>1. state.unresolved_slot = state.last_slot /\ state.unresolved_slot \in SlotIndexes
        BY <1>1, <2>4, RowTypes DEF History, Cursor
      <3> QED
        BY <1>1, <3>1 DEF History, Baseline
    <2> QED
      BY <2>1, <2>2, <2>3, <2>4 DEF BaselineLineage
  <1>5. BackoffSurvivesResume
    <2> SUFFICES ASSUME set_back = 0, NEW j \in SlotIndexes, NEW k \in SlotIndexes,
                        j < k, materialized(j), materialized(k), requests[j].phase # "completed",
                        \A i \in (j + 1)..(k - 1) : ~materialized(i)
                 PROVE  slots[k].created_at >= slots[j].resolved_at +
                           backoff(Cardinality({i \in SlotIndexes :
                              slots[j].baseline < i /\ i < j /\ materialized(i)}))
      BY DEF BackoffSurvivesResume
    <2>1. Waited(slots, requests)
      BY DEF IndInv, Timely
    <2>2. \A i \in (j + 1)..(k - 1) : ~Made(slots, i)
      BY DEF materialized, Made
    <2>3. between(slots, slots[j].baseline, j) =
             {i \in SlotIndexes : slots[j].baseline < i /\ i < j /\ materialized(i)}
      BY <1>2 DEF between
    <2>4. slots[k].created_at >=
             slots[j].resolved_at + backoff(Cardinality(between(slots, slots[j].baseline, j)))
      BY <1>2, <2>1, <2>2 DEF Waited
    <2> QED
      BY <2>3, <2>4
  <1> QED
    BY <1>1, <1>3, <1>4, <1>5 DEF ScheduleHistory

\* The rows tell the schedule's history truly: no slot is lost or polled
\* twice, no baseline moves back, no back-off is cut short (scheduler_tick,
\* scheduler_reconcile, scheduler_revise).
THEOREM HistoryIsTold == Spec => []ScheduleHistory
  BY Invariance, HistoryTold, PTL

LEMMA HealthAgrees ==
  ASSUME IndInv
  PROVE  HealthAgreesWithTick
  <1> SUFFICES ASSUME created, NEW answer, answer = tick_answer(reconciled_state, reconciled_slots, now)
               PROVE  /\ health = "rebase_required" => answer = "rebase_required"
                      /\ health = "ready" /\ nominal_at(state.last_slot + 1) >= InventoryStart =>
                            answer = IF next_due_at <= now THEN "materialized" ELSE "not_due"
    BY DEF HealthAgreesWithTick
  <1>1. now \in Times /\ now \in Int /\ TypeOK /\ RevisionsWhole /\ state \in State
    BY Numbers DEF IndInv, TypeOK
  <1>2. ASSUME health = "rebase_required" PROVE answer = "rebase_required"
    <2>1. window_expired(now) \/ state.rebase_reason # "null"
      BY <1>2 DEF health
    <2>2. state.rebase_reason # "null" => reconciled_state.rebase_reason # "null"
      BY <1>1 DEF reconciled_state, State
    <2> QED
      BY <2>1, <2>2 DEF tick_answer
  <1>3. ASSUME health = "ready", nominal_at(state.last_slot + 1) >= InventoryStart
        PROVE  answer = IF next_due_at <= now THEN "materialized" ELSE "not_due"
    <2>1. /\ ~window_expired(now) /\ state.rebase_reason = "null" /\ config.active
          /\ state.unresolved_slot = NoSlot /\ ~(state.retry_at > now) /\ ~budget_full
      BY <1>3 DEF health
    <2>2. reconciled_state = state /\ reconciled_slots = slots
      BY <2>1 DEF reconciled_state, reconciled_slots, to_reconcile
    <2>3. PICK k : k = latest_slot(state.last_slot, now)
      OBVIOUS
    <2>4. /\ k \in Int
          /\ k > state.last_slot => k \in SlotIndexes /\ nominal_at(k) <= now
          /\ k > state.last_slot <=> next_due_at <= now
      BY <1>1, <2>3, LatestSlot DEF next_due_at
    <2>5. state.last_slot \in Int /\ state.last_slot >= -1
      BY <1>1, Numbers DEF State
    <2>6. answer = IF k < 0 \/ k <= state.last_slot THEN "not_due"
                   ELSE IF nominal_at(k) \notin InventoryStart..(InventoryEnd - 1) THEN "rebase_required"
                   ELSE IF scheduler_budget(slots) + Units > config.budget THEN "deferred"
                   ELSE "materialized"
      BY <2>1, <2>2, <2>3 DEF tick_answer
    <2>7. ~(scheduler_budget(slots) + Units > config.budget)
      BY <2>1 DEF budget_full
    <2>8. CASE next_due_at <= now
      <3>1. k > state.last_slot /\ k \in SlotIndexes /\ nominal_at(k) <= now
        BY <2>4, <2>8
      <3>2. ~(k < 0) /\ ~(k <= state.last_slot) /\ state.last_slot + 1 <= k
        BY <2>4, <2>5, <3>1, Numbers
      <3>3. nominal_at(state.last_slot + 1) <= nominal_at(k) /\ nominal_at(k) \in Int
            /\ nominal_at(state.last_slot + 1) \in Int
        <4>1. PICK i \in Int : i = state.last_slot + 1
          BY <2>5
        <4>2. i <= k
          BY <3>2, <4>1
        <4> QED
          BY <2>4, <4>1, <4>2, NominalOrder
      <3>4. InventoryStart \in Int /\ InventoryEnd \in Int /\ ~(now >= InventoryEnd)
        BY <2>1, SchedulerAssumption DEF window_expired
      <3>5. nominal_at(k) \in InventoryStart..(InventoryEnd - 1)
        BY <1>1, <1>3, <3>1, <3>3, <3>4
      <3> QED
        BY <2>6, <2>7, <2>8, <3>2, <3>5
    <2>9. CASE ~(next_due_at <= now)
      <3>1. k <= state.last_slot
        BY <2>4, <2>5, <2>9
      <3> QED
        BY <2>6, <2>9, <3>1
    <2> QED
      BY <2>8, <2>9
  <1> QED
    BY <1>2, <1>3

\* What schedule_snapshot shows is what scheduler_tick would do.
THEOREM HealthIsTrue == Spec => []HealthAgreesWithTick
  BY Invariance, HealthAgrees, PTL
-----------------------------------------------------------------------------
(* What one transaction may do.                                            *)

\* Which transactions move a slot, answer a tick or dispatch a fetch.
LEMMA StepCases ==
  ASSUME IndInv, [Next]_vars
  PROVE  \/ \E o \in Operators : scheduler_tick(o)
         \/ /\ slots' = slots /\ \A o \in Operators : calls'[o] \in {calls[o], now}
            /\ \/ requests' = requests
               \/ \E k \in SlotIndexes : RequestStep(k) /\ now' = now /\ set_back' = set_back
  <1>1. CASE UNCHANGED vars
    BY <1>1 DEF vars
  <1>2. CASE Clock
    BY <1>2 DEF Clock
  <1>3. ASSUME NEW c \in Configs, scheduler_create(c) PROVE slots' = slots /\ requests' = requests /\ calls' = calls
    BY <1>3 DEF scheduler_create
  <1>4. ASSUME NEW expected, NEW key, NEW c, scheduler_revise(expected, key, c)
        PROVE  slots' = slots /\ requests' = requests /\ calls' = calls
    BY <1>4 DEF scheduler_revise
  <1>5. ASSUME NEW o \in Operators, call_tick(o)
        PROVE  slots' = slots /\ requests' = requests /\ \A p \in Operators : calls'[p] \in {calls[p], now}
    <2>1. calls \in [Operators -> Times \cup {NoTime}]
      BY DEF IndInv, TypeOK
    <2> QED
      BY <1>5, <2>1 DEF call_tick
  <1>6. ASSUME NEW k \in SlotIndexes, RequestStep(k) PROVE slots' = slots /\ calls' = calls /\ now' = now
    BY <1>6, RequestRow DEF moved
  <1> QED
    BY <1>1, <1>2, <1>3, <1>4, <1>5, <1>6 DEF Next

\* What a tick does to slot i.
LEMMA TickOnSlot ==
  ASSUME IndInv, NEW o \in Operators, scheduler_tick(o), NEW i \in SlotIndexes
  PROVE  /\ calls'[o] = NoTime /\ \A p \in Operators \ {o} : calls'[p] = calls[p]
         /\ ~Made(slots, i) /\ Made(slots', i) => /\ slots'[i].epoch = epoch /\ slots'[i].due_at <= calls[o]
                                                 /\ \A j \in SlotIndexes : j > i => scheduler_due(epoch, j) > calls[o]
         /\ calls[o] <= now /\ requests[i].phase \in Terminal => Done(slots', i)
         /\ requests'[i].dispatched = requests[i].dispatched
  <1>1. /\ calls[o] \in Times /\ calls' = [calls EXCEPT ![o] = NoTime]
        /\ \/ calls[o] > now /\ UNCHANGED <<state, slots, missed, requests>>
           \/ state' = reconciled_state /\ slots' = reconciled_slots /\ UNCHANGED <<missed, requests>>
           \/ \E k \in SlotIndexes, row \in Slot : Takes(k, row, calls[o])
    BY TickCases
  <1>2. calls'[o] = NoTime /\ \A p \in Operators \ {o} : calls'[p] = calls[p]
    BY <1>1 DEF IndInv, TypeOK
  <1>3. /\ History(reconciled_state, reconciled_slots, requests, missed)
        /\ to_reconcile => /\ reconciled_state.unresolved_slot = NoSlot
                           /\ reconciled_slots[state.unresolved_slot].resolved_at = now
        /\ Made(reconciled_slots, i) <=> Made(slots, i)
        /\ Done(slots, i) => Done(reconciled_slots, i)
    BY Reconciled DEF IndInv
  <1>4. ASSUME requests[i].phase \in Terminal PROVE Done(reconciled_slots, i) /\ i <= state.last_slot
    <2>1. Made(slots, i) /\ i <= state.last_slot
      BY <1>4 DEF IndInv, History, Accounted, Terminal
    <2>2. CASE Done(slots, i)
      BY <1>3, <2>1, <2>2
    <2>3. CASE ~Done(slots, i)
      <3>1. state.unresolved_slot = i
        BY <2>1, <2>3 DEF IndInv, History, Accounted
      <3>2. to_reconcile
        BY <1>4, <3>1, Numbers DEF to_reconcile
      <3>3. now # NoTime
        BY Numbers DEF IndInv, TypeOK
      <3> QED
        BY <1>3, <2>1, <3>1, <3>2, <3>3 DEF Done
    <2> QED
      BY <2>2, <2>3
  <1>5. CASE calls[o] > now /\ UNCHANGED <<state, slots, missed, requests>>
    <2>1. ~(calls[o] <= now)
      <3>1. calls[o] \in Int /\ now \in Int
        BY <1>1, Numbers DEF IndInv, TypeOK
      <3> QED
        BY <1>5, <3>1
    <2>2. slots' = slots /\ requests' = requests
      BY <1>5
    <2> QED
      BY <1>2, <2>1, <2>2
  <1>6. CASE state' = reconciled_state /\ slots' = reconciled_slots /\ UNCHANGED <<missed, requests>>
    <2>1. slots' = reconciled_slots /\ requests' = requests
      BY <1>6
    <2> QED
      BY <1>2, <1>3, <1>4, <2>1
  <1>7. CASE \E k \in SlotIndexes, row \in Slot : Takes(k, row, calls[o])
    <2>1. PICK k \in SlotIndexes, row \in Slot : Takes(k, row, calls[o])
      BY <1>7
    <2>2. PICK rows : rows = reconciled_slots
      OBVIOUS
    <2>3. PICK after : after = slots'
      OBVIOUS
    <2>4. rows \in [SlotIndexes -> Slot] /\ requests \in [SlotIndexes -> Request]
      BY <1>3, <2>2 DEF History, Types
    <2>5. after = [rows EXCEPT ![k] = row] /\ requests' = [requests EXCEPT ![k] = new_request]
      BY <2>1, <2>2, <2>3 DEF Takes
    <2>6. /\ row.epoch = epoch /\ row.due_at <= calls[o] /\ k > state.last_slot
          /\ \A j \in SlotIndexes : j > k => scheduler_due(epoch, j) > calls[o]
      BY <2>1 DEF Takes
    <2>7. after[k] = row /\ \A j \in SlotIndexes : j # k => after[j] = rows[j]
      BY <2>4, <2>5
    <2>8. state.last_slot \in Int /\ i \in Int /\ k \in Int
      BY Numbers DEF IndInv, TypeOK, State
    <2>9. ASSUME ~Made(slots, i), Made(after, i)
          PROVE  /\ after[i].epoch = epoch /\ after[i].due_at <= calls[o]
                 /\ \A j \in SlotIndexes : j > i => scheduler_due(epoch, j) > calls[o]
      <3>1. i = k
        BY <1>3, <2>2, <2>7, <2>9 DEF Made
      <3> QED
        BY <2>6, <2>7, <3>1
    <2>10. ASSUME requests[i].phase \in Terminal PROVE Done(after, i)
      <3>1. i # k
        BY <1>4, <2>6, <2>8, <2>10
      <3> QED
        BY <1>4, <2>2, <2>7, <2>10, <3>1 DEF Done
    <2>11. requests'[i].dispatched = requests[i].dispatched
      <3>1. CASE i = k
        <4>1. ~Made(slots, i)
          BY <2>6, <2>8, <3>1 DEF IndInv, History, Accounted
        <4>2. requests[i] = no_request
          BY <4>1 DEF IndInv, History, Accounted, RequestRows
        <4>3. requests'[i] = new_request
          BY <2>4, <2>5, <3>1
        <4> QED
          BY <4>2, <4>3 DEF new_request, no_request
      <3>2. CASE i # k
        BY <2>4, <2>5, <3>2
      <3> QED
        BY <3>1, <3>2
    <2> QED
      BY <1>2, <2>3, <2>9, <2>10, <2>11
  <1> QED
    BY <1>1, <1>5, <1>6, <1>7

\* The fetches dispatched within the window belong to slots that hold their
\* units.
LEMMA DispatchedWithinBudget ==
  ASSUME NEW rows \in [SlotIndexes -> Slot], NEW reqs \in [SlotIndexes -> Request], NEW n \in Times,
         Past(rows, reqs, n), \A k \in SlotIndexes : reqs[k].dispatched # <<>> => Made(rows, k)
  PROVE  Cardinality({d \in SlotIndexes \X (1..Units) :
            /\ d[2] <= Len(reqs[d[1]].dispatched)
            /\ reqs[d[1]].dispatched[d[2]] > n - BudgetWindow})
         <= Units * Cardinality({k \in SlotIndexes : Made(rows, k) /\
                                   (rows[k].resolved_at = NoTime \/ rows[k].resolved_at > n - BudgetWindow)})
  <1> DEFINE recent == {d \in SlotIndexes \X (1..Units) :
                          /\ d[2] <= Len(reqs[d[1]].dispatched)
                          /\ reqs[d[1]].dispatched[d[2]] > n - BudgetWindow}
             held == {k \in SlotIndexes : Made(rows, k) /\
                        (rows[k].resolved_at = NoTime \/ rows[k].resolved_at > n - BudgetWindow)}
  <1>1. recent \subseteq held \X (1..Units)
    <2> SUFFICES ASSUME NEW k \in SlotIndexes, NEW i \in 1..Units, i <= Len(reqs[k].dispatched),
                        reqs[k].dispatched[i] > n - BudgetWindow
                 PROVE  k \in held
      OBVIOUS
    <2>1. PICK s \in Seq(Times) : s = reqs[k].dispatched
      BY DEF Request
    <2>2. i \in 1..Len(s)
      BY <2>1, Numbers
    <2>3. Made(rows, k)
      <3>1. s # <<>>
        BY <2>2
      <3> QED
        BY <2>1, <3>1
    <2>4. Done(rows, k) => s[i] <= rows[k].resolved_at
      BY <2>1, <2>2 DEF Past
    <2>5. s[i] \in Times
      BY <2>2
    <2>6. PICK r \in Times \cup {NoTime} : r = rows[k].resolved_at
      BY DEF Slot
    <2>7. r \in Int /\ s[i] \in Int /\ n - BudgetWindow \in Int
      <3>1. \A x \in Times \cup {NoTime} : x \in Int
        BY Numbers
      <3>2. s[i] \in Times \cup {NoTime} /\ n \in Int /\ BudgetWindow \in Int
        BY <2>5, Numbers
      <3>3. n - BudgetWindow \in Int
        BY <3>2
      <3>4. r \in Int /\ s[i] \in Int
        BY <2>6, <3>1, <3>2
      <3> QED
        BY <3>3, <3>4
    <2>8. r # NoTime => r > n - BudgetWindow
      BY <2>1, <2>4, <2>6, <2>7 DEF Done
    <2> QED
      BY <2>3, <2>6, <2>8
  <1>2. IsFiniteSet(held) /\ Cardinality(held) \in Nat
    BY SlotsFinite
  <1>3. IsFiniteSet(1..Units) /\ Cardinality(1..Units) = Units
    <2>1. 1 \in Int /\ Units \in Int /\ Units >= 1
      BY Numbers
    <2>2. Cardinality(1..Units) = IF 1 > Units THEN 0 ELSE Units - 1 + 1
      BY <2>1, FS_Interval
    <2> QED
      BY <2>1, <2>2, FS_Interval
  <1>4. IsFiniteSet(held \X (1..Units)) /\ Cardinality(held \X (1..Units)) = Cardinality(held) * Units
    BY <1>2, <1>3, FS_Product
  <1>5. Cardinality(recent) <= Cardinality(held \X (1..Units))
    BY <1>1, <1>4, FS_Subset
  <1>6. ASSUME NEW a \in Nat PROVE a * Units = Units * a
    BY Numbers
  <1>7. Cardinality(held) * Units = Units * Cardinality(held)
    BY <1>2, <1>6
  <1> QED
    BY <1>4, <1>5, <1>7

\* The bodies of the action properties.
SlotTaken(k) ==
    ~materialized(k) /\ materialized(k)' =>
        \E o \in Operators :
            /\ calls[o] # NoTime /\ calls'[o] = NoTime
            /\ slots'[k].epoch = epoch
            /\ slots'[k].due_at <= calls[o]
            /\ \A j \in SlotIndexes : j > k => scheduler_due(epoch, j) > calls[o]

BudgetHeld(k) ==
    set_back = 0 /\ requests'[k].dispatched # requests[k].dispatched => recent_dispatches' <= config.budget

CheckReconciled(o, k) ==
    (/\ calls[o] # NoTime /\ calls'[o] = NoTime /\ calls[o] <= now
     /\ requests[k].phase \in Terminal) => resolved(k)'

LEMMA SlotIsTaken ==
  ASSUME IndInv, [Next]_vars, NEW k \in SlotIndexes
  PROVE  SlotTaken(k)
  <1> SUFFICES ASSUME ~Made(slots, k), Made(slots', k)
               PROVE  \E o \in Operators :
                        /\ calls[o] # NoTime /\ calls'[o] = NoTime
                        /\ slots'[k].epoch = epoch
                        /\ slots'[k].due_at <= calls[o]
                        /\ \A j \in SlotIndexes : j > k => scheduler_due(epoch, j) > calls[o]
    BY DEF SlotTaken, materialized, Made
  <1>1. PICK o \in Operators : scheduler_tick(o)
    <2>1. slots' # slots
      OBVIOUS
    <2> QED
      BY <2>1, StepCases
  <1>2. /\ calls'[o] = NoTime /\ slots'[k].epoch = epoch /\ slots'[k].due_at <= calls[o]
        /\ \A j \in SlotIndexes : j > k => scheduler_due(epoch, j) > calls[o]
    BY <1>1, TickOnSlot
  <1>3. calls[o] # NoTime
    BY <1>1 DEF scheduler_tick
  <1> QED
    BY <1>2, <1>3

LEMMA BudgetIsHeld ==
  ASSUME IndInv, IndInv', [Next]_vars, NEW k \in SlotIndexes
  PROVE  BudgetHeld(k)
  <1> SUFFICES ASSUME set_back = 0, requests'[k].dispatched # requests[k].dispatched
               PROVE  recent_dispatches' <= config.budget
    BY DEF BudgetHeld
  <1>1. PICK j \in SlotIndexes : RequestStep(j) /\ now' = now /\ set_back' = set_back
    <2>1. \A o \in Operators : ~scheduler_tick(o)
      BY TickOnSlot
    <2> QED
      BY <2>1, StepCases
  <1>2. PICK row \in Request :
               /\ row.dispatched # requests[j].dispatched => scheduler_request_allowed(j)
               /\ moved(j, row)
    BY <1>1, RequestRow
  <1>3. requests' = [requests EXCEPT ![j] = row] /\ slots' = slots /\ requests \in [SlotIndexes -> Request]
    BY <1>2 DEF moved, IndInv, TypeOK
  <1>4. scheduler_budget(slots) <= config.budget
    <2>1. row.dispatched # requests[j].dispatched
      BY <1>3
    <2> QED
      BY <1>2, <2>1 DEF scheduler_request_allowed
  <1>5. PICK n : n = now
    OBVIOUS
  <1>6. PICK asked : asked = requests'
    OBVIOUS
  <1>7. n \in Times /\ slots \in [SlotIndexes -> Slot] /\ asked \in [SlotIndexes -> Request] /\ Past(slots, asked, n)
    <2>1. now \in Times /\ slots \in [SlotIndexes -> Slot]
      BY DEF IndInv, TypeOK
    <2>2. requests' \in [SlotIndexes -> Request]
      BY DEF IndInv, TypeOK
    <2>3. Past(slots', requests', now')
      BY <1>1 DEF IndInv, Timely
    <2> QED
      BY <1>1, <1>3, <1>5, <1>6, <2>1, <2>2, <2>3
  <1>8. \A i \in SlotIndexes : asked[i].dispatched # <<>> => Made(slots, i)
    <2>1. History(state', slots', requests', missed')
      BY DEF IndInv
    <2>2. RequestRows(asked) /\ Accounted(state', slots, asked, missed')
      BY <1>3, <1>6, <2>1 DEF History
    <2> QED
      BY <2>2 DEF RequestRows, Accounted, no_request
  <1>9. recent_dispatches' = Cardinality({d \in SlotIndexes \X (1..Units) :
            /\ d[2] <= Len(asked[d[1]].dispatched)
            /\ asked[d[1]].dispatched[d[2]] > n - BudgetWindow})
    BY <1>1, <1>5, <1>6 DEF recent_dispatches
  <1>10. scheduler_budget(slots) = Units * Cardinality({i \in SlotIndexes : Made(slots, i) /\
                                   (slots[i].resolved_at = NoTime \/ slots[i].resolved_at > n - BudgetWindow)})
    BY <1>5 DEF scheduler_budget, Made
  <1>11. recent_dispatches' <= scheduler_budget(slots)
    BY <1>7, <1>8, <1>9, <1>10, DispatchedWithinBudget
  <1>12. recent_dispatches' \in Int /\ scheduler_budget(slots) \in Int /\ config.budget \in Int
    <2>1. created
      <3>1. requests[j].phase \in {"queued", "running"}
        BY <1>1, RequestRow
      <3>2. state.last_slot # NoSlot
        BY <3>1, UnderWay, Numbers DEF IndInv
      <3> QED
        BY <3>2 DEF IndInv, RevisionsWhole
    <2>2. config.budget \in Int
      BY <2>1, Configured DEF IndInv
    <2>3. scheduler_budget(slots) \in Int
      <3>1. Cardinality({i \in SlotIndexes : Made(slots, i) /\
                (slots[i].resolved_at = NoTime \/ slots[i].resolved_at > n - BudgetWindow)}) \in Nat
        BY SlotsFinite
      <3> QED
        BY <1>10, <3>1, Numbers
    <2>4. recent_dispatches' \in Int
      <3>1. IsFiniteSet(SlotIndexes) /\ IsFiniteSet(1..Units)
        <4>1. IsFiniteSet(SlotIndexes)
          BY SlotsFinite
        <4>2. 1 \in Int /\ Units \in Int
          BY Numbers
        <4> QED
          BY <4>1, <4>2, FS_Interval
      <3>2. IsFiniteSet(SlotIndexes \X (1..Units))
        BY <3>1, FS_Product
      <3>3. {d \in SlotIndexes \X (1..Units) :
                /\ d[2] <= Len(asked[d[1]].dispatched)
                /\ asked[d[1]].dispatched[d[2]] > n - BudgetWindow} \subseteq SlotIndexes \X (1..Units)
        OBVIOUS
      <3>4. recent_dispatches' \in Nat
        BY <1>9, <3>2, <3>3, FS_Subset, FS_CardinalityType
      <3> QED
        BY <3>4
    <2> QED
      BY <2>2, <2>3, <2>4
  <1> QED
    BY <1>4, <1>11, <1>12

LEMMA CheckIsReconciled ==
  ASSUME IndInv, [Next]_vars, NEW o \in Operators, NEW k \in SlotIndexes
  PROVE  CheckReconciled(o, k)
  <1> SUFFICES ASSUME calls[o] # NoTime, calls'[o] = NoTime, calls[o] <= now, requests[k].phase \in Terminal
               PROVE  Done(slots', k)
    BY DEF CheckReconciled, resolved, Done
  <1>1. PICK p \in Operators : scheduler_tick(p)
    <2>1. now # NoTime
      BY Numbers DEF IndInv, TypeOK
    <2> QED
      BY <2>1, StepCases
  <1>2. p = o
    BY <1>1, TickOnSlot
  <1> QED
    BY <1>1, <1>2, TickOnSlot

\* A tick reconciles a finished check and takes no slot but the latest due;
\* no fetch is dispatched beyond the budget of the rolling window
\* (scheduler_tick, ingestion_dispatch).
THEOREM StepsAreAllowed == Spec => StepsAllowed
  <1>1. IndInv /\ [Next]_vars
        => [\A k \in SlotIndexes : ~materialized(k) /\ materialized(k)' =>
              \E o \in Operators :
                  /\ calls[o] # NoTime /\ calls'[o] = NoTime
                  /\ slots'[k].epoch = epoch
                  /\ slots'[k].due_at <= calls[o]
                  /\ \A j \in SlotIndexes : j > k => scheduler_due(epoch, j) > calls[o]]_vars
    BY SlotIsTaken DEF SlotTaken
  <1>2. IndInv /\ IndInv' /\ [Next]_vars
        => [\A k \in SlotIndexes : set_back = 0 /\ requests'[k].dispatched # requests[k].dispatched =>
              recent_dispatches' <= config.budget]_vars
    BY BudgetIsHeld DEF BudgetHeld
  <1>3. IndInv /\ [Next]_vars
        => [\A o \in Operators, k \in SlotIndexes :
              (/\ calls[o] # NoTime /\ calls'[o] = NoTime /\ calls[o] <= now
               /\ requests[k].phase \in Terminal) => resolved(k)']_vars
    BY CheckIsReconciled DEF CheckReconciled
  <1>4. IndInv /\ [Next]_vars => IndInv'
    BY NextOK
  <1> QED
    BY <1>1, <1>2, <1>3, <1>4, Invariance, PTL
       DEF Spec, StepsAllowed, TakesLatestDueSlot, RollingBudget, FinishedCheckIsReconciled

-----------------------------------------------------------------------------
(* The slots' requests are requests of the queue.                          *)

LEMMA LifecycleMoves ==
  ASSUME IndInv, [Next]_vars, NEW i \in SlotIndexes, NEW x \in Request, NEW y \in Request,
         x = requests[i], y = requests'[i]
  PROVE  \/ y.attempt = x.attempt /\ y.phase = x.phase
         \/ x.phase = "absent" /\ y.attempt = 1 /\ y.phase = "queued"
         \/ x.phase = "queued" /\ y.attempt = x.attempt /\ y.phase = "running"
         \/ x.phase = "running" /\ x.attempt < MaxAttempts /\ y.attempt = x.attempt + 1 /\ y.phase = "queued"
         \/ /\ x.phase = "running" /\ y.attempt = x.attempt
            /\ y.phase \in {"completed", "completed_with_gaps", "waiting_for_input", "failed"}
         \/ x.phase \in {"queued", "running"} /\ y.attempt = x.attempt /\ y.phase = "cancelled"
  <1>1. requests \in [SlotIndexes -> Request]
    BY DEF IndInv, TypeOK
  <1>2. CASE \E o \in Operators : scheduler_tick(o)
    <2>1. PICK o \in Operators : scheduler_tick(o)
      BY <1>2
    <2>2. CASE requests' = requests
      BY <2>2
    <2>3. CASE \E k \in SlotIndexes, row \in Slot : Takes(k, row, calls[o])
      <3>1. PICK k \in SlotIndexes, row \in Slot : Takes(k, row, calls[o])
        BY <2>3
      <3>2. requests' = [requests EXCEPT ![k] = new_request] /\ k > state.last_slot
        BY <3>1 DEF Takes
      <3>3. CASE i = k
        <4>1. state.last_slot \in Int /\ k \in Int
          BY Numbers DEF IndInv, TypeOK, State
        <4>2. ~Made(slots, k)
          BY <3>2, <4>1 DEF IndInv, History, Accounted
        <4>3. x.phase = "absent"
          BY <3>3, <4>2 DEF IndInv, History, Accounted
        <4>4. y = new_request
          BY <1>1, <3>2, <3>3
        <4> QED
          BY <4>3, <4>4 DEF new_request, no_request
      <3>4. CASE i # k
        BY <1>1, <3>2, <3>4
      <3> QED
        BY <3>3, <3>4
    <2> QED
      BY <2>1, <2>2, <2>3, TickCases
  <1>3. CASE requests' = requests
    BY <1>3
  <1>4. CASE \E k \in SlotIndexes : RequestStep(k)
    <2>1. PICK k \in SlotIndexes : RequestStep(k)
      BY <1>4
    <2>2. CASE i # k
      <3>1. PICK row : moved(k, row)
        BY <2>1, RequestRow
      <3> QED
        BY <1>1, <2>2, <3>1 DEF moved
    <2>3. CASE i = k
      <3>1. ASSUME NEW row, moved(k, row) PROVE y = row
        BY <1>1, <2>3, <3>1 DEF moved
      <3>2. CASE workflow_claim_monitor(k)
        BY <2>3, <3>1, <3>2 DEF workflow_claim_monitor, Request
      <3>3. CASE workflow_retry(k)
        BY <2>3, <3>1, <3>3 DEF workflow_retry, attempts_left, Request
      <3>4. CASE ingestion_dispatch(k)
        BY <2>3, <3>1, <3>4 DEF ingestion_dispatch, Request
      <3>5. CASE \E result \in Results \ {"none"} : workflow_complete_monitor(k, result)
        BY <2>3, <3>1, <3>5 DEF workflow_complete_monitor, Request
      <3>6. CASE workflow_finish(k)
        <4>1. PICK outcome \in outcomes(x.result) : moved(k, [x EXCEPT !.phase = outcome]) /\ x.phase = "running"
          BY <2>3, <3>6 DEF workflow_finish
        <4>2. outcome \in {"completed", "completed_with_gaps", "failed"}
          BY <4>1 DEF outcomes, Request, Results
        <4>3. y = [x EXCEPT !.phase = outcome]
          BY <3>1, <4>1
        <4> QED
          BY <4>1, <4>2, <4>3 DEF Request
      <3>7. CASE workflow_cancel(k)
        BY <2>3, <3>1, <3>7 DEF workflow_cancel, Request
      <3> QED
        BY <2>1, <3>2, <3>3, <3>4, <3>5, <3>6, <3>7 DEF RequestStep
    <2> QED
      BY <2>2, <2>3
  <1> QED
    BY <1>2, <1>3, <1>4, StepCases

\* The slots' requests move only as RequestLifecycle, and so Workflow, lets
\* them: the schedule neither revives an ended check nor skips an attempt.
THEOREM Refinement == Spec => RequestsFollowLifecycle
  <1>1. Init => Lifecycle!Init
    BY DEF Init, Lifecycle!Init, no_request
  <1>2. IndInv /\ IndInv' /\ [Next]_vars => Lifecycle!Next
    <2> SUFFICES ASSUME IndInv, IndInv', [Next]_vars, NEW r \in SlotIndexes
                 PROVE  \/ Lifecycle!Stay(r) \/ Lifecycle!Enqueue(r) \/ Lifecycle!Start(r)
                        \/ Lifecycle!NextAttempt(r) \/ Lifecycle!Finish(r) \/ Lifecycle!Cancel(r)
      BY DEF Lifecycle!Next
    <2>1. PICK x \in Request : x = requests[r]
      BY DEF IndInv, TypeOK
    <2>2. PICK y \in Request : y = requests'[r]
      BY DEF IndInv, TypeOK
    <2>3. \/ y.attempt = x.attempt /\ y.phase = x.phase
          \/ x.phase = "absent" /\ y.attempt = 1 /\ y.phase = "queued"
          \/ x.phase = "queued" /\ y.attempt = x.attempt /\ y.phase = "running"
          \/ x.phase = "running" /\ x.attempt < MaxAttempts /\ y.attempt = x.attempt + 1 /\ y.phase = "queued"
          \/ /\ x.phase = "running" /\ y.attempt = x.attempt
             /\ y.phase \in {"completed", "completed_with_gaps", "waiting_for_input", "failed"}
          \/ x.phase \in {"queued", "running"} /\ y.attempt = x.attempt /\ y.phase = "cancelled"
      BY <2>1, <2>2, LifecycleMoves
    <2> QED
      BY <2>1, <2>2, <2>3 DEF Lifecycle!Stay, Lifecycle!Enqueue, Lifecycle!Start, Lifecycle!NextAttempt,
         Lifecycle!Finish, Lifecycle!Cancel, Lifecycle!becomes, Lifecycle!Finished
  <1>3. IndInv /\ [Next]_vars => IndInv'
    BY NextOK
  <1> QED
    BY <1>1, <1>2, <1>3, Invariance, PTL DEF Spec, RequestsFollowLifecycle, Lifecycle!Spec

-----------------------------------------------------------------------------
(***************************************************************************)
(* The polls (FilingMonitor).                                              *)
(***************************************************************************)
\* What the SEC listed when the root was captured is in the root or was in the
\* older document; that one loses nothing, so it still has it when it is captured.
in_older == {f \in Filings : sec[f].place = "older"}
Foreseen(c) ==
    c.root # none =>
        \E O \in SUBSET Filings :
            /\ c.root.listed = DOMAIN c.root.filings \cup O
            /\ Cardinality(O) = c.root.older_count
            /\ O \subseteq IF c.older = none THEN in_older ELSE DOMAIN c.older

\* All that a poll asks for has been captured, and is kept by later executions.
Settled(c) == c.root # none /\ (history_required(c) => c.older # none)

\* What is saved of a poll without a failed fetch.
saved(c) == [comparison |-> comparison(baseline_result, c, poll.cutoff, FALSE),
             captures |-> c, cutoff |-> poll.cutoff]

PollFits ==
    /\ captures.root = none => captures.older = none
    /\ poll.step = "older" => captures.root # none
    /\ poll.step = "compare" => poll.failed \/ Settled(captures)
    /\ poll.step = "finish" => results # <<>>

ResultsAgree ==
    \A j \in DOMAIN results :
        \/ results[j].comparison.outcome = "error" /\ ~results[j].comparison.baseline_eligible
        \/ results[j] = saved(captures) /\ Settled(captures)

\* Each eligible poll selects what the one before it did, and what it reports.
ChainGrows ==
    /\ chain # <<>> /\ chain[1] = seed
    /\ \A k \in DOMAIN chain : chain[k].captures.root # none

MonitorIndInv ==
    /\ MonitorTypeOK /\ ReportedOnce /\ NothingMissed /\ InventoryWhole
    /\ Foreseen(captures) /\ PollFits /\ ResultsAgree /\ ChainGrows

-----------------------------------------------------------------------------
LEMMA MonitorBounds ==
  /\ MaxTime \in Nat \ {0} /\ MaxPolls \in Nat \ {0} /\ MaxExecutions \in Nat \ {0} /\ MaxRevisions \in Nat
  /\ IsFiniteSet(Filings) /\ Cardinality(Filings) \in Nat
  BY BoundsAssumption, RevisionsAssumption, FilingsAssumption, FS_CardinalityType

LEMMA DocumentType ==
  ASSUME NEW d, d \in Document
  PROVE  /\ DOMAIN d \in SUBSET Filings /\ IsFiniteSet(DOMAIN d)
         /\ d \in [DOMAIN d -> Metadata]
         /\ Cardinality(DOMAIN d) \in 0..Cardinality(Filings)
  <1>1. PICK S \in SUBSET Filings : d \in [S -> Metadata]
    BY DEF Document
  <1>2. IsFiniteSet(S) /\ Cardinality(S) <= Cardinality(Filings) /\ Cardinality(S) \in Nat
    BY <1>1, FilingsAssumption, FS_Subset, FS_CardinalityType
  <1> QED
    BY <1>1, <1>2, MonitorBounds

LEMMA DocumentOfSec ==
  ASSUME MonitorTypeOK, NEW place
  PROVE  /\ document(place) \in Document
         /\ DOMAIN document(place) = {g \in Filings : sec[g].place = place}
  <1> DEFINE S == {g \in Filings : sec[g].place = place}
  <1>1. S \in SUBSET Filings /\ \A f \in S : sec[f].metadata \in Metadata
    BY DEF MonitorTypeOK
  <1>2. document(place) \in [S -> Metadata]
    BY <1>1 DEF document
  <1> QED
    BY <1>1, <1>2 DEF Document

LEMMA RootType ==
  ASSUME NEW c \in Capture, c.root # none
  PROVE  /\ c.root \in Root /\ c.root.filings \in Document
         /\ c.root.older_count \in 0..Cardinality(Filings) /\ c.root.listed \in SUBSET Filings
         /\ c.older # none => c.older \in Document
  BY DEF Capture, Root

LEMMA DocumentNone == none \notin Document
  <1>1. DOMAIN none = {"none"} /\ "none" \notin Filings
    BY FilingsAssumption DEF none
  <1> QED
    BY <1>1, DocumentType

LEMMA InventoryType ==
  ASSUME NEW c \in Capture, c.root # none
  PROVE  /\ DOMAIN inventory(c) \in SUBSET Filings
         /\ \A cutoff : selected(c, cutoff) \in SUBSET Filings
         /\ DOMAIN c.root.filings \subseteq DOMAIN inventory(c)
         /\ history_required(c) /\ c.older # none => DOMAIN c.older \subseteq DOMAIN inventory(c)
  <1>1. c.root.filings \in Document /\ DOMAIN c.root.filings \in SUBSET Filings
    BY RootType, DocumentType
  <1>2. c.older # none => DOMAIN c.older \in SUBSET Filings
    BY RootType, DocumentType
  <1>3. DOMAIN inventory(c) = IF ~history_required(c) \/ c.older = none THEN DOMAIN c.root.filings
                              ELSE DOMAIN c.root.filings \cup DOMAIN c.older
    BY DEF inventory
  <1>4. \A cutoff : selected(c, cutoff) \subseteq DOMAIN inventory(c)
    BY DEF selected
  <1> QED
    BY <1>1, <1>2, <1>3, <1>4

\* What a comparison says, besides the words for its outcome.
LEMMA ComparisonType ==
  ASSUME NEW b, NEW c \in Capture, NEW cutoff, NEW failed \in BOOLEAN, failed \/ c.root # none
  PROVE  /\ comparison(b, c, cutoff, failed) \in Comparison
         /\ comparison(b, c, cutoff, failed).added = IF failed THEN {} ELSE additions(b, c, cutoff)
         /\ comparison(b, c, cutoff, failed).baseline_eligible
               <=> ~failed /\ complete(c) /\ unchanged(b, c, cutoff)
         /\ failed <=> comparison(b, c, cutoff, failed).outcome = "error"
  <1> DEFINE whole == ~failed /\ complete(c) /\ unchanged(b, c, cutoff)
             added == IF failed THEN {} ELSE additions(b, c, cutoff)
             outcome == CASE failed -> "error"
                          [] ~failed /\ ~whole -> "incomplete"
                          [] whole /\ added # {} /\ added \cap Amendments = {} -> "new_filing"
                          [] whole /\ added # {} /\ added \subseteq Amendments -> "amendment"
                          [] whole /\ added = {} -> "no_change"
                          [] OTHER -> "mixed_changes"
  <1>1. added \in SUBSET Filings
    BY InventoryType DEF additions
  <1>2. whole \in BOOLEAN
    OBVIOUS
  <1>3. comparison(b, c, cutoff, failed)
          = [outcome |-> outcome, baseline_eligible |-> whole, added |-> added]
    BY DEF comparison
  <1> HIDE DEF added, whole
  <1>4. outcome \in {"error", "incomplete", "mixed_changes", "new_filing", "amendment", "no_change"}
    OBVIOUS
  <1>5. failed <=> outcome = "error"
    BY DEF whole
  <1> HIDE DEF outcome
  <1>6. [outcome |-> outcome, baseline_eligible |-> whole, added |-> added] \in Comparison
    BY <1>1, <1>2, <1>4 DEF Comparison
  <1>7. /\ comparison(b, c, cutoff, failed) \in Comparison
        /\ comparison(b, c, cutoff, failed).added = added
        /\ comparison(b, c, cutoff, failed).baseline_eligible = whole
        /\ failed <=> comparison(b, c, cutoff, failed).outcome = "error"
    BY <1>3, <1>5, <1>6
  <1> QED
    BY <1>7, Zenon DEF added, whole

LEMMA ComparisonMade ==
  ASSUME NEW b, NEW c \in Capture, NEW cutoff, c.root # none
  PROVE  /\ comparison(b, c, cutoff, FALSE).added = additions(b, c, cutoff)
         /\ comparison(b, c, cutoff, FALSE).baseline_eligible <=> complete(c) /\ unchanged(b, c, cutoff)
  <1>1. ASSUME NEW failed \in BOOLEAN, ~failed
        PROVE  /\ comparison(b, c, cutoff, failed).added = additions(b, c, cutoff)
               /\ comparison(b, c, cutoff, failed).baseline_eligible <=> complete(c) /\ unchanged(b, c, cutoff)
    BY <1>1, ComparisonType
  <1>2. FALSE \in BOOLEAN
    OBVIOUS
  <1> QED
    BY <1>1, <1>2

LEMMA BaselineType ==
  ASSUME MonitorIndInv
  PROVE  /\ Len(chain) \in DOMAIN chain /\ Len(chain) \in Nat \ {0}
         /\ baseline_result \in Result /\ baseline_result.captures.root # none
  BY DEF MonitorIndInv, MonitorTypeOK, ChainGrows, baseline_result

LEMMA SavedType ==
  ASSUME MonitorIndInv, captures.root # none
  PROVE  saved(captures) \in Result
  BY ComparisonType DEF saved, Result, MonitorIndInv, MonitorTypeOK

-----------------------------------------------------------------------------
LEMMA MonitorInitOK == MonitorInit => MonitorIndInv
  <1> SUFFICES ASSUME MonitorInit PROVE MonitorIndInv
    OBVIOUS
  <1>1. empty \in Document
    <2>1. empty \in [{} -> Metadata]
      BY DEF empty
    <2> QED
      BY <2>1 DEF Document
  <1>2. seed \in Result /\ seed.captures.root # none
    BY <1>1, MonitorBounds DEF seed, Result, Comparison, Capture, Root, none
  <1>3. selected(seed.captures, seed.cutoff) = {} /\ seed.comparison.added = {}
    BY DEF seed, selected, inventory, history_required, empty, none
  <1>4. DOMAIN chain = {1} /\ chain[1] = seed
    BY DEF MonitorInit
  <1>5. MonitorTypeOK
    BY <1>2, MonitorBounds DEF MonitorInit, MonitorTypeOK, Metadata, Place, Capture
  <1>6. ReportedOnce /\ InventoryWhole /\ ChainGrows
    BY <1>2, <1>4 DEF ReportedOnce, InventoryWhole, ChainGrows, MonitorInit
  <1>7. NothingMissed
    BY <1>3, <1>4 DEF NothingMissed, reported
  <1>8. Foreseen(captures) /\ PollFits /\ ResultsAgree
    BY DEF MonitorInit, Foreseen, PollFits, ResultsAgree
  <1> QED
    BY <1>5, <1>6, <1>7, <1>8 DEF MonitorIndInv

-----------------------------------------------------------------------------
\* While the SEC changes, the polls do not, and the older document only grows.
LEMMA SecOK ==
  ASSUME MonitorIndInv, MonitorTypeOK', UNCHANGED <<captures, poll, results, chain>>,
         in_older \subseteq in_older'
  PROVE  MonitorIndInv'
  <1>1. ReportedOnce' /\ NothingMissed' /\ InventoryWhole' /\ ChainGrows' /\ PollFits'
    BY DEF MonitorIndInv, ReportedOnce, NothingMissed, InventoryWhole, ChainGrows, PollFits, reported, Settled
  <1>2. ResultsAgree'
    BY DEF MonitorIndInv, ResultsAgree, saved, baseline_result
  <1>3. Foreseen(captures)'
    <2> SUFFICES ASSUME captures.root # none
                 PROVE  \E O \in SUBSET Filings :
                            /\ captures.root.listed = DOMAIN captures.root.filings \cup O
                            /\ Cardinality(O) = captures.root.older_count
                            /\ O \subseteq IF captures.older = none THEN in_older' ELSE DOMAIN captures.older
      BY DEF Foreseen
    <2> QED
      BY DEF MonitorIndInv, Foreseen
  <1> QED
    BY <1>1, <1>2, <1>3 DEF MonitorIndInv

LEMMA TimePassesOK == MonitorIndInv /\ Tick => MonitorIndInv'
  <1> SUFFICES ASSUME MonitorIndInv, Tick PROVE MonitorIndInv'
    OBVIOUS
  <1>1. MonitorTypeOK'
    BY MonitorBounds DEF MonitorIndInv, MonitorTypeOK, Tick
  <1> QED
    BY <1>1, SecOK DEF Tick, in_older

LEMMA RelocatedOK ==
  ASSUME MonitorIndInv, NEW f \in Filings, NEW from \in Place \ {"older"}, NEW to \in Place,
         relocated(f, from, to)
  PROVE  MonitorIndInv'
  <1>1. MonitorTypeOK'
    <2>1. sec[f] \in [place : Place, metadata : Metadata] /\ clock \in 0..MaxTime
      BY DEF MonitorIndInv, MonitorTypeOK
    <2> DEFINE placed == [sec EXCEPT ![f].place = to]
    <2>3. /\ placed \in [Filings -> [place : Place, metadata : Metadata]]
          /\ placed = [sec EXCEPT ![f] = placed[f]]
          /\ placed[f].place = to /\ placed[f].metadata = sec[f].metadata
      BY DEF MonitorIndInv, MonitorTypeOK
    <2>4. /\ sec' = [placed EXCEPT ![f].metadata.acceptance_at = IF to = "accepted" THEN clock ELSE @]
          /\ UNCHANGED <<clock, captures, poll, results, chain>>
      BY DEF relocated
    <2> HIDE DEF placed
    <2>5. sec' \in [Filings -> [place : Place, metadata : Metadata]]
      <3> DEFINE at == IF to = "accepted" THEN clock ELSE placed[f].metadata.acceptance_at
      <3>1. at \in 0..MaxTime /\ placed[f].metadata \in Metadata
        BY <2>1, <2>3 DEF Metadata
      <3>2. [placed[f].metadata EXCEPT !.acceptance_at = at] \in Metadata
        BY <3>1 DEF Metadata
      <3>3. sec' = [placed EXCEPT ![f].metadata.acceptance_at = at]
        BY <2>4
      <3> HIDE DEF at
      <3>4. sec' = [placed EXCEPT ![f].metadata = [placed[f].metadata EXCEPT !.acceptance_at = at]]
        BY <3>3
      <3> QED
        BY <2>3, <3>2, <3>4
    <2> QED
      BY <2>4, <2>5 DEF MonitorIndInv, MonitorTypeOK
  <1>2. in_older \subseteq in_older'
    BY DEF MonitorIndInv, MonitorTypeOK, relocated, in_older
  <1> QED
    BY <1>1, <1>2, SecOK DEF relocated

LEMMA RevisionOK ==
  ASSUME MonitorIndInv, NEW f \in Filings, Revise(f)
  PROVE  MonitorIndInv'
  <1> DEFINE row == [sec[f] EXCEPT !.metadata.version = @ + 1]
  <1>1. MonitorTypeOK'
    <2>1. sec[f] \in [place : Place, metadata : Metadata]
      BY DEF MonitorIndInv, MonitorTypeOK
    <2>2. row \in [place : Place, metadata : Metadata]
      BY <2>1, MonitorBounds DEF Metadata, Revise
    <2>3. sec' = [sec EXCEPT ![f] = row]
      BY DEF Revise, MonitorIndInv, MonitorTypeOK
    <2> HIDE DEF row
    <2> QED
      BY <2>2, <2>3 DEF MonitorIndInv, MonitorTypeOK, Revise
  <1>2. in_older \subseteq in_older'
    BY DEF MonitorIndInv, MonitorTypeOK, Revise, in_older
  <1> QED
    BY <1>1, <1>2, SecOK DEF Revise

-----------------------------------------------------------------------------
\* A step of a poll that does not touch the chain.
LEMMA PollOK ==
  ASSUME MonitorIndInv, MonitorTypeOK', UNCHANGED <<clock, sec, chain>>,
         Foreseen(captures)', PollFits', ResultsAgree'
  PROVE  MonitorIndInv'
  <1>1. ReportedOnce' /\ NothingMissed' /\ InventoryWhole' /\ ChainGrows'
    BY DEF MonitorIndInv, ReportedOnce, NothingMissed, InventoryWhole, ChainGrows, reported
  <1> QED
    BY <1>1 DEF MonitorIndInv

LEMMA NothingCaptured ==
  ASSUME captures' = [root |-> none, older |-> none], results' = <<>>
  PROVE  /\ Foreseen(captures)' /\ ResultsAgree' /\ captures' \in Capture
         /\ results' \in Seq(Result) /\ captures'.root = none /\ captures'.older = none
  BY DEF Foreseen, ResultsAgree, Capture

LEMMA EnqueueOK == MonitorIndInv /\ Enqueue => MonitorIndInv'
  <1> SUFFICES ASSUME MonitorIndInv, Enqueue PROVE MonitorIndInv'
    OBVIOUS
  <1>1. /\ Foreseen(captures)' /\ ResultsAgree' /\ captures' \in Capture
        /\ results' \in Seq(Result) /\ captures'.root = none /\ captures'.older = none
    BY NothingCaptured DEF Enqueue
  <1>2. MonitorTypeOK'
    BY <1>1, MonitorBounds DEF MonitorIndInv, MonitorTypeOK, Enqueue
  <1>3. PollFits'
    BY <1>1 DEF PollFits, Enqueue
  <1> QED
    BY <1>1, <1>2, <1>3, PollOK DEF Enqueue

LEMMA FetchRootOK == MonitorIndInv /\ FetchRoot => MonitorIndInv'
  <1> SUFFICES ASSUME MonitorIndInv, FetchRoot PROVE MonitorIndInv'
    OBVIOUS
  <1> DEFINE fresh == [filings |-> document("recent"),
                       older_count |-> Cardinality(DOMAIN document("older")),
                       listed |-> DOMAIN document("recent") \cup DOMAIN document("older")]
  <1>1. MonitorTypeOK /\ captures \in Capture
    BY DEF MonitorIndInv, MonitorTypeOK
  <1>2. fresh \in Root
    BY <1>1, DocumentOfSec, DocumentType DEF Root
  <1>3. CASE captures.root = none /\ captures'.root # none
    <2>1. captures' = [captures EXCEPT !.root = fresh] /\ poll' = [poll EXCEPT !.step = "older"]
          /\ UNCHANGED <<clock, sec, results, chain>>
      BY <1>3 DEF FetchRoot, observed
    <2>2. captures.older = none /\ captures'.older = none /\ captures'.root = fresh
      BY <1>1, <1>3, <2>1 DEF MonitorIndInv, PollFits, Capture
    <2>3. MonitorTypeOK'
      <3>1. captures' \in Capture
        BY <1>1, <1>2, <2>1 DEF Capture
      <3> HIDE DEF fresh
      <3> QED
        BY <1>1, <2>1, <3>1 DEF MonitorTypeOK
    <2>4. Foreseen(captures)'
      <3>1. DOMAIN document("older") = in_older
        BY <1>1, DocumentOfSec DEF in_older
      <3>2. /\ fresh.listed = DOMAIN fresh.filings \cup in_older
            /\ Cardinality(in_older) = fresh.older_count /\ in_older \in SUBSET Filings
        BY <3>1 DEF in_older
      <3>3. in_older' = in_older
        BY <2>1 DEF in_older
      <3> HIDE DEF fresh
      <3> QED
        BY <2>2, <3>2, <3>3 DEF Foreseen
    <2>5. PollFits'
      <3> HIDE DEF fresh
      <3> QED
        BY <1>1, <1>3, <2>1, <2>2 DEF PollFits, MonitorTypeOK
    <2>6. ResultsAgree'
      BY <1>3, <2>1 DEF MonitorIndInv, ResultsAgree, Settled
    <2> HIDE DEF fresh
    <2> QED
      BY <2>1, <2>3, <2>4, <2>5, <2>6, PollOK
  <1>4. CASE captures.root = none /\ captures'.root = none
    <2>1. /\ UNCHANGED <<captures, clock, sec, results, chain>>
          /\ poll' = [poll EXCEPT !.step = "compare", !.failed = TRUE]
      BY <1>1, <1>2, <1>3, <1>4 DEF FetchRoot, observed, Root, none, Capture
    <2>2. MonitorTypeOK'
      BY <1>1, <2>1 DEF MonitorTypeOK
    <2>3. Foreseen(captures)' /\ ResultsAgree' /\ PollFits'
      BY <1>1, <1>4, <2>1 DEF MonitorIndInv, Foreseen, ResultsAgree, PollFits, Settled, MonitorTypeOK
    <2> QED
      BY <2>1, <2>2, <2>3, PollOK
  <1>5. CASE captures.root # none
    <2>1. /\ UNCHANGED <<captures, clock, sec, results, chain>>
          /\ poll' = [poll EXCEPT !.step = "older"]
      BY <1>1, <1>5 DEF FetchRoot, observed, Capture
    <2>2. MonitorTypeOK' /\ poll'.cutoff = poll.cutoff /\ poll'.step = "older"
      BY <1>1, <2>1 DEF MonitorTypeOK
    <2>3. Foreseen(captures)' /\ PollFits'
      BY <1>5, <2>1, <2>2 DEF MonitorIndInv, Foreseen, in_older, PollFits
    <2>4. ResultsAgree'
      BY <2>1, <2>2 DEF MonitorIndInv, ResultsAgree, saved, baseline_result
    <2> QED
      BY <2>1, <2>2, <2>3, <2>4, PollOK
  <1> QED
    BY <1>3, <1>4, <1>5

LEMMA FetchOlderOK == MonitorIndInv /\ FetchOlder => MonitorIndInv'
  <1> SUFFICES ASSUME MonitorIndInv, FetchOlder PROVE MonitorIndInv'
    OBVIOUS
  <1>1. MonitorTypeOK /\ captures \in Capture /\ captures.root # none /\ Foreseen(captures)
    BY DEF MonitorIndInv, MonitorTypeOK, PollFits, FetchOlder
  <1>2. /\ poll' \in {[poll EXCEPT !.step = "compare"], [poll EXCEPT !.step = "compare", !.failed = TRUE]}
        /\ UNCHANGED <<clock, sec, results, chain>>
    BY DEF FetchOlder
  <1>3. poll'.step = "compare" /\ poll'.cutoff = poll.cutoff /\ poll'.failed \in BOOLEAN
    BY <1>1, <1>2 DEF MonitorTypeOK
  <1>4. document("older") \in Document /\ DOMAIN document("older") = in_older
    BY <1>1, DocumentOfSec DEF in_older
  <1>5. CASE history_required(captures) /\ ~poll'.failed /\ captures.older = none
    <2>1. captures' = [captures EXCEPT !.older = document("older")]
      BY <1>1, <1>5 DEF FetchOlder, observed
    <2>2. captures'.root = captures.root /\ captures'.older = document("older") /\ captures' \in Capture
      BY <1>1, <1>4, <2>1 DEF Capture
    <2>3. captures'.older # none
      BY <1>1, <2>2, <1>4, DocumentNone
    <2>4. MonitorTypeOK'
      BY <1>1, <1>2, <2>2 DEF MonitorTypeOK
    <2>5. Foreseen(captures)'
      BY <1>1, <1>4, <1>5, <2>2, <2>3 DEF Foreseen
    <2>6. PollFits'
      BY <1>1, <1>3, <2>2, <2>3 DEF PollFits, Settled
    <2>7. ResultsAgree'
      BY <1>2, <1>5 DEF MonitorIndInv, ResultsAgree, Settled
    <2> QED
      BY <1>2, <2>4, <2>5, <2>6, <2>7, PollOK
  <1>6. CASE ~(history_required(captures) /\ ~poll'.failed /\ captures.older = none)
    <2>1. captures' = captures
      BY <1>1, <1>6 DEF FetchOlder, observed, Capture
    <2>2. MonitorTypeOK'
      BY <1>1, <1>2, <2>1 DEF MonitorTypeOK
    <2>3. Foreseen(captures)'
      BY <1>1, <1>2, <2>1 DEF Foreseen, in_older
    <2>4. PollFits'
      BY <1>1, <1>3, <1>6, <2>1 DEF PollFits, Settled
    <2>5. ResultsAgree'
      BY <1>2, <1>3, <2>1 DEF MonitorIndInv, ResultsAgree, saved, baseline_result
    <2> QED
      BY <1>2, <2>2, <2>3, <2>4, <2>5, PollOK
  <1> QED
    BY <1>5, <1>6

LEMMA SaveResultOK == MonitorIndInv /\ SaveResult => MonitorIndInv'
  <1> SUFFICES ASSUME MonitorIndInv, SaveResult PROVE MonitorIndInv'
    OBVIOUS
  <1> DEFINE r == [comparison |-> comparison(baseline_result, captures, poll.cutoff, poll.failed),
                   captures |-> captures, cutoff |-> poll.cutoff]
  <1>1. /\ MonitorTypeOK /\ captures \in Capture /\ poll.failed \in BOOLEAN /\ poll.cutoff \in 0..MaxTime
        /\ poll.failed \/ Settled(captures)
    BY DEF MonitorIndInv, MonitorTypeOK, PollFits, SaveResult
  <1>2. /\ results' = Append(results, r) /\ poll' = [poll EXCEPT !.step = "finish"]
        /\ UNCHANGED <<clock, sec, captures, chain>>
    BY DEF SaveResult
  <1>3. r.comparison \in Comparison
    BY <1>1, ComparisonType DEF Settled
  <1>4. r \in Result
    BY <1>1, <1>3 DEF Result
  <1>5. poll.failed => r.comparison.outcome = "error" /\ ~r.comparison.baseline_eligible
    BY <1>1, ComparisonType
  <1>6. ~poll.failed => r = saved(captures)
    BY <1>1 DEF saved
  <1> HIDE DEF r
  <1>7. MonitorTypeOK' /\ poll'.cutoff = poll.cutoff /\ poll'.step = "finish" /\ results' # <<>>
    <2>1. results' \in Seq(Result) /\ results' # <<>>
      BY <1>1, <1>2, <1>4 DEF MonitorTypeOK
    <2> QED
      BY <1>1, <1>2, <2>1 DEF MonitorTypeOK
  <1>8. ResultsAgree'
    <2>1. saved(captures)' = saved(captures) /\ Settled(captures)' = Settled(captures)
      BY <1>2, <1>7 DEF saved, baseline_result
    <2>2. \A j \in DOMAIN results' : (j \in DOMAIN results /\ results'[j] = results[j]) \/ results'[j] = r
      BY <1>1, <1>2, <1>4 DEF MonitorTypeOK
    <2> QED
      BY <1>1, <1>5, <1>6, <2>1, <2>2 DEF MonitorIndInv, ResultsAgree
  <1>9. Foreseen(captures)' /\ PollFits'
    BY <1>2, <1>7 DEF MonitorIndInv, Foreseen, in_older, PollFits
  <1> QED
    BY <1>2, <1>7, <1>8, <1>9, PollOK

LEMMA CrashOK == MonitorIndInv /\ Crash => MonitorIndInv'
  <1> SUFFICES ASSUME MonitorIndInv, Crash PROVE MonitorIndInv'
    OBVIOUS
  <1>1. MonitorTypeOK
    BY DEF MonitorIndInv
  <1>2. CASE may_retry
    <2>1. /\ poll' = [poll EXCEPT !.execution = @ + 1, !.step = "root", !.failed = FALSE]
          /\ UNCHANGED <<captures, results, clock, sec, chain>>
      BY <1>2 DEF Crash
    <2>2. MonitorTypeOK' /\ poll'.cutoff = poll.cutoff /\ poll'.step = "root"
      <3>1. poll.execution \in 1..MaxExecutions /\ poll.execution + 1 \in 1..MaxExecutions
        BY <1>1, <1>2, MonitorBounds DEF MonitorTypeOK, may_retry
      <3> QED
        BY <1>1, <2>1, <3>1 DEF MonitorTypeOK
    <2>3. Foreseen(captures)' /\ PollFits'
      BY <2>1, <2>2 DEF MonitorIndInv, Foreseen, in_older, PollFits
    <2>4. ResultsAgree'
      BY <2>1, <2>2 DEF MonitorIndInv, ResultsAgree, saved, baseline_result
    <2> QED
      BY <2>1, <2>2, <2>3, <2>4, PollOK
  <1>3. CASE ~may_retry
    <2>1. /\ poll' = [poll EXCEPT !.step = "idle"] /\ UNCHANGED <<clock, sec, chain>>
          /\ captures' = [root |-> none, older |-> none] /\ results' = <<>>
      BY <1>3 DEF Crash
    <2>2. /\ Foreseen(captures)' /\ ResultsAgree' /\ captures' \in Capture
          /\ results' \in Seq(Result) /\ captures'.root = none /\ captures'.older = none
      BY <2>1, NothingCaptured
    <2>3. MonitorTypeOK' /\ poll'.step = "idle"
      BY <1>1, <2>1, <2>2 DEF MonitorTypeOK
    <2>4. PollFits'
      BY <2>2, <2>3 DEF PollFits
    <2> QED
      BY <2>1, <2>2, <2>3, <2>4, PollOK
  <1> QED
    BY <1>2, <1>3

\* The documents of a poll that is complete miss nothing the SEC had listed.
LEMMA CompleteIsWhole ==
  ASSUME NEW c \in Capture, c.root # none, Foreseen(c), complete(c)
  PROVE  c.root.listed \subseteq DOMAIN inventory(c)
  <1>1. PICK O \in SUBSET Filings :
            /\ c.root.listed = DOMAIN c.root.filings \cup O
            /\ Cardinality(O) = c.root.older_count
            /\ O \subseteq IF c.older = none THEN in_older ELSE DOMAIN c.older
    BY DEF Foreseen
  <1>2. IsFiniteSet(O) /\ c.root.older_count \in Nat
    BY <1>1, FilingsAssumption, FS_Subset, FS_CardinalityType
  <1>3. CASE ~history_required(c)
    <2>1. O = {}
      BY <1>1, <1>2, <1>3, FS_EmptySet DEF history_required
    <2> QED
      BY <1>1, <2>1, InventoryType
  <1>4. CASE history_required(c)
    <2>1. c.older # none
      BY <1>4 DEF complete, history_matches
    <2> QED
      BY <1>1, <1>4, <2>1, InventoryType
  <1> QED
    BY <1>3, <1>4

LEMMA FinishOK == MonitorIndInv /\ Finish => MonitorIndInv'
  <1> SUFFICES ASSUME MonitorIndInv, Finish PROVE MonitorIndInv'
    OBVIOUS
  <1> DEFINE r == results[Len(results)]
             n == Len(chain)
             b == chain[n]
  <1>1. MonitorTypeOK /\ captures \in Capture
    BY DEF MonitorIndInv, MonitorTypeOK
  <1>2. results # <<>> /\ Len(results) \in DOMAIN results /\ r \in Result
    BY DEF MonitorIndInv, MonitorTypeOK, PollFits, Finish
  <1>3. /\ Foreseen(captures)' /\ ResultsAgree' /\ captures' \in Capture
        /\ results' \in Seq(Result) /\ captures'.root = none /\ captures'.older = none
    BY NothingCaptured DEF Finish
  <1>4. poll' = [poll EXCEPT !.step = "idle"] /\ UNCHANGED <<clock, sec>>
    BY DEF Finish
  <1>5. poll'.step = "idle" /\ PollFits'
    BY <1>1, <1>3, <1>4 DEF PollFits, MonitorTypeOK
  <1>6. CASE ~r.comparison.baseline_eligible
    <2>1. chain' = chain
      BY <1>6 DEF Finish
    <2>2. MonitorTypeOK'
      BY <1>1, <1>3, <1>4, <2>1 DEF MonitorTypeOK
    <2> QED
      BY <1>3, <1>4, <1>5, <2>1, <2>2, PollOK
  <1>7. CASE r.comparison.baseline_eligible
    <2>1. r = saved(captures) /\ Settled(captures)
      BY <1>2, <1>7 DEF MonitorIndInv, ResultsAgree
    <2>2. /\ n \in Nat \ {0} /\ n \in DOMAIN chain /\ DOMAIN chain = 1..n
          /\ b \in Result /\ b.captures.root # none /\ b = baseline_result
      BY BaselineType DEF MonitorIndInv, MonitorTypeOK, baseline_result
    <2>3. r.captures = captures /\ r.cutoff = poll.cutoff /\ captures.root # none
          /\ r.comparison = comparison(b, captures, poll.cutoff, FALSE)
      BY <2>1, <2>2 DEF saved, Settled
    <2>4. /\ complete(captures) /\ unchanged(b, captures, poll.cutoff)
          /\ r.comparison.added = additions(b, captures, poll.cutoff)
      <3> DEFINE said == comparison(b, captures, poll.cutoff, FALSE)
      <3>1. /\ said.added = additions(b, captures, poll.cutoff)
            /\ said.baseline_eligible <=> complete(captures) /\ unchanged(b, captures, poll.cutoff)
        <4>1. captures \in Capture /\ captures.root # none
          BY <1>1, <2>3
        <4> HIDE DEF b
        <4> QED
          BY ONLY <4>1, ComparisonMade
      <3>2. r.comparison = said
        BY <2>3
      <3> HIDE DEF said, r
      <3> QED
        BY <1>7, <3>1, <3>2 DEF r
    <2>5. chain' = Append(chain, r)
      BY <1>7 DEF Finish
    <2> HIDE DEF r
    <2>6. /\ DOMAIN chain' = 1..(n + 1) /\ chain'[n + 1] = r
          /\ \A k \in 1..n : chain'[k] = chain[k]
          /\ chain' \in Seq(Result) /\ chain' # <<>>
      BY <1>1, <1>2, <2>2, <2>5 DEF MonitorTypeOK
    <2> DEFINE before == selected(b.captures, b.cutoff)
               after == selected(r.captures, r.cutoff)
               added == r.comparison.added
    <2>7. before \subseteq after /\ added = after \ before
      BY <2>3, <2>4 DEF unchanged, additions
    <2>8. before = UNION {reported(j) : j \in 1..n}
      BY <2>2 DEF MonitorIndInv, NothingMissed
    <2>9. \A j \in 1..n : reported(j) \subseteq before
      BY <2>8
    <2> HIDE DEF before, after, added, n
    <2>10. ReportedOnce'
      <3> SUFFICES ASSUME NEW j \in 1..(n + 1), NEW k \in 1..(n + 1), j # k
                   PROVE  chain'[j].comparison.added \cap chain'[k].comparison.added = {}
        BY <2>6 DEF ReportedOnce, reported
      <3>1. CASE j # n + 1 /\ k # n + 1
        <4>1. j \in 1..n /\ k \in 1..n
          BY <2>2, <3>1
        <4>2. reported(j) \cap reported(k) = {}
          BY <2>2, <4>1 DEF MonitorIndInv, ReportedOnce, n
        <4> QED
          BY <2>6, <4>1, <4>2 DEF reported
      <3>2. CASE j = n + 1
        <4>1. k \in 1..n
          BY <2>2, <3>2
        <4> QED
          BY <2>6, <2>7, <2>9, <3>2, <4>1 DEF reported, added
      <3>3. CASE k = n + 1
        <4>1. j \in 1..n
          BY <2>2, <3>3
        <4> QED
          BY <2>6, <2>7, <2>9, <3>3, <4>1 DEF reported, added
      <3> QED
        BY <3>1, <3>2, <3>3
    <2>11. NothingMissed'
      <3> SUFFICES ASSUME NEW k \in 1..(n + 1)
                   PROVE  selected(chain'[k].captures, chain'[k].cutoff)
                            = UNION {chain'[j].comparison.added : j \in 1..k}
        BY <2>6 DEF NothingMissed, reported
      <3>1. CASE k \in 1..n
        <4>1. selected(chain[k].captures, chain[k].cutoff) = UNION {reported(j) : j \in 1..k}
          BY <2>2, <3>1 DEF MonitorIndInv, NothingMissed, n
        <4>2. \A j \in 1..k : chain'[j].comparison.added = reported(j)
          BY <2>2, <2>6, <3>1 DEF reported
        <4> QED
          BY <2>6, <3>1, <4>1, <4>2
      <3>2. CASE k = n + 1
        <4>1. \A j \in 1..n : chain'[j].comparison.added = reported(j)
          BY <2>6 DEF reported
        <4>2. 1..k = 1..n \cup {n + 1}
          BY <2>2, <3>2
        <4>3. UNION {chain'[j].comparison.added : j \in 1..k}
                = (UNION {reported(j) : j \in 1..n}) \cup chain'[n + 1].comparison.added
          BY <4>1, <4>2
        <4> QED
          BY <2>6, <2>7, <2>8, <3>2, <4>3 DEF after, added
      <3> QED
        BY <2>2, <3>1, <3>2
    <2>12. InventoryWhole'
      <3>1. captures.root.listed \subseteq DOMAIN inventory(captures)
        BY <1>1, <2>3, <2>4, CompleteIsWhole DEF MonitorIndInv
      <3>2. \A k \in 1..n : k > 1 => chain[k].captures.root.listed \subseteq DOMAIN inventory(chain[k].captures)
        BY <2>2 DEF MonitorIndInv, InventoryWhole, n
      <3>3. \A k \in 1..(n + 1) : k \in 1..n \/ k = n + 1
        BY <2>2
      <3> QED
        BY <2>3, <2>6, <3>1, <3>2, <3>3 DEF InventoryWhole
    <2>13. ChainGrows'
      <3>1. \A k \in 1..n : chain[k].captures.root # none
        BY <2>2 DEF MonitorIndInv, ChainGrows, n
      <3>2. 1 \in 1..n /\ \A k \in 1..(n + 1) : k \in 1..n \/ k = n + 1
        BY <2>2
      <3> QED
        BY <2>3, <2>6, <3>1, <3>2 DEF MonitorIndInv, ChainGrows
    <2>14. MonitorTypeOK'
      BY <1>1, <1>3, <1>4, <2>6 DEF MonitorTypeOK
    <2> QED
      BY <1>3, <1>5, <2>10, <2>11, <2>12, <2>13, <2>14 DEF MonitorIndInv
  <1> QED
    BY <1>6, <1>7

-----------------------------------------------------------------------------
\* The inductive invariant holds in every reachable state, for any filings and
\* bounds.
THEOREM MonitorInvariance == MonitorSpec => []MonitorIndInv
  <1>1. MonitorIndInv /\ [MonitorNext]_monitor_vars => MonitorIndInv'
    <2> SUFFICES ASSUME MonitorIndInv, [MonitorNext]_monitor_vars PROVE MonitorIndInv'
      OBVIOUS
    <2>1. ASSUME NEW f \in Filings, Accept(f) \/ List(f) \/ Archive(f) PROVE MonitorIndInv'
      BY <2>1, RelocatedOK DEF Accept, List, Archive, Place
    <2>2. ASSUME NEW f \in Filings, Revise(f) PROVE MonitorIndInv'
      BY <2>2, RevisionOK
    <2>3. CASE UNCHANGED monitor_vars
      <3>1. UNCHANGED <<clock, sec, captures, poll, results, chain>>
        BY <2>3 DEF monitor_vars
      <3>2. MonitorTypeOK'
        BY <3>1 DEF MonitorIndInv, MonitorTypeOK
      <3> QED
        BY <3>1, <3>2, SecOK DEF in_older
    <2> QED
      BY <2>1, <2>2, <2>3, TimePassesOK, EnqueueOK, FetchRootOK, FetchOlderOK, SaveResultOK, FinishOK, CrashOK
      DEF MonitorNext
  <1> QED
    BY MonitorInitOK, <1>1, PTL DEF MonitorSpec

\* Over the chain of eligible polls every filing is reported exactly once: never
\* again after it moved between documents, and also if the SEC listed it long
\* after its acceptance (compare_inventories and the baseline of the next poll).
THEOREM ReportsAreExact == MonitorSpec => []ReportsExact
  <1>1. MonitorIndInv => ReportsExact
    BY DEF MonitorIndInv, ReportsExact
  <1> QED
    BY <1>1, MonitorInvariance, PTL

\* The documents of a poll are as good as one read of the inventory, and a poll
\* run again after a crash does not contradict what it had saved
\* (assemble_inventory, and fetch's first successful observation).
THEOREM PollReadsOnce == MonitorSpec => []PollIsOneRead
  <1>1. MonitorIndInv => PollIsOneRead
    BY DEF MonitorIndInv, ResultsAgree, InventoryWhole, PollIsOneRead, SameResultAgain
  <1> QED
    BY <1>1, MonitorInvariance, PTL
=============================================================================
