--------------------------- MODULE MarketDataProofs ---------------------------
(***************************************************************************)
(* Proofs about MarketData for any policies, requests, workers and limits. *)
(*                                                                         *)
(* The account lock makes the counting of _reserve and the insert of       *)
(* ingestion_prepare one step: between them no other attempt is prepared.  *)
(* An execution is claimed once, so a fetch has one worker, which makes    *)
(* its attempts one after the other and stops at the first success.  What  *)
(* a successful capture recovers therefore never changes.                  *)
(***************************************************************************)
EXTENDS MarketData, FiniteSetTheorems, TLAPS

\* The attempts of one fetch, which is one execution of one request.
fetch(r, e) == {a \in DOMAIN attempts : a[1] = r /\ a[2] = e}
tries(r, e) == Cardinality(fetch(r, e))
of_request(r) == {a \in DOMAIN attempts : a[1] = r}
since(t) == {a \in DOMAIN attempts : attempts[a].prepared_at >= t}
within(t) == {a \in DOMAIN attempts : attempts[a].prepared_at \in t..(t + Hour)}

\* Attempts are made in order; only the last of a fetch may be unresolved or
\* successful.
AttemptsInOrder ==
    /\ IsFiniteSet(DOMAIN attempts)
    /\ \A r \in Requests, e \in 1..MaxExecutions :
          fetch(r, e) = {<<r, e, i>> : i \in 1..tries(r, e)}
    /\ \A a \in DOMAIN attempts :
          attempts[a].state \in Unresolved \cup {"complete"} => a[3] = tries(a[1], a[2])

\* An execution has begun once it was claimed.
begun(r, e) == e <= control[r].execution /\ (e = control[r].execution => control[r].state # "queued")
OnlyBegunFetch ==
    /\ \A a \in DOMAIN attempts : begun(a[1], a[2])
    /\ \A w \in Workers : worker[w] # idle => begun(worker[w].request, worker[w].execution)

\* A fetch has one worker.
OneWorkerEach ==
    \A v, w \in Workers : v # w /\ worker[v] # idle /\ worker[w] # idle =>
        worker[v].request # worker[w].request \/ worker[v].execution # worker[w].execution

\* What a worker remembers agrees with the attempts of its fetch.
Fits(x) ==
    LET own == fetch(x.request, x.execution)
        last == <<x.request, x.execution, tries(x.request, x.execution)>>
    IN  /\ \A a \in own : attempts[a].policy = x.policy
        /\ \A a \in own : attempts[a].state \in Unresolved => x.pc \in {"prepared", "sent"} /\ a = last
        /\ x.pc = "prepared" => last \in own /\ attempts[last].state = "prepared"
        /\ x.pc = "sent" => last \in own /\ attempts[last].state = "in_progress"
        /\ x.pc \in {"waiting", "reserving", "prepared", "sent"} => \A a \in own : ~successful(a)
        /\ x.began <= clock
WorkersFit == \A w \in Workers : worker[w] # idle => Fits(worker[w])

\* Whoever counted holds the lock, and there is still room.
Room(w) ==
    /\ account = w
    /\ Cardinality(since(clock - Hour)) < Quota
    /\ Cardinality(of_request(worker[w].request)) < Dispatches
CountsHold == \A w \in Workers : worker[w].pc = "reserving" => Room(w)

\* Each batch is there once, of resolved evidence of its policy, and if it has
\* values it is what its one successful capture recovers.
Settled(b) ==
    /\ \A a \in b.attempts \cup b.captures :
          a \in DOMAIN attempts /\ attempts[a].policy = b.policy /\ attempts[a].state \notin Unresolved
    /\ b.observed => \E c \in DOMAIN attempts : successful(c) /\ b = evidence({c}, {}, b.policy)
BatchesSettled == \A b \in DOMAIN batches : batches[b] = 1 /\ Settled(b)

\* The inductive invariant.
IndInv ==
    /\ TypeOK /\ QuotaKept /\ DispatchBudgetKept
    /\ AttemptsInOrder /\ OnlyBegunFetch /\ OneWorkerEach /\ WorkersFit /\ CountsHold /\ BatchesSettled

-----------------------------------------------------------------------------
LEMMA Sizes == \A n \in {Dispatches, Quota, Hour, ReviewEnds, Horizon, MaxExecutions, MaxDisturbed} :
                  n \in Nat /\ n > 0
  BY BoundsAssumption

run_of(r, e, n) == {<<r, e, i>> : i \in 1..n}

\* A run of keys of one fetch has as many members as its last number.
LEMMA RunLength ==
  ASSUME NEW r, NEW e, NEW n \in Nat
  PROVE  Cardinality(run_of(r, e, n)) = n
  <1> DEFINE T == {<<r, e, i>> : i \in 1..n}
             f == [i \in 1..n |-> <<r, e, i>>]
  <1>1. f \in [1..n -> T] /\ \A i, j \in 1..n : f[i] = f[j] => i = j
    OBVIOUS
  <1>2. \A t \in T : \E i \in 1..n : f[i] = t
    OBVIOUS
  <1>3. f \in Bijection(1..n, T)
    BY <1>1, <1>2 DEF Bijection, Injection, Surjection, IsInjective
  <1>4. ExistsBijection(1..n, T)
    BY <1>3 DEF ExistsBijection
  <1>5. Cardinality(T) = n
    BY <1>4, FS_CountingElements
  <1> QED
    BY <1>5 DEF run_of

\* One more key takes a count that was below a limit at most to it.
LEMMA CountGrows ==
  ASSUME NEW S, IsFiniteSet(S), NEW T, NEW k, T \subseteq S \cup {k}, NEW n \in Nat, Cardinality(S) < n
  PROVE  Cardinality(T) <= n
  <1>1. /\ IsFiniteSet(S \cup {k}) /\ Cardinality(S) \in Nat
        /\ Cardinality(S \cup {k}) = IF k \in S THEN Cardinality(S) ELSE Cardinality(S) + 1
    BY FS_AddElement, FS_CardinalityType
  <1>2. IsFiniteSet(T) /\ Cardinality(T) <= Cardinality(S \cup {k}) /\ Cardinality(T) \in Nat
    BY <1>1, FS_Subset, FS_CardinalityType
  <1> QED
    BY <1>1, <1>2

LEMMA CountShrinks ==
  ASSUME NEW S, IsFiniteSet(S), NEW T, T \subseteq S, NEW n \in Nat, Cardinality(S) < n
  PROVE  Cardinality(T) < n
  <1>1. Cardinality(T) <= Cardinality(S) /\ Cardinality(T) \in Nat /\ Cardinality(S) \in Nat
    BY FS_Subset, FS_CardinalityType
  <1> QED
    BY <1>1

-----------------------------------------------------------------------------
\* The attempts of a fetch are numbered without gaps, up to the dispatch limit.
LEMMA AttemptTypes ==
  ASSUME TypeOK, NEW a \in DOMAIN attempts
  PROVE  /\ a = <<a[1], a[2], a[3]>> /\ a[1] \in Requests /\ a[2] \in 1..MaxExecutions /\ a[3] \in 1..Dispatches
         /\ attempts[a].policy \in Policies /\ attempts[a].state \in Unresolved \cup Outcomes
         /\ attempts[a].prepared_at \in 0..Horizon /\ attempts[a] \in Attempt
  <1>1. a \in Keys /\ attempts[a] \in Attempt
    BY DEF TypeOK
  <1> QED
    BY <1>1 DEF Keys, Attempt

LEMMA FetchFacts ==
  ASSUME IndInv, NEW r \in Requests, NEW e \in 1..MaxExecutions
  PROVE  /\ tries(r, e) \in 0..Dispatches /\ IsFiniteSet(fetch(r, e))
         /\ fetch(r, e) = {<<r, e, i>> : i \in 1..tries(r, e)}
         /\ \A a \in fetch(r, e) : a[3] \in 1..tries(r, e) /\ a = <<r, e, a[3]>>
         /\ tries(r, e) # 0 => <<r, e, tries(r, e)>> \in fetch(r, e)
         /\ <<r, e, tries(r, e) + 1>> \notin DOMAIN attempts
  <1>1. fetch(r, e) \subseteq DOMAIN attempts /\ IsFiniteSet(DOMAIN attempts)
    BY DEF fetch, IndInv, AttemptsInOrder
  <1>2. IsFiniteSet(fetch(r, e)) /\ tries(r, e) \in Nat
    BY <1>1, FS_Subset, FS_CardinalityType DEF tries
  <1>3. fetch(r, e) = {<<r, e, i>> : i \in 1..tries(r, e)}
    BY DEF IndInv, AttemptsInOrder
  <1>4. tries(r, e) # 0 => <<r, e, tries(r, e)>> \in fetch(r, e)
    BY <1>2, <1>3
  <1>5. tries(r, e) <= Dispatches
    <2>1. CASE tries(r, e) = 0
      BY <2>1, Sizes
    <2>2. CASE tries(r, e) # 0
      BY <1>1, <1>4, <2>2, AttemptTypes DEF IndInv
    <2> QED
      BY <2>1, <2>2
  <1>6. <<r, e, tries(r, e) + 1>> \notin DOMAIN attempts
    <2>1. <<r, e, tries(r, e) + 1>> \notin fetch(r, e)
      BY <1>2, <1>3
    <2> QED
      BY <2>1 DEF fetch
  <1> QED
    BY <1>2, <1>3, <1>4, <1>5, <1>6, Sizes

LEMMA IdsAreFetch ==
  ASSUME NEW w
  PROVE  /\ ids(w) = fetch(worker[w].request, worker[w].execution)
         /\ current_attempt(w) = <<worker[w].request, worker[w].execution,
                                   tries(worker[w].request, worker[w].execution)>>
  BY DEF ids, fetch, same_fetch, current_attempt, attempt_key, tries

\* A successful attempt ends its fetch: it is the last, and all are resolved.
LEMMA SuccessEnds ==
  ASSUME IndInv, NEW c \in DOMAIN attempts, successful(c)
  PROVE  \A a \in fetch(c[1], c[2]) :
            /\ a[3] <= c[3] /\ attempts[a].state \in Outcomes
            /\ successful(a) => a = c
  <1>1. /\ c = <<c[1], c[2], c[3]>> /\ c[1] \in Requests /\ c[2] \in 1..MaxExecutions
        /\ c[3] = tries(c[1], c[2])
    BY AttemptTypes DEF IndInv, AttemptsInOrder, successful
  <1>2. ASSUME NEW a \in fetch(c[1], c[2])
        PROVE  a[3] <= c[3] /\ (a[3] = c[3] => a = c) /\ a \in DOMAIN attempts /\ a[1] = c[1] /\ a[2] = c[2]
    <2>1. a = <<c[1], c[2], a[3]>> /\ a[3] \in 1..tries(c[1], c[2]) /\ tries(c[1], c[2]) \in 0..Dispatches
      BY ZenonT(40), <1>1, FetchFacts
    <2>2. a[3] <= c[3]
      BY <1>1, <2>1, Sizes
    <2> QED
      BY <1>1, <2>1, <2>2 DEF fetch
  <1>3. ASSUME NEW a \in fetch(c[1], c[2]), attempts[a].state \in Unresolved \cup {"complete"}
        PROVE  a = c
    <2>1. a[3] = tries(a[1], a[2])
      BY <1>2, <1>3 DEF IndInv, AttemptsInOrder
    <2> QED
      BY <1>1, <1>2, <2>1
  <1>4. ASSUME NEW a \in fetch(c[1], c[2])
        PROVE  attempts[a].state \in Outcomes
    <2>1. attempts[a].state \in Unresolved \cup Outcomes
      BY <1>2, AttemptTypes DEF IndInv
    <2>2. attempts[c].state = "complete" /\ "complete" \in Outcomes
      BY DEF successful, Outcomes
    <2> QED
      BY <1>3, <2>1, <2>2
  <1> QED
    BY <1>2, <1>3, <1>4 DEF successful

\* Steps that only add attempts to unfinished fetches and resolve unresolved ones.
Extends ==
    /\ \A a \in DOMAIN attempts :
          /\ a \in DOMAIN attempts' /\ attempts'[a].policy = attempts[a].policy
          /\ attempts[a].state \notin Unresolved => attempts'[a] = attempts[a]
    /\ \A a \in DOMAIN attempts' \ DOMAIN attempts :
          \A b \in DOMAIN attempts : b[1] = a[1] /\ b[2] = a[2] => ~successful(b)

\* What a successful capture recovers stays what it is.
LEMMA EvidenceKept ==
  ASSUME IndInv, Extends, NEW c \in DOMAIN attempts, successful(c), NEW p
  PROVE  evidence({c}, {}, p)' = evidence({c}, {}, p) /\ successful(c)'
  <1> DEFINE recovered == {a \in DOMAIN attempts : same_fetch(a, c) /\ a[3] <= c[3]}
  <1>1. \A a \in DOMAIN attempts : same_fetch(a, c) => attempts'[a] = attempts[a] /\ a \in DOMAIN attempts'
    <2>1. ASSUME NEW a \in DOMAIN attempts, same_fetch(a, c) PROVE attempts[a].state \notin Unresolved
      <3>1. a \in fetch(c[1], c[2])
        BY <2>1 DEF fetch, same_fetch
      <3>2. attempts[a].state \in Outcomes
        BY <3>1, SuccessEnds
      <3> QED
        BY <3>2 DEF Outcomes, Unresolved
    <2> QED
      BY <2>1 DEF Extends
  <1>2. \A a \in DOMAIN attempts' : same_fetch(a, c) => a \in DOMAIN attempts
    BY DEF Extends, same_fetch
  <1>3. {a \in DOMAIN attempts' : same_fetch(a, c) /\ a[3] <= c[3]} = recovered
    BY <1>1, <1>2
  <1>4. \A a \in recovered : captured(a)' <=> captured(a)
    BY <1>1 DEF captured
  <1>5. successful(c)' /\ successful(c)
    BY <1>1 DEF successful, same_fetch
  <1>6. evidence({c}, {}, p) =
          [captures |-> {c} \cup {a \in recovered : captured(a)}, attempts |-> recovered,
           observed |-> TRUE, policy |-> p]
    BY <1>5 DEF evidence, fetch_history
  <1>7. evidence({c}, {}, p)' =
          [captures |-> {c} \cup {a \in recovered : captured(a)'}, attempts |-> recovered,
           observed |-> TRUE, policy |-> p]
    <2> DEFINE found == {} \cup {a \in DOMAIN attempts' : \E x \in {c} : same_fetch(a, x) /\ a[3] <= x[3]}
    <2>1. found = recovered
      BY <1>3
    <2>2. evidence({c}, {}, p)' =
            [captures |-> {c} \cup {a \in found : captured(a)'}, attempts |-> found,
             observed |-> \E x \in {c} : successful(x)', policy |-> p]
      BY DEF evidence, fetch_history, same_fetch
    <2> HIDE DEF found, recovered
    <2> QED
      BY <1>5, <2>1, <2>2
  <1>8. {a \in recovered : captured(a)'} = {a \in recovered : captured(a)}
    BY <1>4
  <1> QED
    BY <1>5, <1>6, <1>7, <1>8

LEMMA BatchesKept ==
  ASSUME IndInv, Extends, NEW b \in DOMAIN batches
  PROVE  Settled(b)'
  <1>1. Settled(b)
    BY DEF IndInv, BatchesSettled
  <1>2. \A a \in b.attempts \cup b.captures :
          a \in DOMAIN attempts' /\ attempts'[a].policy = b.policy /\ attempts'[a].state \notin Unresolved
    BY <1>1 DEF Settled, Extends
  <1>3. ASSUME b.observed PROVE \E c \in DOMAIN attempts' : successful(c)' /\ b = evidence({c}, {}, b.policy)'
    <2>1. PICK c \in DOMAIN attempts : successful(c) /\ b = evidence({c}, {}, b.policy)
      BY <1>1, <1>3 DEF Settled
    <2>2. c \in DOMAIN attempts'
      BY DEF Extends
    <2>3. evidence({c}, {}, b.policy)' = evidence({c}, {}, b.policy) /\ successful(c)'
      BY <2>1, EvidenceKept
    <2> QED
      BY <2>1, <2>2, <2>3
  <1> QED
    BY <1>2, <1>3 DEF Settled

-----------------------------------------------------------------------------
(* Attempts.                                                               *)

LEMMA WorkerTypes ==
  ASSUME TypeOK, NEW w \in Workers, worker[w] # idle
  PROVE  /\ worker[w] \in Worker
         /\ worker[w].request \in Requests /\ worker[w].execution \in 1..MaxExecutions
         /\ worker[w].policy \in Policies /\ worker[w].began \in 0..Horizon
         /\ worker[w].deferred \in BOOLEAN
  <1>1. worker[w] \in Worker
    BY DEF TypeOK
  <1> QED
    BY <1>1 DEF Worker

\* A reservation that was counted under the lock is within both limits.
LEMMA AttemptPrepared ==
  ASSUME IndInv, NEW r \in Requests, NEW e \in 1..MaxExecutions, NEW k, NEW row \in Attempt,
         k = <<r, e, tries(r, e) + 1>>, row.prepared_at = clock, row.state = "prepared",
         \A a \in fetch(r, e) : attempts[a].state \notin Unresolved \cup {"complete"},
         Cardinality(since(clock - Hour)) < Quota, Cardinality(of_request(r)) < Dispatches,
         attempts' = with_attempt(k, row)
  PROVE  /\ DOMAIN attempts' \subseteq Keys /\ \A a \in DOMAIN attempts' : attempts'[a] \in Attempt
         /\ QuotaKept' /\ DispatchBudgetKept' /\ AttemptsInOrder' /\ Extends
         /\ fetch(r, e)' = fetch(r, e) \cup {k} /\ tries(r, e)' = tries(r, e) + 1
         /\ DOMAIN attempts' = DOMAIN attempts \cup {k} /\ attempts'[k] = row
         /\ \A a \in DOMAIN attempts : attempts'[a] = attempts[a]
         /\ \A q, f : <<q, f>> # <<r, e>> => fetch(q, f)' = fetch(q, f)
  <1>1. /\ IsFiniteSet(DOMAIN attempts) /\ tries(r, e) \in 0..Dispatches
        /\ fetch(r, e) = {<<r, e, i>> : i \in 1..tries(r, e)} /\ k \notin DOMAIN attempts
    BY FetchFacts DEF IndInv, AttemptsInOrder
  <1>2. /\ DOMAIN attempts' = DOMAIN attempts \cup {k} /\ attempts'[k] = row
        /\ \A a \in DOMAIN attempts : attempts'[a] = attempts[a]
    BY <1>1 DEF with_attempt
  <1>3. k[1] = r /\ k[2] = e /\ k[3] = tries(r, e) + 1
    OBVIOUS
  <1>4. tries(r, e) < Dispatches
    <2>1. fetch(r, e) \subseteq of_request(r) /\ of_request(r) \subseteq DOMAIN attempts
      BY DEF fetch, of_request
    <2>2. IsFiniteSet(of_request(r))
      BY <1>1, <2>1, FS_Subset
    <2> QED
      BY <2>1, <2>2, CountShrinks, Sizes DEF tries
  <1>5. DOMAIN attempts' \subseteq Keys /\ \A a \in DOMAIN attempts' : attempts'[a] \in Attempt
    <2>1. k \in Keys
      BY <1>1, <1>4, Sizes DEF Keys
    <2> QED
      BY <1>2, <2>1 DEF IndInv, TypeOK
  <1>6. fetch(r, e)' = fetch(r, e) \cup {k} /\ \A q, f : <<q, f>> # <<r, e>> => fetch(q, f)' = fetch(q, f)
    BY <1>2, <1>3 DEF fetch
  <1>7. tries(r, e)' = tries(r, e) + 1 /\ fetch(r, e)' = {<<r, e, i>> : i \in 1..(tries(r, e) + 1)}
    <2>1. PICK n \in Nat : n = tries(r, e)
      BY <1>1
    <2>2. fetch(r, e)' = {<<r, e, i>> : i \in 1..(n + 1)}
      <3>1. 1..(n + 1) = (1..n) \cup {n + 1}
        OBVIOUS
      <3> QED
        BY <1>1, <1>6, <2>1, <3>1
    <2>3. Cardinality({<<r, e, i>> : i \in 1..(n + 1)}) = n + 1
      <3>1. PICK m \in Nat : m = n + 1
        BY <2>1
      <3>2. Cardinality(run_of(r, e, m)) = m
        BY RunLength
      <3> QED
        BY <3>1, <3>2 DEF run_of
    <2> QED
      BY <2>1, <2>2, <2>3 DEF tries
  <1>8. AttemptsInOrder'
    <2>1. IsFiniteSet(DOMAIN attempts')
      BY <1>1, <1>2, FS_AddElement
    <2>2. ASSUME NEW q \in Requests, NEW f \in 1..MaxExecutions
          PROVE  fetch(q, f)' = {<<q, f, i>> : i \in 1..tries(q, f)'}
      <3>1. CASE q = r /\ f = e
        BY <1>7, <3>1
      <3>2. CASE ~(q = r /\ f = e)
        <4>1. fetch(q, f)' = fetch(q, f)
          BY <1>6, <3>2
        <4>2. tries(q, f)' = tries(q, f) /\ fetch(q, f) = {<<q, f, i>> : i \in 1..tries(q, f)}
          BY <4>1 DEF tries, IndInv, AttemptsInOrder
        <4> QED
          BY <4>1, <4>2
      <3> QED
        BY <3>1, <3>2
    <2>3. ASSUME NEW a \in DOMAIN attempts', attempts'[a].state \in Unresolved \cup {"complete"}
          PROVE  a[3] = tries(a[1], a[2])'
      <3>1. CASE a = k
        BY <1>3, <1>7, <3>1
      <3>2. CASE a # k
        <4>1. a \in DOMAIN attempts /\ attempts[a].state \in Unresolved \cup {"complete"}
          BY <1>2, <2>3, <3>2
        <4>2. a \notin fetch(r, e)
          BY <4>1
        <4>3. PICK q, f : q = a[1] /\ f = a[2]
          OBVIOUS
        <4>4. fetch(q, f)' = fetch(q, f)
          BY <1>6, <4>1, <4>2, <4>3 DEF fetch
        <4>5. tries(q, f)' = tries(q, f) /\ a[3] = tries(q, f)
          BY <4>1, <4>3, <4>4 DEF tries, IndInv, AttemptsInOrder
        <4> QED
          BY <4>3, <4>5
      <3> QED
        BY <3>1, <3>2
    <2> QED
      BY <2>1, <2>2, <2>3 DEF AttemptsInOrder
  <1>9. QuotaKept'
    <2> SUFFICES ASSUME NEW t \in 0..Horizon
                 PROVE  Cardinality({a \in DOMAIN attempts' : attempts'[a].prepared_at \in t..(t + Hour)}) <= Quota
      BY DEF QuotaKept
    <2> DEFINE W == {a \in DOMAIN attempts' : attempts'[a].prepared_at \in t..(t + Hour)}
    <2>1. clock \in 0..Horizon /\ Hour \in Nat /\ Horizon \in Nat /\ Quota \in Nat
      BY Sizes DEF IndInv, TypeOK
    <2>2. CASE clock \in t..(t + Hour)
      <3>1. \A a \in DOMAIN attempts : attempts[a].prepared_at \in t..(t + Hour) => attempts[a].prepared_at >= clock - Hour
        BY <2>1, <2>2
      <3>2. W \subseteq since(clock - Hour) \cup {k}
        BY <1>2, <3>1 DEF since
      <3>3. IsFiniteSet(since(clock - Hour))
        BY <1>1, FS_Subset DEF since
      <3> QED
        BY <2>1, <3>2, <3>3, CountGrows
    <2>3. CASE clock \notin t..(t + Hour)
      <3>1. W = {a \in DOMAIN attempts : attempts[a].prepared_at \in t..(t + Hour)}
        BY <1>2, <2>3
      <3> QED
        BY <3>1 DEF IndInv, QuotaKept
    <2> QED
      BY <2>2, <2>3
  <1>10. DispatchBudgetKept'
    <2> SUFFICES ASSUME NEW q \in Requests
                 PROVE  Cardinality({a \in DOMAIN attempts' : a[1] = q}) <= Dispatches
      BY DEF DispatchBudgetKept
    <2>1. CASE q = r
      <3>1. {a \in DOMAIN attempts' : a[1] = q} \subseteq of_request(r) \cup {k}
        BY <1>2, <2>1 DEF of_request
      <3>2. IsFiniteSet(of_request(r))
        BY <1>1, FS_Subset DEF of_request
      <3> QED
        BY <3>1, <3>2, CountGrows, Sizes
    <2>2. CASE q # r
      <3>1. {a \in DOMAIN attempts' : a[1] = q} = {a \in DOMAIN attempts : a[1] = q}
        BY <1>2, <1>3, <2>2
      <3> QED
        BY <3>1 DEF IndInv, DispatchBudgetKept
    <2> QED
      BY <2>1, <2>2
  <1>11. Extends
    <2>1. ASSUME NEW b \in DOMAIN attempts, b[1] = k[1], b[2] = k[2] PROVE ~successful(b)
      BY <1>3, <2>1 DEF fetch, successful
    <2> QED
      BY <1>2, <2>1 DEF Extends
  <1> QED
    BY <1>2, <1>5, <1>6, <1>7, <1>8, <1>9, <1>10, <1>11

\* Dispatching or resolving the last attempt of a fetch changes no count.
LEMMA AttemptMoves ==
  ASSUME IndInv, NEW k \in DOMAIN attempts, NEW state \in {"in_progress"} \cup Outcomes,
         attempts[k].state \in Unresolved,
         attempts' = [attempts EXCEPT ![k].state = state]
  PROVE  /\ DOMAIN attempts' = DOMAIN attempts /\ \A a \in DOMAIN attempts' : attempts'[a] \in Attempt
         /\ QuotaKept' /\ DispatchBudgetKept' /\ AttemptsInOrder' /\ Extends
         /\ \A q, f : fetch(q, f)' = fetch(q, f) /\ tries(q, f)' = tries(q, f)
         /\ attempts'[k].state = state
         /\ \A a \in DOMAIN attempts : /\ attempts'[a].policy = attempts[a].policy
                                       /\ attempts'[a].prepared_at = attempts[a].prepared_at
                                       /\ a # k => attempts'[a] = attempts[a]
  <1>1. attempts[k] \in Attempt /\ \A a \in DOMAIN attempts : attempts[a] \in Attempt
    BY DEF IndInv, TypeOK
  <1>2. PICK row : row = [attempts[k] EXCEPT !.state = state]
    OBVIOUS
  <1>3. row \in Attempt /\ row.state = state /\ row.policy = attempts[k].policy /\ row.prepared_at = attempts[k].prepared_at
    BY <1>1, <1>2 DEF Attempt, Unresolved
  <1>4. attempts' = [attempts EXCEPT ![k] = row]
    BY <1>2
  <1>5. /\ DOMAIN attempts' = DOMAIN attempts /\ attempts'[k] = row
        /\ \A a \in DOMAIN attempts : a # k => attempts'[a] = attempts[a]
    BY <1>4
  <1>6. \A a \in DOMAIN attempts : /\ attempts'[a].policy = attempts[a].policy
                                   /\ attempts'[a].prepared_at = attempts[a].prepared_at
    BY <1>3, <1>5
  <1>7. \A a \in DOMAIN attempts' : attempts'[a] \in Attempt
    BY <1>1, <1>3, <1>5
  <1>8. \A q, f : fetch(q, f)' = fetch(q, f)
    BY <1>5 DEF fetch
  <1>9. \A q, f : tries(q, f)' = tries(q, f)
    BY <1>8 DEF tries
  <1>10. QuotaKept'
    <2> SUFFICES ASSUME NEW t \in 0..Horizon
                 PROVE  Cardinality({a \in DOMAIN attempts' : attempts'[a].prepared_at \in t..(t + Hour)}) <= Quota
      BY DEF QuotaKept
    <2>1. {a \in DOMAIN attempts' : attempts'[a].prepared_at \in t..(t + Hour)} =
          {a \in DOMAIN attempts : attempts[a].prepared_at \in t..(t + Hour)}
      BY <1>5, <1>6
    <2> QED
      BY <2>1 DEF IndInv, QuotaKept
  <1>11. DispatchBudgetKept'
    BY <1>5 DEF IndInv, DispatchBudgetKept
  <1>12. AttemptsInOrder'
    <2>1. ASSUME NEW a \in DOMAIN attempts', attempts'[a].state \in Unresolved \cup {"complete"}
          PROVE  a[3] = tries(a[1], a[2])'
      <3>1. attempts[a].state \in Unresolved \cup {"complete"} /\ a \in DOMAIN attempts
        BY <1>5, <2>1
      <3>2. a[3] = tries(a[1], a[2])
        BY <3>1 DEF IndInv, AttemptsInOrder
      <3> QED
        BY <1>9, <3>2
    <2>2. \A q \in Requests, f \in 1..MaxExecutions : fetch(q, f)' = {<<q, f, i>> : i \in 1..tries(q, f)'}
      BY <1>8, <1>9 DEF IndInv, AttemptsInOrder
    <2>3. IsFiniteSet(DOMAIN attempts')
      BY <1>5 DEF IndInv, AttemptsInOrder
    <2> QED
      BY <2>1, <2>2, <2>3 DEF AttemptsInOrder
  <1>13. Extends
    BY <1>5, <1>6 DEF Extends
  <1> QED
    BY <1>3, <1>5, <1>6, <1>7, <1>8, <1>9, <1>10, <1>11, <1>12, <1>13

LEMMA AttemptsStay ==
  ASSUME IndInv, attempts' = attempts
  PROVE  /\ QuotaKept' /\ DispatchBudgetKept' /\ AttemptsInOrder' /\ Extends
         /\ \A q, f : fetch(q, f)' = fetch(q, f) /\ tries(q, f)' = tries(q, f)
  <1>1. QuotaKept' /\ DispatchBudgetKept'
    BY DEF IndInv, QuotaKept, DispatchBudgetKept
  <1>2. \A q, f : fetch(q, f)' = fetch(q, f)
    BY DEF fetch
  <1>3. \A q, f : tries(q, f)' = tries(q, f)
    BY <1>2 DEF tries
  <1>4. AttemptsInOrder'
    BY <1>2, <1>3 DEF IndInv, AttemptsInOrder
  <1>5. Extends
    BY DEF Extends
  <1> QED
    BY <1>1, <1>2, <1>3, <1>4, <1>5

-----------------------------------------------------------------------------
(* Batches.                                                                *)

LEMMA BatchesStay ==
  ASSUME IndInv, Extends, batches' = batches
  PROVE  BatchesSettled' /\ IsABag(batches') /\ BagToSet(batches') \subseteq Evidence
  <1>1. \A b \in DOMAIN batches : batches[b] = 1 /\ Settled(b)'
    BY BatchesKept DEF IndInv, BatchesSettled
  <1> QED
    BY <1>1 DEF BatchesSettled, IndInv, TypeOK

\* Equal evidence is inserted once.
LEMMA BatchAdded ==
  ASSUME IndInv, Extends, NEW input \in Evidence, Settled(input)', batches' = with_batch(input)
  PROVE  BatchesSettled' /\ IsABag(batches') /\ BagToSet(batches') \subseteq Evidence
  <1>1. CASE BagIn(input, batches)
    BY <1>1, BatchesStay DEF with_batch
  <1>2. CASE ~BagIn(input, batches)
    <2>1. batches' = batches (+) SetToBag({input}) /\ input \notin DOMAIN batches /\ IsABag(batches)
      BY <1>2 DEF with_batch, BagIn, BagToSet, IndInv, TypeOK
    <2>2. DOMAIN batches' = DOMAIN batches \cup {input}
      BY <2>1 DEF IsABag, SetToBag, (+)
    <2>3. batches'[input] = 1 /\ \A b \in DOMAIN batches : batches'[b] = batches[b]
      BY <2>1 DEF IsABag, SetToBag, (+)
    <2>4. IsABag(batches')
      BY <2>1, <2>2, <2>3 DEF IsABag, SetToBag, (+)
    <2>5. BagToSet(batches') \subseteq Evidence
      BY <2>2 DEF BagToSet, IndInv, TypeOK
    <2>6. \A b \in DOMAIN batches : batches[b] = 1 /\ Settled(b)'
      BY BatchesKept DEF IndInv, BatchesSettled
    <2> QED
      BY <2>2, <2>3, <2>4, <2>5, <2>6 DEF BatchesSettled
  <1> QED
    BY <1>1, <1>2

-----------------------------------------------------------------------------
(* Workers.                                                                *)

LEMMA FitsStays ==
  ASSUME NEW y, Fits(y), clock' = clock,
         fetch(y.request, y.execution)' = fetch(y.request, y.execution),
         \A a \in fetch(y.request, y.execution) : attempts'[a] = attempts[a]
  PROVE  Fits(y)'
  <1>1. tries(y.request, y.execution)' = tries(y.request, y.execution)
    BY DEF tries
  <1> QED
    BY <1>1 DEF Fits, successful

\* Without a new answer a worker may go on if what it is about to do is no
\* earlier in its fetch.
LEMMA FitsNext ==
  ASSUME NEW y, Fits(y), y.pc \notin {"prepared", "sent"}, clock' = clock, attempts' = attempts,
         NEW x, x.request = y.request, x.execution = y.execution, x.policy = y.policy,
         x.pc \in {"reserving", "fetched", "done"}, x.pc = "reserving" => y.pc \in {"waiting", "reserving"},
         x.began <= clock
  PROVE  Fits(x)'
  <1>1. /\ fetch(x.request, x.execution)' = fetch(y.request, y.execution)
        /\ tries(x.request, x.execution)' = tries(y.request, y.execution)
    BY DEF fetch, tries
  <1> QED
    BY <1>1 DEF Fits, successful

\* A step of one worker leaves the others, whose fetches are not its own.
LEMMA WorkerMoves ==
  ASSUME IndInv, NEW w \in Workers, NEW x \in {idle} \cup Worker, worker' = [worker EXCEPT ![w] = x],
         clock' = clock, x # idle => Fits(x)',
         \A v \in Workers \ {w} : worker[v] # idle =>
            /\ x # idle => x.request # worker[v].request \/ x.execution # worker[v].execution
            /\ fetch(worker[v].request, worker[v].execution)' = fetch(worker[v].request, worker[v].execution)
            /\ \A a \in fetch(worker[v].request, worker[v].execution) : attempts'[a] = attempts[a]
  PROVE  worker' \in [Workers -> {idle} \cup Worker] /\ OneWorkerEach' /\ WorkersFit'
  <1>1. worker'[w] = x /\ \A v \in Workers \ {w} : worker'[v] = worker[v]
    BY DEF IndInv, TypeOK
  <1>2. worker' \in [Workers -> {idle} \cup Worker]
    BY DEF IndInv, TypeOK
  <1>3. OneWorkerEach'
    BY <1>1 DEF IndInv, OneWorkerEach
  <1>4. ASSUME NEW v \in Workers, worker'[v] # idle PROVE Fits(worker[v])'
    <2>1. CASE v = w
      BY <1>1, <1>4, <2>1
    <2>2. CASE v # w
      <3>1. PICK y : y = worker[v]
        OBVIOUS
      <3>2. y # idle /\ worker'[v] = y
        BY <1>1, <1>4, <2>2, <3>1
      <3>3. Fits(y)
        BY <3>1, <3>2 DEF IndInv, WorkersFit
      <3>4. /\ fetch(y.request, y.execution)' = fetch(y.request, y.execution)
            /\ \A a \in fetch(y.request, y.execution) : attempts'[a] = attempts[a]
        <4>1. /\ fetch(worker[v].request, worker[v].execution)' = fetch(worker[v].request, worker[v].execution)
              /\ \A a \in fetch(worker[v].request, worker[v].execution) : attempts'[a] = attempts[a]
          BY <2>2, <3>1, <3>2
        <4>2. /\ fetch(worker[v].request, worker[v].execution) = fetch(y.request, y.execution)
              /\ fetch(worker[v].request, worker[v].execution)' = fetch(y.request, y.execution)'
          BY <3>1, <3>2
        <4> QED
          BY <4>1, <4>2
      <3>5. Fits(y)'
        BY <3>3, <3>4, FitsStays
      <3> QED
        BY <3>2, <3>5
    <2> QED
      BY <2>1, <2>2
  <1> QED
    BY <1>2, <1>3, <1>4 DEF WorkersFit

\* A step changes the attempts of no fetch but that of w.
OnlyOwn(w) ==
    \A q, f : <<q, f>> # <<worker[w].request, worker[w].execution>> =>
        fetch(q, f)' = fetch(q, f) /\ \A a \in fetch(q, f) : attempts'[a] = attempts[a]

\* Who works, and at which execution.
SameWork ==
    \A v \in Workers : worker'[v] # idle =>
        /\ worker[v] # idle /\ worker'[v].request = worker[v].request
        /\ worker'[v].execution = worker[v].execution

\* So does a step that may change the attempts of the worker's own fetch.
LEMMA OwnMoves ==
  ASSUME IndInv, NEW w \in Workers, worker[w] # idle, NEW x \in {idle} \cup Worker,
         worker' = [worker EXCEPT ![w] = x],
         x # idle => x.request = worker[w].request /\ x.execution = worker[w].execution,
         clock' = clock, x # idle => Fits(x)', OnlyOwn(w)
  PROVE  worker' \in [Workers -> {idle} \cup Worker] /\ OneWorkerEach' /\ WorkersFit' /\ SameWork
  <1>1. worker'[w] = x /\ \A v \in Workers \ {w} : worker'[v] = worker[v]
    BY DEF IndInv, TypeOK
  <1>2. ASSUME NEW v \in Workers \ {w}, worker[v] # idle
        PROVE  /\ x # idle => x.request # worker[v].request \/ x.execution # worker[v].execution
               /\ fetch(worker[v].request, worker[v].execution)' = fetch(worker[v].request, worker[v].execution)
               /\ \A a \in fetch(worker[v].request, worker[v].execution) : attempts'[a] = attempts[a]
    <2>1. worker[v].request # worker[w].request \/ worker[v].execution # worker[w].execution
      BY <1>2 DEF IndInv, OneWorkerEach
    <2>2. PICK q, f : q = worker[v].request /\ f = worker[v].execution
      OBVIOUS
    <2>3. fetch(q, f)' = fetch(q, f) /\ \A a \in fetch(q, f) : attempts'[a] = attempts[a]
      BY <2>1, <2>2 DEF OnlyOwn
    <2>4. fetch(worker[v].request, worker[v].execution)' = fetch(q, f)'
      <3>1. worker'[v] = worker[v]
        BY <1>1
      <3> QED
        BY <2>2, <3>1
    <2>5. x # idle => x.request # worker[v].request \/ x.execution # worker[v].execution
      BY <2>1
    <2> QED
      BY <2>2, <2>3, <2>4, <2>5
  <1>3. worker' \in [Workers -> {idle} \cup Worker] /\ OneWorkerEach' /\ WorkersFit'
    BY <1>2, WorkerMoves
  <1>4. SameWork
    BY <1>1 DEF SameWork
  <1> QED
    BY <1>3, <1>4

\* The counts of whoever is reserving stay good while no attempt is prepared,
\* and nobody else is reserving when the lock's holder lets go of it.
LEMMA CountsStay ==
  ASSUME IndInv, NEW w \in Workers, NEW x \in {idle} \cup Worker, worker' = [worker EXCEPT ![w] = x],
         x.pc # "reserving",
         \/ worker[w].pc = "reserving"
         \/ /\ account' = account /\ clock' = clock /\ DOMAIN attempts' = DOMAIN attempts
            /\ \A a \in DOMAIN attempts : attempts'[a].prepared_at = attempts[a].prepared_at
  PROVE  CountsHold'
  <1>1. worker'[w] = x /\ \A v \in Workers \ {w} : worker'[v] = worker[v]
    BY DEF IndInv, TypeOK
  <1> SUFFICES ASSUME NEW v \in Workers, worker'[v].pc = "reserving" PROVE Room(v)'
    BY DEF CountsHold
  <1>2. v # w /\ worker'[v] = worker[v] /\ worker[v].pc = "reserving" /\ Room(v)
    BY <1>1 DEF IndInv, CountsHold
  <1>3. worker[w].pc # "reserving"
    BY <1>2 DEF IndInv, CountsHold, Room
  <1>4. /\ account' = account /\ clock' = clock /\ DOMAIN attempts' = DOMAIN attempts
        /\ \A a \in DOMAIN attempts : attempts'[a].prepared_at = attempts[a].prepared_at
    BY <1>3
  <1>5. since(clock - Hour)' = since(clock - Hour)
    BY <1>4 DEF since
  <1>6. of_request(worker[v].request)' = of_request(worker[v].request)
    BY <1>2, <1>4 DEF of_request
  <1> QED
    BY <1>2, <1>4, <1>5, <1>6 DEF Room

LEMMA BegunStays ==
  ASSUME TypeOK, TypeOK',
         \A q \in Requests : \/ control'[q] = control[q]
                             \/ control'[q].execution > control[q].execution
                             \/ control'[q].execution = control[q].execution /\ control'[q].state # "queued"
  PROVE  \A q \in Requests, f \in 1..MaxExecutions : begun(q, f) => begun(q, f)'
  <1>1. \A q \in Requests : control[q].execution \in Nat /\ control'[q].execution \in Nat
    BY Sizes DEF TypeOK
  <1> QED
    BY <1>1, Sizes DEF begun

LEMMA OnlyBegunStays ==
  ASSUME IndInv, TypeOK', \A q \in Requests, f \in 1..MaxExecutions : begun(q, f) => begun(q, f)',
         DOMAIN attempts' = DOMAIN attempts, SameWork
  PROVE  OnlyBegunFetch'
  <1>1. ASSUME NEW a \in DOMAIN attempts' PROVE begun(a[1], a[2])'
    BY <1>1, AttemptTypes DEF IndInv, OnlyBegunFetch
  <1>2. ASSUME NEW v \in Workers, worker'[v] # idle PROVE begun(worker[v].request, worker[v].execution)'
    <2>1. PICK q, f : q = worker[v].request /\ f = worker[v].execution
      OBVIOUS
    <2>2. begun(q, f) /\ q \in Requests /\ f \in 1..MaxExecutions
      BY <1>2, <2>1, WorkerTypes DEF IndInv, OnlyBegunFetch, SameWork
    <2>3. begun(q, f)' /\ q = worker'[v].request /\ f = worker'[v].execution
      BY <1>2, <2>1, <2>2 DEF SameWork
    <2> QED
      BY <2>3
  <1> QED
    BY <1>1, <1>2 DEF OnlyBegunFetch

-----------------------------------------------------------------------------
(* The steps.                                                              *)

LEMMA InitOK == Init => IndInv
  <1> SUFFICES ASSUME Init PROVE IndInv
    OBVIOUS
  <1>1. DOMAIN attempts = {} /\ DOMAIN batches = {} /\ IsABag(batches) /\ BagToSet(batches) = {}
    BY DEF Init, EmptyBag, SetToBag, IsABag, BagToSet
  <1>2. \A w \in Workers : worker[w] = idle
    BY DEF Init
  <1>3. TypeOK
    BY <1>1, Sizes DEF Init, TypeOK, PolicyState
  <1>4. QuotaKept
    <2> SUFFICES ASSUME NEW t \in 0..Horizon
                 PROVE  Cardinality({a \in DOMAIN attempts : attempts[a].prepared_at \in t..(t + Hour)}) <= Quota
      BY DEF QuotaKept
    <2>1. {a \in DOMAIN attempts : attempts[a].prepared_at \in t..(t + Hour)} = {}
      BY <1>1
    <2>2. Cardinality({}) = 0 /\ Quota \in Nat
      BY FS_EmptySet, Sizes
    <2> QED
      BY <2>1, <2>2
  <1>5. DispatchBudgetKept
    <2> SUFFICES ASSUME NEW q \in Requests
                 PROVE  Cardinality({a \in DOMAIN attempts : a[1] = q}) <= Dispatches
      BY DEF DispatchBudgetKept
    <2>1. {a \in DOMAIN attempts : a[1] = q} = {}
      BY <1>1
    <2> QED
      BY <2>1, FS_EmptySet, Sizes
  <1>6. AttemptsInOrder
    <2>1. \A q, f : fetch(q, f) = {} /\ tries(q, f) = 0
      BY <1>1, FS_EmptySet DEF fetch, tries
    <2>2. \A q, f : {<<q, f, i>> : i \in 1..0} = {}
      OBVIOUS
    <2> QED
      BY <1>1, <2>1, <2>2, FS_EmptySet DEF AttemptsInOrder
  <1>7. OnlyBegunFetch /\ OneWorkerEach /\ WorkersFit /\ BatchesSettled
    BY <1>1, <1>2 DEF OnlyBegunFetch, OneWorkerEach, WorkersFit, BatchesSettled
  <1>8. CountsHold
    BY <1>2 DEF CountsHold, idle
  <1> QED
    BY <1>3, <1>4, <1>5, <1>6, <1>7, <1>8 DEF IndInv

\* A change of policy disturbs nothing but the policies.
LEMMA PolicyMoves ==
  ASSUME IndInv, policy' \in [Policies -> PolicyState],
         UNCHANGED <<control, attempts, batches, account, clock, worker>>
  PROVE  IndInv'
  <1>1. TypeOK'
    BY DEF IndInv, TypeOK
  <1>2. QuotaKept' /\ DispatchBudgetKept' /\ AttemptsInOrder' /\ BatchesSettled'
    BY AttemptsStay, BatchesStay
  <1>3. OnlyBegunFetch' /\ OneWorkerEach'
    BY DEF IndInv, OnlyBegunFetch, OneWorkerEach, begun
  <1>4. WorkersFit'
    BY DEF IndInv, WorkersFit, Fits, fetch, tries, successful
  <1>5. CountsHold'
    BY DEF IndInv, CountsHold, Room, since, of_request
  <1> QED
    BY <1>1, <1>2, <1>3, <1>4, <1>5 DEF IndInv

LEMMA ActivatePolicyOK ==
  ASSUME IndInv, NEW p \in Policies, ActivatePolicy(p)
  PROVE  IndInv'
  <1>1. policy' \in [Policies -> PolicyState]
    BY DEF ActivatePolicy, PolicyState, IndInv, TypeOK
  <1> QED
    BY <1>1, PolicyMoves DEF ActivatePolicy

LEMMA DisablePolicyOK ==
  ASSUME IndInv, NEW p \in Policies, DisablePolicy(p)
  PROVE  IndInv'
  <1>1. policy' \in [Policies -> PolicyState]
    BY DEF DisablePolicy, PolicyState, IndInv, TypeOK
  <1> QED
    BY <1>1, PolicyMoves DEF DisablePolicy

LEMMA TickOK ==
  ASSUME IndInv, Tick
  PROVE  IndInv'
  <1>1. /\ clock' = clock + 1 /\ clock < Horizon /\ clock \in 0..Horizon /\ Horizon \in Nat /\ Hour \in Nat
        /\ UNCHANGED <<policy, control, attempts, batches, account, worker>>
    BY Sizes DEF Tick, IndInv, TypeOK
  <1>2. TypeOK'
    BY <1>1 DEF IndInv, TypeOK
  <1>3. QuotaKept' /\ DispatchBudgetKept' /\ AttemptsInOrder' /\ BatchesSettled'
    BY <1>1, AttemptsStay, BatchesStay
  <1>4. OnlyBegunFetch' /\ OneWorkerEach'
    BY <1>1 DEF IndInv, OnlyBegunFetch, OneWorkerEach, begun
  <1>5. ASSUME NEW w \in Workers, worker[w] # idle PROVE Fits(worker[w])'
    <2>1. Fits(worker[w]) /\ worker[w].began \in 0..Horizon
      BY <1>5, WorkerTypes DEF IndInv, WorkersFit
    <2>2. worker[w].began <= clock'
      BY <1>1, <2>1 DEF Fits
    <2> QED
      BY <1>1, <2>1, <2>2 DEF Fits, fetch, tries, successful
  <1>6. ASSUME NEW w \in Workers, worker[w].pc = "reserving" PROVE Room(w)'
    <2>1. Room(w)
      BY <1>6 DEF IndInv, CountsHold
    <2>2. \A a \in DOMAIN attempts : attempts[a].prepared_at \in 0..Horizon
      BY AttemptTypes DEF IndInv
    <2>3. since(clock - Hour)' \subseteq since(clock - Hour)
      BY <1>1, <2>2 DEF since
    <2>4. IsFiniteSet(since(clock - Hour))
      BY FS_Subset DEF since, IndInv, AttemptsInOrder
    <2>5. Cardinality(since(clock - Hour)') < Quota
      BY <2>1, <2>3, <2>4, CountShrinks, Sizes DEF Room
    <2> QED
      BY <1>1, <2>1, <2>5 DEF Room, of_request
  <1> QED
    BY <1>1, <1>2, <1>3, <1>4, <1>5, <1>6 DEF IndInv, WorkersFit, CountsHold

LEMMA ClaimOK ==
  ASSUME IndInv, NEW w \in Workers, NEW r \in Requests, NEW p \in Policies, Claim(w, r, p)
  PROVE  IndInv'
  <1>1. /\ worker[w] = idle /\ control[r].state = "queued"
        /\ control' = [control EXCEPT ![r].state = "running"]
        /\ worker' = [worker EXCEPT ![w] = claimed(r, p)]
        /\ UNCHANGED <<policy, attempts, batches, account, clock>>
    BY DEF Claim
  <1>2. PICK e \in 1..MaxExecutions : e = control[r].execution
    BY DEF IndInv, TypeOK
  <1>3. PICK x : x = claimed(r, p)
    OBVIOUS
  <1>4. /\ x \in Worker /\ x # idle /\ x.pc = "waiting" /\ x.request = r /\ x.execution = e
        /\ x.policy = p /\ x.began = clock
    <2>1. clock \in 0..Horizon
      BY DEF IndInv, TypeOK
    <2>2. x = [pc |-> "waiting", request |-> r, execution |-> e, policy |-> p, began |-> clock, deferred |-> FALSE]
      BY <1>2, <1>3 DEF claimed
    <2> QED
      BY <2>1, <2>2 DEF Worker, idle
  <1>5. ~begun(r, e)
    BY <1>1, <1>2 DEF begun
  <1>6. fetch(r, e)' = {} /\ fetch(r, e) = {} /\ e \in Nat
    BY <1>1, <1>2, <1>5, Sizes DEF fetch, IndInv, OnlyBegunFetch
  <1>7. \A v \in Workers : worker[v] # idle => worker[v].request # r \/ worker[v].execution # e
    BY <1>5 DEF IndInv, OnlyBegunFetch
  <1>8. Fits(x)'
    <2>1. clock' = clock /\ clock \in Nat
      BY <1>1, Sizes DEF IndInv, TypeOK
    <2> QED
      BY <1>4, <1>6, <2>1 DEF Fits
  <1>9. /\ \A q, f : fetch(q, f)' = fetch(q, f)
        /\ worker' = [worker EXCEPT ![w] = x] /\ worker'[w] = x
        /\ \A v \in Workers \ {w} : worker'[v] = worker[v]
    BY <1>1, <1>3 DEF fetch, IndInv, TypeOK
  <1>10. worker' \in [Workers -> {idle} \cup Worker] /\ OneWorkerEach' /\ WorkersFit'
    <2>1. ASSUME NEW v \in Workers \ {w}, worker[v] # idle
          PROVE  /\ x # idle => x.request # worker[v].request \/ x.execution # worker[v].execution
                 /\ fetch(worker[v].request, worker[v].execution)' = fetch(worker[v].request, worker[v].execution)
                 /\ \A a \in fetch(worker[v].request, worker[v].execution) : attempts'[a] = attempts[a]
      <3>1. worker'[v] = worker[v]
        BY <1>9
      <3>2. fetch(worker[v].request, worker[v].execution)' = fetch(worker[v].request, worker[v].execution)
        BY <1>1, <3>1 DEF fetch
      <3> QED
        BY <1>1, <1>4, <1>7, <2>1, <3>2
    <2>2. x \in {idle} \cup Worker /\ clock' = clock
      BY <1>1, <1>4
    <2>3. worker' = [worker EXCEPT ![w] = x] /\ (x # idle => Fits(x)')
      BY <1>8, <1>9
    <2> QED
      BY <2>1, <2>2, <2>3, WorkerMoves
  <1>11. CountsHold'
    BY <1>1, <1>4, <1>9, CountsStay
  <1>12. /\ control' \in [Requests -> [execution : 1..MaxExecutions, state : {"queued", "running", "ended", "failed"}]]
         /\ control'[r].execution = e /\ control'[r].state = "running"
         /\ \A q \in Requests \ {r} : control'[q] = control[q]
    BY <1>1, <1>2 DEF IndInv, TypeOK
  <1>13. TypeOK'
    BY <1>1, <1>10, <1>12 DEF IndInv, TypeOK
  <1>14. \A q \in Requests, f \in 1..MaxExecutions : begun(q, f) => begun(q, f)'
    <2>1. TypeOK
      BY DEF IndInv
    <2> QED
      BY <1>2, <1>12, <1>13, <2>1, BegunStays
  <1>15. OnlyBegunFetch'
    <2>1. ASSUME NEW a \in DOMAIN attempts' PROVE begun(a[1], a[2])'
      BY <1>1, <1>14, <2>1, AttemptTypes DEF IndInv, OnlyBegunFetch
    <2>2. begun(r, e)'
      BY <1>6, <1>12 DEF begun
    <2>3. ASSUME NEW v \in Workers, worker'[v] # idle PROVE begun(worker[v].request, worker[v].execution)'
      <3>1. CASE v = w
        BY <1>4, <1>9, <2>2, <3>1
      <3>2. CASE v # w
        <4>1. PICK q, f : q = worker[v].request /\ f = worker[v].execution
          OBVIOUS
        <4>2. begun(q, f) /\ q \in Requests /\ f \in 1..MaxExecutions
          BY <1>9, <2>3, <3>2, <4>1, WorkerTypes DEF IndInv, OnlyBegunFetch
        <4>3. begun(q, f)' /\ q = worker'[v].request /\ f = worker'[v].execution
          BY <1>9, <1>14, <3>2, <4>1, <4>2
        <4> QED
          BY <4>3
      <3> QED
        BY <3>1, <3>2
    <2> QED
      BY <2>1, <2>3 DEF OnlyBegunFetch
  <1> QED
    BY <1>1, <1>10, <1>11, <1>13, <1>15, AttemptsStay, BatchesStay DEF IndInv

Control == [execution : 1..MaxExecutions, state : {"queued", "running", "ended", "failed"}]

\* A worker's step that prepares no attempt and takes no lock.
LEMMA WorkerStep ==
  ASSUME IndInv, NEW w \in Workers, worker[w] # idle,
         NEW x \in {idle} \cup Worker, worker' = [worker EXCEPT ![w] = x],
         x # idle => x.request = worker[w].request /\ x.execution = worker[w].execution,
         x # idle => Fits(x)', x.pc # "reserving",
         policy' = policy, clock' = clock,
         account' \in Workers \cup {none}, account' = account \/ worker[w].pc = "reserving",
         DOMAIN attempts' = DOMAIN attempts, \A a \in DOMAIN attempts : attempts'[a] \in Attempt,
         \A a \in DOMAIN attempts : attempts'[a].prepared_at = attempts[a].prepared_at,
         QuotaKept', DispatchBudgetKept', AttemptsInOrder',
         \A a \in DOMAIN attempts :
            a[1] # worker[w].request \/ a[2] # worker[w].execution => attempts'[a] = attempts[a],
         control' \in [Requests -> Control],
         \A q \in Requests : \/ control'[q] = control[q]
                             \/ control'[q].execution > control[q].execution
                             \/ control'[q].execution = control[q].execution /\ control'[q].state # "queued",
         BatchesSettled', IsABag(batches'), BagToSet(batches') \subseteq Evidence
  PROVE  IndInv'
  <1>1. OnlyOwn(w)
    BY DEF OnlyOwn, fetch
  <1>2. worker' \in [Workers -> {idle} \cup Worker] /\ OneWorkerEach' /\ WorkersFit' /\ SameWork
    BY <1>1, OwnMoves
  <1>3. TypeOK'
    BY <1>2 DEF IndInv, TypeOK, Control
  <1>4. CountsHold'
    BY CountsStay
  <1>5. OnlyBegunFetch'
    <2>1. \A q \in Requests, f \in 1..MaxExecutions : begun(q, f) => begun(q, f)'
      BY <1>3, BegunStays DEF IndInv
    <2> QED
      BY <1>2, <1>3, <2>1, OnlyBegunStays
  <1> QED
    BY <1>2, <1>3, <1>4, <1>5 DEF IndInv

\* One in which the attempts and the batches stay as they are.
LEMMA QuietStep ==
  ASSUME IndInv, NEW w \in Workers, worker[w] # idle,
         NEW x \in {idle} \cup Worker, worker' = [worker EXCEPT ![w] = x],
         x # idle => x.request = worker[w].request /\ x.execution = worker[w].execution,
         x # idle => Fits(x)', x.pc # "reserving",
         UNCHANGED <<policy, attempts, batches, clock>>,
         account' \in Workers \cup {none}, account' = account \/ worker[w].pc = "reserving",
         control' \in [Requests -> Control],
         \A q \in Requests : \/ control'[q] = control[q]
                             \/ control'[q].execution > control[q].execution
                             \/ control'[q].execution = control[q].execution /\ control'[q].state # "queued"
  PROVE  IndInv'
  <1>1. QuotaKept' /\ DispatchBudgetKept' /\ AttemptsInOrder' /\ Extends
    BY AttemptsStay
  <1>2. BatchesSettled' /\ IsABag(batches') /\ BagToSet(batches') \subseteq Evidence
    BY <1>1, BatchesStay
  <1>3. \A a \in DOMAIN attempts : attempts'[a] \in Attempt
    BY DEF IndInv, TypeOK
  <1> QED
    BY <1>1, <1>2, <1>3, WorkerStep

\* The fetch of a worker ends without a further attempt, or its lease is gone.
LEMMA FetchEnds ==
  ASSUME IndInv, NEW w \in Workers, worker[w].pc \in {"waiting", "reserving", "fetched"},
         NEW x \in {idle} \cup Worker, worker' = [worker EXCEPT ![w] = x],
         x # idle => /\ x.pc \in {"fetched", "done"} /\ x.request = worker[w].request
                     /\ x.execution = worker[w].execution
                     /\ x.policy = worker[w].policy /\ x.began = worker[w].began,
         UNCHANGED <<policy, control, attempts, batches, clock>>,
         account' \in Workers \cup {none}, account' = account \/ worker[w].pc = "reserving"
  PROVE  IndInv'
  <1>1. worker[w] # idle
    BY DEF idle
  <1>2. ASSUME x # idle PROVE Fits(x)'
    <2>1. PICK y : y = worker[w]
      OBVIOUS
    <2>2. Fits(y) /\ y.pc \notin {"prepared", "sent"}
      BY <1>1, <2>1 DEF IndInv, WorkersFit
    <2>3. x.began <= clock
      BY <1>2, <2>1, <2>2 DEF Fits
    <2> QED
      BY <1>2, <2>1, <2>2, <2>3, FitsNext
  <1>3. x.pc # "reserving"
    BY DEF idle
  <1>4. control' \in [Requests -> Control] /\ \A q \in Requests : control'[q] = control[q]
    BY DEF IndInv, TypeOK, Control
  <1> QED
    BY <1>1, <1>2, <1>3, <1>4, QuietStep

LEMMA ReserveOK ==
  ASSUME IndInv, NEW w \in Workers, Reserve(w)
  PROVE  IndInv'
  <1>1. /\ worker[w].pc = "waiting" /\ account = none /\ worker[w] # idle
        /\ UNCHANGED <<policy, control, attempts, batches, clock>>
    BY DEF Reserve, idle
  <1>2. worker[w] \in Worker
    BY <1>1, WorkerTypes DEF IndInv
  <1>3. CASE /\ within_budget(w) /\ account' = w
             /\ worker' = [worker EXCEPT ![w].pc = "reserving", ![w].began = 0]
    <2>1. PICK x : x = [worker[w] EXCEPT !.pc = "reserving", !.began = 0]
      OBVIOUS
    <2>2. /\ x \in Worker /\ x # idle /\ x.pc = "reserving" /\ x.began = 0 /\ x.request = worker[w].request
          /\ x.execution = worker[w].execution /\ x.policy = worker[w].policy
      <3>1. 0 \in 0..Horizon
        BY Sizes
      <3>2. x = [pc |-> "reserving", request |-> worker[w].request, execution |-> worker[w].execution,
                 policy |-> worker[w].policy, began |-> 0, deferred |-> worker[w].deferred]
        BY <1>2, <2>1 DEF Worker
      <3> QED
        BY <1>2, <3>1, <3>2 DEF Worker, idle
    <2>3. worker' = [worker EXCEPT ![w] = x] /\ clock \in 0..Horizon
      BY <1>3, <2>1 DEF IndInv, TypeOK
    <2>4. Fits(x)'
      <3>1. PICK y : y = worker[w]
        OBVIOUS
      <3>2. Fits(y) /\ y.pc = "waiting"
        BY <1>1, <3>1 DEF IndInv, WorkersFit
      <3>3. x.began <= clock
        BY <2>2, <2>3, Sizes
      <3> QED
        BY <1>1, <2>2, <3>1, <3>2, <3>3, FitsNext
    <2>5. OnlyOwn(w)
      BY <1>1 DEF OnlyOwn, fetch
    <2>6. worker' \in [Workers -> {idle} \cup Worker] /\ OneWorkerEach' /\ WorkersFit' /\ SameWork
      <3>1. x \in {idle} \cup Worker /\ clock' = clock
        BY <1>1, <2>2
      <3> QED
        BY <1>1, <2>2, <2>3, <2>4, <2>5, <3>1, OwnMoves
    <2>7. TypeOK'
      BY <1>1, <1>3, <2>6 DEF IndInv, TypeOK
    <2>8. CountsHold'
      <3> SUFFICES ASSUME NEW v \in Workers, worker'[v].pc = "reserving" PROVE Room(v)'
        BY DEF CountsHold
      <3>1. v = w
        BY <1>1, <2>3, WorkersAssumption DEF IndInv, TypeOK, CountsHold, Room
      <3>2. Cardinality(of_request(worker[w].request)) < Dispatches
        BY <1>3 DEF within_budget, consumed_by_request, of_request
      <3>3. Cardinality(since(clock - Hour)) < Quota
        <4>1. Cardinality(since(worker[w].began - Hour)) < Quota
          BY <1>3 DEF within_budget, consumed_in_window, since
        <4>2. worker[w].began <= clock /\ worker[w].began \in 0..Horizon
          BY <1>1, WorkerTypes DEF IndInv, WorkersFit, Fits
        <4>3. \A a \in DOMAIN attempts : attempts[a].prepared_at \in 0..Horizon
          BY AttemptTypes DEF IndInv
        <4>4. since(clock - Hour) \subseteq since(worker[w].began - Hour)
          BY <2>3, <4>2, <4>3, Sizes DEF since
        <4>5. IsFiniteSet(since(worker[w].began - Hour))
          BY FS_Subset DEF since, IndInv, AttemptsInOrder
        <4> QED
          BY <4>1, <4>4, <4>5, CountShrinks, Sizes
      <3>4. worker'[w].request = worker[w].request
        BY <2>2, <2>3 DEF IndInv, TypeOK
      <3>5. of_request(worker[w].request)' = of_request(worker[w].request) /\ since(clock - Hour)' = since(clock - Hour)
        BY <1>1, <3>4 DEF of_request, since
      <3> QED
        BY <1>3, <3>1, <3>2, <3>3, <3>5 DEF Room
    <2>9. OnlyBegunFetch'
      <3>1. \A q \in Requests, f \in 1..MaxExecutions : begun(q, f) => begun(q, f)'
        BY <1>1 DEF begun
      <3> QED
        BY <1>1, <2>6, <2>7, <3>1, OnlyBegunStays
    <2> QED
      BY <1>1, <2>6, <2>7, <2>8, <2>9, AttemptsStay, BatchesStay DEF IndInv
  <1>4. CASE account' = account /\ \E x \in {unusable(w), idle} : worker' = [worker EXCEPT ![w] = x]
    <2>1. PICK x : x \in {unusable(w), idle} /\ worker' = [worker EXCEPT ![w] = x]
      BY <1>4
    <2>2. x \in {idle} \cup Worker /\ (x # idle => x = [worker[w] EXCEPT !.pc = "fetched"])
      BY <1>2, <2>1 DEF unusable, Worker
    <2>3. x # idle => /\ x.pc = "fetched" /\ x.request = worker[w].request
                      /\ x.execution = worker[w].execution
                      /\ x.policy = worker[w].policy /\ x.began = worker[w].began
      BY <1>2, <2>2 DEF Worker
    <2>4. account' \in Workers \cup {none}
      BY <1>4 DEF IndInv, TypeOK
    <2> QED
      BY <1>1, <1>4, <2>1, <2>2, <2>3, <2>4, FetchEnds
  <1> QED
    BY <1>3, <1>4 DEF Reserve

\* The outcomes of a step that gives the lock back without an attempt.
LEMMA NoAttempt ==
  ASSUME IndInv, NEW w \in Workers, worker[w].pc \in {"waiting", "reserving"},
         NEW x \in {unusable(w), idle}, worker' = [worker EXCEPT ![w] = x],
         UNCHANGED <<policy, control, attempts, batches, clock>>, account' = none,
         account' = account \/ worker[w].pc = "reserving"
  PROVE  IndInv'
  <1>1. worker[w] \in Worker
    BY WorkerTypes DEF IndInv, idle
  <1>2. x \in {idle} \cup Worker /\ (x # idle => x = [worker[w] EXCEPT !.pc = "fetched"])
    BY <1>1 DEF unusable, Worker
  <1>3. x # idle => /\ x.pc \in {"fetched", "done"} /\ x.request = worker[w].request
                    /\ x.execution = worker[w].execution
                    /\ x.policy = worker[w].policy /\ x.began = worker[w].began
    BY <1>1, <1>2 DEF Worker
  <1>4. account' \in Workers \cup {none} /\ worker[w].pc \in {"waiting", "reserving", "fetched"}
    OBVIOUS
  <1> QED
    BY <1>2, <1>3, <1>4, FetchEnds

LEMMA PrepareOK ==
  ASSUME IndInv, NEW w \in Workers, Prepare(w)
  PROVE  IndInv'
  <1>1. /\ worker[w].pc = "reserving" /\ account' = none /\ worker[w] # idle
        /\ UNCHANGED <<policy, control, batches, clock>>
    BY DEF Prepare, idle
  <1>2. CASE /\ attempts' = with_attempt(attempt_key(w, Cardinality(ids(w)) + 1), prepared_attempt(w))
             /\ worker' = [worker EXCEPT ![w].pc = "prepared"]
    <2>1. worker[w] \in Worker
      BY <1>1, WorkerTypes DEF IndInv
    <2>2. PICK r \in Requests, e \in 1..MaxExecutions : r = worker[w].request /\ e = worker[w].execution
      BY <2>1 DEF Worker
    <2>3. PICK k : k = attempt_key(w, Cardinality(ids(w)) + 1)
      OBVIOUS
    <2>4. k = <<r, e, tries(r, e) + 1>>
      BY <2>2, <2>3, IdsAreFetch DEF attempt_key, tries
    <2>5. PICK row : row = prepared_attempt(w)
      OBVIOUS
    <2>6. row \in Attempt /\ row.prepared_at = clock /\ row.state = "prepared" /\ row.policy = worker[w].policy
      <3>1. clock \in 0..Horizon /\ worker[w].policy \in Policies /\ "prepared" \in Unresolved \cup Outcomes
        BY <2>1 DEF IndInv, TypeOK, Worker, Unresolved
      <3>2. row = [policy |-> worker[w].policy, state |-> "prepared", prepared_at |-> clock]
        BY <2>5 DEF prepared_attempt
      <3> QED
        BY <3>1, <3>2 DEF Attempt
    <2>7. Fits(worker[w])
      BY <1>1 DEF IndInv, WorkersFit
    <2>8. \A a \in fetch(r, e) : attempts[a].state \notin Unresolved \cup {"complete"}
      BY <1>1, <2>2, <2>7 DEF Fits, successful
    <2>9. Cardinality(since(clock - Hour)) < Quota /\ Cardinality(of_request(r)) < Dispatches
      BY <1>1, <2>2 DEF IndInv, CountsHold, Room
    <2>10. attempts' = with_attempt(k, row)
      BY <1>2, <2>3, <2>5
    <2>11. /\ DOMAIN attempts' \subseteq Keys /\ \A a \in DOMAIN attempts' : attempts'[a] \in Attempt
           /\ QuotaKept' /\ DispatchBudgetKept' /\ AttemptsInOrder' /\ Extends
           /\ fetch(r, e)' = fetch(r, e) \cup {k} /\ tries(r, e)' = tries(r, e) + 1
           /\ DOMAIN attempts' = DOMAIN attempts \cup {k} /\ attempts'[k] = row
           /\ \A a \in DOMAIN attempts : attempts'[a] = attempts[a]
           /\ \A q, f : <<q, f>> # <<r, e>> => fetch(q, f)' = fetch(q, f)
      BY <2>4, <2>6, <2>8, <2>9, <2>10, AttemptPrepared
    <2>12. OnlyOwn(w)
      BY <2>2, <2>11 DEF OnlyOwn, fetch
    <2>13. PICK x : x = [worker[w] EXCEPT !.pc = "prepared"]
      OBVIOUS
    <2>14. /\ x \in Worker /\ x # idle /\ x.pc = "prepared" /\ x.request = r /\ x.execution = e
           /\ x.policy = worker[w].policy /\ x.began = worker[w].began
      BY <2>1, <2>2, <2>13 DEF Worker, idle
    <2>15. worker' = [worker EXCEPT ![w] = x]
      BY <1>2, <2>13
    <2>16. Fits(x)'
      <3>1. \A a \in fetch(r, e) : attempts[a].policy = x.policy
        BY <2>2, <2>7, <2>14 DEF Fits
      <3>2. x.began <= clock'
        BY <1>1, <2>7, <2>14 DEF Fits
      <3>3. \A a \in fetch(r, e) : a \in DOMAIN attempts /\ ~successful(a)
        BY <2>8 DEF fetch, successful
      <3>4. \A a \in fetch(r, e)' : attempts'[a].policy = x.policy /\ attempts'[a].state # "complete"
        BY <2>6, <2>11, <2>14, <3>1, <3>3 DEF successful
      <3>5. \A a \in fetch(r, e)' : attempts'[a].state \in Unresolved => a = k
        BY <2>8, <2>11, <3>3
      <3>6. k = <<r, e, tries(r, e)'>> /\ k \in fetch(r, e)' /\ attempts'[k].state = "prepared"
        BY <2>4, <2>6, <2>11
      <3> QED
        BY <2>14, <3>2, <3>4, <3>5, <3>6 DEF Fits, successful
    <2>17. worker' \in [Workers -> {idle} \cup Worker] /\ OneWorkerEach' /\ WorkersFit' /\ SameWork
      <3>1. x \in {idle} \cup Worker /\ clock' = clock
        BY <1>1, <2>14
      <3> QED
        BY <1>1, <2>2, <2>12, <2>14, <2>15, <2>16, <3>1, OwnMoves
    <2>18. TypeOK'
      BY <1>1, <2>11, <2>17 DEF IndInv, TypeOK
    <2>19. CountsHold'
      BY <1>1, <2>14, <2>15, CountsStay
    <2>20. OnlyBegunFetch'
      <3>1. control' = control
        BY <1>1
      <3>2. \A a \in DOMAIN attempts' : begun(a[1], a[2])'
        <4>1. begun(r, e)
          BY <1>1, <2>2 DEF IndInv, OnlyBegunFetch
        <4>2. k[1] = r /\ k[2] = e
          BY <2>4
        <4>3. \A a \in DOMAIN attempts' : begun(a[1], a[2])
          BY <2>11, <4>1, <4>2 DEF IndInv, OnlyBegunFetch
        <4> QED
          BY <3>1, <4>3 DEF begun
      <3>3. \A v \in Workers : worker'[v] # idle => begun(worker'[v].request, worker'[v].execution)
        BY <2>17 DEF IndInv, OnlyBegunFetch, SameWork
      <3> QED
        BY <3>1, <3>2, <3>3 DEF OnlyBegunFetch, begun
    <2>21. BatchesSettled'
      BY <1>1, <2>11, BatchesStay
    <2> QED
      BY <2>11, <2>17, <2>18, <2>19, <2>20, <2>21 DEF IndInv
  <1>3. CASE attempts' = attempts /\ \E x \in {unusable(w), idle} : worker' = [worker EXCEPT ![w] = x]
    BY <1>1, <1>3, NoAttempt
  <1> QED
    BY <1>2, <1>3 DEF Prepare

LEMMA DieOK ==
  ASSUME IndInv, NEW w \in Workers, Die(w)
  PROVE  IndInv'
  <1>1. worker[w].pc = "reserving" /\ account' = none /\ worker' = [worker EXCEPT ![w] = idle]
    BY DEF Die
  <1>2. UNCHANGED <<policy, control, attempts, batches, clock>>
    BY DEF Die
  <1> QED
    BY <1>1, <1>2, NoAttempt

\* An answer, or the dispatch itself, moves the last attempt of the fetch.
LEMMA AnswerOK ==
  ASSUME IndInv, NEW w \in Workers, worker[w].pc \in {"prepared", "sent"},
         NEW state \in {"in_progress"} \cup Outcomes,
         attempts' = finished(w, state),
         NEW x \in Worker, worker' = [worker EXCEPT ![w] = x],
         x.request = worker[w].request, x.execution = worker[w].execution, x.policy = worker[w].policy,
         x.began = worker[w].began \/ x.began = clock,
         \/ x.pc = "sent" /\ state = "in_progress"
         \/ x.pc = "fetched" /\ state \in Outcomes
         \/ x.pc = "waiting" /\ state \in Outcomes /\ state # "complete",
         UNCHANGED <<policy, control, batches, account, clock>>
  PROVE  IndInv'
  <1>1. worker[w] # idle
    BY DEF idle
  <1>2. PICK r \in Requests, e \in 1..MaxExecutions : r = worker[w].request /\ e = worker[w].execution
    BY <1>1, WorkerTypes DEF IndInv
  <1>3. PICK k : k = current_attempt(w)
    OBVIOUS
  <1>4. k = <<r, e, tries(r, e)>> /\ Fits(worker[w])
    BY <1>1, <1>2, <1>3, IdsAreFetch DEF IndInv, WorkersFit
  <1>5. k \in fetch(r, e) /\ attempts[k].state \in Unresolved /\ k \in DOMAIN attempts
    BY <1>2, <1>4 DEF Fits, fetch, Unresolved
  <1>6. attempts' = [attempts EXCEPT ![k].state = state]
    BY <1>3 DEF finished
  <1>7. /\ DOMAIN attempts' = DOMAIN attempts /\ \A a \in DOMAIN attempts' : attempts'[a] \in Attempt
        /\ QuotaKept' /\ DispatchBudgetKept' /\ AttemptsInOrder' /\ Extends
        /\ \A q, f : fetch(q, f)' = fetch(q, f) /\ tries(q, f)' = tries(q, f)
        /\ attempts'[k].state = state
        /\ \A a \in DOMAIN attempts : /\ attempts'[a].policy = attempts[a].policy
                                      /\ attempts'[a].prepared_at = attempts[a].prepared_at
                                      /\ a # k => attempts'[a] = attempts[a]
    BY <1>5, <1>6, AttemptMoves
  <1>8. Fits(x)'
    <2>1. \A a \in fetch(r, e) : a \in DOMAIN attempts
      BY DEF fetch
    <2>2. \A a \in fetch(r, e) : attempts[a].policy = worker[w].policy /\ ~successful(a)
                                 /\ (attempts[a].state \in Unresolved => a = k)
      BY <1>2, <1>4 DEF Fits
    <2>3. \A a \in fetch(r, e) : attempts'[a].policy = x.policy
      BY <1>7, <2>1, <2>2
    <2>4. \A a \in fetch(r, e) : a # k => attempts'[a].state \notin Unresolved \cup {"complete"}
      BY <1>7, <2>1, <2>2 DEF successful
    <2>5. x.began <= clock'
      <3>1. clock' = clock /\ clock \in Nat /\ worker[w].began <= clock
        BY <1>4, Sizes DEF Fits, IndInv, TypeOK
      <3> QED
        BY <3>1
    <2>6. state \in Outcomes => state \notin Unresolved
      BY DEF Outcomes, Unresolved
    <2>7. fetch(x.request, x.execution)' = fetch(r, e) /\ <<x.request, x.execution, tries(x.request, x.execution)'>> = k
      BY <1>2, <1>4, <1>7
    <2>8. x.pc = "sent" => \A a \in fetch(r, e) : attempts'[a].state # "complete"
      BY <1>7, <2>4 DEF Outcomes
    <2>9. x.pc = "waiting" => \A a \in fetch(r, e) : attempts'[a].state # "complete"
      BY <1>7, <2>4
    <2>10. \A a \in fetch(r, e) : attempts'[a].state \in Unresolved => x.pc \in {"prepared", "sent"} /\ a = k
      BY <1>7, <2>4, <2>6
    <2>11. x.pc = "sent" => k \in fetch(r, e) /\ attempts'[k].state = "in_progress"
      BY <1>5, <1>7, <2>6 DEF Unresolved
    <2> QED
      BY <2>3, <2>5, <2>7, <2>8, <2>9, <2>10, <2>11 DEF Fits, successful
  <1>9. BatchesSettled' /\ IsABag(batches') /\ BagToSet(batches') \subseteq Evidence
    BY <1>7, BatchesStay
  <1>10. \A a \in DOMAIN attempts :
            a[1] # worker[w].request \/ a[2] # worker[w].execution => attempts'[a] = attempts[a]
    BY <1>2, <1>4, <1>7
  <1>11. control' \in [Requests -> Control] /\ account' \in Workers \cup {none} /\ x \in {idle} \cup Worker
    BY DEF IndInv, TypeOK, Control
  <1>12. \A a \in DOMAIN attempts : attempts'[a] \in Attempt /\ attempts'[a].prepared_at = attempts[a].prepared_at
    BY <1>7
  <1> QED
    BY <1>1, <1>7, <1>8, <1>9, <1>10, <1>11, <1>12, WorkerStep

\* A lost lease sends the worker home; else the fetch ends without a record.
LEMMA RefusedOK ==
  ASSUME IndInv, NEW w \in Workers, worker[w] # idle, ~holds_lease(w), refused(w),
         UNCHANGED <<policy, control, attempts, batches, account, clock>>
  PROVE  IndInv'
  <1>1. PICK x : x = idle
    OBVIOUS
  <1>2. worker' = [worker EXCEPT ![w] = x] /\ x \in {idle} \cup Worker /\ x.pc # "reserving"
    BY <1>1 DEF refused, idle
  <1>3. control' \in [Requests -> Control] /\ account' \in Workers \cup {none}
    BY DEF IndInv, TypeOK, Control
  <1> QED
    BY <1>1, <1>2, <1>3, QuietStep

LEMMA DispatchOK ==
  ASSUME IndInv, NEW w \in Workers, Dispatch(w)
  PROVE  IndInv'
  <1>1. worker[w].pc = "prepared" /\ worker[w] # idle /\ UNCHANGED <<policy, control, batches, account, clock>>
    BY DEF Dispatch, idle
  <1>2. worker[w] \in Worker
    BY <1>1, WorkerTypes DEF IndInv
  <1>3. CASE /\ attempts' = [attempts EXCEPT ![current_attempt(w)].state = "in_progress"]
             /\ worker' = [worker EXCEPT ![w].pc = "sent"]
    <2>1. PICK x : x = [worker[w] EXCEPT !.pc = "sent"]
      OBVIOUS
    <2>2. /\ x \in Worker /\ x.pc = "sent" /\ x.request = worker[w].request /\ x.execution = worker[w].execution
          /\ x.policy = worker[w].policy /\ x.began = worker[w].began
      BY <1>2, <2>1 DEF Worker
    <2>3. attempts' = finished(w, "in_progress") /\ worker' = [worker EXCEPT ![w] = x]
      BY <1>3, <2>1 DEF finished
    <2> QED
      BY <1>1, <2>2, <2>3, AnswerOK
  <1>4. CASE /\ attempts' = finished(w, "cancelled")
             /\ \E wait \in BOOLEAN : worker' = [worker EXCEPT ![w] = [unusable(w) EXCEPT !.deferred = @ \/ wait]]
    <2>1. PICK wait \in BOOLEAN : worker' = [worker EXCEPT ![w] = [unusable(w) EXCEPT !.deferred = @ \/ wait]]
      BY <1>4
    <2>2. PICK x : x = [unusable(w) EXCEPT !.deferred = @ \/ wait]
      OBVIOUS
    <2>3. PICK later \in BOOLEAN : later = (worker[w].deferred \/ wait)
      BY Zenon
    <2>4. x = [pc |-> "fetched", request |-> worker[w].request, execution |-> worker[w].execution,
               policy |-> worker[w].policy, began |-> worker[w].began, deferred |-> later]
      BY <1>2, <2>2, <2>3 DEF unusable, Worker
    <2>5. /\ x \in Worker /\ x.pc = "fetched" /\ x.request = worker[w].request /\ x.execution = worker[w].execution
          /\ x.policy = worker[w].policy /\ x.began = worker[w].began
      BY <1>2, <2>4 DEF Worker
    <2>6. "cancelled" \in Outcomes /\ worker' = [worker EXCEPT ![w] = x]
      BY <2>1, <2>2 DEF Outcomes
    <2> QED
      BY <1>1, <1>4, <2>5, <2>6, AnswerOK
  <1>5. CASE ~may_finish(w) /\ refused(w) /\ attempts' = attempts
    BY <1>1, <1>5, RefusedOK DEF may_finish
  <1> QED
    BY <1>3, <1>4, <1>5 DEF Dispatch

LEMMA ReceiveOK ==
  ASSUME IndInv, NEW w \in Workers, NEW answer \in Answers, Receive(w, answer)
  PROVE  IndInv'
  <1>1. worker[w].pc = "sent" /\ worker[w] # idle /\ UNCHANGED <<policy, control, batches, account, clock>>
    BY DEF Receive, idle
  <1>2. worker[w] \in Worker /\ clock \in 0..Horizon
    BY <1>1, WorkerTypes DEF IndInv, TypeOK
  <1>3. CASE attempts' = finished(w, outcome_of(answer)) /\ worker' = [worker EXCEPT ![w] = after_answer(w, answer)]
    <2>1. PICK state \in Outcomes : state = outcome_of(answer)
      BY DEF Answers, outcome_of, Outcomes
    <2>2. answer = "retryable" => state # "complete"
      BY <2>1 DEF outcome_of
    <2>3. PICK x : x = after_answer(w, answer)
      OBVIOUS
    <2>4. CASE answer = "retryable" /\ Cardinality(ids(w)) < Dispatches
      <3>1. x = [worker[w] EXCEPT !.pc = "waiting", !.began = clock]
        BY <2>3, <2>4 DEF after_answer
      <3>2. x = [pc |-> "waiting", request |-> worker[w].request, execution |-> worker[w].execution,
                 policy |-> worker[w].policy, began |-> clock, deferred |-> worker[w].deferred]
        BY <1>2, <3>1 DEF Worker
      <3>3. /\ x \in Worker /\ x.pc = "waiting" /\ x.request = worker[w].request
            /\ x.execution = worker[w].execution
            /\ x.policy = worker[w].policy /\ x.began = clock
        BY <1>2, <3>2 DEF Worker
      <3>4. attempts' = finished(w, state) /\ worker' = [worker EXCEPT ![w] = x]
        BY <1>3, <2>1, <2>3
      <3> QED
        BY <1>1, <2>1, <2>2, <2>4, <3>3, <3>4, AnswerOK
    <2>5. CASE ~(answer = "retryable" /\ Cardinality(ids(w)) < Dispatches)
      <3>1. PICK later \in BOOLEAN : later = (answer = "wait")
        BY Zenon
      <3>2. x = [worker[w] EXCEPT !.pc = "fetched", !.deferred = later]
        BY <2>3, <2>5, <3>1 DEF after_answer
      <3>3. x = [pc |-> "fetched", request |-> worker[w].request, execution |-> worker[w].execution,
                 policy |-> worker[w].policy, began |-> worker[w].began, deferred |-> later]
        BY <1>2, <3>2 DEF Worker
      <3>4. /\ x \in Worker /\ x.pc = "fetched" /\ x.request = worker[w].request
            /\ x.execution = worker[w].execution
            /\ x.policy = worker[w].policy /\ x.began = worker[w].began
        BY <1>2, <3>1, <3>3 DEF Worker
      <3>5. attempts' = finished(w, state) /\ worker' = [worker EXCEPT ![w] = x]
        BY <1>3, <2>1, <2>3
      <3> QED
        BY <1>1, <2>1, <3>4, <3>5, AnswerOK
    <2> QED
      BY <2>4, <2>5
  <1>4. CASE ~may_finish(w) /\ refused(w) /\ attempts' = attempts
    BY <1>1, <1>4, RefusedOK DEF may_finish
  <1> QED
    BY <1>3, <1>4 DEF Receive

-----------------------------------------------------------------------------
observes(R) == \E c \in R : successful(c)

LEMMA EvidenceIs ==
  ASSUME NEW R, NEW N, NEW p, NEW C, NEW A, fetch_history(R, N) = [captures |-> C, attempts |-> A]
  PROVE  LET e == evidence(R, N, p)
         IN  /\ e.captures = C /\ e.attempts = A /\ e.policy = p
             /\ e.observed <=> observes(R)
             /\ C \in SUBSET Keys /\ A \in SUBSET Keys /\ p \in Policies => e \in Evidence
  <1>1. PICK h : h = fetch_history(R, N)
    OBVIOUS
  <1>2. evidence(R, N, p) = [captures |-> h.captures, attempts |-> h.attempts,
                             observed |-> \E c \in R : successful(c), policy |-> p]
    BY <1>1 DEF evidence
  <1>3. h.captures = C /\ h.attempts = A
    BY <1>1
  <1>4. CASE \E c \in R : successful(c)
    <2>1. (\E c \in R : successful(c)) = TRUE
      BY <1>4
    <2>2. evidence(R, N, p) = [captures |-> C, attempts |-> A, observed |-> TRUE, policy |-> p]
      BY <1>2, <1>3, <2>1
    <2>3. evidence(R, N, p) \in [captures : {C}, attempts : {A}, observed : BOOLEAN, policy : {p}]
      BY <2>2
    <2> QED
      BY <1>4, <2>2, <2>3 DEF Evidence, observes
  <1>5. CASE ~(\E c \in R : successful(c))
    <2>1. (\E c \in R : successful(c)) = FALSE
      BY <1>5
    <2>2. evidence(R, N, p) = [captures |-> C, attempts |-> A, observed |-> FALSE, policy |-> p]
      BY <1>2, <1>3, <2>1
    <2>3. evidence(R, N, p) \in [captures : {C}, attempts : {A}, observed : BOOLEAN, policy : {p}]
      BY <2>2
    <2> QED
      BY <1>5, <2>2, <2>3 DEF Evidence, observes
  <1> QED
    BY <1>4, <1>5

LEMMA SameEvidence ==
  ASSUME NEW R, NEW N, NEW Q, NEW M, NEW p, fetch_history(R, N) = fetch_history(Q, M), observes(R), observes(Q)
  PROVE  evidence(R, N, p) = evidence(Q, M, p)
  <1>1. PICK h : h = fetch_history(R, N) /\ h = fetch_history(Q, M)
    OBVIOUS
  <1>2. (\E c \in R : successful(c)) = (\E c \in Q : successful(c))
    BY DEF observes
  <1>3. evidence(R, N, p) = [captures |-> h.captures, attempts |-> h.attempts,
                             observed |-> \E c \in R : successful(c), policy |-> p]
    BY <1>1 DEF evidence
  <1>4. evidence(Q, M, p) = [captures |-> h.captures, attempts |-> h.attempts,
                             observed |-> \E c \in Q : successful(c), policy |-> p]
    BY <1>1 DEF evidence
  <1> QED
    BY <1>2, <1>3, <1>4

\* What a worker publishes is its whole fetch, and so what its one success recovers.
LEMMA PublishedIsSettled ==
  ASSUME IndInv, NEW w \in Workers, worker[w] # idle, NEW input,
         input = evidence({a \in ids(w) : captured(a)}, ids(w), worker[w].policy), admissible(input)
  PROVE  input \in Evidence /\ Settled(input)
  <1>1. PICK r \in Requests, e \in 1..MaxExecutions, p \in Policies :
            r = worker[w].request /\ e = worker[w].execution /\ p = worker[w].policy
    BY WorkerTypes DEF IndInv
  <1>2. PICK O : O = fetch(r, e)
    OBVIOUS
  <1>3. PICK C : C = {a \in O : captured(a)}
    OBVIOUS
  <1>4. O \subseteq DOMAIN attempts /\ ids(w) = O /\ \A a \in DOMAIN attempts : a \in O <=> a[1] = r /\ a[2] = e
    BY <1>1, <1>2, IdsAreFetch DEF fetch
  <1>5. fetch_history(C, O) = [captures |-> C, attempts |-> O]
    <2>1. O \cup {a \in DOMAIN attempts : \E c \in C : same_fetch(a, c) /\ a[3] <= c[3]} = O
      BY <1>3, <1>4 DEF same_fetch
    <2>2. C \cup {a \in O : captured(a)} = C
      BY <1>3
    <2> DEFINE found == O \cup {a \in DOMAIN attempts : \E c \in C : same_fetch(a, c) /\ a[3] <= c[3]}
    <2>3. fetch_history(C, O) = [captures |-> C \cup {a \in found : captured(a)}, attempts |-> found]
      BY DEF fetch_history
    <2>4. found = O
      BY <2>1
    <2> HIDE DEF found
    <2> QED
      BY <2>2, <2>3, <2>4
  <1>6. input = evidence(C, O, p)
    BY <1>1, <1>3, <1>4
  <1>7. /\ input.captures = C /\ input.attempts = O /\ input.policy = p
        /\ input.observed <=> observes(C)
        /\ C \in SUBSET Keys /\ O \in SUBSET Keys => input \in Evidence
    BY <1>5, <1>6, EvidenceIs
  <1>8. input \in Evidence
    <2>1. C \in SUBSET Keys /\ O \in SUBSET Keys
      BY <1>3, <1>4 DEF IndInv, TypeOK
    <2> QED
      BY <1>7, <2>1
  <1>9. \A a \in input.attempts \cup input.captures :
          a \in DOMAIN attempts /\ attempts[a].policy = input.policy /\ attempts[a].state \notin Unresolved
    BY <1>3, <1>4, <1>7 DEF admissible
  <1>10. ASSUME input.observed PROVE \E c \in DOMAIN attempts : successful(c) /\ input = evidence({c}, {}, input.policy)
    <2>1. PICK c \in C : successful(c)
      BY <1>7, <1>10 DEF observes
    <2>2. c \in DOMAIN attempts /\ c[1] = r /\ c[2] = e /\ c \in O
      BY <1>3, <1>4
    <2>3. \A a \in O : a[3] <= c[3]
      BY <1>2, <2>1, <2>2, SuccessEnds
    <2>4. {} \cup {a \in DOMAIN attempts : \E x \in {c} : same_fetch(a, x) /\ a[3] <= x[3]} = O
      BY <1>4, <2>2, <2>3 DEF same_fetch
    <2>5. {c} \cup {a \in O : captured(a)} = C
      BY <1>3
    <2> DEFINE found == {} \cup {a \in DOMAIN attempts : \E x \in {c} : same_fetch(a, x) /\ a[3] <= x[3]}
    <2>6. fetch_history({c}, {}) = [captures |-> {c} \cup {a \in found : captured(a)}, attempts |-> found]
      BY DEF fetch_history
    <2>7. found = O
      BY <2>4
    <2> HIDE DEF found
    <2>8. fetch_history({c}, {}) = [captures |-> C, attempts |-> O]
      BY <2>5, <2>6, <2>7
    <2>9. observes({c}) /\ observes(C)
      BY <2>1 DEF observes
    <2>10. input.policy = p /\ input = evidence({c}, {}, p)
      <3>1. fetch_history(C, O) = fetch_history({c}, {})
        BY <1>5, <2>8
      <3> QED
        BY <1>6, <1>7, <2>9, <3>1, SameEvidence
    <2> QED
      BY <2>1, <2>2, <2>10
  <1> QED
    BY <1>8, <1>9, <1>10 DEF Settled

LEMMA ReplayedIsSettled ==
  ASSUME IndInv, NEW p \in Policies, NEW c \in DOMAIN attempts, successful(c),
         NEW input, input = evidence({c}, {}, p), admissible(input)
  PROVE  input \in Evidence /\ Settled(input)
  <1> DEFINE found == {} \cup {a \in DOMAIN attempts : \E x \in {c} : same_fetch(a, x) /\ a[3] <= x[3]}
  <1>1. fetch_history({c}, {}) = [captures |-> {c} \cup {a \in found : captured(a)}, attempts |-> found]
    BY DEF fetch_history
  <1>2. found \subseteq DOMAIN attempts
    OBVIOUS
  <1> HIDE DEF found
  <1>3. PICK C : C = {c} \cup {a \in found : captured(a)}
    OBVIOUS
  <1>4. /\ input.captures = C /\ input.attempts = found /\ input.policy = p
        /\ C \in SUBSET Keys /\ found \in SUBSET Keys => input \in Evidence
    BY <1>1, <1>3, EvidenceIs
  <1>5. C \subseteq DOMAIN attempts /\ found \subseteq DOMAIN attempts
    BY <1>2, <1>3
  <1>6. input \in Evidence
    <2>1. C \in SUBSET Keys /\ found \in SUBSET Keys
      BY <1>5 DEF IndInv, TypeOK
    <2> QED
      BY <1>4, <2>1
  <1>7. \A a \in input.attempts \cup input.captures :
          a \in DOMAIN attempts /\ attempts[a].policy = input.policy /\ attempts[a].state \notin Unresolved
    BY <1>4, <1>5 DEF admissible
  <1>8. input.policy = p
    BY <1>4
  <1> QED
    BY <1>6, <1>7, <1>8 DEF Settled

LEMMA PublishOK ==
  ASSUME IndInv, NEW w \in Workers, Publish(w)
  PROVE  IndInv'
  <1>1. /\ worker[w].pc = "fetched" /\ worker[w] # idle
        /\ UNCHANGED <<policy, control, attempts, account, clock>>
    BY DEF Publish, idle
  <1>2. PICK input : input = evidence({a \in ids(w) : captured(a)}, ids(w), worker[w].policy)
    OBVIOUS
  <1>3. worker[w] \in Worker
    BY <1>1, WorkerTypes DEF IndInv
  <1>4. account' \in Workers \cup {none}
    BY <1>1 DEF IndInv, TypeOK
  <1>5. PICK x : x = [worker[w] EXCEPT !.pc = "done"]
    OBVIOUS
  <1>6. /\ x \in Worker /\ x.pc = "done" /\ x.request = worker[w].request /\ x.execution = worker[w].execution
        /\ x.policy = worker[w].policy /\ x.began = worker[w].began
    BY <1>3, <1>5 DEF Worker
  <1>7. CASE ~blocked(input) /\ batches' = with_batch(input) /\ worker' = [worker EXCEPT ![w].pc = "done"]
    <2>1. input \in Evidence /\ Settled(input)
      BY <1>1, <1>2, <1>7, PublishedIsSettled DEF blocked
    <2>2. QuotaKept' /\ DispatchBudgetKept' /\ AttemptsInOrder' /\ Extends
      BY <1>1, AttemptsStay
    <2>3. Settled(input)'
      <3>1. \A a : successful(a)' <=> successful(a)
        BY <1>1 DEF successful
      <3>2. \A c, q : evidence({c}, {}, q)' = evidence({c}, {}, q)
        BY <1>1 DEF evidence, fetch_history, captured, successful
      <3> QED
        BY <1>1, <2>1, <3>1, <3>2 DEF Settled
    <2>4. BatchesSettled' /\ IsABag(batches') /\ BagToSet(batches') \subseteq Evidence
      BY <1>7, <2>1, <2>2, <2>3, BatchAdded
    <2>5. Fits(x)'
      <3>1. PICK y : y = worker[w]
        OBVIOUS
      <3>2. Fits(y) /\ y.pc \notin {"prepared", "sent"}
        BY <1>1, <3>1 DEF IndInv, WorkersFit
      <3>3. x.began <= clock
        BY <1>6, <3>1, <3>2 DEF Fits
      <3> QED
        BY <1>1, <1>6, <3>1, <3>2, <3>3, FitsNext
    <2>6. worker' = [worker EXCEPT ![w] = x] /\ x \in {idle} \cup Worker /\ x.pc # "reserving"
      BY <1>5, <1>6, <1>7
    <2>7. control' \in [Requests -> Control] /\ \A a \in DOMAIN attempts : attempts'[a] \in Attempt
      BY <1>1 DEF IndInv, TypeOK, Control
    <2> QED
      BY <1>1, <1>4, <1>6, <2>2, <2>4, <2>5, <2>6, <2>7, WorkerStep
  <1>8. CASE batches' = batches /\ worker' = [worker EXCEPT ![w].pc = "done"]
    <2>1. worker' = [worker EXCEPT ![w] = x] /\ x \in {idle} \cup Worker
      BY <1>5, <1>6, <1>8
    <2>2. worker[w].pc \in {"waiting", "reserving", "fetched"} /\ account' = account
      BY <1>1
    <2> QED
      BY <1>1, <1>4, <1>6, <1>8, <2>1, <2>2, FetchEnds
  <1>9. CASE batches' = batches /\ worker' = [worker EXCEPT ![w] = idle]
    <2>1. PICK z : z = idle
      OBVIOUS
    <2>2. worker' = [worker EXCEPT ![w] = z] /\ z \in {idle} \cup Worker
      BY <1>9, <2>1
    <2>3. worker[w].pc \in {"waiting", "reserving", "fetched"} /\ account' = account
      BY <1>1
    <2> QED
      BY <1>1, <1>4, <1>9, <2>1, <2>2, <2>3, FetchEnds
  <1> QED
    BY <1>2, <1>7, <1>8, <1>9 DEF Publish

LEMMA ReplayOK ==
  ASSUME IndInv, NEW p \in Policies, NEW c \in DOMAIN attempts, Replay(p, c)
  PROVE  IndInv'
  <1>1. successful(c) /\ UNCHANGED <<policy, control, attempts, account, clock, worker>>
    BY DEF Replay
  <1>2. PICK input : input = evidence({c}, {}, p) /\ admissible(input) /\ batches' = with_batch(input)
    BY DEF Replay
  <1>3. input \in Evidence /\ Settled(input)
    BY <1>1, <1>2, ReplayedIsSettled
  <1>4. Settled(input)'
    <2>1. \A a : successful(a)' <=> successful(a)
      BY <1>1 DEF successful
    <2>2. \A d, q : evidence({d}, {}, q)' = evidence({d}, {}, q)
      BY <1>1 DEF evidence, fetch_history, captured, successful
    <2> QED
      BY <1>1, <1>3, <2>1, <2>2 DEF Settled
  <1>5. QuotaKept' /\ DispatchBudgetKept' /\ AttemptsInOrder' /\ Extends
    BY <1>1, AttemptsStay
  <1>6. BatchesSettled' /\ IsABag(batches') /\ BagToSet(batches') \subseteq Evidence
    BY <1>2, <1>3, <1>4, <1>5, BatchAdded
  <1>7. TypeOK'
    BY <1>1, <1>6 DEF IndInv, TypeOK
  <1>8. OnlyBegunFetch' /\ OneWorkerEach'
    BY <1>1 DEF IndInv, OnlyBegunFetch, OneWorkerEach, begun
  <1>9. WorkersFit'
    BY <1>1 DEF IndInv, WorkersFit, Fits, fetch, tries, successful
  <1>10. CountsHold'
    BY <1>1 DEF IndInv, CountsHold, Room, since, of_request
  <1> QED
    BY <1>5, <1>6, <1>7, <1>8, <1>9, <1>10 DEF IndInv

LEMMA RetriedTypes ==
  ASSUME NEW c \in Control
  PROVE  /\ retried(c) \in Control
         /\ \/ retried(c).execution > c.execution
            \/ retried(c).execution = c.execution /\ retried(c).state # "queued"
  <1>1. c.execution \in 1..MaxExecutions /\ MaxExecutions \in Nat
    BY Sizes DEF Control
  <1>2. CASE c.execution < MaxExecutions
    <2>1. retried(c) = [execution |-> c.execution + 1, state |-> "queued"]
      BY <1>2 DEF retried
    <2>2. c.execution + 1 \in 1..MaxExecutions /\ c.execution + 1 > c.execution
      BY <1>1, <1>2
    <2> QED
      BY <2>1, <2>2 DEF Control
  <1>3. CASE ~(c.execution < MaxExecutions)
    <2>1. retried(c) = [c EXCEPT !.state = "failed"]
      BY <1>3 DEF retried
    <2> QED
      BY <2>1 DEF Control
  <1> QED
    BY <1>2, <1>3

LEMMA EndExecutionOK ==
  ASSUME IndInv, NEW w \in Workers, EndExecution(w)
  PROVE  IndInv'
  <1>1. worker[w].pc = "done" /\ worker[w] # idle /\ UNCHANGED <<policy, attempts, batches, account, clock>>
    BY DEF EndExecution, idle
  <1>2. PICK r \in Requests : r = worker[w].request
    BY <1>1, WorkerTypes DEF IndInv
  <1>3. control \in [Requests -> Control]
    BY DEF IndInv, TypeOK, Control
  <1>4. \/ control' = control
        \/ \E c \in Control : /\ control' = [control EXCEPT ![r] = c]
                              /\ \/ c.execution > control[r].execution
                                 \/ c.execution = control[r].execution /\ c.state # "queued"
    <2>1. PICK old \in Control : old = control[r]
      BY <1>3
    <2>2. PICK c : c = IF worker[w].deferred THEN retried(old) ELSE [old EXCEPT !.state = "ended"]
      OBVIOUS
    <2>3. control' = control \/ control' = [control EXCEPT ![r] = c]
      BY <1>2, <2>1, <2>2 DEF EndExecution
    <2>4. c \in Control /\ \/ c.execution > old.execution
                           \/ c.execution = old.execution /\ c.state # "queued"
      <3>1. CASE worker[w].deferred
        BY <2>2, <3>1, RetriedTypes
      <3>2. CASE ~worker[w].deferred
        BY <2>2, <3>2 DEF Control
      <3> QED
        BY <3>1, <3>2
    <2> QED
      BY <2>1, <2>3, <2>4
  <1>5. /\ control' \in [Requests -> Control]
        /\ \A q \in Requests : \/ control'[q] = control[q]
                               \/ control'[q].execution > control[q].execution
                               \/ control'[q].execution = control[q].execution /\ control'[q].state # "queued"
    BY <1>3, <1>4
  <1>6. PICK x : x = idle
    OBVIOUS
  <1>7. worker' = [worker EXCEPT ![w] = x] /\ x \in {idle} \cup Worker /\ x.pc # "reserving"
    BY <1>6 DEF EndExecution, idle
  <1>8. account' \in Workers \cup {none}
    BY <1>1 DEF IndInv, TypeOK
  <1> QED
    BY <1>1, <1>5, <1>6, <1>7, <1>8, QuietStep

LEMMA ExpireLeaseOK ==
  ASSUME IndInv, NEW r \in Requests, ExpireLease(r)
  PROVE  IndInv'
  <1>1. control' = [control EXCEPT ![r] = retried(@)] /\ UNCHANGED <<policy, attempts, batches, account, clock, worker>>
    BY DEF ExpireLease
  <1>2. control \in [Requests -> Control]
    BY DEF IndInv, TypeOK, Control
  <1>3. PICK old \in Control : old = control[r]
    BY <1>2
  <1>4. control' = [control EXCEPT ![r] = retried(old)]
    BY <1>1, <1>3
  <1>5. /\ control' \in [Requests -> Control]
        /\ \A q \in Requests : \/ control'[q] = control[q]
                               \/ control'[q].execution > control[q].execution
                               \/ control'[q].execution = control[q].execution /\ control'[q].state # "queued"
    BY <1>2, <1>3, <1>4, RetriedTypes
  <1>6. TypeOK'
    BY <1>1, <1>5 DEF IndInv, TypeOK, Control
  <1>7. QuotaKept' /\ DispatchBudgetKept' /\ AttemptsInOrder' /\ BatchesSettled'
    BY <1>1, AttemptsStay, BatchesStay
  <1>8. OnlyBegunFetch'
    <2>1. \A q \in Requests, f \in 1..MaxExecutions : begun(q, f) => begun(q, f)'
      BY <1>5, <1>6, BegunStays DEF IndInv
    <2>2. SameWork /\ DOMAIN attempts' = DOMAIN attempts
      BY <1>1 DEF SameWork
    <2> QED
      BY <1>6, <2>1, <2>2, OnlyBegunStays
  <1>9. OneWorkerEach'
    BY <1>1 DEF IndInv, OneWorkerEach
  <1>10. WorkersFit'
    BY <1>1 DEF IndInv, WorkersFit, Fits, fetch, tries, successful
  <1>11. CountsHold'
    BY <1>1 DEF IndInv, CountsHold, Room, since, of_request
  <1> QED
    BY <1>6, <1>7, <1>8, <1>9, <1>10, <1>11 DEF IndInv

LEMMA NextOK == IndInv /\ [Next]_vars => IndInv'
  <1> SUFFICES ASSUME IndInv, [Next]_vars PROVE IndInv'
    OBVIOUS
  <1>1. CASE UNCHANGED vars
    <2>1. UNCHANGED <<control, attempts, batches, account, clock, worker>> /\ policy' \in [Policies -> PolicyState]
      BY <1>1 DEF vars, IndInv, TypeOK
    <2> QED
      BY <2>1, PolicyMoves
  <1>2. ASSUME NEW p \in Policies, ActivatePolicy(p) \/ DisablePolicy(p) PROVE IndInv'
    BY <1>2, ActivatePolicyOK, DisablePolicyOK
  <1>3. CASE Tick
    BY <1>3, TickOK
  <1>4. ASSUME NEW w \in Workers, NEW r \in Requests, NEW p \in Policies, Claim(w, r, p) PROVE IndInv'
    BY <1>4, ClaimOK
  <1>5. ASSUME NEW w \in Workers, Reserve(w) \/ Prepare(w) \/ Dispatch(w) PROVE IndInv'
    BY <1>5, ReserveOK, PrepareOK, DispatchOK
  <1>6. ASSUME NEW w \in Workers, NEW answer \in Answers, Receive(w, answer) PROVE IndInv'
    BY <1>6, ReceiveOK
  <1>7. ASSUME NEW w \in Workers, Publish(w) \/ EndExecution(w) \/ Die(w) PROVE IndInv'
    BY <1>7, PublishOK, EndExecutionOK, DieOK
  <1>8. ASSUME NEW p \in Policies, NEW a \in DOMAIN attempts, Replay(p, a) PROVE IndInv'
    BY <1>8, ReplayOK
  <1>9. ASSUME NEW r \in Requests, ExpireLease(r) PROVE IndInv'
    BY <1>9, ExpireLeaseOK
  <1> QED
    BY <1>1, <1>2, <1>3, <1>4, <1>5, <1>6, <1>7, <1>8, <1>9 DEF Next

\* The inductive invariant holds in every reachable state.
THEOREM Invariance == Spec => []IndInv
  <1>1. Init => IndInv
    BY InitOK
  <1>2. IndInv /\ [Next]_vars => IndInv'
    BY NextOK
  <1> QED
    BY <1>1, <1>2, PTL DEF Spec

\* Whatever is retried, replayed or crashes, the account's rolling quota and the
\* dispatch budget of a request are kept (_reserve of provider_store.py), for
\* any number of workers.
THEOREM BudgetsRight == Spec => []BudgetsKept
  <1>1. IndInv => BudgetsKept
    BY DEF IndInv, BudgetsKept
  <1> QED
    BY <1>1, Invariance, PTL

-----------------------------------------------------------------------------
(* What was fetched.                                                       *)

\* The one successful capture of a batch with values.
LEMMA OneSuccess ==
  ASSUME IndInv, NEW b \in DOMAIN batches, b.observed
  PROVE  \E d \in DOMAIN attempts : /\ b = evidence({d}, {}, b.policy) /\ d \in b.captures /\ successful(d)
                                    /\ \A c \in b.captures : successful(c) => c = d
  <1>1. PICK d \in DOMAIN attempts : successful(d) /\ b = evidence({d}, {}, b.policy)
    BY DEF IndInv, BatchesSettled, Settled
  <1>2. b.captures = {d} \cup {a \in {} \cup {a \in DOMAIN attempts : \E x \in {d} : same_fetch(a, x) /\ a[3] <= x[3]} : captured(a)}
    <2> DEFINE found == {} \cup {a \in DOMAIN attempts : \E x \in {d} : same_fetch(a, x) /\ a[3] <= x[3]}
    <2>1. fetch_history({d}, {}) = [captures |-> {d} \cup {a \in found : captured(a)}, attempts |-> found]
      BY DEF fetch_history
    <2> HIDE DEF found
    <2>2. PICK C : C = {d} \cup {a \in found : captured(a)}
      OBVIOUS
    <2>3. PICK p : p = b.policy
      OBVIOUS
    <2>4. evidence({d}, {}, p).captures = C
      BY <2>1, <2>2, EvidenceIs
    <2>5. b.captures = C
      BY <1>1, <2>3, <2>4
    <2> QED
      BY <2>2, <2>5 DEF found
  <1>3. ASSUME NEW c \in b.captures, successful(c) PROVE c = d
    <2>1. c = d \/ c \in fetch(d[1], d[2])
      BY <1>2, <1>3 DEF fetch, same_fetch
    <2> QED
      BY <1>1, <1>3, <2>1, SuccessEnds
  <1> QED
    BY <1>1, <1>2, <1>3

\* A fetch that started is never left unrecorded by a change of policy, and what
\* was published is resolved, published once and found again by a replay of its
\* capture (_fetch_history and _snapshot of market_publication.py).
THEOREM FetchesRight == Spec => []FetchesAccounted
  <1>1. IndInv => StartedIsResolved
    <2> SUFFICES ASSUME IndInv, NEW a \in DOMAIN attempts, attempts[a].state \in Unresolved,
                        NEW w \in Workers, worker[w] # idle, a \in ids(w)
                 PROVE  worker[w].pc \in {"prepared", "sent"} /\ a = current_attempt(w)
      BY DEF StartedIsResolved
    <2>1. Fits(worker[w]) /\ a \in fetch(worker[w].request, worker[w].execution)
      BY IdsAreFetch DEF IndInv, WorkersFit
    <2> QED
      BY <2>1, IdsAreFetch DEF Fits
  <1>2. IndInv => ReplayFindsBatch
    <2> SUFFICES ASSUME IndInv, NEW b \in DOMAIN batches, b.observed, NEW c \in b.captures, successful(c)
                 PROVE  evidence({c}, {}, b.policy) = b
      BY DEF ReplayFindsBatch, BagToSet
    <2> QED
      BY OneSuccess
  <1>3. IndInv => BatchesDistinctAndResolved
    <2> SUFFICES ASSUME IndInv, NEW b \in DOMAIN batches
                 PROVE  /\ batches[b] = 1
                        /\ \A a \in b.attempts : attempts[a].state \in Outcomes /\ attempts[a].policy = b.policy
                        /\ b.observed => Cardinality({a \in b.captures : successful(a)}) = 1
      BY DEF BatchesDistinctAndResolved, BagToSet
    <2>1. batches[b] = 1 /\ Settled(b)
      BY DEF IndInv, BatchesSettled
    <2>2. ASSUME NEW a \in b.attempts PROVE attempts[a].state \in Outcomes /\ attempts[a].policy = b.policy
      <3>1. a \in DOMAIN attempts /\ attempts[a].policy = b.policy /\ attempts[a].state \notin Unresolved
        BY <2>1, <2>2 DEF Settled
      <3>2. attempts[a].state \in Unresolved \cup Outcomes
        BY <3>1, AttemptTypes DEF IndInv
      <3> QED
        BY <3>1, <3>2
    <2>3. ASSUME b.observed PROVE Cardinality({a \in b.captures : successful(a)}) = 1
      <3>1. PICK d : d \in b.captures /\ successful(d) /\ \A c \in b.captures : successful(c) => c = d
        BY <2>3, OneSuccess
      <3>2. {a \in b.captures : successful(a)} = {d}
        BY <3>1
      <3> QED
        BY <3>2, FS_Singleton
    <2> QED
      BY <2>1, <2>2, <2>3
  <1>4. IndInv => FetchesAccounted
    BY <1>1, <1>2, <1>3 DEF FetchesAccounted
  <1> QED
    BY <1>4, Invariance, PTL

-----------------------------------------------------------------------------
(* What is sent.                                                           *)

Sent == \A a \in DOMAIN attempts :
            (attempts[a].state = "prepared" /\ attempts'[a].state = "in_progress")
                => policy[attempts[a].policy] = "active" /\ clock <= ReviewEnds
StaysDisabled == \A p \in Policies : policy[p] = "disabled" => policy'[p] = "disabled"

LEMMA DispatchSends ==
  ASSUME IndInv, NEW w \in Workers, Dispatch(w)
  PROVE  Sent
  <1>1. worker[w].pc = "prepared" /\ worker[w] # idle
    BY DEF Dispatch, idle
  <1>2. PICK k : k = current_attempt(w)
    OBVIOUS
  <1>3. k \in fetch(worker[w].request, worker[w].execution) /\ attempts[k].policy = worker[w].policy
    BY <1>1, <1>2, IdsAreFetch DEF IndInv, WorkersFit, Fits
  <1>4. CASE grants_dispatch(worker[w].policy) /\ attempts' = [attempts EXCEPT ![current_attempt(w)].state = "in_progress"]
    <2>1. \A a \in DOMAIN attempts : a # k => attempts'[a] = attempts[a]
      BY <1>2, <1>4
    <2>2. policy[attempts[k].policy] = "active" /\ clock <= ReviewEnds
      BY <1>3, <1>4 DEF grants_dispatch, reviewed
    <2> QED
      BY <2>1, <2>2 DEF Sent
  <1>5. CASE attempts' = finished(w, "cancelled")
    <2>1. PICK row : row = [attempts[k] EXCEPT !.state = "cancelled"]
      OBVIOUS
    <2>2. attempts' = [attempts EXCEPT ![k] = row] /\ k \in DOMAIN attempts
      BY <1>2, <1>3, <1>5, <2>1 DEF finished, fetch
    <2>3. row.state # "in_progress"
      <3>1. attempts[k] \in Attempt
        BY <2>2 DEF IndInv, TypeOK
      <3> QED
        BY <2>1, <3>1 DEF Attempt
    <2> QED
      BY <2>2, <2>3 DEF Sent
  <1>6. CASE attempts' = attempts
    BY <1>6 DEF Sent
  <1> QED
    BY <1>4, <1>5, <1>6 DEF Dispatch

LEMMA AnswersSendNothing ==
  ASSUME IndInv, NEW w \in Workers, NEW answer \in Answers, Receive(w, answer)
  PROVE  Sent
  <1>1. worker[w].pc = "sent" /\ worker[w] # idle
    BY DEF Receive, idle
  <1>2. PICK k : k = current_attempt(w)
    OBVIOUS
  <1>3. attempts[k].state = "in_progress"
    BY <1>1, <1>2, IdsAreFetch DEF IndInv, WorkersFit, Fits
  <1>4. \A a \in DOMAIN attempts : a # k => attempts'[a] = attempts[a]
    BY <1>2 DEF Receive, finished
  <1> QED
    BY <1>3, <1>4 DEF Sent

LEMMA PreparingSendsNothing ==
  ASSUME IndInv, NEW w \in Workers, Prepare(w)
  PROVE  Sent
  <1>1. worker[w].pc = "reserving" /\ worker[w] # idle
    BY DEF Prepare, idle
  <1>2. PICK r \in Requests, e \in 1..MaxExecutions : r = worker[w].request /\ e = worker[w].execution
    BY <1>1, WorkerTypes DEF IndInv
  <1>3. PICK k : k = attempt_key(w, Cardinality(ids(w)) + 1)
    OBVIOUS
  <1>4. k = <<r, e, tries(r, e) + 1>>
    BY <1>2, <1>3, IdsAreFetch DEF attempt_key, tries
  <1>5. k \notin DOMAIN attempts
    BY <1>4, FetchFacts
  <1>6. \A a \in DOMAIN attempts : attempts'[a] = attempts[a]
    BY <1>3, <1>5 DEF Prepare, with_attempt
  <1> QED
    BY <1>6 DEF Sent

\* Nothing is sent under a policy that is not in force, however long before the
\* attempt was reserved; a disabled revision stays disabled
\* (market_attempt_policy_guard of migration 0004).
THEOREM SentRight == Spec => SentUnderActivePolicy
  <1>1. IndInv /\ [Next]_vars => [Sent /\ StaysDisabled]_vars
    <2> SUFFICES ASSUME IndInv, Next PROVE Sent /\ StaysDisabled
      OBVIOUS
    <2>1. attempts' = attempts => Sent
      BY DEF Sent
    <2>2. policy' = policy => StaysDisabled
      BY DEF StaysDisabled
    <2>3. ASSUME NEW p \in Policies, ActivatePolicy(p) \/ DisablePolicy(p) PROVE Sent /\ StaysDisabled
      BY <2>1, <2>3 DEF ActivatePolicy, DisablePolicy, StaysDisabled, IndInv, TypeOK
    <2>4. CASE Tick
      BY <2>1, <2>2, <2>4 DEF Tick
    <2>5. ASSUME NEW w \in Workers, NEW r \in Requests, NEW p \in Policies, Claim(w, r, p) PROVE Sent /\ StaysDisabled
      BY <2>1, <2>2, <2>5 DEF Claim
    <2>6. ASSUME NEW w \in Workers, Reserve(w) PROVE Sent /\ StaysDisabled
      BY <2>1, <2>2, <2>6 DEF Reserve
    <2>7. ASSUME NEW w \in Workers, Prepare(w) \/ Dispatch(w) PROVE Sent /\ StaysDisabled
      BY <2>2, <2>7, PreparingSendsNothing, DispatchSends DEF Prepare, Dispatch
    <2>8. ASSUME NEW w \in Workers, NEW answer \in Answers, Receive(w, answer) PROVE Sent /\ StaysDisabled
      BY <2>2, <2>8, AnswersSendNothing DEF Receive
    <2>9. ASSUME NEW w \in Workers, Publish(w) \/ EndExecution(w) \/ Die(w) PROVE Sent /\ StaysDisabled
      BY <2>1, <2>2, <2>9 DEF Publish, EndExecution, Die
    <2>10. ASSUME NEW p \in Policies, NEW a \in DOMAIN attempts, Replay(p, a) PROVE Sent /\ StaysDisabled
      BY <2>1, <2>2, <2>10 DEF Replay
    <2>11. ASSUME NEW r \in Requests, ExpireLease(r) PROVE Sent /\ StaysDisabled
      BY <2>1, <2>2, <2>11 DEF ExpireLease
    <2> QED
      BY <2>3, <2>4, <2>5, <2>6, <2>7, <2>8, <2>9, <2>10, <2>11 DEF Next
  <1>2. [Sent /\ StaysDisabled]_vars
        => [/\ \A a \in DOMAIN attempts :
                  (attempts[a].state = "prepared" /\ attempts'[a].state = "in_progress")
                      => policy[attempts[a].policy] = "active" /\ clock <= ReviewEnds
            /\ \A p \in Policies : policy[p] = "disabled" => policy'[p] = "disabled"]_vars
    BY DEF Sent, StaysDisabled
  <1> QED
    BY <1>1, <1>2, Invariance, PTL DEF Spec, SentUnderActivePolicy
=============================================================================
