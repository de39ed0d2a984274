---------------------------- MODULE IngestionProofs ----------------------------
(***************************************************************************)
(* Proofs about what the workers that ingest keep between them: the budget *)
(* of dispatches they share (RequestLimiter), for any workers, calls and   *)
(* ticks; and the course of the pipelines they run (SourcePipeline), for   *)
(* any requests, issuers, executions and shared rows.                      *)
(*                                                                         *)
(* Within the life of one hash the last start and a pending grant keep the *)
(* interval; from one hash to the next the quiet period does, as long as   *)
(* nothing re-creates a lost hash with a shorter one.  The bound on the    *)
(* starts of a second follows from their distance alone.                   *)
(*                                                                         *)
(* Until its publication commits, an execution has no batch, and a source  *)
(* stage of its own that did not end well is remembered as a gap; after    *)
(* that, it opens no source stage any more.  A transaction holds a prefix  *)
(* of the shared rows, so whom it waits for is further along.              *)
(***************************************************************************)
EXTENDS RequestLimiter, SourcePipeline, FiniteSetTheorems, FunctionTheorems, NaturalsInduction,
        WellFoundedInduction, TLAPS

-----------------------------------------------------------------------------
(* The limiter. *)
\* Either every cooldown lasts a second, or Redis never loses the hash.
QuietKept == (\A delay \in Delays : delay >= Second) \/ (\A keys \in Losses : "rate" \notin keys)

\* Every call was made under a token its worker had reached, and a cooldown
\* asks for one of the delays.
CallsInOrder ==
    /\ \A w \in Workers :
          /\ worker[w].call \in 0..MaxCalls[w]
          /\ worker[w].waits # "idle" => worker[w].call >= 1
    /\ \A c \in calls : c.script = "cooldown" => c.delay \in Delays

\* Nothing recorded lies in the future.
InThePast == lost <= now /\ \A s \in started : s.at <= now

\* A hash keeps the distance to its last start, and the promised cooldown.
HashHolds ==
    /\ hash = NoHash => cooled = 0
    /\ hash # NoHash =>
          /\ \E w \in Workers : hash.interval = Interval[w]
          /\ cooled <= hash.blocked
          /\ hash.pending # NoToken =>
                hash.last + hash.interval + Grace <= hash.expires /\ hash.expires <= now + Grace

\* A hash that can not be lost was there before any dispatch.
DispatchedUnderHash ==
    (\A keys \in Losses : "rate" \notin keys) /\ hash = NoHash =>
       /\ \A w \in Workers : worker[w].waits # "dispatched"
       /\ \A c \in calls : c.script # "cooldown"

\* The starts this hash did not see are a second before the end of its block.
HashQuiet ==
    QuietKept /\ hash # NoHash =>
       /\ lost + Second <= hash.blocked
       /\ \A s \in started :
             \/ s.at <= hash.last /\ s.interval = hash.interval
             \/ s.at + Second <= hash.blocked

\* Starts keep their distance, and starts within a second their interval.
Spaced ==
    QuietKept =>
       \A s, t \in started :
          /\ \E w \in Workers : s.interval = Interval[w]
          /\ s # t /\ s.at <= t.at => t.at - s.at >= t.interval
          /\ s.at <= t.at /\ t.at < s.at + Second => s.interval = t.interval

\* The inductive invariant.
LimiterInv ==
    /\ LimiterTypeOK /\ CallsInOrder /\ InThePast /\ HashHolds
    /\ DispatchedUnderHash /\ HashQuiet /\ Spaced

-----------------------------------------------------------------------------
\* Arithmetic on the intervals of a second.
LEMMA Quotient ==
  ASSUME NEW x \in Nat, NEW i \in Nat \ {0}
  PROVE  x \div i \in Nat /\ (x \div i) * i <= x /\ x < (x \div i) * i + i
  OBVIOUS

LEMMA ProductMonotone ==
  ASSUME NEW a \in Nat, NEW b \in Nat, NEW c \in Nat, a <= b
  PROVE  a * c <= b * c
  OBVIOUS

\* Starts at least an interval apart fall into different intervals, and a
\* second has no more than MaxStarts of those.
LEMMA SpacedAreFew ==
  ASSUME NEW W, NEW i \in Nat \ {0}, NEW low \in Int, MaxStarts * i >= Second,
         \A s \in W : s.at \in Int /\ low < s.at /\ s.at <= low + Second,
         \A s, t \in W : s # t /\ s.at <= t.at => t.at - s.at >= i
  PROVE  IsFiniteSet(W) /\ Cardinality(W) <= MaxStarts
  <1> USE LimiterAssumption
  <1> DEFINE part(s) == (s.at - low - 1) \div i
             f == [s \in W |-> part(s)]
  <1>1. ASSUME NEW s \in W
        PROVE  part(s) \in Nat /\ part(s) * i <= s.at - low - 1 /\ s.at - low - 1 < part(s) * i + i
    <2>1. s.at - low - 1 \in Nat
      OBVIOUS
    <2> QED
      BY <2>1, Quotient
  <1> HIDE DEF part
  <1>2. ASSUME NEW s \in W PROVE part(s) \in 0..(MaxStarts - 1)
    <2>1. SUFFICES ASSUME MaxStarts <= part(s) PROVE FALSE
      BY <1>1
    <2>2. MaxStarts * i <= part(s) * i
      BY <1>1, <2>1, ProductMonotone
    <2>3. part(s) * i <= Second - 1 /\ part(s) * i \in Int /\ MaxStarts * i \in Int
      BY <1>1
    <2> QED
      BY <2>2, <2>3
  <1>3. ASSUME NEW s \in W, NEW t \in W, s.at <= t.at, part(s) = part(t) PROVE s = t
    <2>1. part(s) * i \in Int
      BY <1>1
    <2> QED
      BY <1>1, <1>3, <2>1
  <1>4. f \in Injection(W, 0..(MaxStarts - 1))
    <2>1. ASSUME NEW s \in W, NEW t \in W, part(s) = part(t) PROVE s = t
      BY <1>3, <2>1
    <2> QED
      BY <1>2, <2>1 DEF Injection, IsInjective
  <1>5. IsFiniteSet(0..(MaxStarts - 1)) /\ Cardinality(0..(MaxStarts - 1)) <= MaxStarts
    <2>1. 0 \in Int /\ MaxStarts \in Nat /\ MaxStarts - 1 \in Int
      OBVIOUS
    <2>2. /\ IsFiniteSet(0..(MaxStarts - 1))
          /\ Cardinality(0..(MaxStarts - 1)) = IF 0 > MaxStarts - 1 THEN 0 ELSE MaxStarts - 1 - 0 + 1
      BY <2>1, FS_Interval
    <2> QED
      BY <2>1, <2>2
  <1>6. IsFiniteSet(W) /\ Cardinality(W) <= Cardinality(0..(MaxStarts - 1))
    BY <1>4, <1>5, FS_Injection
  <1> QED
    BY <1>5, <1>6, FS_CardinalityType

-----------------------------------------------------------------------------
\* A token is made of its worker and the number of the call.
LEMMA TokenFacts ==
  /\ \A t \in Tokens : t[1] \in Workers /\ t[2] \in 1..MaxCalls[t[1]] /\ t # NoToken
  /\ \A w \in Workers : \A n \in 1..MaxCalls[w] : <<w, n>> \in Tokens
  BY DEF Tokens, NoToken

LEMMA CallFacts ==
  ASSUME NEW c \in Call
  PROVE  c.token \in Tokens /\ c.script \in {"reserve", "confirm", "cooldown"} /\ c.delay \in Nat
  <1>1. c.token \in Tokens /\ c.script \in {"reserve", "confirm", "cooldown"} /\ c.delay \in Delays \cup {0}
    BY DEF Call
  <1>2. \A d \in Delays \cup {0} : d \in Nat
    BY LimiterAssumption
  <1> QED
    BY <1>1, <1>2

LEMMA HashFacts ==
  /\ NoHash \notin Hash
  /\ \A h \in Hash : h.interval \in 1..Second /\ h.blocked \in Nat /\ h.last \in Nat /\ h.expires \in Nat
  BY DEF Hash, NoHash

-----------------------------------------------------------------------------
LEMMA LimiterInitOK == LimiterInit => LimiterInv
  <1> SUFFICES ASSUME LimiterInit PROVE LimiterInv
    OBVIOUS
  <1> USE LimiterAssumption, HashFacts DEF LimiterInit
  <1>1. LimiterTypeOK
    BY DEF LimiterTypeOK, Hash, Start, Call
  <1>2. CallsInOrder /\ InThePast
    BY DEF CallsInOrder, InThePast
  <1>3. HashHolds /\ DispatchedUnderHash /\ HashQuiet /\ Spaced
    BY DEF HashHolds, DispatchedUnderHash, HashQuiet, Spaced
  <1> QED
    BY <1>1, <1>2, <1>3 DEF LimiterInv

\* What the workers do among themselves leaves the shared state alone.
LEMMA WorkerOK ==
  ASSUME LimiterInv, UNCHANGED <<now, hash, starts, started, cooled, lost>>,
         calls' \subseteq Call, CallsInOrder',
         worker' \in [Workers -> [waits : {"idle", "reserve", "granted", "confirm", "dispatched",
                                           "cooldown"}, call : Nat]],
         \A w \in Workers : worker'[w].waits = "dispatched" => worker[w].waits = "dispatched",
         \A c \in calls' : c.script = "cooldown" =>
             c \in calls \/ \E w \in Workers : worker[w].waits = "dispatched"
  PROVE  LimiterInv'
  <1>1. LimiterTypeOK' /\ InThePast'
    BY DEF LimiterInv, LimiterTypeOK, InThePast
  <1>2. HashHolds' /\ HashQuiet' /\ Spaced'
    BY DEF LimiterInv, HashHolds, HashQuiet, Spaced
  <1>3. DispatchedUnderHash'
    BY DEF LimiterInv, DispatchedUnderHash
  <1> QED
    BY <1>1, <1>2, <1>3 DEF LimiterInv

LEMMA AcquireOK == ASSUME LimiterInv, NEW w \in Workers, acquire(w) PROVE LimiterInv'
  <1> USE LimiterAssumption
  <1>a. /\ worker[w].waits = "idle" /\ worker[w].call < MaxCalls[w]
        /\ worker' = [worker EXCEPT ![w] = [waits |-> "reserve", call |-> worker[w].call + 1]]
        /\ calls' = calls \cup {[script |-> "reserve", token |-> <<w, worker[w].call + 1>>, delay |-> 0]}
        /\ UNCHANGED <<now, hash, starts, started, cooled, lost>>
    BY DEF acquire
  <1>b. worker[w].call \in Nat /\ worker[w].call + 1 \in 1..MaxCalls[w]
    BY <1>a DEF LimiterInv, LimiterTypeOK, CallsInOrder
  <1>3. calls' \subseteq Call
    BY <1>a, <1>b, TokenFacts DEF LimiterInv, LimiterTypeOK, Call
  <1>4. worker' \in [Workers -> [waits : {"idle", "reserve", "granted", "confirm", "dispatched",
                                           "cooldown"}, call : Nat]]
    BY <1>a, <1>b DEF LimiterInv, LimiterTypeOK
  <1>5. CallsInOrder'
    BY <1>a, <1>b DEF LimiterInv, LimiterTypeOK, CallsInOrder
  <1>6. \A v \in Workers : worker'[v].waits = "dispatched" => worker[v].waits = "dispatched"
    BY <1>a DEF LimiterInv, LimiterTypeOK
  <1>7. \A c \in calls' : c.script = "cooldown" => c \in calls
    BY <1>a
  <1> QED
    BY <1>a, <1>3, <1>4, <1>5, <1>6, <1>7, WorkerOK

LEMMA CooldownOK ==
  ASSUME LimiterInv, NEW w \in Workers, NEW delay \in Delays, cooldown(w, delay) PROVE LimiterInv'
  <1> USE LimiterAssumption
  <1>a. /\ worker[w].waits = "dispatched" /\ worker[w].call < MaxCalls[w]
        /\ worker' = [worker EXCEPT ![w] = [waits |-> "cooldown", call |-> worker[w].call + 1]]
        /\ calls' = calls \cup
              {[script |-> "cooldown", token |-> <<w, worker[w].call + 1>>, delay |-> delay]}
        /\ UNCHANGED <<now, hash, starts, started, cooled, lost>>
    BY DEF cooldown
  <1>b. worker[w].call \in Nat /\ worker[w].call + 1 \in 1..MaxCalls[w]
    BY <1>a DEF LimiterInv, LimiterTypeOK, CallsInOrder
  <1>3. calls' \subseteq Call
    BY <1>a, <1>b, TokenFacts DEF LimiterInv, LimiterTypeOK, Call
  <1>4. worker' \in [Workers -> [waits : {"idle", "reserve", "granted", "confirm", "dispatched",
                                           "cooldown"}, call : Nat]]
    BY <1>a, <1>b DEF LimiterInv, LimiterTypeOK
  <1>5. CallsInOrder'
    BY <1>a, <1>b DEF LimiterInv, LimiterTypeOK, CallsInOrder
  <1>6. \A v \in Workers : worker'[v].waits = "dispatched" => worker[v].waits = "dispatched"
    BY <1>a DEF LimiterInv, LimiterTypeOK
  <1>7. \A c \in calls' : c.script = "cooldown" =>
             c \in calls \/ \E v \in Workers : worker[v].waits = "dispatched"
    BY <1>a
  <1> QED
    BY <1>a, <1>3, <1>4, <1>5, <1>6, <1>7, WorkerOK

LEMMA ConfirmOK == ASSUME LimiterInv, NEW w \in Workers, confirm(w) PROVE LimiterInv'
  <1> USE LimiterAssumption
  <1>a. /\ worker[w].waits = "granted"
        /\ worker' = [worker EXCEPT ![w] = [waits |-> "confirm", call |-> worker[w].call]]
        /\ calls' = calls \cup {[script |-> "confirm", token |-> <<w, worker[w].call>>, delay |-> 0]}
        /\ UNCHANGED <<now, hash, starts, started, cooled, lost>>
    <2>1. worker[w] = [waits |-> worker[w].waits, call |-> worker[w].call] /\ worker[w].waits = "granted"
      BY DEF confirm, LimiterInv, LimiterTypeOK
    <2>2. [worker[w] EXCEPT !.waits = "confirm"] = [waits |-> "confirm", call |-> worker[w].call]
      BY <2>1
    <2> QED
      BY <2>1, <2>2 DEF confirm, token
  <1>b. worker[w].call \in Nat /\ worker[w].call \in 1..MaxCalls[w]
    BY <1>a DEF LimiterInv, LimiterTypeOK, CallsInOrder
  <1>3. calls' \subseteq Call
    BY <1>a, <1>b, TokenFacts DEF LimiterInv, LimiterTypeOK, Call
  <1>4. worker' \in [Workers -> [waits : {"idle", "reserve", "granted", "confirm", "dispatched",
                                           "cooldown"}, call : Nat]]
    BY <1>a, <1>b DEF LimiterInv, LimiterTypeOK
  <1>5. CallsInOrder'
    BY <1>a, <1>b DEF LimiterInv, LimiterTypeOK, CallsInOrder
  <1>6. \A v \in Workers : worker'[v].waits = "dispatched" => worker[v].waits = "dispatched"
    BY <1>a DEF LimiterInv, LimiterTypeOK
  <1>7. \A c \in calls' : c.script = "cooldown" => c \in calls
    BY <1>a
  <1> QED
    BY <1>a, <1>3, <1>4, <1>5, <1>6, <1>7, WorkerOK

LEMMA IdleOK == ASSUME LimiterInv, NEW w \in Workers, respond(w) \/ timed_out(w) PROVE LimiterInv'
  <1> USE LimiterAssumption
  <1>a. /\ worker' = [worker EXCEPT ![w] = [waits |-> "idle", call |-> worker[w].call]]
        /\ UNCHANGED <<now, hash, starts, calls, started, cooled, lost>>
    BY DEF respond, timed_out, LimiterInv, LimiterTypeOK
  <1>2. calls' \subseteq Call
    BY <1>a DEF LimiterInv, LimiterTypeOK
  <1>3. worker' \in [Workers -> [waits : {"idle", "reserve", "granted", "confirm", "dispatched",
                                           "cooldown"}, call : Nat]]
    BY <1>a DEF LimiterInv, LimiterTypeOK
  <1>4. CallsInOrder'
    BY <1>a DEF LimiterInv, LimiterTypeOK, CallsInOrder
  <1>5. \A v \in Workers : worker'[v].waits = "dispatched" => worker[v].waits = "dispatched"
    BY <1>a DEF LimiterInv, LimiterTypeOK
  <1> QED
    BY <1>a, <1>2, <1>3, <1>4, <1>5, WorkerOK

LEMMA StateLossOK == ASSUME LimiterInv, NEW keys \in Losses, StateLoss(keys) PROVE LimiterInv'
  <1> USE LimiterAssumption, HashFacts DEF StateLoss
  <1>1. LimiterTypeOK'
    BY DEF LimiterInv, LimiterTypeOK
  <1>2. CallsInOrder' /\ InThePast'
    BY DEF LimiterInv, LimiterTypeOK, CallsInOrder, InThePast
  <1>3. HashHolds' /\ DispatchedUnderHash'
    BY DEF LimiterInv, HashHolds, DispatchedUnderHash
  <1>4. HashQuiet' /\ Spaced'
    BY DEF LimiterInv, HashQuiet, Spaced
  <1> QED
    BY <1>1, <1>2, <1>3, <1>4 DEF LimiterInv

LEMMA ClockOK == ASSUME LimiterInv, Clock PROVE LimiterInv'
  <1> USE LimiterAssumption, HashFacts DEF Clock
  <1>1. LimiterTypeOK'
    BY DEF LimiterInv, LimiterTypeOK
  <1>2. CallsInOrder' /\ InThePast'
    <2>1. \A s \in started : s.at \in Nat
      BY DEF LimiterInv, LimiterTypeOK
    <2> QED
      BY <2>1 DEF LimiterInv, LimiterTypeOK, CallsInOrder, InThePast
  <1>3. HashHolds' /\ DispatchedUnderHash'
    BY DEF LimiterInv, LimiterTypeOK, HashHolds, DispatchedUnderHash
  <1>4. HashQuiet' /\ Spaced'
    BY DEF LimiterInv, HashQuiet, Spaced
  <1> QED
    BY <1>1, <1>2, <1>3, <1>4 DEF LimiterInv

-----------------------------------------------------------------------------
\* What running a call does beside the keys: the worker that waits is answered.
LEMMA EvalWorkers ==
  ASSUME LimiterInv, NEW c \in calls, _eval(c)
  PROVE  /\ calls' \subseteq calls /\ CallsInOrder' /\ UNCHANGED <<now, lost>>
         /\ worker' \in [Workers -> [waits : {"idle", "reserve", "granted", "confirm", "dispatched",
                                              "cooldown"}, call : Nat]]
         /\ \A v \in Workers : worker'[v].waits = "dispatched" =>
               worker[v].waits = "dispatched" \/ effect(c).answer = "confirmed"
  <1> DEFINE w == c.token[1]
  <1>1. w \in Workers
    BY TokenFacts DEF LimiterInv, LimiterTypeOK, Call
  <1>2. \/ UNCHANGED worker
        \/ \E waits \in next_waits(effect(c).answer) : worker' = [worker EXCEPT ![w].waits = waits]
    BY DEF _eval
  <1>3. calls' \subseteq calls /\ UNCHANGED <<now, lost>> /\ (worker[w].waits = c.script \/ UNCHANGED worker)
    BY DEF _eval
  <1> HIDE DEF w
  <1>4. CASE UNCHANGED worker
    BY <1>3, <1>4 DEF LimiterInv, LimiterTypeOK, CallsInOrder
  <1>5. ASSUME NEW waits \in next_waits(effect(c).answer), worker' = [worker EXCEPT ![w].waits = waits],
               worker[w].waits = c.script
        PROVE  /\ CallsInOrder'
               /\ worker' \in [Workers -> [waits : {"idle", "reserve", "granted", "confirm", "dispatched",
                                                    "cooldown"}, call : Nat]]
               /\ \A v \in Workers : worker'[v].waits = "dispatched" =>
                     worker[v].waits = "dispatched" \/ effect(c).answer = "confirmed"
    <2>1. worker[w] = [waits |-> worker[w].waits, call |-> worker[w].call] /\ worker[w].call \in Nat
      BY <1>1 DEF LimiterInv, LimiterTypeOK
    <2>2. [worker[w] EXCEPT !.waits = waits] = [waits |-> waits, call |-> worker[w].call]
      BY <2>1
    <2>3. worker' = [worker EXCEPT ![w] = [waits |-> waits, call |-> worker[w].call]]
      BY <1>5, <2>2
    <2>4. waits \in {"idle", "granted", "dispatched"} /\ (waits = "dispatched" => effect(c).answer = "confirmed")
      BY DEF next_waits
    <2>5. c.script # "idle" /\ worker[w].call >= 1
      BY <1>1, <1>5 DEF LimiterInv, LimiterTypeOK, Call, CallsInOrder
    <2> QED
      BY <1>1, <1>3, <2>1, <2>3, <2>4, <2>5 DEF LimiterInv, LimiterTypeOK, CallsInOrder
  <1> QED
    BY <1>2, <1>3, <1>4, <1>5

\* A hash with some fields set.
LEMMA HashRecord ==
  ASSUME NEW i \in 1..Second, NEW b \in Nat, NEW l \in Nat, NEW t \in Tokens \cup {NoToken}, NEW e \in Nat
  PROVE  [interval |-> i, blocked |-> b, last |-> l, pending |-> t, expires |-> e] \in Hash
  BY DEF Hash

LEMMA HashGranted ==
  ASSUME NEW h \in Hash, NEW t, NEW e
  PROVE  [h EXCEPT !.pending = t, !.expires = e] =
           [interval |-> h.interval, blocked |-> h.blocked, last |-> h.last, pending |-> t, expires |-> e]
  <1> DEFINE g == [h EXCEPT !.pending = t]
  <1>1. g = [interval |-> h.interval, blocked |-> h.blocked, last |-> h.last, pending |-> t,
             expires |-> h.expires]
    BY DEF Hash
  <1>2. [h EXCEPT !.pending = t, !.expires = e] = [g EXCEPT !.expires = e]
    OBVIOUS
  <1> HIDE DEF g
  <1>3. [g EXCEPT !.expires = e] =
           [interval |-> h.interval, blocked |-> h.blocked, last |-> h.last, pending |-> t, expires |-> e]
    BY <1>1
  <1> QED
    BY <1>2, <1>3

LEMMA HashReleased ==
  ASSUME NEW h \in Hash
  PROVE  released(h) = [interval |-> h.interval, blocked |-> h.blocked, last |-> h.last,
                        pending |-> NoToken, expires |-> 0]
  BY HashGranted DEF released

LEMMA HashStarted ==
  ASSUME NEW h \in Hash, NEW l
  PROVE  [released(h) EXCEPT !.last = l] =
           [interval |-> h.interval, blocked |-> h.blocked, last |-> l, pending |-> NoToken, expires |-> 0]
  <1>1. released(h) = [interval |-> h.interval, blocked |-> h.blocked, last |-> h.last,
                       pending |-> NoToken, expires |-> 0]
    BY HashReleased
  <1> QED
    BY <1>1

LEMMA HashBlocked ==
  ASSUME NEW h \in Hash, NEW b
  PROVE  [released(h) EXCEPT !.blocked = b] =
           [interval |-> h.interval, blocked |-> b, last |-> h.last, pending |-> NoToken, expires |-> 0]
  <1>1. released(h) = [interval |-> h.interval, blocked |-> h.blocked, last |-> h.last,
                       pending |-> NoToken, expires |-> 0]
    BY HashReleased
  <1> QED
    BY <1>1

\* RESERVE leaves the keys alone or makes a hash, with or without a grant.
LEMMA ReserveKeys ==
  ASSUME LimiterInv, NEW t \in Tokens
  PROVE  /\ RESERVE(t).starts = starts /\ RESERVE(t).answer \notin {"confirmed", "cooled"}
         /\ \/ RESERVE(t).hash = hash
            \/ \E h \in Hash :
                  /\ \/ h = hash
                     \/ hash = NoHash /\ h.blocked = now + Second /\ h.last = 0 /\ h.pending = NoToken
                  /\ h.interval = Interval[t[1]]
                  /\ \/ RESERVE(t).hash = h
                     \/ /\ h.blocked <= now /\ h.last + h.interval <= now
                        /\ RESERVE(t).hash =
                             [interval |-> h.interval, blocked |-> h.blocked, last |-> h.last,
                              pending |-> t, expires |-> now + Grace]
  <1> USE LimiterAssumption
  <1> DEFINE h == reserved_hash(t[1])
  <1>1. t[1] \in Workers /\ now \in Nat /\ hash \in Hash \cup {NoHash}
    BY TokenFacts DEF LimiterInv, LimiterTypeOK
  <1>2. h \in Hash /\ (h = hash \/ (hash = NoHash /\ h.blocked = now + Second /\ h.last = 0 /\ h.pending = NoToken))
    BY <1>1 DEF reserved_hash, Hash
  <1> HIDE DEF h
  <1>3. CASE h.interval # Interval[t[1]]
    BY <1>3 DEF RESERVE, h
  <1>4. CASE h.interval = Interval[t[1]] /\ ready(h) > now
    <2>1. RESERVE(t) = [hash |-> h, starts |-> starts, answer |-> "refused"]
      BY <1>4 DEF RESERVE, h
    <2>2. RESERVE(t).hash = h /\ RESERVE(t).starts = starts /\ RESERVE(t).answer = "refused"
      BY <2>1
    <2> QED
      BY <1>2, <1>4, <2>2
  <1>5. CASE h.interval = Interval[t[1]] /\ ~(ready(h) > now)
    <2>1. RESERVE(t) = [hash |-> [h EXCEPT !.pending = t, !.expires = now + Grace], starts |-> starts,
                        answer |-> "granted"]
      BY <1>5 DEF RESERVE, h
    <2>2. h.blocked <= now /\ h.last + h.interval <= now
      BY <1>1, <1>2, <1>5, HashFacts DEF ready, later
    <2>3. [h EXCEPT !.pending = t, !.expires = now + Grace] =
             [interval |-> h.interval, blocked |-> h.blocked, last |-> h.last, pending |-> t,
              expires |-> now + Grace]
      <3>1. now + Grace \in Nat /\ t \in Tokens \cup {NoToken} /\ h.last \in Nat /\ h.blocked \in Nat
        BY <1>1, <1>2, HashFacts
      <3> QED
        BY <1>2, <3>1, HashGranted
    <2>4. RESERVE(t).hash = [interval |-> h.interval, blocked |-> h.blocked, last |-> h.last, pending |-> t,
                             expires |-> now + Grace]
      BY <2>1, <2>3
    <2>5. RESERVE(t).starts = starts /\ RESERVE(t).answer = "granted"
      BY <2>1
    <2> QED
      BY <1>2, <1>5, <2>2, <2>4, <2>5
  <1> QED
    BY <1>3, <1>4, <1>5

\* CONFIRM records a start only for an unexpired grant no cooldown has blocked.
LEMMA ConfirmKeys ==
  ASSUME LimiterInv, NEW t \in Tokens
  PROVE  /\ CONFIRM(t).starts \subseteq Start /\ CONFIRM(t).answer # "cooled"
         /\ \/ CONFIRM(t).hash = hash /\ CONFIRM(t).answer # "confirmed"
            \/ /\ hash \in Hash /\ CONFIRM(t).answer # "confirmed"
               /\ CONFIRM(t).hash = [interval |-> hash.interval, blocked |-> hash.blocked, last |-> hash.last,
                                     pending |-> NoToken, expires |-> 0]
            \/ /\ hash \in Hash /\ hash.pending = t /\ hash.expires >= now /\ hash.blocked <= now
               /\ CONFIRM(t).hash = [interval |-> hash.interval, blocked |-> hash.blocked, last |-> now,
                                     pending |-> NoToken, expires |-> 0]
  <1> USE LimiterAssumption
  <1>1. now \in Nat /\ hash \in Hash \cup {NoHash} /\ starts \subseteq Start
    BY DEF LimiterInv, LimiterTypeOK
  <1>2. recent \subseteq Start /\ recent \cup {[token |-> t, at |-> now]} \subseteq Start
    BY <1>1 DEF recent, Start
  <1>3. CASE hash = NoHash \/ hash.pending # t
    BY <1>1, <1>3 DEF CONFIRM
  <1>4. CASE hash \in Hash /\ hash.pending = t
    <2>1. hash # NoHash /\ hash.expires \in Nat /\ hash.blocked \in Nat
      BY <1>4, HashFacts
    <2>2. /\ released(hash) = [interval |-> hash.interval, blocked |-> hash.blocked, last |-> hash.last,
                              pending |-> NoToken, expires |-> 0]
          /\ [released(hash) EXCEPT !.last = now] =
               [interval |-> hash.interval, blocked |-> hash.blocked, last |-> now,
                pending |-> NoToken, expires |-> 0]
      BY <1>4, HashReleased, HashStarted
    <2>3. CASE hash.expires < now
      BY <1>1, <1>4, <2>1, <2>2, <2>3 DEF CONFIRM
    <2>4. CASE ~(hash.expires < now) /\ hash.blocked > now
      BY <1>1, <1>4, <2>1, <2>4 DEF CONFIRM
    <2>5. CASE ~(hash.expires < now) /\ ~(hash.blocked > now) /\ Cardinality(recent) >= MaxStarts
      BY <1>1, <1>2, <1>4, <2>1, <2>5 DEF CONFIRM
    <2>6. CASE ~(hash.expires < now) /\ ~(hash.blocked > now) /\ ~(Cardinality(recent) >= MaxStarts)
      <3>1. CONFIRM(t) = [hash |-> [released(hash) EXCEPT !.last = now],
                          starts |-> recent \cup {[token |-> t, at |-> now]}, answer |-> "confirmed"]
        BY <1>4, <2>1, <2>6 DEF CONFIRM
      <3> QED
        BY <1>1, <1>2, <1>4, <2>1, <2>2, <2>6, <3>1
    <2> QED
      BY <2>3, <2>4, <2>5, <2>6
  <1> QED
    BY <1>1, <1>3, <1>4

\* COOLDOWN lengthens the block and withdraws the grant.
LEMMA CooldownKeys ==
  ASSUME LimiterInv, NEW t \in Tokens, NEW delay \in Nat
  PROVE  /\ COOLDOWN(t, delay).starts = starts /\ COOLDOWN(t, delay).answer = "cooled"
         /\ \E h \in Hash : \E b \in Nat :
               /\ h = hash \/ (hash = NoHash /\ h.interval = Interval[t[1]])
               /\ b >= now + delay /\ (h = hash => b >= hash.blocked)
               /\ COOLDOWN(t, delay).hash = [interval |-> h.interval, blocked |-> b, last |-> h.last,
                                             pending |-> NoToken, expires |-> 0]
  <1> USE LimiterAssumption
  <1> DEFINE h == cooled_hash(t[1])
             b == blocked_until(delay)
  <1>1. t[1] \in Workers /\ now \in Nat /\ hash \in Hash \cup {NoHash}
    BY TokenFacts DEF LimiterInv, LimiterTypeOK
  <1>2. h \in Hash /\ (h = hash \/ (hash = NoHash /\ h.interval = Interval[t[1]]))
    BY <1>1 DEF cooled_hash, Hash
  <1>3. b \in Nat /\ b >= now + delay /\ (h = hash => b >= hash.blocked)
    BY <1>1, <1>2, HashFacts DEF blocked_until, later
  <1>4. COOLDOWN(t, delay) = [hash |-> [released(h) EXCEPT !.blocked = b], starts |-> starts, answer |-> "cooled"]
    BY DEF COOLDOWN
  <1> HIDE DEF h, b
  <1>5. [released(h) EXCEPT !.blocked = b] =
           [interval |-> h.interval, blocked |-> b, last |-> h.last, pending |-> NoToken, expires |-> 0]
    BY <1>2, HashBlocked
  <1> QED
    BY <1>2, <1>3, <1>4, <1>5

-----------------------------------------------------------------------------
LEMMA ReserveOK ==
  ASSUME LimiterInv, NEW c \in calls, _eval(c), c.script = "reserve" PROVE LimiterInv'
  <1> USE LimiterAssumption, HashFacts
  <1> DEFINE w == c.token[1]
  <1>1. /\ c \in Call /\ c.token \in Tokens /\ w \in Workers
        /\ now \in Nat /\ cooled \in Nat /\ lost \in Nat /\ hash \in Hash \cup {NoHash}
        /\ \A s \in started : s.at \in Nat /\ s.interval \in 1..Second
    BY TokenFacts DEF LimiterInv, LimiterTypeOK, Call
  <1>2. hash' = RESERVE(c.token).hash /\ starts' = starts /\ started' = started /\ cooled' = cooled
    <2>1. effect(c) = RESERVE(c.token)
      BY DEF effect
    <2>2. RESERVE(c.token).starts = starts /\ RESERVE(c.token).answer \notin {"confirmed", "cooled"}
      BY <1>1, ReserveKeys
    <2> QED
      BY <2>1, <2>2 DEF _eval
  <1>3. /\ calls' \subseteq calls /\ CallsInOrder' /\ UNCHANGED <<now, lost>>
        /\ worker' \in [Workers -> [waits : {"idle", "reserve", "granted", "confirm", "dispatched",
                                             "cooldown"}, call : Nat]]
        /\ \A v \in Workers : worker'[v].waits = "dispatched" => worker[v].waits = "dispatched"
    <2>1. effect(c).answer # "confirmed"
      BY <1>1, ReserveKeys DEF effect
    <2> QED
      BY <2>1, EvalWorkers
  <1> HIDE DEF w
  <1>4. CASE hash' = hash
    <2>1. LimiterTypeOK' /\ InThePast' /\ HashHolds'
      BY <1>2, <1>3, <1>4 DEF LimiterInv, LimiterTypeOK, InThePast, HashHolds
    <2>2. DispatchedUnderHash' /\ HashQuiet' /\ Spaced'
      BY <1>2, <1>3, <1>4 DEF LimiterInv, DispatchedUnderHash, HashQuiet, Spaced
    <2> QED
      BY <1>3, <2>1, <2>2 DEF LimiterInv
  <1>5. ASSUME NEW h \in Hash,
               h = hash \/ (hash = NoHash /\ h.blocked = now + Second /\ h.last = 0 /\ h.pending = NoToken),
               h.interval = Interval[w],
               \/ hash' = h
               \/ /\ h.last + h.interval <= now
                  /\ hash' = [interval |-> h.interval, blocked |-> h.blocked, last |-> h.last,
                              pending |-> c.token, expires |-> now + Grace]
        PROVE  LimiterInv'
    <2>1. /\ hash' \in Hash /\ hash'.interval = h.interval /\ hash'.blocked = h.blocked /\ hash'.last = h.last
          /\ hash' = h \/ (hash'.pending = c.token /\ hash'.expires = now + Grace)
      BY <1>1, <1>5, HashRecord
    <2>2. /\ h.interval \in 1..Second /\ h.blocked \in Nat /\ h.last \in Nat
          /\ hash # NoHash => h = hash
      BY <1>5
    <2>3. LimiterTypeOK' /\ InThePast'
      BY <1>2, <1>3, <2>1 DEF LimiterInv, LimiterTypeOK, InThePast
    <2>4. HashHolds'
      <3>1. cooled <= h.blocked /\ \E v \in Workers : h.interval = Interval[v]
        BY <1>1, <1>5 DEF LimiterInv, HashHolds
      <3>2. h.pending # NoToken =>
              h.last + h.interval + Grace <= h.expires /\ h.expires <= now + Grace
        BY <1>5 DEF LimiterInv, HashHolds
      <3>3. hash'.pending # NoToken =>
              hash'.last + hash'.interval + Grace <= hash'.expires /\ hash'.expires <= now + Grace
        BY <1>1, <1>5, <2>1, <2>2, <3>2
      <3> QED
        BY <1>2, <1>3, <2>1, <3>1, <3>3 DEF HashHolds
    <2>5. DispatchedUnderHash'
      BY <2>1 DEF DispatchedUnderHash
    <2>6. HashQuiet'
      <3>1. QuietKept => lost + Second <= h.blocked
        BY <1>1, <1>5 DEF LimiterInv, HashQuiet, InThePast
      <3>2. QuietKept => \A s \in started :
               (s.at <= h.last /\ s.interval = h.interval) \/ s.at + Second <= h.blocked
        BY <1>1, <1>5 DEF LimiterInv, HashQuiet, InThePast
      <3> QED
        BY <1>2, <1>3, <2>1, <3>1, <3>2 DEF HashQuiet
    <2>7. Spaced'
      BY <1>2 DEF LimiterInv, Spaced
    <2> QED
      BY <1>3, <2>3, <2>4, <2>5, <2>6, <2>7 DEF LimiterInv
  <1> QED
    <2>1. \/ RESERVE(c.token).hash = hash
          \/ \E h \in Hash :
                /\ h = hash \/ (hash = NoHash /\ h.blocked = now + Second /\ h.last = 0 /\ h.pending = NoToken)
                /\ h.interval = Interval[c.token[1]]
                /\ \/ RESERVE(c.token).hash = h
                   \/ /\ h.blocked <= now /\ h.last + h.interval <= now
                      /\ RESERVE(c.token).hash =
                           [interval |-> h.interval, blocked |-> h.blocked, last |-> h.last,
                            pending |-> c.token, expires |-> now + Grace]
      BY <1>1, ReserveKeys, Zenon
    <2> QED
      BY <1>2, <1>4, <1>5, <2>1 DEF w

LEMMA CooldownScriptOK ==
  ASSUME LimiterInv, NEW c \in calls, _eval(c), c.script = "cooldown" PROVE LimiterInv'
  <1> USE LimiterAssumption, HashFacts
  <1> DEFINE w == c.token[1]
  <1>1. /\ c \in Call /\ c.token \in Tokens /\ c.delay \in Nat /\ w \in Workers
        /\ now \in Nat /\ cooled \in Nat /\ lost \in Nat /\ hash \in Hash \cup {NoHash}
        /\ \A s \in started : s.at \in Nat /\ s.interval \in 1..Second
    BY TokenFacts DEF LimiterInv, LimiterTypeOK, Call
  <1>d. (\A delay \in Delays : delay >= Second) => c.delay >= Second
    BY DEF LimiterInv, CallsInOrder
  <1>3. /\ hash' = COOLDOWN(c.token, c.delay).hash /\ starts' = starts /\ started' = started
        /\ cooled' = later(cooled, now + c.delay)
    <2>1. effect(c) = COOLDOWN(c.token, c.delay)
      BY DEF effect
    <2>2. COOLDOWN(c.token, c.delay).starts = starts /\ COOLDOWN(c.token, c.delay).answer = "cooled"
      BY <1>1, CooldownKeys
    <2> QED
      BY <2>1, <2>2 DEF _eval
  <1>4. /\ calls' \subseteq calls /\ CallsInOrder' /\ UNCHANGED <<now, lost>>
        /\ worker' \in [Workers -> [waits : {"idle", "reserve", "granted", "confirm", "dispatched",
                                             "cooldown"}, call : Nat]]
    BY EvalWorkers
  <1> HIDE DEF w
  <1>5. PICK h \in Hash, b \in Nat :
               /\ h = hash \/ (hash = NoHash /\ h.interval = Interval[w])
               /\ b >= now + c.delay /\ (h = hash => b >= hash.blocked)
               /\ hash' = [interval |-> h.interval, blocked |-> b, last |-> h.last,
                           pending |-> NoToken, expires |-> 0]
    <2>1. \E h \in Hash : \E b \in Nat :
               /\ h = hash \/ (hash = NoHash /\ h.interval = Interval[c.token[1]])
               /\ b >= now + c.delay /\ (h = hash => b >= hash.blocked)
               /\ COOLDOWN(c.token, c.delay).hash =
                     [interval |-> h.interval, blocked |-> b, last |-> h.last,
                      pending |-> NoToken, expires |-> 0]
      <3>1. c.token \in Tokens /\ c.delay \in Nat
        BY <1>1
      <3> HIDE LimiterAssumption, HashFacts
      <3> QED
        BY <3>1, CooldownKeys, Zenon
    <2> QED
      BY <1>3, <2>1 DEF w
  <1>6. /\ hash' \in Hash /\ hash'.interval = h.interval /\ hash'.blocked = b /\ hash'.last = h.last
        /\ hash'.pending = NoToken /\ h.interval \in 1..Second /\ h.last \in Nat
    BY <1>5, HashRecord
  <1>7. LimiterTypeOK' /\ InThePast'
    BY <1>1, <1>3, <1>4, <1>6 DEF LimiterInv, LimiterTypeOK, InThePast, later
  <1>8. HashHolds'
    <2>1. later(cooled, now + c.delay) <= b
      BY <1>1, <1>5 DEF later, LimiterInv, HashHolds
    <2>2. \E v \in Workers : h.interval = Interval[v]
      BY <1>1, <1>5 DEF LimiterInv, HashHolds
    <2> QED
      BY <1>3, <1>6, <2>1, <2>2 DEF HashHolds
  <1>9. DispatchedUnderHash'
    BY <1>6 DEF DispatchedUnderHash
  <1>10. HashQuiet'
    <2>1. CASE hash = NoHash
      <3>1. QuietKept => c.delay >= Second
        BY <1>d, <2>1 DEF QuietKept, LimiterInv, DispatchedUnderHash
      <3>2. QuietKept => lost + Second <= b /\ \A s \in started : s.at + Second <= b
        BY <1>1, <1>5, <3>1 DEF LimiterInv, InThePast
      <3> QED
        BY <1>3, <1>4, <1>6, <3>2 DEF HashQuiet
    <2>2. CASE hash # NoHash
      <3>1. QuietKept =>
              /\ lost + Second <= b
              /\ \A s \in started : (s.at <= h.last /\ s.interval = h.interval) \/ s.at + Second <= b
        BY <1>1, <1>5, <2>2 DEF LimiterInv, HashQuiet
      <3> QED
        BY <1>3, <1>4, <1>6, <3>1 DEF HashQuiet
    <2> QED
      BY <2>1, <2>2
  <1>11. Spaced'
    BY <1>3 DEF LimiterInv, Spaced
  <1> QED
    BY <1>4, <1>7, <1>8, <1>9, <1>10, <1>11 DEF LimiterInv

\* A start under an unexpired grant keeps its distance to every other.
LEMMA StartKeepsDistance ==
  ASSUME LimiterInv, QuietKept, hash \in Hash, hash.pending # NoToken, hash.expires >= now, hash.blocked <= now,
         NEW s \in started
  PROVE  /\ s.at < now /\ now - s.at >= hash.interval
         /\ now < s.at + Second => s.interval = hash.interval
  <1> USE LimiterAssumption, HashFacts
  <1>1. /\ now \in Nat /\ s.at \in Nat /\ hash # NoHash /\ hash.interval \in 1..Second
        /\ hash.last \in Nat /\ hash.blocked \in Nat /\ hash.expires \in Nat
    BY DEF LimiterInv, LimiterTypeOK
  <1>2. hash.last + hash.interval + Grace <= hash.expires /\ hash.expires <= now + Grace
    BY <1>1 DEF LimiterInv, HashHolds
  <1>3. hash.last + hash.interval <= now
    BY <1>1, <1>2
  <1>4. (s.at <= hash.last /\ s.interval = hash.interval) \/ s.at + Second <= hash.blocked
    BY <1>1 DEF LimiterInv, HashQuiet
  <1> QED
    BY <1>1, <1>3, <1>4

LEMMA ConfirmScriptOK ==
  ASSUME LimiterInv, NEW c \in calls, _eval(c), c.script = "confirm" PROVE LimiterInv'
  <1> USE LimiterAssumption, HashFacts
  <1> DEFINE t == c.token
             new == [token |-> t, at |-> now, interval |-> hash.interval]
  <1>1. /\ t \in Tokens /\ t # NoToken /\ now \in Nat /\ hash \in Hash \cup {NoHash}
        /\ \A s \in started : s.at \in Nat /\ s.interval \in 1..Second
    BY TokenFacts DEF LimiterInv, LimiterTypeOK, Call
  <1>e. effect(c) = CONFIRM(t)
    BY DEF effect
  <1> HIDE DEF t
  <1>k. /\ CONFIRM(t).starts \subseteq Start /\ CONFIRM(t).answer # "cooled"
        /\ \/ CONFIRM(t).hash = hash /\ CONFIRM(t).answer # "confirmed"
           \/ /\ hash \in Hash /\ CONFIRM(t).answer # "confirmed"
              /\ CONFIRM(t).hash = [interval |-> hash.interval, blocked |-> hash.blocked, last |-> hash.last,
                                    pending |-> NoToken, expires |-> 0]
           \/ /\ hash \in Hash /\ hash.pending = t /\ hash.expires >= now /\ hash.blocked <= now
              /\ CONFIRM(t).hash = [interval |-> hash.interval, blocked |-> hash.blocked, last |-> now,
                                    pending |-> NoToken, expires |-> 0]
    BY <1>1, ConfirmKeys
  <1>4. /\ hash' = CONFIRM(t).hash /\ starts' = CONFIRM(t).starts /\ cooled' = cooled
        /\ started' = IF CONFIRM(t).answer = "confirmed" THEN started \cup {new} ELSE started
    BY <1>e, <1>k DEF _eval, t
  <1>5. /\ calls' \subseteq calls /\ CallsInOrder' /\ UNCHANGED <<now, lost>>
        /\ worker' \in [Workers -> [waits : {"idle", "reserve", "granted", "confirm", "dispatched",
                                             "cooldown"}, call : Nat]]
        /\ \A v \in Workers : worker'[v].waits = "dispatched" =>
              worker[v].waits = "dispatched" \/ CONFIRM(t).answer = "confirmed"
    BY <1>e, EvalWorkers
  <1>6. CASE CONFIRM(t).hash = hash /\ CONFIRM(t).answer # "confirmed"
    <2>1. LimiterTypeOK' /\ InThePast' /\ HashHolds'
      BY <1>k, <1>4, <1>5, <1>6 DEF LimiterInv, LimiterTypeOK, InThePast, HashHolds
    <2>2. DispatchedUnderHash' /\ HashQuiet' /\ Spaced'
      BY <1>4, <1>5, <1>6 DEF LimiterInv, DispatchedUnderHash, HashQuiet, Spaced
    <2> QED
      BY <1>5, <2>1, <2>2 DEF LimiterInv
  <1>7. ASSUME hash \in Hash, NEW l \in Nat, l = hash.last \/ l = now,
               hash' = [interval |-> hash.interval, blocked |-> hash.blocked, last |-> l,
                        pending |-> NoToken, expires |-> 0]
        PROVE  /\ hash' \in Hash /\ HashHolds' /\ DispatchedUnderHash'
               /\ hash'.interval = hash.interval /\ hash'.blocked = hash.blocked /\ hash'.last = l
               /\ hash # NoHash /\ hash.interval \in 1..Second /\ hash.blocked \in Nat
    <2>1. /\ hash.interval \in 1..Second /\ hash.blocked \in Nat /\ hash # NoHash
          /\ NoToken \in Tokens \cup {NoToken}
      BY <1>7
    <2>2. /\ hash' \in Hash /\ hash'.interval = hash.interval /\ hash'.blocked = hash.blocked
          /\ hash'.last = l /\ hash'.pending = NoToken
      BY <1>7, <2>1, HashRecord
    <2>3. HashHolds'
      BY <1>4, <2>1, <2>2 DEF LimiterInv, HashHolds
    <2>4. DispatchedUnderHash'
      BY <2>2 DEF DispatchedUnderHash
    <2> QED
      BY <2>1, <2>2, <2>3, <2>4
  <1>8. CASE /\ hash \in Hash /\ CONFIRM(t).answer # "confirmed"
             /\ CONFIRM(t).hash = [interval |-> hash.interval, blocked |-> hash.blocked, last |-> hash.last,
                                   pending |-> NoToken, expires |-> 0]
    <2>1. /\ hash' \in Hash /\ HashHolds' /\ DispatchedUnderHash'
          /\ hash'.interval = hash.interval /\ hash'.blocked = hash.blocked /\ hash'.last = hash.last
          /\ hash # NoHash
      BY <1>4, <1>7, <1>8
    <2>2. LimiterTypeOK' /\ InThePast'
      BY <1>k, <1>4, <1>5, <1>8, <2>1 DEF LimiterInv, LimiterTypeOK, InThePast
    <2>3. HashQuiet' /\ Spaced'
      BY <1>4, <1>5, <1>8, <2>1 DEF LimiterInv, HashQuiet, Spaced
    <2> QED
      BY <1>5, <2>1, <2>2, <2>3 DEF LimiterInv
  <1>9. CASE /\ hash \in Hash /\ hash.pending = t /\ hash.expires >= now /\ hash.blocked <= now
             /\ CONFIRM(t).hash = [interval |-> hash.interval, blocked |-> hash.blocked, last |-> now,
                                   pending |-> NoToken, expires |-> 0]
    <2>1. /\ hash' \in Hash /\ HashHolds' /\ DispatchedUnderHash'
          /\ hash'.interval = hash.interval /\ hash'.blocked = hash.blocked /\ hash'.last = now
          /\ hash # NoHash /\ hash.interval \in 1..Second /\ hash.blocked \in Nat
      BY <1>1, <1>4, <1>7, <1>9
    <2>2. /\ new \in [token : Tokens, at : Nat, interval : 1..Second]
          /\ new.at = now /\ new.interval = hash.interval
          /\ started' \subseteq started \cup {new}
      BY <1>1, <1>4, <2>1
    <2> HIDE DEF new
    <2>3. LimiterTypeOK'
      BY <1>k, <1>4, <1>5, <2>1, <2>2 DEF LimiterInv, LimiterTypeOK
    <2>4. InThePast'
      BY <1>1, <1>5, <2>2 DEF LimiterInv, InThePast
    <2>5. ASSUME QuietKept, NEW s \in started
          PROVE  /\ s.at < now /\ now - s.at >= hash.interval
                 /\ now < s.at + Second => s.interval = hash.interval
      BY <1>1, <1>9, <2>5, StartKeepsDistance
    <2>6. HashQuiet'
      <3>1. ASSUME QuietKept PROVE lost + Second <= hash.blocked
        BY <2>1, <3>1 DEF LimiterInv, HashQuiet
      <3>2. ASSUME QuietKept, NEW s \in started
            PROVE  (s.at <= now /\ s.interval = hash.interval) \/ s.at + Second <= hash.blocked
        BY <1>1, <2>1, <2>5, <3>2 DEF LimiterInv, HashQuiet
      <3> QED
        BY <1>1, <1>5, <2>1, <2>2, <3>1, <3>2 DEF HashQuiet
    <2>7. Spaced'
      <3> SUFFICES ASSUME QuietKept, NEW s \in started', NEW u \in started'
                   PROVE  /\ \E w \in Workers : s.interval = Interval[w]
                          /\ s # u /\ s.at <= u.at => u.at - s.at >= u.interval
                          /\ s.at <= u.at /\ u.at < s.at + Second => s.interval = u.interval
        BY DEF Spaced
      <3>1. \E w \in Workers : hash.interval = Interval[w]
        BY <2>1 DEF LimiterInv, HashHolds
      <3>2. CASE s \in started /\ u \in started
        BY <3>2 DEF LimiterInv, Spaced
      <3>3. CASE s \in started /\ u = new
        BY <1>1, <2>1, <2>2, <2>5, <3>3 DEF LimiterInv, Spaced
      <3>4. CASE s = new /\ u \in started
        BY <1>1, <2>1, <2>2, <2>5, <3>1, <3>4
      <3>5. CASE s = new /\ u = new
        BY <3>1, <2>2, <3>5
      <3> QED
        BY <2>2, <3>2, <3>3, <3>4, <3>5
    <2> QED
      BY <1>5, <2>1, <2>3, <2>4, <2>6, <2>7 DEF LimiterInv
  <1> QED
    BY <1>k, <1>6, <1>8, <1>9

LEMMA LimiterNextOK == LimiterInv /\ [LimiterNext]_limiter_vars => LimiterInv'
  <1> SUFFICES ASSUME LimiterInv, [LimiterNext]_limiter_vars PROVE LimiterInv'
    OBVIOUS
  <1>1. ASSUME NEW w \in Workers, acquire(w) \/ confirm(w) \/ respond(w) \/ timed_out(w) PROVE LimiterInv'
    BY <1>1, AcquireOK, ConfirmOK, IdleOK
  <1>2. ASSUME NEW w \in Workers, NEW delay \in Delays, cooldown(w, delay) PROVE LimiterInv'
    BY <1>2, CooldownOK
  <1>3. ASSUME NEW c \in calls, _eval(c) PROVE LimiterInv'
    <2>1. c.script \in {"reserve", "confirm", "cooldown"}
      BY DEF LimiterInv, LimiterTypeOK, Call
    <2> QED
      BY <1>3, <2>1, ReserveOK, ConfirmScriptOK, CooldownScriptOK
  <1>4. ASSUME NEW keys \in Losses, StateLoss(keys) PROVE LimiterInv'
    BY <1>4, StateLossOK
  <1>5. CASE Clock
    BY <1>5, ClockOK
  <1>6. CASE UNCHANGED limiter_vars
    <2>1. LimiterTypeOK' /\ CallsInOrder' /\ InThePast'
      BY <1>6 DEF limiter_vars, LimiterInv, LimiterTypeOK, CallsInOrder, InThePast
    <2>2. HashHolds' /\ DispatchedUnderHash' /\ HashQuiet' /\ Spaced'
      BY <1>6 DEF limiter_vars, LimiterInv, HashHolds, DispatchedUnderHash, HashQuiet, Spaced
    <2> QED
      BY <2>1, <2>2 DEF LimiterInv
  <1> QED
    BY <1>1, <1>2, <1>3, <1>4, <1>5, <1>6 DEF LimiterNext

\* The hash keeps its distances whatever the workers do (RESERVE, CONFIRM,
\* COOLDOWN and the loss of keys).
THEOREM LimiterInvariance == LimiterSpec => []LimiterInv
  BY LimiterInitOK, LimiterNextOK, PTL DEF LimiterSpec

-----------------------------------------------------------------------------
\* The starts in the second up to a start are few.
LEMMA SecondIsKept ==
  ASSUME LimiterInv, QuietKept, NEW t \in started
  PROVE  Cardinality({s \in started : t.at - Second < s.at /\ s.at <= t.at}) <= MaxStarts
  <1> USE LimiterAssumption
  <1> DEFINE W == {s \in started : t.at - Second < s.at /\ s.at <= t.at}
             i == t.interval
             low == t.at - Second
  <1>1. \A s \in started : s.at \in Nat /\ s.interval \in 1..Second
    BY DEF LimiterInv, LimiterTypeOK
  <1>2. PICK w \in Workers : i = Interval[w]
    BY DEF LimiterInv, Spaced
  <1>3. i \in Nat \ {0} /\ low \in Int /\ MaxStarts * i >= Second
    BY <1>1, <1>2
  <1>4. \A s \in W : s.at \in Int /\ low < s.at /\ s.at <= low + Second
    BY <1>1
  <1>5. ASSUME NEW s \in W, NEW u \in W, s # u, s.at <= u.at PROVE u.at - s.at >= i
    <2>1. u.interval = i
      BY <1>1, <1>4 DEF LimiterInv, Spaced
    <2> QED
      BY <1>5, <2>1 DEF LimiterInv, Spaced
  <1> HIDE DEF W, i, low
  <1>6. Cardinality(W) <= MaxStarts
    BY <1>3, <1>4, <1>5, SpacedAreFew
  <1> QED
    BY <1>6 DEF W

\* The budget all workers share is never overdrawn (RESERVE and CONFIRM), if
\* a lost hash is never re-created with less than the quiet period.
THEOREM BudgetKept == ASSUME QuietKept PROVE LimiterSpec => []SharedBudgetKept
  <1>1. LimiterInv => SharedBudgetKept
    <2> SUFFICES ASSUME LimiterInv PROVE SharedBudgetKept
      OBVIOUS
    <2>1. \A s, t \in started : s # t /\ s.at <= t.at => t.at - s.at >= t.interval
      BY DEF LimiterInv, Spaced
    <2>2. \A t \in started :
             Cardinality({s \in started : t.at - Second < s.at /\ s.at <= t.at}) <= MaxStarts
      BY SecondIsKept
    <2> QED
      BY <2>1, <2>2 DEF SharedBudgetKept, StartsSpaced, LimiterInv
  <1> QED
    BY <1>1, LimiterInvariance, PTL

\* What a running script starts or grants.
LEMMA StartIsConfirmed ==
  ASSUME LimiterInv, LimiterNext, started' # started
  PROVE  hash \in Hash /\ hash.blocked <= now
  <1>1. PICK c \in calls : _eval(c)
    BY DEF LimiterNext, acquire, confirm, respond, timed_out, cooldown, StateLoss, Clock
  <1>2. c.token \in Tokens /\ c.script \in {"reserve", "confirm", "cooldown"} /\ c.delay \in Nat
    <2>1. c \in Call
      BY DEF LimiterInv, LimiterTypeOK
    <2> QED
      BY <2>1, CallFacts
  <1>3. effect(c).answer = "confirmed"
    BY <1>1 DEF _eval
  <1>4. c.script # "reserve"
    BY <1>2, <1>3, ReserveKeys DEF effect
  <1>5. c.script # "cooldown"
    <2>1. COOLDOWN(c.token, c.delay).answer = "cooled"
      BY <1>2, CooldownKeys
    <2> QED
      BY <1>3, <2>1 DEF effect
  <1>6. CONFIRM(c.token).answer = "confirmed"
    BY <1>2, <1>3, <1>4, <1>5 DEF effect
  <1> QED
    BY <1>2, <1>6, ConfirmKeys

LEMMA GrantIsReserved ==
  ASSUME LimiterInv, LimiterNext, hash' # NoHash, hash'.pending # NoToken, hash = NoHash \/ hash'.pending # hash.pending
  PROVE  hash \in Hash /\ hash.blocked <= now
  <1> USE LimiterAssumption
  <1>1. hash' # hash
    OBVIOUS
  <1>2. PICK c \in calls : _eval(c)
    BY <1>1 DEF LimiterNext, acquire, confirm, respond, timed_out, cooldown, StateLoss, Clock
  <1>3. /\ c.token \in Tokens /\ c.script \in {"reserve", "confirm", "cooldown"} /\ c.delay \in Nat
        /\ hash' = effect(c).hash /\ now \in Nat
    <2>1. c \in Call /\ now \in Nat /\ hash' = effect(c).hash
      BY <1>2 DEF LimiterInv, LimiterTypeOK, _eval
    <2> QED
      BY <2>1, CallFacts
  <1>4. c.script # "confirm"
    BY <1>1, <1>3, ConfirmKeys DEF effect
  <1>5. c.script # "cooldown"
    <2>1. COOLDOWN(c.token, c.delay).hash.pending = NoToken
      <3>1. c.token \in Tokens /\ c.delay \in Nat
        BY <1>3
      <3>2. \E h \in Hash : \E b \in Nat :
               /\ h = hash \/ (hash = NoHash /\ h.interval = Interval[c.token[1]])
               /\ b >= now + c.delay /\ (h = hash => b >= hash.blocked)
               /\ COOLDOWN(c.token, c.delay).hash =
                     [interval |-> h.interval, blocked |-> b, last |-> h.last,
                      pending |-> NoToken, expires |-> 0]
        <4> HIDE LimiterAssumption
        <4> QED
          BY <3>1, CooldownKeys, Zenon
      <3> QED
        BY <3>2
    <2> QED
      BY <1>3, <2>1 DEF effect
  <1>6. hash' = RESERVE(c.token).hash
    BY <1>3, <1>4, <1>5 DEF effect
  <1>7. \E h \in Hash :
           /\ h = hash \/ (hash = NoHash /\ h.blocked = now + Second /\ h.last = 0 /\ h.pending = NoToken)
           /\ \/ hash' = h
              \/ h.blocked <= now
    <2>1. c.token \in Tokens /\ RESERVE(c.token).hash # hash
      BY <1>1, <1>3, <1>6
    <2>2. \E h \in Hash :
            /\ h = hash \/ (hash = NoHash /\ h.blocked = now + Second /\ h.last = 0 /\ h.pending = NoToken)
            /\ h.interval = Interval[c.token[1]]
            /\ \/ RESERVE(c.token).hash = h
               \/ /\ h.blocked <= now /\ h.last + h.interval <= now
                  /\ RESERVE(c.token).hash =
                       [interval |-> h.interval, blocked |-> h.blocked, last |-> h.last,
                        pending |-> c.token, expires |-> now + Grace]
      <3> HIDE LimiterAssumption
      <3> QED
        BY <2>1, ReserveKeys, Zenon
    <2> QED
      BY <1>6, <2>2
  <1> QED
    BY <1>1, <1>3, <1>7

\* No start before the end of a recorded cooldown (CONFIRM and COOLDOWN).
THEOREM CooldownKept == LimiterSpec => CooldownHonoured
  <1>1. LimiterInv /\ [LimiterNext]_limiter_vars => [started' # started => now >= cooled]_limiter_vars
    <2> SUFFICES ASSUME LimiterInv, LimiterNext, started' # started PROVE now >= cooled
      BY DEF limiter_vars
    <2>1. hash \in Hash /\ hash.blocked <= now
      BY StartIsConfirmed
    <2> QED
      BY <2>1, HashFacts DEF LimiterInv, LimiterTypeOK, HashHolds
  <1> QED
    BY <1>1, LimiterInvariance, PTL DEF LimiterSpec, CooldownHonoured

\* Both waits, if a lost hash is never re-created with less than the quiet
\* period (CONFIRM, COOLDOWN and RESERVE).
THEOREM WaitsAreKept == ASSUME QuietKept PROVE LimiterSpec => WaitsKept
  <1>1. LimiterInv /\ [LimiterNext]_limiter_vars =>
          [hash' # NoHash /\ hash'.pending # NoToken /\ (hash = NoHash \/ hash'.pending # hash.pending)
             => now >= lost + Second]_limiter_vars
    <2> SUFFICES ASSUME LimiterInv, LimiterNext, hash' # NoHash, hash'.pending # NoToken,
                        hash = NoHash \/ hash'.pending # hash.pending
                 PROVE  now >= lost + Second
      BY DEF limiter_vars
    <2>1. hash \in Hash /\ hash.blocked <= now
      BY GrantIsReserved
    <2>2. lost + Second <= hash.blocked
      BY <2>1, HashFacts DEF LimiterInv, HashQuiet
    <2> QED
      BY <2>1, <2>2, HashFacts, LimiterAssumption DEF LimiterInv, LimiterTypeOK
  <1>2. LimiterSpec => QuietAfterLoss
    BY <1>1, LimiterInvariance, PTL DEF LimiterSpec, QuietAfterLoss
  <1> QED
    BY <1>2, CooldownKept DEF WaitsKept

-----------------------------------------------------------------------------
(* The pipelines. *)
Control == [execution : 1..MaxExecutions, state : {"queued", "running"} \cup Terminal]
Given == [kind : Kinds, issuer : Issuers]

\* The places of a worker before its publication is committed.
Working == SourceStages \cup {"bootstrap_manifest", "decide", "normalization", "publish"}

\* The stages that may be running there.
running_at(place) ==
    IF place = "publish" THEN {"normalization"}
    ELSE IF place \in StageKeys THEN {none, place} ELSE {none}

\* How a kind of run, the rows of request and stages, and the memory agree.
Fits(kind, c, s, m) ==
    /\ m # idle =>
          /\ c.state = "running" /\ s.running \in running_at(m.at)
          /\ m.at \in Working => ~s.normalized /\ (s.blocked => m.gap)
          /\ kind = "bootstrap" => m.at \notin {"normalization", "publish"}
    /\ c.state # "running" => s.running = none
    /\ kind = "bootstrap" => ~s.normalized

RequestsFit == \A r \in Requests : Fits(given[r].kind, request[r], stages[r], run[r])

\* An open transaction is that of a worker who publishes, and has got the
\* first rows of the order.
Opened(r) ==
    open[r] # {} =>
        /\ run[r] # idle /\ run[r].at = "publish"
        /\ \E n \in 0..SharedRows : open[r] = 0..n

\* A batch is of an execution that has begun, or of a replay.
BatchesOwned ==
    \A b \in DOMAIN batches : b.request # none =>
        /\ b.request \in Requests /\ given[b.request].kind # "replay"
        /\ b.execution <= request[b.request].execution
        /\ request[b.request].state = "queued" => b.execution < request[b.request].execution

\* The inductive invariant.
IndInv ==
    /\ TypeOK /\ BatchWithStage /\ CompleteMeansWhole /\ NoOrphanRows
    /\ RequestsFit /\ (\A r \in Requests : Opened(r)) /\ BatchesOwned

-----------------------------------------------------------------------------
LEMMA Types ==
  ASSUME IndInv, NEW r \in Requests
  PROVE  /\ given[r] \in Given /\ request[r] \in Control /\ stages[r] \in Stages
         /\ run[r] \in {idle} \cup Memory /\ open[r] \in SUBSET (0..SharedRows)
         /\ given[r].kind \in Kinds /\ given[r].issuer \in Issuers
         /\ request[r].execution \in 1..MaxExecutions /\ MaxExecutions \in Nat /\ SharedRows \in Nat \ {0}
  BY BoundsAssumption, ScenariosAssumption DEF IndInv, TypeOK, Control, Given

LEMMA InitOK == Init => IndInv
  <1> SUFFICES ASSUME Init PROVE IndInv
    OBVIOUS
  <1>1. DOMAIN batches = {} /\ IsABag(batches) /\ BagToSet(batches) = {}
    BY DEF Init, EmptyBag, SetToBag, IsABag, BagToSet
  <1>2. TypeOK
    BY <1>1, BoundsAssumption DEF Init, TypeOK, Stages, no_stages, none
  <1>3. BatchWithStage /\ CompleteMeansWhole /\ BatchesOwned
    BY <1>1 DEF BatchWithStage, CompleteMeansWhole, BatchesOwned, Init
  <1>4. NoOrphanRows /\ \A r \in Requests : Opened(r)
    BY DEF NoOrphanRows, Opened, Init
  <1>5. RequestsFit
    BY DEF RequestsFit, Fits, Init, no_stages
  <1> QED
    BY <1>2, <1>3, <1>4, <1>5 DEF IndInv

-----------------------------------------------------------------------------
\* A step of one request that leaves rows, transactions and batches alone: its
\* execution goes on without a change that concerns a batch, is claimed, or is
\* followed by the next one.
GoesOn(c, d, s, t) ==
    \/ /\ d.execution = c.execution /\ c.state # "queued" /\ d.state # "queued"
       /\ t.normalized = s.normalized
       /\ t.blocked = s.blocked \/ ~s.normalized
    \/ d.execution = c.execution /\ c.state = "queued" /\ t = no_stages
    \/ d.execution = c.execution + 1 /\ d.state = "queued"

LEMMA LocalStep ==
  ASSUME IndInv, NEW r \in Requests,
         NEW d \in Control, NEW t \in Stages, NEW m \in {idle} \cup Memory,
         request' = [request EXCEPT ![r] = d], stages' = [stages EXCEPT ![r] = t],
         run' = [run EXCEPT ![r] = m], lapsed' \in [Requests -> BOOLEAN],
         UNCHANGED <<given, batches>>,
         rows' \in [1..SharedRows -> Requests \cup {none}], open' \in [Requests -> SUBSET (0..SharedRows)],
         NoOrphanRows', \A q \in Requests : Opened(q)',
         Fits(given[r].kind, d, t, m), GoesOn(request[r], d, stages[r], t)
  PROVE  IndInv'
  <1>1. /\ request'[r] = d /\ stages'[r] = t /\ run'[r] = m
        /\ \A q \in Requests \ {r} : /\ request'[q] = request[q] /\ stages'[q] = stages[q]
                                     /\ run'[q] = run[q]
    BY DEF IndInv, TypeOK
  <1>2. request[r] \in Control /\ request[r].execution \in Nat /\ d.execution \in Nat
    BY Types, BoundsAssumption DEF Control
  <1>3. TypeOK'
    BY DEF IndInv, TypeOK, Control
  <1>4. RequestsFit'
    BY <1>1 DEF IndInv, RequestsFit
  <1>5. BatchesOwned'
    <2> SUFFICES ASSUME NEW b \in DOMAIN batches, b.request # none
                 PROVE  /\ b.request \in Requests /\ given[b.request].kind # "replay"
                        /\ b.execution <= request'[b.request].execution
                        /\ request'[b.request].state = "queued" => b.execution < request'[b.request].execution
      BY DEF BatchesOwned
    <2>1. /\ b.request \in Requests /\ given[b.request].kind # "replay"
          /\ b.execution <= request[b.request].execution
          /\ request[b.request].state = "queued" => b.execution < request[b.request].execution
      BY DEF IndInv, BatchesOwned
    <2>2. b.execution \in Nat
      BY BoundsAssumption DEF IndInv, TypeOK, BagToSet, Input
    <2>3. CASE b.request = r
      BY <1>1, <1>2, <2>1, <2>2, <2>3 DEF GoesOn
    <2>4. CASE b.request # r
      BY <1>1, <2>1, <2>4
    <2> QED
      BY <2>3, <2>4
  <1>6. ASSUME NEW b \in DOMAIN batches, b.request = r, b.execution = d.execution, d.state # "queued"
        PROVE  request[r].state # "queued" /\ request[r].execution = d.execution /\ given[r].kind # "replay"
    <2>1. r # none
      BY RequestsAssumption
    <2>2. given[r].kind # "replay" /\ b.execution <= request[r].execution
      BY <1>6, <2>1 DEF IndInv, BatchesOwned
    <2>3. request[r].state = "queued" => b.execution < request[r].execution
      BY <1>6, <2>1 DEF IndInv, BatchesOwned
    <2> QED
      BY <1>2, <1>6, <2>2, <2>3 DEF GoesOn
  <1>7. BatchWithStage'
    <2>1. \A b \in BagToSet(batches') : batches'[b] = 1
      BY DEF IndInv, BatchWithStage
    <2>2. ASSUME NEW q \in Requests, given'[q].kind # "replay", request'[q].state # "queued"
          PROVE  stages'[q].normalized <=> \E b \in BagToSet(batches') :
                                              b.request = q /\ b.execution = request'[q].execution
      <3>1. CASE q # r
        BY <1>1, <2>2, <3>1 DEF IndInv, BatchWithStage
      <3>2. CASE q = r /\ request[r].state # "queued"
        <4>1. d.execution = request[r].execution /\ t.normalized = stages[r].normalized
          BY <1>1, <1>2, <2>2, <3>2 DEF GoesOn
        <4> QED
          BY <1>1, <2>2, <3>2, <4>1 DEF IndInv, BatchWithStage
      <3>3. CASE q = r /\ request[r].state = "queued"
        <4>1. t = no_stages /\ ~t.normalized
          BY <1>1, <2>2, <3>3 DEF GoesOn, no_stages
        <4>2. ~ \E b \in BagToSet(batches') : b.request = q /\ b.execution = request'[q].execution
          BY <1>1, <1>6, <2>2, <3>3 DEF BagToSet
        <4> QED
          BY <1>1, <3>3, <4>1, <4>2
      <3> QED
        BY <3>1, <3>2, <3>3
    <2> QED
      BY <2>1, <2>2 DEF BatchWithStage
  <1>8. CompleteMeansWhole'
    <2> SUFFICES ASSUME NEW q \in Requests, NEW b \in BagToSet(batches),
                        b.request = q, b.execution = request'[q].execution, request'[q].state # "queued",
                        b.complete
                 PROVE  ~stages'[q].blocked
      BY DEF CompleteMeansWhole
    <2>1. CASE q # r
      BY <1>1, <2>1 DEF IndInv, CompleteMeansWhole
    <2>2. CASE q = r
      <3>1. request[r].state # "queued" /\ request[r].execution = d.execution /\ given[r].kind # "replay"
        BY <1>1, <1>6, <2>2 DEF BagToSet
      <3>2. stages[r].normalized /\ ~stages[r].blocked
        BY <1>1, <2>2, <3>1 DEF IndInv, BatchWithStage, CompleteMeansWhole
      <3>3. t.blocked = stages[r].blocked
        BY <1>1, <1>2, <2>2, <3>1, <3>2 DEF GoesOn
      <3> QED
        BY <1>1, <2>2, <3>2, <3>3
    <2> QED
      BY <2>1, <2>2
  <1> QED
    BY <1>3, <1>4, <1>5, <1>7, <1>8 DEF IndInv

\* The same outside a transaction.
LEMMA QuietStep ==
  ASSUME IndInv, NEW r \in Requests, open[r] = {},
         NEW d \in Control, NEW t \in Stages, NEW m \in {idle} \cup Memory,
         request' = [request EXCEPT ![r] = d], stages' = [stages EXCEPT ![r] = t],
         run' = [run EXCEPT ![r] = m], lapsed' \in [Requests -> BOOLEAN],
         UNCHANGED <<given, rows, open, batches>>,
         Fits(given[r].kind, d, t, m), GoesOn(request[r], d, stages[r], t)
  PROVE  IndInv'
  <1>1. NoOrphanRows'
    BY DEF IndInv, NoOrphanRows, in_transaction
  <1>2. \A q \in Requests \ {r} : run'[q] = run[q]
    BY DEF IndInv, TypeOK
  <1>3. \A q \in Requests : Opened(q)'
    BY <1>2 DEF IndInv, Opened
  <1>4. /\ rows' \in [1..SharedRows -> Requests \cup {none}]
        /\ open' \in [Requests -> SUBSET (0..SharedRows)]
    BY DEF IndInv, TypeOK
  <1> QED
    BY <1>1, <1>3, <1>4, LocalStep

\* What holds of a request at one of its places.
LEMMA AtPlace ==
  ASSUME IndInv, NEW r \in Requests, NEW key, at(r, key), key # "idle"
  PROVE  /\ run[r] \in Memory /\ run[r] # idle /\ run[r].at = key
         /\ request[r].state = "running" /\ request[r] \in Control /\ stages[r] \in Stages
         /\ Fits(given[r].kind, request[r], stages[r], run[r])
         /\ key # "publish" => open[r] = {}
         /\ request = [request EXCEPT ![r] = request[r]] /\ stages = [stages EXCEPT ![r] = stages[r]]
         /\ run = [run EXCEPT ![r] = run[r]] /\ lapsed \in [Requests -> BOOLEAN]
  <1>1. run[r] # idle /\ run[r].at = key
    BY DEF at
  <1>2. Fits(given[r].kind, request[r], stages[r], run[r]) /\ Opened(r)
    BY DEF IndInv, RequestsFit
  <1>3. run[r] \in Memory /\ request[r] \in Control /\ stages[r] \in Stages
    BY <1>1, Types
  <1>4. request[r].state = "running"
    BY <1>1, <1>2 DEF Fits
  <1>5. key # "publish" => open[r] = {}
    BY <1>1, <1>2 DEF Opened
  <1>6. /\ request = [request EXCEPT ![r] = request[r]] /\ stages = [stages EXCEPT ![r] = stages[r]]
        /\ run = [run EXCEPT ![r] = run[r]] /\ lapsed \in [Requests -> BOOLEAN]
    BY DEF IndInv, TypeOK
  <1> QED
    BY <1>1, <1>2, <1>3, <1>4, <1>5, <1>6

LEMMA Places == "idle" \notin StageKeys \cup Working /\ "publish" \notin StageKeys /\ none \notin StageKeys
  BY DEF StageKeys, SourceStages, Fetches, Working, none

\* The rows of a stage that ends.
LEMMA EndedStage ==
  ASSUME IndInv, NEW r \in Requests, NEW key \in StageKeys, NEW completed \in BOOLEAN
  PROVE  \E t \in Stages :
            /\ ended_stage(r, key, completed) = [stages EXCEPT ![r] = t]
            /\ t.running = none /\ t.normalized = stages[r].normalized
            /\ t.blocked <=> stages[r].blocked \/ (key \in SourceStages /\ ~completed)
  <1> DEFINE t == [running |-> none, blocked |-> stages[r].blocked \/ (key \in SourceStages /\ ~completed),
                   normalized |-> stages[r].normalized]
  <1>1. stages[r] \in Stages /\ stages \in [Requests -> Stages]
    BY DEF IndInv, TypeOK
  <1>2. t \in Stages
    BY <1>1 DEF Stages
  <1> DEFINE s == ended_stage(r, key, completed)
  <1>3. /\ s \in [Requests -> Stages] /\ \A q \in Requests \ {r} : s[q] = stages[q]
        /\ s[r].running = none /\ s[r].normalized = stages[r].normalized
        /\ s[r].blocked = (stages[r].blocked \/ (key \in SourceStages /\ ~completed))
    BY <1>1 DEF ended_stage, Stages, none
  <1>4. s[r] = t
    BY <1>2, <1>3 DEF Stages
  <1>5. s = [stages EXCEPT ![r] = t]
    BY <1>1, <1>2, <1>3, <1>4
  <1> QED
    BY <1>2, <1>5

\* A stage is closed: what was missed is a gap in the memory of a worker that
\* still may publish.
LEMMA CloseOK ==
  ASSUME IndInv, NEW r \in Requests, NEW key \in StageKeys, NEW completed \in BOOLEAN,
         NEW memory \in Memory, close(r, key, completed, memory),
         memory.at # "publish",
         memory.at \in Working =>
            key \in Working /\ (run[r].gap \/ (key \in SourceStages /\ ~completed) => memory.gap),
         bootstrap(r) => memory.at # "normalization"
  PROVE  IndInv'
  <1>1. at(r, key) /\ stages[r].running = key
    BY DEF close, in_stage
  <1>2. PICK t \in Stages :
            /\ stages' = [stages EXCEPT ![r] = t]
            /\ t.running = none /\ t.normalized = stages[r].normalized
            /\ t.blocked <=> stages[r].blocked \/ (key \in SourceStages /\ ~completed)
    BY EndedStage DEF close
  <1>3. /\ request[r] \in Control /\ request[r].state = "running" /\ open[r] = {}
        /\ run[r] # idle /\ run[r].at = key /\ request = [request EXCEPT ![r] = request[r]]
        /\ lapsed \in [Requests -> BOOLEAN] /\ Fits(given[r].kind, request[r], stages[r], run[r])
        /\ stages[r] \in Stages
    BY <1>1, AtPlace, Places
  <1>4. memory # idle => none \in running_at(memory.at)
    BY DEF running_at
  <1>5. Fits(given[r].kind, request[r], t, memory)
    BY <1>2, <1>3, <1>4 DEF Fits, bootstrap, Control
  <1>6. GoesOn(request[r], request[r], stages[r], t)
    <2>1. key \in SourceStages => ~stages[r].normalized
      BY <1>3 DEF Fits, Working
    <2>2. t.blocked \in BOOLEAN /\ stages[r].blocked \in BOOLEAN
      BY <1>2, <1>3 DEF Stages
    <2> QED
      BY <1>2, <1>3, <2>1, <2>2 DEF GoesOn
  <1>7. /\ request' = [request EXCEPT ![r] = request[r]] /\ run' = [run EXCEPT ![r] = memory]
        /\ lapsed' \in [Requests -> BOOLEAN] /\ UNCHANGED <<given, rows, open, batches>>
    BY <1>3 DEF close
  <1> QED
    BY <1>2, <1>3, <1>5, <1>6, <1>7, QuietStep

\* Only the memory changes.
LEMMA MemoryStep ==
  ASSUME IndInv, NEW r \in Requests, NEW key, at(r, key), key \notin {"idle", "publish"},
         NEW memory \in Memory, run' = [run EXCEPT ![r] = memory],
         UNCHANGED <<given, request, lapsed, stages, rows, open, batches>>,
         stages[r].running \in running_at(memory.at),
         memory.at \in Working => key \in Working /\ (run[r].gap => memory.gap),
         bootstrap(r) => memory.at \notin {"normalization", "publish"}
  PROVE  IndInv'
  <1>1. /\ request[r] \in Control /\ request[r].state = "running" /\ open[r] = {} /\ stages[r] \in Stages
        /\ run[r] # idle /\ run[r].at = key /\ request = [request EXCEPT ![r] = request[r]]
        /\ stages = [stages EXCEPT ![r] = stages[r]]
        /\ lapsed \in [Requests -> BOOLEAN] /\ Fits(given[r].kind, request[r], stages[r], run[r])
    BY AtPlace
  <1>2. Fits(given[r].kind, request[r], stages[r], memory)
    BY <1>1 DEF Fits, bootstrap
  <1>3. GoesOn(request[r], request[r], stages[r], stages[r])
    BY <1>1 DEF GoesOn
  <1> QED
    BY <1>1, <1>2, <1>3, QuietStep

\* An execution ends, from a place where no stage is running.
LEMMA EndedOK ==
  ASSUME IndInv, NEW r \in Requests, NEW key \in {"decide", "end"}, at(r, key), NEW d \in Control,
         ended(r, d), d.state # "running",
         \/ d.execution = request[r].execution /\ d.state # "queued"
         \/ d.execution = request[r].execution + 1 /\ d.state = "queued"
  PROVE  IndInv'
  <1>1. /\ request[r].state = "running" /\ open[r] = {} /\ stages[r] \in Stages
        /\ run[r] # idle /\ run[r].at = key /\ stages = [stages EXCEPT ![r] = stages[r]]
        /\ lapsed \in [Requests -> BOOLEAN] /\ Fits(given[r].kind, request[r], stages[r], run[r])
    BY AtPlace
  <1>2. stages[r].running = none
    BY <1>1 DEF Fits, running_at, StageKeys, SourceStages, Fetches
  <1>3. Fits(given[r].kind, d, stages[r], idle)
    BY <1>1, <1>2 DEF Fits
  <1>4. GoesOn(request[r], d, stages[r], stages[r])
    BY <1>1 DEF GoesOn
  <1>5. /\ request' = [request EXCEPT ![r] = d] /\ run' = [run EXCEPT ![r] = idle]
        /\ UNCHANGED <<given, lapsed, stages, rows, open, batches>>
    BY DEF ended
  <1>6. stages' = [stages EXCEPT ![r] = stages[r]] /\ lapsed' \in [Requests -> BOOLEAN]
    BY <1>1, <1>5
  <1> QED
    BY <1>1, <1>3, <1>4, <1>5, <1>6, QuietStep

\* The next execution, or none.
LEMMA ClosedControl ==
  ASSUME IndInv, NEW r \in Requests, request[r].state = "running"
  PROVE  /\ closed(request[r]) \in Control /\ closed(request[r]).state # "running"
         /\ \/ closed(request[r]).execution = request[r].execution /\ closed(request[r]).state # "queued"
            \/ closed(request[r]).execution = request[r].execution + 1 /\ closed(request[r]).state = "queued"
  <1>1. request[r] \in Control /\ MaxExecutions \in Nat
    BY Types
  <1>2. CASE request[r].execution < MaxExecutions
    BY <1>1, <1>2 DEF closed, Control
  <1>3. CASE ~(request[r].execution < MaxExecutions)
    BY <1>1, <1>3 DEF closed, Control, Terminal
  <1> QED
    BY <1>2, <1>3

-----------------------------------------------------------------------------
(* The steps outside a transaction.                                        *)

LEMMA ClaimOK ==
  ASSUME IndInv, NEW r \in Requests, Claim(r)
  PROVE  IndInv'
  <1> DEFINE d == [request[r] EXCEPT !.state = "running"]
             m == [at |-> "companyfacts", facts |-> FALSE, gap |-> FALSE,
                   deferred |-> FALSE, inventory |-> "unknown", sec |-> none]
  <1>1. request[r].state = "queued" /\ request[r] \in Control
    BY Types DEF Claim
  <1>2. Fits(given[r].kind, request[r], stages[r], run[r]) /\ Opened(r)
    BY DEF IndInv, RequestsFit
  <1>3. open[r] = {}
    BY <1>1, <1>2 DEF Fits, Opened
  <1>4. d \in Control /\ m \in Memory /\ no_stages \in Stages
    BY <1>1 DEF Control, Memory, StageKeys, SourceStages, Fetches, no_stages, Stages, none
  <1>5. Fits(given[r].kind, d, no_stages, m)
    BY <1>1 DEF Fits, running_at, StageKeys, SourceStages, Fetches, no_stages, Control
  <1>6. GoesOn(request[r], d, stages[r], no_stages)
    BY <1>1 DEF GoesOn, Control
  <1>7. /\ request' = [request EXCEPT ![r] = d] /\ stages' = [stages EXCEPT ![r] = no_stages]
        /\ run' = [run EXCEPT ![r] = m] /\ lapsed' \in [Requests -> BOOLEAN]
        /\ UNCHANGED <<given, rows, open, batches>>
    BY DEF Claim, IndInv, TypeOK
  <1> QED
    BY <1>3, <1>4, <1>5, <1>6, <1>7, QuietStep

LEMMA OpenStageOK ==
  ASSUME IndInv, NEW r \in Requests, OpenStage(r)
  PROVE  IndInv'
  <1> DEFINE key == run[r].at
             t == [stages[r] EXCEPT !.running = key]
  <1>1. key \in StageKeys /\ at(r, key) /\ key # "idle" /\ key # "publish"
    BY Places DEF OpenStage
  <1>2. /\ request[r] \in Control /\ request[r].state = "running" /\ open[r] = {} /\ stages[r] \in Stages
        /\ run[r] # idle /\ run[r] \in Memory /\ request = [request EXCEPT ![r] = request[r]]
        /\ run = [run EXCEPT ![r] = run[r]]
        /\ lapsed \in [Requests -> BOOLEAN] /\ Fits(given[r].kind, request[r], stages[r], run[r])
    BY <1>1, AtPlace
  <1>3. t \in Stages /\ t.running = key /\ t.normalized = stages[r].normalized /\ t.blocked = stages[r].blocked
    BY <1>1, <1>2 DEF Stages
  <1>4. Fits(given[r].kind, request[r], t, run[r])
    BY <1>1, <1>2, <1>3 DEF Fits, running_at
  <1>5. GoesOn(request[r], request[r], stages[r], t)
    BY <1>2, <1>3 DEF GoesOn
  <1>6. /\ request' = [request EXCEPT ![r] = request[r]] /\ stages' = [stages EXCEPT ![r] = t]
        /\ run' = [run EXCEPT ![r] = run[r]] /\ lapsed' \in [Requests -> BOOLEAN]
        /\ UNCHANGED <<given, rows, open, batches>>
    BY <1>2 DEF OpenStage, IndInv, TypeOK
  <1> QED
    BY <1>2, <1>3, <1>4, <1>5, <1>6, QuietStep

LEMMA FetchOK ==
  ASSUME IndInv, NEW r \in Requests, NEW key \in Fetches, NEW outcome \in {"usable", "gap", "later"},
         Fetch(r, key, outcome)
  PROVE  IndInv'
  <1> DEFINE next == after_fetch(r, key, outcome = "usable")
             m == [run[r] EXCEPT !.at = next,
                                 !.facts = @ \/ (key = "companyfacts" /\ outcome = "usable"),
                                 !.gap = @ \/ outcome # "usable",
                                 !.inventory = IF key = "history" /\ outcome # "usable"
                                               THEN "incomplete" ELSE @,
                                 !.deferred = @ \/ outcome = "later"]
  <1>1. close(r, key, outcome = "usable", m) /\ at(r, key) /\ key \in StageKeys /\ key \in SourceStages
    BY DEF Fetch, close, in_stage, StageKeys, SourceStages
  <1>2. run[r] \in Memory
    BY <1>1, AtPlace, Places
  <1>3. /\ next \in {"submissions", "parse", "documents", "inventory", "bootstrap_manifest", "decide"}
    BY DEF Fetches, after_fetch
  <1>4. m \in Memory /\ m.at = next /\ m.gap = (run[r].gap \/ outcome # "usable")
    <2>1. PICK a, f, g, i, l :
             /\ a = next /\ f = (run[r].facts \/ (key = "companyfacts" /\ outcome = "usable"))
             /\ g = (run[r].gap \/ outcome # "usable") /\ l = (run[r].deferred \/ outcome = "later")
             /\ i = IF key = "history" /\ outcome # "usable" THEN "incomplete" ELSE run[r].inventory
      OBVIOUS
    <2>2. f \in BOOLEAN /\ g \in BOOLEAN /\ l \in BOOLEAN
      BY <1>2, <2>1 DEF Memory
    <2>3. i \in {"unknown", "complete", "incomplete"}
      BY <1>2, <2>1 DEF Memory
    <2>4. a \in StageKeys \cup {"decide"}
      BY <1>3, <2>1 DEF StageKeys, SourceStages, Fetches
    <2>5. m = [run[r] EXCEPT !.at = a, !.facts = f, !.gap = g, !.inventory = i, !.deferred = l]
      BY <2>1
    <2> HIDE DEF m, next
    <2>6. m \in Memory /\ m.at = a /\ m.gap = g
      BY <1>2, <2>2, <2>3, <2>4, <2>5 DEF Memory
    <2> QED
      BY <2>1, <2>6
  <1>5. key \in Working
    BY <1>1 DEF Working
  <1>6. (outcome = "usable") \in BOOLEAN
    OBVIOUS
  <1> HIDE DEF m, next
  <1>7. m.at # "publish" /\ m.at # "normalization"
    BY <1>3, <1>4
  <1>8. run[r].gap \/ (key \in SourceStages /\ ~(outcome = "usable")) => m.gap
    BY <1>4
  <1> QED
    BY <1>1, <1>4, <1>5, <1>6, <1>7, <1>8, CloseOK

LEMMA ParseOK ==
  ASSUME IndInv, NEW r \in Requests, NEW valid \in BOOLEAN, Parse(r, valid)
  PROVE  IndInv'
  <1> DEFINE m == [run[r] EXCEPT !.at = IF valid THEN "history" ELSE "documents", !.gap = @ \/ ~valid]
  <1>1. close(r, "parse", valid, m) /\ at(r, "parse") /\ "parse" \in StageKeys /\ "parse" \in Working
    BY DEF Parse, close, in_stage, StageKeys, SourceStages, Working
  <1>2. run[r] \in Memory
    BY <1>1, AtPlace, Places
  <1>3. m \in Memory /\ m.at \in {"history", "documents"} /\ m.gap = (run[r].gap \/ ~valid)
    BY <1>2 DEF Memory, StageKeys, SourceStages, Fetches
  <1> HIDE DEF m
  <1> QED
    BY <1>1, <1>3, CloseOK

LEMMA InventoryOK ==
  ASSUME IndInv, NEW r \in Requests, NEW flagged \in BOOLEAN, Inventory(r, flagged)
  PROVE  IndInv'
  <1> DEFINE whole == ~flagged /\ run[r].inventory # "incomplete"
             m == [run[r] EXCEPT !.at = "documents", !.gap = @ \/ ~whole,
                                 !.inventory = IF whole THEN "complete" ELSE "incomplete"]
  <1>1. close(r, "inventory", whole, m) /\ at(r, "inventory") /\ "inventory" \in StageKeys /\ "inventory" \in Working
    BY DEF Inventory, close, in_stage, StageKeys, SourceStages, Working
  <1>2. run[r] \in Memory /\ whole \in BOOLEAN
    BY <1>1, AtPlace, Places
  <1>3. m \in Memory /\ m.at = "documents" /\ m.gap = (run[r].gap \/ ~whole)
    BY <1>2 DEF Memory, StageKeys, SourceStages, Fetches
  <1> HIDE DEF m, whole
  <1> QED
    BY <1>1, <1>2, <1>3, CloseOK

\* The manifest of a bootstrap, a blocked normalisation, a noted failure and
\* the valuation.
LEMMA ClosesOK ==
  ASSUME IndInv, NEW r \in Requests, Manifest(r) \/ Block(r) \/ NoteFailure(r) \/ Valuation(r)
  PROVE  IndInv'
  <1>1. /\ {"bootstrap_manifest", "normalization", "sec_sources", "valuation"} \subseteq StageKeys
        /\ {"bootstrap_manifest", "normalization", "sec_sources", "valuation"} \cap SourceStages = {}
        /\ {"market", "end"} \cap Working = {} /\ "bootstrap_manifest" \in Working
    BY DEF StageKeys, SourceStages, Fetches, Working
  <1>2. CASE Manifest(r)
    <2> DEFINE m == [run[r] EXCEPT !.at = "decide"]
    <2>1. close(r, "bootstrap_manifest", TRUE, m) /\ at(r, "bootstrap_manifest")
      BY <1>2 DEF Manifest, close, in_stage
    <2>2. run[r] \in Memory
      BY <1>1, <2>1, AtPlace, Places
    <2>3. m \in Memory /\ m.at = "decide" /\ m.gap = run[r].gap
      BY <2>2 DEF Memory
    <2> HIDE DEF m
    <2> QED
      BY <1>1, <2>1, <2>3, CloseOK
  <1>3. CASE Block(r)
    <2> DEFINE m == [run[r] EXCEPT !.at = IF finalize_execution(r) THEN "end" ELSE "market",
                                   !.sec = "waiting_for_input"]
    <2>1. close(r, "normalization", FALSE, m) /\ at(r, "normalization")
      BY <1>3 DEF Block, close, in_stage
    <2>2. run[r] \in Memory
      BY <1>1, <2>1, AtPlace, Places
    <2>3. m \in Memory /\ m.at \in {"end", "market"}
      BY <2>2 DEF Memory, Terminal
    <2> HIDE DEF m
    <2> QED
      BY <1>1, <2>1, <2>3, CloseOK
  <1>4. CASE NoteFailure(r)
    <2> DEFINE m == [run[r] EXCEPT !.at = "market"]
    <2>1. close(r, "sec_sources", FALSE, m) /\ at(r, "sec_sources")
      BY <1>4 DEF NoteFailure, close, in_stage
    <2>2. run[r] \in Memory
      BY <1>1, <2>1, AtPlace, Places
    <2>3. m \in Memory /\ m.at = "market"
      BY <2>2 DEF Memory
    <2> HIDE DEF m
    <2> QED
      BY <1>1, <2>1, <2>3, CloseOK
  <1>5. CASE Valuation(r)
    <2> DEFINE m == [run[r] EXCEPT !.at = "end"]
    <2>1. close(r, "valuation", FALSE, m) /\ at(r, "valuation")
      BY <1>5 DEF Valuation, close, in_stage
    <2>2. run[r] \in Memory
      BY <1>1, <2>1, AtPlace, Places
    <2>3. m \in Memory /\ m.at = "end"
      BY <2>2 DEF Memory
    <2> HIDE DEF m
    <2> QED
      BY <1>1, <2>1, <2>3, CloseOK
  <1> QED
    BY <1>2, <1>3, <1>4, <1>5

\* After an error nothing of this source is published any more.
LEMMA RaisedMemory ==
  ASSUME IndInv, NEW r \in Requests, run[r] \in Memory, NEW key, raised(r, key)
  PROVE  \E m \in Memory :
            /\ stages' = ended_stage(r, key, FALSE) /\ run' = [run EXCEPT ![r] = m]
            /\ m.at \in {"end", "sec_sources"} /\ m.at \notin Working
  <1> DEFINE m == [run[r] EXCEPT !.at = IF finalize_execution(r) THEN "end" ELSE "sec_sources",
                                 !.sec = "failed"]
  <1>1. m \in Memory /\ m.at \in {"end", "sec_sources"}
    BY DEF Memory, StageKeys, Terminal
  <1>2. m.at \notin Working
    BY <1>1 DEF Working, SourceStages, Fetches
  <1>3. stages' = ended_stage(r, key, FALSE) /\ run' = [run EXCEPT ![r] = m]
    BY DEF raised, IndInv, TypeOK
  <1> QED
    BY <1>1, <1>2, <1>3

LEMMA RaiseOK ==
  ASSUME IndInv, NEW r \in Requests, Raise(r)
  PROVE  IndInv'
  <1>1. PICK key \in SourceStages \cup {"bootstrap_manifest", "normalization"} :
           in_stage(r, key) /\ raised(r, key)
    BY DEF Raise
  <1>2. key \in StageKeys /\ at(r, key) /\ run[r] \in Memory
    BY <1>1, AtPlace, Places DEF in_stage, StageKeys
  <1>3. PICK m \in Memory :
            /\ stages' = ended_stage(r, key, FALSE) /\ run' = [run EXCEPT ![r] = m]
            /\ m.at \in {"end", "sec_sources"} /\ m.at \notin Working
    BY <1>1, <1>2, RaisedMemory
  <1>4. close(r, key, FALSE, m)
    BY <1>1, <1>3 DEF close, Raise
  <1> QED
    BY <1>2, <1>3, <1>4, CloseOK

LEMMA DecideOK ==
  ASSUME IndInv, NEW r \in Requests, Decide(r)
  PROVE  IndInv'
  <1>1. /\ run[r] \in Memory /\ request[r].state = "running" /\ request[r] \in Control
        /\ Fits(given[r].kind, request[r], stages[r], run[r]) /\ run[r] # idle /\ run[r].at = "decide"
        /\ at(r, "decide")
    BY AtPlace DEF Decide
  <1>2. stages[r].running = none /\ "decide" \in Working
    BY <1>1 DEF Fits, running_at, StageKeys, SourceStages, Fetches, Working
  <1>3. CASE ended(r, closed(request[r]))
    BY <1>1, <1>3, ClosedControl, EndedOK
  <1>4. CASE sec_result(r, none)
    <2> DEFINE m == [[run[r] EXCEPT !.at = "market"] EXCEPT !.sec = none]
    <2>1. m \in Memory /\ m.at = "market"
      BY <1>1 DEF Memory
    <2>2. run' = [run EXCEPT ![r] = m] /\ UNCHANGED <<given, request, lapsed, stages, rows, open, batches>>
      BY <1>4 DEF sec_result, IndInv, TypeOK
    <2>3. "market" \notin Working /\ running_at("market") = {none}
      BY DEF Working, running_at, StageKeys, SourceStages, Fetches
    <2> HIDE DEF m
    <2> QED
      BY <1>1, <1>2, <2>1, <2>2, <2>3, MemoryStep
  <1>5. CASE ended(r, [request[r] EXCEPT !.state = IF run[r].gap THEN "completed_with_gaps" ELSE "completed"])
    <2> DEFINE d == [request[r] EXCEPT !.state = IF run[r].gap THEN "completed_with_gaps" ELSE "completed"]
    <2>1. d \in Control /\ d.state \notin {"running", "queued"} /\ d.execution = request[r].execution
      BY <1>1 DEF Control, Terminal
    <2> QED
      BY <1>1, <1>5, <2>1, EndedOK
  <1>6. CASE /\ ~run[r].deferred /\ ~bootstrap(r)
             /\ run' = [run EXCEPT ![r].at = "normalization"]
             /\ UNCHANGED <<given, request, lapsed, stages, rows, open, batches>>
    <2> DEFINE m == [run[r] EXCEPT !.at = "normalization"]
    <2>1. m \in Memory /\ m.at = "normalization" /\ m.gap = run[r].gap
      BY <1>1 DEF Memory, StageKeys
    <2>2. run' = [run EXCEPT ![r] = m]
      BY <1>6
    <2>3. none \in running_at("normalization")
      BY DEF running_at
    <2> HIDE DEF m
    <2> QED
      BY <1>1, <1>2, <1>6, <2>1, <2>2, <2>3, MemoryStep
  <1> QED
    BY <1>3, <1>4, <1>5, <1>6 DEF Decide

LEMMA NormalizeOK ==
  ASSUME IndInv, NEW r \in Requests, Normalize(r)
  PROVE  IndInv'
  <1> DEFINE m == [run[r] EXCEPT !.at = "publish"]
  <1>1. at(r, "normalization") /\ stages[r].running = "normalization"
    BY DEF Normalize, in_stage
  <1>2. run[r] \in Memory /\ run[r] # idle /\ Fits(given[r].kind, request[r], stages[r], run[r])
        /\ run[r].at = "normalization"
    BY <1>1, AtPlace
  <1>3. m \in Memory /\ m.at = "publish" /\ m.gap = run[r].gap
    BY <1>2 DEF Memory
  <1>4. run' = [run EXCEPT ![r] = m] /\ UNCHANGED <<given, request, lapsed, stages, rows, open, batches>>
    BY DEF Normalize
  <1>5. ~bootstrap(r)
    BY <1>2 DEF Fits, bootstrap
  <1>6. running_at("publish") = {"normalization"} /\ "normalization" \in Working
    BY DEF running_at, Working
  <1> HIDE DEF m
  <1> QED
    BY <1>1, <1>3, <1>4, <1>5, <1>6, MemoryStep

LEMMA MarketOK ==
  ASSUME IndInv, NEW r \in Requests, NEW deferred \in BOOLEAN, Market(r, deferred)
  PROVE  IndInv'
  <1> DEFINE m == [run[r] EXCEPT !.deferred = @ \/ deferred,
                                 !.at = IF run[r].deferred \/ deferred THEN "end" ELSE "valuation"]
  <1>1. /\ at(r, "market") /\ run[r] \in Memory /\ run[r] # idle /\ run[r].at = "market"
        /\ Fits(given[r].kind, request[r], stages[r], run[r])
    BY AtPlace DEF Market
  <1>2. stages[r].running = none
    BY <1>1 DEF Fits, running_at, StageKeys, SourceStages, Fetches
  <1>3. m \in Memory /\ m.at \in {"end", "valuation"}
    BY <1>1 DEF Memory, StageKeys
  <1>4. run' = [run EXCEPT ![r] = m] /\ UNCHANGED <<given, request, lapsed, stages, rows, open, batches>>
    BY DEF Market, IndInv, TypeOK
  <1> HIDE DEF m
  <1>5. none \in running_at(m.at) /\ m.at \notin Working
    BY <1>3 DEF running_at, Working, SourceStages, Fetches
  <1> QED
    BY <1>1, <1>2, <1>3, <1>4, <1>5, MemoryStep

LEMMA EndOK ==
  ASSUME IndInv, NEW r \in Requests, End(r)
  PROVE  IndInv'
  <1>1. at(r, "end") /\ request[r].state = "running" /\ request[r] \in Control
    BY AtPlace DEF End
  <1>2. CASE run[r].deferred /\ ~finalize_execution(r)
    BY <1>1, <1>2, ClosedControl, EndedOK DEF End
  <1>3. CASE ~(run[r].deferred /\ ~finalize_execution(r))
    <2> DEFINE d == [request[r] EXCEPT !.state =
                 CASE run[r].sec = "waiting_for_input" -> "waiting_for_input"
                   [] run[r].sec = "failed" /\ finalize_execution(r) -> "failed"
                   [] OTHER -> "completed_with_gaps"]
    <2>1. d \in Control /\ d.state \notin {"running", "queued"} /\ d.execution = request[r].execution
      BY <1>1 DEF Control, Terminal
    <2>2. ended(r, d)
      BY <1>3 DEF End
    <2> QED
      BY <1>1, <2>1, <2>2, EndedOK
  <1> QED
    BY <1>2, <1>3

LEMMA LapseOK ==
  ASSUME IndInv, NEW r \in Requests, Lapse(r)
  PROVE  IndInv'
  <1>1. lapsed' \in [Requests -> BOOLEAN] /\ UNCHANGED <<given, request, stages, run, rows, open, batches>>
    BY DEF Lapse, IndInv, TypeOK
  <1>2. TypeOK' /\ BatchWithStage' /\ CompleteMeansWhole' /\ NoOrphanRows'
    BY <1>1 DEF IndInv, TypeOK, BatchWithStage, CompleteMeansWhole, NoOrphanRows, in_transaction
  <1>3. RequestsFit' /\ (\A q \in Requests : Opened(q)') /\ BatchesOwned'
    BY <1>1 DEF IndInv, RequestsFit, Opened, BatchesOwned
  <1> QED
    BY <1>2, <1>3 DEF IndInv

LEMMA RequeueOK ==
  ASSUME IndInv, NEW r \in Requests, Requeue(r)
  PROVE  IndInv'
  <1> DEFINE t == [stages[r] EXCEPT !.running = none]
             d == closed(request[r])
  <1>1. request[r].state = "running" /\ open[r] = {} /\ stages[r] \in Stages
    BY Types DEF Requeue, in_transaction
  <1>2. /\ d \in Control /\ d.state # "running"
        /\ \/ d.execution = request[r].execution /\ d.state # "queued"
           \/ d.execution = request[r].execution + 1 /\ d.state = "queued"
    BY <1>1, ClosedControl
  <1>3. t \in Stages /\ t.running = none /\ t.normalized = stages[r].normalized /\ t.blocked = stages[r].blocked
    BY <1>1 DEF Stages
  <1>4. Fits(given[r].kind, request[r], stages[r], run[r])
    BY DEF IndInv, RequestsFit
  <1>5. Fits(given[r].kind, d, t, idle)
    BY <1>2, <1>3, <1>4 DEF Fits
  <1>6. GoesOn(request[r], d, stages[r], t)
    BY <1>1, <1>2, <1>3 DEF GoesOn
  <1>7. /\ request' = [request EXCEPT ![r] = d] /\ stages' = [stages EXCEPT ![r] = t]
        /\ run' = [run EXCEPT ![r] = idle] /\ lapsed' \in [Requests -> BOOLEAN]
        /\ UNCHANGED <<given, rows, open, batches>>
    BY DEF Requeue, abandoned_stages, IndInv, TypeOK
  <1> QED
    BY <1>1, <1>2, <1>3, <1>5, <1>6, <1>7, QuietStep

-----------------------------------------------------------------------------
(* Publication.                                                            *)

LEMMA InTransaction ==
  ASSUME IndInv, NEW r \in Requests, in_transaction(r)
  PROVE  /\ run[r] \in Memory /\ run[r] # idle /\ run[r].at = "publish"
         /\ request[r].state = "running" /\ request[r] \in Control /\ stages[r] \in Stages
         /\ Fits(given[r].kind, request[r], stages[r], run[r])
         /\ stages[r].running = "normalization" /\ ~stages[r].normalized
         /\ stages[r].blocked => run[r].gap
  <1>1. run[r] # idle /\ run[r].at = "publish" /\ Fits(given[r].kind, request[r], stages[r], run[r])
    BY DEF IndInv, Opened, RequestsFit, in_transaction
  <1>2. run[r] \in Memory /\ request[r] \in Control /\ stages[r] \in Stages
    BY <1>1, Types
  <1>3. /\ request[r].state = "running" /\ stages[r].running = "normalization" /\ ~stages[r].normalized
        /\ stages[r].blocked => run[r].gap
    BY <1>1 DEF Fits, running_at, Working
  <1> QED
    BY <1>1, <1>2, <1>3

LEMMA Prefix ==
  ASSUME NEW n \in Nat
  PROVE  IsFiniteSet(0..n) /\ Cardinality(0..n) = n + 1
  BY FS_Interval

LEMMA BeginPublishOK ==
  ASSUME IndInv, NEW r \in Requests, BeginPublish(r)
  PROVE  IndInv'
  <1>1. /\ open[r] = {} /\ open' = [open EXCEPT ![r] = {0}]
        /\ UNCHANGED <<given, request, lapsed, stages, run, rows, batches>>
    BY Types DEF BeginPublish, in_transaction
  <1>2. run[r] # idle /\ run[r].at = "publish" /\ SharedRows \in Nat
    BY Types DEF BeginPublish, at
  <1>3. open'[r] = {0} /\ \A q \in Requests \ {r} : open'[q] = open[q]
    BY <1>1 DEF IndInv, TypeOK
  <1>4. TypeOK'
    BY <1>1, <1>2 DEF IndInv, TypeOK
  <1>5. BatchWithStage' /\ CompleteMeansWhole' /\ RequestsFit' /\ BatchesOwned'
    BY <1>1 DEF IndInv, BatchWithStage, CompleteMeansWhole, RequestsFit, BatchesOwned
  <1>6. \A q \in Requests : Opened(q)'
    <2>1. Opened(r)'
      <3>1. open'[r] = 0..0 /\ 0 \in 0..SharedRows
        BY <1>2, <1>3
      <3> QED
        BY <1>1, <1>2, <3>1 DEF Opened
    <2> QED
      BY <1>1, <1>3, <2>1 DEF IndInv, Opened
  <1>7. NoOrphanRows'
    <2> SUFFICES ASSUME NEW k \in 1..SharedRows, rows[k] # none
                 PROVE  \/ open'[rows[k]] # {} /\ k \in open'[rows[k]]
                        \/ \E b \in BagToSet(batches) : b.issuer = given[rows[k]].issuer
      BY <1>1 DEF NoOrphanRows, in_transaction
    <2>1. rows[k] \in Requests
      BY DEF IndInv, TypeOK
    <2>2. \/ in_transaction(rows[k]) /\ k \in open[rows[k]]
          \/ \E b \in BagToSet(batches) : b.issuer = given[rows[k]].issuer
      BY DEF IndInv, NoOrphanRows
    <2>3. CASE rows[k] = r
      BY <1>1, <2>2, <2>3 DEF in_transaction
    <2>4. CASE rows[k] # r
      BY <1>3, <2>1, <2>2, <2>4 DEF in_transaction
    <2> QED
      BY <2>3, <2>4
  <1> QED
    BY <1>4, <1>5, <1>6, <1>7 DEF IndInv

\* The next row comes after those a transaction has.
LEMMA NextRow ==
  ASSUME IndInv, NEW r \in Requests, in_transaction(r), ~identified(r)
  PROVE  /\ next_row(r) \in 1..SharedRows
         /\ open[r] \cup {next_row(r)} = 0..next_row(r)
         /\ open[r] = 0..(next_row(r) - 1)
  <1>1. PICK n \in 0..SharedRows : open[r] = 0..n
    BY DEF IndInv, Opened, in_transaction
  <1>2. SharedRows \in Nat /\ n \in Nat
    BY <1>1, Types
  <1>3. n # SharedRows
    BY <1>1 DEF identified
  <1>4. next_row(r) = n + 1
    BY <1>1, <1>2, Prefix DEF next_row, identity_order
  <1> QED
    BY <1>1, <1>2, <1>3, <1>4

LEMMA IdentifyOK ==
  ASSUME IndInv, NEW r \in Requests, Identify(r)
  PROVE  IndInv'
  <1> DEFINE n == next_row(r)
  <1>1. /\ in_transaction(r) /\ ~identified(r)
        /\ open' = [open EXCEPT ![r] = @ \cup {n}]
        /\ rows' = [rows EXCEPT ![n] = IF @ = none THEN r ELSE @]
        /\ UNCHANGED <<given, request, lapsed, stages, run, batches>>
    BY DEF Identify
  <1>2. n \in 1..SharedRows /\ open[r] \cup {n} = 0..n /\ SharedRows \in Nat
    BY <1>1, NextRow, Types
  <1> HIDE DEF n
  <1>3. /\ open'[r] = 0..n /\ open[r] \subseteq open'[r] /\ n \in open'[r]
        /\ \A q \in Requests \ {r} : open'[q] = open[q]
    BY <1>1, <1>2 DEF IndInv, TypeOK
  <1>4. TypeOK'
    BY <1>1, <1>2 DEF IndInv, TypeOK
  <1>5. BatchWithStage' /\ CompleteMeansWhole' /\ RequestsFit' /\ BatchesOwned'
    BY <1>1 DEF IndInv, BatchWithStage, CompleteMeansWhole, RequestsFit, BatchesOwned
  <1>6. \A q \in Requests : Opened(q)'
    <2>1. run[r] # idle /\ run[r].at = "publish" /\ n \in 0..SharedRows
      BY <1>1, <1>2, InTransaction
    <2>2. Opened(r)'
      BY <1>1, <1>3, <2>1 DEF Opened
    <2> QED
      BY <1>1, <1>3, <2>2 DEF IndInv, Opened
  <1>7. NoOrphanRows'
    <2> SUFFICES ASSUME NEW k \in 1..SharedRows, rows'[k] # none
                 PROVE  \/ rows'[k] = rows[k] /\ open'[rows[k]] # {} /\ k \in open'[rows[k]]
                        \/ rows'[k] = r /\ open'[r] # {} /\ k \in open'[r]
                        \/ rows'[k] = rows[k] /\ \E b \in BagToSet(batches) : b.issuer = given[rows[k]].issuer
      BY <1>1 DEF NoOrphanRows, in_transaction
    <2>1. CASE rows'[k] = rows[k]
      <3>1. rows[k] \in Requests
        BY <2>1 DEF IndInv, TypeOK
      <3>2. \/ in_transaction(rows[k]) /\ k \in open[rows[k]]
            \/ \E b \in BagToSet(batches) : b.issuer = given[rows[k]].issuer
        BY <2>1 DEF IndInv, NoOrphanRows
      <3>3. open[rows[k]] \subseteq open'[rows[k]]
        BY <1>3, <3>1
      <3> QED
        BY <2>1, <3>2, <3>3 DEF in_transaction
    <2>2. CASE rows'[k] # rows[k]
      <3>1. k = n /\ rows'[k] = r
        BY <1>1, <1>2, <2>2 DEF IndInv, TypeOK
      <3> QED
        BY <1>3, <3>1
    <2> QED
      BY <2>1, <2>2
  <1> QED
    BY <1>4, <1>5, <1>6, <1>7 DEF IndInv

\* A published batch is there once.
LEMMA WithBatch ==
  ASSUME IndInv, NEW r \in Requests, run[r] \in Memory, batches' = with_batch(r)
  PROVE  /\ pinned_input(r) \in Input /\ DOMAIN batches' = DOMAIN batches \cup {pinned_input(r)}
         /\ \A b \in DOMAIN batches' : batches'[b] = 1
         /\ IsABag(batches') /\ BagToSet(batches') \subseteq Input
  <1> DEFINE input == pinned_input(r)
  <1>1. input \in Input
    <2>1. given[r].issuer \in Issuers /\ request[r].execution \in 0..MaxExecutions /\ 0 \in 0..MaxExecutions
      BY Types
    <2>2. (~run[r].gap /\ run[r].inventory = "complete") \in BOOLEAN
      OBVIOUS
    <2> QED
      BY <2>1, <2>2 DEF pinned_input, Input
  <1>2. IsABag(batches) /\ BagToSet(batches) \subseteq Input /\ \A b \in DOMAIN batches : batches[b] = 1
    BY DEF IndInv, TypeOK, BatchWithStage, BagToSet
  <1> HIDE DEF input
  <1>3. CASE BagIn(input, batches)
    BY <1>1, <1>2, <1>3 DEF with_batch, BagIn, BagToSet, input
  <1>4. CASE ~BagIn(input, batches)
    <2>1. batches' = batches (+) SetToBag({input}) /\ input \notin DOMAIN batches
      BY <1>4 DEF with_batch, BagIn, BagToSet, input
    <2>2. DOMAIN batches' = DOMAIN batches \cup {input}
      BY <2>1 DEF SetToBag, (+)
    <2>3. batches'[input] = 1 /\ \A b \in DOMAIN batches : batches'[b] = batches[b]
      BY <1>2, <2>1 DEF IsABag, SetToBag, (+)
    <2>4. IsABag(batches')
      BY <1>2, <2>1, <2>2, <2>3 DEF IsABag, SetToBag, (+)
    <2> QED
      BY <1>1, <1>2, <2>2, <2>3, <2>4 DEF BagToSet, input
  <1> QED
    BY <1>3, <1>4

\* Nothing was published of an execution that still may publish.
LEMMA NothingYet ==
  ASSUME IndInv, NEW r \in Requests, in_transaction(r), given[r].kind # "replay"
  PROVE  ~ \E b \in DOMAIN batches : b.request = r /\ b.execution = request[r].execution
  <1>1. request[r].state # "queued" /\ ~stages[r].normalized
    BY InTransaction
  <1> QED
    BY <1>1 DEF IndInv, BatchWithStage, BagToSet

LEMMA CommitPublishOK ==
  ASSUME IndInv, NEW r \in Requests, CommitPublish(r)
  PROVE  IndInv'
  <1> DEFINE m == [run[r] EXCEPT !.at = IF finalize_execution(r) THEN "valuation" ELSE "market",
                                 !.sec = "completed_with_gaps"]
             t == [stages[r] EXCEPT !.running = none, !.normalized = TRUE]
             input == pinned_input(r)
  <1>1. /\ in_transaction(r) /\ batches' = with_batch(r) /\ stages' = completed_stage(r)
        /\ open' = [open EXCEPT ![r] = {}] /\ run' = [run EXCEPT ![r] = m]
        /\ UNCHANGED <<given, request, lapsed, rows>>
    BY DEF CommitPublish
  <1>2. /\ run[r] \in Memory /\ run[r] # idle /\ run[r].at = "publish"
        /\ request[r].state = "running" /\ request[r] \in Control /\ stages[r] \in Stages
        /\ Fits(given[r].kind, request[r], stages[r], run[r])
        /\ stages[r].running = "normalization" /\ ~stages[r].normalized
        /\ stages[r].blocked => run[r].gap
    BY <1>1, InTransaction
  <1>3. /\ input \in Input /\ DOMAIN batches' = DOMAIN batches \cup {input}
        /\ \A b \in DOMAIN batches' : batches'[b] = 1
        /\ IsABag(batches') /\ BagToSet(batches') \subseteq Input
    BY <1>1, <1>2, WithBatch
  <1>4. /\ input.issuer = given[r].issuer /\ input.request = (IF given[r].kind = "replay" THEN none ELSE r)
        /\ given[r].kind # "replay" => input.execution = request[r].execution
        /\ input.complete => ~run[r].gap
    BY DEF pinned_input
  <1>5. m \in Memory /\ m.at \in {"valuation", "market"} /\ m # idle
    BY <1>2 DEF Memory, StageKeys, Terminal, idle
  <1>6. t \in Stages /\ t.running = none /\ t.normalized /\ t.blocked = stages[r].blocked
    BY <1>2 DEF Stages, none
  <1>7. stages' = [stages EXCEPT ![r] = t]
    BY <1>1, <1>2 DEF completed_stage, IndInv, TypeOK, Stages
  <1> HIDE DEF m, t, input
  <1>8. /\ stages'[r] = t /\ run'[r] = m /\ open'[r] = {}
        /\ \A q \in Requests \ {r} : stages'[q] = stages[q] /\ run'[q] = run[q] /\ open'[q] = open[q]
    BY <1>1, <1>7 DEF IndInv, TypeOK
  <1>9. TypeOK'
    BY <1>1, <1>3, <1>5, <1>6, <1>7 DEF IndInv, TypeOK
  <1>10. BatchWithStage'
    <2>1. \A b \in BagToSet(batches') : batches'[b] = 1
      BY <1>3 DEF BagToSet
    <2>2. ASSUME NEW q \in Requests, given[q].kind # "replay", request[q].state # "queued"
          PROVE  stages'[q].normalized <=> \E b \in BagToSet(batches') :
                                              b.request = q /\ b.execution = request[q].execution
      <3>1. stages[q].normalized <=> \E b \in DOMAIN batches : b.request = q /\ b.execution = request[q].execution
        BY <2>2 DEF IndInv, BatchWithStage, BagToSet
      <3>2. CASE q = r
        <4>1. input.request = q /\ input.execution = request[q].execution /\ input \in DOMAIN batches'
          BY <1>3, <1>4, <2>2, <3>2
        <4> QED
          BY <1>6, <1>8, <3>2, <4>1 DEF BagToSet
      <3>3. CASE q # r
        <4>1. input.request # q
          BY <1>4, <3>3, RequestsAssumption
        <4> QED
          BY <1>3, <1>8, <3>1, <3>3, <4>1 DEF BagToSet
      <3> QED
        BY <3>2, <3>3
    <2> QED
      BY <1>1, <2>1, <2>2 DEF BatchWithStage
  <1>11. CompleteMeansWhole'
    <2> SUFFICES ASSUME NEW q \in Requests, NEW b \in DOMAIN batches',
                        b.request = q, b.execution = request[q].execution, request[q].state # "queued",
                        b.complete
                 PROVE  ~stages'[q].blocked
      BY <1>1 DEF CompleteMeansWhole, BagToSet
    <2>1. CASE b = input
      <3>1. q = r
        BY <1>4, <2>1, RequestsAssumption
      <3> QED
        BY <1>2, <1>4, <1>6, <1>8, <2>1, <3>1
    <2>2. CASE b # input
      <3>1. b \in DOMAIN batches
        BY <1>3, <2>2
      <3>2. ~stages[q].blocked
        BY <3>1 DEF IndInv, CompleteMeansWhole, BagToSet
      <3> QED
        BY <1>6, <1>8, <3>2
    <2> QED
      BY <2>1, <2>2
  <1>12. BatchesOwned'
    <2>1. input.request # none =>
             /\ input.request \in Requests /\ given[input.request].kind # "replay"
             /\ input.execution <= request[input.request].execution
             /\ request[input.request].state # "queued"
      BY <1>2, <1>4, BoundsAssumption DEF Control
    <2> QED
      BY <1>1, <1>3, <2>1 DEF IndInv, BatchesOwned
  <1>13. NoOrphanRows'
    <2> SUFFICES ASSUME NEW k \in 1..SharedRows, rows[k] # none
                 PROVE  \/ open'[rows[k]] # {} /\ k \in open'[rows[k]]
                        \/ \E b \in BagToSet(batches') : b.issuer = given[rows[k]].issuer
      BY <1>1 DEF NoOrphanRows, in_transaction
    <2>1. rows[k] \in Requests
      BY DEF IndInv, TypeOK
    <2>2. \/ in_transaction(rows[k]) /\ k \in open[rows[k]]
          \/ \E b \in BagToSet(batches) : b.issuer = given[rows[k]].issuer
      BY DEF IndInv, NoOrphanRows
    <2>3. CASE rows[k] = r
      BY <1>3, <1>4, <2>3 DEF BagToSet
    <2>4. CASE rows[k] # r
      BY <1>3, <1>8, <2>1, <2>2, <2>4 DEF in_transaction, BagToSet
    <2> QED
      BY <2>3, <2>4
  <1>14. RequestsFit'
    <2>1. none \in running_at(m.at) /\ m.at \notin Working
      BY <1>5 DEF running_at, Working, SourceStages, Fetches
    <2>2. given[r].kind # "bootstrap"
      BY <1>2 DEF Fits
    <2>3. Fits(given[r].kind, request[r], t, m)
      BY <1>2, <1>5, <1>6, <2>1, <2>2 DEF Fits
    <2> QED
      BY <1>1, <1>8, <2>3 DEF IndInv, RequestsFit
  <1>15. \A q \in Requests : Opened(q)'
    BY <1>8 DEF IndInv, Opened
  <1> QED
    BY <1>9, <1>10, <1>11, <1>12, <1>13, <1>14, <1>15 DEF IndInv

\* What a rolled back transaction leaves.
LEMMA RowsFreed ==
  ASSUME IndInv, NEW r \in Requests, open' = [open EXCEPT ![r] = {}], rows' = rolled_back(r),
         UNCHANGED <<given, batches>>, NEW m, run' = [run EXCEPT ![r] = m]
  PROVE  /\ rows' \in [1..SharedRows -> Requests \cup {none}] /\ open' \in [Requests -> SUBSET (0..SharedRows)]
         /\ NoOrphanRows' /\ \A q \in Requests : Opened(q)'
  <1>1. rows' \in [1..SharedRows -> Requests \cup {none}] /\ open' \in [Requests -> SUBSET (0..SharedRows)]
    BY DEF rolled_back, IndInv, TypeOK
  <1>2. open'[r] = {} /\ \A q \in Requests \ {r} : open'[q] = open[q] /\ run'[q] = run[q]
    BY DEF IndInv, TypeOK
  <1>3. NoOrphanRows'
    <2> SUFFICES ASSUME NEW k \in 1..SharedRows, rows'[k] # none
                 PROVE  \/ open'[rows'[k]] # {} /\ k \in open'[rows'[k]]
                        \/ \E b \in BagToSet(batches) : b.issuer = given[rows'[k]].issuer
      BY DEF NoOrphanRows, in_transaction
    <2>1. rows'[k] = rows[k] /\ rows[k] \in Requests /\ ~(rows[k] = r /\ k \in open[r])
      BY DEF rolled_back, IndInv, TypeOK
    <2>2. \/ in_transaction(rows[k]) /\ k \in open[rows[k]]
          \/ \E b \in BagToSet(batches) : b.issuer = given[rows[k]].issuer
      BY <2>1 DEF IndInv, NoOrphanRows
    <2> QED
      BY <1>2, <2>1, <2>2 DEF in_transaction
  <1>4. \A q \in Requests : Opened(q)'
    BY <1>2 DEF IndInv, Opened
  <1> QED
    BY <1>1, <1>3, <1>4

LEMMA ConflictOK ==
  ASSUME IndInv, NEW r \in Requests, Conflict(r)
  PROVE  IndInv'
  <1>1. /\ in_transaction(r) /\ open' = [open EXCEPT ![r] = {}] /\ rows' = rolled_back(r)
        /\ raised(r, "normalization") /\ UNCHANGED <<given, request, lapsed, batches>>
    BY DEF Conflict
  <1>2. /\ run[r] \in Memory /\ run[r] # idle /\ request[r].state = "running" /\ request[r] \in Control
        /\ stages[r] \in Stages /\ Fits(given[r].kind, request[r], stages[r], run[r])
    BY <1>1, InTransaction
  <1>3. PICK m \in Memory :
            /\ stages' = ended_stage(r, "normalization", FALSE) /\ run' = [run EXCEPT ![r] = m]
            /\ m.at \in {"end", "sec_sources"} /\ m.at \notin Working
    BY <1>1, <1>2, RaisedMemory
  <1>4. "normalization" \in StageKeys /\ "normalization" \notin SourceStages
    BY DEF StageKeys, SourceStages, Fetches
  <1>5. PICK t \in Stages :
            /\ stages' = [stages EXCEPT ![r] = t]
            /\ t.running = none /\ t.normalized = stages[r].normalized
            /\ t.blocked <=> stages[r].blocked
    BY <1>3, <1>4, EndedStage
  <1>6. none \in running_at(m.at) /\ m.at \notin {"normalization", "publish"}
    BY <1>3 DEF running_at
  <1>7. Fits(given[r].kind, request[r], t, m)
    BY <1>2, <1>3, <1>5, <1>6 DEF Fits
  <1>8. t.blocked = stages[r].blocked
    BY <1>2, <1>5 DEF Stages
  <1>9. GoesOn(request[r], request[r], stages[r], t)
    BY <1>2, <1>5, <1>8 DEF GoesOn
  <1>10. /\ rows' \in [1..SharedRows -> Requests \cup {none}] /\ open' \in [Requests -> SUBSET (0..SharedRows)]
         /\ NoOrphanRows' /\ \A q \in Requests : Opened(q)'
    BY <1>1, <1>3, RowsFreed
  <1>11. request' = [request EXCEPT ![r] = request[r]] /\ lapsed' \in [Requests -> BOOLEAN]
    BY <1>1 DEF IndInv, TypeOK
  <1> QED
    BY <1>1, <1>2, <1>3, <1>5, <1>7, <1>9, <1>10, <1>11, LocalStep

LEMMA RollbackOK ==
  ASSUME IndInv, NEW r \in Requests, Rollback(r)
  PROVE  IndInv'
  <1>1. /\ in_transaction(r) /\ open' = [open EXCEPT ![r] = {}] /\ rows' = rolled_back(r)
        /\ run' = [run EXCEPT ![r] = idle] /\ UNCHANGED <<given, request, lapsed, stages, batches>>
    BY DEF Rollback
  <1>2. /\ request[r].state = "running" /\ request[r] \in Control
        /\ stages[r] \in Stages /\ Fits(given[r].kind, request[r], stages[r], run[r])
    BY <1>1, InTransaction
  <1>3. Fits(given[r].kind, request[r], stages[r], idle)
    BY <1>2 DEF Fits
  <1>4. GoesOn(request[r], request[r], stages[r], stages[r])
    BY <1>2 DEF GoesOn
  <1>5. /\ rows' \in [1..SharedRows -> Requests \cup {none}] /\ open' \in [Requests -> SUBSET (0..SharedRows)]
        /\ NoOrphanRows' /\ \A q \in Requests : Opened(q)'
    BY <1>1, RowsFreed
  <1>6. /\ request' = [request EXCEPT ![r] = request[r]] /\ stages' = [stages EXCEPT ![r] = stages[r]]
        /\ lapsed' \in [Requests -> BOOLEAN]
    BY <1>1 DEF IndInv, TypeOK
  <1> QED
    BY <1>1, <1>2, <1>3, <1>4, <1>5, <1>6, LocalStep

-----------------------------------------------------------------------------
LEMMA NextOK == IndInv /\ [Next]_vars => IndInv'
  <1> SUFFICES ASSUME IndInv, [Next]_vars PROVE IndInv'
    OBVIOUS
  <1>1. CASE UNCHANGED vars
    <2>1. TypeOK' /\ BatchWithStage' /\ CompleteMeansWhole' /\ NoOrphanRows'
      BY <1>1 DEF vars, IndInv, TypeOK, BatchWithStage, CompleteMeansWhole, NoOrphanRows, in_transaction
    <2>2. RequestsFit' /\ (\A q \in Requests : Opened(q)') /\ BatchesOwned'
      BY <1>1 DEF vars, IndInv, RequestsFit, Opened, BatchesOwned
    <2> QED
      BY <2>1, <2>2 DEF IndInv
  <1>2. ASSUME NEW r \in Requests, Work(r) PROVE IndInv'
    <2>1. CASE Claim(r) \/ OpenStage(r)
      BY <2>1, ClaimOK, OpenStageOK
    <2>2. CASE \E key \in Fetches, outcome \in {"usable", "gap", "later"} : Fetch(r, key, outcome)
      BY <2>2, FetchOK
    <2>3. CASE \E b \in BOOLEAN : Parse(r, b) \/ Inventory(r, b) \/ Market(r, b)
      BY <2>3, ParseOK, InventoryOK, MarketOK
    <2>4. CASE Manifest(r) \/ Block(r) \/ NoteFailure(r) \/ Valuation(r)
      BY <2>4, ClosesOK
    <2>5. CASE Decide(r) \/ Normalize(r) \/ Raise(r) \/ End(r)
      BY <2>5, DecideOK, NormalizeOK, RaiseOK, EndOK
    <2>6. CASE BeginPublish(r) \/ Identify(r) \/ CommitPublish(r)
      BY <2>6, BeginPublishOK, IdentifyOK, CommitPublishOK
    <2>7. CASE Conflict(r) \/ Rollback(r) \/ Requeue(r)
      BY <2>7, ConflictOK, RollbackOK, RequeueOK
    <2> QED
      BY <1>2, <2>1, <2>2, <2>3, <2>4, <2>5, <2>6, <2>7 DEF Work
  <1> QED
    BY <1>1, <1>2, LapseOK DEF Next

\* The inductive invariant holds in every reachable state.
THEOREM Invariance == Spec => []IndInv
  BY InitOK, NextOK, PTL DEF Spec

\* A batch, its rows and the stage that made it stand or fall together: across
\* crashes, replays and concurrent publications there is one batch of equal
\* input, it claims complete history only if nothing was missed, and neither a
\* rolled back transaction nor an ended execution leaves anything behind
\* (publisher.py, pipeline.py).
THEOREM WholeBatches == Spec => []BatchesWhole
  <1>1. IndInv => BatchesWhole
    <2> SUFFICES ASSUME IndInv PROVE NothingLeftRunning
      BY DEF IndInv, BatchesWhole
    <2> QED
      BY DEF IndInv, RequestsFit, Fits, NothingLeftRunning, bootstrap
  <1> QED
    BY <1>1, Invariance, PTL

-----------------------------------------------------------------------------
\* How many rows a request has; one that waits has fewer than the one it waits
\* for.
rank(r) == Cardinality(open[r])

LEMMA RankType ==
  ASSUME IndInv, NEW r \in Requests
  PROVE  rank(r) \in 0..(SharedRows + 1) /\ (in_transaction(r) => rank(r) > 0)
  <1>1. SharedRows \in Nat /\ open[r] \in SUBSET (0..SharedRows)
    BY Types
  <1>2. CASE open[r] = {}
    BY <1>1, <1>2, FS_EmptySet DEF rank, in_transaction
  <1>3. CASE open[r] # {}
    <2>1. PICK n \in 0..SharedRows : open[r] = 0..n
      BY <1>3 DEF IndInv, Opened
    <2>2. rank(r) = n + 1
      BY <2>1, Prefix DEF rank
    <2> QED
      BY <1>1, <2>2
  <1> QED
    BY <1>2, <1>3

LEMMA WaitsForFurther ==
  ASSUME IndInv, NEW r \in Requests, NEW q \in Requests, waits_for(r, q)
  PROVE  rank(q) > rank(r)
  <1>1. rank(q) \in Nat /\ rank(q) > 0 /\ rank(r) \in Nat /\ SharedRows \in Nat
    BY RankType, Types DEF waits_for
  <1>2. CASE ~in_transaction(r)
    <2>1. rank(r) = 0
      BY <1>2, FS_EmptySet DEF rank, in_transaction
    <2> QED
      BY <1>1, <2>1
  <1>3. CASE in_transaction(r)
    <2>1. ~identified(r) /\ q \in holder(next_row(r)) /\ in_transaction(q)
      BY <1>3 DEF waits_for
    <2>2. next_row(r) \in 1..SharedRows /\ next_row(r) = rank(r)
      BY <1>3, <2>1, NextRow DEF next_row, identity_order, rank
    <2>3. next_row(r) \in open[q]
      BY <2>1 DEF holder
    <2>4. PICK n \in 0..SharedRows : open[q] = 0..n
      BY <2>1 DEF IndInv, Opened, in_transaction
    <2>5. rank(q) = n + 1
      BY <2>4, Prefix DEF rank
    <2> QED
      BY <1>1, <2>2, <2>3, <2>4, <2>5
  <1> QED
    BY <1>2, <1>3

\* Every set of naturals but the empty one has a least element.
LEMMA Least ==
  ASSUME NEW S, S \subseteq Nat, S # {}
  PROVE  \E n \in S : \A m \in S : ~(m < n)
  <1> DEFINE less == {p \in Nat \X Nat : p[1] < p[2]}
  <1>1. IsWellFoundedOn(less, Nat)
    BY NatLessThanWellFounded DEF OpToRel
  <1>2. \A p \in Nat \X Nat : p \in less <=> p[1] < p[2]
    OBVIOUS
  <1> HIDE DEF less
  <1>3. PICK n \in S : \A m \in S : ~(<<m, n>> \in less)
    BY <1>1, WFMin
  <1> QED
    BY <1>2, <1>3

LEMMA NoCircle == IndInv => NoCircularWait
  <1> SUFFICES ASSUME IndInv, NEW Q \in SUBSET Requests, Q # {}
               PROVE  \E r \in Q : \A q \in Q : ~waits_for(r, q)
    BY DEF NoCircularWait
  <1> DEFINE left(r) == (SharedRows + 1) - rank(r)
             below == {left(r) : r \in Q}
  <1>1. \A r \in Q : rank(r) \in 0..(SharedRows + 1)
    BY RankType
  <1>2. SharedRows \in Nat
    BY BoundsAssumption
  <1>3. below \subseteq Nat /\ below # {}
    BY <1>1, <1>2
  <1>4. PICK n \in below : \A m \in below : ~(m < n)
    BY <1>3, Least
  <1>5. PICK r \in Q : n = left(r)
    BY <1>4
  <1>6. \A q \in Q : ~(left(q) < left(r))
    BY <1>4, <1>5
  <1>7. \A q \in Q : ~(rank(q) > rank(r))
    BY <1>1, <1>2, <1>6
  <1> QED
    BY <1>7, WaitsForFurther

\* Publications never wait for one another in a circle: each takes the issuer's
\* lock first and the shared rows in the order of their ids (publish_bundle),
\* for any number of them at once.
THEOREM NoDeadlock == Spec => []NoCircularWait
  BY Invariance, NoCircle, PTL
=============================================================================
