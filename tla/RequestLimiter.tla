--------------------------- MODULE RequestLimiter ---------------------------
(***************************************************************************)
(* The dispatch budget all workers share: one Redis hash and one sorted    *)
(* set of recent starts, moved by three Lua scripts.  A script is atomic   *)
(* and reads the Redis clock, but the call is not: it is in flight until   *)
(* the server runs it, and a worker whose socket times out stops waiting   *)
(* while the call may still run later.  Redis may lose either key.         *)
(*                                                                         *)
(* Time is counted in ticks of the Redis clock; Second is one second, and  *)
(* a worker's rate is given as the interval 1/rate it keeps.               *)
(***************************************************************************)
EXTENDS Integers, FiniteSets

CONSTANTS
    Workers,            \* processes that share the limiter
    Interval,           \* 1/rate, per worker
    Second,             \* 1 second
    Grace,              \* how long a grant may be confirmed: 0.05 seconds
    MaxStarts,          \* most starts kept in the sorted set: 10
    Delays,             \* the cooldowns servers ask for
    Losses,             \* the sets of keys Redis may lose at once
    MaxCalls,           \* bound: calls made by each worker
    MaxTime             \* bound: the last instant

ASSUME LimiterAssumption ==
    /\ Second \in Nat \ {0} /\ Grace \in Nat
    /\ Interval \in [Workers -> 1..Second]
    /\ MaxStarts \in Nat /\ \A w \in Workers : MaxStarts * Interval[w] >= Second
    /\ Delays \subseteq Nat \ {0}
    /\ Losses \subseteq SUBSET {"rate", "starts"}
    /\ MaxCalls \in [Workers -> Nat] /\ MaxTime \in Nat /\ MaxTime >= Second

VARIABLES
    now,                \* the Redis clock
    hash,               \* key "rate"
    starts,             \* key "starts": members with their scores
    calls,              \* scripts in flight
    worker,             \* what each worker is waiting for, and its last call
    started,            \* every dispatch confirmed so far
    cooled,             \* the latest instant a cooldown was promised to last to
    lost                \* when the hash was last lost

limiter_vars == <<now, hash, starts, calls, worker, started, cooled, lost>>

Tokens == UNION {{w} \X (1..MaxCalls[w]) : w \in Workers}
NoToken == <<>>

Hash == [interval : 1..Second, blocked : Nat, last : Nat, pending : Tokens \cup {NoToken},
         expires : Nat]
NoHash == [interval |-> 0]
Start == [token : Tokens, at : Nat]
Call == [script : {"reserve", "confirm", "cooldown"}, token : Tokens, delay : Delays \cup {0}]

\* The Redis clock counts from long before the first use.
LimiterInit ==
    /\ now = Second
    /\ hash = NoHash
    /\ starts = {}
    /\ calls = {}
    /\ worker = [w \in Workers |-> [waits |-> "idle", call |-> 0]]
    /\ started = {}
    /\ cooled = 0 /\ lost = Second

later(s, t) == IF s > t THEN s ELSE t

token(w) == <<w, worker[w].call>>

(***************************************************************************)
(* The scripts: what each makes of the hash and the sorted set, and what   *)
(* it answers.                                                             *)
(***************************************************************************)
reserved_hash_at_once(w) == \* seeded fault: no quiet period
    IF hash # NoHash THEN hash
    ELSE [interval |-> Interval[w], blocked |-> now, last |-> 0,
          pending |-> NoToken, expires |-> 0]

reserved_hash(w) ==
    IF hash # NoHash THEN hash
    ELSE [interval |-> Interval[w], blocked |-> now + Second, last |-> 0,
          pending |-> NoToken, expires |-> 0]

ready_ignoring_grant(h) == later(h.blocked, h.last) \* seeded fault: no distance kept
ready(h) == later(h.blocked, later(h.last + h.interval, h.expires))

RESERVE(t) ==
    LET h == reserved_hash(t[1])
    IN  IF h.interval # Interval[t[1]] THEN [hash |-> hash, starts |-> starts, answer |-> "disagree"]
        ELSE IF ready(h) > now THEN [hash |-> h, starts |-> starts, answer |-> "refused"]
        ELSE [hash |-> [h EXCEPT !.pending = t, !.expires = now + Grace], starts |-> starts,
              answer |-> "granted"]

released(h) == [h EXCEPT !.pending = NoToken, !.expires = 0]

recent == {s \in starts : s.at > now - Second}

CONFIRM(t) ==
    IF hash = NoHash \/ hash.pending # t
    THEN [hash |-> hash, starts |-> starts, answer |-> "refused"]
    ELSE IF hash.expires < now
    THEN [hash |-> released(hash), starts |-> starts, answer |-> "refused"]
    ELSE IF hash.blocked > now
    THEN [hash |-> hash, starts |-> starts, answer |-> "refused"]
    ELSE IF Cardinality(recent) >= MaxStarts
    THEN [hash |-> hash, starts |-> recent, answer |-> "refused"]
    ELSE [hash |-> [released(hash) EXCEPT !.last = now],
          starts |-> recent \cup {[token |-> t, at |-> now]}, answer |-> "confirmed"]

blocked_until_latest(delay) == now + delay \* seeded fault: a short cooldown ends a long one
blocked_until(delay) == later(now + delay, IF hash = NoHash THEN 0 ELSE hash.blocked)

cooled_hash(w) ==
    IF hash # NoHash THEN hash
    ELSE [interval |-> Interval[w], blocked |-> 0, last |-> 0, pending |-> NoToken, expires |-> 0]

COOLDOWN(t, delay) ==
    [hash |-> [released(cooled_hash(t[1])) EXCEPT !.blocked = blocked_until(delay)],
     starts |-> starts, answer |-> "cooled"]

effect(c) ==
    CASE c.script = "reserve"  -> RESERVE(c.token)
      [] c.script = "confirm"  -> CONFIRM(c.token)
      [] c.script = "cooldown" -> COOLDOWN(c.token, c.delay)

(***************************************************************************)
(* A worker makes one call at a time, each under a new token, except that  *)
(* confirm carries the token of the grant.                                 *)
(***************************************************************************)
acquire(w) ==
    /\ worker[w].waits = "idle" /\ worker[w].call < MaxCalls[w]
    /\ worker' = [worker EXCEPT ![w] = [waits |-> "reserve", call |-> @.call + 1]]
    /\ calls' = calls \cup {[script |-> "reserve", token |-> <<w, worker[w].call + 1>>, delay |-> 0]}
    /\ UNCHANGED <<now, hash, starts, started, cooled, lost>>

confirm(w) ==
    /\ worker[w].waits = "granted"
    /\ worker' = [worker EXCEPT ![w].waits = "confirm"]
    /\ calls' = calls \cup {[script |-> "confirm", token |-> token(w), delay |-> 0]}
    /\ UNCHANGED <<now, hash, starts, started, cooled, lost>>

\* The response to a dispatched request, which may ask for a cooldown.
respond(w) ==
    /\ worker[w].waits = "dispatched"
    /\ worker' = [worker EXCEPT ![w].waits = "idle"]
    /\ UNCHANGED <<now, hash, starts, calls, started, cooled, lost>>

cooldown(w, delay) ==
    /\ worker[w].waits = "dispatched" /\ worker[w].call < MaxCalls[w]
    /\ worker' = [worker EXCEPT ![w] = [waits |-> "cooldown", call |-> @.call + 1]]
    /\ calls' = calls \cup
          {[script |-> "cooldown", token |-> <<w, worker[w].call + 1>>, delay |-> delay]}
    /\ UNCHANGED <<now, hash, starts, started, cooled, lost>>

\* What a worker does with an answer: a grant is dropped when it came after
\* the worker's deadline or the worker lost its lease; a refused worker
\* sleeps and asks again.
next_waits(answer) ==
    CASE answer = "granted"   -> {"granted", "idle"}
      [] answer = "confirmed" -> {"dispatched"}
      [] OTHER                -> {"idle"}

\* The server runs a script and answers the worker, if it still waits.
_eval(c) ==
    LET w == c.token[1]
        e == effect(c)
    IN  /\ c \in calls
        /\ calls' = calls \ {c}
        /\ hash' = e.hash
        /\ starts' = e.starts
        /\ started' = IF e.answer = "confirmed"
                      THEN started \cup {[token |-> c.token, at |-> now, interval |-> hash.interval]}
                      ELSE started
        /\ cooled' = IF e.answer = "cooled" THEN later(cooled, now + c.delay) ELSE cooled
        /\ \/ /\ worker[w].waits = c.script /\ token(w) = c.token
              /\ \E waits \in next_waits(e.answer) : worker' = [worker EXCEPT ![w].waits = waits]
           \/ /\ worker[w].waits # c.script \/ token(w) # c.token
              /\ UNCHANGED worker
        /\ UNCHANGED <<now, lost>>

\* CoordinationUnavailable: the call was not answered in time.
timed_out(w) ==
    /\ worker[w].waits \in {"reserve", "confirm", "cooldown"}
    /\ worker' = [worker EXCEPT ![w].waits = "idle"]
    /\ UNCHANGED <<now, hash, starts, calls, started, cooled, lost>>

\* A restart or an eviction.  With the hash go the cooldowns it held.
StateLoss(keys) ==
    /\ keys # {}
    /\ hash' = IF "rate" \in keys THEN NoHash ELSE hash
    /\ starts' = IF "starts" \in keys THEN {} ELSE starts
    /\ lost' = IF "rate" \in keys THEN now ELSE lost
    /\ cooled' = IF "rate" \in keys THEN 0 ELSE cooled
    /\ UNCHANGED <<now, calls, worker, started>>

Clock ==
    /\ now < MaxTime
    /\ now' = now + 1
    /\ UNCHANGED <<hash, starts, calls, worker, started, cooled, lost>>

LimiterNext ==
    \/ \E w \in Workers : acquire(w) \/ confirm(w) \/ respond(w) \/ timed_out(w)
    \/ \E w \in Workers, delay \in Delays : cooldown(w, delay)
    \/ \E c \in calls : _eval(c)
    \/ \E keys \in Losses : StateLoss(keys)
    \/ Clock

LimiterSpec == LimiterInit /\ [][LimiterNext]_limiter_vars

-----------------------------------------------------------------------------
\* Every key holds a value of its type.
LimiterTypeOK ==
    /\ now \in Second..MaxTime
    /\ hash \in Hash \cup {NoHash}
    /\ starts \subseteq Start
    /\ calls \subseteq Call
    /\ worker \in [Workers -> [waits : {"idle", "reserve", "granted", "confirm", "dispatched",
                                        "cooldown"},
                               call : Nat]]
    /\ started \subseteq [token : Tokens, at : Nat, interval : 1..Second]
    /\ cooled \in Nat /\ lost \in Nat

\* Two dispatches are at least the pinned interval apart, so that no second
\* sees more than MaxStarts of them, whichever workers made them, however
\* late their calls ran, and across a loss of the coordinator's state.
StartsSpaced ==
    /\ \A s, t \in started : s # t /\ s.at <= t.at => t.at - s.at >= t.interval
    /\ \A t \in started : Cardinality({s \in started : t.at - Second < s.at /\ s.at <= t.at}) <= MaxStarts

\* No dispatch is confirmed before the end of a cooldown that was recorded
\* before it, also when the grant was made before the cooldown, and a short
\* cooldown never ends a longer one (as long as Redis keeps its state).
CooldownHonoured == [][started' # started => now >= cooled]_limiter_vars

\* No grant is made within a second after the shared state was lost.
QuietAfterLoss ==
    [][hash' # NoHash /\ hash'.pending # NoToken /\ (hash = NoHash \/ hash'.pending # hash.pending)
          => now >= lost + Second]_limiter_vars

\* The budget all workers share is never overdrawn, in any state the keys can
\* be in (RESERVE and CONFIRM).
SharedBudgetKept == LimiterTypeOK /\ StartsSpaced

\* A worker waits when a server asked it to, and after a loss of the shared
\* state (CONFIRM, COOLDOWN and the quiet period of RESERVE).
WaitsKept == CooldownHonoured /\ QuietAfterLoss
=============================================================================
