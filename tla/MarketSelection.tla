---------------------------- MODULE MarketSelection ----------------------------
(***************************************************************************)
(* Reading market evidence (market_selection.py): the response is chosen   *)
(* before its value is looked at.                                          *)
(*                                                                         *)
(* A published batch has a requested window of dates, the inputs it was    *)
(* parsed from (id, role, the instant each was complete), when it was      *)
(* published, its coverage, the severity of its worst quality flag, and    *)
(* its dated observations.  A query has a reference date, a retrieval      *)
(* cutoff and a publication instant (0: not given), and for a backward     *)
(* query the largest age.  One source, series and vintage is in view.      *)
(* Date d is the instants d * Day .. d * Day + Day - 1.                    *)
(***************************************************************************)
EXTENDS Cases, FiniteSets, FiniteSetsExt

CONSTANT MarketCases     \* kind "market", batches and query

Day == 2
DateOf(instant) == instant \div Day
Responses(b) == {i \in b.inputs : i.role \in {"observations", "fetch_outcome"}}
response_at(b) == Max({i.at : i \in Responses(b)})
response_ids(b) == {i.id : i \in Responses(b)}

(* A batch is eligible when all of its inputs, metadata included, were       *)
(* complete by the cutoff and one of them is a response.                     *)
batches_published(bs, q, from) ==
    {b \in bs : /\ b.start <= q.date /\ b.end >= from
                /\ Responses(b) # {}
                /\ q.cutoff = 0 \/ b.published <= q.cutoff}
batches(bs, q, from) ==
    {b \in bs : /\ b.start <= q.date /\ b.end >= from
                /\ Responses(b) # {}
                /\ q.cutoff = 0 \/ \A i \in b.inputs : i.at <= q.cutoff}

(* ORDER BY response_at DESC, published_at DESC: the head of the list.       *)
Latest(bs) ==
    LET newest == {b \in bs : \A o \in bs : response_at(o) <= response_at(b)}
    IN  {b \in newest : \A o \in newest : o.published <= b.published}

(* A date says nothing of the hour: it counts only once it is over.          *)
publication_problem_same_day(o, known) ==
    CASE o.precision = "instant" -> o.published_at > known
      [] o.precision = "date" -> o.published_date > DateOf(known)
      [] OTHER -> TRUE
publication_problem(o, known) ==
    \/ o.realtime_start # 0 /\ o.realtime_start >= DateOf(known)
    \/ CASE o.precision = "instant" -> o.published_at > known
         [] o.precision = "date" -> o.published_date >= DateOf(known)
         [] OTHER -> TRUE

(* A series definition dated on or after the instant's date is a later one.  *)
macro_problem(o, known) == o.defined # 0 /\ known # 0 /\ o.defined >= DateOf(known)

Nothing == [batch |-> 0, date |-> 0, value |-> 0, usable |-> FALSE]

Select(q, bs) ==
    LET tied == {b \in bs : \A o \in bs : response_at(o) <= response_at(b)}
        batch == CHOOSE b \in Latest(bs) : TRUE
        found == {o \in batch.observed : o.date = q.date}
        o == CHOOSE x \in found : TRUE
        chosen == [Nothing EXCEPT !.batch = batch.id, !.date = q.date]
    IN  IF bs = {} THEN Nothing
        ELSE IF Cardinality({response_ids(b) : b \in tied}) > 1 THEN Nothing
        ELSE IF Cardinality(found) # 1 THEN chosen
        ELSE IF \/ q.known # 0 /\ publication_problem(o, q.known)
                \/ macro_problem(o, q.known) THEN chosen
        ELSE [chosen EXCEPT !.value = o.value,
                            !.usable = /\ o.value # 0
                                       /\ batch.severity \notin {"error", "blocking"}
                                       /\ batch.coverage = "complete"]

(* Dates and instants are numbered; what a batch observed lies in its window. *)
ASSUME MarketAssumption ==
    \A c \in MarketCases :
        /\ c.query \in [date : Nat, cutoff : Nat, known : Nat, age : Nat]
        /\ IsFiniteSet(c.batches)
        /\ \A b \in c.batches :
              /\ {b.start, b.end, b.published} \subseteq Nat
              /\ IsFiniteSet(b.inputs) /\ \A i \in b.inputs : i.at \in Nat
              /\ \A o \in b.observed : /\ o.date \in b.start..b.end
                                        /\ {o.published_at, o.published_date} \subseteq Nat

select_exact(bs, q) == Select(q, batches(bs, q, q.date))

(* Dates rank first, responses next, values last. *)
BackwardAnyWindow(bs, q) ==
    LET from == q.date - q.age
        able == batches(bs, q, from)
        days == {o.date : o \in UNION {b.observed : b \in able}} \cap (from..q.date)
    IN  IF days = {} THEN Select(q, able) ELSE Select([q EXCEPT !.date = Max(days)], able)

BackwardHolders(bs, q) ==
    LET from == q.date - q.age
        able == batches(bs, q, from)
        days == {o.date : o \in UNION {b.observed : b \in able}} \cap (from..q.date)
    IN  IF days = {} THEN Select(q, able)
        ELSE Select([q EXCEPT !.date = Max(days)],
                    {b \in able : \E o \in b.observed : o.date = Max(days)})

select_at_or_before(bs, q) ==
    LET from == q.date - q.age
        able == batches(bs, q, from)
        days == {o.date : o \in UNION {b.observed : b \in able}} \cap (from..q.date)
    IN  IF days = {} THEN Select(q, able)
        ELSE Select([q EXCEPT !.date = Max(days)], {b \in able : b.end >= Max(days)})

ReadMarket == Take(MarketCases)

-----------------------------------------------------------------------------
(* A read with a retrieval cutoff never depends on evidence retrieved after  *)
(* it, however early that evidence was requested or late older evidence was  *)
(* parsed.                                                                   *)
NoLookahead ==
    case.kind = "market" => LET bs == case.batches  q == case.query IN
    LET known == {b \in bs : \A i \in b.inputs : i.at <= q.cutoff} IN
    q.cutoff # 0 =>
        /\ select_exact(bs, q) = select_exact(known, q)
        /\ select_at_or_before(bs, q) = select_at_or_before(known, q)

(* A response that is newer than the one selected and reaches its date, but  *)
(* holds nothing, leaves no usable value: nothing older is carried past it.  *)
NewerEmptyBlocks ==
    case.kind = "market" => LET bs == case.batches  q == case.query IN
    \A empty \in bs :
        /\ empty.observed = {} /\ Responses(empty) # {}
        /\ q.cutoff = 0 \/ \A i \in empty.inputs : i.at <= q.cutoff
        /\ empty.start <= q.date
        /\ \A b \in bs \ {empty} : Responses(b) # {} => response_at(b) < response_at(empty)
        => LET r == select_at_or_before(bs, q) IN r.usable => r.date > empty.end

(* A response about earlier dates only, a backfill, takes nothing from the    *)
(* date selected, however new it is.                                          *)
BackfillIgnored ==
    case.kind = "market" => LET bs == case.batches  q == case.query IN
    LET r == select_at_or_before(bs, q) IN
    \A b \in bs : b.end < r.date =>
        LET without == select_at_or_before(bs \ {b}, q) IN
        without.usable = r.usable /\ without.value = r.value

(* A usable value was published, and its series defined, by the instant      *)
(* asked about, whatever the hour at which a date-only record was published. *)
KnownAtInstant ==
    case.kind = "market" => LET bs == case.batches  q == case.query IN
    LET r == select_at_or_before(bs, q)
        instants(o) == CASE o.precision = "instant" -> {o.published_at}
                         [] o.precision = "date" -> {o.published_date * Day + k : k \in 0..(Day - 1)}
                         [] OTHER -> {q.known + 1}
    IN  r.usable /\ q.known # 0 =>
            \E b \in bs : b.id = r.batch /\ \E o \in b.observed :
                o.date = r.date /\ \A t \in instants(o) : t <= q.known
=============================================================================
