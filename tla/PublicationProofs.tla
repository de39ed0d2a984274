-------------------------- MODULE PublicationProofs --------------------------
(***************************************************************************)
(* Proofs about Publication for any manifests, plans, workers and bounds.  *)
(*                                                                         *)
(* An intent fixes the context of its request for good: reviews never      *)
(* change, and the lineage of a request only looks at older requests.      *)
(* From the moment of the intent the pointer of that context has been at   *)
(* the request or beyond it, and from the moment of its result, if it is   *)
(* still there, the result is displayed.                                   *)
(***************************************************************************)
EXTENDS Publication, NaturalsInduction, SequenceTheorems, WellFoundedInduction, TLAPS

Scope(r) == nearest_membership(requests, r)

\* Parents are older than their children.
HistoryWhole ==
    /\ Len(requests) <= MaxRequests /\ Len(memberships) <= Len(requests) /\ Len(reviews) <= MaxReviews
    /\ \A r \in DOMAIN requests :
          requests[r].parent < r /\ requests[r].membership <= Len(memberships)

\* A valuation review was made against saved fundamentals.
ReviewsWhole ==
    \A v \in DOMAIN reviews : reviews[v].kind = "valuation" =>
        results["fundamentals"][reviews[v].source] # none

\* An intent is bound to a review of its kind and to the scope of its request,
\* and the pointer of that context reached the request.
IntentWhole(k, r) ==
    /\ r \in DOMAIN requests /\ intents[k][r].review \in DOMAIN reviews
    /\ reviews[intents[k][r].review].kind = k
    /\ intents[k][r].scope = Scope(r)
    /\ k = "valuation" => requests[r].parent # 0
bound_context(k, r) == context(intents[k][r].review, Scope(r))
IntentsWhole ==
    \A k \in Kinds, r \in Requests : intents[k][r] # none =>
        IntentWhole(k, r) /\ latest[bound_context(k, r)].request >= r

\* Inputs are frozen for the intent, and published at the end of the request.
PipelineWhole ==
    \A k \in Kinds, r \in Requests :
        /\ inputs[k][r] # none => intents[k][r] # none /\ inputs[k][r] = intents[k][r]
        /\ results[k][r] # none =>
              /\ inputs[k][r] # none
              /\ control[r].state = results[k][r].outcome
              /\ control[r].attempt = results[k][r].attempt
              /\ \A other \in Kinds \ {k} : results[other][r] = none

\* What a worker was told still stands.
WorkersInformed ==
    \A w \in Workers : worker[w] # idle =>
        /\ intents[worker[w].kind][worker[w].request] # none
        /\ worker[w].pc = "frozen" => inputs[worker[w].kind][worker[w].request] # none

\* A pointer row holds requests and results of its own context, and displays
\* the result of the request it has reached, if there is one.
Wanted(c, r) ==
    /\ c[1] \in DOMAIN reviews
    /\ intents[reviews[c[1]].kind][r] # none /\ bound_context(reviews[c[1]].kind, r) = c
Published(c, r) == results[reviews[c[1]].kind][r] # none
RowWhole(c, request, snapshot) ==
    /\ snapshot <= request
    /\ request # 0 =>
         Wanted(c, request) /\ (Published(c, request) => snapshot = request)
    /\ snapshot # 0 => Wanted(c, snapshot) /\ Published(c, snapshot)
RowsWhole == \A c \in Contexts : RowWhole(c, latest[c].request, latest[c].snapshot)

\* The inductive invariant.
IndInv ==
    /\ TypeOK /\ HistoryWhole /\ ReviewsWhole /\ IntentsWhole
    /\ PipelineWhole /\ WorkersInformed /\ RowsWhole

-----------------------------------------------------------------------------
\* Sets of positions have a first and a last.
LEMMA FirstExists ==
  ASSUME NEW T, T \subseteq Nat, T # {}
  PROVE  \E n \in T : \A m \in T : n <= m
  <1>1. PICK n \in T : \A m \in T : ~(<<m, n>> \in OpToRel(<, Nat))
    BY NatLessThanWellFounded, WFMin
  <1>2. \A m \in T : ~(m < n)
    BY <1>1 DEF OpToRel
  <1> QED
    BY <1>2

LEMMA LastExists ==
  ASSUME NEW r \in Nat, NEW T, T \subseteq 1..r, T # {}
  PROVE  \E n \in T : \A m \in T : m <= n
  <1> DEFINE below == {d \in 0..r : r - d \in T}
  <1>1. below \subseteq Nat /\ below # {}
    <2>1. PICK n \in T : TRUE
      OBVIOUS
    <2>2. n \in 1..r /\ r - (r - n) = n
      OBVIOUS
    <2>3. r - n \in below
      BY <2>2
    <2>4. below # {}
      BY <2>3
    <2>5. 0..r \subseteq Nat
      OBVIOUS
    <2> QED
      BY <2>4, <2>5
  <1>2. PICK d \in below : \A e \in below : d <= e
    BY <1>1, FirstExists
  <1>3. ASSUME NEW m \in T PROVE m <= r - d
    <2>1. m \in 1..r /\ r - (r - m) = m
      OBVIOUS
    <2>2. r - m \in below
      BY <2>1
    <2>3. d <= r - m
      BY <1>2, <2>2
    <2> QED
      BY <2>1, <2>3
  <1> QED
    BY <1>3

\* The scope of a request is the membership of one of the requests up to it,
\* and only depends on those.
LEMMA ScopeOfOne ==
  ASSUME NEW history, NEW r \in Nat
  PROVE  \/ nearest_membership(history, r) = 0
         \/ \E n \in 1..r : nearest_membership(history, r) = history[n].membership
  <1> DEFINE found == in_membership(history, r)
  <1>1. found \subseteq 1..r
    BY DEF in_membership, lineage
  <1>2. found # {} => \E n \in found : \A m \in found : m <= n
    BY <1>1, LastExists
  <1> HIDE DEF found
  <1>3. found # {} => (CHOOSE n \in found : \A m \in found : m <= n) \in found
    BY <1>2
  <1> QED
    BY <1>1, <1>3 DEF nearest_membership, found

LEMMA ScopeStable ==
  ASSUME NEW history, NEW later, NEW r \in Nat, \A n \in 1..r : later[n] = history[n]
  PROVE  nearest_membership(later, r) = nearest_membership(history, r)
  <1> DEFINE found == in_membership(history, r)
  <1>1. \A S \in SUBSET (1..r) : \A m \in S : later[m].parent = history[m].parent
    OBVIOUS
  <1>2. lineage(later, r) = lineage(history, r)
    BY <1>1 DEF lineage
  <1>3. lineage(history, r) \subseteq 1..r
    BY DEF lineage
  <1>4. in_membership(later, r) = found
    BY <1>2, <1>3 DEF in_membership
  <1>5. found \subseteq 1..r
    BY <1>3 DEF in_membership
  <1>6. found # {} => \E n \in found : \A m \in found : m <= n
    BY <1>5, LastExists
  <1> HIDE DEF found
  <1>7. found # {} => (CHOOSE n \in found : \A m \in found : m <= n) \in 1..r
    BY <1>5, <1>6
  <1> QED
    BY <1>4, <1>7 DEF nearest_membership, found

\* A review is compatible with itself or with an older one of its kind.
LEMMA CompatibilityFacts ==
  ASSUME TypeOK, NEW v \in DOMAIN reviews
  PROVE  /\ compatibility(reviews, v) \in DOMAIN reviews
         /\ reviews[compatibility(reviews, v)].kind = reviews[v].kind
  <1>1. /\ DOMAIN reviews = 1..Len(reviews) /\ Len(reviews) \in Nat /\ v \in Nat
        /\ reviews[v].kind \in {"fundamentals", "valuation"}
    BY DEF TypeOK, Review
  <1>2. CASE reviews[v].kind = "valuation"
    BY <1>1, <1>2 DEF compatibility
  <1>3. CASE reviews[v].kind = "fundamentals"
    <2> DEFINE T == compatible(reviews, v)
    <2>1. v \in T /\ T \subseteq Nat
      BY <1>1, <1>3 DEF compatible
    <2>2. \E u \in T : \A t \in T : u <= t
      BY <2>1, FirstExists
    <2> HIDE DEF T
    <2>3. (CHOOSE u \in T : \A t \in T : u <= t) \in T
      BY <2>2
    <2>4. compatibility(reviews, v) \in T
      BY <1>3, <2>3 DEF compatibility, T
    <2> QED
      BY <1>1, <1>3, <2>4 DEF T, compatible
  <1> QED
    BY <1>1, <1>2, <1>3

LEMMA CompatibilityStable ==
  ASSUME NEW rows, NEW later, NEW v \in Nat \ {0}, \A u \in 1..v : later[u] = rows[u]
  PROVE  compatibility(later, v) = compatibility(rows, v)
  <1>1. compatible(later, v) = compatible(rows, v)
    BY DEF compatible
  <1>2. later[v] = rows[v]
    OBVIOUS
  <1> QED
    BY <1>1, <1>2 DEF compatibility

-----------------------------------------------------------------------------
\* What the type invariant says of single rows.
LEMMA RowTypes ==
  ASSUME TypeOK
  PROVE  /\ Len(requests) \in Nat /\ Len(reviews) \in Nat /\ Len(memberships) \in Nat
         /\ DOMAIN requests = 1..Len(requests) /\ DOMAIN control = 1..Len(requests)
         /\ DOMAIN reviews = 1..Len(reviews) /\ DOMAIN memberships = 1..Len(memberships)
         /\ \A r \in DOMAIN requests :
               /\ requests[r].parent \in Nat /\ requests[r].membership \in Nat
               /\ control[r].state \in {"queued", "running", "failed", "cancelled"} \cup Outcomes
         /\ \A v \in DOMAIN reviews : reviews[v] \in Review /\ reviews[v].kind \in Kinds
         /\ \A v \in DOMAIN reviews : reviews[v].kind = "valuation" => reviews[v].source \in Requests
  <1>1. /\ Len(requests) \in Nat /\ Len(reviews) \in Nat /\ Len(memberships) \in Nat
        /\ DOMAIN requests = 1..Len(requests) /\ DOMAIN control = 1..Len(requests)
        /\ DOMAIN reviews = 1..Len(reviews) /\ DOMAIN memberships = 1..Len(memberships)
    BY DEF TypeOK
  <1>2. /\ \A r \in DOMAIN requests : requests[r] \in Request
        /\ \A r \in DOMAIN control : control[r] \in Control
        /\ \A v \in DOMAIN reviews : reviews[v] \in Review
    BY DEF TypeOK
  <1>3. \A r \in DOMAIN requests : requests[r].parent \in Nat /\ requests[r].membership \in Nat
    BY <1>2 DEF Request
  <1>4. \A r \in DOMAIN requests :
           control[r].state \in {"queued", "running", "failed", "cancelled"} \cup Outcomes
    BY <1>1, <1>2 DEF Control
  <1>5. \A v \in DOMAIN reviews :
          reviews[v].kind \in Kinds /\ (reviews[v].kind = "valuation" => reviews[v].source \in Requests)
    BY <1>2 DEF Review, Kinds
  <1> QED
    BY <1>1, <1>2, <1>3, <1>4, <1>5

\* No row looks like an absent one.
LEMMA Absent ==
  /\ none \notin Binding /\ none \notin Result
  /\ \A x \in Work : x # idle /\ x.pc \in {"claimed", "started", "frozen"}
  /\ idle.pc = "idle"
  <1>1. \A x \in Binding \cup Result : DOMAIN x # DOMAIN none
    BY DEF Binding, Result, none
  <1>2. \A x \in Work : x.pc \in {"claimed", "started", "frozen"}
    BY DEF Work
  <1>3. idle.pc = "idle"
    BY DEF idle
  <1> QED
    BY <1>1, <1>2, <1>3

LEMMA PointerTypes ==
  ASSUME TypeOK, NEW c \in Contexts
  PROVE  latest[c].request \in 0..MaxRequests /\ latest[c].snapshot \in 0..MaxRequests
  BY DEF TypeOK

\* A context is one of the rows.
LEMMA ContextFacts ==
  ASSUME TypeOK, HistoryWhole, NEW v \in DOMAIN reviews, NEW scope \in 0..MaxRequests
  PROVE  /\ context(v, scope) \in Contexts
         /\ context(v, scope)[1] \in DOMAIN reviews /\ context(v, scope)[2] = scope
         /\ reviews[context(v, scope)[1]].kind = reviews[v].kind
  <1>1. /\ compatibility(reviews, v) \in DOMAIN reviews
        /\ reviews[compatibility(reviews, v)].kind = reviews[v].kind
    BY CompatibilityFacts
  <1>2. DOMAIN reviews \subseteq 1..MaxReviews
    BY RowTypes, PublicationAssumption DEF HistoryWhole
  <1> QED
    BY <1>1, <1>2 DEF context, Contexts

\* Scopes are memberships, and older requests keep theirs.
LEMMA ScopeType ==
  ASSUME TypeOK, HistoryWhole, NEW r \in DOMAIN requests
  PROVE  Scope(r) \in 0..MaxRequests /\ Scope(r) <= Len(memberships)
  <1>1. /\ r \in Nat /\ 1..r \subseteq DOMAIN requests /\ Len(memberships) \in Nat
        /\ Len(memberships) <= MaxRequests /\ Len(requests) \in Nat
    BY RowTypes, PublicationAssumption DEF HistoryWhole
  <1>2. \A n \in DOMAIN requests :
           requests[n].membership \in 0..MaxRequests /\ requests[n].membership <= Len(memberships)
    BY <1>1, RowTypes, PublicationAssumption DEF HistoryWhole
  <1>3. \/ Scope(r) = 0
        \/ \E n \in 1..r : Scope(r) = requests[n].membership
    BY <1>1, ScopeOfOne DEF Scope
  <1> QED
    BY <1>1, <1>3, <1>2, PublicationAssumption

LEMMA ScopeKept ==
  ASSUME TypeOK, NEW r \in DOMAIN requests, \A q \in DOMAIN requests : requests'[q] = requests[q]
  PROVE  Scope(r)' = Scope(r)
  <1>1. r \in Nat /\ 1..r \subseteq DOMAIN requests
    BY RowTypes
  <1>2. \A n \in 1..r : requests'[n] = requests[n]
    BY <1>1
  <1> QED
    BY <1>1, <1>2, ScopeStable DEF Scope

\* Reviews, requests, intents, inputs and results are never changed.
Grows ==
    /\ \A v \in DOMAIN reviews : v \in DOMAIN reviews' /\ reviews'[v] = reviews[v]
    /\ \A r \in DOMAIN requests : r \in DOMAIN requests' /\ requests'[r] = requests[r]
    /\ \A k \in Kinds, r \in Requests :
          /\ intents[k][r] # none => intents'[k][r] = intents[k][r]
          /\ inputs[k][r] # none => inputs'[k][r] = inputs[k][r]
          /\ results[k][r] # none => results'[k][r] = results[k][r]

LEMMA IntentKept ==
  ASSUME IndInv, Grows, NEW k \in Kinds, NEW r \in Requests, intents[k][r] # none
  PROVE  IntentWhole(k, r)' /\ bound_context(k, r)' = bound_context(k, r) /\ bound_context(k, r) \in Contexts
  <1> USE DEF IndInv
  <1>1. /\ r \in DOMAIN requests /\ intents[k][r].review \in DOMAIN reviews
        /\ reviews[intents[k][r].review].kind = k /\ intents[k][r].scope = Scope(r)
        /\ k = "valuation" => requests[r].parent # 0
        /\ intents'[k][r] = intents[k][r]
    BY DEF IntentsWhole, IntentWhole, Grows
  <1>2. Scope(r)' = Scope(r)
    BY <1>1, ScopeKept DEF Grows
  <1>3. compatibility(reviews', intents[k][r].review) = compatibility(reviews, intents[k][r].review)
    <2> DEFINE v == intents[k][r].review
    <2>1. v \in Nat \ {0} /\ \A u \in 1..v : u \in DOMAIN reviews
      BY <1>1, RowTypes
    <2>2. \A u \in 1..v : reviews'[u] = reviews[u]
      BY <2>1 DEF Grows
    <2> HIDE DEF v
    <2>3. compatibility(reviews', v) = compatibility(reviews, v)
      BY <2>1, <2>2, CompatibilityStable
    <2> QED
      BY <2>3 DEF v
  <1>4. bound_context(k, r)' = bound_context(k, r)
    BY <1>1, <1>2, <1>3 DEF bound_context, context
  <1>5. IntentWhole(k, r)'
    BY <1>1, <1>2 DEF IntentWhole, Grows
  <1>6. bound_context(k, r) \in Contexts
    BY <1>1, ScopeType, ContextFacts DEF bound_context
  <1> QED
    BY <1>4, <1>5, <1>6

\* The requests a row points to have intents of its kind.
LEMMA WantedFacts ==
  ASSUME IndInv, NEW c \in Contexts, NEW r \in 1..MaxRequests, Wanted(c, r)
  PROVE  /\ c[1] \in DOMAIN reviews /\ reviews[c[1]].kind \in Kinds /\ r \in Requests
         /\ intents[reviews[c[1]].kind][r] # none
         /\ IntentWhole(reviews[c[1]].kind, r) /\ bound_context(reviews[c[1]].kind, r) = c
  BY RowTypes DEF Wanted, IndInv, IntentsWhole, Requests

LEMMA WantedKept ==
  ASSUME IndInv, Grows, NEW c \in Contexts, NEW r \in 1..MaxRequests, Wanted(c, r)
  PROVE  Wanted(c, r)' /\ reviews'[c[1]].kind = reviews[c[1]].kind
  <1>1. PICK k \in Kinds : k = reviews[c[1]].kind
    BY WantedFacts
  <1>2. c[1] \in DOMAIN reviews /\ r \in Requests /\ intents[k][r] # none /\ bound_context(k, r) = c
    BY <1>1, WantedFacts
  <1>3. c[1] \in DOMAIN reviews' /\ reviews'[c[1]].kind = k /\ intents'[k][r] # none
    BY <1>1, <1>2 DEF Grows
  <1>4. bound_context(k, r)' = c
    BY <1>2, IntentKept
  <1>5. Wanted(c, r)'
    BY <1>3, <1>4 DEF Wanted
  <1> QED
    BY <1>1, <1>3, <1>5

-----------------------------------------------------------------------------
\* While no intent, result or pointer changes, the tables stay whole.
LEMMA TablesKept ==
  ASSUME IndInv, Grows, UNCHANGED <<intents, results, latest>>
  PROVE  IntentsWhole' /\ RowsWhole'
  <1> USE DEF IndInv
  <1>1. IntentsWhole'
    <2> SUFFICES ASSUME NEW k \in Kinds, NEW r \in Requests, intents[k][r] # none
                 PROVE  IntentWhole(k, r)' /\ latest'[bound_context(k, r)'].request >= r
      BY DEF IntentsWhole
    <2>1. IntentWhole(k, r)' /\ bound_context(k, r)' = bound_context(k, r)
      BY IntentKept
    <2>2. latest[bound_context(k, r)].request >= r
      BY DEF IntentsWhole
    <2> QED
      BY <2>1, <2>2
  <1>2. ASSUME NEW c \in Contexts, NEW r \in 1..MaxRequests, Wanted(c, r)
        PROVE  Wanted(c, r)' /\ (Published(c, r)' <=> Published(c, r))
    BY <1>2, WantedKept DEF Published
  <1>3. RowsWhole'
    <2> SUFFICES ASSUME NEW c \in Contexts
                 PROVE  RowWhole(c, latest[c].request, latest[c].snapshot)'
      BY Zenon DEF RowsWhole
    <2>1. PICK q \in 0..MaxRequests, s \in 0..MaxRequests : q = latest[c].request /\ s = latest[c].snapshot
      BY PointerTypes
    <2>2. RowWhole(c, q, s)
      BY <2>1 DEF RowsWhole
    <2>3. RowWhole(c, q, s)'
      BY <1>2, <2>2 DEF RowWhole
    <2>4. q = latest'[c].request /\ s = latest'[c].snapshot
      BY <2>1
    <2> QED
      BY <2>3, <2>4
  <1> QED
    BY <1>1, <1>3

\* A step that changes one row of the control table.
ControlStep(r, row) ==
    /\ control' = [control EXCEPT ![r] = row]
    /\ UNCHANGED <<memberships, requests, reviews, intents, inputs, results, latest>>

LEMMA ControlTypes ==
  ASSUME TypeOK, NEW r \in DOMAIN requests, NEW row \in Control,
         control' = [control EXCEPT ![r] = row]
  PROVE  /\ control' \in Seq(Control) /\ Len(control') = Len(requests)
         /\ \A q \in DOMAIN requests \ {r} : control'[q] = control[q]
  <1>1. control \in Seq(Control) /\ Len(control) = Len(requests) /\ DOMAIN requests = 1..Len(requests)
    BY DEF TypeOK
  <1>2. r \in 1..Len(control)
    BY <1>1
  <1>3. /\ [control EXCEPT ![r] = row] \in Seq(Control)
        /\ Len([control EXCEPT ![r] = row]) = Len(control)
        /\ \A q \in 1..Len(control) : [control EXCEPT ![r] = row][q] = IF q = r THEN row ELSE control[q]
    BY <1>1, <1>2, ExceptSeq
  <1> QED
    BY <1>1, <1>3

\* The control row of an open request may change: it has published nothing.
LEMMA ControlStepOK ==
  ASSUME IndInv, NEW r \in DOMAIN requests, NEW row \in Control, ControlStep(r, row), open(r),
         worker' \in [Workers -> Work \cup {idle}], WorkersInformed'
  PROVE  IndInv'
  <1> USE DEF IndInv
  <1>1. /\ control' = [control EXCEPT ![r] = row]
        /\ UNCHANGED <<memberships, requests, reviews, intents, inputs, results, latest>>
    BY DEF ControlStep
  <1>2. /\ control' \in Seq(Control) /\ Len(control') = Len(requests)
        /\ \A q \in DOMAIN requests \ {r} : control'[q] = control[q]
    BY <1>1, ControlTypes
  <1>3. TypeOK'
    BY <1>1, <1>2 DEF TypeOK
  <1>4. HistoryWhole' /\ ReviewsWhole'
    BY <1>1 DEF HistoryWhole, ReviewsWhole
  <1>5. IntentsWhole' /\ RowsWhole'
    BY <1>1, TablesKept DEF Grows
  <1>6. ASSUME NEW k \in Kinds, NEW q \in Requests, results[k][q] # none
        PROVE  q \in DOMAIN requests /\ q # r
    <2>1. q \in DOMAIN requests /\ control[q].state = results[k][q].outcome
      BY <1>6 DEF PipelineWhole, IntentsWhole, IntentWhole
    <2>2. results[k][q] \in Result
      BY <1>6 DEF TypeOK
    <2>3. control[q].state \in Outcomes
      BY <2>1, <2>2 DEF Result
    <2>4. control[r].state \in {"queued", "running"}
      BY DEF open
    <2> QED
      BY <2>1, <2>3, <2>4, PublicationAssumption
  <1>7. PipelineWhole'
    BY <1>1, <1>2, <1>6 DEF PipelineWhole
  <1> QED
    BY <1>3, <1>4, <1>5, <1>7

\* The control rows the actions write.
LEMMA ControlRows ==
  ASSUME TypeOK, NEW r \in DOMAIN requests
  PROVE  /\ control[r] \in Control
         /\ \A s \in {"running"} : [control[r] EXCEPT !.state = s] \in Control
         /\ \A k \in Kinds : [control[r] EXCEPT !.stage = k] \in Control
         /\ \A s \in {"failed", "cancelled"} \cup Outcomes :
              [control[r] EXCEPT !.state = s, !.stage = "none"] \in Control
         /\ control[r].attempt < MaxAttempts =>
              [attempt |-> control[r].attempt + 1, state |-> "queued", stage |-> "none"] \in Control
  <1>1. control[r] \in Control
    BY ElementOfSeq, RowTypes DEF TypeOK
  <1> DEFINE x == control[r]
  <1>2. x \in Control
    BY <1>1
  <1> HIDE DEF x
  <1>3. [x EXCEPT !.state = "running"] \in Control
    BY <1>2 DEF Control
  <1>4. ASSUME NEW k \in Kinds PROVE [x EXCEPT !.stage = k] \in Control
    BY <1>2 DEF Control
  <1>5. ASSUME NEW s \in {"failed", "cancelled"} \cup Outcomes
        PROVE  [x EXCEPT !.state = s, !.stage = "none"] \in Control
    BY <1>2 DEF Control
  <1>6. x.attempt < MaxAttempts =>
          [attempt |-> x.attempt + 1, state |-> "queued", stage |-> "none"] \in Control
    BY <1>2, PublicationAssumption DEF Control
  <1> QED
    BY <1>2, <1>3, <1>4, <1>5, <1>6 DEF x

LEMMA ClaimOK ==
  ASSUME IndInv, NEW w \in Workers, NEW r \in DOMAIN requests, NEW k \in Kinds, Claim(w, r, k)
  PROVE  IndInv'
  <1> USE DEF IndInv
  <1> DEFINE row == [control[r] EXCEPT !.state = "running"]
             job == [pc |-> "claimed", request |-> r, attempt |-> control[r].attempt, kind |-> k]
  <1>1. ControlStep(r, row) /\ open(r) /\ worker' = [worker EXCEPT ![w] = job] /\ intents[k][r] # none
    BY DEF Claim, ControlStep, open
  <1>2. row \in Control /\ control[r].attempt \in 1..MaxAttempts
    BY ControlRows DEF Control
  <1>3. r \in Requests
    BY RowTypes, PublicationAssumption DEF HistoryWhole, Requests
  <1>4. job \in Work /\ r \in Requests
    BY <1>2, <1>3 DEF Work
  <1>5. worker' \in [Workers -> Work \cup {idle}]
    BY <1>1, <1>4 DEF TypeOK
  <1>6. UNCHANGED <<intents, inputs>>
    BY <1>1 DEF ControlStep
  <1>7. WorkersInformed'
    BY <1>1, <1>4, <1>6 DEF WorkersInformed, TypeOK
  <1> HIDE DEF row, job, IndInv
  <1> QED
    BY <1>1, <1>2, <1>5, <1>7, ControlStepOK

LEMMA JobFacts ==
  ASSUME IndInv, NEW w \in Workers, worker[w] # idle
  PROVE  /\ worker[w] \in Work /\ worker[w].request \in DOMAIN requests
         /\ worker[w].request \in Requests /\ worker[w].kind \in Kinds
         /\ intents[worker[w].kind][worker[w].request] # none
  <1>1. worker[w] \in Work
    BY DEF IndInv, TypeOK
  <1>2. worker[w].request \in Requests /\ worker[w].kind \in Kinds
    BY <1>1 DEF Work
  <1>3. intents[worker[w].kind][worker[w].request] # none
    BY DEF IndInv, WorkersInformed
  <1>4. worker[w].request \in DOMAIN requests
    BY <1>2, <1>3 DEF IndInv, IntentsWhole, IntentWhole
  <1> QED
    BY <1>1, <1>2, <1>3, <1>4

\* What a worker was told is not taken back.
LEMMA WorkersStill ==
  ASSUME IndInv, Grows, NEW w \in Workers, worker[w] # idle
  PROVE  /\ intents'[worker[w].kind][worker[w].request] # none
         /\ worker[w].pc = "frozen" => inputs'[worker[w].kind][worker[w].request] # none
  BY JobFacts DEF Grows, IndInv, WorkersInformed

LEMMA WorkersKept ==
  ASSUME IndInv, Grows, UNCHANGED worker
  PROVE  worker' \in [Workers -> Work \cup {idle}] /\ WorkersInformed'
  <1>1. worker' \in [Workers -> Work \cup {idle}]
    BY DEF IndInv, TypeOK
  <1>2. WorkersInformed'
    BY WorkersStill DEF WorkersInformed
  <1> QED
    BY <1>1, <1>2

LEMMA WorkerIdles ==
  ASSUME IndInv, Grows, NEW w \in Workers, worker' = [worker EXCEPT ![w] = idle]
  PROVE  worker' \in [Workers -> Work \cup {idle}] /\ WorkersInformed'
  <1>1. worker \in [Workers -> Work \cup {idle}]
    BY DEF IndInv, TypeOK
  <1>2. \A x \in Workers : worker'[x] # idle => worker'[x] = worker[x]
    BY <1>1
  <1>3. WorkersInformed'
    BY <1>2, WorkersStill DEF WorkersInformed
  <1> QED
    BY <1>1, <1>3

LEMMA WorkerMoves ==
  ASSUME IndInv, Grows, NEW w \in Workers, worker[w] # idle, NEW p \in {"started", "frozen"},
         worker' = [worker EXCEPT ![w].pc = p],
         p = "frozen" => inputs'[worker[w].kind][worker[w].request] # none
  PROVE  worker' \in [Workers -> Work \cup {idle}] /\ WorkersInformed'
  <1> DEFINE job == [worker[w] EXCEPT !.pc = p]
  <1>1. worker \in [Workers -> Work \cup {idle}]
    BY DEF IndInv, TypeOK
  <1>2. /\ job \in Work /\ job.pc = p /\ job.request = worker[w].request
        /\ job.kind = worker[w].kind
    BY JobFacts DEF Work
  <1>3. worker' = [worker EXCEPT ![w] = job]
    OBVIOUS
  <1> HIDE DEF job
  <1>4. worker'[w] = job /\ \A x \in Workers \ {w} : worker'[x] = worker[x]
    BY <1>1, <1>3
  <1>5. worker' \in [Workers -> Work \cup {idle}]
    BY <1>1, <1>2, <1>3
  <1>6. ASSUME NEW x \in Workers, worker'[x] # idle
        PROVE  /\ intents'[worker'[x].kind][worker'[x].request] # none
               /\ worker'[x].pc = "frozen" => inputs'[worker'[x].kind][worker'[x].request] # none
    <2>1. CASE x = w
      BY <1>2, <1>4, <2>1, WorkersStill
    <2>2. CASE x # w
      BY <1>4, <1>6, <2>2, WorkersStill
    <2> QED
      BY <2>1, <2>2
  <1>7. WorkersInformed'
    BY <1>6 DEF WorkersInformed
  <1> QED
    BY <1>5, <1>7

LEMMA StartStageOK ==
  ASSUME IndInv, NEW w \in Workers, StartStage(w)
  PROVE  IndInv'
  <1>1. worker[w].pc = "claimed" /\ holds_lease(w) /\ worker' = [worker EXCEPT ![w].pc = "started"]
    BY DEF StartStage
  <1>2. PICK r \in DOMAIN requests, k \in Kinds : r = worker[w].request /\ k = worker[w].kind /\ worker[w] # idle
    BY <1>1, JobFacts, Absent
  <1> DEFINE row == [control[r] EXCEPT !.stage = k]
  <1>3. /\ control' = [control EXCEPT ![r].stage = k]
        /\ UNCHANGED <<memberships, requests, reviews, intents, inputs, results, latest>>
    BY <1>2 DEF StartStage
  <1>4. ControlStep(r, row) /\ open(r) /\ Grows
    BY <1>1, <1>2, <1>3 DEF ControlStep, open, holds_lease, Grows
  <1>5. row \in Control
    BY ControlRows DEF IndInv
  <1>6. worker' \in [Workers -> Work \cup {idle}] /\ WorkersInformed'
    BY <1>1, <1>2, <1>4, WorkerMoves
  <1> HIDE DEF row
  <1> QED
    BY <1>4, <1>5, <1>6, ControlStepOK

LEMMA CancelOK ==
  ASSUME IndInv, NEW r \in DOMAIN requests, Cancel(r)
  PROVE  IndInv'
  <1> DEFINE row == [control[r] EXCEPT !.state = "cancelled", !.stage = "none"]
  <1>1. /\ control' = [control EXCEPT ![r].state = "cancelled", ![r].stage = "none"] /\ open(r)
        /\ UNCHANGED <<memberships, requests, reviews, intents, inputs, results, latest, worker>>
    BY DEF Cancel
  <1>2. control' = [control EXCEPT ![r] = row]
    BY <1>1
  <1>3. ControlStep(r, row) /\ Grows
    BY <1>1, <1>2 DEF ControlStep, Grows
  <1>4. row \in Control
    BY ControlRows DEF IndInv
  <1>5. worker' \in [Workers -> Work \cup {idle}] /\ WorkersInformed'
    BY <1>1, <1>3, WorkersKept
  <1> HIDE DEF row
  <1> QED
    BY <1>1, <1>3, <1>4, <1>5, ControlStepOK

LEMMA CloseRetryOK ==
  ASSUME IndInv, NEW r \in DOMAIN requests, CloseRetry(r)
  PROVE  IndInv'
  <1> DEFINE row == retried(control[r])
  <1>1. /\ control' = [control EXCEPT ![r] = row] /\ open(r)
        /\ UNCHANGED <<memberships, requests, reviews, intents, inputs, results, latest, worker>>
    BY DEF CloseRetry, open
  <1>2. ControlStep(r, row) /\ Grows
    BY <1>1 DEF ControlStep, Grows
  <1>3. row \in Control
    BY ControlRows DEF IndInv, retried
  <1>4. worker' \in [Workers -> Work \cup {idle}] /\ WorkersInformed'
    BY <1>1, <1>2, WorkersKept
  <1> HIDE DEF row
  <1> QED
    BY <1>1, <1>2, <1>3, <1>4, ControlStepOK

LEMMA WorkerStopsOK ==
  ASSUME IndInv, NEW w \in Workers, WorkerStops(w)
  PROVE  IndInv'
  <1>1. /\ worker' = [worker EXCEPT ![w] = idle]
        /\ UNCHANGED <<memberships, requests, control, reviews, intents, inputs, results, latest>>
    BY DEF WorkerStops
  <1>2. Grows
    BY <1>1 DEF Grows
  <1>3. worker' \in [Workers -> Work \cup {idle}] /\ WorkersInformed'
    BY <1>1, <1>2, WorkerIdles
  <1>4. IntentsWhole' /\ RowsWhole'
    BY <1>1, <1>2, TablesKept
  <1> QED
    BY <1>1, <1>3, <1>4 DEF IndInv, TypeOK, HistoryWhole, ReviewsWhole, PipelineWhole

LEMMA RemoveMembershipOK ==
  ASSUME IndInv, NEW g \in DOMAIN memberships, RemoveMembership(g)
  PROVE  IndInv'
  <1> DEFINE row == [memberships[g] EXCEPT !.removed = TRUE]
  <1>1. /\ memberships' = [memberships EXCEPT ![g] = row]
        /\ UNCHANGED <<requests, control, reviews, intents, inputs, results, latest, worker>>
    BY DEF RemoveMembership
  <1>2. memberships \in Seq([removed : BOOLEAN]) /\ g \in 1..Len(memberships)
    BY DEF IndInv, TypeOK
  <1>3. memberships[g] \in [removed : BOOLEAN]
    BY <1>2, ElementOfSeq
  <1>4. row \in [removed : BOOLEAN]
    BY <1>3
  <1> HIDE DEF row
  <1>5. memberships' \in Seq([removed : BOOLEAN]) /\ Len(memberships') = Len(memberships)
    BY <1>1, <1>2, <1>4, ExceptSeq
  <1>6. Grows
    BY <1>1 DEF Grows
  <1>7. worker' \in [Workers -> Work \cup {idle}] /\ WorkersInformed'
    BY <1>1, <1>6, WorkersKept
  <1>8. IntentsWhole' /\ RowsWhole'
    BY <1>1, <1>6, TablesKept
  <1> QED
    BY <1>1, <1>5, <1>7, <1>8 DEF IndInv, TypeOK, HistoryWhole, ReviewsWhole, PipelineWhole

\* A request that published is recorded, and its execution is over.
LEMMA ResultFacts ==
  ASSUME IndInv, NEW k \in Kinds, NEW r \in Requests, results[k][r] # none
  PROVE  /\ inputs[k][r] # none /\ intents[k][r] # none /\ r \in DOMAIN requests
         /\ control[r].state \in Outcomes /\ ~open(r)
  <1>1. inputs[k][r] # none /\ intents[k][r] # none /\ control[r].state = results[k][r].outcome
    BY DEF IndInv, PipelineWhole
  <1>2. r \in DOMAIN requests
    BY <1>1 DEF IndInv, IntentsWhole, IntentWhole
  <1>3. results[k][r] \in Result
    BY DEF IndInv, TypeOK
  <1> QED
    BY <1>1, <1>2, <1>3, PublicationAssumption DEF Result, open

LEMMA ApproveOK ==
  ASSUME IndInv, NEW review \in Review, approve(review),
         review.kind = "valuation" => results["fundamentals"][review.source] # none
  PROVE  IndInv'
  <1>1. /\ reviews' = Append(reviews, review) /\ Len(reviews) < MaxReviews
        /\ UNCHANGED <<memberships, requests, control, intents, inputs, results, latest, worker>>
    BY DEF approve
  <1>2. reviews \in Seq(Review) /\ DOMAIN reviews = 1..Len(reviews) /\ Len(reviews) \in Nat
    BY RowTypes DEF IndInv, TypeOK
  <1>3. /\ reviews' \in Seq(Review) /\ Len(reviews') = Len(reviews) + 1
        /\ \A v \in 1..Len(reviews) : reviews'[v] = reviews[v]
        /\ reviews'[Len(reviews) + 1] = review
    BY <1>1, <1>2, AppendProperties
  <1>4. DOMAIN reviews' = 1..Len(reviews) + 1
    BY <1>3, LenProperties
  <1>5. Grows
    BY <1>1, <1>2, <1>3, <1>4 DEF Grows
  <1>6. ReviewsWhole'
    <2>1. ASSUME NEW v \in DOMAIN reviews' PROVE v \in DOMAIN reviews \/ v = Len(reviews) + 1
      BY <1>2, <1>4
    <2>2. ASSUME NEW v \in DOMAIN reviews', reviews'[v].kind = "valuation"
          PROVE  results["fundamentals"][reviews'[v].source] # none
      <3>1. CASE v \in DOMAIN reviews
        BY <1>5, <2>2, <3>1 DEF IndInv, ReviewsWhole, Grows
      <3>2. CASE v = Len(reviews) + 1
        BY <1>3, <2>2, <3>2
      <3> QED
        BY <2>1, <3>1, <3>2
    <2> QED
      BY <1>1, <2>2 DEF ReviewsWhole
  <1>7. HistoryWhole'
    BY <1>1, <1>2, <1>3, PublicationAssumption DEF IndInv, HistoryWhole
  <1>8. worker' \in [Workers -> Work \cup {idle}] /\ WorkersInformed'
    BY <1>1, <1>5, WorkersKept
  <1>9. IntentsWhole' /\ RowsWhole'
    BY <1>1, <1>5, TablesKept
  <1> QED
    BY <1>1, <1>3, <1>6, <1>7, <1>8, <1>9 DEF IndInv, TypeOK, PipelineWhole

LEMMA ApproveFundamentalsOK ==
  ASSUME IndInv, NEW m \in Manifests, ApproveFundamentals(m)
  PROVE  IndInv'
  <1> DEFINE review == [kind |-> "fundamentals", manifest |-> m]
  <1>1. review \in Review /\ review.kind # "valuation" /\ approve(review)
    BY DEF Review, ApproveFundamentals
  <1> HIDE DEF review
  <1> QED
    BY <1>1, ApproveOK

LEMMA ApproveValuationOK ==
  ASSUME IndInv, NEW m \in Manifests, NEW p \in Plans, NEW r \in DOMAIN requests,
         ApproveValuation(m, p, r)
  PROVE  IndInv'
  <1> DEFINE review == [kind |-> "valuation", manifest |-> m, plan |-> p, source |-> r]
  <1>1. r \in Requests
    BY RowTypes, PublicationAssumption DEF IndInv, HistoryWhole, Requests
  <1>2. review \in Review /\ review.source = r
    BY <1>1 DEF Review
  <1>3. approve(review) /\ results["fundamentals"][r] # none
    BY DEF ApproveValuation, source_owned
  <1> HIDE DEF review
  <1> QED
    BY <1>2, <1>3, ApproveOK

\* A request is appended to the history, and a membership if it is an add.
Enqueued(parent, chosen, add) ==
    /\ memberships' = IF add THEN Append(memberships, [removed |-> FALSE]) ELSE memberships
    /\ requests' = Append(requests, new_request(IF add THEN Len(memberships) + 1 ELSE 0,
                                                parent, chosen))
    /\ control' = Append(control, queued)
    /\ UNCHANGED reviews

LEMMA EnqueuedOK ==
  ASSUME IndInv, Len(requests) < MaxRequests, NEW parent \in {0} \cup DOMAIN requests,
         NEW chosen \in {Selector(m) : m \in Manifests}, NEW add \in BOOLEAN,
         Enqueued(parent, chosen, add)
  PROVE  /\ memberships' \in Seq([removed : BOOLEAN])
         /\ requests' \in Seq(Request) /\ DOMAIN requests' = 1..Len(requests) + 1
         /\ control' \in Seq(Control) /\ Len(control') = Len(requests')
         /\ \A r \in DOMAIN requests : r \in DOMAIN requests' /\ requests'[r] = requests[r] /\ control'[r] = control[r]
         /\ requests'[Len(requests) + 1].parent = parent
         /\ HistoryWhole'
  <1> DEFINE own == IF add THEN Len(memberships) + 1 ELSE 0
             row == new_request(own, parent, chosen)
  <1>1. /\ Len(requests) \in Nat /\ Len(memberships) \in Nat /\ Len(memberships) <= Len(requests)
        /\ DOMAIN requests = 1..Len(requests) /\ Len(reviews) <= MaxReviews
        /\ requests \in Seq(Request) /\ memberships \in Seq([removed : BOOLEAN])
        /\ control \in Seq(Control) /\ Len(control) = Len(requests)
    BY RowTypes DEF IndInv, TypeOK, HistoryWhole
  <1>2. row \in Request /\ row.parent = parent /\ row.membership = own
    BY <1>1, PublicationAssumption DEF new_request, Request
  <1>3. queued \in Control
    BY PublicationAssumption DEF queued, Control
  <1>4. requests' = Append(requests, row) /\ control' = Append(control, queued) /\ reviews' = reviews
    BY DEF Enqueued
  <1> HIDE DEF row
  <1>5. /\ requests' \in Seq(Request) /\ Len(requests') = Len(requests) + 1
        /\ \A r \in 1..Len(requests) : requests'[r] = requests[r]
        /\ requests'[Len(requests) + 1] = row
    BY <1>1, <1>2, <1>4, AppendProperties
  <1>6. DOMAIN requests' = 1..Len(requests) + 1
    BY <1>5, LenProperties
  <1>7. /\ control' \in Seq(Control) /\ Len(control') = Len(control) + 1
        /\ \A r \in 1..Len(control) : control'[r] = control[r]
    BY <1>1, <1>3, <1>4, AppendProperties
  <1>8. /\ memberships' \in Seq([removed : BOOLEAN])
        /\ Len(memberships') = (IF add THEN Len(memberships) + 1 ELSE Len(memberships))
    <2>1. CASE add
      BY <1>1, <2>1, AppendProperties DEF Enqueued
    <2>2. CASE ~add
      BY <1>1, <2>2 DEF Enqueued
    <2> QED
      BY <2>1, <2>2
  <1>9. HistoryWhole'
    <2>1. Len(requests') <= MaxRequests /\ Len(memberships') <= Len(requests')
      BY <1>1, <1>5, <1>8, PublicationAssumption
    <2>2. ASSUME NEW r \in 1..Len(requests) + 1
          PROVE  requests'[r].parent < r /\ requests'[r].membership <= Len(memberships')
      <3>1. CASE r \in 1..Len(requests)
        <4>1. /\ requests[r].parent < r /\ requests[r].membership <= Len(memberships)
              /\ requests[r].membership \in Nat
          BY <1>1, <3>1, RowTypes DEF IndInv, HistoryWhole
        <4> QED
          BY <1>1, <1>5, <1>8, <3>1, <4>1
      <3>2. CASE r = Len(requests) + 1
        BY <1>1, <1>2, <1>5, <1>8, <3>2
      <3> QED
        BY <1>1, <3>1, <3>2
    <2> QED
      BY <1>1, <1>4, <1>6, <2>1, <2>2 DEF HistoryWhole
  <1> QED
    BY <1>1, <1>2, <1>5, <1>6, <1>7, <1>8, <1>9

\* The new request has published nothing.
LEMMA PipelineKept ==
  ASSUME IndInv, \A r \in DOMAIN requests : control'[r] = control[r],
         UNCHANGED <<inputs, results>>,
         \A k \in Kinds, r \in Requests : inputs[k][r] # none => intents'[k][r] = intents[k][r]
  PROVE  PipelineWhole'
  <1>1. ASSUME NEW k \in Kinds, NEW r \in Requests, results[k][r] # none
        PROVE  control'[r] = control[r]
    BY <1>1, ResultFacts
  <1> QED
    BY <1>1 DEF IndInv, PipelineWhole

LEMMA EnqueueOrdinaryOK ==
  ASSUME IndInv, NEW chosen \in {Selector(m) : m \in Manifests},
         NEW parent \in {0} \cup DOMAIN requests, NEW add \in BOOLEAN,
         EnqueueOrdinary(parent, chosen, add)
  PROVE  IndInv'
  <1>1. /\ Enqueued(parent, chosen, add) /\ Len(requests) < MaxRequests
        /\ UNCHANGED <<reviews, intents, inputs, results, latest, worker>>
    BY DEF EnqueueOrdinary, Enqueued
  <1>2. /\ memberships' \in Seq([removed : BOOLEAN])
        /\ requests' \in Seq(Request) /\ control' \in Seq(Control) /\ Len(control') = Len(requests')
        /\ \A r \in DOMAIN requests : r \in DOMAIN requests' /\ requests'[r] = requests[r] /\ control'[r] = control[r]
        /\ HistoryWhole'
    BY <1>1, EnqueuedOK
  <1>3. Grows
    BY <1>1, <1>2 DEF Grows
  <1>4. worker' \in [Workers -> Work \cup {idle}] /\ WorkersInformed'
    BY <1>1, <1>3, WorkersKept
  <1>5. IntentsWhole' /\ RowsWhole'
    BY <1>1, <1>3, TablesKept
  <1>6. PipelineWhole'
    BY <1>1, <1>2, PipelineKept
  <1> QED
    BY <1>1, <1>2, <1>4, <1>5, <1>6 DEF IndInv, TypeOK, ReviewsWhole

-----------------------------------------------------------------------------
\* The guarded upsert of a pointer only moves it forward.
LEMMA LatestRequest ==
  ASSUME TypeOK, NEW c \in Contexts, NEW r \in Requests, latest' = with_latest_request(latest, c, r)
  PROVE  /\ latest' \in [Contexts -> [request : 0..MaxRequests, snapshot : 0..MaxRequests]]
         /\ latest'[c].request >= r
         /\ \A d \in Contexts :
              /\ latest'[d].request >= latest[d].request /\ latest'[d].snapshot = latest[d].snapshot
              /\ latest'[d].request = latest[d].request \/ (d = c /\ latest'[d].request = r)
  <1> DEFINE row == [latest[c] EXCEPT !.request = r]
  <1>1. latest \in [Contexts -> [request : 0..MaxRequests, snapshot : 0..MaxRequests]]
    BY DEF TypeOK
  <1>2. r \in 0..MaxRequests /\ r \in Nat /\ \A n \in 0..MaxRequests : n \in Nat
    BY PublicationAssumption DEF Requests
  <1>3. /\ row \in [request : 0..MaxRequests, snapshot : 0..MaxRequests]
        /\ row.request = r /\ row.snapshot = latest[c].snapshot
    BY <1>1, <1>2
  <1>4. \A d \in Contexts : latest[d].request \in Nat
    BY <1>1, <1>2
  <1>5. CASE latest[c].request < r
    <2>1. latest' = [latest EXCEPT ![c] = row]
      BY <1>5 DEF with_latest_request
    <2> HIDE DEF row
    <2>2. latest'[c] = row /\ \A d \in Contexts \ {c} : latest'[d] = latest[d]
      BY <1>1, <2>1
    <2> QED
      BY <1>1, <1>2, <1>3, <1>4, <1>5, <2>1, <2>2
  <1>6. CASE ~(latest[c].request < r)
    <2>1. latest' = latest
      BY <1>6 DEF with_latest_request
    <2> QED
      BY <1>1, <1>2, <1>4, <1>6, <2>1
  <1> QED
    BY <1>5, <1>6

\* A request r is bound to a review of kind k in context c.
Bound(k, r, v, scope) ==
    /\ intents' = [intents EXCEPT ![k][r] = [review |-> v, scope |-> scope]]
    /\ latest' = with_latest_request(latest, context(v, scope), r)
    /\ UNCHANGED <<reviews, inputs, results, worker>>

LEMMA BoundOK ==
  ASSUME IndInv, HistoryWhole', requests' \in Seq(Request),
         \A q \in DOMAIN requests : q \in DOMAIN requests' /\ requests'[q] = requests[q],
         NEW v \in DOMAIN reviews, NEW r \in DOMAIN requests', NEW k \in Kinds, NEW scope \in 0..MaxRequests,
         k = reviews[v].kind, intents[k][r] = none, scope = Scope(r)',
         k = "valuation" => requests'[r].parent # 0,
         Bound(k, r, v, scope)
  PROVE  /\ intents' \in [Kinds -> [Requests -> Binding \cup {none}]]
         /\ latest' \in [Contexts -> [request : 0..MaxRequests, snapshot : 0..MaxRequests]]
         /\ IntentsWhole' /\ RowsWhole' /\ WorkersInformed'
         /\ \A j \in Kinds, q \in Requests : inputs[j][q] # none => intents'[j][q] = intents[j][q]
  <1> DEFINE bound == [review |-> v, scope |-> scope]
  <1>1. PICK c \in Contexts : c = context(v, scope) /\ c[1] \in DOMAIN reviews /\ reviews[c[1]].kind = k
    BY ContextFacts DEF IndInv
  <1>2. /\ intents' = [intents EXCEPT ![k][r] = bound] /\ latest' = with_latest_request(latest, c, r)
        /\ UNCHANGED <<reviews, inputs, results, worker>>
    BY <1>1 DEF Bound
  <1>3. r \in Requests
    <2>1. DOMAIN requests' = 1..Len(requests') /\ Len(requests') \in Nat /\ Len(requests') <= MaxRequests
      BY LenProperties DEF HistoryWhole
    <2> QED
      BY <2>1, PublicationAssumption DEF Requests
  <1>4. bound \in Binding /\ bound # none
    <2>1. v \in 1..MaxReviews
      BY RowTypes, PublicationAssumption DEF IndInv, HistoryWhole
    <2>2. bound \in Binding
      BY <2>1 DEF Binding
    <2> QED
      BY <2>2, Absent
  <1>5. intents \in [Kinds -> [Requests -> Binding \cup {none}]]
    BY DEF IndInv, TypeOK
  <1>6. bound.review = v /\ bound.scope = scope
    OBVIOUS
  <1>7. compatibility(reviews, v) = c[1] /\ c = <<compatibility(reviews, v), scope>>
    BY <1>1 DEF context
  <1> HIDE DEF bound
  <1>8. /\ intents' \in [Kinds -> [Requests -> Binding \cup {none}]]
        /\ intents'[k][r] = bound
        /\ \A j \in Kinds, q \in Requests : <<j, q>> # <<k, r>> => intents'[j][q] = intents[j][q]
    BY <1>2, <1>3, <1>4, <1>5
  <1>9. /\ latest' \in [Contexts -> [request : 0..MaxRequests, snapshot : 0..MaxRequests]]
        /\ latest'[c].request >= r
        /\ \A d \in Contexts :
             /\ latest'[d].request >= latest[d].request /\ latest'[d].snapshot = latest[d].snapshot
             /\ latest'[d].request = latest[d].request \/ (d = c /\ latest'[d].request = r)
    BY <1>2, <1>3, <1>1, LatestRequest DEF IndInv
  <1>10. \A j \in Kinds, q \in Requests : intents[j][q] # none => <<j, q>> # <<k, r>>
    OBVIOUS
  <1>11. Grows
    BY <1>2, <1>8, <1>10 DEF Grows
  <1>12. IntentWhole(k, r)' /\ bound_context(k, r)' = c
    <2>1. IntentWhole(k, r)'
      BY <1>2, <1>6, <1>8 DEF IntentWhole
    <2>2. bound_context(k, r)' = c
      BY <1>2, <1>6, <1>8, <1>7 DEF bound_context, context
    <2> QED
      BY <2>1, <2>2
  <1>13. IntentsWhole'
    <2> SUFFICES ASSUME NEW j \in Kinds, NEW q \in Requests, intents'[j][q] # none
                 PROVE  IntentWhole(j, q)' /\ latest'[bound_context(j, q)'].request >= q
      BY DEF IntentsWhole
    <2>1. CASE <<j, q>> = <<k, r>>
      BY <1>9, <1>12, <2>1
    <2>2. CASE <<j, q>> # <<k, r>>
      <3>1. intents[j][q] # none
        BY <1>8, <2>2
      <3>2. PICK d \in Contexts : d = bound_context(j, q) /\ IntentWhole(j, q)' /\ bound_context(j, q)' = d
        BY <1>11, <3>1, IntentKept
      <3>3. latest[d].request >= q
        BY <3>1, <3>2 DEF IndInv, IntentsWhole
      <3>4. latest'[d].request >= q
        <4>1. latest[d].request \in Nat /\ latest'[d].request \in Nat /\ q \in Nat
          BY <1>9, PointerTypes, PublicationAssumption DEF IndInv, Requests
        <4> QED
          BY <1>9, <3>3, <4>1
      <3> QED
        BY <3>2, <3>4
    <2> QED
      BY <2>1, <2>2
  <1>14. \A d \in Contexts, q \in 1..MaxRequests :
            Wanted(d, q) => Wanted(d, q)' /\ (Published(d, q)' <=> Published(d, q))
    BY <1>2, <1>11, WantedKept DEF Published, IndInv
  <1>15. Wanted(c, r)' /\ ~Published(c, r)'
    <2>1. Wanted(c, r)'
      BY <1>2, <1>4, <1>1, <1>8, <1>12 DEF Wanted
    <2>2. results[k][r] = none
      BY <1>3, ResultFacts
    <2>3. ~Published(c, r)'
      BY <1>2, <1>1, <2>2 DEF Published
    <2> QED
      BY <2>1, <2>3
  <1>16. RowsWhole'
    <2> SUFFICES ASSUME NEW d \in Contexts
                 PROVE  RowWhole(d, latest[d].request, latest[d].snapshot)'
      BY Zenon DEF RowsWhole
    <2>1. PICK q \in 0..MaxRequests, s \in 0..MaxRequests : q = latest[d].request /\ s = latest[d].snapshot
      BY PointerTypes DEF IndInv
    <2>2. RowWhole(d, q, s)
      BY <2>1 DEF IndInv, RowsWhole
    <2>3. PICK p \in 0..MaxRequests : p = latest'[d].request
      BY <1>9
    <2>4. s = latest'[d].snapshot /\ p >= q /\ (p = q \/ (d = c /\ p = r))
      BY <1>9, <2>1, <2>3
    <2>5. RowWhole(d, p, s)'
      <3>1. s <= p
        BY <2>2, <2>4, PublicationAssumption DEF RowWhole
      <3>2. s # 0 => Wanted(d, s)' /\ Published(d, s)'
        BY <1>14, <2>2 DEF RowWhole
      <3>3. p # 0 => Wanted(d, p)' /\ (Published(d, p)' => s = p)
        <4>1. CASE p = q
          BY <1>14, <2>2, <4>1 DEF RowWhole
        <4>2. CASE d = c /\ p = r
          BY <1>15, <4>2
        <4> QED
          BY <2>4, <4>1, <4>2
      <3> QED
        BY <3>1, <3>2, <3>3 DEF RowWhole
    <2> QED
      BY <2>3, <2>4, <2>5
  <1>17. WorkersInformed'
    BY <1>2, <1>11, WorkersKept
  <1>18. ASSUME NEW j \in Kinds, NEW q \in Requests, inputs[j][q] # none
         PROVE  intents'[j][q] = intents[j][q]
    BY <1>11, <1>18 DEF Grows, IndInv, PipelineWhole
  <1> QED
    BY <1>8, <1>9, <1>13, <1>16, <1>17, <1>18

LEMMA ScopeRange ==
  ASSUME NEW history \in Seq(Request), NEW r \in DOMAIN history
  PROVE  nearest_membership(history, r) \in 0..MaxRequests
  <1>1. DOMAIN history = 1..Len(history) /\ Len(history) \in Nat
    BY LenProperties
  <1>2. \A n \in 1..Len(history) : history[n].membership \in 0..MaxRequests
    <2>1. \A n \in 1..Len(history) : history[n] \in Request
      BY ElementOfSeq
    <2> QED
      BY <2>1 DEF Request
  <1>3. r \in Nat /\ 1..r \subseteq 1..Len(history)
    BY <1>1
  <1>4. \/ nearest_membership(history, r) = 0
        \/ \E n \in 1..r : nearest_membership(history, r) = history[n].membership
    BY <1>3, ScopeOfOne
  <1> QED
    BY <1>2, <1>3, <1>4, PublicationAssumption

LEMMA EnqueueReviewOK ==
  ASSUME IndInv, NEW v \in DOMAIN reviews, NEW parent \in {0} \cup DOMAIN requests, NEW add \in BOOLEAN,
         EnqueueReview(v, parent, add)
  PROVE  IndInv'
  <1> DEFINE members == IF add THEN Append(memberships, [removed |-> FALSE]) ELSE memberships
             own == IF add THEN Len(members) ELSE 0
             history == Append(requests, new_request(own, parent, selection(v)))
  <1>1. /\ Len(requests) < MaxRequests /\ parent_allowed(v, parent)
        /\ memberships' = members /\ requests' = history /\ control' = Append(control, queued)
        /\ bind_intent(v, Len(history), history, members)
        /\ UNCHANGED <<reviews, inputs, results, worker>>
    BY DEF EnqueueReview
  <1>2. own = IF add THEN Len(memberships) + 1 ELSE 0
    <2>1. memberships \in Seq([removed : BOOLEAN])
      BY DEF IndInv, TypeOK
    <2>2. Len(Append(memberships, [removed |-> FALSE])) = Len(memberships) + 1
      BY <2>1, AppendProperties
    <2> QED
      BY <2>2
  <1>3. selection(v) \in {Selector(m) : m \in Manifests}
    BY RowTypes DEF IndInv, Review, selection
  <1> HIDE DEF own
  <1>4. Enqueued(parent, selection(v), add)
    BY <1>1, <1>2 DEF Enqueued
  <1>5. PICK chosen \in {Selector(m) : m \in Manifests} : chosen = selection(v)
    BY <1>3
  <1>6. /\ memberships' \in Seq([removed : BOOLEAN])
        /\ requests' \in Seq(Request) /\ DOMAIN requests' = 1..Len(requests) + 1
        /\ control' \in Seq(Control) /\ Len(control') = Len(requests')
        /\ \A q \in DOMAIN requests : q \in DOMAIN requests' /\ requests'[q] = requests[q] /\ control'[q] = control[q]
        /\ requests'[Len(requests) + 1].parent = parent
        /\ HistoryWhole'
    BY <1>1, <1>4, <1>5, EnqueuedOK
  <1>7. Len(requests') = Len(requests) + 1 /\ Len(requests) \in Nat /\ DOMAIN requests = 1..Len(requests)
    BY <1>6, LenProperties, RowTypes DEF IndInv
  <1>8. PICK r \in DOMAIN requests' : r = Len(requests) + 1
    BY <1>6, <1>7
  <1>9. PICK k \in Kinds : k = reviews[v].kind
    BY RowTypes DEF IndInv
  <1>10. PICK scope \in 0..MaxRequests : scope = Scope(r)'
    BY <1>6, ScopeRange DEF Scope
  <1>11. Bound(k, r, v, scope)
    BY <1>1, <1>7, <1>8, <1>9, <1>10 DEF bind_intent, Bound, Scope
  <1>12. r \in Requests /\ intents[k][r] = none
    <2>1. r \in Requests
      BY <1>1, <1>7, <1>8, PublicationAssumption DEF Requests
    <2>2. r \notin DOMAIN requests
      BY <1>7, <1>8
    <2> QED
      BY <2>1, <2>2 DEF IndInv, IntentsWhole, IntentWhole
  <1>13. k = "valuation" => requests'[r].parent # 0
    BY <1>1, <1>6, <1>8, <1>9 DEF parent_allowed
  <1>14. /\ intents' \in [Kinds -> [Requests -> Binding \cup {none}]]
         /\ latest' \in [Contexts -> [request : 0..MaxRequests, snapshot : 0..MaxRequests]]
         /\ IntentsWhole' /\ RowsWhole' /\ WorkersInformed'
         /\ \A j \in Kinds, q \in Requests : inputs[j][q] # none => intents'[j][q] = intents[j][q]
    BY <1>6, <1>9, <1>10, <1>11, <1>12, <1>13, BoundOK
  <1>15. PipelineWhole'
    BY <1>1, <1>6, <1>14, PipelineKept
  <1>16. TypeOK'
    BY <1>1, <1>6, <1>14 DEF IndInv, TypeOK
  <1>17. ReviewsWhole'
    BY <1>1 DEF IndInv, ReviewsWhole
  <1> QED
    BY <1>6, <1>14, <1>15, <1>16, <1>17 DEF IndInv

LEMMA EnqueueReplayOK ==
  ASSUME IndInv, NEW v \in DOMAIN reviews, NEW r \in DOMAIN requests, EnqueueReplay(v, r)
  PROVE  IndInv'
  <1>1. /\ parent_allowed(v, requests[r].parent) /\ intents[reviews[v].kind][r] = none
        /\ bind_intent(v, r, requests, memberships)
        /\ UNCHANGED <<memberships, requests, control, reviews, inputs, results, worker>>
    BY DEF EnqueueReplay
  <1>2. requests \in Seq(Request) /\ HistoryWhole'
    BY <1>1 DEF IndInv, TypeOK, HistoryWhole
  <1>3. PICK k \in Kinds : k = reviews[v].kind
    BY RowTypes DEF IndInv
  <1>4. PICK scope \in 0..MaxRequests : scope = nearest_membership(requests, r)
    BY <1>2, ScopeRange
  <1>5. scope = Scope(r)'
    BY <1>1, <1>4 DEF Scope
  <1>6. Bound(k, r, v, scope)
    BY <1>1, <1>3, <1>4 DEF bind_intent, Bound
  <1>7. k = "valuation" => requests'[r].parent # 0
    BY <1>1, <1>3 DEF parent_allowed
  <1>8. /\ r \in DOMAIN requests' /\ requests' \in Seq(Request) /\ intents[k][r] = none
        /\ \A q \in DOMAIN requests : q \in DOMAIN requests' /\ requests'[q] = requests[q]
    BY <1>1, <1>2, <1>3
  <1>9. /\ intents' \in [Kinds -> [Requests -> Binding \cup {none}]]
        /\ latest' \in [Contexts -> [request : 0..MaxRequests, snapshot : 0..MaxRequests]]
        /\ IntentsWhole' /\ RowsWhole' /\ WorkersInformed'
        /\ \A j \in Kinds, q \in Requests : inputs[j][q] # none => intents'[j][q] = intents[j][q]
    BY <1>2, <1>3, <1>5, <1>6, <1>7, <1>8, BoundOK
  <1>10. PipelineWhole'
    BY <1>1, <1>9, PipelineKept
  <1>11. TypeOK' /\ ReviewsWhole'
    BY <1>1, <1>9 DEF IndInv, TypeOK, ReviewsWhole
  <1> QED
    BY <1>2, <1>9, <1>10, <1>11 DEF IndInv

\* Freezing an input does not move the pointer: its intent did.
LEMMA FreezeOK ==
  ASSUME IndInv, NEW w \in Workers, Freeze(w)
  PROVE  IndInv'
  <1>1. worker[w].pc = "started" /\ worker[w] # idle
    BY Absent DEF Freeze, freezable
  <1>2. PICK r \in DOMAIN requests, k \in Kinds :
            r = worker[w].request /\ k = worker[w].kind /\ r \in Requests /\ intents[k][r] # none
    BY <1>1, JobFacts
  <1> DEFINE bound == [review |-> intents[k][r].review, scope |-> Scope(r)]
  <1>3. /\ IF inputs[k][r] # none THEN UNCHANGED <<inputs, latest>>
           ELSE /\ inputs' = [inputs EXCEPT ![k][r] = bound]
                /\ latest' = with_latest_request(latest, bound_context(k, r), r)
        /\ worker' = [worker EXCEPT ![w].pc = "frozen"]
        /\ UNCHANGED <<memberships, requests, control, reviews, intents, results>>
    BY <1>2 DEF Freeze, Scope, bound_context
  <1>4. bound = intents[k][r]
    <2>1. intents[k][r] \in Binding
      BY <1>2 DEF IndInv, TypeOK
    <2>2. intents[k][r].scope = Scope(r)
      BY <1>2 DEF IndInv, IntentsWhole, IntentWhole
    <2> QED
      BY <2>1, <2>2 DEF Binding
  <1> HIDE DEF bound
  <1>5. latest' = latest
    <2>1. IntentWhole(k, r) /\ latest[bound_context(k, r)].request >= r /\ r \in Nat
      BY <1>2, PublicationAssumption DEF IndInv, IntentsWhole, Requests
    <2>2. bound_context(k, r) \in Contexts
      BY <2>1, ScopeType, ContextFacts DEF IndInv, IntentWhole, bound_context
    <2>3. ~(latest[bound_context(k, r)].request < r)
      BY <2>1, <2>2, PointerTypes, PublicationAssumption DEF IndInv
    <2> QED
      BY <1>3, <2>3 DEF with_latest_request
  <1>6. inputs \in [Kinds -> [Requests -> Binding \cup {none}]] /\ intents[k][r] \in Binding
    BY <1>2 DEF IndInv, TypeOK
  <1>7. /\ inputs' \in [Kinds -> [Requests -> Binding \cup {none}]] /\ inputs'[k][r] # none
        /\ inputs'[k][r] = intents[k][r]
        /\ \A j \in Kinds, q \in Requests : <<j, q>> # <<k, r>> => inputs'[j][q] = inputs[j][q]
        /\ \A j \in Kinds, q \in Requests : inputs[j][q] # none => inputs'[j][q] = inputs[j][q]
    <2>1. CASE inputs[k][r] # none
      BY <1>2, <1>3, <1>6, <2>1 DEF IndInv, PipelineWhole
    <2>2. CASE inputs[k][r] = none
      <3>1. inputs' = [inputs EXCEPT ![k][r] = intents[k][r]]
        BY <1>3, <1>4, <2>2
      <3> QED
        BY <1>2, <1>6, <2>2, <3>1
    <2> QED
      BY <2>1, <2>2
  <1>8. Grows
    BY <1>3, <1>7 DEF Grows
  <1>9. IntentsWhole' /\ RowsWhole'
    BY <1>3, <1>5, <1>8, TablesKept
  <1>10. worker' \in [Workers -> Work \cup {idle}] /\ WorkersInformed'
    BY <1>1, <1>2, <1>3, <1>7, <1>8, WorkerMoves
  <1>11. PipelineWhole'
    <2> SUFFICES ASSUME NEW j \in Kinds, NEW q \in Requests
                 PROVE  /\ inputs'[j][q] # none => intents[j][q] # none /\ inputs'[j][q] = intents[j][q]
                        /\ results[j][q] # none =>
                              /\ inputs'[j][q] # none
                              /\ control[q].state = results[j][q].outcome
                              /\ control[q].attempt = results[j][q].attempt
                              /\ \A other \in Kinds \ {j} : results[other][q] = none
      BY <1>3 DEF PipelineWhole
    <2>1. CASE <<j, q>> = <<k, r>>
      BY <1>2, <1>7, <2>1 DEF IndInv, PipelineWhole
    <2>2. CASE <<j, q>> # <<k, r>>
      BY <1>7, <2>2 DEF IndInv, PipelineWhole
    <2> QED
      BY <2>1, <2>2
  <1> QED
    BY <1>3, <1>5, <1>7, <1>9, <1>10, <1>11 DEF IndInv, TypeOK, HistoryWhole, ReviewsWhole

\* A result is displayed if its request is still the newest of its context.
LEMMA PublishedRows ==
  ASSUME IndInv, Grows, NEW k \in Kinds, NEW r \in Requests, intents[k][r] # none,
         NEW c \in Contexts, c = bound_context(k, r), latest' = with_displayed(latest, c, r),
         results'[k][r] # none, UNCHANGED <<intents, reviews>>,
         \A j \in Kinds, q \in Requests : <<j, q>> # <<k, r>> => results'[j][q] = results[j][q]
  PROVE  /\ latest' \in [Contexts -> [request : 0..MaxRequests, snapshot : 0..MaxRequests]]
         /\ \A d \in Contexts : latest'[d].request = latest[d].request
         /\ RowsWhole'
  <1> DEFINE row == [latest[c] EXCEPT !.snapshot = r]
  <1>1. latest \in [Contexts -> [request : 0..MaxRequests, snapshot : 0..MaxRequests]]
    BY DEF IndInv, TypeOK
  <1>2. r \in 0..MaxRequests /\ r # 0
    BY PublicationAssumption DEF Requests
  <1>3. /\ row \in [request : 0..MaxRequests, snapshot : 0..MaxRequests]
        /\ row.snapshot = r /\ row.request = latest[c].request
    BY <1>1, <1>2
  <1>4. latest' = IF latest[c].request = r THEN [latest EXCEPT ![c] = row] ELSE latest
    BY DEF with_displayed
  <1> HIDE DEF row
  <1>5. /\ latest' \in [Contexts -> [request : 0..MaxRequests, snapshot : 0..MaxRequests]]
        /\ \A d \in Contexts :
             /\ latest'[d].request = latest[d].request
             /\ latest'[d].snapshot = IF d = c /\ latest[c].request = r THEN r ELSE latest[d].snapshot
    BY <1>1, <1>3, <1>4
  <1>6. ASSUME NEW d \in Contexts, NEW q \in 1..MaxRequests, Wanted(d, q), ~(d = c /\ q = r)
        PROVE  Wanted(d, q)' /\ (Published(d, q)' <=> Published(d, q))
    <2>1. PICK j \in Kinds : j = reviews[d[1]].kind /\ q \in Requests /\ bound_context(j, q) = d
      BY <1>6, WantedFacts
    <2>2. <<j, q>> # <<k, r>>
      BY <1>6, <2>1
    <2>3. results'[j][q] = results[j][q]
      BY <2>1, <2>2
    <2>4. Wanted(d, q)' /\ reviews'[d[1]].kind = j
      BY <1>6, <2>1, WantedKept
    <2> QED
      BY <2>1, <2>3, <2>4 DEF Published
  <1>7. Wanted(c, r)' /\ Published(c, r)'
    <2>1. IntentWhole(k, r)
      BY DEF IndInv, IntentsWhole
    <2>2. c[1] \in DOMAIN reviews /\ reviews[c[1]].kind = k
      BY <2>1, ScopeType, ContextFacts DEF IndInv, IntentWhole, bound_context
    <2>3. r \in 1..MaxRequests
      BY DEF Requests
    <2>4. Wanted(c, r)
      BY <2>2 DEF Wanted
    <2>5. Wanted(c, r)'
      BY <2>3, <2>4, WantedKept
    <2>6. Published(c, r)'
      BY <2>2 DEF Published
    <2> QED
      BY <2>5, <2>6
  <1>8. RowsWhole'
    <2> SUFFICES ASSUME NEW d \in Contexts
                 PROVE  RowWhole(d, latest[d].request, latest[d].snapshot)'
      BY Zenon DEF RowsWhole
    <2>1. PICK q \in 0..MaxRequests, s \in 0..MaxRequests : q = latest[d].request /\ s = latest[d].snapshot
      BY PointerTypes DEF IndInv
    <2>2. RowWhole(d, q, s)
      BY <2>1 DEF IndInv, RowsWhole
    <2>3. CASE d = c /\ q = r
      <3>1. latest'[d].request = r /\ latest'[d].snapshot = r
        BY <1>5, <2>1, <2>3
      <3>2. RowWhole(d, r, r)'
        BY <1>2, <1>7, <2>3 DEF RowWhole
      <3> QED
        BY <3>1, <3>2
    <2>4. CASE ~(d = c /\ q = r)
      <3>1. latest'[d].request = q /\ latest'[d].snapshot = s
        BY <1>5, <2>1, <2>4
      <3>2. s # 0 => Wanted(d, s)' /\ Published(d, s)'
        <4>1. CASE d = c /\ s = r
          BY <1>7, <4>1
        <4>2. CASE ~(d = c /\ s = r)
          BY <1>6, <2>2, <4>2 DEF RowWhole
        <4> QED
          BY <4>1, <4>2
      <3>3. q # 0 => Wanted(d, q)' /\ (Published(d, q)' => s = q)
        BY <1>6, <2>2, <2>4 DEF RowWhole
      <3>4. RowWhole(d, q, s)'
        BY <2>2, <3>2, <3>3 DEF RowWhole
      <3> QED
        BY <3>1, <3>4
    <2> QED
      BY <2>3, <2>4
  <1> QED
    BY <1>5, <1>8

LEMMA PublishOK ==
  ASSUME IndInv, NEW w \in Workers, NEW outcome \in Outcomes, Publish(w, outcome)
  PROVE  IndInv'
  <1>1. worker[w].pc = "frozen" /\ worker[w] # idle
    BY Absent DEF Publish, publishable
  <1>2. PICK r \in DOMAIN requests, k \in Kinds :
            /\ r = worker[w].request /\ k = worker[w].kind /\ r \in Requests /\ intents[k][r] # none
            /\ inputs[k][r] # none /\ worker[w] \in Work
    BY <1>1, JobFacts DEF IndInv, WorkersInformed
  <1> DEFINE result == [attempt |-> worker[w].attempt, outcome |-> outcome]
             row == [control[r] EXCEPT !.state = outcome, !.stage = "none"]
  <1>3. /\ control[r].state = "running" /\ control[r].attempt = worker[w].attempt
        /\ results[k][r] = none /\ results' = [results EXCEPT ![k][r] = result]
        /\ control' = [control EXCEPT ![r].state = outcome, ![r].stage = "none"]
        /\ latest' = with_displayed(latest, context(inputs[k][r].review, inputs[k][r].scope), r)
        /\ worker' = [worker EXCEPT ![w] = idle]
        /\ UNCHANGED <<memberships, requests, reviews, intents, inputs>>
    BY <1>2 DEF Publish, publishable, holds_lease
  <1>4. inputs[k][r] = intents[k][r] /\ IntentWhole(k, r)
    BY <1>2 DEF IndInv, PipelineWhole, IntentsWhole
  <1>5. PICK c \in Contexts : c = bound_context(k, r)
    BY <1>4, ScopeType, ContextFacts DEF IndInv, IntentWhole, bound_context
  <1>6. latest' = with_displayed(latest, c, r)
    BY <1>3, <1>4, <1>5 DEF IntentWhole, bound_context
  <1>7. control' = [control EXCEPT ![r] = row]
    BY <1>3
  <1>8. row \in Control /\ control[r] \in Control
    BY ControlRows DEF IndInv
  <1>9. row.state = outcome /\ row.attempt = worker[w].attempt
    BY <1>3, <1>8 DEF Control
  <1>10. result \in Result /\ result # none /\ result.outcome = outcome /\ result.attempt = worker[w].attempt
    <2>1. result \in Result
      BY <1>2 DEF Work, Result
    <2> QED
      BY <2>1, Absent
  <1> HIDE DEF row, result
  <1>11. /\ control' \in Seq(Control) /\ Len(control') = Len(requests)
         /\ \A q \in DOMAIN requests \ {r} : control'[q] = control[q]
    BY <1>7, <1>8, ControlTypes DEF IndInv
  <1>12. control'[r] = row
    <2>1. r \in DOMAIN control
      BY RowTypes DEF IndInv
    <2> QED
      BY <1>7, <2>1
  <1>13. results \in [Kinds -> [Requests -> Result \cup {none}]]
    BY DEF IndInv, TypeOK
  <1>14. /\ results' \in [Kinds -> [Requests -> Result \cup {none}]]
         /\ results'[k][r] = result
         /\ \A j \in Kinds, q \in Requests : <<j, q>> # <<k, r>> => results'[j][q] = results[j][q]
    BY <1>2, <1>3, <1>10, <1>13
  <1>15. Grows
    BY <1>3, <1>14 DEF Grows
  <1>16. /\ latest' \in [Contexts -> [request : 0..MaxRequests, snapshot : 0..MaxRequests]]
         /\ \A d \in Contexts : latest'[d].request = latest[d].request
         /\ RowsWhole'
    <2>1. results'[k][r] # none /\ UNCHANGED <<intents, reviews>>
      BY <1>3, <1>10, <1>14
    <2> QED
      BY <1>2, <1>5, <1>6, <1>14, <1>15, <2>1, PublishedRows
  <1>17. IntentsWhole'
    <2> SUFFICES ASSUME NEW j \in Kinds, NEW q \in Requests, intents[j][q] # none
                 PROVE  IntentWhole(j, q)' /\ latest'[bound_context(j, q)'].request >= q
      BY <1>3 DEF IntentsWhole
    <2>1. /\ IntentWhole(j, q)' /\ bound_context(j, q)' = bound_context(j, q)
          /\ bound_context(j, q) \in Contexts
      BY <1>15, IntentKept
    <2>2. latest[bound_context(j, q)].request >= q
      BY DEF IndInv, IntentsWhole
    <2> QED
      BY <1>16, <2>1, <2>2
  <1>18. worker' \in [Workers -> Work \cup {idle}] /\ WorkersInformed'
    BY <1>3, <1>15, WorkerIdles
  <1>19. ASSUME NEW j \in Kinds, NEW q \in Requests, results[j][q] # none
         PROVE  q \in DOMAIN requests /\ q # r
    BY <1>3, <1>19, ResultFacts DEF open
  <1>20. PipelineWhole'
    <2> DEFINE Done(j, q) ==
            /\ inputs[j][q] # none
            /\ control'[q].state = results'[j][q].outcome
            /\ control'[q].attempt = results'[j][q].attempt
            /\ \A other \in Kinds \ {j} : results'[other][q] = none
    <2>1. ASSUME NEW j \in Kinds, NEW q \in Requests, results'[j][q] # none
          PROVE  Done(j, q)
      <3>1. CASE <<j, q>> = <<k, r>>
        <4>1. \A other \in Kinds \ {j} : results'[other][q] = none
          BY <1>14, <1>19, <3>1
        <4> QED
          BY <1>2, <1>9, <1>10, <1>12, <1>14, <3>1, <4>1
      <3>2. CASE <<j, q>> # <<k, r>>
        <4>1. results'[j][q] = results[j][q] /\ q \in DOMAIN requests /\ q # r
          BY <1>14, <1>19, <2>1, <3>2
        <4>2. control'[q] = control[q] /\ \A other \in Kinds \ {j} : results'[other][q] = results[other][q]
          BY <1>11, <1>14, <4>1
        <4> QED
          BY <2>1, <4>1, <4>2 DEF IndInv, PipelineWhole
      <3> QED
        BY <2>1, <3>1, <3>2
    <2>2. \A j \in Kinds, q \in Requests :
            inputs[j][q] # none => intents[j][q] # none /\ inputs[j][q] = intents[j][q]
      BY DEF IndInv, PipelineWhole
    <2>3. inputs' = inputs /\ intents' = intents
      BY <1>3
    <2> QED
      BY <2>1, <2>2, <2>3 DEF PipelineWhole
  <1>21. ReviewsWhole'
    <2>1. ASSUME NEW v \in DOMAIN reviews, reviews[v].kind = "valuation"
          PROVE  results'["fundamentals"][reviews[v].source] # none
      <3>1. results["fundamentals"][reviews[v].source] # none /\ reviews[v].source \in Requests
        BY <2>1, RowTypes DEF IndInv, ReviewsWhole
      <3>2. "fundamentals" \in Kinds
        BY DEF Kinds
      <3> QED
        BY <1>15, <3>1, <3>2 DEF Grows
    <2> QED
      BY <1>3, <2>1 DEF ReviewsWhole
  <1>22. TypeOK' /\ HistoryWhole'
    BY <1>3, <1>11, <1>14, <1>16, <1>18 DEF IndInv, TypeOK, HistoryWhole
  <1> QED
    BY <1>16, <1>17, <1>18, <1>20, <1>21, <1>22 DEF IndInv

-----------------------------------------------------------------------------
LEMMA InitOK == Init => IndInv
  <1> SUFFICES ASSUME Init PROVE IndInv
    OBVIOUS
  <1> USE PublicationAssumption DEF Init
  <1>1. TypeOK
    BY DEF TypeOK, Kinds
  <1>2. HistoryWhole /\ ReviewsWhole
    BY DEF HistoryWhole, ReviewsWhole
  <1>3. IntentsWhole /\ PipelineWhole /\ WorkersInformed
    BY DEF IntentsWhole, PipelineWhole, WorkersInformed
  <1>4. RowsWhole
    BY DEF RowsWhole, RowWhole
  <1> QED
    BY <1>1, <1>2, <1>3, <1>4 DEF IndInv

LEMMA NextOK == IndInv /\ [Next]_vars => IndInv'
  <1> SUFFICES ASSUME IndInv, [Next]_vars PROVE IndInv'
    OBVIOUS
  <1>1. CASE Client
    BY <1>1, ApproveFundamentalsOK, ApproveValuationOK, EnqueueReviewOK, EnqueueOrdinaryOK,
       EnqueueReplayOK, RemoveMembershipOK, CancelOK DEF Client
  <1>2. ASSUME NEW w \in Workers, WorkerStep(w) PROVE IndInv'
    BY <1>2, ClaimOK, StartStageOK, FreezeOK, PublishOK, WorkerStopsOK DEF WorkerStep
  <1>3. ASSUME NEW r \in DOMAIN requests, CloseRetry(r) PROVE IndInv'
    BY <1>3, CloseRetryOK
  <1>4. CASE UNCHANGED vars
    <2>1. UNCHANGED <<memberships, requests, control, reviews, intents, inputs, results, latest, worker>>
      BY <1>4 DEF vars
    <2>2. Grows
      BY <2>1 DEF Grows
    <2>3. IntentsWhole' /\ RowsWhole'
      BY <2>1, <2>2, TablesKept
    <2> QED
      BY <2>1, <2>3 DEF IndInv, TypeOK, HistoryWhole, ReviewsWhole, PipelineWhole, WorkersInformed
  <1> QED
    BY <1>1, <1>2, <1>3, <1>4 DEF Next

\* Every reachable state satisfies the inductive invariant.
THEOREM Invariance == Spec => []IndInv
  BY InitOK, NextOK, PTL DEF Spec

-----------------------------------------------------------------------------
\* What an input that was frozen, and a result that was published, rest on.
LEMMA FrozenFor ==
  ASSUME IndInv, NEW k \in Kinds, NEW r \in Requests, inputs[k][r] # none
  PROVE  /\ intents[k][r] # none /\ inputs[k][r] = intents[k][r] /\ IntentWhole(k, r)
         /\ context(inputs[k][r].review, inputs[k][r].scope) = bound_context(k, r)
         /\ bound_context(k, r) \in Contexts /\ reviews[bound_context(k, r)[1]].kind = k
         /\ bound_context(k, r)[1] \in DOMAIN reviews
  <1>1. intents[k][r] # none /\ inputs[k][r] = intents[k][r] /\ IntentWhole(k, r)
    BY DEF IndInv, PipelineWhole, IntentsWhole
  <1>2. context(inputs[k][r].review, inputs[k][r].scope) = bound_context(k, r)
    BY <1>1 DEF IntentWhole, bound_context
  <1>3. /\ bound_context(k, r) \in Contexts /\ reviews[bound_context(k, r)[1]].kind = k
        /\ bound_context(k, r)[1] \in DOMAIN reviews
    BY <1>1, ScopeType, ContextFacts DEF IndInv, IntentWhole, bound_context
  <1> QED
    BY <1>1, <1>2, <1>3

\* A reader of a context is never shown less than the newest publication in it,
\* and the latest tables only hold requests and results of their own context
\* (the upserts of *_enqueue and *_publish and the latest_guard triggers).
THEOREM LatestRight == Spec => []LatestIsRight
  <1>1. IndInv => LatestIsRight
    <2> SUFFICES ASSUME IndInv PROVE LatestIsRight
      OBVIOUS
    <2>1. TypeOK
      BY DEF IndInv
    <2>2. ASSUME NEW k \in Kinds, NEW r \in Requests, results[k][r] # none
          PROVE  LET c == context(inputs[k][r].review, inputs[k][r].scope)
                     seen == get_latest(c)
                 IN  /\ seen = none => ~eligible(c[2], memberships)
                     /\ seen # none => seen.request >= r
                     /\ seen # none /\ seen.request = r =>
                          seen.snapshot = r /\ seen.state = results[k][r].outcome
      <3>1. inputs[k][r] # none /\ control[r].state = results[k][r].outcome
        BY <2>2 DEF IndInv, PipelineWhole
      <3>2. PICK c \in Contexts :
              /\ c = context(inputs[k][r].review, inputs[k][r].scope) /\ c = bound_context(k, r)
              /\ reviews[c[1]].kind = k /\ intents[k][r] # none
        BY <3>1, FrozenFor
      <3>3. latest[c].request >= r /\ latest[c].request # 0 /\ latest[c].request \in Nat /\ r \in Nat
        <4>1. latest[c].request >= r
          BY <3>2 DEF IndInv, IntentsWhole
        <4> QED
          BY <4>1, PointerTypes, PublicationAssumption DEF IndInv, Requests
      <3>4. latest[c].request = r => latest[c].snapshot = r
        BY <2>2, <3>2, <3>3 DEF IndInv, RowsWhole, RowWhole, Published
      <3> DEFINE answer == [request |-> latest[c].request, state |-> control[latest[c].request].state,
                            snapshot |-> latest[c].snapshot]
      <3>5. /\ answer.request = latest[c].request /\ answer.snapshot = latest[c].snapshot
            /\ answer.state = control[latest[c].request].state
        OBVIOUS
      <3>6. get_latest(c) = IF ~eligible(c[2], memberships) THEN none ELSE answer
        BY <3>3 DEF get_latest
      <3>7. answer # none
        BY DEF none
      <3> HIDE DEF answer
      <3>8. /\ get_latest(c) = none => ~eligible(c[2], memberships)
            /\ get_latest(c) # none => get_latest(c).request >= r
            /\ get_latest(c) # none /\ get_latest(c).request = r =>
                 get_latest(c).snapshot = r /\ get_latest(c).state = results[k][r].outcome
        BY <3>1, <3>3, <3>4, <3>5, <3>6, <3>7
      <3> QED
        BY <3>2, <3>8
    <2>3. LatestIsNewest
      BY <2>2 DEF LatestIsNewest
    <2>4. ASSUME NEW c \in Contexts, NEW r \in 1..MaxRequests, Wanted(c, r)
          PROVE  /\ intents[reviews[c[1]].kind][r] # none
                 /\ context(intents[reviews[c[1]].kind][r].review, nearest_membership(requests, r)) = c
                 /\ Published(c, r) =>
                      /\ results[reviews[c[1]].kind][r] # none
                      /\ context(inputs[reviews[c[1]].kind][r].review,
                                 inputs[reviews[c[1]].kind][r].scope) = c
      <3>1. PICK k \in Kinds : k = reviews[c[1]].kind /\ intents[k][r] # none /\ bound_context(k, r) = c
        BY <2>4, WantedFacts
      <3>2. context(intents[k][r].review, nearest_membership(requests, r)) = c
        BY <3>1 DEF bound_context, Scope
      <3>3. ASSUME results[k][r] # none PROVE context(inputs[k][r].review, inputs[k][r].scope) = c
        BY <3>1, <3>3, FrozenFor, ResultFacts DEF Requests
      <3> QED
        BY <3>1, <3>2, <3>3 DEF Published
    <2>5. ASSUME NEW c \in Contexts
          PROVE  /\ latest[c].request # 0 => latest[c].request \in 1..MaxRequests /\ Wanted(c, latest[c].request)
                 /\ latest[c].snapshot # 0 =>
                      /\ latest[c].snapshot \in 1..MaxRequests
                      /\ Wanted(c, latest[c].snapshot) /\ Published(c, latest[c].snapshot)
      BY PointerTypes, PublicationAssumption DEF IndInv, RowsWhole, RowWhole
    <2>6. LatestInContext
      BY <2>4, <2>5 DEF LatestInContext
    <2> QED
      BY <2>1, <2>3, <2>6 DEF LatestIsRight
  <1> QED
    BY <1>1, Invariance, PTL

\* A result is published once, by the attempt that finished its request, from
\* the input reviewed for it, and a valuation from a source that was saved
\* (the fences of *_publish, valuation_review_guard and valuation_enqueue).
THEOREM ResultsRight == Spec => []ResultsAreRight
  <1>1. IndInv => ResultsAreRight
    <2> SUFFICES ASSUME IndInv PROVE ResultsAreRight
      OBVIOUS
    <2>1. PublishedOnce
      BY FrozenFor DEF PublishedOnce, IndInv, PipelineWhole
    <2>2. ASSUME NEW r \in Requests, results["valuation"][r] # none
          PROVE  /\ results["fundamentals"][reviews[inputs["valuation"][r].review].source] # none
                 /\ requests[r].parent # 0
      <3>1. "valuation" \in Kinds
        BY DEF Kinds
      <3>2. inputs["valuation"][r] # none
        BY <2>2, <3>1, ResultFacts
      <3>3. IntentWhole("valuation", r) /\ inputs["valuation"][r] = intents["valuation"][r]
        BY <3>1, <3>2, FrozenFor
      <3> QED
        BY <3>3 DEF IntentWhole, IndInv, ReviewsWhole
    <2> QED
      BY <2>1, <2>2 DEF ResultsAreRight, ValuationHasSource
  <1> QED
    BY <1>1, Invariance, PTL

\* A removed membership gets no result: publication looks at the membership
\* again, and the frozen scope is still the nearest one.
THEOREM RemovedGetsNothing == Spec => RemovedMembershipGetsNoResult
  <1>1. ASSUME IndInv, [Next]_vars, NEW k \in Kinds, NEW r \in Requests,
               results[k][r] = none, results'[k][r] # none
        PROVE  eligible(nearest_membership(requests, r), memberships)
    <2>1. PICK w \in Workers, outcome \in Outcomes : Publish(w, outcome)
      BY <1>1 DEF Next, Client, WorkerStep, vars, ApproveFundamentals, ApproveValuation, approve,
         EnqueueReview, EnqueueOrdinary, EnqueueReplay, RemoveMembership, Cancel, CloseRetry,
         Claim, StartStage, Freeze, WorkerStops
    <2>2. PICK q \in Requests, j \in Kinds : q = worker[w].request /\ j = worker[w].kind /\ inputs[j][q] # none
      <3>1. worker[w].pc = "frozen" /\ worker[w] # idle
        BY <2>1, Absent DEF Publish, publishable
      <3> QED
        BY <1>1, <3>1, JobFacts DEF IndInv, WorkersInformed
    <2>3. \E x : results' = [results EXCEPT ![j][q] = x]
      BY <2>1, <2>2 DEF Publish
    <2>4. results \in [Kinds -> [Requests -> Result \cup {none}]]
      BY <1>1 DEF IndInv, TypeOK
    <2>5. j = k /\ q = r
      BY <1>1, <2>3, <2>4
    <2>6. eligible(inputs[j][q].scope, memberships)
      BY <2>1, <2>2 DEF Publish, scope_still_eligible
    <2> QED
      BY <1>1, <2>2, <2>5, <2>6, FrozenFor DEF IntentWhole, Scope
  <1>2. IndInv /\ [Next]_vars =>
          [\A k \in Kinds, r \in Requests :
             (results[k][r] = none /\ results'[k][r] # none)
                => eligible(nearest_membership(requests, r), memberships)]_vars
    BY <1>1
  <1> QED
    BY <1>2, Invariance, PTL DEF Spec, RemovedMembershipGetsNoResult

\* Every step moves at most one pointer, by one of the two guarded updates.
LEMMA PointerMoves ==
  ASSUME IndInv, [Next]_vars
  PROVE  \/ latest' = latest
         \/ \E c, r : latest' = with_latest_request(latest, c, r)
         \/ \E c, r : latest' = with_displayed(latest, c, r)
  <1>1. ASSUME NEW v \in DOMAIN reviews, NEW parent \in {0} \cup DOMAIN requests, NEW add \in BOOLEAN,
               EnqueueReview(v, parent, add)
        PROVE  \E c, r : latest' = with_latest_request(latest, c, r)
    BY <1>1 DEF EnqueueReview, bind_intent
  <1>2. ASSUME NEW v \in DOMAIN reviews, NEW r \in DOMAIN requests, EnqueueReplay(v, r)
        PROVE  \E c, q : latest' = with_latest_request(latest, c, q)
    BY <1>2 DEF EnqueueReplay, bind_intent
  <1>3. ASSUME NEW w \in Workers, Freeze(w)
        PROVE  latest' = latest \/ \E c, r : latest' = with_latest_request(latest, c, r)
    BY <1>3 DEF Freeze
  <1>4. ASSUME NEW w \in Workers, NEW outcome \in Outcomes, Publish(w, outcome)
        PROVE  \E c, r : latest' = with_displayed(latest, c, r)
    BY <1>4 DEF Publish
  <1>5. CASE UNCHANGED latest
    BY <1>5
  <1> QED
    BY <1>1, <1>2, <1>3, <1>4, <1>5 DEF Next, Client, WorkerStep, vars, ApproveFundamentals, ApproveValuation,
       approve, EnqueueOrdinary, RemoveMembership, Cancel, CloseRetry, Claim, StartStage, WorkerStops

\* The rows of the latest tables are forward-moving pointers: a newer request
\* may take over, and only the newest request is ever displayed.
THEOREM Refinement == Spec => LatestRowsImplementPointer
  <1> DEFINE Row == [request : 0..MaxRequests, snapshot : 0..MaxRequests]
             wanted == [c \in Contexts |-> latest[c].request]
             shown == [c \in Contexts |-> latest[c].snapshot]
  <1>1. Init => Pointer!Init
    BY DEF Init, Pointer!Init
  <1>2. ASSUME IndInv, IndInv', [Next]_vars
        PROVE  (\E c \in Contexts : Pointer!Want(c) \/ Pointer!Show(c)) \/ UNCHANGED <<wanted, shown>>
    <2>1. latest \in [Contexts -> Row] /\ latest' \in [Contexts -> Row]
      BY <1>2 DEF IndInv, TypeOK
    <2>2. ASSUME NEW c \in Contexts, NEW r, latest[c].request < r, latest' = [latest EXCEPT ![c].request = r]
          PROVE  Pointer!Want(c)
      <3>1. /\ latest'[c].request = r /\ latest'[c].snapshot = latest[c].snapshot
            /\ \A d \in Contexts \ {c} : latest'[d] = latest[d]
        BY <2>1, <2>2
      <3>2. shown' = shown
        BY <3>1
      <3>3. wanted' = [wanted EXCEPT ![c] = r]
        BY <3>1
      <3>4. wanted[c] = latest[c].request
        OBVIOUS
      <3>5. r \in (latest[c].request + 1)..MaxRequests
        BY <2>1, <2>2, <3>1, PublicationAssumption
      <3> HIDE DEF wanted, shown
      <3>6. \E q \in (wanted[c] + 1)..MaxRequests : wanted' = [wanted EXCEPT ![c] = q]
        BY <3>3, <3>4, <3>5
      <3> USE DEF wanted, shown
      <3> QED
        BY <3>2, <3>6 DEF Pointer!Want
    <2>3. ASSUME NEW c \in Contexts, NEW r, latest[c].request = r, latest' = [latest EXCEPT ![c].snapshot = r]
          PROVE  Pointer!Show(c) \/ UNCHANGED <<wanted, shown>>
      <3>1. /\ latest'[c].snapshot = r /\ latest'[c].request = latest[c].request
            /\ \A d \in Contexts \ {c} : latest'[d] = latest[d]
        BY <2>1, <2>3
      <3>2. wanted' = wanted
        BY <3>1
      <3>3. shown' = [shown EXCEPT ![c] = r]
        BY <3>1
      <3>4. wanted[c] = r /\ shown[c] = latest[c].snapshot
        BY <2>3
      <3>5. latest[c].snapshot <= latest[c].request
        BY <1>2 DEF IndInv, RowsWhole, RowWhole
      <3>6. wanted[c] > shown[c] \/ shown[c] = r
        BY <2>1, <2>3, <3>4, <3>5, PublicationAssumption
      <3>7. shown[c] = r => shown' = shown
        BY <3>3
      <3> QED
        BY <3>2, <3>3, <3>4, <3>6, <3>7 DEF Pointer!Show
    <2>4. CASE latest' = latest
      BY <2>4
    <2>5. ASSUME NEW c, NEW r, latest' = with_latest_request(latest, c, r), latest' # latest
          PROVE  \E d \in Contexts : Pointer!Want(d)
      <3>1. latest[c].request < r /\ latest' = [latest EXCEPT ![c].request = r]
        BY <2>5 DEF with_latest_request
      <3>2. c \in Contexts
        BY <2>1, <2>5, <3>1
      <3> QED
        BY <2>2, <3>1, <3>2
    <2>6. ASSUME NEW c, NEW r, latest' = with_displayed(latest, c, r), latest' # latest
          PROVE  (\E d \in Contexts : Pointer!Show(d)) \/ UNCHANGED <<wanted, shown>>
      <3>1. latest[c].request = r /\ latest' = [latest EXCEPT ![c].snapshot = r]
        BY <2>6 DEF with_displayed
      <3>2. c \in Contexts
        BY <2>1, <2>6, <3>1
      <3> QED
        BY <2>3, <3>1, <3>2
    <2> HIDE DEF wanted, shown
    <2> QED
      BY <1>2, <2>4, <2>5, <2>6, PointerMoves
  <1>3. IndInv /\ IndInv' /\ [Next]_vars =>
          [\E c \in Contexts : Pointer!Want(c) \/ Pointer!Show(c)]_<<wanted, shown>>
    BY <1>2
  <1> QED
    BY <1>1, <1>3, Invariance, PTL DEF Spec, LatestRowsImplementPointer, Pointer!Spec
=============================================================================
