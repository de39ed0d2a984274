-------------------------- MODULE TransactionProofs --------------------------
(***************************************************************************)
(* Proofs about what concurrent transactions keep of two parts of the      *)
(* database: the watchlist and its operation keys (Watchlist), for any     *)
(* sessions, keys and requests; and the evidence store with the reads made *)
(* from it (Evidence), for any writers, rows and queries.                  *)
(*                                                                         *)
(* The argument is each time a lock.  A session that has read something of *)
(* the watchlist it will write upon holds the workspace's lock, so what it *)
(* read still holds when it commits: the invariant says of each step of a  *)
(* transaction what its session has read.  A writer of evidence holds the  *)
(* locks of every batch it adds to, so what two of them see can be joined: *)
(* the invariant is that the committed rows, and these with the rows of    *)
(* any one transaction, are consistent.                                    *)
(***************************************************************************)
EXTENDS Watchlist, Evidence, FiniteSetTheorems, SequenceTheorems, TLAPS

USE DEF nobody

InTransaction(s) == session[s].pc \in {"locked", "alias", "insert"}

\* The row lock has one owner.
LockHeld == \A s \in Sessions : InTransaction(s) => workspace_lock = s

\* Memberships are numbered by generation, only the newest may be active, and
\* each came with one request.
TablesWhole ==
    /\ Len(requests) <= MaxRequests /\ Len(memberships) <= Len(requests)
    /\ \A m \in DOMAIN memberships :
          /\ memberships[m].generation = m
          /\ ~memberships[m].removed => m = Len(memberships)
    /\ \A r \in DOMAIN requests : requests[r].membership \in 0..Len(memberships)
    /\ \A m \in DOMAIN memberships : \E r \in DOMAIN requests : initial_requests(m) = {r}

\* A key that answered is bound to what it answered.
KeysBound ==
    /\ \A k \in Keys : request_keys[k] # no_key => request_keys[k].request \in DOMAIN requests
    /\ \A a \in answers : request_keys[a.key] # no_key /\ request_keys[a.key].request = a.request

\* What a session has read, and the lock keeps true until it commits.
ReadHolds(s) ==
    /\ session[s].pc # "unique_violation"
    /\ session[s].pc \in {"called", "locked"} /\ session[s].call.op = "remove" =>
          session[s].call.membership \in DOMAIN memberships
    /\ session[s].pc \in {"alias", "insert"} =>
          request_keys[session[s].call.key] = no_key /\ session[s].call.quote \in open_quotes
    /\ session[s].pc = "alias" =>
          /\ session[s].request \in DOMAIN requests
          /\ requests[session[s].request].membership \in existing_membership
    /\ session[s].pc = "insert" /\ session[s].call.op = "watchlist_add" =>
          existing_membership = {} /\ session[s].generation = Len(memberships) + 1

\* The inductive invariant.
IndInv == TypeOK /\ LockHeld /\ TablesWhole /\ KeysBound /\ \A s \in Sessions : ReadHolds(s)

-----------------------------------------------------------------------------
\* What a session holds in each step of its transaction.
LEMMA SessionFields ==
  ASSUME TypeOK, NEW s \in Sessions
  PROVE  /\ session[s].pc \in {"called", "locked"} =>
              /\ session[s] = [pc |-> session[s].pc, call |-> session[s].call]
              /\ session[s].call \in EnqueueCalls \cup RemoveCalls
         /\ session[s].pc = "alias" =>
              session[s].call \in EnqueueCalls /\ session[s].request \in 1..MaxRequests
         /\ session[s].pc = "insert" =>
              session[s].call \in EnqueueCalls /\ session[s].generation \in 0..(MaxRequests + 1)
  BY DEF TypeOK, Session, idle

\* The calls of the two functions differ in what they ask for.
LEMMA CallFields ==
  ASSUME NEW call \in EnqueueCalls \cup RemoveCalls
  PROVE  /\ call.op \in Triggers => call \in EnqueueCalls
         /\ call.op = "remove" => call \in RemoveCalls
         /\ call \in EnqueueCalls =>
              /\ call.op \in Triggers /\ call.key \in Keys
              /\ call.quote \in Quotes /\ call.options \in Options
         /\ call \in RemoveCalls => call.op = "remove" /\ call.membership \in 1..MaxRequests
  BY DEF EnqueueCalls, RemoveCalls, Triggers

\* While one session is in its transaction no other is.
LEMMA OthersOutside ==
  ASSUME LockHeld, NEW s \in Sessions, InTransaction(s), NEW t \in Sessions, t # s
  PROVE  ~InTransaction(t) /\ session[t].pc \notin {"locked", "alias", "insert"}
  BY DEF LockHeld, InTransaction

LEMMA InitOK == Init => IndInv
  <1> SUFFICES ASSUME Init PROVE IndInv
    OBVIOUS
  <1> USE WatchlistBounds
  <1>1. TypeOK
    BY DEF Init, TypeOK, Session
  <1>2. LockHeld /\ TablesWhole /\ KeysBound
    BY DEF Init, LockHeld, InTransaction, idle, TablesWhole, KeysBound
  <1>3. \A s \in Sessions : ReadHolds(s)
    BY DEF Init, ReadHolds, idle
  <1> QED
    BY <1>1, <1>2, <1>3 DEF IndInv

\* A step that only moves one session on, inside or out of its transaction.
Moves(s, to) ==
    /\ session' = [session EXCEPT ![s] = to]
    /\ workspace_lock' \in {workspace_lock, release(s)}
    /\ UNCHANGED <<memberships, requests, request_keys, open_quotes>>

\* A session that leaves its transaction without writing disturbs nothing.
LEMMA LeavesOK ==
  ASSUME IndInv, NEW s \in Sessions, NEW to \in Session,
         to.pc \in {"idle", "refused"}, Moves(s, to), answers' = answers,
         workspace_lock' = release(s)
  PROVE  IndInv'
  <1> USE DEF IndInv
  <1>1. TypeOK'
    BY DEF TypeOK, Moves, release
  <1>2. LockHeld'
    BY DEF TypeOK, LockHeld, InTransaction, Moves, release
  <1>3. TablesWhole' /\ KeysBound'
    BY DEF TablesWhole, KeysBound, Moves, initial_requests
  <1>4. ASSUME NEW t \in Sessions PROVE ReadHolds(t)'
    BY DEF TypeOK, ReadHolds, Moves, existing_membership, active
  <1> QED
    BY <1>1, <1>2, <1>3, <1>4

LEMMA CallOK == ASSUME IndInv, NEW s \in Sessions, Call(s) PROVE IndInv'
  <1> USE DEF IndInv
  <1> PICK call \in EnqueueCalls \cup RemoveCalls :
           /\ call \in RemoveCalls => call.membership \in DOMAIN memberships
           /\ session' = [session EXCEPT ![s] = [pc |-> "called", call |-> call]]
    BY DEF Call
  <1> UNCHANGED <<memberships, requests, request_keys, open_quotes, workspace_lock, answers>>
    BY DEF Call
  <1>1. TypeOK'
    BY DEF TypeOK, Session
  <1>2. LockHeld'
    BY DEF TypeOK, LockHeld, InTransaction
  <1>3. TablesWhole' /\ KeysBound'
    BY DEF TablesWhole, KeysBound, initial_requests
  <1>4. ASSUME NEW t \in Sessions PROVE ReadHolds(t)'
    BY CallFields DEF TypeOK, ReadHolds, existing_membership, active
  <1> QED
    BY <1>1, <1>2, <1>3, <1>4

LEMMA LockWorkspaceOK == ASSUME IndInv, NEW s \in Sessions, LockWorkspace(s) PROVE IndInv'
  <1> USE DEF IndInv
  <1>a. /\ session[s].pc = "called" /\ workspace_lock = nobody /\ workspace_lock' = s
        /\ UNCHANGED <<memberships, requests, request_keys, open_quotes, answers>>
    BY DEF LockWorkspace, workspace_free
  <1>2. session' = [session EXCEPT ![s] = [pc |-> "locked", call |-> session[s].call]]
    <2>1. session[s] = [pc |-> "called", call |-> session[s].call]
      BY <1>a, SessionFields
    <2>2. [session[s] EXCEPT !.pc = "locked"] = [pc |-> "locked", call |-> session[s].call]
      BY <2>1
    <2> QED
      BY <2>2 DEF TypeOK, LockWorkspace
  <1>c. session[s].call \in EnqueueCalls \cup RemoveCalls
    BY <1>a, SessionFields
  <1>4. TypeOK'
    BY <1>a, <1>2, <1>c DEF TypeOK, Session
  <1>5. LockHeld'
    BY <1>a, <1>2, WatchlistBounds DEF TypeOK, LockHeld, InTransaction
  <1>6. TablesWhole' /\ KeysBound'
    BY <1>a DEF TablesWhole, KeysBound, initial_requests
  <1>7. ASSUME NEW t \in Sessions PROVE ReadHolds(t)'
    <2>1. CASE t = s
      BY <2>1, <1>a, <1>2 DEF TypeOK, ReadHolds
    <2>2. CASE t # s
      BY <2>2, <1>a, <1>2 DEF TypeOK, ReadHolds, existing_membership, active
    <2> QED
      BY <2>1, <2>2
  <1> QED
    BY <1>4, <1>5, <1>6, <1>7

LEMMA LoseConnectionOK == ASSUME IndInv, NEW s \in Sessions, LoseConnection(s) PROVE IndInv'
  BY LeavesOK DEF LoseConnection, ended, Moves, idle, Session

\* The reads: what the session remembers is what the tables say, and it keeps
\* the lock that keeps them so.
LEMMA ReadEnqueueOK == ASSUME IndInv, NEW s \in Sessions, ReadEnqueue(s) PROVE IndInv'
  <1> USE DEF IndInv
  <1> DEFINE call == session[s].call
  <1>a. /\ session[s].pc = "locked" /\ call.op \in Triggers
        /\ UNCHANGED <<memberships, requests, request_keys, open_quotes>>
    BY DEF ReadEnqueue
  <1>b. call \in EnqueueCalls /\ call.key \in Keys /\ call.quote \in Quotes
    BY <1>a, SessionFields, CallFields
  <1>c. TablesWhole' /\ \A k \in Keys : request_keys[k]' # no_key => request_keys[k].request' \in DOMAIN requests'
    BY <1>a DEF TablesWhole, KeysBound, initial_requests
  <1>d. workspace_lock = s
    BY <1>a DEF LockHeld, InTransaction
  <1>5. CASE replay(s, call)
    <2>1. CASE ended(s, refused) /\ UNCHANGED answers
      BY <2>1, <1>a, LeavesOK DEF ended, refused, Moves, Session
    <2>2. CASE answered(s, call.key, request_keys[call.key].request)
      <3> USE DEF answered, ended
      <3>1. request_keys[call.key] # no_key
        BY <1>5 DEF replay
      <3>2. request_keys[call.key].request \in 1..MaxRequests
        BY <1>b, <3>1 DEF TypeOK
      <3>3. answers' = answers \cup {[key |-> call.key, request |-> request_keys[call.key].request]}
        BY <2>2
      <3>4. TypeOK'
        BY <1>a, <1>b, <2>2, <3>2 DEF TypeOK, Session, release
      <3>5. LockHeld'
        BY <1>a, <2>2 DEF TypeOK, LockHeld, InTransaction, release, idle
      <3>6. KeysBound'
        BY <1>a, <1>b, <1>c, <3>1, <3>3 DEF KeysBound
      <3>7. ASSUME NEW t \in Sessions PROVE ReadHolds(t)'
        BY <1>a, <2>2 DEF TypeOK, ReadHolds, existing_membership, active, idle
      <3> QED
        BY <1>c, <3>4, <3>5, <3>6, <3>7
    <2> QED
      BY <1>5, <2>1, <2>2 DEF replay
  <1>6. CASE quote_is_closed(s, call)
    BY <1>6, <1>a, LeavesOK DEF quote_is_closed, ended, refused, Moves, Session
  <1>7. CASE add_again(s, call)
    <2>1. request_keys[call.key] = no_key /\ call.quote \in open_quotes /\ answers' = answers
      BY <1>7 DEF add_again
    <2>2. PICK m \in existing_membership : \E r \in initial_requests(m) :
            IF requests[r].quote # call.quote \/ requests[r].options # call.options
            THEN ended(s, refused)
            ELSE /\ session' = [session EXCEPT ![s] =
                                  [pc |-> "alias", call |-> call, request |-> r]]
                 /\ UNCHANGED workspace_lock
      BY <1>7 DEF add_again
    <2>3. PICK r \in initial_requests(m) :
            IF requests[r].quote # call.quote \/ requests[r].options # call.options
            THEN ended(s, refused)
            ELSE /\ session' = [session EXCEPT ![s] =
                                  [pc |-> "alias", call |-> call, request |-> r]]
                 /\ UNCHANGED workspace_lock
      BY <2>2
    <2>4. CASE ended(s, refused)
      BY <2>1, <2>4, <1>a, LeavesOK DEF ended, refused, Moves, Session
    <2>5. CASE /\ session' = [session EXCEPT ![s] = [pc |-> "alias", call |-> call, request |-> r]]
               /\ UNCHANGED workspace_lock
      <3>1. r \in DOMAIN requests /\ requests[r].membership = m /\ r \in 1..MaxRequests
        <4>1. r \in DOMAIN requests /\ requests[r].membership = m
          BY DEF initial_requests
        <4>2. Len(requests) \in Nat /\ DOMAIN requests = 1..Len(requests) /\ Len(requests) <= MaxRequests
          BY DEF TypeOK, TablesWhole
        <4> QED
          BY <4>1, <4>2, WatchlistBounds
      <3>2. TypeOK'
        BY <1>a, <1>b, <2>1, <2>5, <3>1 DEF TypeOK, Session
      <3>3. LockHeld'
        BY <1>a, <1>d, <2>5 DEF TypeOK, LockHeld, InTransaction
      <3>4. KeysBound'
        BY <1>a, <1>c, <2>1 DEF KeysBound
      <3>5. ASSUME NEW t \in Sessions PROVE ReadHolds(t)'
        <4>1. CASE t = s
          BY <4>1, <1>a, <2>1, <2>2, <2>5, <3>1 DEF TypeOK, ReadHolds, existing_membership, active
        <4>2. CASE t # s
          BY <4>2, <1>a, <2>5 DEF TypeOK, ReadHolds, existing_membership, active
        <4> QED
          BY <4>1, <4>2
      <3> QED
        BY <1>c, <3>2, <3>3, <3>4, <3>5
    <2> QED
      BY <2>3, <2>4, <2>5
  <1>8. CASE begin_insert(s, call)
    <2> DEFINE generation == IF call.op = "watchlist_add" THEN next_generation ELSE 0
    <2>1. /\ request_keys[call.key] = no_key /\ call.quote \in open_quotes
          /\ call.op = "watchlist_add" => existing_membership = {}
          /\ session' = [session EXCEPT ![s] = [pc |-> "insert", call |-> call, generation |-> generation]]
          /\ UNCHANGED <<workspace_lock, answers>>
      BY <1>8 DEF begin_insert
    <2>2. next_generation = Len(memberships) + 1
      <3>1. CASE memberships = <<>>
        BY <3>1 DEF next_generation
      <3>2. CASE memberships # <<>>
        <4>1. Len(memberships) \in DOMAIN memberships /\ Len(memberships) \in Nat
          BY <3>2 DEF TypeOK
        <4> QED
          BY <3>2, <4>1 DEF next_generation, TablesWhole
      <3> QED
        BY <3>1, <3>2
    <2>3. generation \in 0..(MaxRequests + 1) /\ (call.op = "watchlist_add" => generation = Len(memberships) + 1)
      BY <2>2, WatchlistBounds DEF TablesWhole, TypeOK
    <2> HIDE DEF generation
    <2>4. TypeOK'
      BY <1>a, <1>b, <2>1, <2>3 DEF TypeOK, Session
    <2>5. LockHeld'
      BY <1>a, <1>d, <2>1 DEF TypeOK, LockHeld, InTransaction
    <2>6. KeysBound'
      BY <1>a, <1>c, <2>1 DEF KeysBound
    <2>7. ASSUME NEW t \in Sessions PROVE ReadHolds(t)'
      <3>1. CASE t = s
        BY <3>1, <1>a, <2>1, <2>3 DEF TypeOK, ReadHolds, existing_membership, active
      <3>2. CASE t # s
        BY <3>2, <1>a, <2>1 DEF TypeOK, ReadHolds, existing_membership, active
      <3> QED
        BY <3>1, <3>2
    <2> QED
      BY <1>c, <2>4, <2>5, <2>6, <2>7
  <1> QED
    BY <1>5, <1>6, <1>7, <1>8 DEF ReadEnqueue

\* A session whose commit runs into an index would be one whose reads did not
\* hold: there is none.
LEMMA NoKeyTaken ==
  ASSUME IndInv, NEW s \in Sessions, session[s].pc \in {"alias", "insert"}
  PROVE  ~key_taken(session[s].call.key)
  BY DEF IndInv, ReadHolds, key_taken

\* Binding a free key to a request and answering with it.
LEMMA BindKeyOK ==
  ASSUME TypeOK, KeysBound, NEW k \in Keys, request_keys[k] = no_key,
         DOMAIN requests \subseteq DOMAIN requests', NEW r \in DOMAIN requests',
         NEW params, request_keys' = [request_keys EXCEPT ![k] = [request |-> r, params |-> params]],
         answers' = answers \cup {[key |-> k, request |-> r]}
  PROVE  KeysBound'
  <1>1. [request |-> r, params |-> params] # no_key
    BY DEF no_key
  <1>2. request_keys'[k] = [request |-> r, params |-> params] /\ \A j \in Keys \ {k} : request_keys'[j] = request_keys[j]
    BY DEF TypeOK
  <1>3. \A j \in Keys : request_keys'[j] # no_key => request_keys'[j].request \in DOMAIN requests'
    BY <1>1, <1>2 DEF KeysBound
  <1>4. \A a \in answers : a.key \in Keys /\ a.key # k
    BY DEF KeysBound, TypeOK
  <1>5. \A a \in answers' : request_keys'[a.key] # no_key /\ request_keys'[a.key].request = a.request
    BY <1>1, <1>2, <1>4 DEF KeysBound
  <1> QED
    BY <1>3, <1>5 DEF KeysBound

\* The effect of CommitAlias: its reads hold.
AliasBound(s) ==
    LET call == session[s].call  r == session[s].request IN
    /\ request_keys' = [request_keys EXCEPT ![call.key] = [request |-> r, params |-> params_hash(call)]]
    /\ answers' = answers \cup {[key |-> call.key, request |-> r]}
    /\ session' = [session EXCEPT ![s] = idle] /\ workspace_lock' = nobody
    /\ UNCHANGED <<memberships, requests, open_quotes>>

LEMMA CommitAliasEffect ==
  ASSUME IndInv, NEW s \in Sessions, CommitAlias(s)
  PROVE  AliasBound(s)
  BY NoKeyTaken DEF IndInv, CommitAlias, AliasBound, answered, ended, release, LockHeld, InTransaction

LEMMA CommitAliasOK == ASSUME IndInv, NEW s \in Sessions, CommitAlias(s) PROVE IndInv'
  <1> USE DEF IndInv
  <1> DEFINE call == session[s].call
  <1> DEFINE r == session[s].request
  <1>a. session[s].pc = "alias" /\ AliasBound(s)
    BY CommitAliasEffect DEF CommitAlias
  <1>b. /\ call.key \in Keys /\ params_hash(call) \in [op : Triggers, quote : Quotes, options : Options]
        /\ r \in 1..MaxRequests /\ r \in DOMAIN requests /\ request_keys[call.key] = no_key
    BY <1>a, SessionFields, CallFields DEF ReadHolds, params_hash
  <1>c. \A t \in Sessions : t # s => ~InTransaction(t)
    BY <1>a, OthersOutside DEF InTransaction
  <1>4. TypeOK'
    BY <1>a, <1>b DEF TypeOK, Session, AliasBound
  <1>5. LockHeld'
    BY <1>a, <1>c DEF TypeOK, LockHeld, InTransaction, AliasBound, idle
  <1>6. TablesWhole'
    BY <1>a DEF TablesWhole, initial_requests, AliasBound
  <1>7. KeysBound'
    BY <1>a, <1>b, BindKeyOK DEF AliasBound
  <1>8. ASSUME NEW t \in Sessions PROVE ReadHolds(t)'
    BY <1>a, <1>c DEF TypeOK, ReadHolds, AliasBound, InTransaction, idle
  <1> QED
    BY <1>4, <1>5, <1>6, <1>7, <1>8

\* The effect of CommitInsert.
Inserted(s) ==
    LET call == session[s].call IN
    /\ memberships' = inserted_memberships(call, session[s].generation)
    /\ requests' = Append(requests, inserted_request(call))
    /\ request_keys' = [request_keys EXCEPT ![call.key] =
            [request |-> Len(requests) + 1, params |-> params_hash(call)]]
    /\ answers' = answers \cup {[key |-> call.key, request |-> Len(requests) + 1]}
    /\ session' = [session EXCEPT ![s] = idle] /\ workspace_lock' = nobody
    /\ UNCHANGED open_quotes

LEMMA CommitInsertEffect ==
  ASSUME IndInv, NEW s \in Sessions, CommitInsert(s)
  PROVE  Inserted(s)
  <1>1. ~key_taken(session[s].call.key)
        /\ ~(session[s].call.op = "watchlist_add" /\ existing_membership # {})
    BY NoKeyTaken DEF IndInv, ReadHolds, CommitInsert
  <1> QED
    BY <1>1 DEF IndInv, CommitInsert, Inserted, answered, ended, release, LockHeld, InTransaction

\* What an insert adds to the tables: for an add the next generation with its
\* request, else a request of no membership.
LEMMA InsertTables ==
  ASSUME IndInv, NEW s \in Sessions, CommitInsert(s)
  PROVE  /\ TablesWhole'
         /\ memberships' \in Seq([quote : Quotes, generation : 1..MaxRequests, removed : BOOLEAN])
         /\ requests' \in Seq([op : Triggers, quote : Quotes, options : Options,
                               membership : 0..MaxRequests])
         /\ DOMAIN requests \subseteq DOMAIN requests' /\ Len(requests) + 1 \in DOMAIN requests'
         /\ Len(requests) + 1 \in 1..MaxRequests
  <1> USE DEF IndInv
  <1> DEFINE call == session[s].call
  <1> DEFINE n == Len(requests) + 1
  <1>a. session[s].pc = "insert" /\ Inserted(s) /\ Len(requests) < MaxRequests
    BY CommitInsertEffect DEF CommitInsert
  <1>b. call \in EnqueueCalls /\ call.op \in Triggers /\ call.quote \in Quotes /\ call.options \in Options
    BY <1>a, SessionFields, CallFields
  <1>c. /\ Len(requests) \in Nat /\ Len(memberships) \in Nat /\ Len(memberships) < MaxRequests
        /\ DOMAIN requests = 1..Len(requests) /\ DOMAIN memberships = 1..Len(memberships)
    BY <1>a, WatchlistBounds DEF TypeOK, TablesWhole
  <1>d. /\ requests' = Append(requests, inserted_request(call)) /\ Len(requests') = n
        /\ DOMAIN requests' = 1..n /\ requests'[n] = inserted_request(call)
        /\ \A r \in 1..Len(requests) : requests'[r] = requests[r]
    BY <1>a, <1>c DEF Inserted, TypeOK
  <1>e. /\ DOMAIN requests \subseteq DOMAIN requests' /\ n \in DOMAIN requests' /\ n \in 1..MaxRequests
        /\ inserted_request(call)
             \in [op : Triggers, quote : Quotes, options : Options, membership : 0..MaxRequests]
           => requests' \in Seq([op : Triggers, quote : Quotes, options : Options,
                                 membership : 0..MaxRequests])
    BY <1>a, <1>c, <1>d, WatchlistBounds, AppendProperties DEF TypeOK
  <1>6. CASE call.op = "watchlist_add"
    <2> DEFINE g == Len(memberships) + 1
    <2>1. existing_membership = {} /\ session[s].generation = g
      BY <1>6, <1>a DEF ReadHolds
    <2>2. /\ memberships' = Append(memberships, [quote |-> call.quote, generation |-> g, removed |-> FALSE])
          /\ inserted_request(call).membership = g /\ inserted_request(call)
               \in [op : Triggers, quote : Quotes, options : Options, membership : 0..MaxRequests]
      <3>1. memberships' = Append(memberships, [quote |-> call.quote, generation |-> g, removed |-> FALSE])
        BY <1>6, <1>a, <2>1 DEF Inserted, inserted_memberships
      <3>2. inserted_request(call) = [op |-> call.op, quote |-> call.quote, options |-> call.options, membership |-> g]
        BY <1>6 DEF inserted_request
      <3>3. g \in 0..MaxRequests
        BY <1>c, WatchlistBounds
      <3> QED
        BY <1>b, <3>1, <3>2, <3>3
    <2>3. /\ Len(memberships') = g /\ DOMAIN memberships' = 1..g
          /\ memberships'[g] = [quote |-> call.quote, generation |-> g, removed |-> FALSE]
          /\ \A m \in 1..Len(memberships) : memberships'[m] = memberships[m]
      BY <1>c, <2>2 DEF TypeOK
    <2>4. \A m \in 1..Len(memberships) : memberships[m].removed
      BY <1>c, <2>1 DEF existing_membership, active, TypeOK
    <2>5. \A m \in DOMAIN memberships' : /\ memberships'[m].generation = m
                                         /\ ~memberships'[m].removed => m = Len(memberships')
      BY <1>c, <2>3, <2>4 DEF TablesWhole
    <2>6. \A r \in DOMAIN requests' : requests'[r].membership \in 0..Len(memberships')
      BY <1>c, <1>d, <2>2, <2>3 DEF TablesWhole
    <2>7. ASSUME NEW m \in DOMAIN memberships'
          PROVE  \E r \in DOMAIN requests' : {q \in DOMAIN requests' : requests'[q].membership = m} = {r}
      <3>1. CASE m = g
        <4>1. {q \in DOMAIN requests' : requests'[q].membership = m} = {n}
          BY <1>c, <1>d, <2>2, <3>1 DEF TablesWhole
        <4> QED
          BY <1>c, <1>d, <4>1
      <3>2. CASE m # g
        <4>1. PICK r \in DOMAIN requests : initial_requests(m) = {r}
          BY <1>c, <2>3, <3>2 DEF TablesWhole
        <4>2. {q \in DOMAIN requests' : requests'[q].membership = m} = {r}
          BY <1>c, <1>d, <2>2, <3>2, <4>1 DEF initial_requests
        <4> QED
          BY <1>c, <1>d, <4>2
      <3> QED
        BY <3>1, <3>2
    <2> QED
      <3>1. Len(requests') <= MaxRequests /\ Len(memberships') <= Len(requests')
        BY <1>a, <1>c, <1>d, <2>3, WatchlistBounds DEF TablesWhole
      <3>2. TablesWhole'
        BY <2>5, <2>6, <2>7, <3>1 DEF TablesWhole, initial_requests
      <3>3. [quote |-> call.quote, generation |-> g, removed |-> FALSE]
              \in [quote : Quotes, generation : 1..MaxRequests, removed : BOOLEAN]
        BY <1>b, <1>c, WatchlistBounds
      <3>4. memberships' \in Seq([quote : Quotes, generation : 1..MaxRequests, removed : BOOLEAN])
        BY <2>2, <3>3, AppendProperties DEF TypeOK
      <3> QED
        BY <1>e, <2>2, <3>2, <3>4
  <1>7. CASE call.op # "watchlist_add"
    <2>1. /\ memberships' = memberships /\ inserted_request(call).membership = 0
          /\ inserted_request(call)
               \in [op : Triggers, quote : Quotes, options : Options, membership : 0..MaxRequests]
      BY <1>7, <1>a, <1>b, WatchlistBounds DEF Inserted, inserted_memberships, inserted_request
    <2>2. \A r \in DOMAIN requests' : requests'[r].membership \in 0..Len(memberships')
      BY <1>c, <1>d, <2>1 DEF TablesWhole
    <2>3. ASSUME NEW m \in DOMAIN memberships'
          PROVE  \E r \in DOMAIN requests' : {q \in DOMAIN requests' : requests'[q].membership = m} = {r}
      <3>1. PICK r \in DOMAIN requests : initial_requests(m) = {r}
        BY <2>1 DEF TablesWhole
      <3>2. {q \in DOMAIN requests' : requests'[q].membership = m} = {r}
        BY <1>c, <1>d, <2>1, <3>1 DEF initial_requests
      <3> QED
        BY <1>c, <1>d, <3>2
    <2> QED
      <3>1. Len(requests') <= MaxRequests /\ Len(memberships') <= Len(requests')
        BY <1>a, <1>c, <1>d, <2>1, WatchlistBounds DEF TablesWhole
      <3>2. TablesWhole'
        BY <2>1, <2>2, <2>3, <3>1 DEF TablesWhole, initial_requests
      <3> QED
        BY <1>e, <2>1, <3>2 DEF TypeOK
  <1> QED
    BY <1>6, <1>7

LEMMA CommitInsertOK == ASSUME IndInv, NEW s \in Sessions, CommitInsert(s) PROVE IndInv'
  <1> USE DEF IndInv
  <1> DEFINE call == session[s].call
  <1>a. session[s].pc = "insert" /\ Inserted(s)
    BY CommitInsertEffect DEF CommitInsert
  <1>b. /\ call.key \in Keys /\ params_hash(call) \in [op : Triggers, quote : Quotes, options : Options]
        /\ request_keys[call.key] = no_key
    BY <1>a, SessionFields, CallFields DEF ReadHolds, params_hash
  <1>c. \A t \in Sessions : t # s => ~InTransaction(t)
    BY <1>a, OthersOutside DEF InTransaction
  <1>4. TypeOK'
    <2>1. request_keys' \in [Keys -> {no_key} \cup
            [request : 1..MaxRequests, params : [op : Triggers, quote : Quotes, options : Options]]]
      BY <1>a, <1>b, InsertTables DEF TypeOK, Inserted
    <2>2. answers' \subseteq [key : Keys, request : 1..MaxRequests]
      BY <1>a, <1>b, InsertTables DEF TypeOK, Inserted
    <2>3. session' \in [Sessions -> Session] /\ workspace_lock' \in Sessions \cup {nobody}
      BY <1>a DEF TypeOK, Session, Inserted
    <2> QED
      BY <1>a, <2>1, <2>2, <2>3, InsertTables DEF TypeOK, Inserted
  <1>5. LockHeld'
    BY <1>a, <1>c DEF TypeOK, LockHeld, InTransaction, Inserted, idle
  <1>6. KeysBound'
    BY <1>a, <1>b, InsertTables, BindKeyOK DEF Inserted
  <1>7. DOMAIN memberships \subseteq DOMAIN memberships'
    BY <1>a DEF Inserted, inserted_memberships, TypeOK
  <1>8. ASSUME NEW t \in Sessions PROVE ReadHolds(t)'
    BY <1>a, <1>c, <1>7 DEF TypeOK, ReadHolds, Inserted, InTransaction, idle
  <1> QED
    BY <1>4, <1>5, <1>6, <1>8, InsertTables

LEMMA CommitRemoveOK == ASSUME IndInv, NEW s \in Sessions, CommitRemove(s) PROVE IndInv'
  <1> USE DEF IndInv
  <1> DEFINE g == session[s].call.membership
  <1>a. /\ session[s].pc = "locked" /\ g \in DOMAIN memberships
        /\ memberships' = [memberships EXCEPT ![g].removed = TRUE]
        /\ session' = [session EXCEPT ![s] = idle] /\ workspace_lock' = nobody
        /\ UNCHANGED <<requests, request_keys, open_quotes, answers>>
    BY DEF CommitRemove, ReadHolds, ended, release, LockHeld, InTransaction
  <1> HIDE DEF g
  <1>b. \A t \in Sessions : t # s => ~InTransaction(t)
    BY <1>a, OthersOutside DEF InTransaction
  <1> DEFINE Row == [quote : Quotes, generation : 1..MaxRequests, removed : BOOLEAN]
  <1>m. memberships \in Seq(Row)
    BY DEF TypeOK
  <1> HIDE DEF Row
  <1>n. /\ memberships \in [1..Len(memberships) -> Row] /\ Len(memberships) \in Nat
        /\ DOMAIN memberships = 1..Len(memberships)
    BY <1>m
  <1>r. [memberships[g] EXCEPT !.removed = TRUE] \in Row
    BY <1>a, <1>n DEF Row
  <1>s. memberships' = [memberships EXCEPT ![g] = [memberships[g] EXCEPT !.removed = TRUE]]
    BY <1>a
  <1>t. memberships' \in [1..Len(memberships) -> Row]
    BY <1>n, <1>r, <1>s
  <1>u. memberships' \in Seq(Row) /\ DOMAIN memberships' = DOMAIN memberships /\ Len(memberships') = Len(memberships)
    BY <1>n, <1>t, SeqDef, LenProperties
  <1>v. \A m \in DOMAIN memberships :
              /\ memberships'[m].quote = memberships[m].quote
              /\ memberships'[m].generation = memberships[m].generation
              /\ ~memberships'[m].removed => ~memberships[m].removed
    BY <1>a, <1>n, <1>s DEF Row
  <1>c. /\ DOMAIN memberships' = DOMAIN memberships /\ Len(memberships') = Len(memberships)
        /\ \A m \in DOMAIN memberships :
              /\ memberships'[m].generation = memberships[m].generation
              /\ ~memberships'[m].removed => ~memberships[m].removed
        /\ memberships' \in Seq([quote : Quotes, generation : 1..MaxRequests, removed : BOOLEAN])
    BY <1>u, <1>v DEF Row
  <1>11. TypeOK'
    BY <1>a, <1>c DEF TypeOK, Session
  <1>12. LockHeld'
    BY <1>a, <1>b DEF TypeOK, LockHeld, InTransaction, idle
  <1>x. \A m \in DOMAIN memberships : \E r \in DOMAIN requests : initial_requests(m)' = {r}
    BY <1>a DEF TablesWhole, initial_requests
  <1>y. /\ Len(requests) <= MaxRequests /\ Len(memberships) <= Len(requests)
        /\ \A m \in DOMAIN memberships : memberships[m].generation = m
        /\ \A m \in DOMAIN memberships : ~memberships[m].removed => m = Len(memberships)
        /\ \A r \in DOMAIN requests : requests[r].membership \in 0..Len(memberships)
    BY DEF TablesWhole
  <1>15. TablesWhole'
    <2>1. /\ Len(requests') <= MaxRequests /\ Len(memberships') <= Len(requests')
          /\ \A r \in DOMAIN requests' : requests'[r].membership \in 0..Len(memberships')
      BY <1>a, <1>c, <1>y
    <2>2. \A m \in DOMAIN memberships' :
            /\ memberships'[m].generation = m
            /\ ~memberships'[m].removed => m = Len(memberships')
      BY <1>c, <1>y
    <2>3. \A m \in DOMAIN memberships' : \E r \in DOMAIN requests' : initial_requests(m)' = {r}
      BY <1>a, <1>c, <1>x
    <2> QED
      BY <2>1, <2>2, <2>3 DEF TablesWhole
  <1>16. KeysBound'
    BY <1>a DEF KeysBound
  <1>17. ASSUME NEW t \in Sessions PROVE ReadHolds(t)'
    BY <1>a, <1>b, <1>c DEF TypeOK, ReadHolds, InTransaction, idle
  <1> QED
    BY <1>11, <1>12, <1>15, <1>16, <1>17

\* A closure waits for the sessions that rely on the quote.
LEMMA CloseQuoteOK == ASSUME IndInv, NEW q \in Quotes, CloseQuote(q) PROVE IndInv'
  <1> USE DEF IndInv, CloseQuote
  <1>1. TypeOK'
    BY DEF TypeOK, Session
  <1>2. LockHeld' /\ TablesWhole' /\ KeysBound'
    BY DEF LockHeld, InTransaction, TablesWhole, KeysBound, initial_requests
  <1>3. ASSUME NEW t \in Sessions PROVE ReadHolds(t)'
    BY DEF ReadHolds, holds_share, existing_membership, active
  <1> QED
    BY <1>1, <1>2, <1>3

LEMMA NextOK == IndInv /\ [Next]_vars => IndInv'
  <1> SUFFICES ASSUME IndInv, [Next]_vars PROVE IndInv'
    OBVIOUS
  <1>1. ASSUME NEW s \in Sessions, Call(s) PROVE IndInv'
    BY <1>1, CallOK
  <1>2. ASSUME NEW s \in Sessions, Proceed(s) PROVE IndInv'
    BY <1>2, LockWorkspaceOK, ReadEnqueueOK, CommitAliasOK, CommitInsertOK, CommitRemoveOK DEF Proceed
  <1>3. ASSUME NEW s \in Sessions, LoseConnection(s) PROVE IndInv'
    BY <1>3, LoseConnectionOK
  <1>4. ASSUME NEW q \in Quotes, CloseQuote(q) PROVE IndInv'
    BY <1>4, CloseQuoteOK
  <1>5. CASE UNCHANGED vars
    BY <1>5 DEF vars, IndInv, TypeOK, Session, LockHeld, InTransaction, TablesWhole, initial_requests,
       KeysBound, ReadHolds, existing_membership, active
  <1> QED
    BY <1>1, <1>2, <1>3, <1>4, <1>5 DEF Next

THEOREM Invariance == Spec => []IndInv
  BY InitOK, NextOK, PTL DEF Spec

-----------------------------------------------------------------------------
\* One request per operation key, one active membership per stock with one
\* request per generation, and no call that fails on a unique index, however
\* many sessions call workflow_enqueue and workflow_remove_membership.
THEOREM EachIsOne == Spec => []OneOfEach
  <1>1. IndInv => OneOfEach
    <2> SUFFICES ASSUME IndInv PROVE OneOfEach
      OBVIOUS
    <2> USE DEF IndInv
    <2>1. NoUniqueViolation
      BY DEF NoUniqueViolation, ReadHolds
    <2>2. ReplayStable
      BY DEF ReplayStable, KeysBound
    <2>3. \A m \in existing_membership : m = Len(memberships)
      BY DEF existing_membership, active, TablesWhole
    <2>4. ASSUME NEW m \in DOMAIN memberships
          PROVE  memberships[m].generation = m /\ Cardinality(initial_requests(m)) = 1
      BY ZenonT(40), FS_Singleton DEF TablesWhole
    <2> QED
      BY <2>1, <2>2, <2>3, <2>4 DEF OneOfEach, OneActiveGeneration
  <1> QED
    BY <1>1, Invariance, PTL

\* A new key names a request whose membership is active at the commit, and no
\* request is committed for a closed quote: what the transaction read before it
\* inserts still holds (the workspace lock and FOR SHARE).
THEOREM CommitsCurrent == Spec => CommitsAreCurrent
  <1>1. IndInv /\ [Next]_vars =>
           [\A k \in Keys : (request_keys[k] = no_key /\ request_keys'[k] # no_key)
               => LET r == request_keys'[k].request
                      m == requests'[r].membership
                  IN  m # 0 => ~memberships'[m].removed]_vars
    <2> SUFFICES ASSUME IndInv, [Next]_vars, NEW k \in Keys,
                        request_keys[k] = no_key, request_keys'[k] # no_key
                 PROVE  LET m == requests'[request_keys'[k].request].membership
                        IN  m # 0 => ~memberships'[m].removed
      BY Zenon
    <2> USE DEF IndInv
    <2>1. ASSUME NEW s \in Sessions, CommitAlias(s) PROVE
            LET m == requests'[request_keys'[k].request].membership IN m # 0 => ~memberships'[m].removed
      <3>1. session[s].pc = "alias" /\ AliasBound(s)
        BY <2>1, CommitAliasEffect DEF CommitAlias
      <3>2. request_keys'[k].request = session[s].request
        BY <3>1 DEF AliasBound, TypeOK
      <3> QED
        BY <3>1, <3>2 DEF AliasBound, ReadHolds, existing_membership, active
    <2>2. ASSUME NEW s \in Sessions, CommitInsert(s) PROVE
            LET m == requests'[request_keys'[k].request].membership IN m # 0 => ~memberships'[m].removed
      <3> DEFINE call == session[s].call
      <3>1. session[s].pc = "insert" /\ Inserted(s)
        BY <2>2, CommitInsertEffect DEF CommitInsert
      <3>2. request_keys'[k].request = Len(requests) + 1
        BY <3>1 DEF Inserted, TypeOK
      <3>3. requests'[Len(requests) + 1] = inserted_request(call)
        BY <3>1 DEF Inserted, TypeOK
      <3>4. CASE call.op = "watchlist_add"
        <4>1. requests'[Len(requests) + 1].membership = Len(memberships) + 1
          BY <3>3, <3>4 DEF inserted_request
        <4>2. memberships' = Append(memberships, [quote |-> call.quote, generation |-> session[s].generation,
                                                  removed |-> FALSE])
          BY <3>1, <3>4 DEF Inserted, inserted_memberships
        <4>3. memberships'[Len(memberships) + 1].removed = FALSE
          BY <4>2 DEF TypeOK
        <4> QED
          BY <3>2, <4>1, <4>3
      <3>5. CASE call.op # "watchlist_add"
        BY <3>2, <3>3, <3>5 DEF inserted_request
      <3> QED
        BY <3>4, <3>5
    <2>3. CASE UNCHANGED request_keys
      BY <2>3
    <2> QED
      BY <2>1, <2>2, <2>3 DEF Next, Proceed, vars, Call, LockWorkspace, ReadEnqueue, CommitRemove,
         LoseConnection, CloseQuote
  <1>2. IndInv /\ [Next]_vars =>
           [Len(requests') > Len(requests) => requests'[Len(requests')].quote \in open_quotes']_vars
    <2> SUFFICES ASSUME IndInv, [Next]_vars, Len(requests') > Len(requests)
                 PROVE  requests'[Len(requests')].quote \in open_quotes'
      BY Zenon
    <2> USE DEF IndInv
    <2>1. ASSUME NEW s \in Sessions, CommitInsert(s) PROVE requests'[Len(requests')].quote \in open_quotes'
      <3>1. session[s].pc = "insert" /\ Inserted(s)
        BY <2>1, CommitInsertEffect DEF CommitInsert
      <3>2. Len(requests') = Len(requests) + 1 /\ requests'[Len(requests) + 1] = inserted_request(session[s].call)
        BY <3>1 DEF Inserted, TypeOK
      <3> QED
        BY <3>1, <3>2 DEF ReadHolds, Inserted, inserted_request
    <2>2. CASE UNCHANGED requests
      BY <2>2 DEF TypeOK
    <2> QED
      BY <2>1, <2>2 DEF Next, Proceed, vars, Call, LockWorkspace, ReadEnqueue, CommitAlias, CommitRemove,
         LoseConnection, CloseQuote
  <1> QED
    BY <1>1, <1>2, Invariance, PTL DEF Spec, CommitsAreCurrent, AddAnswersActiveMembership,
       ClosedQuoteGetsNoRequest

-----------------------------------------------------------------------------
(***************************************************************************)
(* The evidence store (Evidence).                                          *)
(***************************************************************************)
\* The batches that an insert is about, and whose rows it locks.
BatchOf(r) == CoverageOf(Rows, r).batch
Within(r) ==
    CASE r.table \in {"normalization_inputs", "statement_coverage", "published", "failed"} -> {r.batch}
      [] r.table = "fact_resolutions" -> {BatchOf(r)}
      [] OTHER -> FlagLock(r)

\* What holds of the rows that a session sees.
Referred(db) ==
    /\ \A r \in Of(db, "fact_resolutions") :
          /\ \E k \in Of(db, "statement_coverage") : k.id = r.coverage
          /\ r.status = "observed" => r.observation # none
    /\ \A p \in Of(db, "published") : \E b \in Of(db, "normalization_batches") : b.id = p.batch
PublishedOnce(db) == \A p, o \in Of(db, "published") : p.batch = o.batch => p = o
PublishedWhole(db) == \A p \in Of(db, "published") : Whole(db, p.batch)
Consistent(db) == Referred(db) /\ PublishedOnce(db) /\ PublishedWhole(db) /\ Acyclic(Links(db))

Transactions ==
    open = [s \in Writers |-> [rows |-> open[s].rows, locks |-> open[s].locks]]
LocksHeld ==
    \A s \in Writers : open[s].locks = UNION {Within(r) \cup GraphLock(r) : r \in open[s].rows}
StillOpen ==
    \A s \in Writers : \A r \in open[s].rows : \A b \in Within(r) :
        ~Ended(rows, b, "published") /\ ~Ended(rows, b, "failed")
ScopesWithEvent ==
    \A s \in Writers : \A c \in Of(open[s].rows, "filing_event_scopes") :
        \E e \in Of(open[s].rows, "filing_events") : e.id = c.event
Views == {rows} \cup {Visible(s) : s \in Writers}

StoreIndInv ==
    /\ StoreTypeOK /\ Transactions /\ LocksHeld /\ StillOpen /\ ScopesWithEvent
    /\ \A db \in Views : Consistent(db)

-----------------------------------------------------------------------------
(* Reachability. *)

LEMMA ReachableStart == ASSUME NEW L, NEW r PROVE r \in Reachable(L, r)
  BY DEF Reachable

LEMMA ReachableClosed == ASSUME NEW L, NEW r PROVE Closed(L, Reachable(L, r))
  <1> DEFINE ids == {r} \cup {l[2] : l \in L}
  <1> SUFFICES ASSUME NEW l \in L, l[1] \in Reachable(L, r) PROVE l[2] \in Reachable(L, r)
    BY DEF Closed
  <1>1. l[2] \in ids
    OBVIOUS
  <1>2. ASSUME NEW S \in SUBSET ids, r \in S, Closed(L, S) PROVE l[2] \in S
    <2>1. l[1] \in S
      BY <1>2 DEF Reachable
    <2> QED BY <2>1, <1>2 DEF Closed
  <1> QED BY <1>1, <1>2 DEF Reachable

LEMMA ReachableLeast ==
  ASSUME NEW L, NEW r, NEW S, r \in S, Closed(L, S)
  PROVE  Reachable(L, r) \subseteq S
  <1> DEFINE ids == {r} \cup {l[2] : l \in L}
             T == S \cap ids
  <1>1. T \in SUBSET ids /\ r \in T
    OBVIOUS
  <1>2. Closed(L, T)
    BY DEF Closed
  <1> QED BY <1>1, <1>2 DEF Reachable

\* A link that closes no cycle leaves the graph without one.
LEMMA AcyclicGrows ==
  ASSUME NEW L, NEW e, NEW l, Acyclic(L), e \notin Reachable(L, l)
  PROVE  Acyclic(L \cup {<<e, l>>})
  <1> DEFINE M == L \cup {<<e, l>>}
  <1> SUFFICES ASSUME NEW x \in M, x[1] \in Reachable(M, x[2]) PROVE FALSE
    BY DEF Acyclic
  <1> DEFINE S == Reachable(L, x[2])
             T == Reachable(L, l)
  <1>1. x[2] \in S /\ l \in T /\ Closed(L, S) /\ Closed(L, T)
    BY ReachableStart, ReachableClosed
  <1>2. CASE x = <<e, l>>
    <2>1. Closed(M, T)
      BY <1>1 DEF Closed
    <2>2. Reachable(M, l) \subseteq T
      BY <1>1, <2>1, ReachableLeast
    <2> QED BY <1>2, <2>2
  <1>3. CASE x \in L
    <2>1. x[1] \notin S
      BY <1>3 DEF Acyclic
    <2>2. CASE e \notin S
      <3>1. Closed(M, S)
        BY <1>1, <2>2 DEF Closed
      <3>2. Reachable(M, x[2]) \subseteq S
        BY <1>1, <3>1, ReachableLeast
      <3> QED BY <3>2, <2>1
    <2>3. CASE e \in S
      <3>1. Closed(M, S \cup T)
        BY <1>1 DEF Closed
      <3>2. x[2] \in S \cup T
        BY <1>1
      <3>3. Reachable(M, x[2]) \subseteq S \cup T
        BY <3>1, <3>2, ReachableLeast
      <3>4. x[2] \in T
        BY <3>3, <2>1, <1>1, <1>3 DEF Closed
      <3>5. S \subseteq T
        BY <3>4, <1>1, ReachableLeast
      <3> QED BY <3>5, <2>3
    <2> QED BY <2>2, <2>3
  <1> QED BY <1>2, <1>3

-----------------------------------------------------------------------------
(* Batches and their rows. *)

LEMMA CoverageKnown ==
  ASSUME NEW db \in SUBSET Rows, NEW r, NEW k \in Of(db, "statement_coverage"), k.id = r.coverage
  PROVE  CoverageOf(db, r) = k /\ CoverageOf(Rows, r) = k
  <1>1. ASSUME NEW x \in Of(Rows, "statement_coverage"), x.id = r.coverage PROVE x = k
    BY <1>1, RowsAssumption DEF Of, Keyed
  <1>2. k \in Of(Rows, "statement_coverage") /\ Of(db, "statement_coverage") \subseteq Of(Rows, "statement_coverage")
    BY DEF Of
  <1> QED BY <1>1, <1>2 DEF CoverageOf

LEMMA ResolutionsBatch ==
  ASSUME NEW db \in SUBSET Rows, Referred(db), NEW b
  PROVE  Resolutions(db, b) = {r \in Of(db, "fact_resolutions") : BatchOf(r) = b}
  <1>1. ASSUME NEW r \in Of(db, "fact_resolutions") PROVE CoverageOf(db, r).batch = BatchOf(r)
    BY CoverageKnown DEF Referred, BatchOf
  <1> QED BY <1>1 DEF Resolutions

\* A batch stays whole while no row of its own is added.
LEMMA WholeGrows ==
  ASSUME NEW new \in SUBSET Rows, NEW old \in SUBSET new, Referred(old), Referred(new), NEW b,
         Whole(old, b), \A r \in new \ old : b \notin Within(r)
  PROVE  Whole(new, b)
  <1>1. \A r \in new : r.table \in {"normalization_inputs", "statement_coverage"} /\ r.batch = b => r \in old
    BY DEF Within
  <1>2. \A r \in new : r.table = "fact_resolutions" /\ BatchOf(r) = b => r \in old
    BY DEF Within
  <1>3. Manifest(new, b) = Manifest(old, b)
    BY <1>1 DEF Manifest, Inputs, Of
  <1>4. Coverage(new, b) = Coverage(old, b)
    BY <1>1 DEF Coverage, Of
  <1>5. Resolutions(new, b) = Resolutions(old, b)
    <2>1. /\ Resolutions(new, b) = {r \in Of(new, "fact_resolutions") : BatchOf(r) = b}
          /\ Resolutions(old, b) = {r \in Of(old, "fact_resolutions") : BatchOf(r) = b}
      BY ResolutionsBatch
    <2> QED BY <2>1, <1>2 DEF Of
  <1>6. Of(old, "data_quality_flags") \subseteq Of(new, "data_quality_flags")
    BY DEF Of
  <1> QED BY <1>3, <1>4, <1>5, <1>6 DEF Whole

\* What an accepted row says of its batches, and what it locks.
LEMMA AcceptedOpen ==
  ASSUME NEW s, NEW row, evidence_integrity(s, row), Visible(s) \in SUBSET Rows
  PROVE  /\ \A b \in Within(row) : ~Ended(Visible(s), b, "published") /\ ~Ended(Visible(s), b, "failed")
         /\ Locks(Visible(s), row) = Within(row) \cup GraphLock(row)
  <1> DEFINE db == Visible(s)
  <1>1. CASE row.table = "fact_resolutions"
    <2>1. PICK k \in Of(db, "statement_coverage") : k.id = row.coverage /\ Building(db, k.batch)
      BY <1>1 DEF evidence_integrity, ResolutionIntegrity
    <2>2. BatchOf(row) = k.batch
      BY <2>1, CoverageKnown DEF BatchOf
    <2>3. {x \in Of(db, "statement_coverage") : x.id = row.coverage} = {k}
      <3>1. ASSUME NEW x \in Of(db, "statement_coverage"), x.id = row.coverage PROVE x = k
        BY <3>1, <2>1, RowsAssumption DEF Of, Keyed
      <3> QED BY <3>1, <2>1
    <2>4. ChildLock(db, row) = {BatchOf(row)} /\ FlagLock(row) = {}
      BY <1>1, <2>2, <2>3 DEF ChildLock, FlagLock
    <2>5. Within(row) = {BatchOf(row)}
      BY <1>1 DEF Within
    <2> QED BY <2>1, <2>2, <2>4, <2>5 DEF Locks, Building
  <1>2. CASE row.table \in {"normalization_inputs", "statement_coverage", "published", "failed"}
    <2>1. Building(db, row.batch)
      BY <1>2 DEF evidence_integrity, CoverageIntegrity, PublishIntegrity
    <2>2. Within(row) = {row.batch} /\ ChildLock(db, row) = {row.batch} /\ FlagLock(row) = {}
      BY <1>2 DEF Within, ChildLock, FlagLock
    <2> QED BY <2>1, <2>2 DEF Locks, Building
  <1>3. CASE row.table \notin {"normalization_inputs", "statement_coverage", "published", "failed", "fact_resolutions"}
    <2>1. Within(row) = FlagLock(row) /\ ChildLock(db, row) = {}
      BY <1>3 DEF Within, ChildLock
    <2>2. ASSUME NEW b \in FlagLock(row) PROVE Building(db, b)
      BY <2>2 DEF FlagLock, evidence_integrity, FlagIntegrity
    <2> QED BY <2>1, <2>2 DEF Locks, Building
  <1> QED BY <1>1, <1>2, <1>3

-----------------------------------------------------------------------------
(* The rows that a session sees stay consistent when it adds one ...       *)
LEMMA ReferredGrows ==
  ASSUME NEW s, NEW row, Referred(Visible(s)), evidence_integrity(s, row)
  PROVE  Referred(Visible(s) \cup {row})
  <1> DEFINE db == Visible(s)
             new == db \cup {row}
  <1>1. \A table : Of(db, table) \subseteq Of(new, table)
    BY DEF Of
  <1>2. ASSUME NEW r \in Of(new, "fact_resolutions")
        PROVE  /\ \E k \in Of(new, "statement_coverage") : k.id = r.coverage
               /\ r.status = "observed" => r.observation # none
    <2>1. CASE r \in db
      <3>1. r \in Of(db, "fact_resolutions")
        BY <2>1, <1>2 DEF Of
      <3> QED BY <3>1, <1>1 DEF Referred
    <2>2. CASE r = row
      <3>1. row.table = "fact_resolutions"
        BY <2>2, <1>2 DEF Of
      <3>2. ResolutionIntegrity(db, row)
        BY <3>1 DEF evidence_integrity
      <3> QED BY <3>2, <2>2, <1>1 DEF ResolutionIntegrity
    <2> QED BY <2>1, <2>2 DEF Of
  <1>3. ASSUME NEW p \in Of(new, "published")
        PROVE  \E b \in Of(new, "normalization_batches") : b.id = p.batch
    <2>1. CASE p \in db
      <3>1. p \in Of(db, "published")
        BY <2>1, <1>3 DEF Of
      <3> QED BY <3>1, <1>1 DEF Referred
    <2>2. CASE p = row
      <3>1. row.table = "published"
        BY <2>2, <1>3 DEF Of
      <3>2. Building(db, row.batch)
        BY <3>1 DEF evidence_integrity, PublishIntegrity
      <3> QED BY <3>2, <2>2, <1>1 DEF Building
    <2> QED BY <2>1, <2>2 DEF Of
  <1> QED BY <1>2, <1>3 DEF Referred

\* A batch that becomes published is whole.
LEMMA PublishedIsWhole ==
  ASSUME NEW s, NEW row, row.table = "published", evidence_integrity(s, row),
         Referred(Visible(s)), Visible(s) \in SUBSET Rows
  PROVE  Whole(Visible(s), row.batch)
  <1> DEFINE db == Visible(s)
             b == row.batch
  <1>1. PublishIntegrity(db, b)
    BY DEF evidence_integrity
  <1>2. ASSUME NEW r \in Resolutions(db, b)
        PROVE  IF r.status = "observed" THEN ObservationOf[r.observation].capture \in Manifest(db, b)
               ELSE \E f \in Of(db, "data_quality_flags") : f.resolution = r.id
    <2>1. r.status = "observed" => r.observation # none
      BY DEF Referred, Resolutions
    <2> QED BY <2>1, <1>1 DEF PublishIntegrity
  <1>3. {FilingOf[k.version].metadata : k \in Coverage(db, b)} \in (SUBSET Manifest(db, b)) \ {{}}
    BY <1>1 DEF PublishIntegrity
  <1> QED BY <1>1, <1>2, <1>3 DEF Whole, PublishIntegrity

LEMMA ConsistentGrows ==
  ASSUME NEW s, NEW row \in Rows, Consistent(Visible(s)), evidence_integrity(s, row),
         Visible(s) \in SUBSET Rows, row \notin Visible(s)
  PROVE  Consistent(Visible(s) \cup {row})
  <1> DEFINE db == Visible(s)
             new == db \cup {row}
  <1>1. Referred(new)
    BY ReferredGrows DEF Consistent
  <1>2. ASSUME NEW p \in Of(new, "published"), NEW b \in Within(row), p.batch = b
        PROVE  p = row
    <2>1. ~Ended(db, b, "published")
      BY AcceptedOpen
    <2> QED BY <2>1, <1>2 DEF Ended, Of
  <1>3. PublishedOnce(new)
    <2> SUFFICES ASSUME NEW p \in Of(new, "published"), NEW o \in Of(new, "published"), p.batch = o.batch
                 PROVE  p = o
      BY DEF PublishedOnce
    <2>1. ASSUME row.table = "published" PROVE Within(row) = {row.batch}
      BY <2>1 DEF Within
    <2>2. CASE p \in db /\ o \in db
      BY <2>2 DEF Consistent, PublishedOnce, Of
    <2>3. CASE p = row \/ o = row
      <3>1. row.table = "published"
        BY <2>3 DEF Of
      <3>2. p = row /\ o = row
        BY <3>1, <2>1, <2>3, <1>2
      <3> QED BY <3>2
    <2> QED BY <2>2, <2>3 DEF Of
  <1>4. PublishedWhole(new)
    <2> SUFFICES ASSUME NEW p \in Of(new, "published") PROVE Whole(new, p.batch)
      BY DEF PublishedWhole
    <2>1. CASE p = row
      <3>1. row.table = "published"
        BY <2>1 DEF Of
      <3>2. Whole(db, row.batch)
        BY <3>1, PublishedIsWhole DEF Consistent
      <3>3. /\ Manifest(new, row.batch) = Manifest(db, row.batch)
            /\ Coverage(new, row.batch) = Coverage(db, row.batch)
            /\ Of(db, "data_quality_flags") \subseteq Of(new, "data_quality_flags")
        BY <3>1 DEF Manifest, Inputs, Coverage, Of
      <3>4. Resolutions(new, row.batch) = Resolutions(db, row.batch)
        <4>1. Of(new, "fact_resolutions") = Of(db, "fact_resolutions")
          BY <3>1 DEF Of
        <4> QED BY <4>1, <1>1, ResolutionsBatch DEF Consistent
      <3> QED BY <3>2, <3>3, <3>4, <2>1 DEF Whole
    <2>2. CASE p # row
      <3>1. p \in Of(db, "published") /\ p.batch \notin Within(row)
        BY <2>2, <1>2 DEF Of
      <3>2. Whole(db, p.batch)
        BY <3>1 DEF Consistent, PublishedWhole
      <3>3. \A r \in new \ db : p.batch \notin Within(r)
        BY <3>1
      <3> QED BY <3>2, <3>3, <1>1, WholeGrows DEF Consistent
    <2> QED BY <2>1, <2>2
  <1>5. Acyclic(Links(new))
    <2>1. CASE row.table # "fact_revision_links"
      <3>1. Links(new) = Links(db)
        BY <2>1 DEF Links, Of
      <3> QED BY <3>1 DEF Consistent
    <2>2. CASE row.table = "fact_revision_links"
      <3>1. Links(new) = Links(db) \cup {<<row.earlier, row.later>>}
        BY <2>2 DEF Links, Of
      <3>2. row.earlier \notin Reachable(Links(db), row.later)
        BY <2>2 DEF evidence_integrity, RevisionIntegrity
      <3>3. Acyclic(Links(db))
        BY DEF Consistent
      <3>4. Acyclic(Links(db) \cup {<<row.earlier, row.later>>})
        BY ONLY <3>2, <3>3, AcyclicGrows
      <3> QED BY <3>1, <3>4
    <2> QED BY <2>1, <2>2
  <1> QED BY <1>1, <1>3, <1>4, <1>5 DEF Consistent

(* ... and when another session's transaction becomes visible to it.       *)
LEMMA Own ==
  ASSUME StoreIndInv, NEW s \in Writers
  PROVE  /\ Visible(s) \in SUBSET Rows /\ rows \in SUBSET Rows
         /\ Consistent(Visible(s)) /\ Consistent(rows)
         /\ open[s].rows \in SUBSET (Rows \ rows)
         /\ \A r \in open[s].rows : Within(r) \cup GraphLock(r) \subseteq open[s].locks
         /\ \A r \in open[s].rows : \A b \in Within(r) :
               ~Ended(rows, b, "published") /\ ~Ended(rows, b, "failed")
  <1>1. Visible(s) \in Views /\ rows \in Views
    BY DEF Views
  <1>2. open[s].rows \subseteq Rows \ rows /\ rows \subseteq Rows
    BY DEF StoreIndInv, StoreTypeOK
  <1>3. open[s].locks = UNION {Within(r) \cup GraphLock(r) : r \in open[s].rows}
    BY DEF StoreIndInv, LocksHeld
  <1> QED BY <1>1, <1>2, <1>3 DEF StoreIndInv, StillOpen, Visible

LEMMA NothingShared ==
  ASSUME StoreIndInv, NEW s \in Writers, NEW t \in Writers, s # t,
         NEW r \in open[s].rows, NEW o \in open[t].rows
  PROVE  /\ Within(r) \cap Within(o) = {}
         /\ ~(r.table = "fact_revision_links" /\ o.table = "fact_revision_links")
  <1>1. open[s].locks \cap open[t].locks = {}
    BY DEF StoreIndInv, StoreTypeOK
  <1>2. Within(r) \cup GraphLock(r) \subseteq open[s].locks /\ Within(o) \cup GraphLock(o) \subseteq open[t].locks
    BY Own
  <1>3. r.table = "fact_revision_links" => Issuer \in open[s].locks
    BY <1>2 DEF GraphLock
  <1>4. o.table = "fact_revision_links" => Issuer \in open[t].locks
    BY <1>2 DEF GraphLock
  <1> QED BY <1>1, <1>2, <1>3, <1>4

LEMMA ReferredMerge ==
  ASSUME NEW a, NEW b, Referred(a), Referred(b)
  PROVE  Referred(a \cup b)
  <1>1. \A table : Of(a \cup b, table) = Of(a, table) \cup Of(b, table)
    BY DEF Of
  <1>2. ASSUME NEW r \in Of(a \cup b, "fact_resolutions")
        PROVE  /\ \E k \in Of(a \cup b, "statement_coverage") : k.id = r.coverage
               /\ r.status = "observed" => r.observation # none
    BY <1>1, <1>2 DEF Referred
  <1>3. ASSUME NEW p \in Of(a \cup b, "published")
        PROVE  \E x \in Of(a \cup b, "normalization_batches") : x.id = p.batch
    BY <1>1, <1>3 DEF Referred
  <1> QED BY <1>2, <1>3 DEF Referred

\* A batch published in what s sees gains no row from t's transaction.
LEMMA PublishedUntouched ==
  ASSUME StoreIndInv, NEW s \in Writers, NEW t \in Writers, s # t,
         NEW p \in Of(Visible(s), "published"), NEW r \in open[t].rows
  PROVE  p.batch \notin Within(r)
  <1>1. CASE p \in rows
    <2>1. Ended(rows, p.batch, "published")
      BY <1>1 DEF Ended, Of
    <2> QED BY <2>1, Own
  <1>2. CASE p \in open[s].rows
    <2>1. Within(p) = {p.batch}
      BY DEF Within, Of
    <2> QED BY <2>1, <1>2, NothingShared
  <1> QED BY <1>1, <1>2 DEF Of, Visible

LEMMA ConsistentMerge ==
  ASSUME StoreIndInv, NEW s \in Writers, NEW t \in Writers, s # t
  PROVE  Consistent(Visible(s) \cup open[t].rows)
  <1> DEFINE new == Visible(s) \cup open[t].rows
  <1>1. new = Visible(s) \cup Visible(t) /\ new = Visible(t) \cup open[s].rows
    BY DEF Visible
  <1>2. /\ Visible(s) \in SUBSET Rows /\ Visible(t) \in SUBSET Rows /\ new \in SUBSET Rows
        /\ Visible(s) \in SUBSET new /\ Visible(t) \in SUBSET new
    BY <1>1, Own
  <1>3. Consistent(Visible(s)) /\ Consistent(Visible(t))
    BY Own
  <1>4. Referred(new)
    BY <1>1, <1>3, ReferredMerge DEF Consistent
  <1>5. Of(new, "published") = Of(Visible(s), "published") \cup Of(Visible(t), "published")
    BY <1>1 DEF Of
  <1>6. PublishedWhole(new)
    <2>1. ASSUME NEW p \in Of(Visible(s), "published") PROVE Whole(new, p.batch)
      <3>1. \A r \in new \ Visible(s) : p.batch \notin Within(r)
        BY PublishedUntouched
      <3>2. Whole(Visible(s), p.batch)
        BY <1>3 DEF Consistent, PublishedWhole
      <3> QED BY <3>1, <3>2, <1>2, <1>3, <1>4, WholeGrows DEF Consistent
    <2>2. ASSUME NEW p \in Of(Visible(t), "published") PROVE Whole(new, p.batch)
      <3>1. \A r \in new \ Visible(t) : p.batch \notin Within(r)
        BY <1>1, PublishedUntouched
      <3>2. Whole(Visible(t), p.batch)
        BY <1>3 DEF Consistent, PublishedWhole
      <3> QED BY <3>1, <3>2, <1>2, <1>3, <1>4, WholeGrows DEF Consistent
    <2> QED BY <2>1, <2>2, <1>5 DEF PublishedWhole
  <1>7. PublishedOnce(new)
    <2> SUFFICES ASSUME NEW p \in Of(new, "published"), NEW o \in Of(new, "published"), p.batch = o.batch
                 PROVE  p = o
      BY DEF PublishedOnce
    <2>1. CASE p \in Of(Visible(s), "published") /\ o \in Of(Visible(s), "published")
      BY <2>1, <1>3 DEF Consistent, PublishedOnce
    <2>2. CASE p \in Of(Visible(t), "published") /\ o \in Of(Visible(t), "published")
      BY <2>2, <1>3 DEF Consistent, PublishedOnce
    <2>3. ASSUME NEW x \in Of(Visible(s), "published"), NEW y \in open[t].rows, y.table = "published"
          PROVE  x.batch # y.batch
      <3>1. Within(y) = {y.batch}
        BY <2>3 DEF Within
      <3> QED BY <3>1, <2>3, PublishedUntouched
    <2>4. CASE p \in Of(Visible(s), "published") /\ o \in open[t].rows
      BY <2>4, <2>3 DEF Of
    <2>5. CASE o \in Of(Visible(s), "published") /\ p \in open[t].rows
      BY <2>5, <2>3 DEF Of
    <2> QED BY <2>1, <2>2, <2>4, <2>5 DEF Of, Visible
  <1>8. Acyclic(Links(new))
    <2>1. CASE \E r \in open[t].rows : r.table = "fact_revision_links"
      <3>1. Of(new, "fact_revision_links") = Of(Visible(t), "fact_revision_links")
        BY <2>1, <1>1, NothingShared DEF Of
      <3>2. Links(new) = Links(Visible(t))
        BY <3>1 DEF Links
      <3> QED BY <3>2, <1>3 DEF Consistent
    <2>2. CASE \A r \in open[t].rows : r.table # "fact_revision_links"
      <3>1. Of(new, "fact_revision_links") = Of(Visible(s), "fact_revision_links")
        BY <2>2, <1>1 DEF Of
      <3>2. Links(new) = Links(Visible(s))
        BY <3>1 DEF Links
      <3> QED BY <3>2, <1>3 DEF Consistent
    <2> QED BY <2>1, <2>2
  <1> QED BY <1>4, <1>6, <1>7, <1>8 DEF Consistent

-----------------------------------------------------------------------------
(* The invariant. *)

\* Ended says which rows of a batch there are.
LEMMA EndedBy ==
  ASSUME NEW a, NEW b, NEW x, NEW state \in {"published", "failed"}, Ended(a \cup b, x, state)
  PROVE  Ended(a, x, state) \/ \E r \in b : x \in Within(r)
  <1>1. PICK r \in Of(a \cup b, state) : r.batch = x
    BY DEF Ended
  <1>2. r.table = state /\ r \in a \cup b
    BY DEF Of
  <1>3. x \in Within(r)
    BY <1>1, <1>2 DEF Within
  <1> QED BY <1>1, <1>2, <1>3 DEF Ended, Of

LEMMA StoreInitOK == StoreInit => StoreIndInv
  <1> SUFFICES ASSUME StoreInit PROVE StoreIndInv
    OBVIOUS
  <1>1. rows = {} /\ \A s \in Writers : open[s] = no_work
    BY DEF StoreInit
  <1>2. \A s \in Writers : open[s].rows = {} /\ open[s].locks = {}
    BY <1>1 DEF no_work
  <1>3. StoreTypeOK
    BY <1>1, <1>2 DEF StoreTypeOK
  <1>4. Transactions
    BY <1>2 DEF Transactions, StoreInit, no_work
  <1>5. LocksHeld /\ StillOpen /\ ScopesWithEvent
    BY <1>2 DEF LocksHeld, StillOpen, ScopesWithEvent, Of
  <1>6. Consistent({})
    BY DEF Consistent, Referred, PublishedOnce, PublishedWhole, Acyclic, Links, Of
  <1>7. \A db \in Views : db = {}
    BY <1>1, <1>2 DEF Views, Visible
  <1> QED BY <1>3, <1>4, <1>5, <1>6, <1>7 DEF StoreIndInv

LEMMA InsertOK ==
  ASSUME StoreIndInv, NEW s \in Writers, Insert(s)
  PROVE  StoreIndInv'
  <1>1. PICK row \in Rows \ UNION {open[t].rows : t \in Writers} :
            /\ row \notin rows
            /\ \A t \in Writers \ {s} : open[t].locks \cap Locks(Visible(s), row) = {}
            /\ evidence_integrity(s, row)
            /\ open' = [open EXCEPT ![s] = [rows |-> @.rows \cup {row}, locks |-> @.locks \cup Locks(Visible(s), row)]]
            /\ rows' = rows
    BY DEF Insert
  <1> DEFINE taken == Locks(Visible(s), row)
  <1>2. open = [t \in Writers |-> [rows |-> open[t].rows, locks |-> open[t].locks]]
    BY DEF StoreIndInv, Transactions
  <1>3. /\ open'[s].rows = open[s].rows \cup {row} /\ open'[s].locks = open[s].locks \cup taken
        /\ \A t \in Writers \ {s} : open'[t] = open[t]
        /\ open' = [t \in Writers |-> [rows |-> open'[t].rows, locks |-> open'[t].locks]]
    BY <1>1, <1>2
  <1>4. \A t \in Writers : row \notin open[t].rows
    BY <1>1
  <1>5. row \notin Visible(s) /\ Visible(s) \in SUBSET Rows
    BY <1>1, <1>4, Own DEF Visible
  <1>6. /\ taken = Within(row) \cup GraphLock(row)
        /\ \A b \in Within(row) : ~Ended(Visible(s), b, "published") /\ ~Ended(Visible(s), b, "failed")
    BY <1>1, <1>5, AcceptedOpen
  <1>7. StoreTypeOK'
    <2>1. rows' \subseteq Rows /\ \A t \in Writers : open'[t].rows \subseteq Rows \ rows'
      BY <1>1, <1>3 DEF StoreIndInv, StoreTypeOK
    <2>2. ASSUME NEW t \in Writers, NEW u \in Writers, t # u
          PROVE  open'[t].rows \cap open'[u].rows = {}
      BY <1>3, <1>4, <2>2 DEF StoreIndInv, StoreTypeOK
    <2>3. ASSUME NEW t \in Writers, NEW u \in Writers, t # u
          PROVE  open'[t].locks \cap open'[u].locks = {}
      <3>1. open[t].locks \cap open[u].locks = {}
        BY <2>3 DEF StoreIndInv, StoreTypeOK
      <3>2. \A v \in Writers \ {s} : open[v].locks \cap taken = {}
        BY <1>1
      <3>3. CASE t = s
        BY <3>1, <3>2, <3>3, <1>3, <2>3
      <3>4. CASE u = s
        BY <3>1, <3>2, <3>4, <1>3, <2>3
      <3>5. CASE t # s /\ u # s
        BY <3>1, <3>5, <1>3
      <3> QED BY <3>3, <3>4, <3>5
    <2> QED BY <2>1, <2>2, <2>3 DEF StoreTypeOK
  <1>8. Transactions'
    BY <1>3 DEF Transactions
  <1>9. LocksHeld'
    <2>1. ASSUME NEW t \in Writers
          PROVE  open'[t].locks = UNION {Within(r) \cup GraphLock(r) : r \in open'[t].rows}
      <3>1. open[t].locks = UNION {Within(r) \cup GraphLock(r) : r \in open[t].rows}
        BY DEF StoreIndInv, LocksHeld
      <3>2. CASE t = s
        BY <3>1, <3>2, <1>3, <1>6
      <3>3. CASE t # s
        BY <3>1, <3>3, <1>3
      <3> QED BY <3>2, <3>3
    <2> QED BY <2>1 DEF LocksHeld
  <1>10. StillOpen'
    <2>1. ASSUME NEW b \in Within(row) PROVE ~Ended(rows, b, "published") /\ ~Ended(rows, b, "failed")
      BY <1>6 DEF Ended, Of, Visible
    <2>2. ASSUME NEW t \in Writers, NEW r \in open'[t].rows PROVE r = row \/ r \in open[t].rows
      BY <1>3
    <2> QED BY <2>1, <2>2, <1>1, Own DEF StillOpen
  <1>11. ScopesWithEvent'
    <2>1. ASSUME NEW t \in Writers, NEW c \in Of(open'[t].rows, "filing_event_scopes")
          PROVE  \E e \in Of(open'[t].rows, "filing_events") : e.id = c.event
      <3>1. \A table : Of(open[t].rows, table) \subseteq Of(open'[t].rows, table)
        BY <1>3 DEF Of
      <3>2. CASE c \in open[t].rows
        <4>1. c \in Of(open[t].rows, "filing_event_scopes")
          BY <2>1, <3>2 DEF Of
        <4> QED BY <4>1, <3>1 DEF StoreIndInv, ScopesWithEvent
      <3>3. CASE c \notin open[t].rows
        <4>1. t = s /\ c = row /\ row.table = "filing_event_scopes"
          BY <3>3, <2>1, <1>3 DEF Of
        <4>2. ScopeIntegrity(s, row)
          BY <4>1, <1>1 DEF evidence_integrity
        <4> QED BY <4>1, <4>2, <3>1 DEF ScopeIntegrity
      <3> QED BY <3>2, <3>3
    <2> QED BY <2>1 DEF ScopesWithEvent
  <1>12. ASSUME NEW db \in Views' PROVE Consistent(db)
    <2>1. Consistent(rows')
      BY <1>1, Own
    <2>2. ASSUME NEW t \in Writers PROVE Consistent(Visible(t)')
      <3>1. CASE t = s
        <4>1. Visible(t)' = Visible(s) \cup {row}
          BY <3>1, <1>1, <1>3 DEF Visible
        <4>2. Consistent(Visible(s) \cup {row})
          BY <1>1, <1>5, Own, ConsistentGrows
        <4> QED BY <4>1, <4>2
      <3>2. CASE t # s
        <4>1. Visible(t)' = Visible(t)
          BY <3>2, <1>1, <1>3 DEF Visible
        <4> QED BY <4>1, Own
      <3> QED BY <3>1, <3>2
    <2> QED BY <2>1, <2>2 DEF Views
  <1> QED BY <1>7, <1>8, <1>9, <1>10, <1>11, <1>12 DEF StoreIndInv

LEMMA CommitOK ==
  ASSUME StoreIndInv, NEW s \in Writers, Commit(s)
  PROVE  StoreIndInv'
  <1>1. rows' = rows \cup open[s].rows /\ open' = [open EXCEPT ![s] = no_work]
    BY DEF Commit
  <1>2. open = [t \in Writers |-> [rows |-> open[t].rows, locks |-> open[t].locks]]
    BY DEF StoreIndInv, Transactions
  <1>3. /\ open'[s].rows = {} /\ open'[s].locks = {}
        /\ \A t \in Writers \ {s} : open'[t] = open[t]
        /\ open' = [t \in Writers |-> [rows |-> open'[t].rows, locks |-> open'[t].locks]]
    BY <1>1, <1>2 DEF no_work
  <1>4. StoreTypeOK'
    <2>1. rows' \subseteq Rows /\ \A t \in Writers : open'[t].rows \subseteq Rows \ rows'
      BY <1>1, <1>3 DEF StoreIndInv, StoreTypeOK
    <2>2. ASSUME NEW t \in Writers, NEW u \in Writers, t # u
          PROVE  open'[t].rows \cap open'[u].rows = {} /\ open'[t].locks \cap open'[u].locks = {}
      BY <1>3, <2>2 DEF StoreIndInv, StoreTypeOK
    <2> QED BY <2>1, <2>2 DEF StoreTypeOK
  <1>5. Transactions'
    BY <1>3 DEF Transactions
  <1>6. LocksHeld' /\ ScopesWithEvent'
    BY <1>3 DEF StoreIndInv, LocksHeld, ScopesWithEvent, Of
  <1>7. StillOpen'
    <2>1. ASSUME NEW t \in Writers, NEW r \in open'[t].rows, NEW b \in Within(r),
                 NEW state \in {"published", "failed"}, Ended(rows', b, state)
          PROVE  FALSE
      <3>1. t # s /\ r \in open[t].rows
        BY <2>1, <1>3
      <3>2. ~Ended(rows, b, state)
        BY <3>1, Own
      <3>3. PICK o \in open[s].rows : b \in Within(o)
        BY <2>1, <3>2, <1>1, EndedBy
      <3> QED BY <3>1, <3>3, NothingShared
    <2> QED BY <2>1 DEF StillOpen
  <1>8. ASSUME NEW db \in Views' PROVE Consistent(db)
    <2>1. Consistent(rows')
      <3>1. rows' = Visible(s)
        BY <1>1 DEF Visible
      <3> QED BY <3>1, Own
    <2>2. ASSUME NEW t \in Writers PROVE Consistent(Visible(t)')
      <3>1. CASE t = s
        <4>1. Visible(t)' = rows'
          BY <3>1, <1>3 DEF Visible
        <4> QED BY <4>1, <2>1
      <3>2. CASE t # s
        <4>1. Visible(t)' = Visible(s) \cup open[t].rows
          BY <3>2, <1>1, <1>3 DEF Visible
        <4>2. Consistent(Visible(s) \cup open[t].rows)
          BY <3>2, ConsistentMerge
        <4> QED BY <4>1, <4>2
      <3> QED BY <3>1, <3>2
    <2> QED BY <2>1, <2>2 DEF Views
  <1> QED BY <1>4, <1>5, <1>6, <1>7, <1>8 DEF StoreIndInv

LEMMA RollbackOK ==
  ASSUME StoreIndInv, NEW s \in Writers, Rollback(s)
  PROVE  StoreIndInv'
  <1>1. rows' = rows /\ open' = [open EXCEPT ![s] = no_work]
    BY DEF Rollback
  <1>2. open = [t \in Writers |-> [rows |-> open[t].rows, locks |-> open[t].locks]]
    BY DEF StoreIndInv, Transactions
  <1>3. /\ open'[s].rows = {} /\ open'[s].locks = {}
        /\ \A t \in Writers \ {s} : open'[t] = open[t]
        /\ open' = [t \in Writers |-> [rows |-> open'[t].rows, locks |-> open'[t].locks]]
    BY <1>1, <1>2 DEF no_work
  <1>4. StoreTypeOK'
    <2>1. rows' \subseteq Rows /\ \A t \in Writers : open'[t].rows \subseteq Rows \ rows'
      BY <1>1, <1>3 DEF StoreIndInv, StoreTypeOK
    <2>2. ASSUME NEW t \in Writers, NEW u \in Writers, t # u
          PROVE  open'[t].rows \cap open'[u].rows = {} /\ open'[t].locks \cap open'[u].locks = {}
      BY <1>3, <2>2 DEF StoreIndInv, StoreTypeOK
    <2> QED BY <2>1, <2>2 DEF StoreTypeOK
  <1>5. Transactions'
    BY <1>3 DEF Transactions
  <1>6. LocksHeld' /\ ScopesWithEvent'
    BY <1>3 DEF StoreIndInv, LocksHeld, ScopesWithEvent, Of
  <1>7. StillOpen'
    <2>1. ASSUME NEW t \in Writers, NEW r \in open'[t].rows PROVE r \in open[t].rows
      BY <1>3
    <2> QED BY <2>1, <1>1, Own DEF StillOpen
  <1>8. ASSUME NEW db \in Views' PROVE Consistent(db)
    <2>1. Consistent(rows')
      BY <1>1, Own
    <2>2. ASSUME NEW t \in Writers PROVE Visible(t)' = rows \/ Visible(t)' = Visible(t)
      BY <1>1, <1>3 DEF Visible
    <2> QED BY <2>1, <2>2, <1>1, Own DEF Views
  <1> QED BY <1>4, <1>5, <1>6, <1>7, <1>8 DEF StoreIndInv

LEMMA StoreUnchanged == StoreIndInv /\ UNCHANGED store_vars => StoreIndInv'
  <1> SUFFICES ASSUME StoreIndInv, rows' = rows, open' = open PROVE StoreIndInv'
    BY DEF store_vars
  <1>1. StoreTypeOK' /\ Transactions'
    BY DEF StoreIndInv, StoreTypeOK, Transactions
  <1>2. LocksHeld' /\ StillOpen' /\ ScopesWithEvent'
    BY DEF StoreIndInv, LocksHeld, StillOpen, ScopesWithEvent
  <1>3. Views' = Views
    BY DEF Views, Visible
  <1> QED BY <1>1, <1>2, <1>3 DEF StoreIndInv

LEMMA StoreInvariance == StoreSpec => []StoreIndInv
  <1>1. StoreInit => StoreIndInv
    BY StoreInitOK
  <1>2. StoreIndInv /\ [StoreNext]_store_vars => StoreIndInv'
    BY InsertOK, CommitOK, RollbackOK, StoreUnchanged DEF StoreNext
  <1> QED BY <1>1, <1>2, PTL DEF StoreSpec

\* What is sealed is whole, however sessions interleave (the constraint triggers
\* of 0001): published batches rest on archived inputs, cover a statement and
\* flag what they leave unresolved; the graph of revisions has no cycle.
THEOREM WhatIsSealed == StoreSpec => []StoreIsWhole
  <1>1. StoreIndInv => StoreIsWhole
    <2> SUFFICES ASSUME StoreIndInv PROVE StoreIsWhole
      OBVIOUS
    <2>1. Consistent(rows)
      BY DEF StoreIndInv, Views
    <2> QED BY <2>1 DEF StoreIndInv, StoreIsWhole, Consistent, PublishedWhole, PublishedComplete, RevisionsAcyclic
  <1> QED BY <1>1, StoreInvariance, PTL

-----------------------------------------------------------------------------
(* The reads. *)
Known == Queries \cup UNION Series

LEMMA UnavailableUnusable ==
  ASSUME NEW q \in Known, NEW flags, NEW ks
  PROVE  ~Unavailable(q, flags, ks).usable
  <1>1. PICK c \in q.concepts : TRUE
    BY QueriesAssumption DEF Known
  <1> DEFINE facts == [x \in q.concepts |-> <<"unavailable", none>>]
  <1>2. facts[c][1] # "observed"
    BY <1>1
  <1>3. Result(q, flags, ks, facts, {}, {}).usable =>
            \A x \in q.concepts : facts[x][1] = "observed"
    BY DEF Result
  <1> QED BY <1>1, <1>2, <1>3 DEF Unavailable

\* A usable statement came through all four stages.
LEMMA UsableStages ==
  ASSUME NEW db, NEW q \in Known, read_statement(db, q).usable
  PROVE  LET captures == Vintages(Inputs(db, q.batches)).chosen
             eligible == EligibleCoverage(db, q, captures)
             ks == Edition(eligible, q).rows
         IN  /\ BundleProblem(db, q) = {}
             /\ read_statement(db, q) = FromFacts(q, ks, Facts(db, q, ks, captures),
                                                  Events(db, q, ks, captures))
  <1> DEFINE captures == Vintages(Inputs(db, q.batches)).chosen
             eligible == EligibleCoverage(db, q, captures)
             edition == Edition(eligible, q)
  <1>1. BundleProblem(db, q) = {}
    <2> SUFFICES ASSUME BundleProblem(db, q) # {} PROVE FALSE
      OBVIOUS
    <2>1. Bundle(db, q).flags # {}
      BY DEF Bundle
    <2>2. read_statement(db, q) = Unavailable(q, Bundle(db, q).flags, {})
      BY <2>1 DEF read_statement, FromBundle
    <2> QED BY <2>2, UnavailableUnusable
  <1>2. read_statement(db, q) = FromCoverage(db, q, eligible, captures)
    <2>1. Bundle(db, q) = [flags |-> {}, captures |-> captures]
      BY <1>1 DEF Bundle
    <2>2. Bundle(db, q).flags = {} /\ Bundle(db, q).captures = captures
      BY <2>1
    <2> QED BY <2>2 DEF read_statement, FromBundle
  <1>3. read_statement(db, q) = FromEdition(db, q, edition, captures)
    <2>1. CASE eligible = {}
      <3>1. read_statement(db, q) = Unavailable(q, {"coverage_unavailable"}, {})
        BY <1>2, <2>1 DEF FromCoverage
      <3> QED BY <3>1, UnavailableUnusable
    <2>2. CASE eligible # {}
      BY <1>2, <2>2 DEF FromCoverage
    <2> QED BY <2>1, <2>2
  <1>4. edition.flags = {}
    <2> SUFFICES ASSUME edition.flags # {} PROVE FALSE
      OBVIOUS
    <2>1. read_statement(db, q) = Unavailable(q, edition.flags, edition.rows)
      BY <1>3 DEF FromEdition
    <2> QED BY <2>1, UnavailableUnusable
  <1>5. read_statement(db, q) = FromFacts(q, edition.rows, Facts(db, q, edition.rows, captures),
                                          Events(db, q, edition.rows, captures))
    BY <1>3, <1>4 DEF FromEdition
  <1> QED BY <1>1, <1>5

LEMMA EditionRows == ASSUME NEW ks, NEW q PROVE Edition(ks, q).rows \subseteq ks
  BY DEF Edition

\* What passed the checks of the bundle.
LEMMA BundleClear ==
  ASSUME NEW db, NEW q, BundleProblem(db, q) = {}
  PROVE  LET v == Vintages(Inputs(db, q.batches)) IN
         /\ ~OtherEvents(db, q) /\ ~OtherVintage(db, q)
         /\ v.chosen \cap v.superseded = {}
  BY DEF BundleProblem

LEMMA VintageFresh ==
  ASSUME NEW inputs, NEW c \in Vintages(inputs).chosen,
         Vintages(inputs).chosen \cap Vintages(inputs).superseded = {},
         NEW i \in inputs, NEW j \in inputs, i[1] = c, j[2] = i[2],
         CaptureOf[j[1]].object = CaptureOf[c].object
  PROVE  CaptureOf[j[1]].fetched <= CaptureOf[c].fetched
  <1> DEFINE peers(x) == {y \in inputs : y[2] = x[2] /\ CaptureOf[y[1]].object = CaptureOf[x[1]].object}
             newest(x) == \A y \in peers(x) : CaptureOf[y[1]].fetched <= CaptureOf[x[1]].fetched
  <1>1. Vintages(inputs).superseded = {x[1] : x \in {y \in inputs : ~newest(y)}}
    BY DEF Vintages
  <1>2. newest(i)
    BY <1>1
  <1> QED BY <1>2

LEMMA FactObserved ==
  ASSUME NEW found, NEW captures, Fact(found, captures)[1] = "observed"
  PROVE  \E r \in found : /\ Fact(found, captures) = <<r.status, r.observation>>
                          /\ r.status = "observed"
                          /\ r.observation # none => ObservationOf[r.observation].capture \in captures
  <1> DEFINE signatures == {<<r.status, r.observation>> : r \in found}
             g == CHOOSE x \in signatures : TRUE
  <1>1. found # {}
    BY DEF Fact
  <1>2. g \in signatures
    BY <1>1
  <1>3. PICK r \in found : g = <<r.status, r.observation>>
    BY <1>2
  <1>4. Fact(found, captures) =
          IF found = {} THEN <<"missing", none>>
          ELSE IF Cardinality(signatures) > 1 THEN <<"ambiguous", none>>
          ELSE IF g[2] # none /\ ObservationOf[g[2]].capture \notin captures THEN <<"stale_source", none>>
          ELSE IF g[1] = "observed" THEN g ELSE <<g[1], none>>
    BY DEF Fact
  <1> HIDE DEF g, signatures
  <1>5. /\ <<"missing", none>>[1] # "observed" /\ <<"ambiguous", none>>[1] # "observed"
        /\ <<"stale_source", none>>[1] # "observed" /\ <<g[1], none>>[1] = g[1]
    OBVIOUS
  <1>6. g[1] = "observed" /\ Fact(found, captures) = g
        /\ ~(g[2] # none /\ ObservationOf[g[2]].capture \notin captures)
    BY <1>4, <1>5
  <1>7. g[1] = r.status /\ g[2] = r.observation
    BY <1>3
  <1> QED BY <1>3, <1>6, <1>7

LEMMA FieldsFromFacts ==
  ASSUME NEW q, NEW ks, NEW f, NEW events
  PROVE  LET r == FromFacts(q, ks, f, events) IN
         /\ r.versions = {k.version : k \in ks} /\ r.facts = f.facts
         /\ r.usable => /\ f.flags \cup {e.kind : e \in events} \cup View(q)
                             \subseteq {"earliest_available", "revised_view"}
                        /\ \A c \in q.concepts : f.facts[c][1] = "observed"
  BY DEF FromFacts, Result

LEMMA Disowned ==
  ASSUME NEW q \in Known, read_statement(rows, q).usable
  PROVE  NotDisowned(q, read_statement(rows, q))
  <1> DEFINE captures == Vintages(Inputs(rows, q.batches)).chosen
             eligible == EligibleCoverage(rows, q, captures)
             ks == Edition(eligible, q).rows
             facts == Facts(rows, q, ks, captures)
             events == Events(rows, q, ks, captures)
             r == read_statement(rows, q)
  <1>1. BundleProblem(rows, q) = {} /\ r = FromFacts(q, ks, facts, events)
    BY UsableStages
  <1> SUFFICES ASSUME NEW e \in Of(rows, "filing_events"), NEW c \in Of(rows, "filing_event_scopes"),
                      e.id \in q.events, c.event = e.id,
                      e.kind \in {"non_reliance", "withdrawal"},
                      q.cutoff = none \/ e.announced <= q.cutoff,
                      \E v \in r.versions : FilingOf[v].filing = c.filing,
                      c.period \in {none, q.period}, c.concept \in {none} \cup q.concepts
               PROVE  FALSE
    BY DEF NotDisowned
  <1> HIDE DEF captures, eligible, ks, facts, events, r
  <1>2. r.versions = {k.version : k \in ks}
    BY <1>1, FieldsFromFacts
  <1>3. e.issuer = Issuer /\ FilingOf[e.source].metadata \in captures
    <2>1. ~OtherEvents(rows, q) /\ ~OtherVintage(rows, q)
      BY <1>1, BundleClear
    <2>2. e \in Pinned(rows, "filing_events", q.events)
      BY DEF Pinned
    <2> QED BY <2>1, <2>2 DEF OtherEvents, OtherVintage, captures
  <1>4. \E k \in ks : FilingOf[k.version].filing = c.filing
    BY <1>2
  <1>5. e \in events
    BY <1>3, <1>4 DEF Events, events
  <1>6. r.usable
    BY DEF r
  <1>7. {x.kind : x \in events} \subseteq {"earliest_available", "revised_view"}
    BY <1>1, <1>6, FieldsFromFacts
  <1> QED BY <1>5, <1>7

LEMMA Fresh ==
  ASSUME Consistent(rows), NEW q \in Known, read_statement(rows, q).usable
  PROVE  IsFresh(q, read_statement(rows, q))
  <1> DEFINE inputs == Inputs(rows, q.batches)
             captures == Vintages(inputs).chosen
             eligible == EligibleCoverage(rows, q, captures)
             ks == Edition(eligible, q).rows
             facts == Facts(rows, q, ks, captures)
             r == read_statement(rows, q)
  <1>1. BundleProblem(rows, q) = {} /\ r = FromFacts(q, ks, facts, Events(rows, q, ks, captures))
    BY UsableStages
  <1>2. captures \cap Vintages(inputs).superseded = {}
    BY <1>1, BundleClear
  <1>3. r.versions = {k.version : k \in ks} /\ r.facts = facts.facts
    BY <1>1, FieldsFromFacts
  <1>4. ASSUME NEW v \in r.versions PROVE FilingOf[v].metadata \in captures
    <2>1. PICK k \in ks : v = k.version
      BY <1>3
    <2>2. k \in eligible
      BY EditionRows
    <2> QED BY <2>1, <2>2 DEF EligibleCoverage
  <1>5. ASSUME NEW x \in q.concepts PROVE ObservationOf[r.facts[x][2]].capture \in captures
    <2> DEFINE found == Found(rows, ks, x)
    <2>1. r.facts[x] = Fact(found, captures)
      BY <1>3 DEF Facts, FactsFrom
    <2>2. r.facts[x][1] = "observed"
      <3>1. r.usable
        OBVIOUS
      <3> HIDE DEF r, facts, found, ks, captures
      <3>2. \A y \in q.concepts : facts.facts[y][1] = "observed"
        BY ONLY <1>1, <3>1, FieldsFromFacts
      <3> QED
        BY <1>3, <3>2
    <2>3. PICK y \in found : /\ r.facts[x] = <<y.status, y.observation>> /\ y.status = "observed"
                             /\ y.observation # none => ObservationOf[y.observation].capture \in captures
      BY <2>1, <2>2, FactObserved
    <2>4. y.observation # none
      BY <2>3 DEF Found, Consistent, Referred
    <2>5. r.facts[x][2] = y.observation
      BY <2>3
    <2> QED BY <2>3, <2>4, <2>5
  <1> SUFFICES ASSUME NEW c \in {ObservationOf[r.facts[x][2]].capture : x \in q.concepts}
                                   \cup {FilingOf[v].metadata : v \in r.versions},
                      NEW i \in inputs, NEW j \in inputs,
                      i[1] = c, j[2] = i[2], CaptureOf[j[1]].object = CaptureOf[c].object
               PROVE  CaptureOf[j[1]].fetched <= CaptureOf[c].fetched
    BY DEF IsFresh
  <1>6. c \in captures
    BY <1>4, <1>5
  <1> QED BY <1>2, <1>6, VintageFresh

\* A usable statement was taken from a filing.
LEMMA UsableHasVersion ==
  ASSUME NEW db, NEW q \in Known, read_statement(db, q).usable
  PROVE  read_statement(db, q).versions # {}
  <1> DEFINE captures == Vintages(Inputs(db, q.batches)).chosen
             eligible == EligibleCoverage(db, q, captures)
             ks == Edition(eligible, q).rows
             facts == Facts(db, q, ks, captures)
             r == read_statement(db, q)
  <1>1. r = FromFacts(q, ks, facts, Events(db, q, ks, captures))
    BY UsableStages
  <1>2. r.versions = {k.version : k \in ks} /\ r.facts = facts.facts
    BY <1>1, FieldsFromFacts
  <1>3. PICK x \in q.concepts : TRUE
    BY QueriesAssumption DEF Known
  <1>4. r.facts[x] = Fact(Found(db, ks, x), captures)
    BY <1>2 DEF Facts, FactsFrom
  <1>5. r.facts[x][1] = "observed"
    BY SMTT(40), <1>1, <1>2, FieldsFromFacts
  <1>6. PICK y \in Found(db, ks, x) : TRUE
    BY <1>4, <1>5, FactObserved
  <1>7. PICK k \in ks : k.id = y.coverage
    BY <1>6 DEF Found
  <1> QED BY <1>2, <1>7

LEMMA AtMostOne ==
  ASSUME NEW S, IsFiniteSet(S), Cardinality(S) <= 1, NEW a \in S, NEW b \in S
  PROVE  a = b
  <1> SUFFICES ASSUME a # b PROVE FALSE
    OBVIOUS
  <1>1. IsFiniteSet({a, b}) /\ Cardinality({a, b}) <= Cardinality(S) /\ {a, b} \subseteq S
    BY FS_Subset
  <1>2. Cardinality({a, b}) = 2
    <2>1. Cardinality({a}) = 1 /\ IsFiniteSet({a})
      BY FS_Singleton
    <2>2. Cardinality({a} \cup {b}) = Cardinality({a}) + 1
      BY <2>1, FS_AddElement
    <2>3. {a} \cup {b} = {a, b}
      OBVIOUS
    <2> QED BY <2>1, <2>2, <2>3
  <1>3. Cardinality(S) \in Nat
    BY FS_CardinalityType
  <1> QED BY <1>1, <1>2, <1>3

LEMMA FiniteImage ==
  ASSUME NEW S, IsFiniteSet(S), NEW f, f = [x \in S |-> f[x]]
  PROVE  IsFiniteSet({f[x] : x \in S})
  <1> DEFINE T == {f[x] : x \in S}
  <1>1. f \in [S -> T]
    OBVIOUS
  <1>2. \A y \in T : \E x \in S : f[x] = y
    OBVIOUS
  <1>3. f \in Surjection(S, T)
    BY <1>1, <1>2 DEF Surjection
  <1> QED BY <1>3, FS_Surjection

LEMMA SameEdition ==
  ASSUME NEW qs \in Series PROVE OfOneEdition(qs, read_statements(rows, qs))
  <1> DEFINE result == [q \in qs |-> read_statement(rows, q)]
  <1>1. read_statements(rows, qs).usable = OneEdition(qs, result)
        /\ read_statements(rows, qs).result = result
    BY DEF read_statements, StatementsFrom
  <1> SUFFICES ASSUME OneEdition(qs, result), NEW q \in qs, NEW m \in qs,
                      q.period = m.period, q.family # m.family
               PROVE  result[q].versions = result[m].versions
    BY <1>1 DEF OfOneEdition
  <1> DEFINE members == {x \in qs : x.period = q.period}
             families == {x.family : x \in members}
             editions == {result[x].versions : x \in members} \ {{}}
  <1>2. q \in members /\ m \in members /\ IsFiniteSet(members)
    BY QueriesAssumption, FS_Subset
  <1>3. IsFiniteSet(families) /\ IsFiniteSet({result[x].versions : x \in members})
    <2> DEFINE family == [x \in members |-> x.family]
               edition == [x \in members |-> result[x].versions]
    <2>1. IsFiniteSet({family[x] : x \in members}) /\ IsFiniteSet({edition[x] : x \in members})
      <3>1. family = [x \in members |-> family[x]] /\ edition = [x \in members |-> edition[x]]
        OBVIOUS
      <3> HIDE DEF family, edition, members, result
      <3>2. IsFiniteSet({family[x] : x \in members})
        BY <3>1, <1>2, FiniteImage
      <3>3. IsFiniteSet({edition[x] : x \in members})
        BY <3>1, <1>2, FiniteImage
      <3> QED BY <3>2, <3>3
    <2>2. {family[x] : x \in members} = families
      OBVIOUS
    <2>3. {edition[x] : x \in members} = {result[x].versions : x \in members}
      OBVIOUS
    <2> QED BY <2>1, <2>2, <2>3
  <1>4. IsFiniteSet(editions)
    BY <1>3, FS_Difference
  <1>5. Cardinality(families) <= 1 \/ Cardinality(editions) <= 1
    BY DEF OneEdition
  <1>6. q.family \in families /\ m.family \in families
    BY <1>2
  <1>7. Cardinality(editions) <= 1
    BY <1>5, <1>6, <1>3, AtMostOne
  <1>8. ASSUME NEW x \in {q, m} PROVE result[x].versions \in editions
    <2>1. x \in qs /\ x \in Known /\ x \in members
      BY <1>2 DEF Known
    <2>2. result[x].usable
      BY <2>1 DEF OneEdition
    <2>3. read_statement(rows, x).versions # {}
      BY <2>1, <2>2, UsableHasVersion
    <2> QED BY <2>1, <2>3
  <1> QED BY SMTT(40), <1>4, <1>7, <1>8, AtMostOne

\* What is presented as usable is: no pinned event known by the cutoff disowns a
\* filing behind it, no newer pinned capture supersedes its bytes, and statements
\* of one period come from one edition (pit.py).
THEOREM UsableIsRight == StoreSpec => []UsableIsUsable
  <1>1. StoreIndInv => UsableIsUsable
    <2> SUFFICES ASSUME StoreIndInv PROVE UsableIsUsable
      OBVIOUS
    <2>1. Consistent(rows)
      BY DEF StoreIndInv, Views
    <2>2. ASSUME NEW q \in Queries PROVE ReallyUsable(q, read_statement(rows, q))
      <3>1. q \in Known
        BY DEF Known
      <3>2. CASE read_statement(rows, q).usable
        BY <3>1, <3>2, <2>1, Disowned, Fresh DEF ReallyUsable
      <3>3. CASE ~read_statement(rows, q).usable
        BY <3>3 DEF ReallyUsable, NotDisowned, IsFresh
      <3> QED BY <3>2, <3>3
    <2> QED BY <2>2, SameEdition DEF UsableIsUsable
  <1> QED BY <1>1, StoreInvariance, PTL

-----------------------------------------------------------------------------
(* Reads repeated. *)

LEMMA OntoIfFull ==
  ASSUME NEW S, NEW T, IsFiniteSet(S), IsFiniteSet(T), NEW f \in [S -> T],
         \A x, y \in S : f[x] = f[y] => x = y, Cardinality(S) = Cardinality(T)
  PROVE  \A y \in T : \E x \in S : f[x] = y
  <1>1. f \in Injection(S, T)
    BY DEF Injection, IsInjective
  <1>2. f \in Surjection(S, T)
    BY <1>1, FS_Injection
  <1> QED BY <1>2 DEF Surjection

\* As many rows as ids: each id has its row, and a later row is none of them.
LEMMA PinnedStay ==
  ASSUME NEW new \in SUBSET Rows, NEW old \in SUBSET new, NEW table \in Keyed,
         NEW ids, IsFiniteSet(ids), Cardinality(Pinned(old, table, ids)) = Cardinality(ids)
  PROVE  Pinned(new, table, ids) = Pinned(old, table, ids)
  <1> DEFINE S == Pinned(old, table, ids)
             f == [r \in S |-> r.id]
  <1>1. S \subseteq Rows /\ IsFiniteSet(S)
    <2>1. S \subseteq Rows
      BY DEF Pinned, Of
    <2> QED BY <2>1, RowsAssumption, FS_Subset
  <1>2. f \in [S -> ids]
    BY DEF Pinned
  <1>3. ASSUME NEW x \in S, NEW y \in S, f[x] = f[y] PROVE x = y
    BY <1>1, <1>3, RowsAssumption DEF Pinned, Of
  <1> HIDE DEF f
  <1>4. \A i \in ids : \E r \in S : f[r] = i
    BY <1>1, <1>2, <1>3, OntoIfFull
  <1>5. \A i \in ids : \E r \in S : r.id = i
    BY <1>4 DEF f
  <1>6. ASSUME NEW r \in Pinned(new, table, ids) PROVE r \in Pinned(old, table, ids)
    <2>1. r \in Rows /\ r.table = table /\ r.id \in ids
      BY DEF Pinned, Of
    <2>2. PICK o \in S : o.id = r.id
      BY <2>1, <1>5
    <2>3. o \in Rows /\ o.table = table
      BY DEF Pinned, Of
    <2>4. o = r
      BY <2>1, <2>2, <2>3, RowsAssumption
    <2> QED BY <2>2, <2>4
  <1>7. Pinned(old, table, ids) \subseteq Pinned(new, table, ids)
    BY DEF Pinned, Of
  <1> QED BY <1>6, <1>7

LEMMA AllPublished ==
  ASSUME StoreIndInv, NEW q \in Known, ~NotAllPublished(rows, q)
  PROVE  \A b \in q.batches : Ended(rows, b, "published")
  <1> DEFINE S == PublishedOf(rows, q.batches)
             f == [p \in S |-> p.batch]
  <1>1. S \subseteq Rows /\ IsFiniteSet(S)
    <2>1. S \subseteq Rows
      BY DEF PublishedOf, Of, StoreIndInv, StoreTypeOK
    <2> QED BY <2>1, RowsAssumption, FS_Subset
  <1>2. f \in [S -> q.batches]
    BY DEF PublishedOf
  <1>3. ASSUME NEW x \in S, NEW y \in S, f[x] = f[y] PROVE x = y
    <2>1. PublishedOnce(rows)
      BY DEF StoreIndInv, Views, Consistent
    <2> QED BY <1>3, <2>1 DEF PublishedOnce, PublishedOf
  <1>4. IsFiniteSet(q.batches) /\ Cardinality(S) = Cardinality(q.batches)
    BY QueriesAssumption DEF Known, NotAllPublished
  <1> HIDE DEF f
  <1>5. \A b \in q.batches : \E p \in S : f[p] = b
    BY <1>1, <1>2, <1>3, <1>4, OntoIfFull
  <1> QED BY <1>5 DEF Ended, PublishedOf, f

\* What a transaction adds says nothing of published batches.
Sealed(new, q) ==
    /\ PublishedOf(new, q.batches) = PublishedOf(rows, q.batches)
    /\ Pinned(new, "normalization_batches", q.batches) = Pinned(rows, "normalization_batches", q.batches)
    /\ Inputs(new, q.batches) = Inputs(rows, q.batches)
    /\ \A k \in Of(new, "statement_coverage") : k.batch \in q.batches => k \in rows
    /\ \A r \in Of(new, "fact_resolutions"), k \in Of(rows, "statement_coverage") :
          k.batch \in q.batches /\ k.id = r.coverage => r \in rows
    /\ \A f \in Of(new, "data_quality_flags") : f.batch \in q.batches => f \in rows

LEMMA PublishedSealed ==
  ASSUME StoreIndInv, NEW s \in Writers, NEW q \in Known, ~NotAllPublished(rows, q)
  PROVE  Sealed(Visible(s), q)
  <1> DEFINE new == Visible(s)
  <1>1. ASSUME NEW r \in new, NEW b \in Within(r), b \in q.batches PROVE r \in rows
    <2>1. Ended(rows, b, "published")
      BY <1>1, AllPublished
    <2> QED BY <1>1, <2>1, Own DEF Visible
  <1>2. ASSUME NEW r \in new, r.table \in {"normalization_inputs", "statement_coverage", "published"},
               r.batch \in q.batches
        PROVE  r \in rows
    <2>1. r.batch \in Within(r)
      BY <1>2 DEF Within
    <2> QED BY <1>1, <1>2, <2>1
  <1>3. rows \subseteq new /\ new \in SUBSET Rows /\ Referred(rows) /\ rows \in SUBSET Rows
    BY Own DEF Visible, Consistent
  <1>4. PublishedOf(new, q.batches) = PublishedOf(rows, q.batches)
        /\ Inputs(new, q.batches) = Inputs(rows, q.batches)
    <2>1. PublishedOf(new, q.batches) = PublishedOf(rows, q.batches)
      BY <1>2, <1>3 DEF PublishedOf, Of
    <2>2. {x \in Of(new, "normalization_inputs") : x.batch \in q.batches}
            = {x \in Of(rows, "normalization_inputs") : x.batch \in q.batches}
      BY <1>2, <1>3 DEF Of
    <2> QED BY <2>1, <2>2 DEF Inputs
  <1>5. Pinned(new, "normalization_batches", q.batches) = Pinned(rows, "normalization_batches", q.batches)
    <2>1. ASSUME NEW r \in Pinned(new, "normalization_batches", q.batches)
          PROVE  r \in Pinned(rows, "normalization_batches", q.batches)
      <3>1. r \in Rows /\ r.table = "normalization_batches" /\ r.id \in q.batches
        BY <1>3 DEF Pinned, Of
      <3>2. PICK p \in Of(rows, "published") : p.batch = r.id
        BY <3>1, AllPublished DEF Ended
      <3>3. PICK b \in Of(rows, "normalization_batches") : b.id = r.id
        BY <3>2, <1>3 DEF Referred
      <3>4. b = r
        BY <3>1, <3>3, <1>3, RowsAssumption DEF Of, Keyed
      <3> QED BY <3>1, <3>3, <3>4 DEF Pinned
    <2> QED BY <2>1, <1>3 DEF Pinned, Of
  <1>6. ASSUME NEW r \in Of(new, "fact_resolutions"), NEW k \in Of(rows, "statement_coverage"),
               k.batch \in q.batches, k.id = r.coverage
        PROVE  r \in rows
    <2>1. BatchOf(r) = k.batch
      BY <1>6, <1>3, CoverageKnown DEF BatchOf
    <2>2. k.batch \in Within(r) /\ r \in new
      BY <2>1, <1>6 DEF Within, Of
    <2> QED BY <2>2, <1>6, <1>1
  <1>7. ASSUME NEW f \in Of(new, "data_quality_flags"), f.batch \in q.batches PROVE f \in rows
    <2>1. f.batch # none
      BY <1>7, QueriesAssumption DEF Known
    <2>2. f.batch \in Within(f) /\ f \in new
      BY <2>1, <1>7 DEF Within, FlagLock, Of
    <2> QED BY <2>2, <1>7, <1>1
  <1> QED BY <1>2, <1>4, <1>5, <1>6, <1>7 DEF Sealed, Of

LEMMA SameBundle ==
  ASSUME NEW q \in Known, NEW new \in SUBSET Rows, rows \in SUBSET new, Sealed(new, q),
         BundleProblem(rows, q) \cap Awaiting = {}
  PROVE  /\ BundleProblem(new, q) = BundleProblem(rows, q)
         /\ BundleProblem(rows, q) = {} =>
               /\ Pinned(new, "filing_events", q.events) = Pinned(rows, "filing_events", q.events)
               /\ Pinned(new, "data_quality_flags", q.flags) = Pinned(rows, "data_quality_flags", q.flags)
  <1> DEFINE v == Vintages(Inputs(rows, q.batches))
  <1>1. /\ NotAllPublished(new, q) <=> NotAllPublished(rows, q)
        /\ OtherRevision(new, q) <=> OtherRevision(rows, q)
        /\ Nondeterministic(new, q) <=> Nondeterministic(rows, q)
        /\ Captures(new, q) = Captures(rows, q)
    BY DEF Sealed, NotAllPublished, OtherRevision, Nondeterministic, Captures
  <1>2. NotYetCaptured(new, q) <=> NotYetCaptured(rows, q)
    BY <1>1 DEF NotYetCaptured
  <1>3. Vintages(Inputs(new, q.batches)) = v
    BY DEF Sealed
  <1>4. ~OtherEvents(rows, q) =>
            Pinned(new, "filing_events", q.events) = Pinned(rows, "filing_events", q.events)
    <2>1. IsFiniteSet(q.events)
      BY QueriesAssumption DEF Known
    <2> QED BY <2>1, PinnedStay DEF OtherEvents, Keyed
  <1>5. ~OtherFlags(rows, q) =>
            Pinned(new, "data_quality_flags", q.flags) = Pinned(rows, "data_quality_flags", q.flags)
    <2>1. IsFiniteSet(q.flags)
      BY QueriesAssumption DEF Known
    <2> QED BY <2>1, PinnedStay DEF OtherFlags, Keyed
  <1>6. ~OtherEvents(rows, q) => ~OtherEvents(new, q)
                                /\ (OtherVintage(new, q) <=> OtherVintage(rows, q))
    BY <1>3, <1>4 DEF OtherEvents, OtherVintage
  <1>7. ~OtherFlags(rows, q) => ~OtherFlags(new, q)
    BY <1>5 DEF OtherFlags
  <1>8. CASE \/ NotAllPublished(rows, q) \/ OtherRevision(rows, q) \/ Nondeterministic(rows, q)
             \/ Captures(rows, q) # q.captures \/ NotYetCaptured(rows, q)
    BY <1>1, <1>2, <1>8 DEF BundleProblem
  <1>9. CASE ~(\/ NotAllPublished(rows, q) \/ OtherRevision(rows, q) \/ Nondeterministic(rows, q)
               \/ Captures(rows, q) # q.captures \/ NotYetCaptured(rows, q))
    <2>1. ~OtherEvents(rows, q)
      BY <1>9 DEF BundleProblem, Awaiting
    <2>2. ~OtherFlags(rows, q)
      BY <1>9, <2>1 DEF BundleProblem, Awaiting
    <2>3. BundleProblem(new, q) = BundleProblem(rows, q)
      BY <1>1, <1>2, <1>3, <1>6, <1>7, <1>9, <2>1, <2>2 DEF BundleProblem
    <2> QED BY <2>1, <2>2, <2>3, <1>4, <1>5
  <1> QED BY <1>8, <1>9

LEMMA SameFacts ==
  ASSUME StoreIndInv, NEW s \in Writers, NEW q \in Known, Sealed(Visible(s), q),
         Pinned(Visible(s), "data_quality_flags", q.flags) = Pinned(rows, "data_quality_flags", q.flags),
         NEW ks \in SUBSET Of(rows, "statement_coverage"), \A k \in ks : k.batch \in q.batches,
         NEW captures
  PROVE  Facts(Visible(s), q, ks, captures) = Facts(rows, q, ks, captures)
  <1> DEFINE new == Visible(s)
  <1>1. rows \subseteq new
    BY DEF Visible
  <1>2. ASSUME NEW c PROVE Found(new, ks, c) = Found(rows, ks, c)
    BY <1>1 DEF Found, Sealed, Of
  <1>3. Quality(new, q, ks) = Quality(rows, q, ks)
    <2>1. ASSUME NEW f PROVE f \in Quality(new, q, ks) <=> f \in Quality(rows, q, ks)
      <3>1. f \in Of(new, "data_quality_flags") /\ f.id \in q.flags
              <=> f \in Of(rows, "data_quality_flags") /\ f.id \in q.flags
        BY DEF Pinned
      <3>2. f \in Of(new, "data_quality_flags") /\ f.batch \in q.batches
              <=> f \in Of(rows, "data_quality_flags") /\ f.batch \in q.batches
        BY <1>1 DEF Sealed, Of
      <3> QED BY <3>1, <3>2, <1>2 DEF Quality
    <2> QED BY <2>1
  <1>4. [c \in q.concepts |-> Fact(Found(new, ks, c), captures)]
          = [c \in q.concepts |-> Fact(Found(rows, ks, c), captures)]
    BY <1>2
  <1> QED BY <1>3, <1>4 DEF Facts

LEMMA SameEvents ==
  ASSUME StoreIndInv, NEW s \in Writers, NEW q,
         Pinned(Visible(s), "filing_events", q.events) = Pinned(rows, "filing_events", q.events),
         NEW ks, NEW captures
  PROVE  Events(Visible(s), q, ks, captures) = Events(rows, q, ks, captures)
  <1> DEFINE new == Visible(s)
  <1>1. rows \subseteq new
    BY DEF Visible
  <1>2. ASSUME NEW e \in Of(rows, "filing_events"), NEW c \in Of(new, "filing_event_scopes"), c.event = e.id
        PROVE  c \in Of(rows, "filing_event_scopes")
    <2> SUFFICES ASSUME c \in open[s].rows PROVE FALSE
      BY DEF Visible, Of
    <2>1. c \in Of(open[s].rows, "filing_event_scopes")
      BY DEF Of
    <2>2. PICK x \in Of(open[s].rows, "filing_events") : x.id = c.event
      BY <2>1 DEF StoreIndInv, ScopesWithEvent
    <2>3. x = e
      BY <2>2, <1>2, Own, RowsAssumption DEF Of, Keyed
    <2> QED BY <2>2, <2>3, Own DEF Of
  <1>3. ASSUME NEW e PROVE e \in Of(new, "filing_events") /\ e.id \in q.events
                             <=> e \in Of(rows, "filing_events") /\ e.id \in q.events
    BY DEF Pinned
  <1>4. Of(rows, "filing_event_scopes") \subseteq Of(new, "filing_event_scopes")
    BY <1>1 DEF Of
  <1>5. ASSUME NEW e PROVE e \in Events(new, q, ks, captures) <=> e \in Events(rows, q, ks, captures)
    <2>1. ASSUME e \in Of(rows, "filing_events")
          PROVE  {c \in Of(new, "filing_event_scopes") : c.event = e.id}
                   = {c \in Of(rows, "filing_event_scopes") : c.event = e.id}
      BY <2>1, <1>2, <1>4
    <2> QED BY <2>1, <1>3 DEF Events
  <1> QED BY <1>5

LEMMA ReadFlags ==
  ASSUME NEW db, NEW q, BundleProblem(db, q) # {}
  PROVE  /\ read_statement(db, q) = Unavailable(q, BundleProblem(db, q), {})
         /\ read_statement(db, q).flags = BundleProblem(db, q)
  <1>1. Bundle(db, q).flags = BundleProblem(db, q)
    BY DEF Bundle
  <1>2. read_statement(db, q) = Unavailable(q, BundleProblem(db, q), {})
    BY <1>1 DEF read_statement, FromBundle
  <1>3. Unavailable(q, BundleProblem(db, q), {}).flags = BundleProblem(db, q)
    BY DEF Unavailable, Result
  <1> QED BY <1>2, <1>3

LEMMA ReadCovered ==
  ASSUME NEW db, NEW q, BundleProblem(db, q) = {}
  PROVE  LET captures == Vintages(Inputs(db, q.batches)).chosen IN
         read_statement(db, q) = FromCoverage(db, q, EligibleCoverage(db, q, captures), captures)
  <1> DEFINE captures == Vintages(Inputs(db, q.batches)).chosen
  <1>1. Bundle(db, q) = [flags |-> {}, captures |-> captures]
    BY DEF Bundle
  <1>2. Bundle(db, q).flags = {} /\ Bundle(db, q).captures = captures
    BY <1>1
  <1> QED BY <1>2 DEF read_statement, FromBundle

LEMMA ReadRepeats ==
  ASSUME StoreIndInv, NEW s \in Writers, NEW q \in Known
  PROVE  Repeats(read_statement(rows, q), read_statement(Visible(s), q))
  <1> DEFINE new == Visible(s)
  <1> SUFFICES ASSUME read_statement(rows, q).flags \cap Awaiting = {}
               PROVE  read_statement(new, q) = read_statement(rows, q)
    BY DEF Repeats
  <1>1. BundleProblem(rows, q) \cap Awaiting = {}
    BY ReadFlags
  <1>2. ~NotAllPublished(rows, q)
    BY <1>1 DEF BundleProblem, Awaiting
  <1>3. Sealed(new, q)
    BY <1>2, PublishedSealed
  <1>4. new \in SUBSET Rows /\ rows \in SUBSET new
    BY Own DEF Visible
  <1>5. BundleProblem(new, q) = BundleProblem(rows, q)
    BY <1>1, <1>3, <1>4, SameBundle
  <1>6. CASE BundleProblem(rows, q) # {}
    BY <1>5, <1>6, ReadFlags
  <1>7. CASE BundleProblem(rows, q) = {}
    <2> DEFINE captures == Vintages(Inputs(rows, q.batches)).chosen
               eligible == EligibleCoverage(rows, q, captures)
               edition == Edition(eligible, q)
               ks == edition.rows
    <2>1. Inputs(new, q.batches) = Inputs(rows, q.batches)
      BY <1>3 DEF Sealed
    <2>2. EligibleCoverage(new, q, captures) = eligible
      BY <1>3, <1>4 DEF Sealed, EligibleCoverage, Of
    <2>3. read_statement(rows, q) = FromCoverage(rows, q, eligible, captures)
      BY <1>7, ReadCovered
    <2>4. read_statement(new, q) = FromCoverage(new, q, eligible, captures)
      <3>1. BundleProblem(new, q) = {}
        BY <1>5, <1>7
      <3>2. read_statement(new, q) = FromCoverage(new, q,
                EligibleCoverage(new, q, Vintages(Inputs(new, q.batches)).chosen),
                Vintages(Inputs(new, q.batches)).chosen)
        BY <3>1, ReadCovered
      <3> QED BY <3>2, <2>1, <2>2
    <2>5. ks \in SUBSET Of(rows, "statement_coverage") /\ \A k \in ks : k.batch \in q.batches
      <3>1. ks \subseteq eligible
        BY EditionRows
      <3> QED BY <3>1 DEF EligibleCoverage
    <2>6. Facts(new, q, ks, captures) = Facts(rows, q, ks, captures)
      BY <1>1, <1>3, <1>4, <1>7, <2>5, SameBundle, SameFacts
    <2>7. Events(new, q, ks, captures) = Events(rows, q, ks, captures)
      BY <1>1, <1>3, <1>4, <1>7, SameBundle, SameEvents
    <2>8. FromCoverage(new, q, eligible, captures) = FromCoverage(rows, q, eligible, captures)
      BY <2>6, <2>7 DEF FromCoverage, FromEdition
    <2> QED BY <2>3, <2>4, <2>8
  <1> QED BY <1>6, <1>7

\* What a pinned query answered once, it answers for good: nothing committed later
\* changes it, unless the answer said that a pinned row does not exist yet.
THEOREM ReadsAreRepeatable == StoreSpec => PinnedReadsRepeat
  <1>1. StoreIndInv /\ [StoreNext]_store_vars =>
            [rows' # rows => \A q \in Queries :
                Repeats(read_statement(rows, q), read_statement(rows', q))]_store_vars
    <2> SUFFICES ASSUME StoreIndInv, StoreNext, rows' # rows, NEW q \in Queries
                 PROVE  Repeats(read_statement(rows, q), read_statement(rows', q))
      BY DEF store_vars
    <2>1. PICK s \in Writers : Commit(s)
      BY DEF StoreNext, Insert, Rollback
    <2>2. rows' = Visible(s)
      BY <2>1 DEF Commit, Visible
    <2>3. q \in Known
      BY DEF Known
    <2> QED BY <2>2, <2>3, ReadRepeats
  <1> QED BY <1>1, StoreInvariance, PTL DEF StoreSpec, PinnedReadsRepeat
==============================================================================
