------------------------------ MODULE Watchlist ------------------------------
(***************************************************************************)
(* Watchlist memberships and idempotent enqueueing (migrations 0002 and    *)
(* 0004, packages/schema/workflow.py).  Several database sessions call     *)
(* workflow_enqueue, workflow_remove_membership and the quote interval     *)
(* closure at the same time.  Each call is one transaction, taken here in  *)
(* the steps at which another session can come between: the workspace row  *)
(* lock, the reads under it, and the writes with the commit.               *)
(*                                                                         *)
(* One workspace with one watchlist and one security is enough: every lock *)
(* and every unique index of the code is per workspace, or per watchlist   *)
(* and security.  A request is known by its request_sequence, the position *)
(* in `requests'; a membership by its position in `memberships'.           *)
(***************************************************************************)
EXTENDS Naturals, Sequences, FiniteSets

CONSTANTS Sessions,       \* database sessions calling the functions
          Keys,           \* operation keys the clients use
          Quotes,         \* quote identifiers of the security
          Options,        \* request options, as their canonical JSON
          MaxRequests     \* bound on the requests inserted

ASSUME WatchlistBounds == MaxRequests \in Nat \ {0} /\ "nobody" \notin Sessions

VARIABLES memberships,    \* watchlist_memberships, in order of insertion
          requests,       \* analysis_requests, by request_sequence
          request_keys,   \* analysis_request_keys: key -> request and parameters
          open_quotes,    \* quotes whose security_identifier_validity is open
          workspace_lock, \* the session holding the workspace row FOR UPDATE
          session,        \* what each session's transaction has done so far
          answers         \* every answer returned to a client

vars == <<memberships, requests, request_keys, open_quotes, workspace_lock, session, answers>>

nobody == "nobody"
idle == [pc |-> "idle"]
no_key == [request |-> 0]

Triggers == {"watchlist_add", "manual_refresh"}
EnqueueCalls == [op : Triggers, key : Keys, quote : Quotes, options : Options]
RemoveCalls == [op : {"remove"}, membership : 1..MaxRequests]

\* What params_hash is taken over; equal hashes stand for equal parameters.
params_hash(call) == [op |-> call.op, quote |-> call.quote, options |-> call.options]

active(m) == ~memberships[m].removed
existing_membership == {m \in DOMAIN memberships : active(m)}
initial_requests(m) == {r \in DOMAIN requests : requests[r].membership = m}
next_generation_of_active == 1 + Cardinality(existing_membership)
next_generation ==
    1 + (IF memberships = <<>> THEN 0 ELSE memberships[Len(memberships)].generation)

Session ==
    {idle} \cup [pc : {"unique_violation", "refused"}]
           \cup [pc : {"called", "locked"}, call : EnqueueCalls \cup RemoveCalls]
           \cup [pc : {"alias"}, call : EnqueueCalls, request : 1..MaxRequests]
           \cup [pc : {"insert"}, call : EnqueueCalls, generation : 0..(MaxRequests + 1)]

TypeOK ==
    /\ memberships \in Seq([quote : Quotes, generation : 1..MaxRequests, removed : BOOLEAN])
    /\ requests \in Seq([op : Triggers, quote : Quotes, options : Options,
                         membership : 0..MaxRequests])
    /\ request_keys \in [Keys -> {no_key} \cup
         [request : 1..MaxRequests,
          params : [op : Triggers, quote : Quotes, options : Options]]]
    /\ open_quotes \subseteq Quotes
    /\ workspace_lock \in Sessions \cup {nobody}
    /\ session \in [Sessions -> Session]
    /\ answers \subseteq [key : Keys, request : 1..MaxRequests]

Init ==
    /\ memberships = <<>> /\ requests = <<>>
    /\ request_keys = [k \in Keys |-> no_key]
    /\ open_quotes = Quotes
    /\ workspace_lock = nobody
    /\ session = [s \in Sessions |-> idle]
    /\ answers = {}

-----------------------------------------------------------------------------
(* A transaction ends: its locks go with it. *)
release(s) == IF workspace_lock = s THEN nobody ELSE workspace_lock
ended(s, outcome) ==
    /\ session' = [session EXCEPT ![s] = outcome]
    /\ workspace_lock' = release(s)
answered(s, k, r) ==
    /\ answers' = answers \cup {[key |-> k, request |-> r]}
    /\ ended(s, idle)

refused == [pc |-> "refused"]
unique_violation == [pc |-> "unique_violation"]

\* A client calls, or calls again after an error or a lost answer.
Call(s) ==
    /\ session[s].pc \in {"idle", "refused"}
    /\ \E call \in EnqueueCalls \cup RemoveCalls :
         /\ call \in RemoveCalls => call.membership \in DOMAIN memberships
         /\ session' = [session EXCEPT ![s] = [pc |-> "called", call |-> call]]
    /\ UNCHANGED <<memberships, requests, request_keys, open_quotes, workspace_lock, answers>>

\* SELECT ... FROM workspaces ... FOR UPDATE
workspace_unlocked(s) == TRUE
workspace_free(s) == workspace_lock = nobody
LockWorkspace(s) ==
    /\ session[s].pc = "called"
    /\ workspace_free(s)
    /\ workspace_lock' = s
    /\ session' = [session EXCEPT ![s].pc = "locked"]
    /\ UNCHANGED <<memberships, requests, request_keys, open_quotes, answers>>

-----------------------------------------------------------------------------
(* workflow_enqueue under the workspace lock: first what it reads. *)
replay_newest(s, call) ==
    /\ request_keys[call.key] # no_key
    /\ answered(s, call.key, Len(requests))
replay(s, call) ==
    LET existing == request_keys[call.key] IN
    /\ existing # no_key
    /\ IF existing.params # params_hash(call)
       THEN ended(s, refused) /\ UNCHANGED answers
       ELSE answered(s, call.key, existing.request)

quote_is_closed(s, call) ==
    /\ request_keys[call.key] = no_key
    /\ call.quote \notin open_quotes
    /\ ended(s, refused) /\ UNCHANGED answers

\* The stock is already in the watchlist: the key becomes another name of
\* the membership's initial request, if the call asks for the same thing.
add_again(s, call) ==
    /\ request_keys[call.key] = no_key /\ call.quote \in open_quotes
    /\ call.op = "watchlist_add"
    /\ \E m \in existing_membership : \E r \in initial_requests(m) :
         IF requests[r].quote # call.quote \/ requests[r].options # call.options
         THEN ended(s, refused)
         ELSE /\ session' = [session EXCEPT ![s] =
                               [pc |-> "alias", call |-> call, request |-> r]]
              /\ UNCHANGED workspace_lock
    /\ UNCHANGED answers

\* A new request; for an add, the generation the membership will have.
begin_insert(s, call) ==
    /\ request_keys[call.key] = no_key /\ call.quote \in open_quotes
    /\ call.op = "watchlist_add" => existing_membership = {}
    /\ session' = [session EXCEPT ![s] =
                     [pc |-> "insert", call |-> call,
                      generation |-> IF call.op = "watchlist_add" THEN next_generation ELSE 0]]
    /\ UNCHANGED <<workspace_lock, answers>>

ReadEnqueue(s) ==
    /\ session[s].pc = "locked" /\ session[s].call.op \in Triggers
    /\ LET call == session[s].call
       IN  \/ replay(s, call) \/ quote_is_closed(s, call)
           \/ add_again(s, call) \/ begin_insert(s, call)
    /\ UNCHANGED <<memberships, requests, request_keys, open_quotes>>

(* ... then what it writes, with the commit. *)
key_taken(k) == request_keys[k] # no_key

CommitAlias(s) ==
    /\ session[s].pc = "alias"
    /\ LET call == session[s].call IN
       IF key_taken(call.key)
       THEN ended(s, unique_violation) /\ UNCHANGED <<request_keys, answers>>
       ELSE /\ request_keys' = [request_keys EXCEPT ![call.key] =
                    [request |-> session[s].request, params |-> params_hash(call)]]
            /\ answered(s, call.key, session[s].request)
    /\ UNCHANGED <<memberships, requests, open_quotes>>

inserted_memberships(call, generation) ==
    IF call.op = "watchlist_add"
    THEN Append(memberships, [quote |-> call.quote, generation |-> generation,
                              removed |-> FALSE])
    ELSE memberships
inserted_request(call) ==
    [op |-> call.op, quote |-> call.quote, options |-> call.options,
     membership |-> IF call.op = "watchlist_add" THEN Len(memberships) + 1 ELSE 0]

CommitInsert(s) ==
    /\ session[s].pc = "insert"
    /\ Len(requests) < MaxRequests
    /\ LET call == session[s].call IN
       IF \/ key_taken(call.key)
          \/ call.op = "watchlist_add" /\ existing_membership # {}
       THEN /\ ended(s, unique_violation)
            /\ UNCHANGED <<memberships, requests, request_keys, answers>>
       ELSE /\ memberships' = inserted_memberships(call, session[s].generation)
            /\ requests' = Append(requests, inserted_request(call))
            /\ request_keys' = [request_keys EXCEPT ![call.key] =
                    [request |-> Len(requests) + 1, params |-> params_hash(call)]]
            /\ answered(s, call.key, Len(requests) + 1)
    /\ UNCHANGED open_quotes

\* workflow_remove_membership: under the same lock; only the first one ends it.
CommitRemove_unlocked(s) ==
    /\ session[s].pc \in {"called", "locked"} /\ session[s].call.op = "remove"
    /\ memberships' = [memberships EXCEPT ![session[s].call.membership].removed = TRUE]
    /\ ended(s, idle)
    /\ UNCHANGED <<requests, request_keys, open_quotes, answers>>
CommitRemove(s) ==
    /\ session[s].pc = "locked" /\ session[s].call.op = "remove"
    /\ memberships' = [memberships EXCEPT ![session[s].call.membership].removed = TRUE]
    /\ ended(s, idle)
    /\ UNCHANGED <<requests, request_keys, open_quotes, answers>>

\* The connection is lost before the commit: nothing of the call remains.
LoseConnection(s) ==
    /\ session[s].pc \notin {"idle", "refused"}
    /\ ended(s, idle)
    /\ UNCHANGED <<memberships, requests, request_keys, open_quotes, answers>>

\* The quote's interval is closed.  The closure updates the validity row, so
\* it waits for every enqueue that has read the row FOR SHARE.
holds_no_share(s) == FALSE
holds_share(s) == session[s].pc \in {"alias", "insert"}
CloseQuote(q) ==
    /\ q \in open_quotes
    /\ \A s \in Sessions : ~(holds_share(s) /\ session[s].call.quote = q)
    /\ open_quotes' = open_quotes \ {q}
    /\ UNCHANGED <<memberships, requests, request_keys, workspace_lock, session, answers>>

Proceed(s) ==
    \/ LockWorkspace(s) \/ ReadEnqueue(s) \/ CommitAlias(s)
    \/ CommitInsert(s) \/ CommitRemove(s)

Next ==
    \/ \E s \in Sessions : Call(s) \/ Proceed(s) \/ LoseConnection(s)
    \/ \E q \in Quotes : CloseQuote(q)

Spec == Init /\ [][Next]_vars

-----------------------------------------------------------------------------
\* Two answers to one operation key name one request, however the sessions
\* that used the key were interleaved, retried or cut off
\* (analysis_request_keys, workflow_enqueue).
ReplayStable ==
    \A a, b \in answers : a.key = b.key => a.request = b.request

\* No interleaving of legal calls runs into a unique index: the loser of a race
\* for a key or for a stock reads the winner's rows under the workspace lock
\* and is answered from them (workflow_enqueue).
NoUniqueViolation == \A s \in Sessions : session[s].pc # "unique_violation"

\* A stock has at most one active membership, it is the newest generation, and
\* every generation came with exactly one initial request (watchlist_add and
\* its atomic request).
OneActiveGeneration ==
    /\ \A m \in existing_membership : m = Len(memberships)
    /\ \A m \in DOMAIN memberships :
         /\ memberships[m].generation = m
         /\ Cardinality(initial_requests(m)) = 1

\* A key newly bound by an add answers with a membership that is active at that
\* moment: the stock cannot be removed between the read that found the
\* membership and the commit (workflow_remove_membership takes the same lock).
AddAnswersActiveMembership ==
    [][\A k \in Keys :
         (request_keys[k] = no_key /\ request_keys'[k] # no_key)
            => LET r == request_keys'[k].request
                   m == requests'[r].membership
               IN  m # 0 => ~memberships'[m].removed]_vars

\* No request is committed for a quote whose interval has been closed, even if
\* the closure ran while the enqueue was between its check and its commit
\* (SELECT ... FOR SHARE on security_identifier_validity).
ClosedQuoteGetsNoRequest ==
    [][Len(requests') > Len(requests)
         => requests'[Len(requests')].quote \in open_quotes']_vars

\* One request per key, one active membership per stock, and no call that fails
\* on an index, however sessions interleave (workflow_enqueue).
OneOfEach == TypeOK /\ NoUniqueViolation /\ ReplayStable /\ OneActiveGeneration

\* What a session read before its commit still holds when it commits
\* (the workspace lock and FOR SHARE in workflow_enqueue).
CommitsAreCurrent == AddAnswersActiveMembership /\ ClosedQuoteGetsNoRequest
=============================================================================
