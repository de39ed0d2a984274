------------------------------- MODULE Evidence -------------------------------
(***************************************************************************)
(* The evidence store (the guards of migration 0001) and the point-in-time *)
(* reads made from it (pit.py).                                            *)
(*                                                                         *)
(* Database sessions build normalization batches row by row, publish them, *)
(* record filing events and link revised facts, all in READ COMMITTED      *)
(* transactions; the triggers decide what may be inserted and which locks  *)
(* an insert takes until its transaction ends.  A batch becoming published *)
(* or failed is kept as a row of its own.  Captures, filing versions and   *)
(* observations are written before a batch refers to them and never        *)
(* change, so they are constants, as is the one issuer of the queries.     *)
(* A read is one REPEATABLE READ snapshot: an operator of the committed    *)
(* rows.                                                                   *)
(***************************************************************************)
EXTENDS Naturals, FiniteSets

CONSTANTS Writers,       \* database sessions that write evidence
          Rows,          \* the rows they may insert
          CaptureOf,     \* source_captures: object, fetched, completed, sha, ok
          FilingOf,      \* filing_versions: filing, issuer, filed, accepted, metadata
          ObservationOf, \* source_observations: capture, version, period, state
          Issuer,
          Queries,       \* pinned PitQuery values
          Series,        \* sets of queries given to read_statements together
          none,          \* an absent value, SQL's NULL
          MaxStatements  \* bound on the statements of one transaction

VARIABLES rows,          \* the committed rows
          open           \* session -> rows and locks of its transaction

store_vars == <<rows, open>>

no_work == [rows |-> {}, locks |-> {}]

\* Rows of these tables have an id of their own, the primary key.
Keyed == {"normalization_batches", "statement_coverage", "fact_resolutions",
          "data_quality_flags", "filing_events"}
ASSUME RowsAssumption ==
    /\ MaxStatements \in Nat \ {0}
    /\ IsFiniteSet(Rows)
    /\ \A r, o \in Rows : r.table \in Keyed /\ o.table = r.table /\ o.id = r.id => o = r

\* PitQuery refuses empty batches and concepts; an absent batch is none of them.
ASSUME QueriesAssumption ==
    /\ \A q \in Queries \cup UNION Series :
          /\ \A part \in {q.batches, q.events, q.flags} : IsFiniteSet(part)
          /\ q.concepts # {} /\ none \notin q.batches
    /\ \A qs \in Series : IsFiniteSet(qs)

Of(db, table) == {r \in db : r.table = table}
Visible(s) == rows \cup open[s].rows
Archived(c) == CaptureOf[c].ok /\ CaptureOf[c].fetched > 0 /\ CaptureOf[c].completed > 0

Inputs(db, bs) == UNION {r.captures : r \in {x \in Of(db, "normalization_inputs") : x.batch \in bs}}
Manifest(db, b) == {i[1] : i \in Inputs(db, {b})}
Coverage(db, b) == {k \in Of(db, "statement_coverage") : k.batch = b}
CoverageOf(db, r) == CHOOSE k \in Of(db, "statement_coverage") : k.id = r.coverage
Resolutions(db, b) == {r \in Of(db, "fact_resolutions") : CoverageOf(db, r).batch = b}
Ended(db, b, state) == \E r \in Of(db, state) : r.batch = b
Building(db, b) == /\ \E r \in Of(db, "normalization_batches") : r.id = b
                   /\ ~Ended(db, b, "published") /\ ~Ended(db, b, "failed")

StoreTypeOK ==
    /\ rows \subseteq Rows
    /\ \A s \in Writers : open[s].rows \subseteq Rows \ rows
    /\ \A s, t \in Writers : s # t => /\ open[s].rows \cap open[t].rows = {}
                                       /\ open[s].locks \cap open[t].locks = {}

(***************************************************************************)
(* evidence_integrity: what each table's insert demands of the rows its    *)
(* transaction sees.                                                       *)
(***************************************************************************)
CoverageIntegrity(db, row) ==
    /\ Building(db, row.batch)
    /\ \E b \in Of(db, "normalization_batches") : b.id = row.batch /\ b.issuer = FilingOf[row.version].issuer
    /\ row.currency \/ row.state = "unresolved"

ResolutionIntegrity(db, row) ==
    \E k \in Of(db, "statement_coverage") :
        /\ k.id = row.coverage /\ Building(db, k.batch)
        /\ (row.status \in {"observed", "source_nil"}) <=> (row.observation # none)
        /\ row.observation # none =>
              LET o == ObservationOf[row.observation] IN
              /\ o.version = k.version /\ o.period = k.period
              /\ o.state = IF row.status = "observed" THEN "numeric" ELSE "source_nil"
              /\ k.currency /\ k.state = "covered"

FlagIntegrity(db, row) ==
    /\ row.resolution # none =>
          \E r \in Of(db, "fact_resolutions") :
              r.id = row.resolution /\ CoverageOf(db, r).batch = row.batch
    /\ row.batch # none => Building(db, row.batch)

EventIntegrity(row) == FilingOf[row.source].issuer = row.issuer

(* Scopes join their event only inside the transaction that created it. *)
ScopeIntegrity(s, row) ==
    \E e \in Of(open[s].rows, "filing_events") :
        e.id = row.event /\ (e.kind \in {"non_reliance", "withdrawal"} => row.filing # none)

PublishUncovered(db, b) ==
    /\ Building(db, b)
    /\ Manifest(db, b) # {} /\ \A c \in Manifest(db, b) : Archived(c)

(* evidence_batch_transition, to published. *)
PublishIntegrity(db, b) ==
    /\ Building(db, b)
    /\ Manifest(db, b) # {} /\ \A c \in Manifest(db, b) : Archived(c)
    /\ Coverage(db, b) # {}
    /\ \A k \in Coverage(db, b) : FilingOf[k.version].metadata \in Manifest(db, b)
    /\ \A r \in Resolutions(db, b) :
          /\ r.observation # none => ObservationOf[r.observation].capture \in Manifest(db, b)
          /\ r.status = "observed" \/ \E f \in Of(db, "data_quality_flags") :
                                          f.resolution = r.id /\ f.batch = b

(* evidence_revision_integrity: like with like, and no way back. *)
Links(db) == {<<l.earlier, l.later>> : l \in Of(db, "fact_revision_links")}
Closed(links, S) == \A l \in links : l[1] \in S => l[2] \in S
\* The least set that has r and the later end of each link from one of its members.
Reachable(links, r) ==
    LET ids == {r} \cup {l[2] : l \in links}
    IN  {x \in ids : \A S \in SUBSET ids : r \in S /\ Closed(links, S) => x \in S}

RevisionIntegrity(db, row) ==
    \E e, l \in Of(db, "fact_resolutions") :
        LET ek == CoverageOf(db, e)  lk == CoverageOf(db, l) IN
        /\ e.id = row.earlier /\ l.id = row.later /\ e.id # l.id
        /\ e.concept = l.concept /\ ek.period = lk.period
        /\ ek.family = lk.family /\ ek.basis = lk.basis
        /\ row.earlier \notin Reachable(Links(db), row.later)
        /\ row.event # none =>
              \E v \in Of(db, "filing_events"), c \in Of(db, "filing_event_scopes") :
                  /\ v.id = row.event /\ c.event = v.id
                  /\ row.kind = "error_restatement" => v.kind = "formal_correction"
                  /\ c.filing \in {none, FilingOf[ek.version].filing}

evidence_integrity(s, row) ==
    LET db == Visible(s) IN
    CASE row.table = "normalization_batches" -> TRUE
      [] row.table = "normalization_inputs" -> Building(db, row.batch)
      [] row.table = "statement_coverage" -> CoverageIntegrity(db, row)
      [] row.table = "fact_resolutions" -> ResolutionIntegrity(db, row)
      [] row.table = "data_quality_flags" -> FlagIntegrity(db, row)
      [] row.table = "filing_events" -> EventIntegrity(row)
      [] row.table = "filing_event_scopes" -> ScopeIntegrity(s, row)
      [] row.table = "fact_revision_links" -> RevisionIntegrity(db, row)
      [] row.table = "published" -> PublishIntegrity(db, row.batch)
      [] row.table = "failed" -> Building(db, row.batch)

(* The batch row locked by evidence_lock_building and by the update of its *)
(* state, and the advisory lock of the issuer's revision graph.            *)
ChildLock(db, row) ==
    CASE row.table \in {"normalization_inputs", "statement_coverage", "published", "failed"} -> {row.batch}
      [] row.table = "fact_resolutions" ->
            {k.batch : k \in {x \in Of(db, "statement_coverage") : x.id = row.coverage}}
      [] OTHER -> {}
FlagLock(row) == IF row.table = "data_quality_flags" THEN {row.batch} \ {none} ELSE {}
GraphLock(row) == IF row.table = "fact_revision_links" THEN {Issuer} ELSE {}

LocksNoFlag(db, row) == ChildLock(db, row) \cup GraphLock(row)
LocksNoGraph(db, row) == ChildLock(db, row) \cup FlagLock(row)
Locks(db, row) == ChildLock(db, row) \cup FlagLock(row) \cup GraphLock(row)

-----------------------------------------------------------------------------
StoreInit == rows = {} /\ open = [s \in Writers |-> no_work]

(* One INSERT, or the UPDATE that ends a batch.  It waits for the sessions *)
(* that hold its locks or insert the same key; once granted, its triggers  *)
(* see what those sessions committed.                                      *)
Insert(s) ==
    \E row \in Rows \ UNION {open[t].rows : t \in Writers} :
        /\ row \notin rows
        /\ Cardinality(open[s].rows) < MaxStatements
        /\ \A t \in Writers \ {s} : open[t].locks \cap Locks(Visible(s), row) = {}
        /\ evidence_integrity(s, row)
        /\ open' = [open EXCEPT ![s] = [rows |-> @.rows \cup {row}, locks |-> @.locks \cup Locks(Visible(s), row)]]
        /\ rows' = rows

(* The deferred evidence_event_complete runs at commit. *)
Commit(s) ==
    /\ open[s].rows # {}
    /\ \A e \in Of(open[s].rows, "filing_events") :
          \E c \in Of(open[s].rows, "filing_event_scopes") : c.event = e.id
    /\ rows' = rows \cup open[s].rows
    /\ open' = [open EXCEPT ![s] = no_work]

Rollback(s) == open[s].rows # {} /\ open' = [open EXCEPT ![s] = no_work] /\ rows' = rows

StoreNext == \E s \in Writers : Insert(s) \/ Commit(s) \/ Rollback(s)

StoreSpec == StoreInit /\ [][StoreNext]_store_vars

-----------------------------------------------------------------------------
(***************************************************************************)
(* pit.py.                                                                 *)
(***************************************************************************)
(* _select_source_captures: the newest vintage of each object in each role. *)
Vintages(inputs) ==
    LET peers(i) == {j \in inputs : j[2] = i[2] /\ CaptureOf[j[1]].object = CaptureOf[i[1]].object}
        newest(i) == \A j \in peers(i) : CaptureOf[j[1]].fetched <= CaptureOf[i[1]].fetched
    IN  [chosen |-> {i[1] : i \in {x \in inputs : newest(x)}},
         superseded |-> {i[1] : i \in {x \in inputs : ~newest(x)}},
         ambiguous |-> \E i, j \in inputs : /\ newest(i) /\ newest(j) /\ j \in peers(i)
                                            /\ CaptureOf[i[1]].sha # CaptureOf[j[1]].sha]

PublishedOf(db, bs) == {p \in Of(db, "published") : p.batch \in bs}
Pinned(db, table, ids) == {r \in Of(db, table) : r.id \in ids}

(* The checks of _bundle, in its order. *)
NotAllPublished(db, q) == Cardinality(PublishedOf(db, q.batches)) # Cardinality(q.batches)
OtherRevision(db, q) ==
    \E b \in Pinned(db, "normalization_batches", q.batches) : b.issuer # Issuer \/ b.revision # q.revision
Nondeterministic(db, q) ==
    \E p, o \in PublishedOf(db, q.batches) : p.input = o.input /\ p.output # o.output
Captures(db, q) == {i[1] : i \in Inputs(db, q.batches)}
NotYetCaptured(db, q) ==
    \E c \in Captures(db, q) :
        ~Archived(c) \/ CaptureOf[c].fetched > q.before \/ CaptureOf[c].completed > q.before
OtherEvents(db, q) ==
    LET events == Pinned(db, "filing_events", q.events) IN
    \/ Cardinality(events) # Cardinality(q.events)
    \/ \E e \in events : e.issuer # Issuer \/ FilingOf[e.source].metadata \notin q.captures
OtherFlags(db, q) ==
    LET quality == Pinned(db, "data_quality_flags", q.flags) IN
    \/ Cardinality(quality) # Cardinality(q.flags)
    \/ \E f \in quality : f.batch \notin q.batches \cup {none}
OtherVintage(db, q) ==
    \E e \in Pinned(db, "filing_events", q.events) :
        FilingOf[e.source].metadata \notin Vintages(Inputs(db, q.batches)).chosen

BundleProblem(db, q) ==
    LET v == Vintages(Inputs(db, q.batches)) IN
    IF NotAllPublished(db, q) THEN {"unpublished_or_missing_batch"}
    ELSE IF OtherRevision(db, q) THEN {"incompatible_batch_revision"}
    ELSE IF Nondeterministic(db, q) THEN {"nondeterministic_normalization"}
    ELSE IF Captures(db, q) # q.captures THEN {"incompatible_capture_manifest"}
    ELSE IF NotYetCaptured(db, q) THEN {"capture_unavailable"}
    ELSE IF OtherEvents(db, q) THEN {"incompatible_event_manifest"}
    ELSE IF OtherFlags(db, q) THEN {"incompatible_quality_manifest"}
    ELSE IF v.ambiguous THEN {"ambiguous_capture_vintage"}
    ELSE IF v.chosen \cap v.superseded # {} THEN {"incompatible_source_roles"}
    ELSE IF OtherVintage(db, q) THEN {"incompatible_event_vintage"}
    ELSE {}

BundleAnyEvent(db, q) ==
    LET flags == BundleProblem(db, q) \ {"incompatible_event_vintage"}
    IN  [flags |-> flags,
         captures |-> IF flags = {} THEN Vintages(Inputs(db, q.batches)).chosen ELSE {}]

BundleAnyRole(db, q) ==
    LET flags == BundleProblem(db, q) \ {"incompatible_source_roles"}
    IN  [flags |-> flags,
         captures |-> IF flags = {} THEN Vintages(Inputs(db, q.batches)).chosen ELSE {}]

Bundle(db, q) ==
    LET flags == BundleProblem(db, q)
    IN  [flags |-> flags,
         captures |-> IF flags = {} THEN Vintages(Inputs(db, q.batches)).chosen ELSE {}]

EligibleCoverage(db, q, captures) ==
    {k \in Of(db, "statement_coverage") :
        /\ k.batch \in q.batches /\ k.period = q.period /\ k.family = q.family
        /\ FilingOf[k.version].metadata \in captures
        /\ k.authority \in {"periodic_complete"} \cup (IF q.equivalent THEN {"reviewed_equivalent"} ELSE {})
        /\ q.audited => k.assurance = "audited"
        /\ q.cutoff # none => FilingOf[k.version].filed <= q.cutoff}

(* _edition: the first or the last date, then the verified acceptance time. *)
Edition(ks, q) ==
    LET Earlier(a, b) == IF q.mode = "original_as_filed" THEN a <= b ELSE b <= a
        filed(k) == FilingOf[k.version].filed
        accepted(k) == FilingOf[k.version].accepted
        onDate == {k \in ks : \A o \in ks : Earlier(filed(k), filed(o))}
        several(x) == Cardinality({k.version : k \in x}) > 1
        timed == \A k \in onDate : accepted(k) # none
        finalists == IF several(onDate) /\ timed
                     THEN {k \in onDate : \A o \in onDate : Earlier(accepted(k), accepted(o))} ELSE onDate
    IN  [rows |-> finalists,
         flags |-> IF several(finalists) THEN {"ambiguous_filing_order"}
                   ELSE IF Cardinality({k.basis : k \in finalists}) > 1 THEN {"incompatible_reporting_basis"}
                   ELSE IF \E k \in finalists : ~k.currency \/ k.state # "covered" THEN {"unresolved_coverage"}
                   ELSE {}]

Found(db, ks, c) == {r \in Of(db, "fact_resolutions") : r.concept = c /\ \E k \in ks : k.id = r.coverage}
Fact(found, captures) ==
    LET signatures == {<<r.status, r.observation>> : r \in found}
        g == CHOOSE x \in signatures : TRUE
    IN  IF found = {} THEN <<"missing", none>>
        ELSE IF Cardinality(signatures) > 1 THEN <<"ambiguous", none>>
        ELSE IF g[2] # none /\ ObservationOf[g[2]].capture \notin captures THEN <<"stale_source", none>>
        ELSE IF g[1] = "observed" THEN g ELSE <<g[1], none>>
Quality(db, q, ks) ==
    {f \in Of(db, "data_quality_flags") :
        \/ f.id \in q.flags
        \/ /\ f.batch \in q.batches
           /\ f.resolution = none \/ \E c \in q.concepts : \E r \in Found(db, ks, c) : r.id = f.resolution}

FactsFrom(q, facts, quality) ==
    [facts |-> facts,
     quality |-> {f.id : f \in quality},
     flags |-> {IF facts[c][1] = "ambiguous" THEN "ambiguous_resolution" ELSE "unresolved_concept" :
                    c \in {x \in q.concepts : facts[x][1] # "observed"}}
               \cup IF \E f \in quality : f.severity \in {"error", "blocking"}
                    THEN {"blocking_quality_flag"} ELSE {}]
Facts(db, q, ks, captures) ==
    FactsFrom(q, [c \in q.concepts |-> Fact(Found(db, ks, c), captures)], Quality(db, q, ks))

(* The affected filing is named, so a replacement does not restore it. *)
Events(db, q, ks, captures) ==
    {e \in Of(db, "filing_events") :
        /\ e.id \in q.events /\ e.issuer = Issuer
        /\ e.kind \in {"non_reliance", "withdrawal"}
        /\ q.cutoff # none => e.announced <= q.cutoff
        /\ FilingOf[e.source].metadata \in captures
        /\ \E c \in Of(db, "filing_event_scopes") :
              /\ c.event = e.id
              /\ \E k \in ks : FilingOf[k.version].filing = c.filing
              /\ c.period \in {none, q.period}
              /\ c.concept \in {none} \cup q.concepts}

Result(q, flags, ks, facts, quality, events) ==
    [flags |-> flags, versions |-> {k.version : k \in ks}, facts |-> facts,
     quality |-> quality, events |-> events, bases |-> {k.basis : k \in ks},
     usable |-> /\ flags \subseteq {"earliest_available", "revised_view"}
                /\ \A c \in q.concepts : facts[c][1] = "observed"]

Unavailable(q, flags, ks) ==
    Result(q, flags, ks, [c \in q.concepts |-> <<"unavailable", none>>], {}, {})

View(q) ==
    CASE q.mode = "original_as_filed" -> IF q.complete THEN {} ELSE {"earliest_available"}
      [] q.mode = "latest_reported" -> {"revised_view"}
      [] OTHER -> {}

(* read_statement's four stages: bundle, coverage, edition, facts and events. *)
FromFacts(q, ks, f, events) ==
    Result(q, f.flags \cup {e.kind : e \in events} \cup View(q), ks, f.facts, f.quality,
           {e.id : e \in events})
FromEdition(db, q, edition, captures) ==
    IF edition.flags # {} THEN Unavailable(q, edition.flags, edition.rows)
    ELSE FromFacts(q, edition.rows, Facts(db, q, edition.rows, captures),
                   Events(db, q, edition.rows, captures))
FromCoverage(db, q, eligible, captures) ==
    IF eligible = {} THEN Unavailable(q, {"coverage_unavailable"}, {})
    ELSE FromEdition(db, q, Edition(eligible, q), captures)
FromBundle(db, q, bundle) ==
    IF bundle.flags # {} THEN Unavailable(q, bundle.flags, {})
    ELSE FromCoverage(db, q, EligibleCoverage(db, q, bundle.captures), bundle.captures)

read_statement(db, q) == FromBundle(db, q, Bundle(db, q))

(* Several statements read in one snapshot; the queries pin one policy. *)
AnyEdition(qs, result) == \A q \in qs : result[q].usable
OneEdition(qs, result) ==
    LET members(q) == {m \in qs : m.period = q.period} IN
    \A q \in qs :
        /\ result[q].usable
        /\ \/ Cardinality({m.family : m \in members(q)}) <= 1
           \/ Cardinality({result[m].versions : m \in members(q)} \ {{}}) <= 1
        /\ Cardinality(UNION {result[m].bases : m \in members(q)}) <= 1

StatementsFrom(qs, result) == [result |-> result, usable |-> OneEdition(qs, result)]
read_statements(db, qs) == StatementsFrom(qs, [q \in qs |-> read_statement(db, q)])

-----------------------------------------------------------------------------
(* A published batch rests on archived inputs only, covers a statement, and *)
(* every fact it leaves unresolved carries a flag: however its rows and its *)
(* publication were interleaved between sessions.                           *)
Whole(db, b) ==
    /\ \A i \in Manifest(db, b) : Archived(i)
    /\ {FilingOf[k.version].metadata : k \in Coverage(db, b)} \in (SUBSET Manifest(db, b)) \ {{}}
    /\ \A r \in Resolutions(db, b) :
          IF r.status = "observed" THEN ObservationOf[r.observation].capture \in Manifest(db, b)
          ELSE \E f \in Of(db, "data_quality_flags") : f.resolution = r.id
PublishedComplete == \A p \in Of(rows, "published") : Whole(rows, p.batch)

(* What a pinned query answered once, it answers for good: batches          *)
(* published later, late flags, events, scopes and revision links change    *)
(* nothing (pit.py's pinned manifests over the sealed rows).  Only a pinned *)
(* row that does not exist yet may still change the answer.                 *)
Awaiting == {"unpublished_or_missing_batch", "incompatible_event_manifest",
             "incompatible_quality_manifest"}
Repeats(before, after) == before.flags \cap Awaiting = {} => after = before
PinnedReadsRepeat ==
    [][rows' # rows => \A q \in Queries :
          Repeats(read_statement(rows, q), read_statement(rows', q))]_store_vars

(* A statement is usable only if no pinned event, known by the query's      *)
(* cutoff, disowns a filing it was taken from - whether or not the event's  *)
(* own source was superseded in the bundle, and although a replacement      *)
(* filing may be in it.                                                     *)
NotDisowned(q, r) ==
    r.usable => ~\E e \in Of(rows, "filing_events"), c \in Of(rows, "filing_event_scopes") :
            /\ e.id \in q.events /\ c.event = e.id
            /\ e.kind \in {"non_reliance", "withdrawal"}
            /\ q.cutoff = none \/ e.announced <= q.cutoff
            /\ \E v \in r.versions : FilingOf[v].filing = c.filing
            /\ c.period \in {none, q.period} /\ c.concept \in {none} \cup q.concepts

(* The bytes behind a usable fact, and the metadata of its filing, are not  *)
(* older than another pinned capture of the same object in a role they play *)
(* (_select_source_captures, and stale_source in _facts).                   *)
IsFresh(q, r) ==
        r.usable =>
            \A c \in {ObservationOf[r.facts[x][2]].capture : x \in q.concepts}
                        \cup {FilingOf[v].metadata : v \in r.versions} :
                \A i, j \in Inputs(rows, q.batches) :
                    i[1] = c /\ j[2] = i[2] /\ CaptureOf[j[1]].object = CaptureOf[c].object
                        => CaptureOf[j[1]].fetched <= CaptureOf[c].fetched

ReallyUsable(q, r) == NotDisowned(q, r) /\ IsFresh(q, r)

(* Statements of one period that are usable together come from one edition *)
(* (read_statements).                                                       *)
OfOneEdition(qs, f) ==
        f.usable => \A q, m \in qs : q.period = m.period /\ q.family # m.family
                                       => f.result[q].versions = f.result[m].versions

(* Concurrent revision links, each acyclic on its own, never close a cycle  *)
(* together (the advisory lock of evidence_revision_integrity).             *)
Acyclic(links) == \A l \in links : l[1] \notin Reachable(links, l[2])
RevisionsAcyclic == Acyclic(Links(rows))

(* What is sealed is whole: published batches rest on archived inputs, and  *)
(* the graph of revisions has no cycle (the constraint triggers of 0001).   *)
StoreIsWhole == StoreTypeOK /\ PublishedComplete /\ RevisionsAcyclic

(* A statement presented as usable really is: not disowned, not superseded, *)
(* and of one edition with the statements it is used with (pit.py).         *)
UsableIsUsable ==
    /\ \A q \in Queries : ReallyUsable(q, read_statement(rows, q))
    /\ \A qs \in Series : OfOneEdition(qs, read_statements(rows, qs))
=============================================================================
