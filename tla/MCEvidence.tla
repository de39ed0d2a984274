------------------------------ MODULE MCEvidence ------------------------------
(* Two batches of one issuer: b1 holds the annual report of filing F1, b2   *)
(* the amendment F2 and newer bytes of the same source object.              *)
EXTENDS Evidence, TLC

CONSTANTS s1, s2

MCCaptures == [n1 |-> [object |-> "notice", fetched |-> 1, completed |-> 1, sha |-> 1, ok |-> TRUE],
               n2 |-> [object |-> "notice", fetched |-> 2, completed |-> 2, sha |-> 2, ok |-> TRUE],
               m2 |-> [object |-> "inventory", fetched |-> 2, completed |-> 2, sha |-> 6, ok |-> TRUE],
               d1 |-> [object |-> "facts", fetched |-> 1, completed |-> 1, sha |-> 3, ok |-> TRUE],
               x2 |-> [object |-> "exhibit", fetched |-> 2, completed |-> 2, sha |-> 5, ok |-> TRUE],
               d2 |-> [object |-> "facts", fetched |-> 2, completed |-> 2, sha |-> 4, ok |-> TRUE]]
Version(filing, filed, accepted, metadata) ==
    [filing |-> filing, issuer |-> Issuer, filed |-> filed, accepted |-> accepted, metadata |-> metadata]
MCFilings == [v0 |-> Version("F0", 1, none, "n1"), v1 |-> Version("F1", 1, none, "m2"),
              v2 |-> Version("F2", 2, 1, "m2"), v3 |-> Version("F3", 2, 2, "m2")]
Seen(capture, version) == [capture |-> capture, version |-> version, period |-> "y", state |-> "numeric"]
MCObservations == [o1 |-> Seen("d1", "v1"), o2 |-> Seen("x2", "v2")]

Batch(b) == [table |-> "normalization_batches", id |-> b, issuer |-> Issuer, revision |-> 1]
Input(b, captures) == [table |-> "normalization_inputs", batch |-> b, captures |-> captures]
Covers(id, b, v, family) ==
    [table |-> "statement_coverage", id |-> id, batch |-> b, version |-> v, family |-> family,
     period |-> "y", basis |-> "consolidated", state |-> "covered", currency |-> TRUE,
     authority |-> "periodic_complete", assurance |-> "audited"]
Resolves(id, k, status, o) ==
    [table |-> "fact_resolutions", id |-> id, coverage |-> k, concept |-> "revenue", status |-> status,
     observation |-> o]
Flags(id, b, r, severity) ==
    [table |-> "data_quality_flags", id |-> id, batch |-> b, resolution |-> r, severity |-> severity]
Event(id, v, announced) ==
    [table |-> "filing_events", id |-> id, issuer |-> Issuer, kind |-> "non_reliance", source |-> v,
     announced |-> announced]
Affects(e, filing) ==
    [table |-> "filing_event_scopes", event |-> e, filing |-> filing, period |-> none, concept |-> none]
Revises(a, b) ==
    [table |-> "fact_revision_links", earlier |-> a, later |-> b, kind |-> "source_correction", event |-> none]
Published(b, hash) == [table |-> "published", batch |-> b, input |-> hash, output |-> hash]

MCRows ==
    {Batch("b1"), Input("b1", {<<"n1", "meta">>, <<"m2", "meta">>, <<"d1", "facts">>, <<"d1", "schema">>}),
     Covers("k1", "b1", "v1", "income"),
     Resolves("r1", "k1", "observed", "o1"), Flags("g1", "b1", none, "blocking"), Published("b1", 1),
     Batch("b2"), Input("b2", {<<"m2", "meta">>, <<"x2", "facts">>}), Covers("k2", "b2", "v2", "income"),
     Resolves("r2", "k2", "observed", "o2"), Input("b2", {<<"d2", "facts">>, <<"n1", "meta">>, <<"n2", "meta">>}),
     Covers("k3", "b2", "v2", "balance_sheet"), Resolves("r3", "k3", "observed", "o2"), Published("b2", 2),
     Event("e0", "v0", 1), Affects("e0", "F2"),
     Revises("r1", "r2"), Revises("r2", "r1"), [table |-> "failed", batch |-> "b2"]}

Query(bs, captures, events, mode, family) ==
    [batches |-> bs, captures |-> captures, events |-> events, flags |-> {}, revision |-> 1,
     before |-> 2, mode |-> mode, cutoff |-> IF mode = "as_filed_by_date" THEN 1 ELSE none, period |-> "y", family |-> family,
     concepts |-> {"revenue"}, equivalent |-> FALSE, audited |-> TRUE, complete |-> TRUE]
Both == {"n1", "m2", "d1", "x2"}
Newer == Both \cup {"d2", "n2"}
Together == {Query({"b1", "b2"}, Both, {}, "original_as_filed", f) : f \in {"income", "balance_sheet"}}
MCQueries ==
    {Query({"b1"}, {"n1", "m2", "d1"}, {}, "as_filed_by_date", "income"),
     Query({"b1", "b2"}, Newer, {}, "original_as_filed", "income")}
    \cup {Query({"b1", "b2"}, Both, {"e0"}, "latest_reported", "income"),
           Query({"b2"}, Newer \ {"d1"}, {"e0"}, "latest_reported", "income")}
    \cup Together
MCSeries == {Together}
Symmetry == Permutations(Writers)
=============================================================================
