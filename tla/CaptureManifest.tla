---------------------------- MODULE CaptureManifest ----------------------------
(***************************************************************************)
(* prepare_capture_manifest (vintage.py): which archived bytes of one       *)
(* source object to normalise at a cutoff, and what is known against them.  *)
(* A case has the object's captures (id, ok, status, sha, fetched,          *)
(* completed; 0 for never), its fetch attempts (state, prepared, finished,  *)
(* reused) and the cutoff.                                                  *)
(***************************************************************************)
EXTENDS Cases, FiniteSets, FiniteSetsExt

CONSTANT ManifestCases   \* kind "manifest"

Failures == {"http_error", "transport_error", "body_limit", "redirect_refused",
             "archive_error", "cancelled"}
By(t, cutoff) == t # 0 /\ t <= cutoff
Successful(c, cutoff) == c.ok /\ By(c.fetched, cutoff)

known_by_start(a, cutoff) == By(a.prepared, cutoff) /\ a.finished # 0
known_outcome(a, cutoff) == By(a.prepared, cutoff) /\ By(a.finished, cutoff)
unknown_outcome(a, cutoff) ==
    /\ By(a.prepared, cutoff)
    /\ ~By(a.finished, cutoff) \/ a.state = "interrupted_unknown"

freshness_boundary_any(captures, attempts, selected, newest, cutoff) ==
    Max({newest} \cup {a.finished : a \in {x \in attempts : known_outcome(x, cutoff) /\ x.state = "not_modified"}})
(* A 304 that names the selected bytes clears the failures before it. *)
freshness_boundary(captures, attempts, selected, newest, cutoff) ==
    Max({newest} \cup {a.finished : a \in {x \in attempts :
            known_outcome(x, cutoff) /\ x.state = "not_modified" /\ x.reused \in selected}})

prepare_capture_manifest(captures, attempts, cutoff) ==
    LET known == {c \in captures : By(c.completed, cutoff)}
        successes == {c \in known : Successful(c, cutoff)}
        newest == Max({0} \cup {c.fetched : c \in successes})
        latest == {c \in successes : c.fetched = newest}
        ambiguous == Cardinality({c.sha : c \in latest}) > 1
        selected == IF ambiguous THEN {} ELSE {c.id : c \in latest}
        boundary == freshness_boundary(captures, attempts, selected, newest, cutoff)
        late(t) == successes = {} \/ t >= boundary
        failed == \/ \E a \in attempts : /\ known_outcome(a, cutoff) /\ a.state \in Failures
                                         /\ late(a.finished)
                  \/ \E c \in known \ successes : c.status # 304 /\ late(c.completed)
        missing == successes = {}
    IN  [selected |-> selected,
         flags |-> (IF missing THEN {"capture_unavailable"} ELSE {})
                   \cup (IF ambiguous THEN {"ambiguous_capture_vintage"} ELSE {})
                   \cup (IF \E a \in attempts : unknown_outcome(a, cutoff)
                         THEN {"source_attempt_outcome_unknown"} ELSE {})
                   \cup (IF failed THEN {IF missing THEN "capture_failed" ELSE "newer_capture_failed"}
                         ELSE {}),
         usable |-> ~missing /\ ~ambiguous]

States == Failures \cup {"prepared", "in_progress", "complete", "not_modified", "content_unchanged",
                        "redirected", "interrupted_unknown"}
ASSUME ManifestAssumption ==
    \A c \in ManifestCases :
        /\ c.cutoff \in Nat /\ IsFiniteSet(c.captures) /\ IsFiniteSet(c.attempts)
        /\ \A x \in c.captures : {x.fetched, x.completed} \subseteq Nat
        /\ c.attempts \subseteq [state : States, prepared : Nat \ {0}, finished : Nat, reused : Nat]

PrepareManifest == Take(ManifestCases)

(* A manifest without flags is as fresh as the record at its cutoff can show: *)
(* every attempt begun by then has a known outcome, and each failure was      *)
(* followed by a success or a revalidation of the very bytes selected.        *)
UnflaggedIsFresh ==
    case.kind = "manifest" =>
    LET m == prepare_capture_manifest(case.captures, case.attempts, case.cutoff)
        begun == {a \in case.attempts : a.prepared <= case.cutoff}
        good == {c.fetched : c \in {x \in case.captures : x.id \in m.selected}}
                \cup {a.finished : a \in {x \in begun : x.state = "not_modified" /\ x.reused \in m.selected
                                                        /\ x.finished <= case.cutoff}}
        bad == {a.finished : a \in {x \in begun : x.state \in Failures}}
               \cup {c.completed : c \in {x \in case.captures : ~x.ok /\ x.status # 304
                                             /\ x.completed \in 1..case.cutoff}}
    IN  m.flags = {} => /\ \A a \in begun : a.finished \in 1..case.cutoff
                        /\ \A f \in bad : \E g \in good : g > f

(* What is learnt after the cutoff changes neither the selection nor the      *)
(* flags: an attempt that was running then stays unknown at that cutoff.      *)
CutoffIsFinal ==
    case.kind = "manifest" =>
    LET later(x) == x.finished > case.cutoff
        asThen == {IF later(a) THEN [a EXCEPT !.finished = 0, !.state = "in_progress"] ELSE a
                      : a \in {x \in case.attempts : x.prepared <= case.cutoff}}
        seen == {c \in case.captures : c.completed <= case.cutoff}
    IN  prepare_capture_manifest(case.captures, case.attempts, case.cutoff)
            = prepare_capture_manifest(seen, asThen, case.cutoff)
=============================================================================
