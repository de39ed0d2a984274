----------------------------- MODULE ReverseSolver -----------------------------
(***************************************************************************)
(* The certified search for the assumption that explains a price            *)
(* (valuation.py, Solver): regions of the domain are excluded, proved to    *)
(* hold one root, halved, or left unresolved, within budgets.               *)
(*                                                                          *)
(* The residual is a curve over the grid lower..upper, linear between its    *)
(* points; the grid is the numeric precision, so a midpoint of neighbours    *)
(* is one of them.  An evaluation over a region encloses the curve and its  *)
(* slopes there, by up to `slack` more on a proper region and `rounding`    *)
(* more at a point.  A solve in progress is the case itself: pending        *)
(* regions (a stack), the current one, the bracket being refined, the       *)
(* proofs, and the counters against their budgets.                          *)
(***************************************************************************)
EXTENDS Cases, FiniteSets, SequencesExt

CONSTANT SolveCases      \* kind "solve", phase "partition"

Grid(f) == DOMAIN f
Lower(f) == CHOOSE x \in Grid(f) : \A y \in Grid(f) : x <= y
Upper(f) == CHOOSE x \in Grid(f) : \A y \in Grid(f) : y <= x
Region(lo, hi) == [lo |-> lo, hi |-> hi]
Point(x) == Region(x, x)
Width(r) == r.hi - r.lo
Mid(r) == (r.lo + r.hi) \div 2
Least(S) == CHOOSE x \in S : \A y \in S : x <= y
Most(S) == CHOOSE x \in S : \A y \in S : y <= x

(* SolveSpec: lower < upper, and what a solve starts with and keeps. *)
IsCurve(f) ==
    /\ {Lower(f), Upper(f)} \subseteq Int /\ Lower(f) < Upper(f)
    /\ Grid(f) = Lower(f)..Upper(f) /\ \A x \in Grid(f) : f[x] \in Int
Regions == [lo : Int, hi : Int]
Proofs == [domain : Regions, disposition : {"excluded", "unique_root", "unresolved"},
           root : Regions \cup {none}]
Limits == {"evaluation_budget", "numeric_precision"}
Solves(f) ==
    [kind : {"solve"}, phase : {"partition", "scan", "refine", "conclude", "done"},
     curve : {f}, kinks : SUBSET Grid(f), slack : Nat, rounding : Nat,
     width_tolerance : Nat, residual_tolerance : Nat,
     max_evaluations : Nat, max_subdivisions : Nat, max_iterations : Nat,
     pending : Seq(Regions), current : Regions \cup {none}, bracket : Regions \cup {none},
     left : {-1, 0, 1}, rounds : Nat, proofs : Seq(Proofs),
     evaluations : Nat, subdivisions : Nat, unresolved : BOOLEAN, reason : {none} \cup Limits,
     state : {none, "inconclusive", "non_unique", "converged", "no_solution_in_domain"},
     interval : Regions \cup {none}, open : SUBSET Regions]
Fresh(s) ==
    /\ s.phase = "partition" /\ s.pending = <<>> /\ s.proofs = <<>>
    /\ {s.current, s.bracket, s.reason, s.state} = {none} /\ ~s.unresolved
ASSUME SolveAssumption ==
    /\ none \notin Regions \cup Limits
    /\ \A s \in SolveCases : IsCurve(s.curve) /\ s \in Solves(s.curve) /\ Fresh(s)

(* _residual: an outward enclosure of the values and of the slopes. *)
Spread(s, r) == IF Width(r) = 0 THEN s.rounding ELSE s.slack
Value(s, r) ==
    LET range == {s.curve[x] : x \in r.lo..r.hi} IN
    Region(Least(range) - Spread(s, r), Most(range) + Spread(s, r))
Slope(s, r) ==
    LET range == {s.curve[x + 1] - s.curve[x] : x \in r.lo..(r.hi - 1)} IN
    Region(Least(range) - Spread(s, r), Most(range) + Spread(s, r))
Sign(b) == IF b.lo > 0 THEN 1 ELSE IF b.hi < 0 THEN -1 ELSE 0
SignAt(s, x) == Sign(Value(s, Point(x)))

(* Solver.at raises when the budget is spent: the evaluations before it count, *)
(* and the step's other effects are lost. *)
Affords(s, n) == s.evaluations + n <= s.max_evaluations
Exhausted(s) == [s EXCEPT !.phase = "conclude", !.evaluations = s.max_evaluations,
                          !.reason = "evaluation_budget"]
Spend(s, n, next) == IF Affords(s, n) THEN [next EXCEPT !.evaluations = s.evaluations + n] ELSE Exhausted(s)

(* The domain is cut at the kinks first. *)
Partition(s) ==
    LET cuts == InOrder({Lower(s.curve), Upper(s.curve)} \cup s.kinks, <)
        count == Len(cuts) - 2
    IN  IF count > s.max_subdivisions
        THEN [Exhausted(s) EXCEPT !.evaluations = 0, !.pending = <<Region(Lower(s.curve), Upper(s.curve))>>]
        ELSE [s EXCEPT !.phase = "scan", !.subdivisions = count,
                       !.pending = [i \in 1..(count + 1) |-> Region(cuts[count + 2 - i], cuts[count + 3 - i])]]

Prove(s, r, disposition, root) ==
    [s EXCEPT !.phase = "scan", !.current = none, !.bracket = none,
              !.proofs = Append(@, [domain |-> r, disposition |-> disposition, root |-> root])]

HalveLosingRight(s, r) ==
    [s EXCEPT !.phase = "scan", !.current = none, !.bracket = none, !.subdivisions = @ + 1,
              !.pending = Append(@, Region(r.lo, Mid(r)))]
Halve(s, r) ==
    [s EXCEPT !.phase = "scan", !.current = none, !.bracket = none, !.subdivisions = @ + 1,
              !.pending = @ \o <<Region(Mid(r), r.hi), Region(r.lo, Mid(r))>>]

(* A region that is neither excluded nor proved is halved while it may be. *)
Leave(s, r) ==
    IF /\ s.subdivisions < s.max_subdivisions /\ Mid(r) \notin {r.lo, r.hi}
       /\ Width(r) > s.width_tolerance
    THEN Halve(s, r)
    ELSE [Prove(s, r, "unresolved", none) EXCEPT !.unresolved = TRUE]

ExamineAnySlope(s, r) ==
    LET left == SignAt(s, r.lo)  right == SignAt(s, r.hi) IN
    IF Sign(Value(s, r)) # 0 THEN Spend(s, 1, Prove(s, r, "excluded", none))
    ELSE IF left * right = -1
    THEN Spend(s, 3, [s EXCEPT !.phase = "refine", !.bracket = r, !.left = left, !.rounds = 0])
    ELSE Spend(s, 3, Leave(s, r))
(* One root needs a slope of one sign and ends of opposite certified signs. *)
Examine(s, r) ==
    LET left == SignAt(s, r.lo)  right == SignAt(s, r.hi) IN
    IF Sign(Value(s, r)) # 0 THEN Spend(s, 1, Prove(s, r, "excluded", none))
    ELSE IF Sign(Slope(s, r)) = 0 THEN Spend(s, 1, Leave(s, r))
    ELSE IF left # 0 /\ left = right THEN Spend(s, 3, Prove(s, r, "excluded", none))
    ELSE IF left * right = -1
    THEN Spend(s, 3, [s EXCEPT !.phase = "refine", !.bracket = r, !.left = left, !.rounds = 0])
    ELSE Spend(s, 3, Leave(s, r))

Scan(s) ==
    IF s.pending = <<>> THEN [s EXCEPT !.phase = "conclude"]
    ELSE LET taken == [s EXCEPT !.current = Last(s.pending), !.pending = Front(s.pending)]
         IN  Examine(taken, taken.current)

(* Solver.refine, one round: give up when the rounds or the grid run out, or   *)
(* when the signs beside an unsigned midpoint do not enclose the root. *)
Refine(s) ==
    LET b == s.bracket
        enclosure == Value(s, b)
        narrow == /\ Width(b) <= s.width_tolerance
                  /\ -enclosure.lo <= s.residual_tolerance /\ enclosure.hi <= s.residual_tolerance
        sign == SignAt(s, Mid(b))
        low == Mid(Region(b.lo, Mid(b)))
        high == Mid(Region(Mid(b), b.hi))
        next(bracket) == [s EXCEPT !.bracket = bracket, !.rounds = @ + 1]
        giveUp == Leave(s, s.current)
    IN  IF s.rounds = s.max_iterations THEN giveUp
        ELSE IF narrow THEN Spend(s, 1, Prove(s, s.current, "unique_root", b))
        ELSE IF Mid(b) \in {b.lo, b.hi} THEN Spend(s, 1, giveUp)
        ELSE IF sign # 0
        THEN Spend(s, 2, next(IF sign = s.left THEN Region(Mid(b), b.hi) ELSE Region(b.lo, Mid(b))))
        ELSE IF SignAt(s, low) = s.left /\ SignAt(s, high) = -s.left
        THEN Spend(s, 4, next(Region(low, high)))
        ELSE Spend(s, 4, giveUp)

(* A Decimal or interval operation raises in the middle of a step. *)
Fail(s) ==
    LET f == [s EXCEPT !.phase = "conclude", !.reason = "numeric_precision"] IN
    CASE s.phase = "partition" -> [f EXCEPT !.pending = <<Region(Lower(s.curve), Upper(s.curve))>>]
      [] s.phase = "scan" -> [f EXCEPT !.current = Last(s.pending), !.pending = Front(s.pending)]
      [] s.phase = "refine" -> f

(* What is left when the search stops is reported as unresolved. *)
Conclude(s) ==
    LET remaining == Range(s.pending) \cup (IF s.current = none THEN {} ELSE {s.current})
        roots == {i \in DOMAIN s.proofs : s.proofs[i].disposition = "unique_root"}
        open == s.unresolved \/ s.reason # none \/ remaining # {}
    IN  [s EXCEPT !.phase = "done",
                  !.state = IF open THEN "inconclusive" ELSE IF Cardinality(roots) > 1 THEN "non_unique"
                            ELSE IF roots # {} THEN "converged" ELSE "no_solution_in_domain",
                  !.interval = IF ~open /\ Cardinality(roots) = 1
                                THEN s.proofs[CHOOSE i \in roots : TRUE].root ELSE none,
                  !.open = remaining \cup {p.domain : p \in {x \in Range(s.proofs) : x.disposition = "unresolved"}}]

StartSolve == Take(SolveCases)
PartitionDomain == case.kind = "solve" /\ case.phase = "partition" /\ case' = Partition(case)
ScanRegion == case.kind = "solve" /\ case.phase = "scan" /\ case' = Scan(case)
RefineRoot == case.kind = "solve" /\ case.phase = "refine" /\ case' = Refine(case)
ConcludeSolve == case.kind = "solve" /\ case.phase = "conclude" /\ case' = Conclude(case)
FailNumerically == /\ case.kind = "solve"
                   /\ case.phase \in {"partition", "refine"} \/ (case.phase = "scan" /\ case.pending # <<>>)
                   /\ case' = Fail(case)
SolveStep == PartitionDomain \/ ScanRegion \/ RefineRoot \/ FailNumerically \/ ConcludeSolve

-----------------------------------------------------------------------------
(* The roots the curve really has: at a grid point, or between two of          *)
(* opposite sign.                                                              *)
Roots(f) == {<<x, x>> : x \in {y \in Grid(f) : f[y] = 0}}
            \cup {<<x, x + 1>> : x \in {y \in Grid(f) \ {Upper(f)} : f[y] * f[y + 1] < 0}}

(* A certificate is true of the whole domain: a converged search has found the *)
(* only root there is and encloses it, a search without solution has excluded  *)
(* every root, and one that is not unique has at least two.                    *)
CertificateTrue ==
    case.kind = "solve" /\ case.phase = "done" =>
    LET roots == Roots(case.curve) IN
    /\ case.state = "converged" =>
          /\ Cardinality(roots) = 1
          /\ \A r \in roots : case.interval.lo <= r[1] /\ r[2] <= case.interval.hi
    /\ case.state = "no_solution_in_domain" => roots = {}
    /\ case.state = "non_unique" => Cardinality(roots) > 1

(* No part of the domain is lost on the way, also when a budget runs out in    *)
(* the middle of a region: regions pending, in hand and proved always tile the *)
(* domain, and at the end each is either proved or reported open.              *)
NoRegionLost ==
    case.kind = "solve" /\ case.phase # "partition" =>
    LET proved == {p.domain : p \in Range(case.proofs)}
        regions == (IF case.phase = "done" THEN case.open
                    ELSE Range(case.pending) \cup (IF case.current = none THEN {} ELSE {case.current}))
                   \cup proved
    IN  /\ \A x \in Grid(case.curve) \ {Upper(case.curve)} :
              Cardinality({r \in regions : r.lo <= x /\ x < r.hi}) = 1
        /\ \A p \in Range(case.proofs) : p.disposition = "excluded" =>
              ~\E r \in Roots(case.curve) : p.domain.lo <= r[1] /\ r[2] <= p.domain.hi
=============================================================================
