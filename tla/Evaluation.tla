----------------------------- MODULE Evaluation -----------------------------
(* The evaluation harness (crates/gitlore-eval): its metrics, the registry of *)
(* scenarios and the gate of the private fixtures. No state.                  *)
EXTENDS Integers, Sequences, FiniteSets

LOCAL INSTANCE SequencesExt
LOCAL INSTANCE FiniteSetsExt

Panic == "panic"

-----------------------------------------------------------------------------
(* Metrics.                                                                  *)

\* mrr, top_k_precision, jaccard and mann_whitney_u.
Unimplemented(metric) == [error |-> metric]

\* A fraction as <<numerator, denominator>>.
SearchTopKPrecision(expected, results, k) ==
    LET Hit(i) == \E r \in DOMAIN results[i] : r <= k /\ results[i][r] = expected[i]
    IN  IF expected = << >> THEN <<0, 1>>
        ELSE IF Len(expected) # Len(results) THEN Panic
        ELSE <<Cardinality({i \in DOMAIN expected : Hit(i)}), Len(expected)>>

DivCeil(n, d) == (n + d - 1) \div d

Percentile(samples, p) ==
    LET sorted == SortSeq(samples, LAMBDA x, y : x < y)
        n == Len(samples)
        rank == Min({DivCeil(p * n, 100), n})
    IN  IF samples = << >> \/ p > 100 THEN Panic
        ELSE IF p = 0 THEN sorted[1] ELSE sorted[Max({rank, 1})]

-----------------------------------------------------------------------------
(* Scenarios: a registry maps names to what they report.                     *)

\* A second scenario of a name aborts a debug build and replaces the first in a release.
Register(registry, name, report, debug) ==
    IF debug /\ name \in DOMAIN registry THEN Panic
    ELSE [n \in DOMAIN registry \cup {name} |-> IF n = name THEN report ELSE registry[n]]

\* run_all, in the order of the names, which a model does without.
RunAll(registry) == {<<n, registry[n]>> : n \in DOMAIN registry}

-----------------------------------------------------------------------------
(* Fixtures.                                                                 *)

GatePrivate(value, dirExists) == value = "1" /\ dirExists

\* Walks up from `start` to a directory with a Cargo.lock or a .git; `parent` of the root is
\* "none". An override wins unseen, and where nothing is found the start is the answer.
WorkspaceRoot(override, start, parent, marked) ==
    LET up[d \in DOMAIN parent] ==
          IF d \in marked THEN d ELSE IF parent[d] = "none" THEN start ELSE up[parent[d]]
    IN  IF override # "unset" THEN override ELSE up[start]

=============================================================================
