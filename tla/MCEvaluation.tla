---------------------------- MODULE MCEvaluation ----------------------------
(* Small samples and result lists; TLC evaluates the assumptions.            *)
EXTENDS Integers, Sequences, FiniteSets

V == INSTANCE Evaluation

LOCAL Samples == UNION {[1 .. n -> 1 .. 4] : n \in 1 .. 5}
LOCAL Share(s, v) == Cardinality({i \in DOMAIN s : s[i] <= v})

\* The reference: the least sample that at least p of a hundred samples do not exceed
\* (metrics.rs:107-110), which is the least of all for p = 0.
ASSUME NearestRank ==
    \A s \in Samples : \A p \in {0, 1, 20, 21, 25, 50, 51, 95, 99, 100} :
        LET v == V!Percentile(s, p)
        IN  /\ \E i \in DOMAIN s : s[i] = v
            /\ 100 * Share(s, v) >= p * Len(s)
            /\ \A i \in DOMAIN s : s[i] < v => 100 * Share(s, s[i]) < p * Len(s)

\* A longer cutoff never lowers the precision, a cutoff of nothing finds nothing, and one
\* beyond the lists counts each query whose commit is in its list (metrics.rs:77-105).
ASSUME PrecisionGrows ==
    LET Lists == UNION {[1 .. n -> {"a", "b", "c"}] : n \in 0 .. 2}
    IN  \A e \in [1 .. 2 -> {"a", "b"}], r \in [1 .. 2 -> Lists] :
          /\ V!SearchTopKPrecision(e, r, 0)[1] = 0
          /\ \A k \in 0 .. 2 :
                V!SearchTopKPrecision(e, r, k)[1] <= V!SearchTopKPrecision(e, r, k + 1)[1]
          /\ V!SearchTopKPrecision(e, r, 3)[1]
               = Cardinality({i \in 1 .. 2 : \E j \in DOMAIN r[i] : r[i][j] = e[i]})

\* In a release the scenario registered last is the one that runs, and no other is lost.
ASSUME LastWins ==
    LET one == V!Register([n \in {} |-> 0], "s", 1, FALSE)
    IN  /\ V!RunAll(V!Register(V!Register(one, "t", 2, FALSE), "s", 3, FALSE))
             = {<<"s", 3>>, <<"t", 2>>}
        /\ V!Register(one, "s", 3, TRUE) = V!Panic

\* The nearest marked directory above the start, and the start if there is none.
ASSUME NearestRoot ==
    LET parent == [d \in {"/", "/w", "/w/c"} |->
                      CASE d = "/" -> "none" [] d = "/w" -> "/" [] d = "/w/c" -> "/w"]
    IN  /\ V!WorkspaceRoot("unset", "/w/c", parent, {"/w", "/"}) = "/w"
        /\ V!WorkspaceRoot("unset", "/w/c", parent, {}) = "/w/c"
        /\ V!WorkspaceRoot("/w", "/w/c", parent, {"/"}) = "/w"

=============================================================================
