-------------------------- MODULE MCClassification --------------------------
(* Classification over two overlays and paths that several globs match; TLC    *)
(* evaluates the assumptions.                                                  *)
EXTENDS Integers, Sequences, FiniteSets, TLC

LOCAL NoGlobs == [c \in {"generated", "migration", "test", "infra", "ci", "config", "asset",
                         "docs", "code"} |-> {}]
LOCAL Embedded == [NoGlobs EXCEPT !["test"] = {"tests/**"}, !["docs"] = {"*.md"},
                                  !["asset"] = {"*.png"}, !["config"] = {"*.toml"}]
LOCAL Rust == [markers |-> {"Cargo.toml"},
               globs |-> [NoGlobs EXCEPT !["generated"] = {"target/**"}, !["code"] = {"*.rs"}]]
LOCAL Node == [markers |-> {"package.json"},
               globs |-> [NoGlobs EXCEPT !["generated"] = {"[dist"}, !["test"] = {"*.rs"}]]
LOCAL Paths == {"tests/a.rs", "target/a.md", "a.png", "Cargo.toml", "x"}

C == INSTANCE Classification WITH
    Defaults <- Embedded,
    Overlay <- "rust" :> Rust @@ "node" :> Node,
    Matches <- "tests/**" :> {"tests/a.rs"} @@ "*.md" :> {"target/a.md"} @@ "*.png" :> {"a.png"}
               @@ "*.toml" :> {"Cargo.toml"} @@ "target/**" :> {"target/a.md"}
               @@ "*.rs" :> {"tests/a.rs"} @@ "[dist" :> {},
    Malformed <- {"[dist"},
    Typed <- "a1" :> {"a", "a1"} @@ "a2" :> {"a", "a2"},
    ProgressInterval <- 2

LOCAL Roots == SUBSET {"Cargo.toml", "package.json"}
LOCAL Sound == {r \in Roots : C!DefaultFor(r).ok}
LOCAL Files == UNION {[1 .. n -> Paths] : n \in 0 .. 3}
LOCAL Row(sha, parses, files, counters) ==
    [sha |-> sha, text |-> [parses |-> parses, files |-> files], counters |-> counters]

\* "never inflates real-code change counts" (classify.rs:46-49): no later category takes a
\* path from an earlier one, and an overlay never moves a path down the order.
ASSUME Precedence ==
    \A r, s \in Sound, p \in Paths :
        LET Rank(c) == CHOOSE k \in DOMAIN C!ORDERED_CATEGORIES : C!ORDERED_CATEGORIES[k] = c
            inner == C!Classify(C!DefaultFor(r), p)
            outer == C!Classify(C!DefaultFor(s), p)
        IN  /\ \A k \in 1 .. Rank(inner) - 1 :
                  ~C!IsMatch(C!DefaultFor(r).sets[C!ORDERED_CATEGORIES[k]], p)
            /\ r \subseteq s => Rank(outer) <= Rank(inner)

\* Every file is counted once, but for generated files and assets (indexer.rs:924-931).
ASSUME CountersComplete ==
    \A r \in Sound, files \in Files :
        LET k == C!DefaultFor(r)
            counters == C!ComputeCounters(k, files)
            uncounted == {i \in DOMAIN files : C!Classify(k, files[i]) \in {"generated", "asset"}}
        IN  counters[1] + counters[2] + counters[3] + counters[4] + counters[5] + counters[6]
              + counters[7] + counters[8] + counters[9] + Cardinality(uncounted) = Len(files)

\* Reclassification, which maps categories to columns on its own (reclassify.rs:57-71),
\* gives a row the counters that indexing it anew would give it, whatever it had before,
\* and again changes nothing; a row that does not parse loses them.
ASSUME ReclassifyAgrees ==
    \A r, s \in Sound, files \in Files :
        LET old == C!ComputeCounters(C!DefaultFor(r), files)
            k == C!DefaultFor(s)
            rows == <<Row("a1", TRUE, files, old), Row("a2", FALSE, << >>, old)>>
            result == C!ReclassifyAll(rows, k)
        IN  /\ result.rows[1].counters = C!ComputeCounters(k, files)
            /\ result.rows[2].counters = C!ComputeCounters(k, << >>)
            /\ C!ReclassifyAll(result.rows, k) = result
            /\ result.progress = {2} /\ result.updated = 2

\* --explain answers for one commit or says why not, and agrees with the glob form on its
\* files (classify_report.rs:90-101).
ASSUME ReportsAgree ==
    \A r \in Sound, files \in Files :
        LET rows == <<Row("a1", TRUE, files, << >>), Row("a2", TRUE, << >>, << >>)>>
            Read(typed) == C!ReadForSha(r, TRUE, rows, typed)
        IN  /\ Read("a1").files = C!ForPaths(r, files).matched
            /\ Read("a").error = "sha_ambiguous_prefix" /\ Read("b").error = "sha_not_found"
            /\ C!ForPaths(r, files).category # "none" =>
                  \A i \in DOMAIN files :
                      Read("a1").files[i].category = C!ForPaths(r, files).category

=============================================================================
