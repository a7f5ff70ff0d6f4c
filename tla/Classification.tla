--------------------------- MODULE Classification ---------------------------
(* The file classifier and what is counted and reported with it                *)
(* (core/index/classify.rs, reclassify.rs, classify_report.rs, and             *)
(* compute_counters of indexer.rs). No state.                                  *)
EXTENDS Integers, Sequences, FiniteSets

LOCAL INSTANCE SequencesExt
LOCAL INSTANCE FiniteSetsExt

CONSTANTS
    Defaults,   \* [category -> globs] of defaults.classifications.toml
    Overlay,    \* [ecosystem -> [markers, globs]] of the same file
    Matches,    \* [glob -> paths]
    Malformed,  \* globs that do not compile
    Typed,   \* [sha -> what a user may type for it]
    ProgressInterval

ORDERED_CATEGORIES == <<"generated", "migration", "test", "infra", "ci", "config", "asset",
                        "docs", "code">>
Category == ToSet(ORDERED_CATEGORIES)

-----------------------------------------------------------------------------
(* Classifier.                                                               *)

\* Globs of an overlay join those of their category; nothing is ever taken out.
MergeInto(globs, source) == [c \in Category |-> globs[c] \cup source[c]]

\* An overlay applies when one of its markers is at the root of the repository.
Detected(root) == {e \in DOMAIN Overlay : Overlay[e].markers \cap root # {}}

\* A malformed glob anywhere is an error of every command that classifies.
DefaultFor(root) ==
    LET globs == FoldSet(LAMBDA e, g : MergeInto(g, Overlay[e].globs), Defaults, Detected(root))
    IN  [ok |-> \A c \in Category : globs[c] \cap Malformed = {},
         sets |-> globs, ecosystems |-> Detected(root)]

IsMatch(globs, path) == \E g \in globs : path \in Matches[g]

\* The first category in the order of precedence that has a matching glob, else code.
Classify(classifier, path) ==
    LET hits == {k \in DOMAIN ORDERED_CATEGORIES :
                    IsMatch(classifier.sets[ORDERED_CATEGORIES[k]], path)}
    IN  IF hits = {} THEN "code" ELSE ORDERED_CATEGORIES[Min(hits)]

-----------------------------------------------------------------------------
(* Counters of a commit. A row lists its paths, or text that does not parse.  *)

Counter == <<"test", "config", "infra", "docs", "code", "dependency", "ci", "fixture",
             "migration">>

NumberOf(classifier, files, category) ==
    Cardinality({i \in DOMAIN files : Classify(classifier, files[i]) = category})

\* What a commit gets when it is indexed: no category counts as dependency or fixture, and
\* generated files and assets count nowhere.
ComputeCounters(classifier, files) ==
    [k \in DOMAIN Counter |->
        IF Counter[k] \in Category THEN NumberOf(classifier, files, Counter[k]) ELSE 0]

ParseFileChanges(text) == IF text.parses THEN text.files ELSE << >>

\* The seven columns that reclassification writes; the other two keep their values.
Bumped == {"test", "config", "infra", "docs", "code", "ci", "migration"}
ClassifyFiles(classifier, text) ==
    [c \in Bumped |-> NumberOf(classifier, ParseFileChanges(text), c)]

Updated(row, classifier) ==
    [row EXCEPT !.counters = [k \in DOMAIN Counter |->
        IF Counter[k] \in Bumped THEN ClassifyFiles(classifier, row.text)[Counter[k]]
        ELSE @[k]]]

\* All rows in one transaction; a callback whenever the count is a multiple of the interval.
ReclassifyAll(rows, classifier) ==
    [rows |-> [i \in DOMAIN rows |-> Updated(rows[i], classifier)],
     updated |-> Len(rows),
     progress |-> {n \in 1 .. Len(rows) : n % ProgressInterval = 0}]

-----------------------------------------------------------------------------
(* gitlore classify.                                                         *)

Classified(classifier, paths) ==
    [i \in DOMAIN paths |-> [path |-> paths[i], category |-> Classify(classifier, paths[i])]]

\* One category for the whole answer only if there is a file and all agree.
HomogeneousCategory(items) ==
    LET all == {items[i].category : i \in DOMAIN items}
    IN  IF Cardinality(all) = 1 THEN CHOOSE c \in all : TRUE ELSE "none"

\* for_paths (the sort by path is left out).
ForPaths(root, paths) ==
    LET classifier == DefaultFor(root)
    IN  IF ~classifier.ok THEN [error |-> "io"]
        ELSE LET items == Classified(classifier, paths)
             IN  [matched |-> items, category |-> HomogeneousCategory(items)]

\* --explain: the commit whose SHA the text is or begins, as indexed, with categories of
\* today. There must be a database and one such row.
ReadForSha(root, hasDatabase, rows, typed) ==
    LET hits == {i \in DOMAIN rows : typed \in Typed[rows[i].sha]}
        row == rows[CHOOSE i \in hits : TRUE]
    IN  CASE ~hasDatabase \/ hits = {} -> [error |-> "sha_not_found"]
          [] hasDatabase /\ Cardinality(hits) > 1 -> [error |-> "sha_ambiguous_prefix"]
          [] OTHER ->
               IF DefaultFor(root).ok
               THEN [sha |-> row.sha,
                     files |-> Classified(DefaultFor(root), ParseFileChanges(row.text))]
               ELSE [error |-> "io"]

=============================================================================
