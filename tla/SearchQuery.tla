---------------------------- MODULE SearchQuery -----------------------------
(***************************************************************************)
(* One `gitlore search` after another (gitlore-core/src/search, called by  *)
(* cli.rs and by the TUI) on an index that `gitlore index` migrates and    *)
(* fills at the same time.  A query is a sequence of separate SQL          *)
(* statements, each of which sees what was committed before it.            *)
(*                                                                         *)
(* What the writer does is Indexer's PersistChunk, FlagPopulated and       *)
(* backfill, with the migrations before them.  Rows of commits are never   *)
(* deleted or changed in the columns a search reads, so the reads of       *)
(* enrich_hit after the MATCH are one step.  Scores are scaled by 60, bm25 *)
(* is its absolute value, and an age is counted in half-lives.             *)
(***************************************************************************)
EXTENDS Integers, FiniteSets, SequencesExt

CONSTANTS
    Sha,
    Text,           \* query texts
    Shape,          \* Text -> "hex", "blank", "syntax" (FTS5 rejects it) or "words"
    Prefixed,       \* Text -> commits whose SHA starts with it
    Matches,        \* Text -> commits whose message or paths FTS5 matches
    Bm25,           \* Text -> Sha -> |bm25()|, greater for a better match
    Age,            \* Sha -> age in half-lives, -1 when the clock is behind the commit
    Dirs,           \* Sha -> dirs_touched: a set of paths, each a sequence of names
    Request,        \* what users ask: see Asked
    Tty, SoftCap, AbsCap,   \* 50, 1000 and 10000 hits
    Latest,         \* migrations::LATEST
    ContentFts,     \* the migration since which commits_fts gives back the sha: 4
    MaxIndexed, MaxKills    \* bounds: chunks written, runs killed

Unset == -1     \* no --limit

ASSUME ShapeAssumption == Shape \in [Text -> {"hex", "blank", "syntax", "words"}]
ASSUME MatchAssumption ==
    /\ IsFiniteSet(Sha)
    /\ Prefixed \in [Text -> SUBSET Sha] /\ Matches \in [Text -> SUBSET Sha]
    /\ Bm25 \in [Text -> [Sha -> Nat]] /\ Age \in [Sha -> Nat \cup {-1}]
ASSUME CapAssumption == {Tty, SoftCap, AbsCap} \subseteq Nat /\ Tty <= SoftCap /\ SoftCap <= AbsCap
ASSUME RequestAssumption ==
    Request \subseteq [text : Text, limit : Nat \cup {Unset}, json : BOOLEAN,
                      path : Seq(STRING), since : {"none", "date", "name"}, branch : BOOLEAN]
ASSUME BoundAssumption == MaxIndexed \in Nat /\ MaxKills \in Nat
ASSUME VersionAssumption == Latest \in Nat /\ ContentFts \in 4 .. Latest

VARIABLES
    \* the index
    version,    \* schema_version, 0 before the first migration
    commits,    \* rows of commits
    fts,        \* sha -> its rows in commits_fts that give back the sha; 2 is several
    populated,  \* index_state.fts5_populated: "absent", "false" or "true"
    \* the writer
    wpc,        \* what it does next
    touched,    \* the walk of this run brought commits
    todo,       \* commits the backfill has yet to copy
    written, kills,
    \* the search
    pc,         \* what it does next
    q,          \* Query: [text, filters, limit]
    raw,        \* lexical hits: rows <<sha, n>> of commits_fts
    answer,     \* the last one: a results or an error record
    \* history, for the properties
    stripped,   \* migration 0004 dropped the FTS rows of commits, not yet copied back
    early,      \* a run set fts5_populated while that was so
    settled,    \* commits at the time of the readiness check
    at          \* schema_version at that time

index == <<version, commits, fts, populated>>
writer == <<wpc, touched, todo, written, kills>>
search == <<pc, q, raw, answer, settled, at>>
vars == <<index, writer, search, stripped, early>>

NoQuery == [text |-> "none", filters |-> "none", limit |-> 0]
Failed(e) == [kind |-> "error", error |-> e]
NoAnswer == Failed("none")

Init ==
    /\ version \in {0, ContentFts - 2, ContentFts - 1, Latest}
    /\ commits \in IF version = 0 THEN {{}} ELSE SUBSET Sha
    /\ fts = [s \in Sha |-> IF version >= ContentFts /\ s \in commits THEN 1 ELSE 0]
    /\ populated = IF version < 3 THEN "absent"
                   ELSE IF version < ContentFts \/ commits # {} THEN "true" ELSE "false"
    /\ wpc = "idle" /\ touched = FALSE /\ todo = {} /\ written = 0 /\ kills = 0
    /\ pc = "idle" /\ q = NoQuery /\ raw = {} /\ answer = NoAnswer
    /\ stripped = FALSE /\ early = FALSE /\ settled = {} /\ at = 0

-----------------------------------------------------------------------------
(* The writer.                                                             *)

Write(from, to) == wpc = from /\ wpc' = to

BeginRun ==
    /\ Write("idle", "migrate")
    /\ touched' = FALSE /\ todo' = {}
    /\ UNCHANGED <<index, written, kills, search, stripped, early>>

(* Migration 0003 adds the marker, 'true' only without commits; 0004 drops *)
(* and recreates commits_fts and resets the marker.                        *)
Migrate ==
    /\ wpc = "migrate" /\ version < Latest
    /\ version' = version + 1
    /\ populated' = CASE version' = 3 -> IF commits = {} THEN "true" ELSE "false"
                      [] version' = ContentFts -> "false"
                      [] OTHER -> populated
    /\ fts' = IF version' = ContentFts THEN [s \in Sha |-> 0] ELSE fts
    /\ stripped' = (IF version' = ContentFts THEN commits # {} ELSE stripped)
    /\ UNCHANGED <<commits, writer, search, early>>

Migrated ==
    /\ version = Latest /\ Write("migrate", "persist")
    /\ UNCHANGED <<index, touched, todo, written, kills, search, stripped, early>>

(* Mutant of InsertFts: it replaces the row that a commit has, but only    *)
(* deletes it.                                                             *)
InsertFtsReplacing(c) ==
    fts' = [s \in Sha |-> IF s \notin c THEN fts[s] ELSE IF fts[s] = 0 THEN 1 ELSE 0]

(* commits_fts has no key: a second INSERT OR REPLACE adds a second row.   *)
InsertFts(c) == fts' = [s \in Sha |-> IF s \in c /\ fts[s] < 2 THEN fts[s] + 1 ELSE fts[s]]

(* A chunk of walk_and_persist; its commits may be indexed already.        *)
PersistChunk(c) ==
    /\ wpc = "persist" /\ c # {} /\ written < MaxIndexed
    /\ commits' = commits \cup c
    /\ InsertFts(c)
    /\ touched' = TRUE
    /\ written' = written + 1
    /\ UNCHANGED <<version, populated, wpc, todo, kills, search, stripped, early>>

(* Only when the walk brought commits.                                     *)
FlagPopulated ==
    /\ Write("persist", "backfill")
    /\ populated' = IF touched THEN "true" ELSE populated
    /\ early' = (early \/ (touched /\ stripped))
    /\ UNCHANGED <<version, commits, fts, touched, todo, written, kills, search, stripped>>

BeginBackfill ==
    /\ wpc = "backfill"
    /\ \/ /\ populated = "true" \/ commits = {}
          /\ populated' = "true" /\ wpc' = "idle" /\ UNCHANGED todo
       \/ /\ populated # "true" /\ commits # {}
          /\ wpc' = "copy" /\ todo' = commits /\ UNCHANGED populated
    /\ UNCHANGED <<version, commits, fts, touched, written, kills, search, stripped, early>>

Copy(s) ==
    /\ wpc = "copy" /\ s \in todo
    /\ InsertFts({s})
    /\ todo' = todo \ {s}
    /\ UNCHANGED <<version, commits, populated, wpc, touched, written, kills, search,
                   stripped, early>>

EndBackfill ==
    /\ todo = {} /\ Write("copy", "idle")
    /\ populated' = "true" /\ stripped' = FALSE
    /\ UNCHANGED <<version, commits, fts, touched, todo, written, kills, search, early>>

KillWriter ==
    /\ wpc # "idle" /\ kills < MaxKills
    /\ wpc' = "idle" /\ touched' = FALSE /\ todo' = {} /\ kills' = kills + 1
    /\ UNCHANGED <<index, written, search, stripped, early>>

-----------------------------------------------------------------------------
(* The search.                                                             *)

(* Mutant of EffectiveLimit: an explicit limit is not capped.              *)
EffectiveLimitUncapped(arg, json) ==
    IF arg # Unset THEN arg ELSE IF json THEN SoftCap ELSE Tty

(* run_search: an explicit limit is capped, the default is for a pipe or   *)
(* for a reader.                                                           *)
EffectiveLimit(arg, json) ==
    IF arg # Unset THEN IF arg > AbsCap THEN AbsCap ELSE arg
    ELSE IF json THEN SoftCap ELSE Tty

(* The TUI asks with default filters and the limit of a terminal.          *)
Asked(r) ==
    [text |-> r.text, limit |-> EffectiveLimit(r.limit, r.json),
     filters |-> [path |-> r.path, since |-> r.since, branch |-> r.branch]]

Ask(r) ==
    /\ pc = "idle"
    /\ pc' = "ready" /\ q' = Asked(r)
    /\ UNCHANGED <<index, writer, raw, answer, settled, at, stripped, early>>

Reply(a) ==
    /\ answer' = a
    /\ pc' = "idle" /\ q' = NoQuery /\ raw' = {} /\ settled' = {} /\ at' = 0
    /\ UNCHANGED <<index, writer, stripped, early>>

Results(mode, hits, total) ==
    [kind |-> "results", q |-> q, mode |-> mode, hits |-> hits, total |-> total,
     settled |-> settled, version |-> at, early |-> early]

(* Mutant of CheckReady: no look at the marker.                            *)
CheckReadyBlind ==
    /\ pc = "ready"
    /\ pc' = "sha"
    /\ settled' = commits /\ at' = version
    /\ UNCHANGED <<index, writer, q, raw, answer, stripped, early>>

(* check_fts5_ready: a marker that is absent, or a statement that fails,   *)
(* counts as ready.                                                        *)
CheckReady ==
    /\ pc = "ready" /\ populated # "false"
    /\ pc' = "sha"
    /\ settled' = commits /\ at' = version
    /\ UNCHANGED <<index, writer, q, raw, answer, stripped, early>>

NotReady == pc = "ready" /\ populated = "false" /\ Reply(Failed("index_not_ready"))

(* try_sha_lookup: up to two rows for a query of 4 to 40 hex digits,       *)
(* whatever the filters and the limit; two are "ambiguous".                *)
ShaLookup ==
    /\ pc = "sha" /\ Shape[q.text] = "hex"
    /\ IF version = 0 THEN Reply(Failed("sqlite"))
       ELSE \E found \in SUBSET (Prefixed[q.text] \cap commits) :
              /\ \/ Cardinality(found) = 2
                 \/ Cardinality(found) < 2 /\ found = Prefixed[q.text] \cap commits
              /\ \E hits \in SetToSeqs(found) :
                   Reply(Results("sha_lookup", hits, Cardinality(found)))

(* filters::resolve without a provider: a bound that is not a date or a    *)
(* number is refused.  escape_query refuses a blank text, and prepare one  *)
(* that is no FTS5 query.                                                  *)
RefuseQuery ==
    /\ pc = "sha" /\ Shape[q.text] # "hex"
    /\ \/ q.filters.since = "name" /\ Reply(Failed("invalid_ref"))
       \/ q.filters.since # "name" /\ Shape[q.text] = "blank" /\ Reply(Failed("invalid_query"))
       \/ /\ q.filters.since # "name" /\ Shape[q.text] # "blank"
          /\ Shape[q.text] = "syntax" \/ version = 0
          /\ Reply(Failed("sqlite"))

(* The rows of commits_fts that match and join a commit.                   *)
Rows(t) == UNION {{<<s, n>> : n \in 1 .. fts[s]} : s \in Matches[t] \cap commits}

(* Mutant of Best: ORDER BY score DESC, as "least-negative first" reads.   *)
BestReversed(t, rows) ==
    \A x \in rows, y \in Rows(t) \ rows : Bm25[t][x[1]] <= Bm25[t][y[1]]

(* ORDER BY score ASC: bm25() is negative, so the best match comes first.  *)
Best(t, rows) ==
    \A x \in rows, y \in Rows(t) \ rows : Bm25[t][x[1]] >= Bm25[t][y[1]]

Match ==
    /\ pc = "sha" /\ Shape[q.text] = "words"
    /\ q.filters.since # "name" /\ version > 0
    /\ LET all == Cardinality(Rows(q.text)) IN
       \E rows \in SUBSET Rows(q.text) :
         /\ Cardinality(rows) = (IF all < q.limit THEN all ELSE q.limit)
         /\ Best(q.text, rows)
         /\ raw' = rows
    /\ pc' = "rank"
    /\ UNCHANGED <<index, writer, q, answer, settled, at, stripped, early>>

-----------------------------------------------------------------------------
(* The score.                                                              *)

(* path_relevance::score.                                                  *)
PathRelevance(s, path) ==
    IF path = << >> THEN 0
    ELSE IF \E d \in Dirs[s] : IsPrefix(path, d) THEN 60
    ELSE IF Len(path) = 1 /\ (\E d \in Dirs[s] : Len(d) = 1 /\ d # path) THEN 30
    ELSE 0

(* recency::score; a commit from the future is as good as a new one.       *)
Recency(s) == IF Age[s] < 0 THEN 60 ELSE 60 \div 2^Age[s]

(* "Flip and normalise": 1 / (1 + |bm25|).                                 *)
Bm25Norm(t, s) == 60 \div (1 + Bm25[t][s])

Score(query, s) ==
    5 * Bm25Norm(query.text, s) + 3 * PathRelevance(s, query.filters.path) + 2 * Recency(s)

(* apply_post_filters reads a column commit_sha that commit_refs does not  *)
(* have; the error counts as "not on the branch".                          *)
Kept(rows) == IF q.filters.branch THEN {} ELSE rows

Ranked(rows) ==
    \A i, j \in 1 .. Len(rows) : i < j => Score(q, rows[i][1]) >= Score(q, rows[j][1])

Rank ==
    /\ pc = "rank"
    /\ \E rows \in SetToSeqs(Kept(raw)) :
         /\ Ranked(rows)
         /\ Reply(Results("lexical", [i \in 1 .. Len(rows) |-> rows[i][1]], Len(rows)))

-----------------------------------------------------------------------------
WriterStep ==
    \/ BeginRun \/ Migrate \/ Migrated \/ (\E c \in SUBSET Sha : PersistChunk(c))
    \/ FlagPopulated \/ BeginBackfill \/ (\E s \in Sha : Copy(s)) \/ EndBackfill
    \/ KillWriter

SearchStep == CheckReady \/ NotReady \/ ShaLookup \/ RefuseQuery \/ Match \/ Rank

Next == WriterStep \/ SearchStep \/ \E r \in Request : Ask(r)

Spec == Init /\ [][Next]_vars

-----------------------------------------------------------------------------
IndexTypeOK ==
    /\ version \in 0 .. Latest /\ commits \subseteq Sha
    /\ fts \in [Sha -> 0 .. 2] /\ populated \in {"absent", "false", "true"}

WriterTypeOK ==
    /\ wpc \in {"idle", "migrate", "persist", "backfill", "copy"}
    /\ touched \in BOOLEAN /\ todo \subseteq commits
    /\ written \in 0 .. MaxIndexed /\ kills \in 0 .. MaxKills
    /\ stripped \in BOOLEAN /\ early \in BOOLEAN

SearchTypeOK ==
    /\ pc \in {"idle", "ready", "sha", "rank"}
    /\ q = NoQuery \/ q.limit \in 0 .. AbsCap
    /\ raw \subseteq commits \X {1, 2}
    /\ answer.kind = "results" =>
         /\ answer.hits \in Seq(commits)
         /\ answer.mode = "lexical" => Len(answer.hits) <= answer.q.limit
    /\ settled \subseteq commits /\ at \in 0 .. version

TypeOK == IndexTypeOK /\ WriterTypeOK /\ SearchTypeOK

Lexical(a) == a.kind = "results" /\ a.mode = "lexical" /\ ~a.q.filters.branch
Hits(a) == ToSet(a.hits)
Full(a) == Len(a.hits) = a.q.limit

(* The index an answer is from has, and has had since 0004, all its rows   *)
(* in commits_fts while it is marked as populated.                         *)
Trustworthy(a) == Lexical(a) /\ a.version >= ContentFts /\ ~a.early

(* Search "fails-closed when a backfill is still in progress"              *)
(* (orchestrator.rs:6): an answer below its limit has every matching       *)
(* commit that was indexed when the marker was read, although marker and   *)
(* rows are read by separate statements, and runs write, migrate, backfill *)
(* and are killed in between.  It fails open on an index that the user's   *)
(* new binary has not migrated yet, and for ever after a run whose walk    *)
(* brought commits to an index that 0004 had stripped.                     *)
CompleteUnlessUpgraded ==
    Trustworthy(answer) /\ ~Full(answer) =>
        answer.settled \cap Matches[answer.q.text] \subseteq Hits(answer)

(* The LIMIT of the MATCH statement is applied before the blend re-sorts   *)
(* and before branch and duplicates are looked at; what it cuts off is     *)
(* still never a better match of FTS5 than a hit it keeps (lexical.rs:203, *)
(* whose comment has the sign of bm25() the other way round).              *)
StrongestKept ==
    Trustworthy(answer) /\ answer.q.limit > 0 =>
        \A s \in (answer.settled \cap Matches[answer.q.text]) \ Hits(answer), h \in Hits(answer) :
            Bm25[answer.q.text][h] >= Bm25[answer.q.text][s]

(* Asking again never loses a hit: between two answers to the same query   *)
(* no step of an incremental run, killed or not, hides a commit from the   *)
(* second (indexer.rs:789-900), unless better matches fill its limit. A    *)
(* rebuild does, and is not among the steps of this writer.                *)
NeverForgets ==
    [][Lexical(answer) /\ Lexical(answer') /\ answer'.q = answer.q /\ ~Full(answer')
         /\ answer.version >= ContentFts => Hits(answer) \subseteq Hits(answer')]_vars
=============================================================================
