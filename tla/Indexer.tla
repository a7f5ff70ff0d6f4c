------------------------------- MODULE Indexer -------------------------------
(***************************************************************************)
(* The indexing pipeline of gitlore-core/src/index/indexer.rs: what one    *)
(* `gitlore index` run reads from git and writes to the SQLite index, step *)
(* by committed step, while the repository changes under it and the run    *)
(* may be killed or fail anywhere.                                         *)
(*                                                                         *)
(* A run holds the writer lock (WriterLock), so there is one at a time.    *)
(* The identities a run resolves (phase 2) are left to another module.     *)
(* A commit is its SHA; History gives what `git log` walks from it.        *)
(***************************************************************************)
EXTENDS Naturals, FiniteSets

CONSTANTS
  Sha,           \* commits that ever exist
  History,       \* Sha -> the commits reachable from it, itself included
  Branch, Tag,   \* ref names under refs/heads or refs/remotes, and refs/tags
  Reverts,       \* commits whose message says that they revert something
  Trailer,       \* Sha -> commits its "This reverts commit" trailer matches
                 \* (SHA prefix, not itself, committed within 30 days)
  NoSha,         \* an absent SHA: ref not there, no watermark, NULL column
  ChunkSize,     \* CHUNK_SIZE, commits per transaction
  BackfillChunk, \* FTS5_BACKFILL_CHUNK_SIZE, rows per backfill transaction
  MaxVariables,  \* bound parameters SQLite takes in one statement
  Upgraded,      \* TRUE: the index was built before migration 0004
  MaxChanges,    \* bound: how often the repository changes
  MaxStops       \* bound: how often a run, or a git it calls, is killed or fails

RefName == Branch \cup Tag

ASSUME HistoryAssumption ==
  /\ History \in [Sha -> SUBSET Sha]
  /\ \A s \in Sha : s \in History[s] /\ \A t \in History[s] : History[t] \subseteq History[s]
  /\ \A s, t \in Sha : s \in History[t] /\ t \in History[s] => s = t
ASSUME ShaAssumption == IsFiniteSet(Sha) /\ NoSha \notin Sha
ASSUME RevertAssumption == Reverts \subseteq Sha /\ Trailer \in [Sha -> SUBSET Sha]
ASSUME RefAssumption == IsFiniteSet(RefName) /\ Branch \cap Tag = {}
ASSUME SizeAssumption ==
  /\ {ChunkSize, BackfillChunk, MaxVariables} \subseteq Nat \ {0}
  /\ {MaxChanges, MaxStops} \subseteq Nat
  /\ Upgraded \in BOOLEAN

VARIABLES
  \* the repository
  refs,        \* ref name -> commit at its tip
  objects,     \* commits in the object store
  changes,     \* how often it changed
  \* the index: what survives a crash
  commits,     \* rows of commits
  commitRefs,  \* rows of commit_refs: <<sha, ref name>>
  fts,         \* sha -> its rows in commits_fts; 2 stands for several
  tags,        \* rows of tags: tag name -> sha
  isRevert,    \* commits with is_revert = 1
  revertedBy,  \* sha -> reverted_by_sha
  watermark,   \* index_state.refs_watermark, NoSha for refs it lacks
  populated,   \* index_state.fts5_populated = 'true'
  \* the run: what a crash forgets
  pc, incremental,
  plan,        \* tips that enumerate_refs returned
  wm,          \* the watermark map of the run
  unwalked,    \* refs phase 1 has yet to walk
  walked,      \* sha_to_refs: <<sha, ref name>> for each commit of a walk
  pending,     \* all_commits not yet persisted
  touched,     \* commits persisted by this run
  todo,        \* what the current loop has left: tags or commits
  at,          \* the revert that detect_reverts has flagged but not linked
  orphans,     \* commits that force_push_retention found missing
  \* history, for the properties
  marked,      \* this run has persisted its watermark
  torn,        \* a run stopped with commits pending after it had done so
  sync,        \* "fresh": a run ended well and the repository is as it saw it
  stops,       \* how often a run, or a git it called, was stopped
  lost,        \* commit_refs rows of commits that a probe has not found
  stale,       \* tags that a run passed over: no commit was new, or it stopped
  missed       \* reverts of a run that stopped before it linked them

repository == <<refs, objects, changes>>
rows == <<commits, commitRefs, fts>>
derived == <<tags, isRevert, revertedBy>>
state == <<watermark, populated>>
walk == <<incremental, plan, wm, unwalked, walked>>
loops == <<pending, touched, todo, at, orphans>>
lapses == <<lost, stale, missed>>
history == <<torn, sync, stops, lapses>>
vars == <<repository, rows, derived, state, pc, walk, loops, marked, history>>

Location == {"idle", "heads", "tags", "walk", "chunk", "mark", "populate", "reverts",
             "link", "probe", "prune", "flag", "backfill", "copy", "finish"}
OptionalSha == Sha \cup {NoSha}
Nowhere == [r \in RefName |-> NoSha]
From(s) == IF s = NoSha THEN {} ELSE History[s]
Reachable == UNION {From(refs[r]) : r \in RefName}
Reverters(t) == {s \in commits \cap Reverts : t \in Trailer[s]}

-----------------------------------------------------------------------------
(* A repository on which gitlore never ran, or one whose complete index an *)
(* older binary built and migration 0004 then stripped of its FTS rows.    *)
Init ==
  /\ refs \in [RefName -> OptionalSha]
  /\ objects = Reachable
  /\ changes = 0
  /\ commits = (IF Upgraded THEN Reachable ELSE {})
  /\ commitRefs = {x \in commits \X RefName : x[1] \in From(refs[x[2]])}
  /\ fts = [s \in Sha |-> 0]
  /\ tags = [t \in Tag |-> IF Upgraded THEN refs[t] ELSE NoSha]
  /\ isRevert = commits \cap Reverts
  /\ revertedBy \in [Sha -> OptionalSha]
  /\ \A t \in Sha : IF t \in commits /\ Reverters(t) # {}
                    THEN revertedBy[t] \in Reverters(t) ELSE revertedBy[t] = NoSha
  /\ watermark = (IF Upgraded THEN refs ELSE Nowhere)
  /\ populated = FALSE
  /\ pc = "idle" /\ incremental = FALSE
  /\ plan = Nowhere /\ wm = Nowhere
  /\ unwalked = {} /\ walked = {}
  /\ pending = {} /\ touched = {} /\ todo = {} /\ at = NoSha /\ orphans = {}
  /\ marked = FALSE /\ torn = FALSE /\ sync = "stale" /\ stops = 0
  /\ lost = {} /\ stale = {} /\ missed = {}

-----------------------------------------------------------------------------
(* Commits, pushes, fetches, resets and deletions by users, at any moment. *)
Change ==
  /\ changes < MaxChanges
  /\ changes' = changes + 1
  /\ sync' = "stale"
  /\ UNCHANGED <<rows, derived, state, pc, walk, loops, marked, torn, stops,
                 lapses>>

UpdateRef(r, s) ==
  /\ s # refs[r]
  /\ refs' = [refs EXCEPT ![r] = s]
  /\ objects' = objects \cup From(s)
  /\ Change

(* git gc --prune=now.                                                     *)
Gc ==
  /\ objects # Reachable
  /\ objects' = Reachable
  /\ UNCHANGED refs
  /\ Change

-----------------------------------------------------------------------------
Goto(from, to) == pc = from /\ pc' = to

(* The end of a run, however it ends: its variables are gone.              *)
Forget ==
  /\ pc' = "idle" /\ incremental' = FALSE
  /\ plan' = Nowhere /\ wm' = Nowhere
  /\ unwalked' = {} /\ walked' = {}
  /\ pending' = {} /\ touched' = {} /\ todo' = {} /\ at' = NoSha /\ orphans' = {}
  /\ marked' = FALSE

(* The tags that a run has yet to write, and the reverts it has yet to link. *)
Unwritten(t) == pc \in {"chunk", "mark"} \/ (pc = "populate" /\ t \in todo)

Unlinked(s) ==
  \/ pc \in {"chunk", "mark", "populate"} /\ s \in touched
  \/ pc \in {"reverts", "link"} /\ s \in todo
  \/ pc = "link" /\ s = at

(* A run that ends early keeps what it committed.                          *)
Abort ==
  /\ Forget
  /\ torn' = (torn \/ (marked /\ pending # {}))
  /\ stale' = stale \cup {t \in Tag : marked /\ Unwritten(t)}
  /\ missed' = missed \cup {s \in Reverts : Unlinked(s)}
  /\ sync' = "stale"
  /\ UNCHANGED <<repository, rows, derived, state, lost>>

Fault == stops < MaxStops /\ stops' = stops + 1

(* The process is killed, or a git subprocess, file or SQLite call fails.  *)
Stop ==
  /\ pc # "idle"
  /\ Fault
  /\ Abort

(* run_index: has_watermark decides between run_incremental, which loads   *)
(* the watermark, and run_initial, which starts from an empty one.         *)
BeginRun ==
  /\ Goto("idle", "heads")
  /\ incremental' = (watermark # Nowhere)
  /\ wm' = watermark
  /\ sync' = "running"
  /\ UNCHANGED <<repository, rows, derived, state, plan, unwalked, walked, loops,
                 marked, torn, stops, lapses>>

(* index --rebuild: the database files go, migrate starts over, and then   *)
(* run_initial. On a new database fts5_populated is 'false'.               *)
Rebuild ==
  /\ Goto("idle", "heads")
  /\ commits' = {} /\ commitRefs' = {} /\ fts' = [s \in Sha |-> 0]
  /\ tags' = [t \in Tag |-> NoSha]
  /\ isRevert' = {} /\ revertedBy' = [s \in Sha |-> NoSha]
  /\ watermark' = Nowhere /\ populated' = FALSE
  /\ torn' = FALSE /\ sync' = "running"
  /\ lost' = {} /\ stale' = {} /\ missed' = {}
  /\ UNCHANGED <<repository, walk, loops, marked, stops>>

(* enumerate_refs asks git for the heads, then for the tags.               *)
ListRefs(from, to, names) ==
  /\ Goto(from, to)
  /\ plan' = [r \in RefName |-> IF r \in names THEN refs[r] ELSE plan[r]]
  /\ unwalked' = {r \in RefName : plan'[r] # NoSha}
  /\ UNCHANGED <<repository, rows, derived, state, incremental, wm, walked, loops,
                 marked, history>>

ListHeads == ListRefs("heads", "tags", Branch)
ListTags == ListRefs("tags", "walk", Tag)

(* Where the walk of ref r starts: at its watermark, unless git has pruned *)
(* that commit.                                                            *)
WalkFrom(r) == IF incremental /\ wm[r] \in objects THEN wm[r] ELSE NoSha

(* Mutants of WalkRef: an error of git counts as "no commits"; a commit    *)
(* that an earlier ref brought is not noted for this ref.                  *)
WalkRefSwallowsError(r) ==
  /\ pc = "walk" /\ r \in unwalked
  /\ LET found == IF plan[r] \in objects THEN From(plan[r]) \ From(WalkFrom(r)) ELSE {}
     IN  /\ walked' = walked \cup (found \X {r})
         /\ pending' = pending \cup found
  /\ unwalked' = unwalked \ {r}
  /\ wm' = [wm EXCEPT ![r] = plan[r]]
  /\ UNCHANGED <<repository, rows, derived, state, pc, incremental, plan, touched, todo,
                 at, orphans, marked, history>>

WalkRefFirstOnly(r) ==
  /\ pc = "walk" /\ r \in unwalked
  /\ plan[r] \in objects
  /\ LET found == (From(plan[r]) \ From(WalkFrom(r))) \ pending
     IN  /\ walked' = walked \cup (found \X {r})
         /\ pending' = pending \cup found
  /\ unwalked' = unwalked \ {r}
  /\ wm' = [wm EXCEPT ![r] = plan[r]]
  /\ UNCHANGED <<repository, rows, derived, state, pc, incremental, plan, touched, todo,
                 at, orphans, marked, history>>

(* Phase 1 for one ref: `git log from..tip`. A git that is killed while it *)
(* looks for the watermark's commit is taken for a commit that is gone.    *)
Walk(r, from) ==
  /\ pc = "walk" /\ r \in unwalked
  /\ plan[r] \in objects
  /\ LET found == From(plan[r]) \ From(from)
     IN  /\ walked' = walked \cup (found \X {r})
         /\ pending' = pending \cup found
  /\ unwalked' = unwalked \ {r}
  /\ wm' = [wm EXCEPT ![r] = plan[r]]
  /\ UNCHANGED <<repository, rows, derived, state, pc, incremental, plan, touched, todo,
                 at, orphans, marked, torn, sync, lapses>>

WalkRef(r) == Walk(r, WalkFrom(r)) /\ UNCHANGED stops
WalkRefAnew(r) == WalkFrom(r) # NoSha /\ Walk(r, NoSha) /\ Fault

(* Mutant of WalkFails: no guard against a watermark that git has pruned.  *)
WalkFailsOnStaleMark ==
  /\ pc = "walk"
  /\ \E r \in unwalked : plan[r] \notin objects \/ (wm[r] # NoSha /\ wm[r] \notin objects)
  /\ Abort
  /\ UNCHANGED stops

(* git pruned the tip after enumerate_refs saw it: `git log` fails.        *)
WalkFails ==
  /\ pc = "walk"
  /\ \E r \in unwalked : plan[r] \notin objects
  /\ Abort
  /\ UNCHANGED stops

(* Mutant of EndWalk: the watermark is persisted before the commits.       *)
EndWalkMarks ==
  /\ pc = "walk" /\ unwalked = {}
  /\ \/ pending # {} /\ pc' = "chunk" /\ UNCHANGED todo
     \/ pending = {} /\ ~incremental /\ pc' = "populate" /\ todo' = Tag
     \/ pending = {} /\ incremental /\ pc' = "probe" /\ todo' = commits
  /\ watermark' = wm
  /\ UNCHANGED <<repository, rows, derived, populated, walk, pending, touched, at,
                 orphans, marked, history>>

(* walk_and_persist goes on to phase 3, or returns early when no ref       *)
(* brought a commit; only run_initial then still populates the tags.       *)
EndWalk ==
  /\ pc = "walk" /\ unwalked = {}
  /\ \/ pending # {} /\ pc' = "chunk" /\ UNCHANGED todo
     \/ pending = {} /\ ~incremental /\ pc' = "populate" /\ todo' = Tag
     \/ pending = {} /\ incremental /\ pc' = "probe" /\ todo' = commits
  /\ UNCHANGED <<repository, rows, derived, state, walk, pending, touched, at, orphans,
                 marked, history>>

(* The next chunk of a loop over what is left. The order follows from      *)
(* dates, ref names and row ids: any order is possible.                    *)
IsChunk(c, rest, size) ==
  Cardinality(c) = IF Cardinality(rest) < size THEN Cardinality(rest) ELSE size

(* commits_fts has no key: INSERT OR REPLACE adds a row, like INSERT.      *)
InsertFts(c) ==
  fts' = [s \in Sha |-> IF s \in c /\ fts[s] < 2 THEN fts[s] + 1 ELSE fts[s]]

(* Phase 3, one transaction. The upsert of a commit keeps the revert       *)
(* columns it has.                                                         *)
PersistChunk ==
  /\ Goto("chunk", "mark")
  /\ \E c \in SUBSET pending :
       /\ IsChunk(c, pending, ChunkSize)
       /\ commits' = commits \cup c
       /\ commitRefs' = commitRefs \cup {x \in walked : x[1] \in c}
       /\ InsertFts(c)
       /\ pending' = pending \ c
       /\ touched' = touched \cup c
       /\ lost' = lost \ {x \in walked : x[1] \in c}
  /\ UNCHANGED <<repository, derived, state, walk, todo, at, orphans, marked, torn, sync,
                 stops, stale, missed>>

(* persist_watermark after every chunk: the map names the tips already.    *)
MarkChunk ==
  /\ \/ pending # {} /\ Goto("mark", "chunk") /\ UNCHANGED todo
     \/ pending = {} /\ Goto("mark", "populate") /\ todo' = Tag
  /\ watermark' = wm
  /\ marked' = TRUE
  /\ UNCHANGED <<repository, rows, derived, populated, walk, pending, touched, at,
                 orphans, history>>

(* Mutants of PopulateTag: no look for the commit's row; INSERT OR IGNORE, *)
(* a tag that moved keeps its row.                                         *)
PopulateTagUnchecked(t) ==
  /\ pc = "populate" /\ t \in todo
  /\ tags' = [tags EXCEPT ![t] = plan[t]]
  /\ todo' = todo \ {t}
  /\ UNCHANGED <<repository, rows, isRevert, revertedBy, state, pc, walk, pending,
                 touched, at, orphans, marked, history>>

PopulateTagOnce(t) ==
  /\ pc = "populate" /\ t \in todo
  /\ tags' = IF plan[t] \in commits /\ tags[t] = NoSha THEN [tags EXCEPT ![t] = plan[t]]
             ELSE tags
  /\ stale' = stale \ {t}
  /\ todo' = todo \ {t}
  /\ UNCHANGED <<repository, rows, isRevert, revertedBy, state, pc, walk, pending,
                 touched, at, orphans, marked, torn, sync, stops, lost, missed>>

(* populate_tags, one autocommitted row at a time; a tag whose commit has  *)
(* no row is skipped.                                                      *)
PopulateTag(t) ==
  /\ pc = "populate" /\ t \in todo
  /\ IF plan[t] \in commits
     THEN tags' = [tags EXCEPT ![t] = plan[t]] /\ stale' = stale \ {t}
     ELSE UNCHANGED <<tags, stale>>
  /\ todo' = todo \ {t}
  /\ UNCHANGED <<repository, rows, isRevert, revertedBy, state, pc, walk, pending,
                 touched, at, orphans, marked, torn, sync, stops, lost, missed>>

(* detect_reverts binds every touched SHA in one SELECT.                   *)
BeginReverts ==
  /\ Goto("populate", "reverts") /\ todo = {}
  /\ Cardinality(touched) <= MaxVariables
  /\ todo' = touched \cap Reverts
  /\ UNCHANGED <<repository, rows, derived, state, walk, pending, touched, at, orphans,
                 marked, history>>

TooManyVariables ==
  /\ pc = "populate" /\ todo = {}
  /\ Cardinality(touched) > MaxVariables
  /\ Abort
  /\ UNCHANGED stops

(* One revert: UPDATE is_revert, then UPDATE reverted_by_sha of the commits *)
(* its trailer matches.                                                    *)
FlagRevert(s) ==
  /\ Goto("reverts", "link")
  /\ s \in todo
  /\ isRevert' = isRevert \cup {s}
  /\ todo' = todo \ {s}
  /\ at' = s
  /\ UNCHANGED <<repository, rows, tags, revertedBy, state, walk, pending, touched,
                 orphans, marked, history>>

(* Mutant of LinkRevert: only commits of this run are linked.              *)
LinkRevertInRun ==
  /\ Goto("link", "reverts")
  /\ revertedBy' = [t \in Sha |-> IF t \in Trailer[at] \cap touched THEN at
                                  ELSE revertedBy[t]]
  /\ missed' = missed \ {at}
  /\ at' = NoSha
  /\ UNCHANGED <<repository, rows, tags, isRevert, state, walk, pending, touched, todo,
                 orphans, marked, torn, sync, stops, lost, stale>>

LinkRevert ==
  /\ Goto("link", "reverts")
  /\ revertedBy' = [t \in Sha |-> IF t \in Trailer[at] \cap commits THEN at
                                  ELSE revertedBy[t]]
  /\ missed' = missed \ {at}
  /\ at' = NoSha
  /\ UNCHANGED <<repository, rows, tags, isRevert, state, walk, pending, touched, todo,
                 orphans, marked, torn, sync, stops, lost, stale>>

EndReverts ==
  /\ Goto("reverts", "probe") /\ todo = {}
  /\ todo' = commits
  /\ UNCHANGED <<repository, rows, derived, state, walk, pending, touched, at, orphans,
                 marked, history>>

(* prune_orphans: force_push_retention runs git once per indexed commit,   *)
(* then one transaction deletes the ref rows of those it did not find.     *)
(* cat_file_exists takes every git that fails for a commit that is gone.   *)
Found(s) ==
  /\ pc = "probe" /\ s \in todo
  /\ todo' = todo \ {s}
  /\ UNCHANGED <<repository, rows, derived, state, pc, walk, pending, touched, at, orphans,
                 marked, history>>

NotFound(s) ==
  /\ pc = "probe" /\ s \in todo
  /\ todo' = todo \ {s}
  /\ orphans' = orphans \cup {s}
  /\ lost' = lost \cup {x \in commitRefs : x[1] = s}
  /\ UNCHANGED <<repository, rows, derived, state, pc, walk, pending, touched, at,
                 marked, torn, sync, stale, missed>>

ProbeCommit(s) ==
  \/ s \in objects /\ Found(s)
  \/ s \notin objects /\ NotFound(s) /\ UNCHANGED stops

ProbeFails(s) == s \in objects /\ NotFound(s) /\ Fault

PruneOrphans ==
  /\ Goto("probe", "flag") /\ todo = {}
  /\ commitRefs' = {x \in commitRefs : x[1] \notin orphans}
  /\ orphans' = {}
  /\ UNCHANGED <<repository, commits, fts, derived, state, walk, pending, touched, todo,
                 at, marked, history>>

(* set_fts5_populated after a walk that brought commits.                   *)
FlagPopulated ==
  /\ Goto("flag", "backfill")
  /\ populated' = (populated \/ touched # {})
  /\ UNCHANGED <<repository, rows, derived, watermark, walk, loops, marked, history>>

(* backfill_fts_if_needed: nothing to do, or a loop over all commits.      *)
BeginBackfill ==
  /\ pc = "backfill"
  /\ \/ (populated \/ commits = {}) /\ pc' = "finish" /\ populated' = TRUE /\ UNCHANGED todo
     \/ ~populated /\ commits # {} /\ pc' = "copy" /\ todo' = commits /\ UNCHANGED populated
  /\ UNCHANGED <<repository, rows, derived, watermark, walk, pending, touched, at,
                 orphans, marked, history>>

CopyChunk ==
  /\ pc = "copy" /\ todo # {}
  /\ \E c \in SUBSET todo :
       /\ IsChunk(c, todo, BackfillChunk)
       /\ InsertFts(c)
       /\ todo' = todo \ c
  /\ UNCHANGED <<repository, commits, commitRefs, derived, state, pc, walk, pending,
                 touched, at, orphans, marked, history>>

EndBackfill ==
  /\ Goto("copy", "finish") /\ todo = {}
  /\ populated' = TRUE
  /\ UNCHANGED <<repository, rows, derived, watermark, walk, loops, marked, history>>

(* The last persist_watermark, and the run is over.                        *)
Finish ==
  /\ pc = "finish"
  /\ watermark' = wm
  /\ Forget
  /\ sync' = IF sync = "running" THEN "fresh" ELSE "stale"
  /\ stale' = stale \cup {t \in Tag : touched = {} /\ wm[t] # watermark[t]}
  /\ UNCHANGED <<repository, rows, derived, populated, torn, stops, lost, missed>>

-----------------------------------------------------------------------------
RepositoryStep == Gc \/ \E r \in RefName, s \in OptionalSha : UpdateRef(r, s)

RunStep ==
  \/ ListHeads \/ ListTags \/ (\E r \in RefName : WalkRef(r)) \/ WalkFails \/ EndWalk
  \/ PersistChunk \/ MarkChunk
  \/ (\E t \in Tag : PopulateTag(t)) \/ BeginReverts \/ TooManyVariables
  \/ (\E s \in Sha : FlagRevert(s)) \/ LinkRevert \/ EndReverts
  \/ (\E s \in Sha : ProbeCommit(s)) \/ PruneOrphans
  \/ FlagPopulated \/ BeginBackfill \/ CopyChunk \/ EndBackfill \/ Finish

(* A git that is killed and taken for one that found nothing.              *)
GitFails == (\E r \in RefName : WalkRefAnew(r)) \/ (\E s \in Sha : ProbeFails(s))

Next == RepositoryStep \/ BeginRun \/ Rebuild \/ RunStep \/ GitFails \/ Stop

Spec == Init /\ [][Next]_vars

(* A run that is not stopped goes on; the user runs `gitlore index` again. *)
FairSpec == Spec /\ WF_vars(RunStep) /\ WF_vars(BeginRun)

-----------------------------------------------------------------------------
RepositoryTypeOK ==
  /\ refs \in [RefName -> OptionalSha] /\ objects \subseteq Sha /\ changes \in Nat

IndexTypeOK ==
  /\ commits \subseteq Sha /\ commitRefs \subseteq commits \X RefName
  /\ fts \in [Sha -> 0..2]
  /\ tags \in [Tag -> commits \cup {NoSha}]
  /\ isRevert \subseteq commits /\ revertedBy \in [Sha -> OptionalSha]
  /\ watermark \in [RefName -> OptionalSha] /\ populated \in BOOLEAN

RunTypeOK ==
  /\ pc \in Location /\ incremental \in BOOLEAN
  /\ plan \in [RefName -> OptionalSha] /\ wm \in [RefName -> OptionalSha]
  /\ unwalked \subseteq {r \in RefName : plan[r] # NoSha}
  /\ walked \subseteq Sha \X RefName
  /\ pending \subseteq Sha /\ touched \subseteq commits
  /\ todo \subseteq IF pc = "populate" THEN Tag ELSE commits
  /\ at \in commits \cup {NoSha} /\ orphans \subseteq commits

TypeOK ==
  /\ RepositoryTypeOK /\ IndexTypeOK /\ RunTypeOK
  /\ marked \in BOOLEAN /\ torn \in BOOLEAN /\ stops \in Nat
  /\ sync \in {"stale", "running", "fresh"}
  /\ lost \subseteq Sha \X RefName /\ stale \subseteq Tag /\ missed \subseteq Reverts

(* Every commit that a resume from watermark map w would not walk again is *)
(* in rows.                                                                *)
Covers(w, shas) == \A r \in RefName : From(w[r]) \subseteq shas

(* "Persist the watermark after every chunk so a sigkill between chunks    *)
(* still leaves a usable resume point" (indexer.rs:630): between runs no   *)
(* commit below a persisted watermark is missing from commits, for nothing *)
(* would ever walk it again.                                               *)
ResumePointSound == pc = "idle" => Covers(watermark, commits)

(* The resume point is unsound only while a run that has persisted it      *)
(* still has commits pending, and after such a run was stopped.            *)
ResumePointSoundUnlessTorn ==
  ~torn => Covers(watermark, commits \cup IF marked THEN pending ELSE {})

(* When every walk fits into one chunk the pipeline keeps the promise that *)
(* ResumableIndex states: no step of a run, nor a kill between two steps,  *)
(* moves the watermark past a commit that has no row.                      *)
Promise == INSTANCE ResumableIndex WITH rows <- commits, mark <- watermark
ImplementsResumableIndex == Promise!Spec

(* What a run that ended well on a repository that has not changed since   *)
(* it started leaves behind: every reachable commit has a row, and its     *)
(* commit_refs row for each ref it is reachable from, by which --branch    *)
(* "restricts to commits reachable from the given ref" (filters.rs:138),   *)
(* or a probe took the commit for gone (cli.rs:346) and no walk of the ref *)
(* has brought it since; no orphan has a row.                              *)
MirrorsRefs ==
  sync = "fresh" /\ ~torn =>
    /\ Reachable \subseteq commits
    /\ \A r \in RefName : From(refs[r]) \X {r} \subseteq commitRefs \cup lost
    /\ \A x \in commitRefs : x[1] \in objects

(* The tags table names the commit every tag is at, whatever is rewritten, *)
(* moved or killed, but for the tags in stale until populate_tags writes   *)
(* them: those that moved when no commit was new (indexer.rs:235), and     *)
(* those a run that stopped had put into its watermark but not written.    *)
TagsCurrent ==
  sync = "fresh" /\ ~torn => \A t \in Tag \ stale : refs[t] # NoSha => tags[t] = refs[t]

(* "Hits set commits.is_revert = 1 and back-link commits.reverted_by_sha   *)
(* on the target commit" (indexer.rs:28): after a run that ended well every *)
(* indexed revert is flagged and every ancestor it names is linked, but    *)
(* for reverts whose run stopped in between, until a run persists them     *)
(* again and gets to them.                                                 *)
RevertsLinked ==
  sync = "fresh" /\ ~torn =>
    \A s \in (commits \cap Reverts) \ missed :
      /\ s \in isRevert
      /\ \A t \in Trailer[s] \cap History[s] : revertedBy[t] \in Reverters(t)

(* "The fts5_populated flag is reset to 'false' so the indexer's backfill  *)
(* code re-inserts from commits" (0004_fts5_rebuild_with_content.sql:11):  *)
(* once a run has ended well and the flag is 'true' every commit is in     *)
(* commits_fts.                                                            *)
SearchableWhenReady == sync = "fresh" /\ populated => \A s \in commits : fts[s] > 0

(* The rows a full walk would write are written: once the repository is at *)
(* rest, every stopped or outdated run is followed by one that ends well.  *)
CatchesUp == []<>(sync = "fresh")
=============================================================================
