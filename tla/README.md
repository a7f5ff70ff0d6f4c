# gitlore: a verification project

TLA+ modules that model gitlore, a Rust program that indexes a git repository's
history into SQLite and searches it, with TLC runs and TLAPS proofs about them.
Paths below are relative to `src/`; `core` is `crates/gitlore-core/src` and `cli`
is `crates/gitlore/src`.

## 1. Inventory of the system

gitlore has no daemon. Every command is a short-lived process; processes of the
same or different users meet in the index directory (a SQLite database in WAL
mode, the lockfile, the log), and in the git repository, which users change at
any time. That is where the hard behaviour comes from.

| component | state it keeps | operations | hard behaviour |
|---|---|---|---|
| writer lock, `core/index/lock.rs` | flock on an inode, lockfile at a path, PID in its body | `acquire` (Wait, NoWait), stale-PID reclaim, `Drop` | path and inode differ; crashes between any two system calls; PID reuse; blocked waiters |
| indexing pipeline, `core/index/indexer.rs`, `core/git/refs.rs` | `commits`, `commit_refs`, `commits_fts`, `tags`, revert columns, `index_state` | `run_initial`, `run_incremental`, `rebuild`, `dry_run` | a sequence of transactions with kills between them; the repository moves meanwhile; derived tables depend on what the same run brought |
| schema, migrations, `core/index/schema.rs`, `core/index/migrations` | `schema_version`, tables, `index_state` keys | `open`, `migrate`, readiness checks | one transaction per migration; readers and newer binaries meet intermediate versions |
| identity resolution, `core/index/identity.rs` | `identities`, `identity_aliases`, an in-memory cache of both | load, resolve, merge, override, mailmap | each statement commits by itself; the cache is kept by hand; files edited between runs |
| search, `core/search` | none of its own; reads the index | SHA lookup, lexical query, filters, ranking | several statements against an index a writer changes; limits before filters |
| git provider, `core/git/cli.rs` | subprocesses | log, diff, ref listing, object probe | timeouts, lost objects, partial output |
| log rotation, `core/log.rs` | log file and numbered backups | write, rotate | several processes rename the same files; a rotation that fails half-way |
| index location, `core/index/storage.rs` | directories | probe, fall back | probing writes to disk |
| classifier and reclassification, `core/index/classify.rs`, `reclassify.rs` | `commit_files.class` | classify, reclassify all rows | a rewrite of the index under the writer lock |
| terminal UI, `cli/tui` | mode, query, results, selection, loaded diff | key dispatch, search, selection, diff loading | loaded data outlives the selection it was loaded for |
| command line, output, configuration, errors, reports | none | parsing, rendering, layered merge | text processing |
| evaluation harness, `crates/gitlore-eval` | none | metrics, scenarios | floating point |

How they interact: `cli` opens the index (location, migrations), takes the writer
lock for everything that writes, and calls the pipeline, which reads git through
the provider, resolves identities, classifies paths and commits rows. Search and
the terminal UI open the database read-only, at any time, without the lock. The
kernel's flock, SQLite's transactions and `index_state` are the only means of
coordination.

What makes the parts correct:

- writer lock: at most one holder; no lock leaks, whatever fails; NoWait returns;
  waiters are served.
- pipeline: the watermark never passes a commit without a row; a run that ends
  well leaves exactly what git has; derived tables (tags, reverts, full text) agree
  with the rows; repeated runs catch up with a repository at rest.
- migrations: whatever step a crash hits, the next open continues from a version
  whose tables exist; a reader never sees half a migration.
- identities: an address leads to one canonical row; the cache is what a reload would
  give; persisted decisions are stable across runs.
- search: an answer below its limit has every matching commit that was indexed when
  readiness was checked; the limit costs only the weakest matches; asking again loses
  nothing.
- git provider: an answer is all that git printed; output never makes git time out; every
  call returns.
- index location: what a run reported is what the next command reads.
- terminal UI: selection within the results; the diff shown is the selection's.
- log rotation: files keep their cap, and only the oldest lines are lost.

`PROJECT.json` lists every hazard at its line.

## 2. Modules

State machines, each with its MC module, runs and proofs:

| module | role |
|---|---|
| `WriterLock`, `MCWriterLock`, `WriterLockProofs` | the lock, one action per system call of `acquire` and `Drop` |
| `Indexer`, `MCIndexer`, `IndexerProofs` | the pipeline, one action per transaction or git call |
| `ResumableIndex` | what the pipeline promises of its resume point; `Indexer` refines it |
| `IndexStore`, `MCIndexStore`, `IndexStoreProofs` | directory, lock, migrations, rebuild and readers: which database a command works on |
| `Identity`, `MCIdentity`, `IdentityProofs` | phase 2 of the pipeline, one action per SQL statement |
| `SearchQuery`, `MCSearchQuery`, `SearchQueryProofs` | searches, one action per SQL statement, beside a writer |
| `GitProvider`, `MCGitProvider`, `GitProviderProofs` | one call of git after another: process, pipes, threads, deadline |
| `LogRotate`, `MCLogRotate`, `LogRotateProofs` | the rotating log, one action per file operation |
| `SearchTui`, `MCSearchTui`, `SearchTuiProofs` | the event loop, key dispatch and search mode of the terminal UI |

Pure algorithms, as operators that an MC module evaluates against a reference
definition or a stated law over all inputs of a small domain (`ASSUME`s, which TLC
evaluates when the run named here starts):

| module | code | evaluated in | run |
|---|---|---|---|
| `GitText` | formats of `git log`, mailmap answers, ref listings (`core/git/cli.rs`, `mod.rs`, `refs.rs`) | `MCGitProvider` | `git_provider` |
| `Classification` | classifier, counters, `reclassify_all`, report | `MCClassification` | `index_store` |
| `Config` | layered configuration | `MCConfig` | `index_store` |
| `CommandLine` | dispatch, streams, exit codes, error codes, dates and cells | `MCCommandLine` | `index_store` |
| `SearchFilters` | timestamps, clauses and placeholders, phrases | `MCSearchFilters` | `search` |
| `ExpandedText` | the column `expanded` | `MCExpandedText` | `search` |
| `Evaluation` | metrics, registry and fixtures of `gitlore-eval` | `MCEvaluation` | `search` |
| `Terminal` | keymap overrides, help overlay, choice of the theme | `MCTerminal` | `tui` |

How they fit together: `IndexStore` has the steps of `WriterLock`, without PID reuse and
stamps that fail, since it is through them that two processes may get to write to one
directory, and takes a run as "the head it saw", which `Indexer` details; `Identity` is the phase between
`Indexer`'s walk and its chunks; `SearchQuery` has a coarse writer with the migrations,
chunk, flag and backfill of `Indexer`; `GitProvider` is what each git call of `Indexer`
is made of; `SearchTui`'s `Submit` is one whole query of `SearchQuery`.

### WriterLock

`acquire` opens a *path* and locks an *inode*; the reclaim and `Drop` remove the
path. So the model keeps `link` (inode the path names), `file` (inode each process
has open), `owner` (flock) and `payload` (PID in the body) apart. `pc` is the place
in `acquire`, the critical section or `Drop`; each value is a point where another
process can run, because the next thing is a system call. `parse_lockfile` reads
the path and not the handle, and `Recorded` says so. `Start` begins a call (a new
process, a second acquisition by the same one, a process with a recycled PID),
`Terminate` ends a process anywhere; with `FlockOutlivesCrash` the kernel releases
the lock later (`KernelRelease`), which lock.rs reports of macOS. `split` is a
history variable: some `remove_file` took the path away from a file that another
live process had open.

Left out: the timestamp in the payload, the fields of `LockContention`, errors of
`open` and `flock` other than contention (a failing call returns like
`ParseNoWait`, with nothing held), and `wal_checkpoint_if_large`, which keeps no
state of its own.

### Indexer

The state is in four groups: the repository (`refs`, `objects`), which `UpdateRef`
and `Gc` change at any moment; the rows of the index, which a crash keeps; the
variables of the run, which `Forget` drops; and history variables for the
properties. A commit is its SHA and `History[s]` the set that `git log` walks from
it. The actions follow `run_index`, `run_initial` / `run_incremental` and
`walk_and_persist` in order:

| `pc` | actions | code |
|---|---|---|
| idle | `BeginRun`, `Rebuild` | dispatch on `has_watermark`; database removed and migrated anew |
| heads, tags | `ListHeads`, `ListTags` | the two git calls of `enumerate_refs` |
| walk | `WalkRef`, `WalkRefAnew`, `WalkFails`, `EndWalk` | phase 1, one `git log` per ref; a git killed while it looks for the watermark's commit starts the walk anew |
| chunk, mark | `PersistChunk`, `MarkChunk` | phase 3: a transaction, then `persist_watermark` |
| populate | `PopulateTag`, `BeginReverts`, `TooManyVariables` | `populate_tags`; the SELECT of `detect_reverts` |
| reverts, link | `FlagRevert`, `LinkRevert`, `EndReverts` | the UPDATEs of `detect_reverts` |
| probe | `ProbeCommit`, `ProbeFails`, `PruneOrphans` | `force_push_retention`, one git call per commit, and the transaction after it; a git that is killed answers "not there" |
| flag, backfill, copy | `FlagPopulated`, `BeginBackfill`, `CopyChunk`, `EndBackfill` | `set_fts5_populated`, `backfill_fts_if_needed` |
| finish | `Finish` | the last `persist_watermark` |

`Stop` ends a run between any two of these: SIGKILL, a failing subprocess or
statement, or the panic of `&paths[..2048]` (indexer.rs:583) when byte 2048 is not
a character boundary. A `git cat-file -e` that is killed does not end the run:
`cat_file_exists` takes every failure for a missing object (git/cli.rs:346-349), and
`WalkRefAnew` and `ProbeFails` are what its two callers make of that.

Three history variables name what the code leaves undone, so that the properties can
except exactly that. `lost` has the `commit_refs` rows of commits that a probe did not
find, until a walk of the ref writes them again; `stale` the tags that a run passed over,
because it brought no commit (indexer.rs:234) or ended before it wrote them, until
`populate_tags` does; `missed` the reverts of a run that ended between their chunk and
`LinkRevert`, until a run persists them again and gets there.

What is abstracted: rows hold their key and what the properties tell apart;
`commits_fts` has no key, so `fts` counts rows, and 2 stands for "several"; the
order of commits in a walk comes from dates and names, so a chunk is any subset of
the right size; the trailer match of a revert (SHA prefix, not itself, within 30
days) is the constant `Trailer`; identity resolution is left out of the
transaction. There is one run at a time, as the writer lock intends.

`ResumableIndex` says what the pipeline promises of its resume point: rows are
added, and the watermark moves only onto commits whose whole history has rows.

### SearchTui

One iteration of `run` (app.rs) draws and then polls for a key; `phase` alternates,
and a third phase, "show", is the time inside `git show`. A key goes through
`Keymap::dispatch` (`NavAction`, `InputAction`, with the rebindable characters as
constants) to an action of `app.rs` or of `SearchState::handle_action`. Rows count
from 1 and 0 is `None`. `Submit` is all of `run_search`: no index or one that cannot
be opened (`NoAnswer`, the list stays), an answer, which may have no hits, and an
error of the query (`SearchFails`). `MoveTo` is `set_selected`. The query is a
sequence of characters and the cursor a byte offset, as in the code, because
`String::insert` panics between two bytes of a character. `answered` is a history
variable: the query whose answer the list is.

Left out: `total_available`, which is only printed; `diff_scroll`, which nothing
moves; and the text of errors. Keys with Ctrl, other events and the 100 ms timeout
are `Tick`. No key moves the cursor at this commit, so it is at the end of the query
whenever a key is read, and `CursorOnBoundary` is about what the keys that edit make of it.

### IndexStore

A directory names a database file and a lockfile; a file that is deleted lives on for the
processes that have it open. A command goes through `Resolve` (`Location`,
storage.rs:86-110), the writers through the lock, `OpenDatabase`, `ReadVersion`, one step
per migration and the walk, `persist` and report of a run.

The lock is `OpenLock` (the name), `Grant` (the flock of the file that is open), or for a
caller that may wait `WouldBlock`, `Probe` (the PID in the file that has the name by then),
`Reclaim` and `OpenLock` again, or the blocking flock, which is a `Grant` later; then
`Stamp`. A run that ends unlocks (`Leave`) and removes the name in a step after that
(`Quit`), and so does a `rebuild`: `LetGo` unlocks, `Free` removes the name of the
lockfile, `Unlink` those of the database, and then it opens the lock like a run that does
not wait (indexer.rs:262-292). A process that waits for the old lockfile may be granted it
in between, whoever removes or creates names afterwards. `split` remembers that a lockfile
was created while another process had an older one of the directory open, as long as one
is open at all.

Readers differ as the code does: `status`, `identities` and
`classify` test for the file, `search` opens it and fails. Two binaries know different
numbers of migrations. The user commits and changes the permissions of the git common
dir at any time; `Kill` ends a process anywhere. `promised` is what the last successful
run reported for a directory (of those that promise anything, see section 4), `expect` what a reader may count on, `overtook` marks a run
that took the lock while a rebuild was about to delete.

Left out: PID reuse and failing stamps (`WriterLock` has them), the name of the XDG
directory, the SQL of the migrations, WAL and shm as files of their own.

### Identity

`Resolve` takes the next pair of a commit, and the actions after it follow
`ChainedResolver::resolve`: `OverrideHit` and `MailmapHit` with `RecordAlias` are the two
curated layers; `FuzzyPair`, `FuzzyEmail` and `FuzzyName` with `TouchMerged` are the
union-find by pair, by address and by name in a time window; `FuzzyMiss` with `RecordNew`
is the insert of a new identity. `Persist` writes the ids to the commit rows. An upsert,
an alias insert and a touch are statements of their own, and a run may be killed between
any two. The user edits `.mailmap` and `identities.toml` between runs, git may stop
answering, and the clock moves.

The cache is built and kept by the same helper in the code (`Entered`). The Vec of a name
holds identities without duplicates, so `byName` maps a name to its identities, each with
its place. `Stored` lists the rows that `hot_load` reads, and `HotLoad` is what it makes of
them: the last row of a pair wins, the first of an address, and a name has every identity
it occurs with. TLC compares that with attaching the rows one after the other.
Normalisation of names and recognition of bots and noreply addresses are constants, given by
a table of written forms. `Curated` says that an override or the mailmap answers for a
pair, `Contested` that such an answer touches an address.

### SearchQuery

`CheckReady`, `ShaLookup`, `RefuseQuery`, `Match` and `Rank` are the statements of one
query in the order of orchestrator.rs, with the limits of cli.rs before them and the score as
integers. The writer migrates step by step (0004 strips `commits_fts`), persists chunks,
sets the flag, backfills, and is killed. `settled` is the set of commits that had rows
when readiness was read; `stripped` and `early` remember an index that 0004 stripped and
one whose flag was then set before the backfill.

### GitProvider

`Spawn`, the polls (`Sleep`, `Reap`, `GiveUp`, `Kill`), `JoinOut` and `JoinErr` are the
caller; `Read` and `SeesEnd` the two threads; git writes to its pipes, exits, hangs or is
killed, and may leave a process behind that keeps the pipes open. Time passes only for a
git that stands still: a git that is slow and one that hangs are the same to the code,
and `Script` calls both "hangs". A read of a pipe does not fail in the model: `drain`
ignores such an error and returns what it had (cli.rs:184-189), so an answer would be cut
short then, and `AnswerFaithful` says nothing of that.

### LogRotate

`CheckSlot` and `MoveSlot` are the `exists` and the `rename` or `remove_file` of each slot,
`Reopen` the new active file, `Append` the write. Every operation may fail (`Fault`
disturbances) and a process may end anywhere. A file keeps its identity when it is
renamed, so a second writer goes on appending to it; `bytes` is what `metadata().len()`
says of it, and `counted` what a writer believes; `shared` remembers that two writers
have run at the same time. main.rs does not install this writer at this commit: the model is
of the library as its callers may use it.

## 3. Runs

| run | constants that matter | what it shows |
|---|---|---|
| `lock_safety` | 3 processes, 3 inodes, everything allowed | type invariant, `OwnerIsHolder`, `ExclusiveUnlessSplit` |
| `lock_progress` | 3 processes that acquire once | `NoWaitReturns` whatever holders do; `WaiterServed` when each holder lets go |
| `index_rows` | chunks of one commit, three changes, a kill of the run or of a git it calls, a statement limit that is exceeded | type invariant with the foreign keys, `ResumePointSoundUnlessTorn`, `MirrorsRefs`, `TagsCurrent`, `RevertsLinked` |
| `index_onechunk` | walks of one chunk, two changes, a kill of the run or of a git, an index from before migration 0004 | `ResumePointSound`, refinement of `ResumableIndex`, `CatchesUp` |
| `index_resume` | chunks of one commit, one kill | violation of `ResumePointSound` |
| `index_upgrade` | an index from before migration 0004, one change, no kill | violation of `SearchableWhenReady` |
| `index_store` | two binaries, one of which knows a migration more, three commands that may wait for the lock, a kill or a change of permissions, heads up to 2 | type invariant, `WritesOwnSchema`, `PromiseKept`, `AnswersKeepPromise` |
| `identity` | five written pairs in three commits, two runs, one disturbance | type invariant, `FuzzyMergesEmails`, `NoreplyStandsAlone`, `CacheMirrorsTables`, `RowsNameAliases`, `CuratedBotStays` |
| `search` | three commits, indexes of every age, a chunk and a kill, limits below, at and above the number of matches | type invariant, `CompleteUnlessUpgraded`, `StrongestKept`, `NeverForgets` |
| `git_provider` | pipes of one chunk, a deadline two polls away, up to three chunks in any order | type invariant, `AnswerFaithful`, `TimeoutOnlyIfHung`, `CallReturns` |
| `log_rotate` | two writers, two slots, records of one or two units and a cap of two | type invariant, `Capped`, `OldestGoFirst` |
| `tui` | two commits, lists of up to three rows with duplicates, a two-byte character, pages of two rows | type invariant, `DiffOfSelection`, `SelectionInHits`, `HitsAnswerQuery`, `CursorOnBoundary` |

Bounds. Three processes are the least that lose mutual exclusion (one lets go, one
has the old inode open, one creates the new file), and a process has one inode
open at most, so three inodes never run out. Two or three repository changes and one
stop put a change or a kill before, inside and after every phase of a run, and a
complete run follows; three changes are the least that delete a ref, prune its
commits and create it again. Three commits in two lines (1-2, 1-3) have a rewrite, a
shared ancestor and, with chunks of one, a walk of two chunks; a run that brings all
three exceeds `MaxVariables` of `index_rows`, one that brings two does not. `MaxStops`
counts kills of a run and of a git together. `MaxChanges` and `MaxStops` are the only
bounds on length: runs themselves are not counted.

Lists of three rows have a first, a last and a row between, so that paging clamps at both
ends; two commits suffice for a diff to be the wrong one. `MaxQuery` bounds the query:
two characters, one of them of two bytes, put the cursor at every kind of offset.

Two writers and a retention of two give a rotation that removes, shifts and promotes;
five files are all that two slots, the active file and two stale handles can hold, and
five records fill every slot once more than it holds. Two processes and three commands put a
writer, a rebuild and a reader on one directory in every order; a rebuild and one that
waits for its lockfile are enough to split the lock, and three processes at the lock
are in `lock_safety`. `MaxAccidents` counts kills and changes of permissions together. Four
lockfiles are the two that have a name and one per process besides. One chunk, one kill and any age of the
index before them reach every state of the flag and of the rows between two statements of a
query. Three commits with five written pairs contain a name shared by two addresses, an
address in two spellings, a noreply address, a bot and an empty address; a second run
reloads what the first left. A pipe of one chunk blocks git at its second write, which is
what a full 64 KiB pipe does.

Fairness. `WriterLock!FairSpec`: a process runs on inside `acquire`, the kernel
grants a lock that stays free and releases those of dead processes. Nothing makes
a holder let go: `WaiterServed` assumes it, in its formula. Acquisitions are
finitely many there, since flock promises no order among waiters and a process that
acquires for ever could starve another. `Indexer!FairSpec`: a run is sequential
code and goes on unless it is stopped, and the user runs `gitlore index` again.
`CatchesUp` needs no fairness of the repository: its changes are bounded.
`GitProvider!FairSpec`: the caller and its two threads are scheduled, and git runs on until
it hangs or ends; nothing makes a process that git left behind end, and `CallReturns`
names that case. The other modules have safety properties only.

Deadlock is not checked where processes acquire once, for then they all may end, nor
for the UI, which ends when the user quits, nor where runs, commands or records are counted by
a bound.

## 4. What the models show of the code

### The runs that are meant to fail

`index_resume`. Phase 1 sets the whole watermark map to the tips; phase 3 persists
it after every chunk. A kill after the first of several chunks leaves the
watermark above commits that have no row, and later runs start above them. With
one chunk per walk there is no such window (`ResumePointSound`, proved).

`index_upgrade`. Migration 0004 empties `commits_fts` and sets `fts5_populated` to
'false' "so the indexer's backfill code re-inserts from commits". A run with one new
commit sets the flag (indexer.rs:241-243) before `backfill_fts_if_needed` reads it: the
backfill does nothing, the run ends well, and the older commits stay out of full-text
search for good. Only a run that brings no commit fills it.

### Provisos of the passing runs

A property of a passing run that says "unless" names a case in which the code does lose
what it promises. Each is a reachable behaviour of the model:

- `ExclusiveUnlessSplit`. `Drop` unlocks and then removes the path (lock.rs:100-118). A
  process that opened the old file before the removal gets its flock; a third
  creates a new file at the path and locks that. Both hold the writer lock, which
  the module comment rules out.
- `MirrorsRefs`. The rows in `lost`: a `git cat-file -e` that is killed reads as a missing
  object, so `prune_orphans` deletes the `commit_refs` of a commit that exists, in a run
  that ends well; and a ref that is deleted, pruned and fetched again at the commit its old
  watermark names is not walked (indexer.rs:435), though its rows were rightly deleted. Either
  way nothing walks the ref again until it moves, and then only what is new.
- `TagsCurrent`. The tags in `stale`: `run_incremental` processes tags only when it brought
  commits (indexer.rs:234), so a tag that is moved to an indexed commit keeps its old row
  until some later run brings one; and a run that ends after it has persisted its
  watermark and before `populate_tags` leaves them to such a run as well.
- `RevertsLinked`. The reverts in `missed`: `detect_reverts` looks at the commits of its own
  run, so a kill after their chunk, or more commits than SQLite binds in one statement
  (indexer.rs:691), skips them until a new ref or a rewrite has them walked again.
- `CompleteUnlessUpgraded`. The case of `index_upgrade`; and a search by a new binary on an
  index of version 3, not migrated yet, silently finds nothing.
- `WritesOwnSchema`. `Drop` unlocks before it removes the name (lock.rs:105-114). A process
  that waits for the lockfile gets it in between, `rebuild` creates another for itself, and
  the two write to one database: a newer binary then migrates it under an older one, which
  AC-IDX-10 is to exclude. Until a lockfile has been split in this way it does hold, in the
  gap of a rebuild too.
- `PromiseKept`. `rebuild` lets the lock go before it deletes the database
  (indexer.rs:262-280). A run that takes the lock in between fills a file that is then
  deleted, and reports success. If that run opened the new lockfile, the rebuild finds it
  locked and fails with lock_contention; if it had waited for the old one, the rebuild
  goes on beside it. What a run reports while a lockfile is split is not promised
  either, since a rebuild by another holder may be deleting it.
- `AnswersKeepPromise`. Every command, also one that reads, probes the git common dir by
  writing to it (storage.rs:84-110). When its permissions change, later commands use
  another directory and the index is split in two.
- `CallReturns`. A process that git leaves behind with the pipe open (a credential
  helper, a daemon) keeps the joins waiting; the deadline does not cover them.
- `Capped` and `OldestGoFirst`. With several writers one goes on appending to a file that
  another has renamed, so a file may reach one cap per writer, and the order of
  the records is lost. With one at a time both hold, whatever fails.
- `FuzzyMergesEmails`, `NoreplyStandsAlone`, `CacheMirrorsTables` hold while the union-find
  answers alone. A mailmap answer is upserted by its exact address and does not look at
  the cache, so one address in two spellings may get two identities. `RowsNameAliases`
  holds while the files stay as they are: after an edit of `.mailmap` commits get a new
  id and the alias keeps the old one (INSERT OR IGNORE). It also leaves out the uncurated
  pairs of an address that a curated answer touches: when the override of ("Ann", "A@x")
  leads to bot@x, its alias is the newest row of the normalised pair after a reload
  (identity.rs:325) and answers for ("ann", "a@x"), whose own alias keeps its first id.
  The third override file of the run has such an entry. `CuratedBotStays` needs every
  pair of the address to be declared, since an upsert by mailmap writes is_bot = 0.

That each of the three exceptions of `index_rows` is needed was checked with TLC: without
`lost`, `MirrorsRefs` fails even with no kill at all, and so does `TagsCurrent` without the
tags of runs that brought no commit, and `RevertsLinked` without the reverts of an exceeded
statement limit; a kill needs the rest.

### Where code and comments differ

Index and lock:

- `commits_fts` has no key, so `INSERT OR REPLACE` adds a row (indexer.rs:1177): a new
  branch or tag on indexed commits has no watermark, is walked in full, and doubles their
  rows, which the module comment calls an overwrite (indexer.rs:21-24). In `SearchQuery`
  the copies take places below the LIMIT of a search.
- A Wait call may fail with `enoent` or `would_block` when another process takes the path
  between its probe and its removal, and it may remove the lockfile of a holder that has
  locked but not yet stamped (lock.rs:199-216).
- `dry_run` says that it works "without touching the database", but opening the index
  migrates it.
- The expanded column is cut by what is added to it, not by its length, and its
  "path components" are never split at `/` or `.`, which no identifier contains.
- `reclassify_all` is called by no command; the report of `classify --explain` says that an
  exact match wins, but counts with `LIKE`.

git:

- `--name-status` switches `--numstat` off, so insertions and deletions are always 0 in the
  index (`CountsByPath`).
- A field separator in one message fails the walk of all commits; an end marker cuts the
  message (`ControlCharactersInBodies`). Output that stops in the middle of a record is read
  as a shorter history (`CutLogIsAccepted`).
- `cat_file_exists` takes a git that was killed for a missing object (`ProbeFails`); the trait
  it implements (git/mod.rs) asks whether the object exists.
- `classify` runs `git ls-files` without a deadline, relative to the current directory.

Search:

- `1 / (1 + |bm25|)` "flips and normalises" (orchestrator.rs:197-198), but gives better
  matches a lower share of the score. The LIMIT before it keeps the right rows, in spite of
  the comment on the sign of bm25() at lexical.rs:203 (`StrongestKept`).
- The branch filter reads a column that `commit_refs` does not have and drops every hit
  (orchestrator.rs:239); author, path, since and until exclude nothing
  (orchestrator.rs:306); a ref given to `--since` is refused, for no provider is passed; and
  with one every date would be, since `rev_parse` reports another error than the fall-through
  expects (filters.rs:197, git/cli.rs:232).
- `total_available` is counted after the LIMIT, and is 2 for an ambiguous SHA. An ambiguous
  prefix ends with code 0 and two hits, though cli.rs:392 says 2. A word of hex digits, such as
  "decade", never reaches full-text search. The configured limits are not read.

Command line and terminal UI:

- Only a search uses the envelope that output/json.rs describes for every response, and
  errors carry no `schema_version`.
- `run_git_show` waits for git with `cmd.output()` on the UI thread and then calls
  `recv_timeout` on a channel that has its message already: the deadline that the comment
  promises (diff.rs:149-151) cannot fire.
- A search without hits, or one that fails, leaves the diff of the previous selection
  loaded and on the screen (search.rs:225-240); `DiffOfSelection` speaks only of frames
  with a selected row.
- The help overlay ignores the keymap, lists keys as global that the input bar does not bind,
  and an Enter that does nothing. Clashing overrides are accepted, though config/mod.rs:330
  promises an error. If a step after raw mode fails, the terminal stays raw (cli.rs:917-927).

## 5. Proofs

Every invariant and action property that a passing run checks is also a theorem, for every value
of the constants that the named assumptions of the modules allow; liveness is not. Each
theorem rests on an inductive invariant that TLC had checked on the run first.

What the assumptions ask for beyond types: the ancestors of a commit include
it and theirs, and no two commits are each other's ancestors (`HistoryAssumption`); commits,
refs, files of the index directory and log writers are finitely many; sizes, caps and the
deadline are not 0; a pipe has room for a chunk; and migration 0004 is the fourth or a later
one.

`WriterLockProofs`, for any sets of processes and inodes:

- `TypeCorrect`: `Spec => []TypeOK`.
- `NoLockLeak`: `Spec => []OwnerIsHolder`. Inductive with facts about where a handle
  is open: a process in the middle of `acquire` has one, and owns nothing yet.
- `ExclusionUnlessSplit`: `Spec => []ExclusiveUnlessSplit`. As long as no path was
  taken from an open file, every open file of a live process is the one the path
  names; two holders then have the same inode open, and its owner is one process.

`IndexerProofs`, for every finite set of commits, every history, every set of refs and
every chunk size:

- `TypeCorrect`: with the foreign keys of `commit_refs`, `tags` and the revert columns.
- `ResumePoint`: `Spec => []ResumePointSoundUnlessTorn`. The invariant `IInv` adds
  `Clean` (outside a run its variables are empty), `Settled` (in which phases commits
  may be pending) and `WalkSound` (the run's map is covered by rows, pending commits
  and refs not walked yet). It is needed because the watermark is copied from a map
  that phase 1 built much earlier.
- `ResumePointOneChunk` and `Refinement`: under `OneChunk` (no walk is larger than a
  chunk), `ResumePointSound` and the implementation of `ResumableIndex`. `Whole` adds
  that after a chunk nothing is pending.
- `Mirrors`: `Spec => []MirrorsRefs`. `Noted` says that below an entry of the watermark,
  and of the map of the run, every commit is noted for that ref: in `commit_refs`, with the
  pending commits, or in `lost`. `Orphaned` says that the rows of what
  `force_push_retention` did not find are in `lost` before they are deleted, and `InSync`
  what the run knows of a repository that nobody has changed since.
- `Tags`: `Spec => []TagsCurrent`. `TagRows` says that a row of `tags` is where the
  watermark says, unless the tag is in `stale` or the run has still to write it.
- `Reverted`: `Spec => []RevertsLinked`. `Closed` says that rows come with those of their
  ancestors, the pending ones counted in; `RevertRows` that every revert with a row is
  flagged and linked, unless it is in `missed` or the run has still to get to it.

None of the last three has a hypothesis: kills of the run and of git, rewrites, moved tags,
commits that come back and the statement limit are steps the proofs go through.

`SearchTuiProofs`, for any commits, characters, widths, bindings, page size and limit:

- `TypeCorrect`, `DiffIsSelected`, `SelectionValid`, `ListAnswers` and
  `FocusStaysInSearch` (the input bar is focused in search mode only; no run checks it).
  `DiffOfSelection` alone is not inductive, for the cache changes while no frame is up:
  `Cached` relates it to the selected row in every phase and `Loaded` says that no frame
  appears before its diff.
- `CursorBetweenCharacters`: `CursorOnBoundary`. The offset is a sum of widths along the
  query, so this needs that the recursive function `Bytes` exists (`BytesAdd`) and
  what it gives for an appended character (`BytesOfAppend`), both by induction.

`IndexStoreProofs`, for any processes, versions of the binary per process, files and bounds:

- `TypeCorrect`: a process has a lockfile open in the steps of acquire, of a run and of
  `Drop`, and a database in those of a connection.
- `OwnSchema`: `Spec => []WritesOwnSchema`. Neither this nor the next is inductive. That the
  lock is exclusive is not assumed but proved, as far as it is: a lockfile has one holder
  (`OneHolder`), and while it is not split all who have one of a directory open have the
  same (`OneLockfile`), which is the one with the name, if there is one (`OnPath`); so two
  holders are one process (`Exclusive`). `NamesDiffer`, `OwnName` and `OneDir` (a file has at
  most one name, in the directory of who writes to it) keep the directories apart, and
  `Migrating` ties the version `migrate` read to the file.
- `ReportsLast`: `Spec => []PromiseKept`. `Overtaken` says that whoever works while a
  rebuild is about to delete took the lock in its gap, unless the lockfile is split, `InPlace` that all others write to
  the file with the name, `Filled` that a run reports what it has written.
- `AnswersLast`: `Spec => []AnswersKeepPromise`, if every binary has the migration of
  `is_bot`, as both binaries of the run have. `Schemas` says that what is promised lies in a
  schema that readers know, `Serving` where a reader that was promised rows finds them in
  each of its steps: in the file with the name until it opens it, in its own handle after
  that, although a rebuild may have taken the name away.

`Created` asks for a file that no directory and no process has in use. On a real file
system there always is one, and `File` of the run is large enough.

`IdentityProofs`, for every history, `.mailmap`, `identities.toml`, normalisation, window
and number of runs: `TypeCorrect`, `BotStays`, `MergesEmails`, `NoreplyAlone`,
`CacheMirrors` and `RowsFollowTables`, which are the six properties of the run. The
invariant has four parts, each proved with the help of those before it. `Typed` has the shapes, the
UNIQUE constraints and whose turn it is. `Steady` says that the overrides of a run
are those of the file, `Past` that no row was seen after now. `Sound` relates tables, cache
and answers: a *row* gives a pair to an identity, as its own name and address or as an
alias; rows with the same lowercase address give it to one identity (`OneId`); each map of
the cache has what the rows say, but for an identity that is new in the table and not
yet in the cache (`PairMirror`, `EmailMirror`, `NameMirror`, `TouchMirror`); an id that was
found for a pair is the alias of the pair, or that of its normalised form (`Answers`). A
curated answer may give an address to several identities, which is why `Sound` speaks of
all addresses only as long as the union-find answers alone, and otherwise of those that no
curated answer touches. What a reload gives comes from lemmas about `Min` and `Max` of the
places in `Stored`.

`SearchQueryProofs`, for every set of commits, texts, requests, limits and versions:

- `TypeCorrect`; `Complete` (`CompleteUnlessUpgraded`); `Strongest` (`StrongestKept`);
  and the action property `Forgets` (`NeverForgets`).
- The invariant adds `Indexed` (what 0004 has stripped is back before the marker says so,
  or a run has set the marker early), `Ready` (the commits of the readiness check can be
  matched by every later statement), `Selected` (what a full MATCH left out is weaker than
  all it kept) and `Kept4` (the hits of an answer stay where a later search finds them).

`GitProviderProofs`, for every set of scripts git may follow, pipe capacity and deadline:
`TypeCorrect`, `Faithful` (`AnswerFaithful`) and `NoFalseTimeout` (`TimeoutOnlyIfHung`). The
type invariant has the conservation of chunks: what was read, what is in the pipe and
what git has still to write are what it writes in all. `ChunksTail` says how a write moves
one; `Drained` that a thread is done only when nothing can come any more, so that an answer
after both joins has it all; `Timed` that only a git that hangs lets time pass.

`LogRotateProofs`, for any writers, files, caps, numbers of slots and sizes of records:

- `TypeCorrect`; `OldestFirst` (`OldestGoFirst`).
- `CapKept`: `Spec => []Capped`. For writers in turn, `Counts` says that the running one
  knows the length of its file, `Youngest` that this is the youngest file, wherever a
  rotation that failed has left it, and `Rotating` that the slot above the one it has come
  to is empty. For writers at the same time no writer knows the length of its file. The
  bound comes from `Shared`: the bytes of a file lie in different cells, of which each
  writer has as many as the cap, and a writer fills those after its own count. It never
  comes back to a file that left the active slot, so it does not fill a cell twice.

Not proved and left to TLC: `CatchesUp`, `NoWaitReturns`, `WaiterServed` and `CallReturns`,
since liveness is out of the prover's reach; and the laws of the pure algorithms, which
are evaluated over the domains their MC modules give. Induction is used in two proofs, over
sets: a set of numbers has a least element (`LeastNatural`), because finite subsets are
well-founded, so a set of strings that contains the empty one, and each whose tail it
contains, has them all (`SequencesOf`).

## 6. Plan

The lock and the pipeline came first, then the UI, then the parts that meet in the index
directory, then the proofs of their properties. What is left, in this order:

1. An abstract specification of what readers are promised, as `ResumableIndex` is one of the
   resume point, implemented by `IndexStore` under the proviso of `AnswersKeepPromise`.
2. One of rotation, a queue of records that loses its oldest ones, implemented by
   `LogRotate` for writers in turn: `OldestGoFirst` says it of states, not of steps.
3. Laws of the pure algorithms as theorems, with the induction of `SequencesOf`: the parsers
   of `GitText` and the precedence of `Classification` first. Those written with
   RECURSIVE operators need to be recursive functions for that.

## 7. Not modelled

- The text of SQL, TOML, globs, regular expressions and help, and the layout of reports:
  what they decide is in the operators above, how they are written is not.
- Rounding of scores. The order of the blend is modelled with integers.
- `wal_checkpoint_if_large`, WAL and shm as files of their own, and what SQLite does
  inside a transaction.
- clap's parsing of arguments, the tracing subscriber, the timing scenarios of
  `gitlore-eval`.
- The legacy `handle_key` shim of the UI and the re-cut of a diff on a resize.
