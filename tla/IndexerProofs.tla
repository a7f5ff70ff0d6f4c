--------------------------- MODULE IndexerProofs ---------------------------
(* Proofs about Indexer, for every set of commits, history, set of refs,   *)
(* chunk size and bound.                                                   *)
EXTENDS Indexer, FiniteSetTheorems, TLAPS

(* Between runs, and before a run has persisted anything, its variables    *)
(* are what Forget makes them.                                             *)
Clean ==
  pc = "idle" => /\ wm = Nowhere /\ plan = Nowhere /\ unwalked = {}
                 /\ touched = {} /\ todo = {} /\ at = NoSha /\ orphans = {}
                 /\ ~marked

(* Commits are pending only until the last chunk, and the watermark is     *)
(* not persisted while refs are still walked.                              *)
Settled ==
  /\ pc \notin {"walk", "chunk", "mark"} => pending = {}
  /\ pc \in {"heads", "tags", "walk"} => ~marked

(* The map that the run will persist never runs ahead of what the run has  *)
(* walked, as long as the watermark it was loaded from was sound.          *)
WalkSound == ~torn => Covers(wm, commits \cup pending)

IInv == TypeOK /\ Clean /\ Settled /\ WalkSound /\ ResumePointSoundUnlessTorn

ConstAssumptions ==
  /\ History \in [Sha -> SUBSET Sha] /\ NoSha \notin Sha
  /\ Reverts \subseteq Sha /\ Trailer \in [Sha -> SUBSET Sha]
  /\ Branch \subseteq RefName /\ Tag \subseteq RefName

LEMMA Const == ConstAssumptions
BY HistoryAssumption, ShaAssumption, RevertAssumption DEF ConstAssumptions, RefName


LEMMA FromTypeOK == \A s \in OptionalSha : From(s) \subseteq Sha /\ s \in From(s) \cup {NoSha}
BY HistoryAssumption DEF From, OptionalSha

-----------------------------------------------------------------------------
LEMMA InitIInv == Init => IInv
<1> SUFFICES ASSUME Init PROVE IInv
  OBVIOUS
<1> USE Const DEF ConstAssumptions
<1>1. Upgraded \in BOOLEAN
  BY SizeAssumption
<1>2. \A r \in RefName : refs[r] \in OptionalSha /\ From(refs[r]) \subseteq Reachable
  BY DEF Init, Reachable
<1>3. Reachable \subseteq Sha
  BY <1>2, FromTypeOK DEF Reachable
<1>4. commits \subseteq Sha /\ (Upgraded => commits = Reachable)
  BY <1>3 DEF Init
<1>5. tags \in [Tag -> commits \cup {NoSha}]
  <2>1. ASSUME NEW t \in Tag, Upgraded PROVE refs[t] \in commits \cup {NoSha}
    BY <2>1, <1>2, <1>4, FromTypeOK
  <2> QED
    BY <2>1 DEF Init
<1>6. TypeOK
  <2>1. RepositoryTypeOK
    BY <1>3 DEF Init, RepositoryTypeOK
  <2>2. IndexTypeOK
    <3>1. commitRefs \subseteq commits \X RefName /\ fts \in [Sha -> 0..2]
      BY DEF Init
    <3>2. isRevert \subseteq commits /\ revertedBy \in [Sha -> OptionalSha]
      BY DEF Init
    <3>3. watermark \in [RefName -> OptionalSha] /\ populated \in BOOLEAN
      BY <1>1, <1>2 DEF Init, Nowhere, OptionalSha
    <3> QED
      BY <1>4, <1>5, <3>1, <3>2, <3>3 DEF IndexTypeOK
  <2>3. RunTypeOK
    BY DEF Init, RunTypeOK, Location, OptionalSha, Nowhere
  <2> QED
    BY <2>1, <2>2, <2>3, SizeAssumption DEF Init, TypeOK
<1>7. Clean /\ Settled
  BY DEF Init, Clean, Settled
<1>8. Covers(watermark, commits)
  BY <1>1, <1>2, <1>4 DEF Init, Covers, Nowhere, From
<1>9. Covers(wm, commits)
  BY DEF Init, Covers, Nowhere, From
<1> QED
  BY <1>6, <1>7, <1>8, <1>9 DEF IInv, WalkSound, ResumePointSoundUnlessTorn, Init

LEMMA NextTypeOK == TypeOK /\ Clean /\ Settled /\ [Next]_vars => TypeOK'
<1> SUFFICES ASSUME TypeOK, Clean, Settled, [Next]_vars PROVE TypeOK'
  OBVIOUS
<1> USE Const DEF ConstAssumptions, TypeOK, RepositoryTypeOK, IndexTypeOK, RunTypeOK, OptionalSha, repository, rows, derived, state, walk, loops, history, lapses
<1>1. CASE Gc
  BY <1>1, FromTypeOK DEF Gc, Change, Reachable
<1>2. ASSUME NEW r \in RefName, NEW s \in OptionalSha, UpdateRef(r, s) PROVE TypeOK'
  BY <1>2, FromTypeOK DEF UpdateRef, Change
<1>3. CASE BeginRun
  BY <1>3 DEF BeginRun, Goto, Nowhere, Location, Clean
<1>4. CASE Rebuild
  <2>1. RepositoryTypeOK' /\ marked' \in BOOLEAN /\ torn' \in BOOLEAN /\ stops' \in Nat
         /\ sync' \in {"stale", "running", "fresh"}
    BY <1>4 DEF Rebuild
  <2>2. commits' = {} /\ commitRefs' = {} /\ isRevert' = {}
    BY <1>4 DEF Rebuild
  <2>3. fts' \in [Sha -> 0..2] /\ revertedBy' \in [Sha -> OptionalSha]
    BY <1>4 DEF Rebuild
  <2>4. tags' \in [Tag -> commits' \cup {NoSha}]
    BY <1>4 DEF Rebuild
  <2>5. watermark' \in [RefName -> OptionalSha] /\ populated' \in BOOLEAN
    BY <1>4 DEF Rebuild, Nowhere
  <2>6. RunTypeOK'
    BY <1>4 DEF Rebuild, Goto, Clean, Location
  <2>7. lost' \subseteq Sha \X RefName /\ stale' \subseteq Tag /\ missed' \subseteq Reverts
    BY <1>4 DEF Rebuild
  <2> QED
    BY <2>1, <2>2, <2>3, <2>4, <2>5, <2>6, <2>7
<1>5. CASE ListHeads
  BY <1>5 DEF ListHeads, Goto, ListRefs, Location
<1>6. CASE ListTags
  BY <1>6 DEF ListTags, Goto, ListRefs, Location
<1>7. ASSUME NEW r \in RefName, WalkRef(r) \/ WalkRefAnew(r) PROVE TypeOK'
  <2>1. \E from \in OptionalSha : Walk(r, from)
    BY <1>7 DEF WalkRef, WalkRefAnew, WalkFrom
  <2>2. stops' \in Nat
    BY <1>7, SizeAssumption DEF WalkRef, WalkRefAnew, Fault
  <2> QED
    BY <2>1, <2>2, FromTypeOK DEF Walk
<1>8. CASE WalkFails
  BY <1>8 DEF WalkFails, Forget, Abort, Nowhere, Location
<1>9. CASE EndWalk
  BY <1>9 DEF EndWalk, Location
<1>10. CASE PersistChunk
  BY <1>10 DEF PersistChunk, Goto, InsertFts, Location
<1>11. CASE MarkChunk
  BY <1>11 DEF MarkChunk, Goto, Location
<1>12. ASSUME NEW t \in Tag, PopulateTag(t) PROVE TypeOK'
  BY <1>12 DEF PopulateTag
<1>13. CASE BeginReverts
  BY <1>13 DEF BeginReverts, Goto, Location
<1>14. CASE TooManyVariables
  BY <1>14 DEF TooManyVariables, Forget, Abort, Nowhere, Location
<1>15. ASSUME NEW s \in Sha, FlagRevert(s) PROVE TypeOK'
  BY <1>15 DEF FlagRevert, Goto, Location
<1>16. CASE LinkRevert
  BY <1>16 DEF LinkRevert, Goto, Location
<1>17. CASE EndReverts
  BY <1>17 DEF EndReverts, Goto, Location
<1>18. ASSUME NEW s \in Sha, ProbeCommit(s) \/ ProbeFails(s) PROVE TypeOK'
  <2>1. stops' \in Nat
    BY <1>18, SizeAssumption DEF ProbeCommit, ProbeFails, Found, Fault
  <2>2. CASE Found(s)
    BY <2>1, <2>2 DEF Found
  <2>3. CASE NotFound(s)
    BY <2>1, <2>3 DEF NotFound
  <2> QED
    BY <1>18, <2>2, <2>3 DEF ProbeCommit, ProbeFails
<1>19. CASE PruneOrphans
  BY <1>19 DEF PruneOrphans, Goto, Location
<1>20. CASE FlagPopulated
  BY <1>20 DEF FlagPopulated, Goto, Location
<1>21. CASE BeginBackfill
  BY <1>21 DEF BeginBackfill, Location
<1>22. CASE CopyChunk
  BY <1>22 DEF CopyChunk, InsertFts
<1>23. CASE EndBackfill
  BY <1>23 DEF EndBackfill, Goto, Location
<1>24. CASE Finish
  BY <1>24 DEF Finish, Forget, Nowhere, Location
<1>25. CASE Stop
  <2>1. RepositoryTypeOK' /\ marked' \in BOOLEAN /\ sync' \in {"stale", "running", "fresh"}
    BY <1>25 DEF Stop, Abort, Forget
  <2>2. torn' \in BOOLEAN
    BY <1>25 DEF Stop, Abort
  <2>3. stops' \in Nat
    BY <1>25, SizeAssumption DEF Stop, Fault
  <2>4. IndexTypeOK'
    BY <1>25 DEF Stop, Abort
  <2>5. RunTypeOK'
    BY <1>25 DEF Stop, Abort, Forget, Nowhere, Location
  <2>6. lost' \subseteq Sha \X RefName /\ stale' \subseteq Tag /\ missed' \subseteq Reverts
    BY <1>25 DEF Stop, Abort
  <2> QED
    BY <2>1, <2>2, <2>3, <2>4, <2>5, <2>6
<1>26. CASE UNCHANGED vars
  BY <1>26 DEF vars
<1> HIDE DEF TypeOK, RepositoryTypeOK, IndexTypeOK, RunTypeOK, OptionalSha, repository, rows, derived, state, walk, loops, history, lapses
<1> QED
  BY <1>1, <1>2, <1>3, <1>4, <1>5, <1>6, <1>7, <1>8, <1>9, <1>10, <1>11, <1>12, <1>13, <1>14, <1>15, <1>16, <1>17, <1>18, <1>19, <1>20, <1>21, <1>22, <1>23, <1>24, <1>25, <1>26
     DEF Next, RepositoryStep, RunStep, GitFails

LEMMA NextCleanSettled == TypeOK /\ Clean /\ Settled /\ [Next]_vars => (Clean /\ Settled)'
<1> SUFFICES ASSUME TypeOK, Clean, Settled, [Next]_vars PROVE (Clean /\ Settled)'
  OBVIOUS
<1> USE Const DEF ConstAssumptions, Clean, Settled, repository, rows, derived, state, walk, loops, history, lapses
<1>1. CASE Gc
  BY <1>1 DEF Gc, Change
<1>2. ASSUME NEW r \in RefName, NEW s \in OptionalSha, UpdateRef(r, s) PROVE (Clean /\ Settled)'
  BY <1>2 DEF UpdateRef, Change
<1>3. CASE BeginRun
  BY <1>3 DEF BeginRun, Goto, Nowhere
<1>4. CASE Rebuild
  BY <1>4 DEF Rebuild, Goto, Nowhere
<1>5. CASE ListHeads
  BY <1>5 DEF ListHeads, Goto, ListRefs
<1>6. CASE ListTags
  BY <1>6 DEF ListTags, Goto, ListRefs
<1>7. ASSUME NEW r \in RefName, WalkRef(r) \/ WalkRefAnew(r) PROVE (Clean /\ Settled)'
  BY <1>7 DEF WalkRef, WalkRefAnew, Walk
<1>8. CASE WalkFails
  BY <1>8 DEF WalkFails, Forget, Abort, Nowhere
<1>9. CASE EndWalk
  BY <1>9 DEF EndWalk
<1>10. CASE PersistChunk
  BY <1>10 DEF PersistChunk, Goto
<1>11. CASE MarkChunk
  BY <1>11 DEF MarkChunk, Goto
<1>12. ASSUME NEW t \in Tag, PopulateTag(t) PROVE (Clean /\ Settled)'
  BY <1>12 DEF PopulateTag
<1>13. CASE BeginReverts
  BY <1>13 DEF BeginReverts, Goto
<1>14. CASE TooManyVariables
  BY <1>14 DEF TooManyVariables, Forget, Abort, Nowhere
<1>15. ASSUME NEW s \in Sha, FlagRevert(s) PROVE (Clean /\ Settled)'
  BY <1>15 DEF FlagRevert, Goto
<1>16. CASE LinkRevert
  BY <1>16 DEF LinkRevert, Goto
<1>17. CASE EndReverts
  BY <1>17 DEF EndReverts, Goto
<1>18. ASSUME NEW s \in Sha, ProbeCommit(s) \/ ProbeFails(s) PROVE (Clean /\ Settled)'
  BY <1>18 DEF ProbeCommit, ProbeFails, Found, NotFound
<1>19. CASE PruneOrphans
  BY <1>19 DEF PruneOrphans, Goto
<1>20. CASE FlagPopulated
  BY <1>20 DEF FlagPopulated, Goto
<1>21. CASE BeginBackfill
  BY <1>21 DEF BeginBackfill
<1>22. CASE CopyChunk
  BY <1>22 DEF CopyChunk
<1>23. CASE EndBackfill
  BY <1>23 DEF EndBackfill, Goto
<1>24. CASE Finish
  BY <1>24 DEF Finish, Forget, Nowhere
<1>25. CASE Stop
  BY <1>25 DEF Stop, Forget, Abort, Nowhere
<1>26. CASE UNCHANGED vars
  BY <1>26 DEF vars
<1> HIDE DEF Clean, Settled, repository, rows, derived, state, walk, loops, history, lapses
<1> QED
  BY <1>1, <1>2, <1>3, <1>4, <1>5, <1>6, <1>7, <1>8, <1>9, <1>10, <1>11, <1>12, <1>13, <1>14, <1>15, <1>16, <1>17, <1>18, <1>19, <1>20, <1>21, <1>22, <1>23, <1>24, <1>25, <1>26
     DEF Next, RepositoryStep, RunStep, GitFails

(* What the soundness of the watermark depends on, and the actions that    *)
(* touch it.                                                               *)
cover == <<commits, pending, wm, watermark, marked, torn>>
Quiet == UNCHANGED cover /\ (pc' = "mark" => pc = "mark")
Walks == \E r \in RefName : \E from \in {NoSha, WalkFrom(r)} : Walk(r, from)

LEMMA CoverSteps ==
  ASSUME [Next]_vars
  PROVE  \/ Quiet
         \/ BeginRun \/ Rebuild \/ Walks
         \/ PersistChunk \/ MarkChunk \/ CopyChunk \/ Finish \/ Abort
<1> USE DEF Quiet, cover, repository, rows, derived, state, walk, loops, history, lapses
<1>1. ASSUME Gc PROVE Quiet
  BY <1>1 DEF Gc, Change
<1>2. ASSUME NEW r \in RefName, NEW s \in OptionalSha, UpdateRef(r, s) PROVE Quiet
  BY <1>2 DEF UpdateRef, Change
<1>3. ASSUME ListHeads PROVE Quiet
  BY <1>3 DEF ListHeads, Goto, ListRefs
<1>4. ASSUME ListTags PROVE Quiet
  BY <1>4 DEF ListTags, Goto, ListRefs
<1>5. ASSUME EndWalk PROVE Quiet
  BY <1>5 DEF EndWalk
<1>6. ASSUME NEW t \in Tag, PopulateTag(t) PROVE Quiet
  BY <1>6 DEF PopulateTag
<1>7. ASSUME BeginReverts PROVE Quiet
  BY <1>7 DEF BeginReverts, Goto
<1>8. ASSUME NEW s \in Sha, FlagRevert(s) PROVE Quiet
  BY <1>8 DEF FlagRevert, Goto
<1>9. ASSUME LinkRevert PROVE Quiet
  BY <1>9 DEF LinkRevert, Goto
<1>10. ASSUME EndReverts PROVE Quiet
  BY <1>10 DEF EndReverts, Goto
<1>11. ASSUME NEW s \in Sha, ProbeCommit(s) \/ ProbeFails(s) PROVE Quiet
  BY <1>11 DEF ProbeCommit, ProbeFails, Found, NotFound
<1>12. ASSUME PruneOrphans PROVE Quiet
  BY <1>12 DEF PruneOrphans, Goto
<1>13. ASSUME FlagPopulated PROVE Quiet
  BY <1>13 DEF FlagPopulated, Goto
<1>14. ASSUME BeginBackfill PROVE Quiet
  BY <1>14 DEF BeginBackfill
<1>15. ASSUME EndBackfill PROVE Quiet
  BY <1>15 DEF EndBackfill, Goto
<1>16. ASSUME UNCHANGED vars PROVE Quiet
  BY <1>16 DEF vars
<1>17. ASSUME WalkFails \/ TooManyVariables \/ Stop PROVE Abort
  BY <1>17 DEF WalkFails, TooManyVariables, Stop
<1>18. ASSUME NEW r \in RefName, WalkRef(r) \/ WalkRefAnew(r) PROVE Walks
  BY <1>18 DEF WalkRef, WalkRefAnew, Walks
<1> QED
  BY <1>1, <1>2, <1>3, <1>4, <1>5, <1>6, <1>7, <1>8, <1>9, <1>10, <1>11, <1>12, <1>13, <1>14,
     <1>15, <1>16, <1>17, <1>18
     DEF Next, RepositoryStep, RunStep, GitFails

(* The heart of the proof: the watermark and the map of the run stay sound *)
(* as long as no run is stopped between MarkChunk and its last chunk.      *)
LEMMA NextSound ==
  TypeOK /\ Clean /\ Settled /\ WalkSound /\ ResumePointSoundUnlessTorn /\ [Next]_vars
    => (WalkSound /\ ResumePointSoundUnlessTorn)'
<1> SUFFICES ASSUME TypeOK, Clean, Settled, [Next]_vars, ~torn',
                    WalkSound, ResumePointSoundUnlessTorn
             PROVE  /\ Covers(wm', commits' \cup pending')
                    /\ Covers(watermark', commits' \cup IF marked' THEN pending' ELSE {})
  BY DEF WalkSound, ResumePointSoundUnlessTorn, Covers, From
<1> USE DEF repository, rows, derived, state, walk, loops, history, lapses
<1>a. ~torn => Covers(wm, commits \cup pending)
  BY DEF WalkSound
<1>b. ~torn => Covers(watermark, commits \cup IF marked THEN pending ELSE {})
  BY DEF ResumePointSoundUnlessTorn
<1>0. From(NoSha) = {} /\ \A S : Covers(Nowhere, S)
  BY DEF From, Covers, Nowhere
<1>1. CASE Quiet \/ CopyChunk
  BY <1>1, <1>a, <1>b DEF Quiet, cover, CopyChunk, Covers, From
<1>2. CASE BeginRun
  <2>1. ~torn /\ ~marked /\ pending = {} /\ pc = "idle"
    BY <1>2 DEF BeginRun, Goto, Clean, Settled
  <2>2. UNCHANGED <<commits, pending, watermark, marked>> /\ wm' = watermark
    BY <1>2 DEF BeginRun
  <2> QED
    BY <2>1, <2>2, <1>b DEF Covers, From
<1>3. CASE Rebuild
  <2>1. ~marked /\ pending = {} /\ wm = Nowhere
    BY <1>3 DEF Rebuild, Goto, Clean, Settled
  <2>2. watermark' = Nowhere /\ UNCHANGED <<wm, pending, marked>>
    BY <1>3 DEF Rebuild
  <2> QED
    BY <2>1, <2>2, <1>0
<1>4. ASSUME NEW r \in RefName, NEW from \in {NoSha, WalkFrom(r)}, Walk(r, from)
      PROVE  /\ Covers(wm', commits' \cup pending')
             /\ Covers(watermark', commits' \cup IF marked' THEN pending' ELSE {})
  <2>1. ~torn /\ ~marked /\ UNCHANGED <<commits, watermark, marked>>
    BY <1>4 DEF Walk, Settled
  <2>2. wm' = [wm EXCEPT ![r] = plan[r]] /\ wm \in [RefName -> OptionalSha]
    BY <1>4 DEF Walk, TypeOK, RunTypeOK
  <2>3. pending' = pending \cup (From(plan[r]) \ From(from))
    BY <1>4 DEF Walk
  <2>4. From(from) \subseteq commits \cup pending
    BY <2>1, <1>a, <1>0 DEF WalkFrom, Covers
  <2>5. From(plan[r]) \subseteq commits' \cup pending'
    BY <2>1, <2>3, <2>4
  <2>6. ASSUME NEW q \in RefName PROVE From(wm'[q]) \subseteq commits' \cup pending'
    <3>1. CASE q = r
      BY <3>1, <2>2, <2>5
    <3>2. CASE q # r
      BY <3>2, <2>1, <2>2, <2>3, <1>a DEF Covers
    <3> QED
      BY <3>1, <3>2
  <2> QED
    BY <2>1, <2>6, <1>b DEF Covers, From
<1>5. CASE PersistChunk
  <2>1. ~torn /\ UNCHANGED <<wm, watermark, marked>>
    BY <1>5 DEF PersistChunk
  <2>2. PICK c \in SUBSET pending : commits' = commits \cup c /\ pending' = pending \ c
    BY <1>5 DEF PersistChunk
  <2>3. commits' \cup pending' = commits \cup pending /\ commits \subseteq commits'
    BY <2>2
  <2> QED
    BY <2>1, <2>3, <1>a, <1>b DEF Covers, From
<1>6. CASE MarkChunk
  BY <1>6, <1>a DEF MarkChunk, Covers, From
<1>7. CASE Finish
  <2>1. ~torn /\ pending = {} /\ wm' = Nowhere /\ ~marked' /\ watermark' = wm
    BY <1>7 DEF Finish, Forget, Settled
  <2>2. commits' = commits
    BY <1>7 DEF Finish
  <2> QED
    BY <2>1, <2>2, <1>0, <1>a DEF Covers, From
<1>8. CASE Abort
  <2>1. ~torn /\ (~marked \/ pending = {})
    BY <1>8 DEF Abort
  <2>2. wm' = Nowhere /\ ~marked' /\ UNCHANGED <<commits, watermark>>
    BY <1>8 DEF Abort, Forget
  <2> QED
    BY <2>1, <2>2, <1>0, <1>b DEF Covers, From
<1> QED
  BY <1>1, <1>2, <1>3, <1>4, <1>5, <1>6, <1>7, <1>8, CoverSteps DEF Walks

LEMMA Inductive == Spec => []IInv
<1>1. IInv /\ [Next]_vars => IInv'
  BY NextTypeOK, NextCleanSettled, NextSound DEF IInv
<1> QED
  BY <1>1, InitIInv, PTL DEF Spec

-----------------------------------------------------------------------------
(* Every variable of the index and of the run keeps its type: no row of    *)
(* commit_refs, no tag and no flag ever refers to a commit without a row,  *)
(* as the foreign keys of 0001_init.sql demand.                            *)
THEOREM TypeCorrect == Spec => []TypeOK
<1>1. IInv => TypeOK
  BY DEF IInv
<1> QED
  BY <1>1, Inductive, PTL

(* For every history, chunk size and schedule, the persisted watermark is  *)
(* a usable resume point unless a run was stopped between its first        *)
(* persist_watermark and its last chunk.                                   *)
THEOREM ResumePoint == Spec => []ResumePointSoundUnlessTorn
<1>1. IInv => ResumePointSoundUnlessTorn
  BY DEF IInv
<1> QED
  BY <1>1, Inductive, PTL

-----------------------------------------------------------------------------
(* When no walk can bring more commits than a chunk holds, the first chunk *)
(* is the last.                                                            *)
OneChunk == Cardinality(Sha) <= ChunkSize

Whole == ~torn /\ (pc = "mark" \/ marked => pending = {})

LEMMA ChunkIsAll ==
  ASSUME OneChunk, TypeOK, NEW c \in SUBSET pending, IsChunk(c, pending, ChunkSize)
  PROVE  c = pending
<1>1. IsFiniteSet(pending) /\ Cardinality(pending) <= Cardinality(Sha)
  BY ShaAssumption, FS_Subset DEF TypeOK, RunTypeOK
<1>2. Cardinality(pending) \in Nat /\ Cardinality(Sha) \in Nat /\ ChunkSize \in Nat
  BY <1>1, ShaAssumption, SizeAssumption, FS_CardinalityType
<1>3. Cardinality(c) = Cardinality(pending)
  BY <1>1, <1>2 DEF OneChunk, IsChunk
<1> QED
  BY <1>1, <1>3, FS_Subset

LEMMA NextWhole ==
  ASSUME OneChunk, IInv, Whole, [Next]_vars
  PROVE  Whole'
<1> USE DEF IInv, Whole, walk, loops, history, lapses, state
<1>1. CASE Quiet \/ CopyChunk
  BY <1>1 DEF Quiet, cover, CopyChunk
<1>2. CASE BeginRun \/ Rebuild \/ Finish
  BY <1>2 DEF BeginRun, Rebuild, Finish, Forget, Goto, Clean
<1>3. CASE Walks
  BY <1>3 DEF Walks, Walk, Settled
<1>4. CASE PersistChunk
  <2>1. PICK c \in SUBSET pending : IsChunk(c, pending, ChunkSize) /\ pending' = pending \ c
    BY <1>4 DEF PersistChunk
  <2>2. pending' = {}
    BY <2>1, ChunkIsAll
  <2> QED
    BY <1>4, <2>2 DEF PersistChunk
<1>5. CASE MarkChunk
  BY <1>5 DEF MarkChunk, Goto
<1>6. CASE Abort
  BY <1>6 DEF Abort, Forget
<1> QED
  BY <1>1, <1>2, <1>3, <1>4, <1>5, <1>6, CoverSteps

LEMMA OneChunkInductive ==
  ASSUME OneChunk
  PROVE  Spec => [](IInv /\ Whole)
<1>1. Init => Whole
  BY DEF Init, Whole
<1>2. IInv /\ Whole /\ [Next]_vars => Whole'
  BY NextWhole
<1> QED
  BY <1>1, <1>2, Inductive, PTL DEF Spec

(* Then a kill at any point leaves a usable resume point.                  *)
THEOREM ResumePointOneChunk ==
  ASSUME OneChunk
  PROVE  Spec => []ResumePointSound
<1>1. IInv /\ Whole => ResumePointSound
  BY DEF IInv, Whole, ResumePointSoundUnlessTorn, ResumePointSound, Covers
<1> QED
  BY <1>1, OneChunkInductive, PTL

-----------------------------------------------------------------------------
(* The refinement: what a reader of the index sees of any step is a step   *)
(* of ResumableIndex, or nothing.                                          *)
LEMMA PromiseInit == Init => Promise!Init
<1> SUFFICES ASSUME Init PROVE Promise!Init
  OBVIOUS
<1>1. TypeOK /\ Covers(watermark, commits)
  BY InitIInv DEF IInv, ResumePointSoundUnlessTorn, Covers, From, Init
<1> QED
  BY <1>1 DEF Promise!Init, Promise!Covered, Covers, From, TypeOK, IndexTypeOK, OptionalSha

LEMMA PromiseStep ==
  ASSUME OneChunk, IInv, IInv', Whole, Whole', [Next]_vars
  PROVE  [Promise!Next]_(Promise!vars)
<1>1. watermark' \in [RefName -> Sha \cup {NoSha}] /\ commits' \subseteq Sha
  BY DEF IInv, TypeOK, IndexTypeOK, OptionalSha
<1>2. \A r \in RefName : From(watermark'[r]) \subseteq commits'
  BY DEF IInv, Whole, ResumePointSoundUnlessTorn, Covers, From
<1>3. ASSUME UNCHANGED commits PROVE Promise!Advance
  BY <1>1, <1>2, <1>3 DEF Promise!Advance, Promise!Covered, From
<1>4. CASE UNCHANGED commits
  BY <1>3, <1>4 DEF Promise!Next
<1>5. CASE Rebuild
  BY <1>5 DEF Rebuild, Nowhere, Promise!Next, Promise!StartOver
<1>6. CASE PersistChunk
  BY <1>1, <1>6 DEF PersistChunk, state, Promise!Next, Promise!Persist
<1>7. ASSUME Quiet \/ BeginRun \/ Walks \/ MarkChunk \/ CopyChunk \/ Finish \/ Abort
      PROVE  UNCHANGED commits
  BY <1>7 DEF Quiet, cover, BeginRun, Walks, Walk, MarkChunk, CopyChunk, Finish, Abort, rows
<1> QED
  BY <1>4, <1>5, <1>6, <1>7, CoverSteps

(* When every walk fits into one chunk, the pipeline implements            *)
(* ResumableIndex: crashes, retries and a changing repository included.    *)
THEOREM Refinement ==
  ASSUME OneChunk
  PROVE  Spec => ImplementsResumableIndex
<1>1. IInv /\ IInv' /\ Whole /\ Whole' /\ [Next]_vars => [Promise!Next]_(Promise!vars)
  BY PromiseStep
<1> QED
  BY <1>1, PromiseInit, OneChunkInductive, PTL DEF Spec, ImplementsResumableIndex, Promise!Spec

-----------------------------------------------------------------------------
(* What a run knows of the repository.                                     *)

Stored == Reachable \subseteq objects

(* The walk of a ref moves its entry in the map to the tip that was listed, *)
(* and what MarkChunk persists is that map.                                *)
Walked ==
  /\ pc \notin {"idle", "heads", "tags", "walk"} => unwalked = {}
  /\ pc \notin {"idle", "heads", "tags"} =>
       \A r \in RefName : plan[r] = NoSha \/ r \in unwalked \/ wm[r] = plan[r]
  /\ marked => watermark = wm

(* As long as nobody changes the repository the tips listed are its tips.  *)
InSync ==
  /\ sync = "fresh" => pc = "idle"
  /\ sync = "running" =>
       /\ pc # "idle"
       /\ pc = "tags" => \A r \in Branch : plan[r] = refs[r]
       /\ pc \notin {"idle", "heads", "tags"} => plan = refs

(* A commit below an entry of the map, or of the persisted watermark, has  *)
(* its commit_refs row for that ref unless a probe has not found it; below *)
(* the map of the run it may also be pending, with a note of the ref.      *)
Noted ==
  ~torn =>
    /\ \A r \in RefName : \A s \in From(wm[r]) :
         \/ s \in pending /\ <<s, r>> \in walked
         \/ s \in commits /\ <<s, r>> \in commitRefs \cup lost
    /\ ~marked => \A r \in RefName : From(watermark[r]) \X {r} \subseteq commitRefs \cup lost

(* The rows that prune_orphans is about to delete are those of commits a   *)
(* probe has not found, and when it has asked for every commit, only       *)
(* commits that are gone lose their rows.                                  *)
Orphaned ==
  /\ \A x \in commitRefs : x[1] \in orphans => x \in lost
  /\ pc # "probe" => orphans = {}
  /\ sync = "running" =>
       /\ pc = "probe" => commits \subseteq todo \cup orphans \cup objects
       /\ pc \in {"flag", "backfill", "copy", "finish"} =>
            \A x \in commitRefs : x[1] \in objects

MirrorInv == Stored /\ Walked /\ InSync /\ Noted /\ Orphaned /\ MirrorsRefs

(* git keeps what its refs reach.                                          *)
LEMMA StoredKept ==
  ASSUME TypeOK, Stored, [Next]_vars
  PROVE  Stored'
<1> USE DEF Stored, Reachable, TypeOK, RepositoryTypeOK, repository, rows, derived, state,
       walk, loops, history, lapses
<1>1. CASE Gc
  BY <1>1 DEF Gc, Change
<1>2. ASSUME NEW r \in RefName, NEW s \in OptionalSha, UpdateRef(r, s) PROVE Stored'
  BY <1>2, FromTypeOK DEF UpdateRef, Change
<1>3. CASE BeginRun
  BY <1>3 DEF BeginRun, Goto
<1>4. CASE Rebuild
  BY <1>4 DEF Rebuild, Goto
<1>5. CASE ListHeads
  BY <1>5 DEF ListHeads, ListRefs, Goto
<1>6. CASE ListTags
  BY <1>6 DEF ListTags, ListRefs, Goto
<1>7. ASSUME NEW r \in RefName, WalkRef(r) \/ WalkRefAnew(r) PROVE Stored'
  BY <1>7 DEF WalkRef, WalkRefAnew, Walk
<1>8. CASE EndWalk
  BY <1>8 DEF EndWalk
<1>9. CASE PersistChunk
  BY <1>9 DEF PersistChunk, Goto
<1>10. CASE MarkChunk
  BY <1>10 DEF MarkChunk, Goto
<1>11. ASSUME NEW t \in Tag, PopulateTag(t) PROVE Stored'
  BY <1>11 DEF PopulateTag
<1>12. CASE BeginReverts
  BY <1>12 DEF BeginReverts, Goto
<1>13. ASSUME NEW s \in Sha, FlagRevert(s) PROVE Stored'
  BY <1>13 DEF FlagRevert, Goto
<1>14. CASE LinkRevert
  BY <1>14 DEF LinkRevert, Goto
<1>15. CASE EndReverts
  BY <1>15 DEF EndReverts, Goto
<1>16. ASSUME NEW s \in Sha, ProbeCommit(s) \/ ProbeFails(s) PROVE Stored'
  BY <1>16 DEF ProbeCommit, ProbeFails, Found, NotFound
<1>17. CASE PruneOrphans
  BY <1>17 DEF PruneOrphans, Goto
<1>18. CASE FlagPopulated
  BY <1>18 DEF FlagPopulated, Goto
<1>19. CASE BeginBackfill
  BY <1>19 DEF BeginBackfill
<1>20. CASE CopyChunk
  BY <1>20 DEF CopyChunk
<1>21. CASE EndBackfill
  BY <1>21 DEF EndBackfill, Goto
<1>22. CASE Finish
  BY <1>22 DEF Finish, Forget
<1>23. CASE WalkFails
  BY <1>23 DEF WalkFails, Abort, Forget
<1>24. CASE TooManyVariables
  BY <1>24 DEF TooManyVariables, Abort, Forget
<1>25. CASE Stop
  BY <1>25 DEF Stop, Abort, Forget
<1>26. CASE UNCHANGED vars
  BY <1>26 DEF vars
<1> QED
  BY <1>1, <1>2, <1>3, <1>4, <1>5, <1>6, <1>7, <1>8, <1>9, <1>10, <1>11, <1>12, <1>13,
         <1>14, <1>15, <1>16, <1>17, <1>18, <1>19, <1>20, <1>21, <1>22, <1>23, <1>24,
         <1>25, <1>26
     DEF Next, RepositoryStep, RunStep, GitFails

(* Every walk moves its entry of the map; nothing else does.               *)
LEMMA WalkedKept ==
  ASSUME TypeOK, Clean, Settled, Walked, [Next]_vars
  PROVE  Walked'
<1> USE DEF Walked, Clean, Settled, Nowhere, TypeOK, RunTypeOK, IndexTypeOK, repository,
       rows, derived, state, walk, loops, history, lapses
<1>1. CASE Gc
  BY <1>1 DEF Gc, Change
<1>2. ASSUME NEW r \in RefName, NEW s \in OptionalSha, UpdateRef(r, s) PROVE Walked'
  BY <1>2 DEF UpdateRef, Change
<1>3. CASE BeginRun
  BY <1>3 DEF BeginRun, Goto
<1>4. CASE Rebuild
  BY <1>4 DEF Rebuild, Goto
<1>5. CASE ListHeads
  BY <1>5 DEF ListHeads, ListRefs, Goto
<1>6. CASE ListTags
  BY <1>6 DEF ListTags, ListRefs, Goto
<1>7. ASSUME NEW r \in RefName, WalkRef(r) \/ WalkRefAnew(r) PROVE Walked'
  BY <1>7 DEF WalkRef, WalkRefAnew, Walk
<1>8. CASE EndWalk
  BY <1>8 DEF EndWalk
<1>9. CASE PersistChunk
  BY <1>9 DEF PersistChunk, Goto
<1>10. CASE MarkChunk
  BY <1>10 DEF MarkChunk, Goto
<1>11. ASSUME NEW t \in Tag, PopulateTag(t) PROVE Walked'
  BY <1>11 DEF PopulateTag
<1>12. CASE BeginReverts
  BY <1>12 DEF BeginReverts, Goto
<1>13. ASSUME NEW s \in Sha, FlagRevert(s) PROVE Walked'
  BY <1>13 DEF FlagRevert, Goto
<1>14. CASE LinkRevert
  BY <1>14 DEF LinkRevert, Goto
<1>15. CASE EndReverts
  BY <1>15 DEF EndReverts, Goto
<1>16. ASSUME NEW s \in Sha, ProbeCommit(s) \/ ProbeFails(s) PROVE Walked'
  BY <1>16 DEF ProbeCommit, ProbeFails, Found, NotFound
<1>17. CASE PruneOrphans
  BY <1>17 DEF PruneOrphans, Goto
<1>18. CASE FlagPopulated
  BY <1>18 DEF FlagPopulated, Goto
<1>19. CASE BeginBackfill
  BY <1>19 DEF BeginBackfill
<1>20. CASE CopyChunk
  BY <1>20 DEF CopyChunk
<1>21. CASE EndBackfill
  BY <1>21 DEF EndBackfill, Goto
<1>22. CASE Finish
  BY <1>22 DEF Finish, Forget
<1>23. CASE WalkFails
  BY <1>23 DEF WalkFails, Abort, Forget
<1>24. CASE TooManyVariables
  BY <1>24 DEF TooManyVariables, Abort, Forget
<1>25. CASE Stop
  BY <1>25 DEF Stop, Abort, Forget
<1>26. CASE UNCHANGED vars
  BY <1>26 DEF vars
<1> QED
  BY <1>1, <1>2, <1>3, <1>4, <1>5, <1>6, <1>7, <1>8, <1>9, <1>10, <1>11, <1>12, <1>13,
         <1>14, <1>15, <1>16, <1>17, <1>18, <1>19, <1>20, <1>21, <1>22, <1>23, <1>24,
         <1>25, <1>26
     DEF Next, RepositoryStep, RunStep, GitFails

(* A change of the repository outdates the run at once.                    *)
LEMMA InSyncKept ==
  ASSUME TypeOK, InSync, [Next]_vars
  PROVE  InSync'
<1> USE DEF InSync, TypeOK, RepositoryTypeOK, RunTypeOK, RefName, repository, rows,
       derived, state, walk, loops, history, lapses
<1>1. CASE Gc
  BY <1>1 DEF Gc, Change
<1>2. ASSUME NEW r \in RefName, NEW s \in OptionalSha, UpdateRef(r, s) PROVE InSync'
  BY <1>2 DEF UpdateRef, Change
<1>3. CASE BeginRun
  BY <1>3 DEF BeginRun, Goto
<1>4. CASE Rebuild
  BY <1>4 DEF Rebuild, Goto
<1>5. CASE ListHeads
  BY <1>5 DEF ListHeads, ListRefs, Goto
<1>6. CASE ListTags
  BY <1>6, RefAssumption DEF ListTags, ListRefs, Goto
<1>7. ASSUME NEW r \in RefName, WalkRef(r) \/ WalkRefAnew(r) PROVE InSync'
  BY <1>7 DEF WalkRef, WalkRefAnew, Walk
<1>8. CASE EndWalk
  BY <1>8 DEF EndWalk
<1>9. CASE PersistChunk
  BY <1>9 DEF PersistChunk, Goto
<1>10. CASE MarkChunk
  BY <1>10 DEF MarkChunk, Goto
<1>11. ASSUME NEW t \in Tag, PopulateTag(t) PROVE InSync'
  BY <1>11 DEF PopulateTag
<1>12. CASE BeginReverts
  BY <1>12 DEF BeginReverts, Goto
<1>13. ASSUME NEW s \in Sha, FlagRevert(s) PROVE InSync'
  BY <1>13 DEF FlagRevert, Goto
<1>14. CASE LinkRevert
  BY <1>14 DEF LinkRevert, Goto
<1>15. CASE EndReverts
  BY <1>15 DEF EndReverts, Goto
<1>16. ASSUME NEW s \in Sha, ProbeCommit(s) \/ ProbeFails(s) PROVE InSync'
  BY <1>16 DEF ProbeCommit, ProbeFails, Found, NotFound
<1>17. CASE PruneOrphans
  BY <1>17 DEF PruneOrphans, Goto
<1>18. CASE FlagPopulated
  BY <1>18 DEF FlagPopulated, Goto
<1>19. CASE BeginBackfill
  BY <1>19 DEF BeginBackfill
<1>20. CASE CopyChunk
  BY <1>20 DEF CopyChunk
<1>21. CASE EndBackfill
  BY <1>21 DEF EndBackfill, Goto
<1>22. CASE Finish
  BY <1>22 DEF Finish, Forget
<1>23. CASE WalkFails
  BY <1>23 DEF WalkFails, Abort, Forget
<1>24. CASE TooManyVariables
  BY <1>24 DEF TooManyVariables, Abort, Forget
<1>25. CASE Stop
  BY <1>25 DEF Stop, Abort, Forget
<1>26. CASE UNCHANGED vars
  BY <1>26 DEF vars
<1> QED
  BY <1>1, <1>2, <1>3, <1>4, <1>5, <1>6, <1>7, <1>8, <1>9, <1>10, <1>11, <1>12, <1>13,
         <1>14, <1>15, <1>16, <1>17, <1>18, <1>19, <1>20, <1>21, <1>22, <1>23, <1>24,
         <1>25, <1>26
     DEF Next, RepositoryStep, RunStep, GitFails

(* force_push_retention misses no commit that git had pruned when it       *)
(* started.                                                                *)
LEMMA OrphanedKept ==
  ASSUME TypeOK, Clean, InSync, Stored, Orphaned, [Next]_vars
  PROVE  Orphaned'
<1> USE DEF Orphaned, Stored, Clean, InSync, Reachable, TypeOK, RepositoryTypeOK,
       IndexTypeOK, RunTypeOK, repository, rows, derived, state, walk, loops, history, lapses
<1>1. CASE Gc
  BY <1>1, FromTypeOK DEF Gc, Change
<1>2. ASSUME NEW r \in RefName, NEW s \in OptionalSha, UpdateRef(r, s) PROVE Orphaned'
  BY <1>2 DEF UpdateRef, Change
<1>3. CASE BeginRun
  BY <1>3 DEF BeginRun, Goto
<1>4. CASE Rebuild
  BY <1>4 DEF Rebuild, Goto
<1>5. CASE ListHeads
  BY <1>5 DEF ListHeads, ListRefs, Goto
<1>6. CASE ListTags
  BY <1>6 DEF ListTags, ListRefs, Goto
<1>7. ASSUME NEW r \in RefName, WalkRef(r) \/ WalkRefAnew(r) PROVE Orphaned'
  BY <1>7 DEF WalkRef, WalkRefAnew, Walk
<1>8. CASE EndWalk
  BY <1>8 DEF EndWalk
<1>9. CASE PersistChunk
  BY <1>9 DEF PersistChunk, Goto
<1>10. CASE MarkChunk
  BY <1>10 DEF MarkChunk, Goto
<1>11. ASSUME NEW t \in Tag, PopulateTag(t) PROVE Orphaned'
  BY <1>11 DEF PopulateTag
<1>12. CASE BeginReverts
  BY <1>12 DEF BeginReverts, Goto
<1>13. ASSUME NEW s \in Sha, FlagRevert(s) PROVE Orphaned'
  BY <1>13 DEF FlagRevert, Goto
<1>14. CASE LinkRevert
  BY <1>14 DEF LinkRevert, Goto
<1>15. CASE EndReverts
  BY <1>15 DEF EndReverts, Goto
<1>16. ASSUME NEW s \in Sha, ProbeCommit(s) \/ ProbeFails(s) PROVE Orphaned'
  BY <1>16 DEF ProbeCommit, ProbeFails, Found, NotFound
<1>17. CASE PruneOrphans
  BY <1>17 DEF PruneOrphans, Goto
<1>18. CASE FlagPopulated
  BY <1>18 DEF FlagPopulated, Goto
<1>19. CASE BeginBackfill
  BY <1>19 DEF BeginBackfill
<1>20. CASE CopyChunk
  BY <1>20 DEF CopyChunk
<1>21. CASE EndBackfill
  BY <1>21 DEF EndBackfill, Goto
<1>22. CASE Finish
  BY <1>22 DEF Finish, Forget
<1>23. CASE WalkFails
  BY <1>23 DEF WalkFails, Abort, Forget
<1>24. CASE TooManyVariables
  BY <1>24 DEF TooManyVariables, Abort, Forget
<1>25. CASE Stop
  BY <1>25 DEF Stop, Abort, Forget
<1>26. CASE UNCHANGED vars
  BY <1>26 DEF vars
<1> QED
  BY <1>1, <1>2, <1>3, <1>4, <1>5, <1>6, <1>7, <1>8, <1>9, <1>10, <1>11, <1>12, <1>13,
         <1>14, <1>15, <1>16, <1>17, <1>18, <1>19, <1>20, <1>21, <1>22, <1>23, <1>24,
         <1>25, <1>26
     DEF Next, RepositoryStep, RunStep, GitFails

(* The heart of the proof: the row of a commit for a ref is written with   *)
(* the commit or was there before.                                         *)
LEMMA NotedKept ==
  ASSUME TypeOK, Clean, Settled, Walked, Orphaned, WalkSound,
         ResumePointSoundUnlessTorn, Noted, [Next]_vars
  PROVE  Noted'
<1> USE DEF Noted, Clean, Settled, repository, rows, derived, state, walk, loops, history, lapses
<1>0. ASSUME Abort PROVE Noted'
  <2>1. /\ wm' = Nowhere /\ UNCHANGED <<commits, commitRefs, lost, watermark>>
        /\ ~torn' => ~torn /\ (~marked \/ pending = {})
    BY <1>0 DEF Abort, Forget
  <2>2. \A r \in RefName : From(wm'[r]) = {}
    BY <2>1 DEF From, Nowhere
  <2>3. ASSUME ~torn', NEW r \in RefName, NEW s \in From(watermark[r])
        PROVE  <<s, r>> \in commitRefs \cup lost
    <3>1. CASE marked
      BY <2>1, <2>3, <3>1 DEF Walked
    <3>2. CASE ~marked
      BY <2>1, <2>3, <3>2
    <3> QED
      BY <3>1, <3>2
  <2>4. ASSUME ~torn', NEW r \in RefName
        PROVE  From(watermark'[r]) \X {r} \subseteq commitRefs' \cup lost'
    BY <2>1, <2>3, <2>4 DEF From
  <2> QED
    BY <2>2, <2>4
<1>1. CASE Gc
  BY <1>1 DEF Gc, Change
<1>2. ASSUME NEW r \in RefName, NEW s \in OptionalSha, UpdateRef(r, s) PROVE Noted'
  BY <1>2 DEF UpdateRef, Change
<1>3. CASE BeginRun
  BY <1>3 DEF BeginRun, Goto, From, ResumePointSoundUnlessTorn, Covers
<1>4. CASE Rebuild
  BY <1>4 DEF Rebuild, Goto, From, Nowhere
<1>5. CASE ListHeads
  BY <1>5 DEF ListHeads, ListRefs, Goto
<1>6. CASE ListTags
  BY <1>6 DEF ListTags, ListRefs, Goto
<1>7. ASSUME NEW r \in RefName, WalkRef(r) \/ WalkRefAnew(r) PROVE Noted'
  <2>1. PICK from \in {NoSha, WalkFrom(r)} : Walk(r, from)
    BY <1>7 DEF WalkRef, WalkRefAnew
  <2>2. /\ walked \subseteq walked' /\ pending \subseteq pending'
        /\ \A s \in From(plan[r]) \ From(from) : s \in pending' /\ <<s, r>> \in walked'
    BY <2>1 DEF Walk
  <2>3. From(from) \subseteq From(wm[r])
    BY DEF WalkFrom, From
  <2>4. /\ UNCHANGED <<commits, commitRefs, lost, watermark, marked, torn>>
        /\ wm' = [wm EXCEPT ![r] = plan[r]] /\ wm \in [RefName -> OptionalSha]
    BY <2>1 DEF Walk, TypeOK, RunTypeOK
  <2>5. ASSUME ~torn, NEW q \in RefName, NEW s \in From(wm'[q])
        PROVE  \/ s \in pending' /\ <<s, q>> \in walked'
               \/ s \in commits /\ <<s, q>> \in commitRefs \cup lost
    <3>1. CASE s \in From(wm[q])
      BY <2>2, <2>5, <3>1
    <3>2. CASE s \notin From(wm[q])
      <4>1. q = r /\ s \in From(plan[r])
        BY <2>4, <2>5, <3>2
      <4> QED
        BY <2>2, <2>3, <3>2, <4>1
    <3> QED
      BY <3>1, <3>2
  <2> QED
    BY <2>4, <2>5 DEF From
<1>8. CASE EndWalk
  BY <1>8 DEF EndWalk
<1>9. CASE PersistChunk
  BY <1>9 DEF PersistChunk, Goto
<1>10. CASE MarkChunk
  BY <1>10 DEF MarkChunk, Goto
<1>11. ASSUME NEW t \in Tag, PopulateTag(t) PROVE Noted'
  BY <1>11 DEF PopulateTag
<1>12. CASE BeginReverts
  BY <1>12 DEF BeginReverts, Goto
<1>13. ASSUME NEW s \in Sha, FlagRevert(s) PROVE Noted'
  BY <1>13 DEF FlagRevert, Goto
<1>14. CASE LinkRevert
  BY <1>14 DEF LinkRevert, Goto
<1>15. CASE EndReverts
  BY <1>15 DEF EndReverts, Goto
<1>16. ASSUME NEW s \in Sha, ProbeCommit(s) \/ ProbeFails(s) PROVE Noted'
  BY <1>16 DEF ProbeCommit, ProbeFails, Found, NotFound
<1>17. CASE PruneOrphans
  <2>1. \A x \in commitRefs : x \in commitRefs' \cup lost
    BY <1>17 DEF PruneOrphans, Orphaned
  <2> QED
    BY <1>17, <2>1 DEF PruneOrphans, Goto, From
<1>18. CASE FlagPopulated
  BY <1>18 DEF FlagPopulated, Goto
<1>19. CASE BeginBackfill
  BY <1>19 DEF BeginBackfill
<1>20. CASE CopyChunk
  BY <1>20 DEF CopyChunk
<1>21. CASE EndBackfill
  BY <1>21 DEF EndBackfill, Goto
<1>22. CASE Finish
  BY <1>22 DEF Finish, Forget, From, Nowhere, WalkSound, Covers
<1>23. CASE WalkFails
  BY <1>23, <1>0 DEF WalkFails
<1>24. CASE TooManyVariables
  BY <1>24, <1>0 DEF TooManyVariables
<1>25. CASE Stop
  BY <1>25, <1>0 DEF Stop
<1>26. CASE UNCHANGED vars
  BY <1>26 DEF vars
<1> QED
  BY <1>1, <1>2, <1>3, <1>4, <1>5, <1>6, <1>7, <1>8, <1>9, <1>10, <1>11, <1>12, <1>13,
         <1>14, <1>15, <1>16, <1>17, <1>18, <1>19, <1>20, <1>21, <1>22, <1>23, <1>24,
         <1>25, <1>26
     DEF Next, RepositoryStep, RunStep, GitFails

(* Only the end of a run makes the index fresh.                            *)
LEMMA FreshStep ==
  ASSUME sync = "fresh" => pc = "idle", sync' = "fresh", [Next]_vars
  PROVE  Finish \/ UNCHANGED vars
<1> USE DEF repository, rows, derived, state, walk, loops, history, lapses
<1>1. CASE Gc
  BY <1>1 DEF Gc, Change
<1>2. ASSUME NEW r \in RefName, NEW s \in OptionalSha, UpdateRef(r,
       s) PROVE Finish \/ UNCHANGED vars
  BY <1>2 DEF UpdateRef, Change
<1>3. CASE BeginRun
  BY <1>3 DEF BeginRun, Goto
<1>4. CASE Rebuild
  BY <1>4 DEF Rebuild, Goto
<1>5. CASE ListHeads
  BY <1>5 DEF ListHeads, ListRefs, Goto
<1>6. CASE ListTags
  BY <1>6 DEF ListTags, ListRefs, Goto
<1>7. ASSUME NEW r \in RefName, WalkRef(r) \/ WalkRefAnew(r) PROVE Finish \/ UNCHANGED vars
  BY <1>7 DEF WalkRef, WalkRefAnew, Walk
<1>8. CASE EndWalk
  BY <1>8 DEF EndWalk
<1>9. CASE PersistChunk
  BY <1>9 DEF PersistChunk, Goto
<1>10. CASE MarkChunk
  BY <1>10 DEF MarkChunk, Goto
<1>11. ASSUME NEW t \in Tag, PopulateTag(t) PROVE Finish \/ UNCHANGED vars
  BY <1>11 DEF PopulateTag
<1>12. CASE BeginReverts
  BY <1>12 DEF BeginReverts, Goto
<1>13. ASSUME NEW s \in Sha, FlagRevert(s) PROVE Finish \/ UNCHANGED vars
  BY <1>13 DEF FlagRevert, Goto
<1>14. CASE LinkRevert
  BY <1>14 DEF LinkRevert, Goto
<1>15. CASE EndReverts
  BY <1>15 DEF EndReverts, Goto
<1>16. ASSUME NEW s \in Sha, ProbeCommit(s) \/ ProbeFails(s) PROVE Finish \/ UNCHANGED vars
  BY <1>16 DEF ProbeCommit, ProbeFails, Found, NotFound
<1>17. CASE PruneOrphans
  BY <1>17 DEF PruneOrphans, Goto
<1>18. CASE FlagPopulated
  BY <1>18 DEF FlagPopulated, Goto
<1>19. CASE BeginBackfill
  BY <1>19 DEF BeginBackfill
<1>20. CASE CopyChunk
  BY <1>20 DEF CopyChunk
<1>21. CASE EndBackfill
  BY <1>21 DEF EndBackfill, Goto
<1>22. CASE Finish
  BY <1>22 DEF Finish, Forget
<1>23. CASE WalkFails
  BY <1>23 DEF WalkFails, Abort, Forget
<1>24. CASE TooManyVariables
  BY <1>24 DEF TooManyVariables, Abort, Forget
<1>25. CASE Stop
  BY <1>25 DEF Stop, Abort, Forget
<1>26. CASE UNCHANGED vars
  BY <1>26 DEF vars
<1> QED
  BY <1>1, <1>2, <1>3, <1>4, <1>5, <1>6, <1>7, <1>8, <1>9, <1>10, <1>11, <1>12, <1>13,
         <1>14, <1>15, <1>16, <1>17, <1>18, <1>19, <1>20, <1>21, <1>22, <1>23, <1>24,
         <1>25, <1>26
     DEF Next, RepositoryStep, RunStep, GitFails
(* The run that ends on the repository it has seen leaves all of it.       *)
LEMMA MirrorsKept ==
  ASSUME TypeOK, Settled, WalkSound, Walked, InSync, Noted, Orphaned, MirrorsRefs,
         [Next]_vars
  PROVE  MirrorsRefs'
<1>1. SUFFICES ASSUME sync' = "fresh", ~torn'
               PROVE  /\ Reachable' \subseteq commits'
                      /\ \A r \in RefName : From(refs'[r]) \X {r} \subseteq commitRefs' \cup lost'
                      /\ \A x \in commitRefs' : x[1] \in objects'
  BY DEF MirrorsRefs, Reachable, From
<1>2. CASE UNCHANGED vars
  BY <1>1, <1>2 DEF MirrorsRefs, vars, repository, rows, history, lapses, Reachable, From
<1>3. CASE Finish
  <2>1. /\ pc = "finish" /\ sync = "running" /\ ~torn /\ pending = {} /\ unwalked = {}
        /\ plan = refs /\ UNCHANGED <<refs, objects, commits, commitRefs, lost>>
    BY <1>1, <1>3 DEF Finish, repository, rows, Settled, Walked, InSync
  <2>2. \A r \in RefName : refs[r] = NoSha \/ wm[r] = refs[r]
    BY <2>1 DEF Walked
  <2>3. ASSUME NEW r \in RefName, NEW s \in From(refs[r])
        PROVE  s \in commits /\ <<s, r>> \in commitRefs \cup lost
    <3>1. s \in From(wm[r])
      BY <2>2 DEF From
    <3> QED
      BY <2>1, <3>1 DEF Noted
  <2>4. \A x \in commitRefs : x[1] \in objects
    BY <2>1 DEF Orphaned
  <2>5. Reachable \subseteq commits
    BY <2>3 DEF Reachable
  <2> QED
    BY <2>1, <2>3, <2>4, <2>5 DEF Reachable, From
<1> QED
  BY <1>1, <1>2, <1>3, FreshStep DEF InSync

LEMMA MirrorInductive == Spec => [](IInv /\ MirrorInv)
<1>1. Init => MirrorInv
  <2> SUFFICES ASSUME Init PROVE MirrorInv
    OBVIOUS
  <2>1. Stored /\ Walked /\ InSync /\ Orphaned /\ MirrorsRefs
    BY DEF Init, Stored, Walked, InSync, Orphaned, MirrorsRefs, Nowhere
  <2>2. Noted
    <3>1. \A r \in RefName : From(wm[r]) = {}
      BY DEF Init, Nowhere, From
    <3>2. ASSUME NEW r \in RefName, NEW s \in From(watermark[r])
          PROVE  <<s, r>> \in commitRefs
      <4>1. watermark = refs /\ commits = Reachable
        BY <3>2 DEF Init, Nowhere, From
      <4>2. s \in commits
        BY <3>2, <4>1 DEF Reachable
      <4> QED
        BY <3>2, <4>1, <4>2 DEF Init
    <3> QED
      BY <3>1, <3>2 DEF Noted
  <2> QED
    BY <2>1, <2>2 DEF MirrorInv
<1>2. IInv /\ MirrorInv /\ [Next]_vars => MirrorInv'
  BY StoredKept, WalkedKept, InSyncKept, OrphanedKept, NotedKept, MirrorsKept DEF IInv,
         MirrorInv
<1> QED
  BY <1>1, <1>2, Inductive, PTL DEF Spec

(* A run that ends well on a repository that did not change leaves every   *)
(* reachable commit and its ref rows, and none for what git has pruned,    *)
(* but for the rows of commits a probe took for gone (indexer.rs:335-366,  *)
(* cli.rs:346): whatever is rewritten, pruned, fetched again or killed,    *)
(* as long as no run was torn.                                             *)
THEOREM Mirrors == Spec => []MirrorsRefs
<1>1. IInv /\ MirrorInv => MirrorsRefs
  BY DEF MirrorInv
<1> QED
  BY <1>1, MirrorInductive, PTL
-----------------------------------------------------------------------------
(* Until a run persists its map, the entries of refs it has not walked are *)
(* those of the watermark, and only run_initial populates the tags.        *)
Unmoved ==
  pc # "idle" /\ ~marked =>
    /\ \A r \in RefName : plan[r] = NoSha \/ r \in unwalked => wm[r] = watermark[r]
    /\ pc \in {"heads", "tags"} => wm = watermark
    /\ ~incremental => watermark = Nowhere
    /\ pc = "populate" => ~incremental

(* Only a run that has persisted a chunk and its watermark has touched     *)
(* commits.                                                                *)
Touches == touched # {} => marked \/ pc = "mark"

(* A row of tags is where a map says.                                      *)
RowAt(t, w) == w[t] # NoSha => tags[t] = w[t]

(* Before a run persists its map the rows agree with the watermark, and    *)
(* from then on with the map, once populate_tags has written them.         *)
TagRows ==
  ~torn => \A t \in Tag \ stale :
    /\ ~marked => RowAt(t, watermark)
    /\ marked => RowAt(t, wm) \/ (Unwritten(t) /\ plan[t] # NoSha)

TagInv == Walked /\ InSync /\ Unmoved /\ Touches /\ TagRows /\ TagsCurrent

(* A walk moves the entry of its ref; the rest waits for the watermark.    *)
LEMMA UnmovedKept ==
  ASSUME TypeOK, Clean, Settled, Unmoved, [Next]_vars
  PROVE  Unmoved'
<1> USE DEF Unmoved, Clean, Settled, Nowhere, TypeOK, RunTypeOK, repository, rows, derived, state, walk, loops,
       history, lapses
<1>1. CASE Gc
  BY <1>1 DEF Gc, Change
<1>2. ASSUME NEW r \in RefName, NEW s \in OptionalSha, UpdateRef(r, s) PROVE Unmoved'
  BY <1>2 DEF UpdateRef, Change
<1>3. CASE BeginRun
  BY <1>3 DEF BeginRun, Goto
<1>4. CASE Rebuild
  BY <1>4 DEF Rebuild, Goto
<1>5. CASE ListHeads
  BY <1>5 DEF ListHeads, ListRefs, Goto
<1>6. CASE ListTags
  BY <1>6 DEF ListTags, ListRefs, Goto
<1>7. ASSUME NEW r \in RefName, WalkRef(r) \/ WalkRefAnew(r) PROVE Unmoved'
  BY <1>7 DEF WalkRef, WalkRefAnew, Walk
<1>8. CASE EndWalk
  BY <1>8 DEF EndWalk
<1>9. CASE PersistChunk
  BY <1>9 DEF PersistChunk, Goto
<1>10. CASE MarkChunk
  BY <1>10 DEF MarkChunk, Goto
<1>11. ASSUME NEW t \in Tag, PopulateTag(t) PROVE Unmoved'
  BY <1>11 DEF PopulateTag
<1>12. CASE BeginReverts
  BY <1>12 DEF BeginReverts, Goto
<1>13. ASSUME NEW s \in Sha, FlagRevert(s) PROVE Unmoved'
  BY <1>13 DEF FlagRevert, Goto
<1>14. CASE LinkRevert
  BY <1>14 DEF LinkRevert, Goto
<1>15. CASE EndReverts
  BY <1>15 DEF EndReverts, Goto
<1>16. ASSUME NEW s \in Sha, ProbeCommit(s) \/ ProbeFails(s) PROVE Unmoved'
  BY <1>16 DEF ProbeCommit, ProbeFails, Found, NotFound
<1>17. CASE PruneOrphans
  BY <1>17 DEF PruneOrphans, Goto
<1>18. CASE FlagPopulated
  BY <1>18 DEF FlagPopulated, Goto
<1>19. CASE BeginBackfill
  BY <1>19 DEF BeginBackfill
<1>20. CASE CopyChunk
  BY <1>20 DEF CopyChunk
<1>21. CASE EndBackfill
  BY <1>21 DEF EndBackfill, Goto
<1>22. CASE Finish
  BY <1>22 DEF Finish, Forget
<1>23. CASE WalkFails
  BY <1>23 DEF WalkFails, Abort, Forget
<1>24. CASE TooManyVariables
  BY <1>24 DEF TooManyVariables, Abort, Forget
<1>25. CASE Stop
  BY <1>25 DEF Stop, Abort, Forget
<1>26. CASE UNCHANGED vars
  BY <1>26 DEF vars
<1> QED
  BY <1>1, <1>2, <1>3, <1>4, <1>5, <1>6, <1>7, <1>8, <1>9, <1>10, <1>11, <1>12, <1>13,
         <1>14, <1>15, <1>16, <1>17, <1>18, <1>19, <1>20, <1>21, <1>22, <1>23, <1>24,
         <1>25, <1>26
     DEF Next, RepositoryStep, RunStep, GitFails

(* Commits are touched before the watermark is marked, and in no other     *)
(* order.                                                                  *)
LEMMA TouchesKept ==
  ASSUME Touches, Clean, Settled, Walked, [Next]_vars
  PROVE  Touches'
<1> USE DEF Touches, Clean, Settled, Walked, repository, rows, derived, state, walk, loops,
       history, lapses
<1>1. CASE Gc
  BY <1>1 DEF Gc, Change
<1>2. ASSUME NEW r \in RefName, NEW s \in OptionalSha, UpdateRef(r, s) PROVE Touches'
  BY <1>2 DEF UpdateRef, Change
<1>3. CASE BeginRun
  BY <1>3 DEF BeginRun, Goto
<1>4. CASE Rebuild
  BY <1>4 DEF Rebuild, Goto
<1>5. CASE ListHeads
  BY <1>5 DEF ListHeads, ListRefs, Goto
<1>6. CASE ListTags
  BY <1>6 DEF ListTags, ListRefs, Goto
<1>7. ASSUME NEW r \in RefName, WalkRef(r) \/ WalkRefAnew(r) PROVE Touches'
  BY <1>7 DEF WalkRef, WalkRefAnew, Walk
<1>8. CASE EndWalk
  BY <1>8 DEF EndWalk
<1>9. CASE PersistChunk
  BY <1>9 DEF PersistChunk, Goto
<1>10. CASE MarkChunk
  BY <1>10 DEF MarkChunk, Goto
<1>11. ASSUME NEW t \in Tag, PopulateTag(t) PROVE Touches'
  BY <1>11 DEF PopulateTag
<1>12. CASE BeginReverts
  BY <1>12 DEF BeginReverts, Goto
<1>13. ASSUME NEW s \in Sha, FlagRevert(s) PROVE Touches'
  BY <1>13 DEF FlagRevert, Goto
<1>14. CASE LinkRevert
  BY <1>14 DEF LinkRevert, Goto
<1>15. CASE EndReverts
  BY <1>15 DEF EndReverts, Goto
<1>16. ASSUME NEW s \in Sha, ProbeCommit(s) \/ ProbeFails(s) PROVE Touches'
  BY <1>16 DEF ProbeCommit, ProbeFails, Found, NotFound
<1>17. CASE PruneOrphans
  BY <1>17 DEF PruneOrphans, Goto
<1>18. CASE FlagPopulated
  BY <1>18 DEF FlagPopulated, Goto
<1>19. CASE BeginBackfill
  BY <1>19 DEF BeginBackfill
<1>20. CASE CopyChunk
  BY <1>20 DEF CopyChunk
<1>21. CASE EndBackfill
  BY <1>21 DEF EndBackfill, Goto
<1>22. CASE Finish
  BY <1>22 DEF Finish, Forget
<1>23. CASE WalkFails
  BY <1>23 DEF WalkFails, Abort, Forget
<1>24. CASE TooManyVariables
  BY <1>24 DEF TooManyVariables, Abort, Forget
<1>25. CASE Stop
  BY <1>25 DEF Stop, Abort, Forget
<1>26. CASE UNCHANGED vars
  BY <1>26 DEF vars
<1> QED
  BY <1>1, <1>2, <1>3, <1>4, <1>5, <1>6, <1>7, <1>8, <1>9, <1>10, <1>11, <1>12, <1>13,
         <1>14, <1>15, <1>16, <1>17, <1>18, <1>19, <1>20, <1>21, <1>22, <1>23, <1>24,
         <1>25, <1>26
     DEF Next, RepositoryStep, RunStep, GitFails

(* A run that moves an entry of the map without writing the row of the tag *)
(* leaves the tag in stale.                                                *)
LEMMA TagRowsKept ==
  ASSUME TypeOK, Clean, Settled, WalkSound, Walked, Unmoved, Touches, TagRows,
         [Next]_vars
  PROVE  TagRows'
<1> USE DEF TagRows, RowAt, Unwritten, Clean, Settled, Nowhere, TypeOK, RepositoryTypeOK,
       IndexTypeOK, RunTypeOK, OptionalSha, RefName, repository, rows, derived, state, walk, loops,
       history, lapses
<1>1. CASE Gc
  BY <1>1 DEF Gc, Change
<1>2. ASSUME NEW r \in RefName, NEW s \in OptionalSha, UpdateRef(r, s) PROVE TagRows'
  BY <1>2 DEF UpdateRef, Change
<1>3. CASE BeginRun
  BY <1>3 DEF BeginRun, Goto
<1>4. CASE Rebuild
  BY <1>4 DEF Rebuild, Goto
<1>5. CASE ListHeads
  BY <1>5 DEF ListHeads, ListRefs, Goto
<1>6. CASE ListTags
  BY <1>6 DEF ListTags, ListRefs, Goto
<1>7. ASSUME NEW r \in RefName, WalkRef(r) \/ WalkRefAnew(r) PROVE TagRows'
  BY <1>7 DEF WalkRef, WalkRefAnew, Walk
<1>8. CASE EndWalk
  BY <1>8 DEF EndWalk
<1>9. CASE PersistChunk
  BY <1>9 DEF PersistChunk, Goto
<1>10. CASE MarkChunk
  BY <1>10 DEF MarkChunk, Goto, Unmoved
<1>11. ASSUME NEW t \in Tag, PopulateTag(t) PROVE TagRows'
  <2>1. plan[t] # NoSha /\ ~torn => wm[t] = plan[t] /\ plan[t] \in commits
    BY <1>11, FromTypeOK DEF PopulateTag, Walked, WalkSound, Covers
  <2>2. plan[t] = NoSha => plan[t] \notin commits
    BY ShaAssumption
  <2>3. /\ ~marked => watermark = Nowhere
        /\ pc = "populate" /\ UNCHANGED <<pc, wm, plan, watermark, marked, torn>>
    BY <1>11 DEF PopulateTag, Unmoved
  <2>4. CASE plan[t] \in commits
    <3>1. /\ stale' = stale \ {t} /\ todo' = todo \ {t}
          /\ \A u \in Tag : tags'[u] = IF u = t THEN plan[t] ELSE tags[u]
      BY <1>11, <2>4 DEF PopulateTag
    <3>2. ASSUME ~torn, NEW u \in Tag \ stale', marked
          PROVE  (RowAt(u, wm) \/ (Unwritten(u) /\ plan[u] # NoSha))'
      BY <2>1, <2>2, <2>3, <2>4, <3>1, <3>2
    <3> QED
      BY <2>3, <3>2
  <2>5. CASE plan[t] \notin commits
    <3>1. UNCHANGED <<stale, tags>> /\ todo' = todo \ {t}
      BY <1>11, <2>5 DEF PopulateTag
    <3>2. ASSUME ~torn, NEW u \in Tag \ stale', marked
          PROVE  (RowAt(u, wm) \/ (Unwritten(u) /\ plan[u] # NoSha))'
      BY <2>1, <2>3, <2>5, <3>1, <3>2
    <3> QED
      BY <2>3, <3>2
  <2> QED
    BY <2>4, <2>5
<1>12. CASE BeginReverts
  BY <1>12 DEF BeginReverts, Goto
<1>13. ASSUME NEW s \in Sha, FlagRevert(s) PROVE TagRows'
  BY <1>13 DEF FlagRevert, Goto
<1>14. CASE LinkRevert
  BY <1>14 DEF LinkRevert, Goto
<1>15. CASE EndReverts
  BY <1>15 DEF EndReverts, Goto
<1>16. ASSUME NEW s \in Sha, ProbeCommit(s) \/ ProbeFails(s) PROVE TagRows'
  BY <1>16 DEF ProbeCommit, ProbeFails, Found, NotFound
<1>17. CASE PruneOrphans
  BY <1>17 DEF PruneOrphans, Goto
<1>18. CASE FlagPopulated
  BY <1>18 DEF FlagPopulated, Goto
<1>19. CASE BeginBackfill
  BY <1>19 DEF BeginBackfill
<1>20. CASE CopyChunk
  BY <1>20 DEF CopyChunk
<1>21. CASE EndBackfill
  BY <1>21 DEF EndBackfill, Goto
<1>22. CASE Finish
  BY <1>22 DEF Finish, Forget, Touches
<1>23. CASE WalkFails
  BY <1>23 DEF WalkFails, Abort, Forget, Walked
<1>24. CASE TooManyVariables
  BY <1>24 DEF TooManyVariables, Abort, Forget, Walked
<1>25. CASE Stop
  BY <1>25 DEF Stop, Abort, Forget, Walked
<1>26. CASE UNCHANGED vars
  BY <1>26 DEF vars
<1> QED
  BY <1>1, <1>2, <1>3, <1>4, <1>5, <1>6, <1>7, <1>8, <1>9, <1>10, <1>11, <1>12, <1>13,
         <1>14, <1>15, <1>16, <1>17, <1>18, <1>19, <1>20, <1>21, <1>22, <1>23, <1>24,
         <1>25, <1>26
     DEF Next, RepositoryStep, RunStep, GitFails

LEMMA TagsCurrentKept ==
  ASSUME Settled, Walked, InSync, TagRows', TagsCurrent, [Next]_vars
  PROVE  TagsCurrent'
<1>1. SUFFICES ASSUME sync' = "fresh", ~torn', NEW t \in Tag \ stale', refs'[t] # NoSha
               PROVE  tags'[t] = refs'[t]
  BY DEF TagsCurrent
<1>2. CASE UNCHANGED vars
  BY <1>1, <1>2 DEF TagsCurrent, vars, repository, derived, history, lapses
<1>3. CASE Finish
  <2>1. /\ sync = "running" /\ pc = "finish" /\ unwalked = {} /\ plan = refs
        /\ UNCHANGED refs /\ watermark' = wm /\ ~marked'
    BY <1>1, <1>3 DEF Finish, Forget, repository, Walked, InSync
  <2>2. wm[t] = refs[t]
    BY <1>1, <2>1 DEF Walked, RefName
  <2>3. RowAt(t, watermark)'
    BY <1>1, <2>1 DEF TagRows
  <2> QED
    BY <1>1, <2>1, <2>2, <2>3 DEF RowAt
<1> QED
  BY <1>1, <1>2, <1>3, FreshStep DEF InSync

LEMMA TagInductive == Spec => [](IInv /\ TagInv)
<1>1. Init => TagInv
  <2> SUFFICES ASSUME Init PROVE TagInv
    OBVIOUS
  <2>1. Walked /\ InSync /\ Unmoved /\ Touches /\ TagsCurrent
    BY DEF Init, Walked, InSync, Unmoved, Touches, TagsCurrent, Nowhere
  <2>2. TagRows
    BY DEF Init, TagRows, RowAt, Nowhere, RefName
  <2> QED
    BY <2>1, <2>2 DEF TagInv
<1>2. IInv /\ TagInv /\ [Next]_vars => TagInv'
  <2> SUFFICES ASSUME IInv, TagInv, [Next]_vars PROVE TagInv'
    OBVIOUS
  <2> USE DEF IInv, TagInv
  <2>1. Walked' /\ InSync' /\ Unmoved' /\ Touches'
    BY WalkedKept, InSyncKept, UnmovedKept, TouchesKept
  <2>2. TagRows'
    BY TagRowsKept
  <2>3. TagsCurrent'
    BY <2>2, TagsCurrentKept
  <2> QED
    BY <2>1, <2>2, <2>3
<1> QED
  BY <1>1, <1>2, Inductive, PTL DEF Spec

(* populate_tags (indexer.rs:638) leaves every tag at its commit, however  *)
(* refs are rewritten and runs are killed, but for the tags that a run     *)
(* without a new commit, or one that stopped, is known to have passed over *)
(* and no later run has written.                                           *)
THEOREM Tags == Spec => []TagsCurrent
<1>1. IInv /\ TagInv => TagsCurrent
  BY DEF TagInv
<1> QED
  BY <1>1, TagInductive, PTL

-----------------------------------------------------------------------------
(* What a run is to persist, or has persisted, comes with its ancestors.   *)
Closed ==
  ~torn => \A s \in pending \cup touched : History[s] \subseteq commits \cup pending

Linked(s) ==
  /\ s \in isRevert
  /\ \A t \in Trailer[s] \cap History[s] : revertedBy[t] \in Reverters(t)

(* Every revert in the index is linked, or a run will link it yet, or one  *)
(* that stopped has missed it.                                             *)
RevertRows ==
  /\ pc \in {"reverts", "link"} => todo \subseteq touched \cap Reverts
  /\ pc = "link" => at \in touched \cap Reverts \cap isRevert
  /\ ~torn => \A s \in (commits \cap Reverts) \ missed : Linked(s) \/ Unlinked(s)

LinkInv == InSync /\ Closed /\ RevertRows /\ RevertsLinked

(* A walk stops at commits whose ancestors all have rows.                  *)
LEMMA ClosedKept ==
  ASSUME TypeOK, Clean, Settled, WalkSound, Closed, [Next]_vars
  PROVE  Closed'
<1> USE DEF Closed, Clean, Settled, TypeOK, IndexTypeOK, RunTypeOK, repository, rows, derived, state, walk, loops,
       history, lapses
<1>1. CASE Gc
  BY <1>1 DEF Gc, Change
<1>2. ASSUME NEW r \in RefName, NEW s \in OptionalSha, UpdateRef(r, s) PROVE Closed'
  BY <1>2 DEF UpdateRef, Change
<1>3. CASE BeginRun
  BY <1>3 DEF BeginRun, Goto
<1>4. CASE Rebuild
  BY <1>4 DEF Rebuild, Goto
<1>5. CASE ListHeads
  BY <1>5 DEF ListHeads, ListRefs, Goto
<1>6. CASE ListTags
  BY <1>6 DEF ListTags, ListRefs, Goto
<1>7. ASSUME NEW r \in RefName, WalkRef(r) \/ WalkRefAnew(r) PROVE Closed'
  <2>1. PICK from \in {NoSha, WalkFrom(r)} : Walk(r, from)
    BY <1>7 DEF WalkRef, WalkRefAnew
  <2>2. /\ pending' = pending \cup (From(plan[r]) \ From(from))
        /\ UNCHANGED <<commits, touched, torn>>
    BY <2>1 DEF Walk
  <2>3. ~torn => From(from) \subseteq commits \cup pending
    BY DEF WalkSound, Covers, WalkFrom, From
  <2>4. \A s \in From(plan[r]) : History[s] \subseteq From(plan[r])
    BY HistoryAssumption DEF From, OptionalSha
  <2> QED
    BY <2>2, <2>3, <2>4
<1>8. CASE EndWalk
  BY <1>8 DEF EndWalk
<1>9. CASE PersistChunk
  BY <1>9 DEF PersistChunk, Goto
<1>10. CASE MarkChunk
  BY <1>10 DEF MarkChunk, Goto
<1>11. ASSUME NEW t \in Tag, PopulateTag(t) PROVE Closed'
  BY <1>11 DEF PopulateTag
<1>12. CASE BeginReverts
  BY <1>12 DEF BeginReverts, Goto
<1>13. ASSUME NEW s \in Sha, FlagRevert(s) PROVE Closed'
  BY <1>13 DEF FlagRevert, Goto
<1>14. CASE LinkRevert
  BY <1>14 DEF LinkRevert, Goto
<1>15. CASE EndReverts
  BY <1>15 DEF EndReverts, Goto
<1>16. ASSUME NEW s \in Sha, ProbeCommit(s) \/ ProbeFails(s) PROVE Closed'
  BY <1>16 DEF ProbeCommit, ProbeFails, Found, NotFound
<1>17. CASE PruneOrphans
  BY <1>17 DEF PruneOrphans, Goto
<1>18. CASE FlagPopulated
  BY <1>18 DEF FlagPopulated, Goto
<1>19. CASE BeginBackfill
  BY <1>19 DEF BeginBackfill
<1>20. CASE CopyChunk
  BY <1>20 DEF CopyChunk
<1>21. CASE EndBackfill
  BY <1>21 DEF EndBackfill, Goto
<1>22. CASE Finish
  BY <1>22 DEF Finish, Forget
<1>23. CASE WalkFails
  BY <1>23 DEF WalkFails, Abort, Forget
<1>24. CASE TooManyVariables
  BY <1>24 DEF TooManyVariables, Abort, Forget
<1>25. CASE Stop
  BY <1>25 DEF Stop, Abort, Forget
<1>26. CASE UNCHANGED vars
  BY <1>26 DEF vars
<1> QED
  BY <1>1, <1>2, <1>3, <1>4, <1>5, <1>6, <1>7, <1>8, <1>9, <1>10, <1>11, <1>12, <1>13,
         <1>14, <1>15, <1>16, <1>17, <1>18, <1>19, <1>20, <1>21, <1>22, <1>23, <1>24,
         <1>25, <1>26
     DEF Next, RepositoryStep, RunStep, GitFails

(* Every revert that gets a row is looked at by the run that wrote it, or  *)
(* missed.                                                                 *)
LEMMA RevertRowsKept ==
  ASSUME TypeOK, Clean, Settled, Closed, RevertRows, [Next]_vars
  PROVE  RevertRows'
<1> USE DEF RevertRows, Linked, Unlinked, Reverters, Clean, Settled, TypeOK, IndexTypeOK,
       RunTypeOK, repository, rows, derived, state, walk, loops,
       history, lapses
<1>1. CASE Gc
  BY <1>1 DEF Gc, Change
<1>2. ASSUME NEW r \in RefName, NEW s \in OptionalSha, UpdateRef(r, s) PROVE RevertRows'
  BY <1>2 DEF UpdateRef, Change
<1>3. CASE BeginRun
  BY <1>3 DEF BeginRun, Goto
<1>4. CASE Rebuild
  BY <1>4 DEF Rebuild, Goto
<1>5. CASE ListHeads
  BY <1>5 DEF ListHeads, ListRefs, Goto
<1>6. CASE ListTags
  BY <1>6 DEF ListTags, ListRefs, Goto
<1>7. ASSUME NEW r \in RefName, WalkRef(r) \/ WalkRefAnew(r) PROVE RevertRows'
  BY <1>7 DEF WalkRef, WalkRefAnew, Walk
<1>8. CASE EndWalk
  BY <1>8 DEF EndWalk
<1>9. CASE PersistChunk
  BY <1>9 DEF PersistChunk, Goto
<1>10. CASE MarkChunk
  BY <1>10 DEF MarkChunk, Goto
<1>11. ASSUME NEW t \in Tag, PopulateTag(t) PROVE RevertRows'
  BY <1>11 DEF PopulateTag
<1>12. CASE BeginReverts
  BY <1>12 DEF BeginReverts, Goto
<1>13. ASSUME NEW s \in Sha, FlagRevert(s) PROVE RevertRows'
  BY <1>13 DEF FlagRevert, Goto
<1>14. CASE LinkRevert
  <2>1. /\ at \in touched \cap Reverts \cap isRevert /\ at \in commits
        /\ UNCHANGED <<commits, isRevert, todo, touched, torn>> /\ pc = "link"
        /\ pc' = "reverts" /\ missed' = missed \ {at}
    BY <1>14 DEF LinkRevert, Goto
  <2>2. ~torn => History[at] \subseteq commits
    BY <2>1 DEF Closed
  <2>3. \A t \in Sha :
          revertedBy'[t] = IF t \in Trailer[at] \cap commits THEN at ELSE revertedBy[t]
    BY <1>14 DEF LinkRevert
  <2>4. /\ Reverts \subseteq Sha /\ commits \subseteq Sha /\ Trailer \in [Sha -> SUBSET Sha]
    BY RevertAssumption
  <2>5. ASSUME NEW s \in commits \cap Reverts, NEW t \in Trailer[s] \cap History[s],
               revertedBy[t] \in Reverters(t) \/ t \in Trailer[at] \cap commits
        PROVE  revertedBy'[t] \in Reverters(t)'
    BY <2>1, <2>3, <2>4, <2>5
  <2>6. ASSUME ~torn, NEW s \in (commits \cap Reverts) \ missed'
        PROVE  (Linked(s) \/ Unlinked(s))'
    <3>1. CASE s = at
      BY <2>1, <2>2, <2>5, <2>6, <3>1
    <3>2. CASE s # at
      BY <2>1, <2>5, <2>6, <3>2
    <3> QED
      BY <3>1, <3>2
  <2> QED
    BY <2>1, <2>6
<1>15. CASE EndReverts
  BY <1>15 DEF EndReverts, Goto
<1>16. ASSUME NEW s \in Sha, ProbeCommit(s) \/ ProbeFails(s) PROVE RevertRows'
  BY <1>16 DEF ProbeCommit, ProbeFails, Found, NotFound
<1>17. CASE PruneOrphans
  BY <1>17 DEF PruneOrphans, Goto
<1>18. CASE FlagPopulated
  BY <1>18 DEF FlagPopulated, Goto
<1>19. CASE BeginBackfill
  BY <1>19 DEF BeginBackfill
<1>20. CASE CopyChunk
  BY <1>20 DEF CopyChunk
<1>21. CASE EndBackfill
  BY <1>21 DEF EndBackfill, Goto
<1>22. CASE Finish
  BY <1>22 DEF Finish, Forget
<1>23. CASE WalkFails
  BY <1>23 DEF WalkFails, Abort, Forget
<1>24. CASE TooManyVariables
  BY <1>24 DEF TooManyVariables, Abort, Forget
<1>25. CASE Stop
  BY <1>25 DEF Stop, Abort, Forget
<1>26. CASE UNCHANGED vars
  BY <1>26 DEF vars
<1> QED
  BY <1>1, <1>2, <1>3, <1>4, <1>5, <1>6, <1>7, <1>8, <1>9, <1>10, <1>11, <1>12, <1>13,
         <1>14, <1>15, <1>16, <1>17, <1>18, <1>19, <1>20, <1>21, <1>22, <1>23, <1>24,
         <1>25, <1>26
     DEF Next, RepositoryStep, RunStep, GitFails

LEMMA RevertsLinkedKept ==
  ASSUME InSync, RevertRows, RevertsLinked, [Next]_vars
  PROVE  RevertsLinked'
<1>1. SUFFICES ASSUME sync' = "fresh", ~torn', NEW s \in (commits' \cap Reverts) \ missed'
               PROVE  /\ s \in isRevert'
                      /\ \A t \in Trailer[s] \cap History[s] : (revertedBy[t] \in Reverters(t))'
  BY DEF RevertsLinked
<1>2. CASE UNCHANGED vars
  BY <1>1, <1>2 DEF RevertsLinked, Reverters, vars, rows, derived, history, lapses
<1>3. CASE Finish
  <2>1. pc = "finish" /\ UNCHANGED <<commits, isRevert, revertedBy, torn, missed>>
    BY <1>3 DEF Finish, rows, derived
  <2>2. Linked(s)
    BY <1>1, <2>1 DEF RevertRows, Unlinked
  <2> QED
    BY <2>1, <2>2 DEF Linked, Reverters
<1> QED
  BY <1>1, <1>2, <1>3, FreshStep DEF InSync

LEMMA LinkInductive == Spec => [](IInv /\ LinkInv)
<1>1. Init => LinkInv
  <2> SUFFICES ASSUME Init PROVE LinkInv
    OBVIOUS
  <2>1. InSync /\ RevertsLinked /\ Closed
    BY DEF Init, InSync, RevertsLinked, Closed
  <2>2. RevertRows
    <3>1. \A r \in RefName : refs[r] \in OptionalSha
      BY DEF Init
    <3>2. \A s \in Reachable : History[s] \subseteq Reachable
      BY <3>1, HistoryAssumption DEF Reachable, From, OptionalSha
    <3>3. \A s \in Reverts : \A t \in Trailer[s] : s \in Sha /\ t \in Sha
      BY RevertAssumption
    <3>4. ASSUME NEW s \in commits \cap Reverts, NEW t \in Trailer[s] \cap History[s]
          PROVE  revertedBy[t] \in Reverters(t)
      <4>1. s \in Reverters(t)
        BY DEF Reverters
      <4>2. t \in commits
        BY <3>2 DEF Init
      <4> QED
        BY <3>3, <4>1, <4>2 DEF Init
    <3> QED
      BY <3>4 DEF Init, RevertRows, Linked
  <2> QED
    BY <2>1, <2>2 DEF LinkInv
<1>2. IInv /\ LinkInv /\ [Next]_vars => LinkInv'
  BY InSyncKept, ClosedKept, RevertRowsKept, RevertsLinkedKept DEF IInv, LinkInv
<1> QED
  BY <1>1, <1>2, Inductive, PTL DEF Spec

(* detect_reverts (indexer.rs:679) flags every revert and links every      *)
(* ancestor it names, but for the reverts of runs that stopped first: by a *)
(* kill, an error, or more commits than its one SELECT can bind.           *)
THEOREM Reverted == Spec => []RevertsLinked
<1>1. IInv /\ LinkInv => RevertsLinked
  BY DEF LinkInv
<1> QED
  BY <1>1, LinkInductive, PTL
=============================================================================
