-------------------------- MODULE SearchQueryProofs --------------------------
(* Proofs about SearchQuery, for every set of commits, texts, requests,     *)
(* limits and versions of the schema.                                       *)
EXTENDS SearchQuery, FiniteSetTheorems, TLAPS

LEMMA Versions ==
  /\ Latest \in Nat /\ ContentFts \in Nat /\ ContentFts >= 4 /\ ContentFts <= Latest
  /\ MaxIndexed \in Nat /\ MaxKills \in Nat
BY VersionAssumption, BoundAssumption

(* The limit of a search is a number of hits, and never more than the cap.  *)
LEMMA AskedOK ==
  ASSUME NEW r \in Request
  PROVE  Asked(r).text \in Text /\ Asked(r).limit \in 0 .. AbsCap
<1>1. /\ Tty \in Nat /\ SoftCap \in Nat /\ AbsCap \in Nat /\ Tty <= AbsCap /\ SoftCap <= AbsCap
  BY CapAssumption
<1>2. r.text \in Text /\ (r.limit \in Nat \/ r.limit = Unset) /\ r.json \in BOOLEAN
  BY RequestAssumption
<1>3. EffectiveLimit(r.limit, r.json) \in 0 .. AbsCap
  BY <1>1, <1>2 DEF EffectiveLimit, Unset
<1> QED
  BY <1>2, <1>3 DEF Asked

(* An order of a finite set lists all of it, each element once.             *)
LEMMA OrderOfSet ==
  ASSUME NEW S, IsFiniteSet(S), NEW rows \in SetToSeqs(S)
  PROVE  /\ rows \in Seq(S) /\ Len(rows) = Cardinality(S) /\ DOMAIN rows = 1 .. Len(rows)
         /\ Len(rows) \in Nat
         /\ \A x \in S : \E i \in 1 .. Len(rows) : rows[i] = x
<1>1. Cardinality(S) \in Nat
  BY FS_CardinalityType
<1>2. rows \in [1 .. Cardinality(S) -> S]
      /\ \A i, j \in 1 .. Cardinality(S) : i # j => rows[i] # rows[j]
  BY DEF SetToSeqs
<1>3. rows \in Seq(S) /\ Len(rows) = Cardinality(S)
  BY <1>1, <1>2
<1>4. rows \in Injection(1 .. Cardinality(S), S)
  BY <1>2 DEF Injection, IsInjective
<1>5. Cardinality(1 .. Cardinality(S)) = Cardinality(S)
  BY <1>1, FS_Interval
<1>6. rows \in Surjection(1 .. Cardinality(S), S)
  BY <1>4, <1>5, FS_Injection
<1> QED
  BY <1>1, <1>2, <1>3, <1>6 DEF Surjection

(* What migrations do to the marker.                                        *)
LEMMA MigrateMarks ==
  ASSUME Migrate, version \in Nat
  PROVE  /\ version' = ContentFts => populated' = "false"
         /\ version' = 3 => populated' \in {"false", "true"}
         /\ version' # 3 /\ version' # ContentFts => populated' = populated
<1>1. ContentFts # 3
  BY Versions
<1>2. CASE version' = ContentFts
  <2>1. version' # 3
    BY <1>1, <1>2
  <2>2. populated' = "false"
    BY <1>2, <2>1 DEF Migrate
  <2> QED
    BY <1>2, <2>1, <2>2
<1>3. CASE version' = 3
  <2>1. version' # ContentFts
    BY <1>1, <1>3
  <2>2. populated' = IF commits = {} THEN "true" ELSE "false"
    BY <1>3, <2>1 DEF Migrate
  <2> QED
    BY <1>3, <2>1, <2>2
<1>4. CASE version' # ContentFts /\ version' # 3
  BY <1>4 DEF Migrate
<1> QED
  BY <1>2, <1>3, <1>4

-----------------------------------------------------------------------------
(* The inductive invariant.                                                 *)

Searching == pc \in {"sha", "rank"}
Found == {x[1] : x \in raw}

(* Nothing takes the rows of a commit out of commits_fts once 0004 has run, *)
(* and what 0004 took out comes back before the marker says so, unless a    *)
(* run that brought commits sets it early.                                  *)
Indexed ==
  /\ version >= ContentFts => populated # "absent"
  /\ stripped => commits # {}
  /\ version >= ContentFts /\ ~stripped => \A s \in commits : fts[s] > 0
  /\ version >= ContentFts /\ populated = "true" /\ stripped => early
  /\ wpc = "copy" => \A s \in commits \ todo : fts[s] > 0

(* From the readiness check on, the commits of that moment can be matched.  *)
Ready ==
  /\ pc # "idle" => q.text \in Text
  /\ Searching /\ at >= ContentFts /\ ~early => \A s \in settled : fts[s] > 0

(* What the MATCH left out is a weaker match than all it kept.              *)
Selected ==
  pc = "rank" =>
    /\ Cardinality(raw) <= q.limit
    /\ \A x \in raw : x[1] \in Matches[q.text] /\ (at >= ContentFts => fts[x[1]] > 0)
    /\ at >= ContentFts /\ ~early =>
         \A s \in (settled \cap Matches[q.text]) \ Found :
           Cardinality(raw) = q.limit /\ \A x \in raw : Bm25[q.text][x[1]] >= Bm25[q.text][s]
    /\ Lexical(answer) /\ answer.version >= ContentFts /\ answer.q = q =>
         Hits(answer) \subseteq Found \/ Cardinality(raw) = q.limit

(* The hits of an answer stay where a later search finds them.              *)
Kept4 ==
  Lexical(answer) =>
    /\ answer.version \in 0 .. version
    /\ \A h \in Hits(answer) :
         /\ h \in commits \cap Matches[answer.q.text]
         /\ answer.version >= ContentFts => fts[h] > 0

IInv ==
  /\ TypeOK /\ Indexed /\ Ready /\ Selected /\ Kept4
  /\ CompleteUnlessUpgraded /\ StrongestKept

LEMMA FiniteProduct == \A S \in SUBSET Sha : IsFiniteSet(S \X {1, 2})
<1> SUFFICES ASSUME NEW S \in SUBSET Sha PROVE IsFiniteSet(S \X {1, 2})
  OBVIOUS
<1>1. IsFiniteSet({1} \cup {2})
  BY FS_Singleton, FS_AddElement
<1>2. {1} \cup {2} = {1, 2}
  OBVIOUS
<1>3. IsFiniteSet(S)
  BY FS_Subset, MatchAssumption
<1> QED
  BY <1>1, <1>2, <1>3, FS_Product

LEMMA FiniteRaw ==
  ASSUME raw \subseteq commits \X {1, 2}, commits \subseteq Sha
  PROVE  IsFiniteSet(raw) /\ Cardinality(raw) \in Nat
<1>1. IsFiniteSet(commits \X {1, 2})
  BY FiniteProduct
<1> QED
  BY <1>1, FS_Subset, FS_CardinalityType

-----------------------------------------------------------------------------
(* The writer.                                                              *)

LEMMA InsertFtsGrows ==
  ASSUME fts \in [Sha -> 0 .. 2], NEW c, InsertFts(c)
  PROVE  /\ fts' \in [Sha -> 0 .. 2]
         /\ \A s \in Sha : (fts[s] > 0 => fts'[s] > 0) /\ (s \in c => fts'[s] > 0)
BY DEF InsertFts

LEMMA InitIInv == Init => IInv
<1> SUFFICES ASSUME Init PROVE IInv
  OBVIOUS
<1>1. version \in 0 .. Latest /\ commits \subseteq Sha /\ (version = 0 => commits = {})
  BY Versions DEF Init
<1>2. TypeOK
  <2>1. IndexTypeOK
    BY <1>1 DEF Init, IndexTypeOK
  <2>2. WriterTypeOK
    <3>1. written \in 0 .. MaxIndexed /\ kills \in 0 .. MaxKills
      BY Versions DEF Init
    <3>2. touched \in BOOLEAN /\ stripped \in BOOLEAN /\ early \in BOOLEAN
      BY DEF Init
    <3>3. wpc = "idle" /\ todo \subseteq commits
      BY DEF Init
    <3> QED
      BY <3>1, <3>2, <3>3 DEF WriterTypeOK
  <2>3. SearchTypeOK
    <3>1. at = 0 /\ answer.kind = "error" /\ version \in Nat
      BY <1>1, Versions DEF Init, NoAnswer, Failed
    <3> QED
      BY <3>1 DEF Init, SearchTypeOK
  <2> QED
    BY <2>1, <2>2, <2>3 DEF TypeOK
<1>3. Indexed
  BY <1>1, Versions DEF Init, Indexed
<1>4. Ready /\ Selected
  BY DEF Init, Ready, Searching, Selected
<1>5. Kept4 /\ CompleteUnlessUpgraded /\ StrongestKept
  BY DEF Init, Kept4, CompleteUnlessUpgraded, StrongestKept, Trustworthy, Lexical, NoAnswer,
         Failed
<1> QED
  BY <1>2, <1>3, <1>4, <1>5 DEF IInv

(* What a run may do to the index as far as a search can tell.              *)
Grows ==
  /\ commits \subseteq commits' /\ version' >= version /\ version' \in Nat
  /\ (early => early')
  /\ version >= ContentFts => \A s \in commits : fts[s] > 0 => fts'[s] > 0

LEMMA WriterIndex ==
  ASSUME IndexTypeOK, WriterTypeOK, WriterStep
  PROVE  IndexTypeOK' /\ UNCHANGED search
<1> USE DEF IndexTypeOK, WriterTypeOK, index, writer
<1>1. CASE BeginRun
  BY <1>1 DEF BeginRun, Write
<1>2. CASE Migrate
  BY <1>2, Versions, MigrateMarks DEF Migrate
<1>3. CASE Migrated
  BY <1>3 DEF Migrated, Write
<1>4. ASSUME NEW c \in SUBSET Sha, PersistChunk(c) PROVE IndexTypeOK' /\ UNCHANGED search
  BY <1>4, InsertFtsGrows DEF PersistChunk
<1>5. CASE FlagPopulated
  BY <1>5 DEF FlagPopulated, Write
<1>6. CASE BeginBackfill
  BY <1>6 DEF BeginBackfill
<1>7. ASSUME NEW s \in Sha, Copy(s) PROVE IndexTypeOK' /\ UNCHANGED search
  BY <1>7, InsertFtsGrows DEF Copy
<1>8. CASE EndBackfill
  BY <1>8 DEF EndBackfill, Write
<1>9. CASE KillWriter
  BY <1>9 DEF KillWriter
<1> QED
  BY <1>1, <1>2, <1>3, <1>4, <1>5, <1>6, <1>7, <1>8, <1>9 DEF WriterStep

LEMMA WriterGrows ==
  ASSUME IndexTypeOK, WriterTypeOK, WriterStep
  PROVE  Grows
<1> USE DEF Grows, IndexTypeOK, WriterTypeOK, index, writer
<1>1. CASE BeginRun
  BY <1>1 DEF BeginRun, Write
<1>2. CASE Migrate
  BY <1>2, Versions DEF Migrate
<1>3. CASE Migrated
  BY <1>3 DEF Migrated, Write
<1>4. ASSUME NEW c \in SUBSET Sha, PersistChunk(c) PROVE Grows
  BY <1>4, InsertFtsGrows DEF PersistChunk
<1>5. CASE FlagPopulated
  BY <1>5 DEF FlagPopulated, Write
<1>6. CASE BeginBackfill
  BY <1>6 DEF BeginBackfill
<1>7. ASSUME NEW s \in Sha, Copy(s) PROVE Grows
  BY <1>7, InsertFtsGrows DEF Copy
<1>8. CASE EndBackfill
  BY <1>8 DEF EndBackfill, Write
<1>9. CASE KillWriter
  BY <1>9 DEF KillWriter
<1> QED
  BY <1>1, <1>2, <1>3, <1>4, <1>5, <1>6, <1>7, <1>8, <1>9 DEF WriterStep

LEMMA WriterWriter ==
  ASSUME IndexTypeOK, WriterTypeOK, WriterStep
  PROVE  WriterTypeOK'
<1> USE DEF IndexTypeOK, WriterTypeOK, index, writer
<1>1. CASE BeginRun
  BY <1>1 DEF BeginRun, Write
<1>2. CASE Migrate
  BY <1>2 DEF Migrate
<1>3. CASE Migrated
  BY <1>3 DEF Migrated, Write
<1>4. ASSUME NEW c \in SUBSET Sha, PersistChunk(c) PROVE WriterTypeOK'
  BY <1>4, Versions DEF PersistChunk
<1>5. CASE FlagPopulated
  BY <1>5 DEF FlagPopulated, Write
<1>6. CASE BeginBackfill
  BY <1>6 DEF BeginBackfill
<1>7. ASSUME NEW s \in Sha, Copy(s) PROVE WriterTypeOK'
  BY <1>7 DEF Copy
<1>8. CASE EndBackfill
  BY <1>8 DEF EndBackfill, Write
<1>9. CASE KillWriter
  <2>1. kills' \in 0 .. MaxKills
    BY <1>9, Versions DEF KillWriter
  <2>2. /\ touched' = FALSE /\ todo' = {} /\ wpc' = "idle"
        /\ UNCHANGED <<written, stripped, early, commits>>
    BY <1>9 DEF KillWriter
  <2> QED
    BY <2>1, <2>2
<1> QED
  BY <1>1, <1>2, <1>3, <1>4, <1>5, <1>6, <1>7, <1>8, <1>9 DEF WriterStep

(* What a search holds of the index stays there.                            *)
LEMMA GrowsSearch ==
  ASSUME SearchTypeOK, Grows, UNCHANGED search, version \in Nat
  PROVE  SearchTypeOK'
<1>1. answer.kind = "results" => answer.hits \in Seq(commits')
  BY DEF SearchTypeOK, Grows
<1> QED
  BY <1>1 DEF SearchTypeOK, Grows, search

LEMMA WriterTypes ==
  ASSUME TypeOK, WriterStep
  PROVE  TypeOK' /\ Grows /\ UNCHANGED search
<1>1. version \in Nat
  BY Versions DEF TypeOK, IndexTypeOK
<1> QED
  BY <1>1, WriterIndex, WriterGrows, WriterWriter, GrowsSearch DEF TypeOK

LEMMA WriterIndexed ==
  ASSUME IndexTypeOK, WriterTypeOK, Indexed, WriterStep
  PROVE  Indexed'
<1> USE DEF IndexTypeOK, WriterTypeOK, Indexed, index, writer
<1>1. CASE BeginRun
  BY <1>1 DEF BeginRun, Write
<1>2. CASE Migrate
  <2>1. /\ version \in Nat /\ version' = version + 1 /\ wpc = "migrate"
        /\ UNCHANGED <<commits, wpc, early>>
    BY <1>2, Versions DEF Migrate
  <2>2. CASE version' = ContentFts
    <3>1. populated' = "false" /\ stripped' = (commits # {})
      BY <1>2, <2>1, <2>2, MigrateMarks DEF Migrate
    <3> QED
      BY <2>1, <3>1
  <2>3. CASE version' # ContentFts
    <3>1. UNCHANGED <<fts, stripped>>
      BY <1>2, <2>3 DEF Migrate
    <3>2. version' >= ContentFts => version >= ContentFts /\ populated' = populated
      BY <1>2, <2>1, <2>3, Versions, MigrateMarks
    <3> QED
      BY <2>1, <3>1, <3>2
  <2> QED
    BY <2>2, <2>3
<1>3. CASE Migrated
  BY <1>3 DEF Migrated, Write
<1>4. ASSUME NEW c \in SUBSET Sha, PersistChunk(c) PROVE Indexed'
  BY <1>4, InsertFtsGrows DEF PersistChunk
<1>5. CASE FlagPopulated
  BY <1>5 DEF FlagPopulated, Write
<1>6. CASE BeginBackfill
  BY <1>6 DEF BeginBackfill
<1>7. ASSUME NEW s \in Sha, Copy(s) PROVE Indexed'
  BY <1>7, InsertFtsGrows DEF Copy
<1>8. CASE EndBackfill
  BY <1>8 DEF EndBackfill, Write
<1>9. CASE KillWriter
  BY <1>9 DEF KillWriter
<1> QED
  BY <1>1, <1>2, <1>3, <1>4, <1>5, <1>6, <1>7, <1>8, <1>9 DEF WriterStep

-----------------------------------------------------------------------------
(* The search.                                                              *)

(* What the writer does while a search runs, or after it, takes nothing     *)
(* from it.                                                                 *)
LEMMA WriterKeeps ==
  ASSUME IInv, Grows, UNCHANGED search
  PROVE  (Ready /\ Selected /\ Kept4 /\ CompleteUnlessUpgraded /\ StrongestKept)'
<1>1. /\ version \in Nat /\ version' \in Nat /\ version' >= version
      /\ at \in 0 .. version /\ settled \subseteq commits /\ raw \subseteq commits \X {1, 2}
      /\ ContentFts \in Nat
  BY Versions DEF IInv, TypeOK, IndexTypeOK, SearchTypeOK, Grows
<1>2. UNCHANGED <<pc, q, raw, answer, settled, at>>
  BY DEF search
<1>3. Ready'
  BY <1>1, <1>2 DEF IInv, Ready, Searching, Grows
<1>4. Selected'
  BY <1>1, <1>2 DEF IInv, Selected, Found, Hits, ToSet, Lexical, Grows
<1>5. Kept4'
  BY <1>1, <1>2 DEF IInv, Kept4, Hits, ToSet, Lexical, Grows
<1>6. CompleteUnlessUpgraded' /\ StrongestKept'
  BY <1>2 DEF IInv, CompleteUnlessUpgraded, StrongestKept, Trustworthy, Full, Hits, ToSet,
              Lexical
<1> QED
  BY <1>3, <1>4, <1>5, <1>6

(* Until it replies, a search leaves the last answer alone.                 *)
LEMMA SameAnswer ==
  ASSUME UNCHANGED <<answer, index, writer, early>>, IInv
  PROVE  (Kept4 /\ CompleteUnlessUpgraded /\ StrongestKept)'
BY DEF IInv, Kept4, CompleteUnlessUpgraded, StrongestKept, Trustworthy, Full, Hits, ToSet,
       Lexical, index

LEMMA AskKeeps ==
  ASSUME IInv, NEW r \in Request, Ask(r)
  PROVE  IInv'
<1>1. SearchTypeOK'
  BY AskedOK DEF Ask, IInv, TypeOK, SearchTypeOK, index
<1>2. IndexTypeOK' /\ WriterTypeOK' /\ Indexed'
  BY DEF Ask, IInv, TypeOK, IndexTypeOK, WriterTypeOK, Indexed, index, writer
<1>3. Ready' /\ Selected'
  BY AskedOK DEF Ask, Ready, Searching, Selected
<1>4. (Kept4 /\ CompleteUnlessUpgraded /\ StrongestKept)'
  BY SameAnswer DEF Ask
<1> QED
  BY <1>1, <1>2, <1>3, <1>4 DEF IInv, TypeOK

LEMMA CheckReadyKeeps ==
  ASSUME IInv, CheckReady
  PROVE  IInv'
<1>1. SearchTypeOK'
  BY Versions DEF CheckReady, IInv, TypeOK, SearchTypeOK, IndexTypeOK, index
<1>2. IndexTypeOK' /\ WriterTypeOK' /\ Indexed'
  BY DEF CheckReady, IInv, TypeOK, IndexTypeOK, WriterTypeOK, Indexed, index, writer
<1>3. Ready' /\ Selected'
  BY DEF CheckReady, IInv, TypeOK, IndexTypeOK, Indexed, Ready, Searching, Selected, index
<1>4. (Kept4 /\ CompleteUnlessUpgraded /\ StrongestKept)'
  BY SameAnswer DEF CheckReady
<1> QED
  BY <1>1, <1>2, <1>3, <1>4 DEF IInv, TypeOK

(* A reply that is no lexical answer promises nothing.                      *)
LEMMA OtherReply ==
  ASSUME IInv, NEW a, Reply(a), ~(a.kind = "results" /\ a.mode = "lexical"),
         a.kind = "results" => a.hits \in Seq(commits)
  PROVE  IInv'
<1>1. SearchTypeOK'
  BY DEF Reply, IInv, TypeOK, SearchTypeOK, IndexTypeOK, index
<1>2. IndexTypeOK' /\ WriterTypeOK' /\ Indexed'
  BY DEF Reply, IInv, TypeOK, IndexTypeOK, WriterTypeOK, Indexed, index, writer
<1>3. Ready' /\ Selected'
  BY DEF Reply, Ready, Searching, Selected
<1>4. (Kept4 /\ CompleteUnlessUpgraded /\ StrongestKept)'
  BY DEF Reply, Kept4, CompleteUnlessUpgraded, StrongestKept, Trustworthy, Lexical
<1> QED
  BY <1>1, <1>2, <1>3, <1>4 DEF IInv, TypeOK

LEMMA RefusalKeeps ==
  ASSUME IInv, NEW e, Reply(Failed(e))
  PROVE  IInv'
<1>1. Failed(e).kind = "error"
  BY DEF Failed
<1> QED
  BY <1>1, OtherReply

LEMMA ShaLookupKeeps ==
  ASSUME IInv, ShaLookup
  PROVE  IInv'
<1>1. CASE version = 0
  BY <1>1, RefusalKeeps DEF ShaLookup
<1>2. CASE version # 0
  <2>0. PICK found \in SUBSET (Prefixed[q.text] \cap commits) :
          \E hits \in SetToSeqs(found) : Reply(Results("sha_lookup", hits, Cardinality(found)))
    BY <1>2 DEF ShaLookup
  <2>1. PICK hits \in SetToSeqs(found) : Reply(Results("sha_lookup", hits, Cardinality(found)))
    BY <2>0
  <2>2. IsFiniteSet(found) /\ found \subseteq commits
    BY FS_Subset, MatchAssumption DEF IInv, TypeOK, IndexTypeOK
  <2>3. hits \in Seq(commits)
    BY <2>2, OrderOfSet
  <2> DEFINE a == Results("sha_lookup", hits, Cardinality(found))
  <2>4. a.mode = "sha_lookup" /\ a.hits = hits
    BY DEF Results
  <2> HIDE DEF a
  <2> QED
    BY <2>1, <2>3, <2>4, OtherReply DEF a
<1> QED
  BY <1>1, <1>2

(* The rows a MATCH can return.                                             *)
LEMMA RowsType ==
  ASSUME IndexTypeOK, NEW t \in Text
  PROVE  /\ Rows(t) \subseteq commits \X {1, 2}
         /\ \A x \in Rows(t) : x[1] \in Matches[t] /\ fts[x[1]] > 0
         /\ \A s \in commits \cap Matches[t] : fts[s] > 0 => <<s, 1>> \in Rows(t)
         /\ IsFiniteSet(Rows(t)) /\ Cardinality(Rows(t)) \in Nat
<1>1. \A s \in commits : fts[s] \in 0 .. 2
  BY DEF IndexTypeOK
<1>2. ASSUME NEW x \in Rows(t)
      PROVE  \E s \in commits \cap Matches[t] : \E n \in {1, 2} : x = <<s, n>> /\ fts[s] > 0
  <2>1. PICK s \in Matches[t] \cap commits : \E n \in 1 .. fts[s] : x = <<s, n>>
    BY DEF Rows
  <2>2. PICK n \in 1 .. fts[s] : x = <<s, n>>
    BY <2>1
  <2>3. n \in {1, 2} /\ fts[s] > 0
    BY <1>1, <2>1, <2>2
  <2> QED
    BY <2>1, <2>2, <2>3
<1>3. /\ Rows(t) \subseteq commits \X {1, 2}
      /\ \A x \in Rows(t) : x[1] \in Matches[t] /\ fts[x[1]] > 0
  BY <1>2
<1>4. ASSUME NEW s \in commits \cap Matches[t], fts[s] > 0 PROVE <<s, 1>> \in Rows(t)
  <2>1. 1 \in 1 .. fts[s]
    BY <1>1, <1>4
  <2> QED
    BY <2>1 DEF Rows
<1>5. IsFiniteSet(Rows(t)) /\ Cardinality(Rows(t)) \in Nat
  <2>1. IsFiniteSet(commits \X {1, 2})
    BY FiniteProduct DEF IndexTypeOK
  <2> QED
    BY <1>3, <2>1, FS_Subset, FS_CardinalityType
<1> QED
  BY <1>3, <1>4, <1>5

(* What the LIMIT cuts off, when it cuts anything off, fills it.            *)
LEMMA MatchSelects ==
  ASSUME IInv, Match
  PROVE  Selected'
<1> DEFINE t == q.text
<1>1. /\ pc = "sha" /\ t \in Text /\ IndexTypeOK /\ q.limit \in Nat /\ settled \subseteq commits
      /\ UNCHANGED <<version, commits, fts, q, answer, settled, at, early>>
  BY CapAssumption DEF Match, IInv, Ready, TypeOK, SearchTypeOK, index, NoQuery
<1>2. PICK rows \in SUBSET Rows(t) :
        /\ Cardinality(rows) = (IF Cardinality(Rows(t)) < q.limit
                                THEN Cardinality(Rows(t)) ELSE q.limit)
        /\ Best(t, rows) /\ raw' = rows
  BY DEF Match
<1> HIDE DEF t
<1>3. /\ \A x \in Rows(t) : x[1] \in Matches[t] /\ fts[x[1]] > 0
      /\ \A s \in commits \cap Matches[t] : fts[s] > 0 => <<s, 1>> \in Rows(t)
      /\ IsFiniteSet(Rows(t)) /\ Cardinality(Rows(t)) \in Nat
  BY <1>1, RowsType
<1>4. Cardinality(rows) <= q.limit
  BY <1>1, <1>2, <1>3
<1>5. rows = Rows(t) \/ Cardinality(rows) = q.limit
  <2>1. CASE Cardinality(Rows(t)) < q.limit
    BY <1>2, <1>3, <2>1, FS_Subset
  <2>2. CASE ~(Cardinality(Rows(t)) < q.limit)
    BY <1>2, <2>2
  <2> QED
    BY <2>1, <2>2
<1>6. \A s : <<s, 1>> \in rows => s \in Found'
  BY <1>2 DEF Found
<1>7. ASSUME at >= ContentFts, ~early, NEW s \in (settled \cap Matches[t]) \ Found'
      PROVE  Cardinality(rows) = q.limit /\ \A x \in rows : Bm25[t][x[1]] >= Bm25[t][s]
  <2>1. <<s, 1>> \in Rows(t) \ rows
    BY <1>1, <1>3, <1>6, <1>7 DEF IInv, Ready, Searching
  <2> QED
    BY <1>2, <1>5, <2>1 DEF Best
<1>8. ASSUME Lexical(answer), answer.version >= ContentFts, answer.q = q
      PROVE  Hits(answer) \subseteq Found' \/ Cardinality(rows) = q.limit
  <2>1. \A h \in Hits(answer) : <<h, 1>> \in Rows(t)
    BY <1>3, <1>8 DEF IInv, Kept4, t
  <2> QED
    BY <1>5, <1>6, <2>1
<1>9. Lexical(answer)' = Lexical(answer) /\ Hits(answer)' = Hits(answer)
  BY <1>1 DEF Lexical, Hits, ToSet
<1> QED
  BY <1>1, <1>2, <1>3, <1>4, <1>7, <1>8, <1>9 DEF Selected, t

LEMMA MatchKeeps ==
  ASSUME IInv, Match
  PROVE  IInv'
<1>1. SearchTypeOK'
  <2>1. q.text \in Text /\ IndexTypeOK
    BY DEF Match, IInv, Ready, TypeOK
  <2>2. raw' \subseteq commits \X {1, 2}
    BY <2>1, RowsType DEF Match
  <2>3. pc' = "rank" /\ UNCHANGED <<q, answer, settled, at, version, commits>>
    BY DEF Match, index
  <2> QED
    BY <2>2, <2>3 DEF IInv, TypeOK, SearchTypeOK
<1>2. IndexTypeOK' /\ WriterTypeOK' /\ Indexed'
  BY DEF Match, IInv, TypeOK, IndexTypeOK, WriterTypeOK, Indexed, index, writer
<1>3. Ready' /\ Selected'
  BY MatchSelects DEF Match, IInv, Ready, Searching, index
<1>4. (Kept4 /\ CompleteUnlessUpgraded /\ StrongestKept)'
  BY SameAnswer DEF Match
<1> QED
  BY <1>1, <1>2, <1>3, <1>4 DEF IInv, TypeOK

(* The answer that Rank gives: the commits of the rows it keeps.            *)
LEMMA RankAnswers ==
  ASSUME IInv, Rank
  PROVE  /\ answer'.kind = "results" /\ answer'.mode = "lexical"
         /\ answer'.q = q /\ answer'.settled = settled /\ answer'.version = at
         /\ answer'.early = early
         /\ answer'.hits \in Seq(commits) /\ Len(answer'.hits) = Cardinality(Kept(raw))
         /\ {answer'.hits[i] : i \in DOMAIN answer'.hits} = {x[1] : x \in Kept(raw)}
         /\ Kept(raw) \subseteq raw /\ Cardinality(Kept(raw)) <= Cardinality(raw)
         /\ IsFiniteSet(raw) /\ Cardinality(raw) \in Nat
<1>1. IsFiniteSet(raw) /\ Cardinality(raw) \in Nat /\ raw \subseteq commits \X {1, 2}
  BY FiniteRaw DEF IInv, TypeOK, IndexTypeOK, SearchTypeOK
<1>2. Kept(raw) \subseteq raw
  BY DEF Kept
<1>3. IsFiniteSet(Kept(raw)) /\ Cardinality(Kept(raw)) <= Cardinality(raw)
  BY <1>1, <1>2, FS_Subset
<1>4. PICK rows \in SetToSeqs(Kept(raw)) :
        Reply(Results("lexical", [i \in 1 .. Len(rows) |-> rows[i][1]], Len(rows)))
  BY DEF Rank
<1> DEFINE hits == [i \in 1 .. Len(rows) |-> rows[i][1]]
<1>5. /\ rows \in Seq(Kept(raw)) /\ Len(rows) = Cardinality(Kept(raw)) /\ Len(rows) \in Nat
      /\ \A x \in Kept(raw) : \E i \in 1 .. Len(rows) : rows[i] = x
      /\ \A i \in 1 .. Len(rows) : rows[i] \in Kept(raw)
  BY <1>3, OrderOfSet
<1>6. \A i \in 1 .. Len(rows) : rows[i][1] \in commits
  BY <1>1, <1>2, <1>5
<1>7. hits \in Seq(commits) /\ Len(hits) = Len(rows) /\ DOMAIN hits = 1 .. Len(rows)
  BY <1>5, <1>6
<1>8. {hits[i] : i \in DOMAIN hits} = {x[1] : x \in Kept(raw)}
  BY <1>5, <1>7
<1> HIDE DEF hits
<1>9. answer' = Results("lexical", hits, Len(rows))
  BY <1>4 DEF Reply, hits
<1> QED
  BY <1>1, <1>2, <1>3, <1>5, <1>7, <1>8, <1>9 DEF Results

(* Without a branch to filter by, the hits of the answer are the commits of *)
(* the rows that the MATCH selected.                                        *)
LEMMA RankFound ==
  ASSUME IInv, Rank, Lexical(answer')
  PROVE  /\ Hits(answer') = Found /\ Len(answer'.hits) = Cardinality(raw)
         /\ answer'.q = q /\ answer'.settled = settled /\ answer'.version = at
         /\ answer'.early = early
<1>1. ~q.filters.branch
  BY RankAnswers DEF Lexical
<1>2. Kept(raw) = raw
  BY <1>1 DEF Kept
<1> QED
  BY <1>2, RankAnswers DEF Hits, ToSet, Found

LEMMA RankKeeps ==
  ASSUME IInv, Rank
  PROVE  IInv'
<1>1. /\ pc = "rank" /\ pc' = "idle" /\ q' = NoQuery /\ raw' = {} /\ settled' = {} /\ at' = 0
      /\ UNCHANGED <<version, commits, fts, populated, wpc, touched, todo, written, kills,
                     stripped, early>>
  BY DEF Rank, Reply, index, writer
<1>2. /\ version \in Nat /\ at \in 0 .. version /\ q.limit \in Nat
      /\ raw \subseteq commits \X {1, 2} /\ settled \subseteq commits
  BY Versions, CapAssumption DEF IInv, TypeOK, IndexTypeOK, SearchTypeOK, NoQuery
<1>3. /\ Cardinality(raw) \in Nat /\ Cardinality(raw) <= q.limit
      /\ \A x \in raw : x[1] \in Matches[q.text] /\ (at >= ContentFts => fts[x[1]] > 0)
      /\ at >= ContentFts /\ ~early =>
           \A s \in (settled \cap Matches[q.text]) \ Found :
             Cardinality(raw) = q.limit /\ \A x \in raw : Bm25[q.text][x[1]] >= Bm25[q.text][s]
  BY <1>1, RankAnswers DEF IInv, Selected
<1>4. SearchTypeOK'
  <2>1. answer'.hits \in Seq(commits') /\ Len(answer'.hits) <= answer'.q.limit
    <3>1. Len(answer'.hits) = Cardinality(Kept(raw)) /\ Cardinality(Kept(raw)) <= Cardinality(raw)
          /\ answer'.hits \in Seq(commits) /\ answer'.q = q
      BY RankAnswers
    <3>2. Len(answer'.hits) \in Nat
      BY <3>1
    <3> QED
      BY <1>1, <1>2, <1>3, <3>1, <3>2
  <2> QED
    BY <1>1, <1>2, <2>1 DEF SearchTypeOK
<1>5. IndexTypeOK' /\ WriterTypeOK' /\ Indexed'
  BY <1>1 DEF IInv, TypeOK, IndexTypeOK, WriterTypeOK, Indexed
<1>6. Ready' /\ Selected'
  BY <1>1 DEF Ready, Searching, Selected
<1>7. Kept4'
  <2> SUFFICES ASSUME Lexical(answer')
               PROVE  /\ answer'.version \in 0 .. version
                      /\ \A h \in Hits(answer') :
                           /\ h \in commits \cap Matches[answer'.q.text]
                           /\ answer'.version >= ContentFts => fts[h] > 0
    BY <1>1 DEF Kept4
  <2>1. Hits(answer') = Found /\ answer'.q = q /\ answer'.version = at
    BY RankFound
  <2> QED
    BY <1>2, <1>3, <2>1 DEF Found
<1>8. CompleteUnlessUpgraded'
  <2> SUFFICES ASSUME Trustworthy(answer'), ~Full(answer')
               PROVE  answer'.settled \cap Matches[answer'.q.text] \subseteq Hits(answer')
    BY DEF CompleteUnlessUpgraded
  <2>1. /\ Hits(answer') = Found /\ Len(answer'.hits) = Cardinality(raw) /\ answer'.q = q
        /\ answer'.settled = settled /\ at >= ContentFts /\ ~early
    BY RankFound DEF Trustworthy
  <2>2. Cardinality(raw) # q.limit
    BY <2>1 DEF Full
  <2> QED
    BY <1>3, <2>1, <2>2
<1>9. StrongestKept'
  <2> SUFFICES ASSUME Trustworthy(answer'),
                      NEW s \in (answer'.settled \cap Matches[answer'.q.text]) \ Hits(answer'),
                      NEW h \in Hits(answer')
               PROVE  Bm25[answer'.q.text][h] >= Bm25[answer'.q.text][s]
    BY DEF StrongestKept
  <2>1. /\ Hits(answer') = Found /\ answer'.q = q
        /\ answer'.settled = settled /\ at >= ContentFts /\ ~early
    BY RankFound DEF Trustworthy
  <2> QED
    BY <1>3, <2>1 DEF Found
<1> QED
  BY <1>4, <1>5, <1>6, <1>7, <1>8, <1>9 DEF IInv, TypeOK

LEMMA Inductive == IInv /\ [Next]_vars => IInv'
<1> SUFFICES ASSUME IInv, [Next]_vars PROVE IInv'
  OBVIOUS
<1>1. CASE WriterStep
  <2>1. TypeOK' /\ Grows /\ UNCHANGED search
    BY <1>1, WriterTypes DEF IInv
  <2>2. Indexed'
    BY <1>1, WriterIndexed DEF IInv, TypeOK
  <2> QED
    BY <2>1, <2>2, WriterKeeps DEF IInv
<1>2. CASE CheckReady
  BY <1>2, CheckReadyKeeps
<1>3. CASE NotReady
  BY <1>3, RefusalKeeps DEF NotReady
<1>4. CASE ShaLookup
  BY <1>4, ShaLookupKeeps
<1>5. CASE RefuseQuery
  BY <1>5, RefusalKeeps DEF RefuseQuery
<1>6. CASE Match
  BY <1>6, MatchKeeps
<1>7. CASE Rank
  BY <1>7, RankKeeps
<1>8. ASSUME NEW r \in Request, Ask(r) PROVE IInv'
  BY <1>8, AskKeeps
<1>9. CASE UNCHANGED vars
  <2>1. Grows /\ UNCHANGED search
    BY <1>9, Versions DEF Grows, IInv, TypeOK, IndexTypeOK, vars, index
  <2>2. (Ready /\ Selected /\ Kept4 /\ CompleteUnlessUpgraded /\ StrongestKept)'
    BY <2>1, WriterKeeps
  <2>3. TypeOK' /\ Indexed'
    BY <1>9 DEF IInv, TypeOK, IndexTypeOK, WriterTypeOK, SearchTypeOK, Indexed, vars, index,
                writer, search
  <2> QED
    BY <2>2, <2>3 DEF IInv
<1> QED
  BY <1>1, <1>2, <1>3, <1>4, <1>5, <1>6, <1>7, <1>8, <1>9 DEF Next, SearchStep

LEMMA Invariant == Spec => []IInv
BY InitIInv, Inductive, PTL DEF Spec

-----------------------------------------------------------------------------

(* The sequences, versions and limits are what they should be whatever runs *)
(* and searches do: a hit is a commit of the index, and no lexical answer   *)
(* is longer than the limit run_search worked out (search/cli.rs).          *)
THEOREM TypeCorrect == Spec => []TypeOK
BY Invariant, PTL DEF IInv

(* check_fts5_ready and the MATCH are two statements, and runs migrate,     *)
(* write and backfill between them and are killed; still an answer that is  *)
(* not full has every match that was indexed when the marker was read.      *)
THEOREM Complete == Spec => []CompleteUnlessUpgraded
BY Invariant, PTL DEF IInv

(* What ORDER BY score ASC LIMIT cuts off before the blend re-sorts matches *)
(* no better than a hit the search returns.                                 *)
THEOREM Strongest == Spec => []StrongestKept
BY Invariant, PTL DEF IInv

LEMMA StepForgetsNothing ==
  ASSUME IInv, [Next]_vars, Lexical(answer), Lexical(answer'), answer'.q = answer.q,
         ~Full(answer'), answer.version >= ContentFts
  PROVE  Hits(answer) \subseteq Hits(answer')
<1>1. CASE answer' = answer
  BY <1>1
<1>2. CASE Rank
  <2>1. Hits(answer') = Found /\ Len(answer'.hits) = Cardinality(raw) /\ answer'.q = q
    BY <1>2, RankFound
  <2>2. Cardinality(raw) # q.limit
    BY <2>1 DEF Full
  <2> QED
    BY <1>2, <2>1, <2>2 DEF Rank, IInv, Selected
<1>3. answer' = answer \/ Rank
  <2>1. ASSUME NEW e, Reply(Failed(e)) PROVE FALSE
    BY <2>1 DEF Reply, Failed, Lexical
  <2>2. ~NotReady /\ ~RefuseQuery
    BY <2>1 DEF NotReady, RefuseQuery
  <2>3. CASE ShaLookup
    <3>1. ASSUME NEW hits, NEW n, Reply(Results("sha_lookup", hits, n)) PROVE FALSE
      BY <3>1 DEF Reply, Results, Lexical
    <3> QED
      BY <2>1, <2>3, <3>1 DEF ShaLookup
  <2>4. CASE WriterStep
    BY <2>4, WriterTypes DEF IInv, search
  <2>5. CASE CheckReady \/ Match \/ (\E r \in Request : Ask(r)) \/ UNCHANGED vars
    BY <2>5 DEF CheckReady, Match, Ask, vars, search
  <2> QED
    BY <2>2, <2>3, <2>4, <2>5 DEF Next, SearchStep
<1> QED
  BY <1>1, <1>2, <1>3

(* Between two answers to the same query no run, killed or not, hides a     *)
(* commit from the second that the first had.                               *)
THEOREM Forgets == Spec => NeverForgets
<1>1. IInv /\ [Next]_vars =>
        [Lexical(answer) /\ Lexical(answer') /\ answer'.q = answer.q /\ ~Full(answer')
           /\ answer.version >= ContentFts => Hits(answer) \subseteq Hits(answer')]_vars
  BY StepForgetsNothing
<1> QED
  BY <1>1, Invariant, PTL DEF Spec, NeverForgets
=============================================================================
