------------------------- MODULE GitProviderProofs --------------------------
(* Proofs about GitProvider, for every set of scripts git may follow, pipe   *)
(* capacity and deadline.                                                    *)
EXTENDS GitProvider, FunctionTheorems, FiniteSetTheorems, TLAPS

LEMMA ScriptTypeOK ==
  ASSUME NEW g \in Script
  PROVE  /\ g.writes \in Seq(Stream) /\ g.code \in Nat /\ g.ends \in {"exits", "hangs"}
         /\ g.heir \in BOOLEAN /\ g.alien \in BOOLEAN
BY ScriptAssumption

LEMMA Sizes == Capacity \in Nat /\ Capacity > 0 /\ Timeout \in Nat /\ Timeout > 0
BY ScriptAssumption

LEMMA HeadTail ==
  ASSUME NEW w \in Seq(Stream), w # << >>
  PROVE  Head(w) \in Stream /\ Tail(w) \in Seq(Stream)
OBVIOUS

-----------------------------------------------------------------------------
(* How many chunks of a stream a sequence of writes holds.                   *)

LEMMA ChunksType ==
  ASSUME NEW w \in Seq(Stream), NEW s
  PROVE  Chunks(s, w) \in Nat /\ IsFiniteSet({i \in DOMAIN w : w[i] = s})
<1>1. DOMAIN w = 1 .. Len(w) /\ Len(w) \in Nat
  OBVIOUS
<1>2. IsFiniteSet(1 .. Len(w))
  BY <1>1, FS_Interval
<1>3. IsFiniteSet({i \in DOMAIN w : w[i] = s})
  BY <1>1, <1>2, FS_Subset
<1> QED
  BY <1>3, FS_CardinalityType DEF Chunks

LEMMA WrittenType == \A g \in Script, s \in Stream : Written(s, g) \in Nat
<1> SUFFICES ASSUME NEW g \in Script, NEW s \in Stream PROVE Written(s, g) \in Nat
  OBVIOUS
<1>1. g.writes \in Seq(Stream)
  BY ScriptTypeOK
<1> QED
  BY <1>1, ChunksType DEF Written

LEMMA ChunksNone == \A s : Chunks(s, << >>) = 0
<1>1. ASSUME NEW s PROVE {i \in DOMAIN << >> : << >>[i] = s} = {}
  OBVIOUS
<1> QED
  BY <1>1, FS_EmptySet DEF Chunks

(* Writing the first chunk leaves the others.                                *)
LEMMA ChunksTail ==
  ASSUME NEW w \in Seq(Stream), w # << >>, NEW s \in Stream
  PROVE  Chunks(s, w) = Chunks(s, Tail(w)) + IF s = Head(w) THEN 1 ELSE 0
<1> DEFINE all == {i \in DOMAIN w : w[i] = s}
           rest == {i \in DOMAIN Tail(w) : Tail(w)[i] = s}
           f == [i \in rest |-> i + 1]
<1>1. /\ DOMAIN w = 1 .. Len(w) /\ DOMAIN Tail(w) = 1 .. (Len(w) - 1)
      /\ Len(w) \in Nat /\ Len(w) > 0 /\ Tail(w) \in Seq(Stream) /\ Head(w) = w[1]
      /\ \A i \in DOMAIN Tail(w) : Tail(w)[i] = w[i + 1]
  OBVIOUS
<1>2. IsFiniteSet(rest) /\ IsFiniteSet(all)
  BY <1>1, ChunksType
<1>3. \A j \in all \ {1} : j - 1 \in rest /\ j = (j - 1) + 1
  <2> SUFFICES ASSUME NEW j \in all \ {1} PROVE j - 1 \in rest /\ j = (j - 1) + 1
    OBVIOUS
  <2>1. j \in 1 .. Len(w) /\ j # 1 /\ w[j] = s
    BY <1>1
  <2>2. j - 1 \in DOMAIN Tail(w) /\ j = (j - 1) + 1
    BY <1>1, <2>1
  <2> QED
    BY <1>1, <2>1, <2>2
<1>4. \A i \in rest : i + 1 \in all \ {1}
  BY <1>1
<1>5. f \in [rest -> all \ {1}] /\ \A i, j \in rest : f[i] = f[j] => i = j
  BY <1>1, <1>4
<1>6. \A j \in all \ {1} : \E i \in rest : f[i] = j
  BY <1>3
<1>7. 1 \in all <=> s = Head(w)
  BY <1>1
<1>8. Chunks(s, w) = Cardinality(all) /\ Chunks(s, Tail(w)) = Cardinality(rest)
  BY DEF Chunks
<1> HIDE DEF all, rest, f
<1>9. f \in Bijection(rest, all \ {1})
  BY <1>5, <1>6, Fun_IsBij
<1>10. Cardinality(all \ {1}) = Cardinality(rest)
  BY <1>2, <1>9, FS_Bijection DEF ExistsBijection
<1>11. Cardinality(all \ {1}) = IF 1 \in all THEN Cardinality(all) - 1 ELSE Cardinality(all)
  BY <1>2, FS_RemoveElement
<1>12. Cardinality(all) \in Nat
  BY <1>2, FS_CardinalityType
<1> QED
  BY <1>7, <1>8, <1>10, <1>11, <1>12

-----------------------------------------------------------------------------
(* The inductive invariant.                                                  *)

(* git has its ends of both pipes until it ends, and a thread is done when   *)
(* nothing can be written to its pipe any more: so it has read everything.   *)
Drained ==
  /\ Alive => \A s \in Stream : "git" \in holds[s]
  /\ pc # "idle" => \A s \in done : pipe[s] = 0 /\ holds[s] = {}
  /\ pc = "join err" => "out" \in done
  /\ child = "exited" => left = << >> /\ git.ends = "exits"

(* Only a git that hangs lets a round of the poll loop pass.                 *)
Timed == polls > 0 /\ pc # "idle" => git.ends = "hangs"

(* There is an answer between two calls only.                                *)
Unanswered == pc # "idle" => answer = NoAnswer

(* What git has still to write, and nobody kills a git before its deadline.  *)
LeftOK == left \in Seq(Stream) /\ (pc = "kill" => polls > 0)

IInv == TypeOK /\ LeftOK /\ Drained /\ Timed /\ Unanswered /\ AnswerFaithful /\ TimeoutOnlyIfHung

LEMMA InitIInv == Init => IInv
<1> SUFFICES ASSUME Init PROVE IInv
  OBVIOUS
<1>1. TypeOK
  BY Sizes DEF Init, TypeOK, Conserved, Op
<1>2. LeftOK /\ Drained /\ Timed /\ Unanswered
  BY DEF Init, LeftOK, Drained, Timed, Unanswered, Alive
<1>3. AnswerFaithful /\ TimeoutOnlyIfHung
  BY DEF Init, AnswerFaithful, TimeoutOnlyIfHung, NoAnswer, Answer
<1> QED
  BY <1>1, <1>2, <1>3 DEF IInv

(* An action of the caller or of a process is one of these.                  *)
LEMMA Steps ==
  ASSUME [Next]_vars
  PROVE  \/ Spawn \/ Reap \/ Sleep \/ GiveUp \/ Kill \/ JoinOut \/ JoinErr
         \/ (\E s \in Stream : Read(s)) \/ (\E s \in Stream : SeesEnd(s))
         \/ GitWrites \/ (\E how \in {"exited", "signalled"} : GitEnds(how)
                                 /\ (how = "exited" => left = << >> /\ git.ends = "exits"))
         \/ HeirEnds \/ UNCHANGED vars
BY DEF Next, Caller, Thread, Git, GitExits, GitSignalled

(* A chunk that git writes moves from left to the pipe, and one that a       *)
(* thread reads from the pipe to got.                                        *)
LEMMA NextConserved ==
  ASSUME TypeOK, LeftOK, [Next]_vars
  PROVE  Conserved'
<1>0. /\ pc = "idle" <=> child = "none"
      /\ left \in Seq(Stream) /\ git \in Script
      /\ pipe \in [Stream -> 0 .. Capacity] /\ got \in [Stream -> Nat]
      /\ pc # "idle" => \A s \in Stream : got[s] + pipe[s] + Chunks(s, left) = Written(s, git)
      /\ \A s \in Stream : Chunks(s, left) \in Nat
  BY ChunksType DEF TypeOK, LeftOK, Conserved
<1>1. CASE Spawn
  <2>1. /\ git' \in Script /\ left' = git'.writes
        /\ pipe' = [s \in Stream |-> 0] /\ got' = [s \in Stream |-> 0]
    BY <1>1 DEF Spawn
  <2>2. \A s \in Stream : Chunks(s, left') = Written(s, git') /\ Chunks(s, left') \in Nat
    BY <2>1, ScriptTypeOK, ChunksType DEF Written
  <2> QED
    BY <2>1, <2>2 DEF Conserved
<1>2. CASE Kill \/ JoinErr
  BY <1>2 DEF Kill, JoinErr, Conserved
<1>3. ASSUME UNCHANGED <<git, left, pipe, got>>, pc' # "idle" => pc # "idle"
      PROVE  Conserved'
  BY <1>0, <1>3 DEF Conserved, Chunks, Written
<1>4. CASE Reap \/ Sleep \/ GiveUp \/ JoinOut
  BY <1>3, <1>4 DEF Reap, Sleep, GiveUp, JoinOut
<1>5. ASSUME NEW s \in Stream, Read(s) PROVE Conserved'
  <2>1. /\ pipe[s] > 0
        /\ pipe' = [pipe EXCEPT ![s] = @ - 1] /\ got' = [got EXCEPT ![s] = @ + 1]
        /\ UNCHANGED <<pc, git, left>>
    BY <1>5 DEF Read, Reads
  <2>2. ASSUME NEW t \in Stream
        PROVE  /\ got'[t] + pipe'[t] = got[t] + pipe[t]
               /\ pipe[t] \in Nat /\ got[t] \in Nat
    BY <1>0, <2>1, Sizes
  <2>3. ASSUME pc # "idle", NEW t \in Stream
        PROVE  got'[t] + pipe'[t] + Chunks(t, left) = Written(t, git)
    BY <1>0, <2>2, <2>3
  <2> QED
    BY <2>1, <2>3 DEF Conserved, Chunks, Written
<1>6. ASSUME NEW s \in Stream, SeesEnd(s) PROVE Conserved'
  BY <1>3, <1>6 DEF SeesEnd
<1>7. CASE GitWrites
  <2>1. /\ left # << >> /\ Head(left) \in Stream /\ left' = Tail(left)
        /\ pipe' = [pipe EXCEPT ![Head(left)] = @ + 1] /\ UNCHANGED <<pc, git, got>>
    BY <1>0, <1>7, HeadTail DEF GitWrites, CanWrite
  <2>2. ASSUME NEW t \in Stream
        PROVE  /\ Chunks(t, left) = Chunks(t, Tail(left)) + IF t = Head(left) THEN 1 ELSE 0
               /\ Chunks(t, Tail(left)) \in Nat
    BY <1>0, <2>1, HeadTail, ChunksType, ChunksTail
  <2>3. ASSUME NEW t \in Stream
        PROVE  /\ pipe'[t] = pipe[t] + IF t = Head(left) THEN 1 ELSE 0
               /\ got'[t] = got[t] /\ pipe[t] \in Nat /\ got[t] \in Nat
    BY <1>0, <2>1, Sizes
  <2>4. ASSUME pc # "idle", NEW t \in Stream
        PROVE  got'[t] + pipe'[t] + Chunks(t, Tail(left)) = Written(t, git)
    <3> DEFINE one == IF t = Head(left) THEN 1 ELSE 0
               rest == Chunks(t, Tail(left))
    <3>1. got[t] + pipe[t] + Chunks(t, left) = Written(t, git)
      BY <1>0, <2>4
    <3>2. /\ one \in Nat /\ rest \in Nat /\ got'[t] = got[t] /\ got[t] \in Nat
          /\ pipe[t] \in Nat /\ pipe'[t] = pipe[t] + one /\ Chunks(t, left) = rest + one
      BY <2>2, <2>3
    <3> HIDE DEF one, rest
    <3>3. got[t] + (pipe[t] + one) + rest = got[t] + pipe[t] + (rest + one)
      BY <3>2
    <3> QED
      BY <3>1, <3>2, <3>3 DEF rest
  <2> QED
    BY <2>1, <2>4 DEF Conserved, Chunks, Written
<1>8. ASSUME NEW how, GitEnds(how) \/ HeirEnds \/ UNCHANGED vars PROVE Conserved'
  BY <1>3, <1>8 DEF GitEnds, HeirEnds, vars
<1> QED
  BY <1>1, <1>2, <1>4, <1>5, <1>6, <1>7, <1>8, Steps

LEMMA NextLeft ==
  ASSUME TypeOK, LeftOK, [Next]_vars
  PROVE  LeftOK'
<1> USE DEF LeftOK
<1>1. CASE Spawn
  BY <1>1, ScriptTypeOK DEF Spawn
<1>2. CASE Kill
  <2>1. << >> \in Seq(Stream)
    OBVIOUS
  <2> QED
    BY <1>2, <2>1 DEF Kill
<1>3. CASE GiveUp
  BY <1>3, Sizes DEF GiveUp, TypeOK
<1>4. CASE GitWrites
  BY <1>4, HeadTail DEF GitWrites, CanWrite
<1>5. CASE Reap \/ Sleep \/ JoinOut \/ JoinErr
  BY <1>5 DEF Reap, Sleep, JoinOut, JoinErr
<1>6. ASSUME NEW s, Read(s) \/ SeesEnd(s) \/ GitEnds(s) \/ HeirEnds \/ UNCHANGED vars
      PROVE  LeftOK'
  BY <1>6 DEF Read, SeesEnd, GitEnds, HeirEnds, vars
<1> QED
  BY <1>1, <1>2, <1>3, <1>4, <1>5, <1>6, Steps

LEMMA NextTypeOK ==
  ASSUME TypeOK, LeftOK, Conserved', [Next]_vars
  PROVE  TypeOK'
<1> USE DEF TypeOK
<1>1. CASE Spawn
  BY <1>1, Sizes DEF Spawn
<1>2. CASE Reap \/ GiveUp \/ Kill \/ JoinOut \/ JoinErr
  BY <1>2 DEF Reap, GiveUp, Kill, JoinOut, JoinErr, Alive
<1>3. CASE Sleep
  BY <1>3, Sizes DEF Sleep
<1>4. ASSUME NEW s \in Stream, Read(s) PROVE TypeOK'
  <2>1. /\ pipe[s] > 0 /\ pipe \in [Stream -> 0 .. Capacity] /\ got \in [Stream -> Nat]
        /\ pipe' = [pipe EXCEPT ![s] = @ - 1] /\ got' = [got EXCEPT ![s] = @ + 1]
    BY <1>4 DEF Read, Reads
  <2> HIDE DEF TypeOK
  <2>2. pipe' \in [Stream -> 0 .. Capacity] /\ got' \in [Stream -> Nat]
    BY <2>1, Sizes
  <2> QED
    BY <1>4, <2>2 DEF Read, TypeOK
<1>5. ASSUME NEW s \in Stream, SeesEnd(s) PROVE TypeOK'
  BY <1>5 DEF SeesEnd
<1>6. CASE GitWrites
  <2>1. Head(left) \in Stream
    BY <1>6, HeadTail DEF GitWrites, CanWrite, LeftOK
  <2>2. /\ pipe[Head(left)] < Capacity /\ pipe \in [Stream -> 0 .. Capacity]
        /\ pipe' = [pipe EXCEPT ![Head(left)] = @ + 1]
    BY <1>6 DEF GitWrites, CanWrite
  <2> HIDE DEF TypeOK
  <2>3. pipe' \in [Stream -> 0 .. Capacity]
    BY <2>1, <2>2, Sizes
  <2> QED
    BY <1>6, <2>3 DEF GitWrites, TypeOK
<1>7. ASSUME NEW how \in {"exited", "signalled"}, GitEnds(how) PROVE TypeOK'
  BY <1>7 DEF GitEnds, Alive
<1>8. CASE HeirEnds
  BY <1>8 DEF HeirEnds
<1>9. CASE UNCHANGED vars
  BY <1>9 DEF vars
<1> QED
  BY <1>1, <1>2, <1>3, <1>4, <1>5, <1>6, <1>7, <1>8, <1>9, Steps

LEMMA NextDrained ==
  ASSUME TypeOK, LeftOK, Drained, [Next]_vars
  PROVE  Drained'
<1> USE DEF TypeOK, LeftOK, Drained, Alive
<1>1. CASE Spawn
  BY <1>1 DEF Spawn
<1>2. CASE Reap \/ Sleep \/ GiveUp \/ Kill \/ JoinOut \/ JoinErr
  BY <1>2 DEF Reap, Sleep, GiveUp, Kill, JoinOut, JoinErr
<1>3. ASSUME NEW s \in Stream, Read(s) PROVE Drained'
  BY <1>3 DEF Read, Reads
<1>4. ASSUME NEW s \in Stream, SeesEnd(s) PROVE Drained'
  BY <1>4 DEF SeesEnd
<1>5. CASE GitWrites
  <2>1. Head(left) \in Stream /\ left # << >> /\ child = "runs" /\ pc # "idle"
    BY <1>5, HeadTail DEF GitWrites, CanWrite
  <2>2. Head(left) \notin done
    BY <2>1
  <2> QED
    BY <1>5, <2>1, <2>2 DEF GitWrites
<1>6. ASSUME NEW how \in {"exited", "signalled"}, GitEnds(how),
             how = "exited" => left = << >> /\ git.ends = "exits"
      PROVE  Drained'
  BY <1>6 DEF GitEnds
<1>7. CASE HeirEnds
  BY <1>7 DEF HeirEnds
<1>8. CASE UNCHANGED vars
  BY <1>8 DEF vars
<1> QED
  BY <1>1, <1>2, <1>3, <1>4, <1>5, <1>6, <1>7, <1>8, Steps

(* A git that stands still, no thread having anything to read, hangs: had it *)
(* more to write, the pipe would be full.                                    *)
LEMMA QuietHangs ==
  ASSUME TypeOK, LeftOK, Drained, Quiet, pc # "idle"
  PROVE  git.ends = "hangs"
<1>1. CASE left = << >>
  BY <1>1 DEF Quiet
<1>2. CASE left # << >>
  <2>1. Head(left) \in Stream /\ pipe[Head(left)] \in 0 .. Capacity /\ ~(pipe[Head(left)] < Capacity)
    BY <1>2, HeadTail DEF Quiet, CanWrite, LeftOK, TypeOK
  <2>2. pipe[Head(left)] > 0
    BY <2>1, Sizes
  <2>3. Head(left) \notin done
    BY <2>1 DEF Quiet, Drained
  <2> QED
    BY <2>1, <2>2, <2>3 DEF Quiet, Reads
<1> QED
  BY <1>1, <1>2

LEMMA NextTimed ==
  ASSUME TypeOK, LeftOK, Drained, Timed, [Next]_vars
  PROVE  Timed'
<1> USE DEF Timed
<1>1. CASE Sleep
  BY <1>1, QuietHangs DEF Sleep
<1>2. CASE Spawn
  BY <1>2 DEF Spawn
<1>3. ASSUME NEW s \in Stream, Read(s) \/ SeesEnd(s) PROVE Timed'
  BY <1>3 DEF Read, SeesEnd
<1>4. CASE Reap \/ GiveUp \/ Kill \/ JoinOut \/ JoinErr
  BY <1>4 DEF Reap, GiveUp, Kill, JoinOut, JoinErr
<1>5. ASSUME NEW how, GitWrites \/ GitEnds(how) \/ HeirEnds \/ UNCHANGED vars PROVE Timed'
  BY <1>5 DEF GitWrites, GitEnds, HeirEnds, vars
<1> QED
  BY <1>1, <1>2, <1>3, <1>4, <1>5, Steps

(* What a call answers when both threads are done and git has ended.         *)
LEMMA Outcomes ==
  ASSUME TypeOK, Drained, Unanswered, JoinErr
  PROVE  AnswerFaithful' /\ TimeoutOnlyIfHung'
<1>1. pc = "join err" /\ {"out", "err"} \subseteq done /\ git \in Script /\ op \in Op
  BY DEF JoinErr, Drained, TypeOK
<1>2. child = "exited" => \A s \in Stream : got[s] = Written(s, git)
  <2> SUFFICES ASSUME child = "exited", NEW s \in Stream PROVE got[s] = Written(s, git)
    OBVIOUS
  <2>1. pipe[s] = 0 /\ left = << >> /\ got[s] \in Nat
    BY <1>1 DEF Drained, TypeOK, Stream
  <2>2. got[s] + pipe[s] + Chunks(s, left) = Written(s, git)
    BY <1>1 DEF TypeOK, Conserved
  <2> QED
    BY <2>1, <2>2, ChunksNone
<1>3. child = "exited" => git.ends = "exits"
  BY DEF Drained
<1>4. git.code \in Nat
  BY <1>1, ScriptTypeOK
<1>5. Exited.success => child = "exited" /\ git.code = 0
  BY DEF Exited
<1>6. Exited.code > 0 => child = "exited" /\ Exited.code = git.code
  BY <1>4 DEF Exited
<1>7. answer' = Outcome(Exited) /\ git' = git
  BY DEF JoinErr
<1>8. Written("out", git)' = Written("out", git) /\ Written("err", git)' = Written("err", git)
  BY <1>7 DEF Written, Chunks
<1>9. {"out", "err"} = Stream
  BY DEF Stream
<1>10. child = "exited" => got.out = Written("out", git) /\ got.err = Written("err", git)
  BY <1>2, <1>9
<1>11. ASSUME answer'.kind = "ok" => Exited.success /\ answer'.out = got.out,
             answer'.kind = "git error" => answer'.code = Exited.code /\ answer'.out = got.err,
             answer'.kind = "not a repo" => git.alien \/ (Exited.success /\ got.out = 0),
             answer'.kind = "present" => Exited.success,
             answer'.kind # "timed out"
      PROVE  AnswerFaithful' /\ TimeoutOnlyIfHung'
  <2>1. TimeoutOnlyIfHung'
    BY <1>11 DEF TimeoutOnlyIfHung
  <2>2. answer'.kind = "ok" =>
          git'.ends = "exits" /\ git'.code = 0 /\ answer'.out = Written("out", git)'
    BY <1>11, <1>10, <1>3, <1>5, <1>7, <1>8
  <2>3. answer'.kind = "git error" /\ answer'.code > 0 =>
          answer'.code = git'.code /\ answer'.out = Written("err", git)'
    BY <1>11, <1>10, <1>6, <1>7, <1>8
  <2>4. answer'.kind = "not a repo" => git'.alien \/ Written("out", git)' = 0
    BY <1>11, <1>10, <1>5, <1>7, <1>8
  <2>5. answer'.kind = "present" => git'.ends = "exits" /\ git'.code = 0
    BY <1>11, <1>3, <1>5, <1>7
  <2> QED
    BY <2>1, <2>2, <2>3, <2>4, <2>5 DEF AnswerFaithful
<1>12. CASE op = "run_git"
  <2>1. answer' = RunGit(Exited)
    BY <1>7, <1>12 DEF Outcome
  <2>2. CASE Exited.success
    <3>1. answer'.kind = "ok" /\ answer'.out = got.out
      BY <2>1, <2>2 DEF RunGit, Answer
    <3> QED
      BY <1>11, <2>2, <3>1 DEF SaysNotARepo
  <2>3. CASE ~Exited.success
    <3>1. answer'.kind = "git error"
          /\ answer'.code = Exited.code /\ answer'.out = got.err
      BY <2>1, <2>3 DEF RunGit, Answer
    <3> QED
      BY <1>11, <2>3, <3>1 DEF SaysNotARepo
  <2> QED
    BY <2>2, <2>3
<1>13. CASE op = "common_dir"
  <2>1. answer' = CommonDir(Exited)
    BY <1>7, <1>13 DEF Outcome
  <2>2. CASE Exited.success /\ got.out = 0
    <3>1. answer'.kind = "not a repo"
      BY <2>1, <2>2 DEF CommonDir, Answer
    <3> QED
      BY <1>11, <2>2, <3>1 DEF SaysNotARepo
  <2>3. CASE Exited.success /\ got.out # 0
    <3>1. answer'.kind = "ok" /\ answer'.out = got.out
      BY <2>1, <2>3 DEF CommonDir, Answer
    <3> QED
      BY <1>11, <2>3, <3>1 DEF SaysNotARepo
  <2>4. CASE ~Exited.success /\ SaysNotARepo
    <3>1. answer'.kind = "not a repo"
      BY <2>1, <2>4 DEF CommonDir, Answer
    <3> QED
      BY <1>11, <2>4, <3>1 DEF SaysNotARepo
  <2>5. CASE ~Exited.success /\ ~SaysNotARepo
    <3>1. answer'.kind = "git error"
          /\ answer'.code = Exited.code /\ answer'.out = got.err
      BY <2>1, <2>5 DEF CommonDir, Answer
    <3> QED
      BY <1>11, <2>5, <3>1 DEF SaysNotARepo
  <2> QED
    BY <2>2, <2>3, <2>4, <2>5
<1>14. CASE op = "rev_parse"
  <2>1. answer' = RevParse(Exited)
    BY <1>7, <1>14 DEF Outcome
  <2>2. CASE ~Exited.success
    <3>1. answer'.kind = "no such sha"
      BY <2>1, <2>2 DEF RevParse, Answer
    <3> QED
      BY <1>11, <2>2, <3>1 DEF SaysNotARepo
  <2>3. CASE Exited.success /\ got.out = 0
    <3>1. answer'.kind = "invalid sha"
      BY <2>1, <2>3 DEF RevParse, Answer
    <3> QED
      BY <1>11, <2>3, <3>1 DEF SaysNotARepo
  <2>4. CASE Exited.success /\ got.out # 0
    <3>1. answer'.kind = "ok" /\ answer'.out = got.out
      BY <2>1, <2>4 DEF RevParse, Answer
    <3> QED
      BY <1>11, <2>4, <3>1 DEF SaysNotARepo
  <2> QED
    BY <2>2, <2>3, <2>4
<1>15. CASE op = "cat_file_exists"
  <2>1. answer' = CatFileExists(Exited)
    BY <1>7, <1>15 DEF Outcome
  <2>2. CASE Exited.success
    <3>1. answer'.kind = "present"
      BY <2>1, <2>2 DEF CatFileExists, Answer
    <3> QED
      BY <1>11, <2>2, <3>1 DEF SaysNotARepo
  <2>3. CASE ~Exited.success
    <3>1. answer'.kind = "absent"
      BY <2>1, <2>3 DEF CatFileExists, Answer
    <3> QED
      BY <1>11, <2>3, <3>1 DEF SaysNotARepo
  <2> QED
    BY <2>2, <2>3
<1> QED
  BY <1>1, <1>12, <1>13, <1>14, <1>15 DEF Op

LEMMA NextAnswer ==
  ASSUME TypeOK, LeftOK, Drained, Timed, Unanswered, AnswerFaithful, TimeoutOnlyIfHung, [Next]_vars
  PROVE  (Unanswered /\ AnswerFaithful /\ TimeoutOnlyIfHung)'
<1> USE DEF Unanswered, AnswerFaithful, TimeoutOnlyIfHung
<1>1. CASE JoinErr
  BY <1>1, Outcomes DEF JoinErr
<1>2. CASE Kill
  BY <1>2 DEF Kill, Answer, Timed, LeftOK
<1>3. CASE Spawn
  BY <1>3 DEF Spawn, NoAnswer, Answer
<1>4. CASE Reap \/ Sleep \/ GiveUp \/ JoinOut
  BY <1>4 DEF Reap, Sleep, GiveUp, JoinOut
<1>5. ASSUME NEW s, Read(s) \/ SeesEnd(s) \/ GitWrites \/ GitEnds(s) \/ HeirEnds \/ UNCHANGED vars
      PROVE  (Unanswered /\ AnswerFaithful /\ TimeoutOnlyIfHung)'
  BY <1>5 DEF Read, SeesEnd, GitWrites, GitEnds, HeirEnds, vars
<1> QED
  BY <1>1, <1>2, <1>3, <1>4, <1>5, Steps

LEMMA Inductive == Spec => []IInv
<1>1. IInv /\ [Next]_vars => IInv'
  BY NextConserved, NextLeft, NextTypeOK, NextDrained, NextTimed, NextAnswer DEF IInv
<1> QED
  BY <1>1, InitIInv, PTL DEF Spec

-----------------------------------------------------------------------------
(* No chunk is lost between git and the threads that drain its pipes         *)
(* (cli.rs:133-134), and a call leaves no process unreaped.                  *)
THEOREM TypeCorrect == Spec => []TypeOK
<1>1. IInv => TypeOK
  BY DEF IInv
<1> QED
  BY <1>1, Inductive, PTL

(* For every script, pipe capacity and deadline: an answer holds all that    *)
(* git printed, and git ended by itself to give it.                          *)
THEOREM Faithful == Spec => []AnswerFaithful
<1>1. IInv => AnswerFaithful
  BY DEF IInv
<1> QED
  BY <1>1, Inductive, PTL

(* A call times out only on a git that hangs, however much it prints on      *)
(* either stream and however little a pipe holds.                            *)
THEOREM NoFalseTimeout == Spec => []TimeoutOnlyIfHung
<1>1. IInv => TimeoutOnlyIfHung
  BY DEF IInv
<1> QED
  BY <1>1, Inductive, PTL
=============================================================================
