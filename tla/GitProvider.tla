---------------------------- MODULE GitProvider -----------------------------
(* One call of GitCliProvider after another (core/git/cli.rs): git as a child *)
(* process, two pipes, a thread that drains each, and a caller that polls,    *)
(* gives up at a deadline, or joins the threads and maps the outcome.         *)
EXTENDS Integers, Sequences, FiniteSets

CONSTANTS
    Capacity,   \* chunks a pipe holds before a writer blocks
    Timeout,    \* polls until the deadline (30 s of 20 ms each)
    Script      \* what git may do: [writes, code, ends, heir, alien]

Stream == {"out", "err"}
Op == {"run_git", "common_dir", "rev_parse", "cat_file_exists"}

\* `writes` goes to the streams in order; then git exits with `code` or "hangs": it is
\* still there when the deadline comes. With an `heir` it leaves a process behind that holds
\* its ends of the pipes; an `alien` directory is what git says "not a git repository" of.
ASSUME ScriptAssumption ==
    /\ Capacity \in Nat \ {0} /\ Timeout \in Nat \ {0}
    /\ Script \subseteq [writes : Seq(Stream), code : Nat, ends : {"exits", "hangs"},
                         heir : BOOLEAN, alien : BOOLEAN]

VARIABLES
    pc,      \* where the caller is
    op,      \* the operation it performs
    git,     \* what git does in this call
    child,   \* "none" before spawn and after it is reaped
    left,    \* what git has still to write
    pipe,    \* chunks in each pipe
    holds,   \* the processes that have the write end of each pipe open
    got,     \* chunks each thread has read
    done,    \* the threads that have seen the end of their stream
    polls,   \* polls since spawn
    answer   \* the Result of the last call

vars == <<pc, op, git, child, left, pipe, holds, got, done, polls, answer>>

Alive == child = "runs"
Chunks(s, writes) == Cardinality({i \in DOMAIN writes : writes[i] = s})
Written(s, script) == Chunks(s, script.writes)

-----------------------------------------------------------------------------
(* What becomes of an outcome.                                               *)

Answer(kind, code, out) == [kind |-> kind, code |-> code, out |-> out]
NoAnswer == Answer("none", 0, 0)

\* A child that a signal ended has no code, which the caller shows as -1.
Exited == [success |-> child = "exited" /\ git.code = 0,
           code |-> IF child = "exited" THEN git.code ELSE -1]

\* run_git: an exit other than 0 is Error::Git.
RunGit(raw) ==
    IF raw.success THEN Answer("ok", 0, got.out) ELSE Answer("git error", raw.code, got.err)

SaysNotARepo == git.alien /\ got.err > 0

CommonDir(raw) ==
    IF raw.success
    THEN IF got.out = 0 THEN Answer("not a repo", 0, 0) ELSE Answer("ok", 0, got.out)
    ELSE IF SaysNotARepo THEN Answer("not a repo", raw.code, 0)
         ELSE Answer("git error", raw.code, got.err)

\* Any failure is a revision that does not exist; an empty line is no SHA.
RevParse(raw) ==
    IF ~raw.success THEN Answer("no such sha", raw.code, 0)
    ELSE IF got.out = 0 THEN Answer("invalid sha", 0, 0) ELSE Answer("ok", 0, got.out)

CatFileExists(raw) == Answer(IF raw.success THEN "present" ELSE "absent", raw.code, 0)

Outcome(raw) ==
    CASE op = "run_git" -> RunGit(raw)
      [] op = "common_dir" -> CommonDir(raw)
      [] op = "rev_parse" -> RevParse(raw)
      [] op = "cat_file_exists" -> CatFileExists(raw)

-----------------------------------------------------------------------------
(* The caller.                                                               *)

Init ==
    /\ pc = "idle" /\ op = "run_git" /\ git \in Script /\ child = "none" /\ left = << >>
    /\ pipe = [s \in Stream |-> 0] /\ holds = [s \in Stream |-> {}]
    /\ got = [s \in Stream |-> 0] /\ done = {} /\ polls = 0 /\ answer = NoAnswer

\* spawn, both threads started. Threads of an earlier call that timed out may still
\* wait for an heir; nobody reads what they return.
Spawn ==
    /\ pc = "idle"
    /\ pc' = "poll" /\ op' \in Op /\ git' \in Script /\ child' = "runs"
    /\ left' = git'.writes
    /\ pipe' = [s \in Stream |-> 0]
    /\ holds' = [s \in Stream |-> IF git'.heir THEN {"git", "heir"} ELSE {"git"}]
    /\ got' = [s \in Stream |-> 0] /\ done' = {} /\ polls' = 0 /\ answer' = NoAnswer

\* try_wait returns a status: the loop ends, whatever the clock says.
Reap ==
    /\ pc = "poll" /\ ~Alive
    /\ pc' = "join out"
    /\ UNCHANGED <<op, git, child, left, pipe, holds, got, done, polls, answer>>

\* Mutant of Reads: stderr is read after stdout.
ReadsInTurn(s) == s \notin done /\ pipe[s] > 0 /\ (s = "err" => "out" \in done)

\* A chunk moves through a thread as soon as there is one; then git can write again.
Reads(s) == s \notin done /\ pipe[s] > 0
CanWrite == Alive /\ left # << >> /\ pipe[Head(left)] < Capacity
Quiet == /\ Alive /\ ~CanWrite /\ (left = << >> => git.ends = "hangs")
         /\ \A s \in Stream : ~Reads(s)

\* Mutant of Sleep: the clock starts again in every round.
SleepRestartsClock ==
    /\ pc = "poll" /\ Alive /\ polls < Timeout /\ Quiet
    /\ polls' = 0
    /\ UNCHANGED <<pc, op, git, child, left, pipe, holds, got, done, answer>>

\* 20 ms pass. Pipes are faster than that: only a git that stands still sees time go by.
Sleep ==
    /\ pc = "poll" /\ Alive /\ polls < Timeout /\ Quiet
    /\ polls' = polls + 1
    /\ UNCHANGED <<pc, op, git, child, left, pipe, holds, got, done, answer>>

\* try_wait returned None and the deadline has passed.
GiveUp ==
    /\ pc = "poll" /\ Alive /\ polls >= Timeout
    /\ pc' = "kill"
    /\ UNCHANGED <<op, git, child, left, pipe, holds, got, done, polls, answer>>

\* Mutant of Kill: the child is not waited for.
KillWithoutWait ==
    /\ pc = "kill"
    /\ pc' = "idle" /\ child' = "signalled" /\ left' = << >>
    /\ holds' = [s \in Stream |-> holds[s] \ {"git"}]
    /\ answer' = Answer("timed out", -1, 0)
    /\ UNCHANGED <<op, git, pipe, got, done, polls>>

\* kill and wait; the threads are left to themselves.
Kill ==
    /\ pc = "kill"
    /\ pc' = "idle" /\ child' = "none" /\ left' = << >>
    /\ holds' = [s \in Stream |-> holds[s] \ {"git"}]
    /\ answer' = Answer("timed out", -1, 0)
    /\ UNCHANGED <<op, git, pipe, got, done, polls>>

\* Mutant of JoinOut: takes what the thread has so far.
JoinOutAtOnce ==
    /\ pc = "join out"
    /\ pc' = "join err"
    /\ UNCHANGED <<op, git, child, left, pipe, holds, got, done, polls, answer>>

JoinOut ==
    /\ pc = "join out" /\ "out" \in done
    /\ pc' = "join err"
    /\ UNCHANGED <<op, git, child, left, pipe, holds, got, done, polls, answer>>

JoinErr ==
    /\ pc = "join err" /\ "err" \in done
    /\ pc' = "idle" /\ child' = "none"
    /\ answer' = Outcome(Exited)
    /\ UNCHANGED <<op, git, left, pipe, holds, got, done, polls>>

-----------------------------------------------------------------------------
(* The threads.                                                              *)

Read(s) ==
    /\ Reads(s)
    /\ pipe' = [pipe EXCEPT ![s] = @ - 1] /\ got' = [got EXCEPT ![s] = @ + 1]
    /\ UNCHANGED <<pc, op, git, child, left, holds, done, polls, answer>>

\* read_to_end returns when the pipe is empty and nobody has its other end open.
SeesEnd(s) ==
    /\ s \notin done /\ pc \notin {"idle", "kill"} /\ pipe[s] = 0 /\ holds[s] = {}
    /\ done' = done \cup {s}
    /\ UNCHANGED <<pc, op, git, child, left, pipe, holds, got, polls, answer>>

-----------------------------------------------------------------------------
(* git, and the rest of the machine.                                         *)

GitWrites ==
    /\ CanWrite
    /\ pipe' = [pipe EXCEPT ![Head(left)] = @ + 1] /\ left' = Tail(left)
    /\ UNCHANGED <<pc, op, git, child, holds, got, done, polls, answer>>

GitEnds(how) ==
    /\ Alive
    /\ child' = how
    /\ holds' = [s \in Stream |-> holds[s] \ {"git"}]
    /\ UNCHANGED <<pc, op, git, left, pipe, got, done, polls, answer>>

GitExits == left = << >> /\ git.ends = "exits" /\ GitEnds("exited")

\* The OOM killer, a user.
GitSignalled == GitEnds("signalled")

\* The process git left behind ends, if it does.
HeirEnds ==
    /\ \E s \in Stream : "heir" \in holds[s]
    /\ holds' = [s \in Stream |-> holds[s] \ {"heir"}]
    /\ UNCHANGED <<pc, op, git, child, left, pipe, got, done, polls, answer>>

Caller == Spawn \/ Reap \/ Sleep \/ GiveUp \/ Kill \/ JoinOut \/ JoinErr
Thread(s) == Read(s) \/ SeesEnd(s)
Git == GitWrites \/ GitExits

Next == Caller \/ (\E s \in Stream : Thread(s)) \/ Git \/ GitSignalled \/ HeirEnds

Spec == Init /\ [][Next]_vars

\* The caller and its threads are scheduled, and git runs until it hangs or ends.
\* Nothing makes an heir end.
FairSpec ==
    /\ Spec /\ WF_vars(Caller) /\ WF_vars(Git)
    /\ \A s \in Stream : WF_vars(Thread(s))

-----------------------------------------------------------------------------
(* Properties.                                                               *)

\* No chunk is lost between git and the threads.
Conserved ==
    pc # "idle" => \A s \in Stream : got[s] + pipe[s] + Chunks(s, left) = Written(s, git)

\* Nor is a process left unreaped between two calls, and only a git that has ended is joined.
TypeOK ==
    /\ pc \in {"idle", "poll", "kill", "join out", "join err"} /\ op \in Op /\ git \in Script
    /\ child \in {"none", "runs", "exited", "signalled"}
    /\ pc = "idle" <=> child = "none"
    /\ pc \in {"join out", "join err"} => child \in {"exited", "signalled"}
    /\ pipe \in [Stream -> 0 .. Capacity] /\ holds \in [Stream -> SUBSET {"git", "heir"}]
    /\ got \in [Stream -> Nat] /\ done \subseteq Stream /\ polls \in 0 .. Timeout
    /\ Conserved

\* An answer holds all that git printed, and git ended by itself to give it (cli.rs:158-165
\* joins both threads before it looks): a walk cut short by a kill or by a thread that has
\* not finished is never taken for the history, a failure carries its whole message, and a
\* directory is called no repository only by a git that says so or prints nothing.
AnswerFaithful ==
    /\ answer.kind = "ok" =>
          git.ends = "exits" /\ git.code = 0 /\ answer.out = Written("out", git)
    /\ answer.kind = "git error" /\ answer.code > 0 =>
          answer.code = git.code /\ answer.out = Written("err", git)
    /\ answer.kind = "not a repo" => git.alien \/ Written("out", git) = 0
    /\ answer.kind = "present" => git.ends = "exits" /\ git.code = 0

\* The pipes never make a git time out that would otherwise have ended before the deadline,
\* however much it prints on either stream and in whatever order: the threads read in
\* parallel (cli.rs:133-134), so that it never blocks on a full pipe for longer than a read.
TimeoutOnlyIfHung == answer.kind = "timed out" => git.ends = "hangs"

\* Every call returns, however git behaves, unless a process git left behind keeps a pipe
\* open: the deadline (cli.rs:141-153) covers git, the joins after it have none.
CallReturns ==
    pc # "idle" ~> \/ pc = "idle"
                   \/ pc \in {"join out", "join err"} /\ \E s \in Stream : "heir" \in holds[s]

=============================================================================
