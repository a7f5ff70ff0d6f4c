--------------------------- MODULE MCCommandLine ----------------------------
(* Every command, with library calls that succeed and fail; TLC evaluates the  *)
(* assumptions.                                                                *)
EXTENDS Integers, Sequences, FiniteSets

L == INSTANCE CommandLine

LOCAL Commands ==
    {[name |-> n, dryRun |-> d, rebuild |-> r, glob |-> g, explain |-> x, compiles |-> c] :
        n \in L!Wired \cup L!Planned, d, r, g, x, c \in BOOLEAN}
LOCAL Accepted == {cmd \in Commands : L!Parses(cmd)}
LOCAL Library == {[ok |-> TRUE, value |-> v] : v \in {<< >>, <<"a", "b">>}}
                 \cup {[ok |-> FALSE, error |-> v] : v \in L!Variants}
LOCAL Git == {[code |-> 0, out |-> <<"a", "">>], [code |-> 128, out |-> << >>]}
LOCAL Run(cmd, lib, git, json) == L!Process(cmd, lib, git, json, TRUE, FALSE)

\* Each variant has a code of its own (error.rs:39-41).
ASSUME CodesDiffer == Cardinality({L!Code(v) : v \in L!Variants}) = Cardinality(L!Variants)

\* With --json a process prints "exactly one JSON line to stdout" (cli.rs:21-23) and nothing
\* else, whatever it does and however it ends; a search that is refused and one that finds
\* nothing can be told apart by it.
ASSUME OneJsonLine ==
    \A cmd \in Accepted, lib \in Library, git \in Git :
        LET p == Run(cmd, lib, git, TRUE)
        IN  /\ Len(p.out) = 1 /\ p.out[1].form = "json" /\ p.err = {}
            /\ ("error" \in p.out[1].has) = (p.exit # 0)

\* Without it, an error is one line on stderr and nothing on stdout; the two forms end with
\* the same exit code.
ASSUME ErrorsOnStderr ==
    \A cmd \in Accepted, lib \in Library, git \in Git :
        LET p == Run(cmd, lib, git, FALSE)
            shown == p.err \ {L!Text("progress")}
        IN  /\ p.exit # 0 => p.out = << >> /\ Cardinality(shown) = 1
            /\ p.exit = 0 => shown = {}
            /\ p.exit = Run(cmd, lib, git, TRUE).exit

\* A command without a handler never reports success, and one with a handler reports
\* Unimplemented only for a classification of nothing.
ASSUME PlannedFail ==
    \A cmd \in Accepted, git \in Git :
        LET p == Run(cmd, [ok |-> TRUE, value |-> <<"a">>], git, FALSE)
        IN  L!Text("Unimplemented") \in p.err
              <=> \/ cmd.name \in L!Planned
                  \/ cmd.name = "classify" /\ ~cmd.glob /\ ~cmd.explain

\* The terminal comes back as it was after every run of the UI that got as far as its
\* guard and whose calls to restore it work. Before that there is no guard: a terminal that
\* refuses the alternate screen, or to tell its size, stays in raw mode (cli.rs:917-927).
ASSUME TerminalRestored ==
    LET calls == {"raw mode", "alternate", "size", "cooked mode", "leave", "loop"}
    IN  /\ \A fails \in SUBSET {"loop", "raw mode"} : L!RunTui(fails).terminal = L!Plain
        /\ \A fails \in SUBSET calls :
              "alternate" \in fails /\ "raw mode" \notin fails => L!RunTui(fails).terminal.raw
        /\ L!RunTui({"size"}).terminal.alternate

\* The calendar: the days of years of each kind, counted one by one, are those of the
\* closed formula, at both ends of each day.
LOCAL Leap(y) == y % 4 = 0 /\ (y % 100 # 0 \/ y % 400 = 0)
LOCAL Month(y) == <<31, IF Leap(y) THEN 29 ELSE 28, 31, 30, 31, 30, 31, 31, 30, 31, 30, 31>>
LOCAL DaysBefore(y) == 365 * (y - 1970) + Cardinality({k \in 1970 .. y - 1 : Leap(k)})
LOCAL DayOf(y, m, d) ==
    LET before[k \in 1 .. 12] == IF k = 1 THEN 0 ELSE before[k - 1] + Month(y)[k - 1]
    IN  DaysBefore(y) + before[m] + d - 1
ASSUME Calendar ==
    \A y \in {1970, 1972, 1999, 2000, 2023, 2024, 2037} : \A m \in 1 .. 12 :
        \A d \in 1 .. Month(y)[m] : \A s \in {0, 86399} :
            L!UnixTsToDate(86400 * DayOf(y, m, d) + s) = <<y, m, d>>

\* A cell never grows beyond its width, and shows what fits.
ASSUME Cells ==
    \A n \in 0 .. 8 :
        LET text == [i \in 1 .. n |-> i]
        IN  /\ Len(L!Truncate(text, 5)) <= 5
            /\ SubSeq(L!Truncate(text, 5), 1, IF n <= 5 THEN n ELSE 2)
                 = SubSeq(text, 1, IF n <= 5 THEN n ELSE 2)
            /\ (L!Truncate(text, 5) = text) = (n <= 5)

\* No colour where nobody sees it, or where it is switched off.
ASSUME Colours == ~L!ShouldUseColor(FALSE, "1", TRUE) /\ ~L!ShouldUseColor(TRUE, "", TRUE)
                  /\ ~L!ShouldUseColor(FALSE, "unset", FALSE) /\ L!ShouldUseColor(FALSE, "", TRUE)

=============================================================================
