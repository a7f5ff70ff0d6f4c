------------------------------ MODULE GitText -------------------------------
(* What the program makes of git's output (core/git/cli.rs, core/git/mod.rs):  *)
(* text is a sequence of tokens, the control characters and separators among   *)
(* them; a word stands for any text without one. No state.                     *)
EXTENDS Integers, Sequences, FiniteSets, TLC

LOCAL INSTANCE SequencesExt
LOCAL INSTANCE FiniteSetsExt

CONSTANTS
    HexText,   \* words that are 1 to 64 hexadecimal digits
    Number,    \* [word -> Nat], the words that parse as an integer
    Letter,    \* [word -> status letter], "A", "M", "R100"...
    TopDir     \* [path -> its first directory, or "."]

STX == "<stx>"
ETX == "<etx>"
US == "<us>"
NL == "<nl>"
TAB == "<tab>"
Control == {STX, ETX, US}

Failed == [ok |-> FALSE, value |-> << >>]
Parsed(v) == [ok |-> TRUE, value |-> v]

-----------------------------------------------------------------------------
(* Cutting text.                                                             *)

Positions(text, token) == {i \in DOMAIN text : text[i] = token}
Find(text, token, from) ==
    LET at == {i \in Positions(text, token) : i >= from} IN IF at = {} THEN 0 ELSE Min(at)
RFind(text, token) == IF Positions(text, token) = {} THEN 0 ELSE Max(Positions(text, token))

\* str::split: one piece more than there are separators.
Split(text, token) ==
    LET Cut(pieces, t) ==
          IF t = token THEN Append(pieces, << >>)
          ELSE [pieces EXCEPT ![Len(pieces)] = Append(@, t)]
    IN  FoldLeft(Cut, << << >> >>, text)

NonEmpty(pieces) == SelectSeq(pieces, LAMBDA p : p # << >>)

\* Sha::new.
ShaOf(text) == IF Len(text) = 1 /\ text[1] \in HexText THEN Parsed(text[1]) ELSE Failed
ParseEpoch(text) ==
    IF Len(text) = 1 /\ text[1] \in DOMAIN Number THEN Parsed(Number[text[1]]) ELSE Failed
ParseParents(text) ==
    IF \A i \in DOMAIN text : text[i] \in HexText THEN Parsed(text) ELSE Failed

-----------------------------------------------------------------------------
(* `Name <email>`, in trailers and in the answer of check-mailmap.           *)

PairOf(text) ==
    LET open == RFind(text, "<")  close == RFind(text, ">")
    IN  IF open = 0 \/ close <= open + 1 THEN Failed
        ELSE Parsed([name |-> SubSeq(text, 1, open - 1),
                     email |-> SubSeq(text, open + 1, close - 1)])

\* Mailmap answers may have an empty name; anything else that is no pair is an error.
CheckMailmap(text) == PairOf(text)

\* A trailer is a line `co-authored-by: pair` with both parts; others are skipped, and
\* a pair that was there before too.
Trailer(line) ==
    LET colon == Find(line, ":", 1)
    IN  IF colon = 0 \/ SubSeq(line, 1, colon - 1) # <<"co-authored-by">> THEN Failed
        ELSE PairOf(SubSeq(line, colon + 1, Len(line)))

ParseCoauthorTrailers(body) ==
    LET Add(out, line) ==
          LET t == Trailer(line)
          IN  IF t.ok /\ t.value.name # << >> /\ ~Contains(out, t.value)
              THEN Append(out, t.value) ELSE out
    IN  FoldLeft(Add, << >>, Split(body, NL))

-----------------------------------------------------------------------------
(* The diff section.                                                         *)

TopLevelDirs(files) == {TopDir[files[i].path] : i \in DOMAIN files}

CountOf(word) == IF word \in DOMAIN Number THEN Number[word] ELSE 0
LooksNumstat(cols) ==
    Len(cols) >= 3 /\ cols[1] # << >> /\ cols[1][1] \in DOMAIN Number \cup {"-"}

\* Files in the order of their first line: `counts` or `status` of a line go to the entry
\* of its path, or to a new one.
WithEntry(files, path, found) ==
    LET at == {i \in DOMAIN files : files[i].path = path}
    IN  IF at = {}
        THEN Append(files, found @@ [path |-> path, status |-> "M", ins |-> 0, del |-> 0])
        ELSE [files EXCEPT ![Min(at)] = found @@ @]

Path(col) == IF col = << >> THEN "" ELSE col[1]
StatusPath(cols, letter) ==
    Path(IF letter \in {"R", "C"} /\ Len(cols) >= 3 THEN cols[3] ELSE cols[2])

WithLine(files, line) ==
    LET cols == Split(line, TAB)
    IN  IF LooksNumstat(cols)
        THEN WithEntry(files, Path(cols[Len(cols)]),
                       [ins |-> CountOf(cols[1][1]), del |-> CountOf(cols[2][1])])
        ELSE IF cols[1] # << >> /\ cols[1][1] \in DOMAIN Letter /\ Len(cols) >= 2
        THEN LET letter == Letter[cols[1][1]]
             IN  WithEntry(files, StatusPath(cols, letter), [status |-> letter])
        ELSE files

ParseDiffSection(text) == FoldLeft(WithLine, << >>, NonEmpty(Split(text, NL)))

-----------------------------------------------------------------------------
(* `git log`.                                                                *)

\* Nine fields and the body; a body with a separator in it makes more of them, and the
\* walk fails as a whole.
Record(header, diff) ==
    LET fields == Split(header, US)
        f(k) == fields[k]
        body == fields[Len(fields)]
        files == ParseDiffSection(diff)
    IN  IF Len(fields) # 10 THEN Failed
        ELSE LET sha == ShaOf(f(1))  authored == ParseEpoch(f(6))
                 committed == ParseEpoch(f(7))  parents == ParseParents(f(9))
             IN  IF ~(sha.ok /\ authored.ok /\ committed.ok /\ parents.ok) THEN Failed
                 ELSE Parsed([sha |-> sha.value, author |-> <<f(2), f(3)>>,
                              committer |-> <<f(4), f(5)>>, authored |-> authored.value,
                              committed |-> committed.value, subject |-> f(8),
                              parents |-> parents.value, body |-> body, files |-> files,
                              dirs |-> TopLevelDirs(files),
                              coauthors |-> ParseCoauthorTrailers(body)])

\* From each record start to the next; what has no end marker is dropped in silence.
ParseLogOutput(bytes) ==
    LET from[i \in 1 .. Len(bytes) + 1] ==
          LET start == Find(bytes, STX, i)
              end == IF start = 0 THEN 0 ELSE Find(bytes, ETX, start + 1)
              next == Find(bytes, STX, end + 1)
              stop == IF next = 0 THEN Len(bytes) + 1 ELSE next
          IN  IF end = 0 THEN Parsed(<< >>)
              ELSE LET record == Record(SubSeq(bytes, start + 1, end - 1),
                                        SubSeq(bytes, end + 1, stop - 1))
                       rest == from[stop]
                   IN  IF ~record.ok \/ ~rest.ok THEN Failed
                       ELSE Parsed(<<record.value>> \o rest.value)
    IN  from[1]

\* LOG_FORMAT, as git fills it in, and the diff section, of which git prints the
\* --name-status lines only: that option switches --numstat off.
Joined(pieces, token) ==
    IF pieces = << >> THEN << >>
    ELSE FoldLeft(LAMBDA text, p : text \o <<token>> \o p, Head(pieces), Tail(pieces))
DiffLine(f) == <<f.word, TAB>> \o (IF f.was = "" THEN << >> ELSE <<f.was, TAB>>) \o <<f.path>>
GitLogRecord(c) ==
    <<STX>> \o Joined(<<c.sha>> \o c.author \o c.committer
                      \o <<c.authored, c.committed, c.subject, c.parents, c.body>>, US)
    \o <<ETX>> \o <<NL>> \o Joined([i \in DOMAIN c.files |-> DiffLine(c.files[i])], NL)
GitLog(commits) == Joined([i \in DOMAIN commits |-> GitLogRecord(commits[i])], NL)

-----------------------------------------------------------------------------
(* `git for-each-ref`.                                                       *)

\* One entry for each line with the columns of its scope; tags name the commit they lead
\* to. A line with other columns is skipped, one without a SHA fails the listing.
RefOf(scope, cols) ==
    IF scope = "tags" THEN [name |-> cols[3], sha |-> IF cols[2] = << >> THEN cols[1] ELSE cols[2]]
    ELSE [name |-> cols[2], sha |-> cols[1]]

ListRefs(scope, text) ==
    LET width == IF scope = "tags" THEN 3 ELSE 2
        lines == SelectSeq([i \in DOMAIN Split(text, NL) |-> Split(Split(text, NL)[i], TAB)],
                           LAMBDA cols : Len(cols) = width)
        refs == [i \in DOMAIN lines |-> RefOf(scope, lines[i])]
    IN  IF \A i \in DOMAIN refs : ShaOf(refs[i].sha).ok THEN Parsed(refs) ELSE Failed

\* refs.rs: heads, remotes and tags in that order, each name once, without the namespaces
\* that are nobody's branches.
ExcludedPrefixes == {"refs/notes/", "refs/keep/", "refs/replace/", "refs/pull/"}
ExcludedExact == {"refs/stash"}
RefIsIncluded(ref) == ref.name \notin ExcludedExact /\ ref.space \notin ExcludedPrefixes

EnumerateRefs(heads, remotes, tags) ==
    LET Keep(out, r) ==
          IF RefIsIncluded(r) /\ \A i \in DOMAIN out : out[i].name # r.name
          THEN Append(out, r) ELSE out
    IN  FoldLeft(Keep, << >>, heads \o remotes \o tags)

=============================================================================
