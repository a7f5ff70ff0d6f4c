--------------------------- MODULE MCGitProvider ----------------------------
(* git prints up to three chunks, more on one stream than its pipe holds; and   *)
(* what GitText makes of logs of up to two commits, evaluated by TLC.           *)
EXTENDS GitProvider, GitText, TLC

MCWrites == {<< >>, <<"out">>, <<"err">>, <<"out", "out", "err">>, <<"err", "err", "out">>,
             <<"err", "out", "err">>}
MCScript ==
    [writes : MCWrites, code : {0, 1}, ends : {"exits", "hangs"}, heir : BOOLEAN,
     alien : BOOLEAN]

MCNumber == "10" :> 10 @@ "20" :> 20 @@ "3" :> 3
MCLetter == "M" :> "M" @@ "A" :> "A" @@ "R100" :> "R"
MCTopDir == "src/a" :> "src" @@ "old" :> "." @@ "new" :> "." @@ "" :> "."

File(word, was, path) == [word |-> word, was |-> was, path |-> path]
Ann == << <<"Ann">>, <<"a@x">> >>
Commit(sha, subject, parents, body, files) ==
    [sha |-> <<sha>>, author |-> Ann, committer |-> << <<"Bob">>, << >> >>,
     authored |-> <<"10">>, committed |-> <<"20">>, subject |-> subject,
     parents |-> parents, body |-> body, files |-> files]

AnnSigns == <<"co-authored-by", ":", "Ann", "<", "a@x", ">">>
Bodies == {<< >>, <<"text", NL, NL>> \o AnnSigns, AnnSigns \o <<NL>> \o AnnSigns,
           <<"co-authored-by", ":", "Ann", "<", ">">>, <<"signed", ":", "Ann", "<", "a@x", ">">>}
Trees == {<< >>, <<File("M", "", "src/a"), File("R100", "old", "new")>>}
Root(body, files) == Commit("a1", <<"fix", ":", "it">>, << >>, body, files)
Merge(body, files) == Commit("b2", << >>, <<"a1", "c3">>, body, files)
Logs == {<< >>} \cup {<<Root(b, f)>> : b \in Bodies, f \in Trees}
        \cup {<<Root(b, f), Merge(d, << >>)>> : b, d \in Bodies, f \in Trees}

Change(f) == [path |-> f.path, status |-> MCLetter[f.word], ins |-> 0, del |-> 0]
Signers(body) == IF \E i \in 1 .. Len(body) - 5 : SubSeq(body, i, i + 5) = AnnSigns
                 THEN <<[name |-> <<"Ann">>, email |-> <<"a@x">>]>> ELSE << >>
Decoded(c) ==
    [sha |-> c.sha[1], author |-> c.author, committer |-> c.committer, authored |-> 10,
     committed |-> 20, subject |-> c.subject, parents |-> c.parents, body |-> c.body,
     files |-> [i \in DOMAIN c.files |-> Change(c.files[i])],
     dirs |-> {MCTopDir[c.files[i].path] : i \in DOMAIN c.files},
     coauthors |-> Signers(c.body)]
DecodedLog(log) == [i \in DOMAIN log |-> Decoded(log[i])]

\* A log without control characters in its fields is read as what it says, bodies of any
\* number of lines included (cli.rs:28-34).
ASSUME LogRoundTrip ==
    \A log \in Logs : ParseLogOutput(GitLog(log)) = Parsed(DecodedLog(log))

\* A log that stops in the middle is read without an error, as a log of fewer commits:
\* nothing after run_git could tell (cli.rs:371-374).
ASSUME CutLogIsAccepted ==
    \A log \in Logs : \A n \in 0 .. Len(GitLog(log)) :
        LET read == ParseLogOutput(SubSeq(GitLog(log), 1, n))
        IN  /\ read.ok /\ Len(read.value) <= Len(log)
            /\ \A i \in DOMAIN read.value : read.value[i].sha = log[i].sha[1]

\* A field separator in one body fails the walk of every commit; an end marker cuts the
\* body, and the rest of it is read as file changes.
ASSUME ControlCharactersInBodies ==
    /\ \A log \in Logs : ~ParseLogOutput(GitLog(log \o <<Root(<<"x", US, "y">>, << >>)>>)).ok
    /\ LET read == ParseLogOutput(GitLog(<<Root(<<"x", ETX, NL, "M", TAB, "old">>, << >>)>>))
       IN  read.value[1].body = <<"x">> /\ read.value[1].files = <<Change(File("M", "", "old"))>>

\* Were the counts there, they would go to the entry of their path, and those of a rename,
\* which git prints for "old => new", to an entry of their own.
ASSUME CountsByPath ==
    /\ ParseDiffSection(<<"M", TAB, "src/a", NL, NL, "3", TAB, "10", TAB, "src/a">>)
         = <<[path |-> "src/a", status |-> "M", ins |-> 3, del |-> 10]>>
    /\ ParseDiffSection(<<"-", TAB, "-", TAB, "old", NL, "R100", TAB, "old", TAB, "new", NL,
                          "3", TAB, "3", TAB, "old => new">>)
         = <<[path |-> "old", status |-> "M", ins |-> 0, del |-> 0],
             [path |-> "new", status |-> "R", ins |-> 0, del |-> 0],
             [path |-> "old => new", status |-> "M", ins |-> 3, del |-> 3]>>

\* Mailmap answers with an empty name pass; those without an address do not.
ASSUME MailmapAnswers ==
    /\ CheckMailmap(<<"<", "a@x", ">">>).value = [name |-> << >>, email |-> <<"a@x">>]
    /\ ~CheckMailmap(<<"Ann", "<", ">">>).ok /\ ~CheckMailmap(<<"Ann", "<", "a@x">>).ok

\* An annotated tag names its commit; one line without a SHA fails the listing; each name
\* is listed once, and notes, replacements and the stash are not.
Ref(name, space, sha) == [name |-> name, space |-> space, sha |-> sha]
ASSUME RefListing ==
    /\ ListRefs("tags", <<"a1", TAB, "b2", TAB, "v1", NL, "a1", TAB, TAB, "v2", NL>>).value
         = <<[name |-> <<"v1">>, sha |-> <<"b2">>], [name |-> <<"v2">>, sha |-> <<"a1">>]>>
    /\ ListRefs("heads", <<"a1", TAB, "main", NL, "a1", TAB, TAB, "x", NL>>).value
         = <<[name |-> <<"main">>, sha |-> <<"a1">>]>>
    /\ ~ListRefs("heads", <<"a1", TAB, "main", NL, "oops", TAB, "x">>).ok
    /\ LET main == Ref("refs/heads/main", "refs/heads/", "a1")
       IN  EnumerateRefs(<<main, Ref("refs/stash", "refs/", "b2")>>,
                         <<Ref("refs/notes/x", "refs/notes/", "b2")>>, <<main>>) = <<main>>
=============================================================================
