---------------------------- MODULE MCSearchQuery ----------------------------
(* Three commits that match the words "fix", and a word that is hex digits. *)
EXTENDS SearchQuery, MCSearchFilters, MCExpandedText, MCEvaluation, TLC

MCShape == "fix" :> "words" @@ "decade" :> "hex" @@ " " :> "blank" @@ "fix:" :> "syntax"
MCPrefixed == [t \in Text |-> IF t = "decade" THEN {1, 2, 3} ELSE {}]
MCMatches == [t \in Text |-> IF t = "fix" THEN {1, 2, 3} ELSE {}]
MCBm25 == [t \in Text |-> <<3, 1, 2>>]
MCAge == <<0, 0, -1>>
MCDirs == << {<<"src", "ui">>}, {<<"src", "ui">>, <<"docs">>}, {<<"docs">>} >>

MCAsk(text, limit, json, path, since, branch) ==
    [text |-> text, limit |-> limit, json |-> json, path |-> path, since |-> since,
     branch |-> branch]

MCRequest ==
    {MCAsk("fix", Unset, FALSE, << >>, "none", FALSE),
     MCAsk("fix", Unset, TRUE, <<"src">>, "date", FALSE),
     MCAsk("fix", 9, FALSE, << >>, "none", TRUE),
     MCAsk("fix", 9, FALSE, << >>, "name", FALSE),
     MCAsk("decade", 1, FALSE, << >>, "none", FALSE)}
    \cup {MCAsk(t, 1, FALSE, << >>, "none", FALSE) : t \in {" ", "fix:"}}
==============================================================================
