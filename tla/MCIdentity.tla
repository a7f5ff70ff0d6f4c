----------------------------- MODULE MCIdentity -----------------------------
(* Three commits by people who write their names and addresses in several ways. *)
EXTENDS Identity, TLC

MCNorm == "Ann" :> "ann" @@ "ann" :> "ann" @@ "bot" :> "bot"
MCLower == "a@x" :> "a@x" @@ "A@x" :> "a@x" @@ "ann@noreply" :> "ann@noreply"
           @@ "bot@x" :> "bot@x" @@ "" :> ""

MCPeople ==
    1 :> << <<"Ann", "A@x">>, <<"bot", "a@x">> >>
    @@ 2 :> << <<"ann", "a@x">> >>
    @@ 3 :> << <<"Ann", "ann@noreply">>, <<"bot", "">> >>

\* git without an answer; no .mailmap; an alias mapped to its owner.
MCMailmaps ==
    {[works |-> FALSE, map |-> << >>],
     [works |-> TRUE, map |-> << >>],
     [works |-> TRUE, map |-> <<"bot", "a@x">> :> <<"Ann", "A@x">>]}

MCEntry(name, email, canonical, bot) ==
    [pair |-> <<name, email>>, name |-> "bot", email |-> canonical, bot |-> bot]

\* A file that does not parse, none, and one that lists a pair twice and curates one of
\* two spellings of an address.
MCOverrideFiles ==
    {[parses |-> FALSE, entries |-> << >>],
     [parses |-> TRUE, entries |-> << >>],
     [parses |-> TRUE,
      entries |-> << MCEntry("bot", "", "a@x", TRUE), MCEntry("bot", "", "bot@x", FALSE),
                     MCEntry("Ann", "A@x", "bot@x", TRUE) >>]}

=============================================================================
