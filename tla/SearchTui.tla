------------------------------ MODULE SearchTui ------------------------------
(***************************************************************************)
(* The terminal UI of crates/gitlore/src/tui: the event loop of app.rs,    *)
(* the key bindings of keys.rs and the search mode of modes/search.rs.     *)
(*                                                                         *)
(* One iteration of the loop draws a frame and then waits for a key, so    *)
(* `phase` alternates. Drawing is not free of effects: it loads the diff.  *)
(* total_available, which is only printed, and diff_scroll, which nothing  *)
(* ever moves, are left out.                                               *)
(***************************************************************************)
EXTENDS Naturals, Sequences

CONSTANTS
  Sha, NoSha,         \* commits a search may return, the absent one
  Char,               \* characters that can be typed
  Width,              \* Char -> bytes of its UTF-8 form
  HelpKey, FocusKey,  \* the characters bound to Help and FocusSearch
  QuitKey,            \* q, which cannot be bound to anything else
  PageStep,           \* rows that PageUp and PageDown move by
  Limit,              \* hits run_search asks for
  MaxQuery            \* bound: characters in the input bar

ASSUME ShaAssumption == NoSha \notin Sha
ASSUME KeyAssumption ==
  /\ {HelpKey, FocusKey, QuitKey} \subseteq Char
  /\ Width \in [Char -> 1..4]
ASSUME SizeAssumption ==
  /\ {PageStep, Limit} \subseteq Nat \ {0}
  /\ MaxQuery \in Nat

VARIABLES
  phase,      \* of the loop: about to draw, inside `git show`, about to
              \* poll, or over
  mode,       \* App.mode
  help,       \* App.help_visible
  hasIndex,   \* SearchState.index_path is Some
  inputMode,
  query,      \* characters of the input bar
  cursor,     \* byte offset in it
  hits,       \* SHAs of the ranked hits
  selected,   \* selected row, from 1; 0 for None
  lastError,  \* last_error is Some
  diffSha, diff,  \* the cached diff
  answered    \* history: the query whose answer the list of hits is

app == <<mode, help, hasIndex>>
bar == <<inputMode, query, cursor>>
list == <<hits, selected, lastError, answered>>
pane == <<diffSha, diff>>
vars == <<phase, app, bar, list, pane>>

Tabs == <<"Search", "Story", "Risk", "Hotspots">>
Mode == {Tabs[i] : i \in 1..4}
SpecialKey == {"Esc", "Enter", "Backspace", "Tab", "BackTab", "Up", "Down", "PageUp",
               "PageDown", "Home", "End"}

(* A loaded diff is that of a commit, or the error of a failed `git show`. *)
NoDiff == [sha |-> NoSha, kind |-> "none"]
Rendered(s) == [sha : {s}, kind : {"full", "stat", "error"}]

Init ==
  /\ phase = "draw"
  /\ mode = "Search" /\ help = FALSE /\ hasIndex \in BOOLEAN
  /\ inputMode = "Nav" /\ query = <<>> /\ cursor = 0
  /\ hits = <<>> /\ selected = 0 /\ lastError = FALSE /\ answered = <<>>
  /\ diffSha = NoSha /\ diff = NoDiff

-----------------------------------------------------------------------------
(* draw; in search mode render_body calls ensure_diff_loaded, and that     *)
(* runs `git show` unless the diff is there.                               *)
NeedsDiff == mode = "Search" /\ diffSha # NoSha /\ diff = NoDiff

Draw ==
  /\ phase = "draw"
  /\ phase' = IF NeedsDiff THEN "show" ELSE "poll"
  /\ UNCHANGED <<app, bar, list, pane>>

(* render_diff is back. recv_timeout is no deadline: cmd.output() has run  *)
(* to its end on this very thread before anything is sent to the channel.  *)
ShowReturns ==
  /\ phase = "show"
  /\ phase' = "poll"
  /\ diff' \in Rendered(diffSha)
  /\ UNCHANGED <<app, bar, list, diffSha>>

(* Keymap::dispatch, by input mode. A key without an action is ignored.    *)
NavAction(k) ==
  IF k = QuitKey THEN "Quit"
  ELSE IF k = HelpKey THEN "Help"
  ELSE IF k = FocusKey THEN "FocusSearch"
  ELSE IF k \in SpecialKey \ {"Esc", "Enter", "Backspace"} THEN k ELSE "Unrecognised"

InputAction(k) ==
  IF k = HelpKey THEN "Help"
  ELSE IF k \in Char THEN "Char"
  ELSE IF k \in {"Esc", "Enter", "Backspace"} THEN k ELSE "Unrecognised"

CurrentInputMode == IF mode = "Search" THEN inputMode ELSE "Nav"
Action(k) == IF CurrentInputMode = "Nav" THEN NavAction(k) ELSE InputAction(k)

(* A key press whose action is a, and the next iteration of the loop.      *)
Press(a) ==
  /\ phase = "poll"
  /\ \E k \in Char \cup SpecialKey : Action(k) = a
  /\ phase' = "draw"

(* The poll times out, the key has no action, or the event is none.        *)
Tick ==
  /\ phase = "poll"
  /\ phase' = "draw"
  /\ UNCHANGED <<app, bar, list, pane>>

Quit ==
  /\ phase = "poll"
  /\ \E k \in Char \cup SpecialKey : Action(k) = "Quit"
  /\ phase' = "end"
  /\ UNCHANGED <<app, bar, list, pane>>

Help ==
  /\ Press("Help")
  /\ help' = ~help
  /\ UNCHANGED <<mode, hasIndex, bar, list, pane>>

(* Mode::next and Mode::prev, which wrap around.                           *)
SwitchMode ==
  /\ \E i \in 1..4 :
       /\ mode = Tabs[i]
       /\ \/ Press("Tab") /\ mode' = Tabs[(i % 4) + 1]
          \/ Press("BackTab") /\ mode' = Tabs[((i + 2) % 4) + 1]
  /\ help' = FALSE
  /\ UNCHANGED <<hasIndex, bar, list, pane>>

-----------------------------------------------------------------------------
(* SearchState::handle_action, which app.rs calls in search mode only.     *)
SearchKey(a) == mode = "Search" /\ Press(a)

FocusSearch ==
  /\ SearchKey("FocusSearch")
  /\ inputMode' = "Input"
  /\ UNCHANGED <<app, query, cursor, list, pane>>

(* Mutant of Clear: the cursor stays where it was.                         *)
ClearKeepsCursor ==
  /\ SearchKey("Esc")
  /\ inputMode' = "Nav" /\ query' = <<>>
  /\ hits' = <<>> /\ selected' = 0 /\ lastError' = FALSE /\ answered' = <<>>
  /\ diffSha' = NoSha /\ diff' = NoDiff
  /\ UNCHANGED <<app, cursor>>

(* Mutant of Clear: the error message goes, the hits stay.                 *)
ClearKeepsHits ==
  /\ SearchKey("Esc")
  /\ inputMode' = "Nav" /\ query' = <<>> /\ cursor' = 0
  /\ lastError' = FALSE
  /\ UNCHANGED <<app, hits, selected, answered, pane>>

Clear ==
  /\ SearchKey("Esc")
  /\ inputMode' = "Nav" /\ query' = <<>> /\ cursor' = 0
  /\ hits' = <<>> /\ selected' = 0 /\ lastError' = FALSE /\ answered' = <<>>
  /\ diffSha' = NoSha /\ diff' = NoDiff
  /\ UNCHANGED app

(* The bytes of a string; offset is the boundary after k characters of the *)
(* query. insert and the slice of Backspace panic on any other offset.     *)
Bytes[q \in Seq(Char)] == IF q = <<>> THEN 0 ELSE Width[Head(q)] + Bytes[Tail(q)]
IsBoundary(k, offset) == k \in 0..Len(query) /\ Bytes[SubSeq(query, 1, k)] = offset

(* String::insert at the cursor.                                           *)
TypeChar ==
  /\ SearchKey("Char")
  /\ Len(query) < MaxQuery
  /\ \E c \in Char \ {HelpKey}, k \in 0..Len(query) :
       /\ IsBoundary(k, cursor)
       /\ query' = SubSeq(query, 1, k) \o <<c>> \o SubSeq(query, k + 1, Len(query))
       /\ cursor' = cursor + Width[c]
  /\ UNCHANGED <<app, inputMode, list, pane>>

(* Backspace removes the character that ends at the cursor.                *)
Backspace ==
  /\ SearchKey("Backspace")
  /\ IF cursor > 0
     THEN \E k \in 1..Len(query) :
            /\ IsBoundary(k, cursor)
            /\ query' = SubSeq(query, 1, k - 1) \o SubSeq(query, k + 1, Len(query))
            /\ cursor' = Bytes[SubSeq(query, 1, k - 1)]
     ELSE UNCHANGED <<query, cursor>>
  /\ UNCHANGED <<app, inputMode, list, pane>>

-----------------------------------------------------------------------------
(* Mutant of MoveTo: the SHA changes, the lines stay.                      *)
MoveToKeepsLines(row) ==
  /\ selected' = row
  /\ diffSha' = hits[row]
  /\ UNCHANGED diff

(* set_selected: another commit invalidates the cached diff.               *)
MoveTo(row) ==
  /\ selected' = row
  /\ IF hits[row] # diffSha
     THEN diffSha' = hits[row] /\ diff' = NoDiff
     ELSE UNCHANGED pane

(* The row a navigation key leads to; without a selection the first.       *)
Forward(step) == IF selected = 0 THEN 1
                 ELSE IF selected + step < Len(hits) THEN selected + step ELSE Len(hits)
Back(step) == IF selected > step THEN selected - step ELSE 1

Navigate ==
  /\ \/ SearchKey("Down") /\ hits # <<>> /\ MoveTo(Forward(1))
     \/ SearchKey("Up") /\ hits # <<>> /\ MoveTo(Back(1))
     \/ SearchKey("PageDown") /\ hits # <<>> /\ MoveTo(Forward(PageStep))
     \/ SearchKey("PageUp") /\ hits # <<>> /\ MoveTo(Back(PageStep))
     \/ SearchKey("Home") /\ hits # <<>> /\ MoveTo(1)
     \/ SearchKey("End") /\ hits # <<>> /\ MoveTo(Len(hits))
  /\ UNCHANGED <<app, bar, hits, lastError, answered>>

(* run_search has no index to open, or cannot open it: everything but the  *)
(* error message stays.                                                    *)
NoAnswer ==
  /\ lastError' = TRUE
  /\ UNCHANGED <<hits, selected, answered, pane>>

(* Mutant of Answer: the diff of the first hit is not reset.               *)
AnswerKeepsDiff ==
  /\ hasIndex
  /\ \E n \in 0..Limit : hits' \in [1..n -> Sha]
  /\ selected' = IF hits' = <<>> THEN 0 ELSE 1
  /\ lastError' = FALSE
  /\ answered' = query
  /\ UNCHANGED pane

(* The search succeeds. Only a first hit replaces the cached diff.         *)
Answer ==
  /\ hasIndex
  /\ \E n \in 0..Limit : hits' \in [1..n -> Sha]
  /\ selected' = IF hits' = <<>> THEN 0 ELSE 1
  /\ lastError' = FALSE
  /\ answered' = query
  /\ IF hits' # <<>> THEN diffSha' = hits'[1] /\ diff' = NoDiff ELSE UNCHANGED pane

(* Mutant of SearchFails: the selection stays.                             *)
SearchFailsKeepsSelection ==
  /\ hasIndex
  /\ lastError' = TRUE
  /\ hits' = <<>> /\ answered' = query
  /\ UNCHANGED <<selected, pane>>

(* The search fails: the list goes, the cached diff stays.                 *)
SearchFails ==
  /\ hasIndex
  /\ lastError' = TRUE
  /\ hits' = <<>> /\ selected' = 0 /\ answered' = query
  /\ UNCHANGED pane

Submit ==
  /\ SearchKey("Enter")
  /\ inputMode' = "Nav"
  /\ NoAnswer \/ Answer \/ SearchFails
  /\ UNCHANGED <<app, query, cursor>>

Next ==
  \/ Draw \/ ShowReturns \/ Tick \/ Quit \/ Help \/ SwitchMode
  \/ FocusSearch \/ Clear \/ TypeChar \/ Backspace \/ Navigate \/ Submit

Spec == Init /\ [][Next]_vars

-----------------------------------------------------------------------------
TypeOK ==
  /\ phase \in {"draw", "show", "poll", "end"}
  /\ mode \in Mode /\ help \in BOOLEAN /\ hasIndex \in BOOLEAN
  /\ inputMode \in {"Nav", "Input"} /\ query \in Seq(Char)
  /\ hits \in Seq(Sha) /\ selected \in Nat /\ lastError \in BOOLEAN
  /\ diffSha \in Sha \cup {NoSha}
  /\ diff = NoDiff \/ diff \in Rendered(diffSha)
  /\ answered \in Seq(Char)

(* The diff pane "lazy-loads on selection change" (search.rs:14): whenever *)
(* a frame with a selected hit is on the screen, the diff in it is that of *)
(* the selected commit, through new searches, moves and changes of mode.   *)
DiffOfSelection ==
  phase = "poll" /\ mode = "Search" /\ selected # 0 =>
    diff # NoDiff /\ diff.sha = hits[selected]

(* A list with hits has a selected row and an empty list has none, however *)
(* the last search ended: the row is an index into the list.               *)
SelectionInHits == selected \in 0..Len(hits) /\ (selected = 0 <=> hits = <<>>)

(* The status line counts the hits of the query in the input bar: outside  *)
(* input mode, and without an error on display, the list answers it.       *)
HitsAnswerQuery == inputMode = "Nav" /\ ~lastError => answered = query

(* Another mode never leaves the input bar focused: its keys would be      *)
(* read by bindings that the user does not see.                            *)
InputOnlyInSearch == mode # "Search" => inputMode = "Nav"

(* The cursor, a byte offset, is always on a character boundary of the     *)
(* query, multi-byte characters included: insert never panics.             *)
CursorOnBoundary == \E k \in 0..Len(query) : IsBoundary(k, cursor)
=============================================================================
