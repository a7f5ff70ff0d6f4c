------------------------------ MODULE Terminal ------------------------------
(* What surrounds the state of the terminal UI (crates/gitlore/src/tui): the  *)
(* keymap with the user's overrides (keys.rs), the help overlay (help.rs) and *)
(* the palette (theme.rs). No state; SearchTui has the event loop.            *)
(*                                                                            *)
(* A key is [code, ctrl, plain]: a character or the name of a special key,    *)
(* whether Control is down, and whether no modifier is.                       *)
EXTENDS Integers, Sequences, TLC

CONSTANT Special   \* names of special keys

-----------------------------------------------------------------------------
(* Keys. An override that the configuration leaves out is "unset".            *)

DefaultKeymap == [help |-> "?", focus_search |-> "/"]

\* `submit` and `clear` may be configured and change nothing; whether two actions get the
\* same character is not looked at.
FromConfig(cfg) ==
    [k \in DOMAIN DefaultKeymap |-> IF cfg[k] = "unset" THEN DefaultKeymap[k] ELSE cfg[k]]

IsPassthrough(key) == key.ctrl /\ key.code \in {"c", "z", "s", "q"}

NavKeys == ("Tab" :> "NextTab") @@ ("BackTab" :> "PrevTab")
           @@ [k \in {"Up", "Down", "PageUp", "PageDown", "Home", "End"} |-> k]

DispatchNav(keymap, key) ==
    CASE key.code \in {"q", "Q"} /\ key.plain -> "Quit"
      [] OTHER -> CASE key.code = keymap.help -> "Help"
                    [] key.code # keymap.help /\ key.code = keymap.focus_search -> "FocusSearch"
                    [] key.code \in DOMAIN NavKeys -> NavKeys[key.code]
                    [] OTHER -> "Unrecognised"

DispatchInput(keymap, key) ==
    CASE key.code = "Esc" -> "Clear"
      [] key.code = "Enter" -> "Submit"
      [] key.code = "Backspace" -> "Backspace"
      [] key.code = keymap.help -> "Help"
      [] key.code \notin Special \cup {keymap.help} -> "Char"
      [] key.code \in Special \ {"Esc", "Enter", "Backspace"} -> "Unrecognised"

Dispatch(keymap, key, inputMode) ==
    IF IsPassthrough(key) THEN "Passthrough"
    ELSE IF inputMode = "Nav" THEN DispatchNav(keymap, key) ELSE DispatchInput(keymap, key)

-----------------------------------------------------------------------------
(* The help overlay: rows of a key and the action it is said to have.         *)

Row(code, action) == [code |-> code, action |-> action]
GlobalBindings == {Row("Tab", "NextTab"), Row("BackTab", "PrevTab"), Row("?", "Help"),
                   Row("q", "Quit")}
NavBindings == {Row("/", "FocusSearch"), Row("Enter", "OpenCommit")}
               \cup {Row(k, k) : k \in {"Up", "Down", "PageUp", "PageDown", "Home", "End"}}
InputBindings == {Row("Enter", "Submit"), Row("Esc", "Clear"), Row("Backspace", "Backspace")}

\* The keymap is passed and not looked at.
HelpRows(keymap, inputMode) ==
    GlobalBindings \cup (IF inputMode = "Input" THEN InputBindings ELSE NavBindings)

Least(a, b) == IF a < b THEN a ELSE b

\* centred_rect: in the middle of the parent and no larger than it.
CentredRect(width, height, parent) ==
    LET w == Least(width, parent.w)
        h == Least(height, parent.h)
    IN  [x |-> parent.x + ((parent.w - w) \div 2), y |-> parent.y + ((parent.h - h) \div 2),
         w |-> w, h |-> h]

\* As many lines as there is text, and two of border.
Overlay(area, lines) == CentredRect(50, Least(lines + 2, area.h), area)

-----------------------------------------------------------------------------
(* The palette: for a light or a dark background, and whether its colours of  *)
(* risk can be told apart by the colour-blind.                                *)

\* A terminal that does not answer within 200 ms counts as dark.
IsLightBackground(probe) == probe = "light"
ResolveTheme(theme, colorBlindSafe, probe) ==
    [light |-> theme = "Light" \/ (theme = "Auto" /\ IsLightBackground(probe)),
     safe |-> colorBlindSafe]

=============================================================================
