----------------------------- MODULE MCTerminal -----------------------------
(* All overrides, keys and themes; TLC evaluates the assumptions.            *)
EXTENDS Integers, Sequences, FiniteSets

LOCAL SpecialKeys == {"Esc", "Enter", "Backspace", "Tab", "BackTab", "Up", "Down", "PageUp",
                      "PageDown", "Home", "End"}
T == INSTANCE Terminal WITH Special <- SpecialKeys

LOCAL Plain(code) == [code |-> code, ctrl |-> FALSE, plain |-> TRUE]
LOCAL Chars == {"?", "/", "q", "Q", "a", "c", "h"}
LOCAL Keys == {[code |-> c, ctrl |-> m, plain |-> ~m] : c \in Chars \cup SpecialKeys, m \in BOOLEAN}
LOCAL Modes == {"Nav", "Input"}
LOCAL Configs == [help : {"unset", "/", "h", "q"}, focus_search : {"unset", "?", "h"}]
LOCAL Keymaps == {T!FromConfig(cfg) : cfg \in Configs}
LOCAL Reaches(keymap, action) ==
    \E k \in {k \in Keys : k.plain} : T!Dispatch(keymap, k, "Nav") = action

\* What the overlay says is wrong of exactly three keys of the defaults while the user
\* types (help.rs:41-45 lists them as global, but Tab is not bound and q is a letter) and
\* of one elsewhere: nothing opens a commit (help.rs:53).
LOCAL Wrong(keymap, mode) ==
    {r.code : r \in {r \in T!HelpRows(keymap, mode) :
                        T!Dispatch(keymap, Plain(r.code), mode) # r.action}}
ASSUME HelpTruth ==
    /\ Wrong(T!DefaultKeymap, "Nav") = {"Enter"}
    /\ Wrong(T!DefaultKeymap, "Input") = {"Tab", "BackTab", "q"}
    /\ \A m \in Keymaps : (m.help # "?" => "?" \in Wrong(m, "Nav"))

\* An override takes an action away from the user exactly when another action has its
\* character. The configuration promises to report that (config/mod.rs:330-331); nothing
\* does. Quitting cannot be taken away.
ASSUME OverridesShadow ==
    \A m \in Keymaps :
        /\ Reaches(m, "Quit")
        /\ Reaches(m, "Help") <=> m.help # "q"
        /\ Reaches(m, "FocusSearch") <=> m.focus_search \notin {m.help, "q"}

\* Whoever types can always leave: Esc and Enter are bound whatever the overrides. The help
\* key is the one character that cannot be typed.
ASSUME InputLeaves ==
    \A m \in Keymaps :
        /\ T!Dispatch(m, Plain("Esc"), "Input") = "Clear"
        /\ T!Dispatch(m, Plain("Enter"), "Input") = "Submit"
        /\ {c \in Chars : T!Dispatch(m, Plain(c), "Input") # "Char"} = {m.help} \cap Chars

\* Control leaves four characters to the terminal (keys.rs:189-195) and no others: Control
\* and the help key is help, and Control and a letter types the letter. In raw mode nobody
\* else takes Control-C, which so does nothing.
ASSUME ControlKeys ==
    \A k \in {k \in Keys : k.ctrl} : \A mode \in Modes :
        LET action == T!Dispatch(T!DefaultKeymap, k, mode)
        IN  /\ (action = "Passthrough") = (k.code \in {"c", "z", "s", "q"})
            /\ action # "Quit"
            /\ k.code = "a" /\ mode = "Input" => action = "Char"

\* The overlay never leaves the terminal, however small, and is in its middle; a terminal
\* of fewer lines than its text and border cuts the last ones off.
ASSUME OverlayInside ==
    \A w \in {0, 1, 49, 50, 51, 80} : \A h \in 0 .. 20 : \A lines \in {11, 13} :
        LET area == [x |-> 0, y |-> 0, w |-> w, h |-> h]
            o == T!Overlay(area, lines)
            right == w - (o.x + o.w)
            below == h - (o.y + o.h)
        IN  /\ right - o.x \in {0, 1} /\ below - o.y \in {0, 1}
            /\ o.h < lines + 2 <=> h < lines + 2

\* A theme that is set is used whatever the terminal is; "Auto" and a terminal that does
\* not say that it is light give what "Dark" gives (theme.rs:216-218).
ASSUME ThemeIsAsked ==
    \A safe \in BOOLEAN, probe \in {"light", "dark", "silent"} :
        LET Resolved(theme) == T!ResolveTheme(theme, safe, probe)
        IN  /\ Resolved("Light").light /\ ~Resolved("Dark").light
            /\ Resolved("Auto") = IF probe = "light" THEN Resolved("Light") ELSE Resolved("Dark")

=============================================================================
