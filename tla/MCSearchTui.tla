----------------------------- MODULE MCSearchTui -----------------------------
(* An instance of SearchTui for TLC.                                       *)
EXTENDS SearchTui, MCTerminal

(* A two-byte letter beside the bound keys.                                *)
MCWidth == [c \in Char |-> IF c = "u-umlaut" THEN 2 ELSE 1]

(* A key without modifiers does in the event loop what the keymap says.    *)
Renamed(a) == IF a = "NextTab" THEN "Tab" ELSE IF a = "PrevTab" THEN "BackTab"
              ELSE IF a = "Clear" THEN "Esc" ELSE IF a = "Submit" THEN "Enter" ELSE a
ASSUME LoopUsesKeymap ==
  \A k \in Char \cup SpecialKey :
    LET key == [code |-> k, ctrl |-> FALSE, plain |-> TRUE]
    IN  /\ Renamed(T!Dispatch(T!DefaultKeymap, key, "Nav")) = NavAction(k)
        /\ Renamed(T!Dispatch(T!DefaultKeymap, key, "Input")) = InputAction(k)
=============================================================================
