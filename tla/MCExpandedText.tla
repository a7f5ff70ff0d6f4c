--------------------------- MODULE MCExpandedText ---------------------------
(* Identifiers of up to five characters; TLC evaluates the assumptions.      *)
EXTENDS Integers, Sequences, FiniteSets

E == INSTANCE ExpandedText WITH MaxBytes <- 24
LOCAL INSTANCE SequencesExt

LOCAL a == E!Letter("a", FALSE)
LOCAL B == E!Letter("b", TRUE)
LOCAL one == E!Digit(1)
LOCAL low == E!Sign("_")
LOCAL dot == E!Sign(".")
LOCAL Texts(chars, n) == UNION {[1 .. k -> chars] : k \in 0 .. n}
LOCAL Idents == {t \in Texts({a, B, one, low}, 5) : t # << >> /\ t[1] \in {a, B}}
LOCAL Ink(t) == SelectSeq(t, LAMBDA c : c # low)

\* What the tokenizer of the full-text index sees in a text: runs of letters and digits,
\* without case.
LOCAL Tokens(t) == {E!Lower(p) : p \in ToSet(E!Pieces(t, {"_", "-", ".", "blank", "newline"}, 1))}

\* Splitting an identifier into words loses nothing but the signs (indexer.rs:1058-1088).
ASSUME WordsKeepInk ==
    \A t \in Idents : FlattenSeq(E!ExtractWords(t)) = E!Lower(Ink(t))

\* Who searches for a word of an identifier finds the commit, if there is room: each of its
\* words is a token of the column, and so is the identifier written as one word
\* (indexer.rs:950-955). With one exception: an identifier of one or two characters is
\* indexed as it stands.
ASSUME WordsAreFound ==
    \A t \in {x \in Idents : Len(x) \in 3 .. 4} :
        LET Roomy == INSTANCE ExpandedText WITH MaxBytes <- 99
            found == Tokens(Roomy!BuildExpanded(t, << >>, << >>))
            words == E!ExtractWords(t)
        IN  /\ ToSet(words) \subseteq found
            /\ Len(words) > 1 => FlattenSeq(words) \in found

\* The expansion never grows a text beyond the limit, and one that is beyond it already
\* not at all: "capped at 4 KiB per commit" (indexer.rs:1106) is a cap on what is added,
\* not on the column.
ASSUME CapOnWhatIsAdded ==
    \A s \in {x \in Idents : Len(x) = 4} : \A n \in {0, 3, 12, 17, 18, 30} :
        LET body == [i \in 1 .. n |-> IF i % 4 = 0 THEN dot ELSE a]
            plain == s \o (IF n = 0 THEN << >> ELSE <<E!Sign("newline")>> \o body)
            whole == E!BuildExpanded(s, body, << >>)
        IN  /\ SubSeq(whole, 1, Len(plain)) = plain
            /\ Len(whole) < 24 \/ whole = plain

=============================================================================
