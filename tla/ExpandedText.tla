---------------------------- MODULE ExpandedText ----------------------------
(* The column `expanded` that a commit gets in the full-text index           *)
(* (core/index/indexer.rs, build_expanded): its text, and other spellings of *)
(* the identifiers in it. No state.                                          *)
(*                                                                           *)
(* A character is [l, up], a letter and its case, a digit [d], or a sign: "_" *)
(* and "-" belong to identifiers, anything else ends them. A text is a        *)
(* sequence of characters, each of them one byte.                             *)
EXTENDS Integers, Sequences

LOCAL INSTANCE SequencesExt

CONSTANT MaxBytes   \* 4096: where the expansion stops

Letter(l, up) == [kind |-> "letter", is |-> l, up |-> up]
Digit(d) == [kind |-> "digit", is |-> d, up |-> FALSE]
Sign(s) == [kind |-> "sign", is |-> s, up |-> FALSE]

Lower(text) == [i \in DOMAIN text |-> [text[i] EXCEPT !.up = FALSE]]
CapitalizeFirst(word) ==
    IF word = << >> THEN word ELSE [word EXCEPT ![1].up = (word[1].kind = "letter")]

InIdentifier(c) == c.kind # "sign" \/ c.is \in {"_", "-"}

\* The maximal runs [a-zA-Z][a-zA-Z0-9_-]*.
Identifiers(text) ==
    LET Step(state, c) ==
          IF state.open /\ InIdentifier(c)
          THEN [state EXCEPT !.found[Len(state.found)] = Append(@, c)]
          ELSE IF c.kind = "letter"
          THEN [open |-> TRUE, found |-> Append(state.found, <<c>>)]
          ELSE [state EXCEPT !.open = FALSE]
    IN  FoldLeft(Step, [open |-> FALSE, found |-> << >>], text).found

\* str::split at `signs`, without the pieces shorter than `least`.
Pieces(text, signs, least) ==
    LET Step(pieces, c) ==
          IF c.kind = "sign" /\ c.is \in signs THEN Append(pieces, << >>)
          ELSE [pieces EXCEPT ![Len(pieces)] = Append(@, c)]
    IN  SelectSeq(FoldLeft(Step, << << >> >>, text), LAMBDA p : Len(p) >= least)

\* A word ends at a sign, and where an upper-case letter follows one of lower case or a
\* digit; a sign leaves what came before it remembered. Words keep no case.
ExtractWords(ident) ==
    LET Step(state, c) ==
          IF c.kind = "sign" THEN [state EXCEPT !.words = Append(@, << >>)]
          ELSE LET cut == c.up /\ state.lower /\ Last(state.words) # << >>
                   words == IF cut THEN Append(state.words, << >>) ELSE state.words
               IN  [lower |-> ~c.up,
                    words |-> [words EXCEPT ![Len(words)] =
                                  Append(@, [c EXCEPT !.up = FALSE])]]
        all == FoldLeft(Step, [lower |-> FALSE, words |-> << << >> >>], ident).words
    IN  SelectSeq(all, LAMBDA w : w # << >>)

Joined(words, sign) ==
    FoldLeft(LAMBDA out, w : out \o <<Sign(sign)>> \o w, Head(words), Tail(words))

CamelCase(words) ==
    FlattenSeq([i \in DOMAIN words |-> IF i = 1 THEN words[i] ELSE CapitalizeFirst(words[i])])

\* camelCase, snake_case and kebab-case, but for what is the identifier in lower case.
GenerateCaseVariants(ident) ==
    LET words == ExtractWords(ident)
    IN  IF Len(ident) < 3 \/ words = << >> THEN << >>
        ELSE SelectSeq(<<CamelCase(words), Joined(words, "_"), Joined(words, "-")>>,
                       LAMBDA v : v # Lower(ident) /\ v # << >>)

\* One more piece after a blank, if the limit allows it.
Fits(out, piece) == Len(out) + Len(piece) + 1 < MaxBytes
Added(out, piece) == out \o <<Sign("blank")>> \o piece

\* The variants up to the first that does not fit, then each part that does.
ExpandOne(out, ident) ==
    LET Variant(state, v) ==
          IF state.full \/ ~Fits(state.out, v) THEN [state EXCEPT !.full = TRUE]
          ELSE [state EXCEPT !.out = Added(@, v)]
        Part(text, p) == IF Fits(text, p) THEN Added(text, p) ELSE text
        spelled == FoldLeft(Variant, [out |-> out, full |-> FALSE],
                            GenerateCaseVariants(ident)).out
    IN  FoldLeft(Part, spelled, Pieces(ident, {"/", "\\", ".", "-", "_"}, 3))

ExpandCodeTokens(out, text) ==
    LET Step(state, ident) ==
          IF Len(state) >= MaxBytes \/ Len(ident) < 3 THEN state ELSE ExpandOne(state, ident)
    IN  FoldLeft(Step, out, Identifiers(text))

\* Subject, body and directories as they are, then the expansion of each.
BuildExpanded(subject, body, dirs) ==
    LET plain == subject \o (IF body = << >> THEN << >> ELSE <<Sign("newline")>> \o body)
        whole == FoldLeft(Added, plain, dirs)
    IN  FoldLeft(ExpandCodeTokens, whole, <<subject, body>> \o dirs)

=============================================================================
