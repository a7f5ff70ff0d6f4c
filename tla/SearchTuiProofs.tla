--------------------------- MODULE SearchTuiProofs ---------------------------
(***************************************************************************)
(* Proofs about SearchTui, for any commits, characters of any width, key   *)
(* bindings, page size and limit.                                          *)
(***************************************************************************)
EXTENDS SearchTui, SequenceTheorems, WellFoundedInduction, FiniteSetTheorems, TLAPS

(* The cached SHA is that of the selected row. Without a selection it may  *)
(* be left over from an earlier list.                                      *)
Cached == selected # 0 => diffSha = hits[selected]

(* A frame of search mode is not shown before its diff is loaded.          *)
Loaded == phase = "poll" /\ mode = "Search" /\ diffSha # NoSha => diff # NoDiff

IInv ==
  /\ TypeOK
  /\ SelectionInHits /\ Cached /\ Loaded
  /\ HitsAnswerQuery /\ InputOnlyInSearch

-----------------------------------------------------------------------------
LEMMA InitIInv == Init => IInv
<1> SUFFICES ASSUME Init
             PROVE  IInv
  OBVIOUS
<1> USE DEF Init
<1>1. TypeOK
  <2>1. mode \in Mode
    BY DEF Mode, Tabs
  <2>2. << >> \in Seq(Char) /\ << >> \in Seq(Sha)
    BY EmptySeq
  <2>. QED
    BY <2>1, <2>2 DEF TypeOK
<1>2. SelectionInHits /\ Cached /\ Loaded
  BY DEF SelectionInHits, Cached, Loaded
<1>3. HitsAnswerQuery /\ InputOnlyInSearch
  BY DEF HitsAnswerQuery, InputOnlyInSearch
<1>. QED
  BY <1>1, <1>2, <1>3 DEF IInv

(* The keys that edit the query have their actions in input mode only.     *)
LEMMA EditsInInput ==
  ASSUME mode = "Search", NEW a \in {"Char", "Backspace", "Esc", "Enter"}, Press(a),
         inputMode \in {"Nav", "Input"}
  PROVE  inputMode = "Input"
<1> SUFFICES ASSUME inputMode = "Nav"
             PROVE  FALSE
  OBVIOUS
<1>1. PICK k \in Char \cup SpecialKey : NavAction(k) = a
  BY DEF Press, Action, CurrentInputMode
<1>. QED
  BY <1>1 DEF NavAction, SpecialKey

(* A key that changes the mode has that action outside input mode only.    *)
LEMMA TabsInNav ==
  ASSUME mode = "Search", NEW a \in {"Tab", "BackTab"}, Press(a),
         inputMode \in {"Nav", "Input"}
  PROVE  inputMode = "Nav"
<1> SUFFICES ASSUME inputMode = "Input"
             PROVE  FALSE
  OBVIOUS
<1>1. PICK k \in Char \cup SpecialKey : InputAction(k) = a
  BY DEF Press, Action, CurrentInputMode
<1>. QED
  BY <1>1 DEF InputAction

(* A piece of a sequence is a sequence.                                    *)
LEMMA PieceOfSeq ==
  ASSUME NEW S, NEW q \in Seq(S), NEW m \in Nat \ {0}, NEW n \in 0..Len(q)
  PROVE  SubSeq(q, m, n) \in Seq(S)
<1>1. \A i \in m..n : q[i] \in S
  BY ElementOfSeq, LenProperties
<1>2. m \in Int /\ n \in Int
  BY LenProperties
<1>. QED
  BY <1>1, <1>2, SubSeqProperties

(* A successful search returns a list, with a first row unless it is empty. *)
LEMMA AnswerIsList ==
  ASSUME Answer
  PROVE  /\ hits' \in Seq(Sha)
         /\ hits' # << >> => Len(hits') > 0 /\ hits'[1] \in Sha
<1>1. PICK n \in 0..Limit : hits' \in [1..n -> Sha]
  BY DEF Answer
<1>2. hits' \in Seq(Sha)
  BY <1>1
<1>. QED
  BY <1>2, EmptySeq, ElementOfSeq, LenProperties

-----------------------------------------------------------------------------
(* The rows a navigation key leads to are rows.                            *)
LEMMA RowsInHits ==
  ASSUME TypeOK, SelectionInHits, hits # << >>, NEW step \in Nat
  PROVE  /\ Forward(step) \in 1..Len(hits) /\ Back(step) \in 1..Len(hits)
         /\ 1 \in 1..Len(hits) /\ Len(hits) \in 1..Len(hits)
<1>1. Len(hits) \in Nat \ {0}
  BY EmptySeq DEF TypeOK
<1>. QED
  BY <1>1 DEF TypeOK, SelectionInHits, Forward, Back

LEMMA NavigateMoves ==
  ASSUME TypeOK, SelectionInHits, Navigate
  PROVE  /\ \E row \in 1..Len(hits) : MoveTo(row)
         /\ phase' = "draw"
         /\ UNCHANGED <<app, bar, hits, lastError, answered>>
<1>1. hits # << >> /\ phase' = "draw" /\ UNCHANGED <<app, bar, hits, lastError, answered>>
  BY DEF Navigate, SearchKey, Press
<1>2. 1 \in Nat /\ PageStep \in Nat
  BY SizeAssumption
<1>3. \/ MoveTo(Forward(1)) \/ MoveTo(Back(1))
      \/ MoveTo(Forward(PageStep)) \/ MoveTo(Back(PageStep))
      \/ MoveTo(1) \/ MoveTo(Len(hits))
  BY DEF Navigate
<1>. QED
  BY <1>1, <1>2, <1>3, RowsInHits

LEMMA NextTypeOK == TypeOK /\ SelectionInHits /\ [Next]_vars => TypeOK'
<1> SUFFICES ASSUME TypeOK, SelectionInHits, [Next]_vars
             PROVE  TypeOK'
  OBVIOUS
<1> USE DEF TypeOK, app, bar, list, pane
<1>1. CASE Draw \/ ShowReturns
  BY <1>1 DEF Draw, ShowReturns
<1>2. CASE Tick \/ Quit \/ Help
  BY <1>2 DEF Tick, Quit, Help, Press
<1>3. CASE SwitchMode
  <2>1. mode' \in Mode
    BY <1>3 DEF SwitchMode, Mode
  <2>. QED
    BY <1>3, <2>1 DEF SwitchMode, Press
<1>4. CASE FocusSearch
  BY <1>4 DEF FocusSearch, SearchKey, Press
<1>5. CASE Clear
  BY <1>5, EmptySeq DEF Clear, SearchKey, Press
<1>6. CASE TypeChar
  <2>1. PICK c \in Char, k \in 0..Len(query) :
          query' = SubSeq(query, 1, k) \o <<c>> \o SubSeq(query, k + 1, Len(query))
    BY <1>6 DEF TypeChar
  <2>2. SubSeq(query, 1, k) \in Seq(Char) /\ SubSeq(query, k + 1, Len(query)) \in Seq(Char)
    BY PieceOfSeq, LenProperties
  <2>3. query' \in Seq(Char)
    BY <2>1, <2>2
  <2>. QED
    BY <1>6, <2>3 DEF TypeChar, SearchKey, Press
<1>7. CASE Backspace
  <2>1. query' \in Seq(Char)
    <3>1. CASE cursor > 0
      <4>1. PICK k \in 1..Len(query) :
              query' = SubSeq(query, 1, k - 1) \o SubSeq(query, k + 1, Len(query))
        BY <1>7, <3>1 DEF Backspace
      <4>2. /\ SubSeq(query, 1, k - 1) \in Seq(Char)
            /\ SubSeq(query, k + 1, Len(query)) \in Seq(Char)
        BY PieceOfSeq, LenProperties
      <4>. QED
        BY <4>1, <4>2
    <3>2. CASE ~(cursor > 0)
      BY <1>7, <3>2 DEF Backspace
    <3>. QED
      BY <3>1, <3>2
  <2>. QED
    BY <1>7, <2>1 DEF Backspace, SearchKey, Press
<1>8. CASE Navigate
  <2>1. PICK row \in 1..Len(hits) : MoveTo(row)
    BY <1>8, NavigateMoves
  <2>2. row \in Nat /\ hits[row] \in Sha
    BY <2>1, ElementOfSeq, LenProperties
  <2>. QED
    BY <1>8, <2>1, <2>2, NavigateMoves DEF MoveTo
<1>9. CASE Submit
  <2>0. hits' \in Seq(Sha) /\ selected' \in Nat /\ answered' \in Seq(Char)
    <3>1. CASE NoAnswer
      BY <3>1 DEF NoAnswer
    <3>2. CASE SearchFails
      BY <3>2, EmptySeq DEF SearchFails
    <3>3. CASE Answer
      BY <3>3, AnswerIsList DEF Answer
    <3>. QED
      BY <1>9, <3>1, <3>2, <3>3 DEF Submit
  <2>1. CASE NoAnswer \/ SearchFails
    <3>1. diffSha' = diffSha /\ diff' = diff /\ lastError' = TRUE
      BY <2>1 DEF NoAnswer, SearchFails
    <3>. QED
      BY <1>9, <2>0, <3>1 DEF Submit, SearchKey, Press
  <2>2. CASE Answer
    BY <1>9, <2>2, AnswerIsList DEF Submit, Answer, SearchKey, Press
  <2>. QED
    BY <1>9, <2>1, <2>2 DEF Submit
<1>10. CASE UNCHANGED vars
  BY <1>10 DEF vars
<1>. QED
  BY <1>1, <1>2, <1>3, <1>4, <1>5, <1>6, <1>7, <1>8, <1>9, <1>10 DEF Next

LEMMA NextPane ==
  ASSUME TypeOK, SelectionInHits, Cached, Loaded, [Next]_vars
  PROVE  SelectionInHits' /\ Cached' /\ Loaded'
<1> USE DEF SelectionInHits, Cached, Loaded, app, bar, list, pane
<1>1. CASE Draw
  BY <1>1 DEF Draw, NeedsDiff
<1>7. CASE ShowReturns
  <2>1. Loaded'
    BY <1>7 DEF ShowReturns, Rendered, NoDiff
  <2>. QED
    BY <1>7, <2>1 DEF ShowReturns
<1>2. CASE Tick \/ Quit \/ Help \/ SwitchMode \/ FocusSearch \/ TypeChar \/ Backspace
  BY <1>2 DEF Tick, Quit, Help, SwitchMode, FocusSearch, TypeChar, Backspace, SearchKey, Press
<1>3. CASE Clear
  BY <1>3, EmptySeq DEF Clear, SearchKey, Press
<1>4. CASE Navigate
  <2>1. PICK row \in 1..Len(hits) : MoveTo(row)
    BY <1>4, NavigateMoves
  <2>2. row \in Nat \ {0} /\ Len(hits) \in Nat /\ hits # << >>
    BY <1>4, <2>1, LenProperties DEF TypeOK, Navigate
  <2>. QED
    BY <1>4, <2>1, <2>2, NavigateMoves DEF MoveTo
<1>5. CASE Submit
  <2>1. CASE NoAnswer \/ SearchFails
    BY <1>5, <2>1, EmptySeq DEF Submit, NoAnswer, SearchFails, SearchKey, Press
  <2>2. CASE Answer
    <3>1. hits' \in Seq(Sha) /\ Len(hits') \in Nat
          /\ (hits' # << >> => Len(hits') > 0)
      BY <2>2, AnswerIsList, LenProperties
    <3>. QED
      BY <1>5, <2>2, <3>1 DEF Submit, Answer, SearchKey, Press
  <2>. QED
    BY <1>5, <2>1, <2>2 DEF Submit
<1>6. CASE UNCHANGED vars
  BY <1>6 DEF vars
<1>. QED
  BY <1>1, <1>2, <1>3, <1>4, <1>5, <1>6, <1>7 DEF Next

LEMMA NextBar ==
  ASSUME TypeOK, SelectionInHits, HitsAnswerQuery, InputOnlyInSearch, [Next]_vars
  PROVE  HitsAnswerQuery' /\ InputOnlyInSearch'
<1> USE DEF HitsAnswerQuery, InputOnlyInSearch, app, bar, list, pane
<1>0. inputMode \in {"Nav", "Input"}
  BY DEF TypeOK
<1>1. CASE Draw \/ ShowReturns \/ Tick \/ Quit \/ Help
  BY <1>1 DEF Draw, ShowReturns, Tick, Quit, Help
<1>2. CASE SwitchMode
  <2>1. Press("Tab") \/ Press("BackTab")
    BY <1>2 DEF SwitchMode
  <2>2. inputMode = "Nav"
    BY <1>0, <2>1, TabsInNav
  <2>. QED
    BY <1>2, <2>2 DEF SwitchMode
<1>3. CASE FocusSearch \/ Clear
  BY <1>3 DEF FocusSearch, Clear, SearchKey
<1>4. CASE TypeChar
  <2>1. inputMode = "Input"
    BY <1>0, <1>4, EditsInInput DEF TypeChar, SearchKey
  <2>. QED
    BY <1>4, <2>1 DEF TypeChar, SearchKey
<1>5. CASE Backspace
  <2>1. inputMode = "Input"
    BY <1>0, <1>5, EditsInInput DEF Backspace, SearchKey
  <2>. QED
    BY <1>5, <2>1 DEF Backspace, SearchKey
<1>6. CASE Navigate
  BY <1>6, NavigateMoves
<1>7. CASE Submit
  BY <1>7 DEF Submit, SearchKey, NoAnswer, Answer, SearchFails
<1>8. CASE UNCHANGED vars
  BY <1>8 DEF vars
<1>. QED
  BY <1>1, <1>2, <1>3, <1>4, <1>5, <1>6, <1>7, <1>8 DEF Next

-----------------------------------------------------------------------------
(* Induction, over sets instead of predicates. The numbers below those of  *)
(* a set of numbers are finite sets, one of which is contained in all the  *)
(* others: so the set has a least number.                                  *)
LEMMA LeastNatural ==
  ASSUME NEW S, S \subseteq Nat, S # {}
  PROVE  \E x \in S : \A y \in S : x <= y
<1> DEFINE Below(n) == 0..n
           Segments == {Below(n) : n \in S}
<1>1. Segments # {} /\ \A s \in Segments : s \subseteq Nat /\ IsFiniteSet(s)
  <2>1. \A n \in S : Below(n) \subseteq Nat /\ IsFiniteSet(Below(n))
    BY FS_Interval
  <2>. QED
    BY <2>1
<1>2. PICK s \in Segments : \A t \in Segments : <<t, s>> \notin StrictSubsetOrdering(Nat)
  <2>1. Segments \subseteq FiniteSubsetsOf(Nat)
    BY <1>1 DEF FiniteSubsetsOf
  <2> HIDE DEF Segments
  <2>. QED
    BY ONLY <1>1, <2>1, FS_StrictSubsetOrderingWellFounded, WFMin
<1>3. PICK x \in S : s = Below(x)
  OBVIOUS
<1>4. ASSUME NEW y \in S, y < x
      PROVE  FALSE
  <2>1. /\ Below(y) \in Segments /\ Below(y) \subseteq s
        /\ x \in s /\ x \notin Below(y) /\ s \subseteq Nat
    BY <1>3, <1>4
  <2>. QED
    BY <2>1, <1>2 DEF StrictSubsetOrdering
<1>. QED
  BY <1>4

LEMMA NaturalsOf ==
  ASSUME NEW T, 0 \in T, \A n \in Nat : n \in T => n + 1 \in T
  PROVE  Nat \subseteq T
<1> SUFFICES ASSUME Nat \ T # {}
             PROVE  FALSE
  OBVIOUS
<1>1. PICK x \in Nat \ T : \A y \in Nat \ T : x <= y
  BY LeastNatural
<1>2. x - 1 \in Nat /\ x - 1 \in T /\ x = (x - 1) + 1
  BY <1>1
<1>. QED
  BY <1>1, <1>2

LEMMA SequencesOf ==
  ASSUME NEW S, NEW T, << >> \in T,
         \A q \in Seq(S) : q # << >> /\ Tail(q) \in T => q \in T
  PROVE  Seq(S) \subseteq T
<1> DEFINE Short == {n \in Nat : \A q \in Seq(S) : Len(q) <= n => q \in T}
<1>1. 0 \in Short
  BY EmptySeq
<1>2. ASSUME NEW n \in Short
      PROVE  n + 1 \in Short
  <2>1. ASSUME NEW q \in Seq(S), Len(q) <= n + 1, q # << >>
        PROVE  q \in T
    <3>1. Tail(q) \in Seq(S) /\ Len(Tail(q)) = Len(q) - 1 /\ Len(q) \in Nat
      BY <2>1, HeadTailProperties, LenProperties
    <3>2. n \in Nat /\ \A r \in Seq(S) : Len(r) <= n => r \in T
      BY <1>2
    <3>3. \A t \in Seq(S) : Len(t) = Len(q) - 1 => t \in T
      BY <2>1, <3>1, <3>2
    <3>4. Tail(q) \in T
      BY <3>1, <3>3
    <3>. QED
      BY <2>1, <3>4
  <2>2. << >> \in T
    OBVIOUS
  <2>. QED
    BY <2>1, <2>2
<1>3. Nat \subseteq Short
  <2> HIDE DEF Short
  <2>. QED
    BY <1>1, <1>2, NaturalsOf
<1>4. ASSUME NEW q \in Seq(S)
      PROVE  q \in T
  <2>1. Len(q) \in Short
    BY <1>3, LenProperties
  <2>. QED
    BY <2>1
<1>. QED
  BY <1>4

-----------------------------------------------------------------------------
(* Bytes is the function its recursive definition describes. There are     *)
(* functions that add up the widths of the strings of at most n            *)
(* characters; they agree, and so together they are one.                   *)
UpTo(n) == {q \in Seq(Char) : Len(q) <= n}
Adds(g, D) ==
  \A q \in D : g[q] = IF q = << >> THEN 0 ELSE Width[Head(q)] + g[Tail(q)]

LEMMA TailShorter ==
  ASSUME NEW n \in Nat, NEW q \in UpTo(n), q # << >>
  PROVE  /\ Tail(q) \in UpTo(Len(q) - 1) /\ Tail(q) \in UpTo(n)
         /\ Len(q) - 1 \in Nat /\ Len(Tail(q)) = Len(q) - 1
         /\ n > 0 /\ Tail(q) \in UpTo(n - 1)
         /\ Width[Head(q)] \in Nat
<1>1. /\ Head(q) \in Char /\ Tail(q) \in Seq(Char) /\ Len(Tail(q)) = Len(q) - 1
      /\ Len(q) \in Nat /\ Len(q) > 0 /\ Len(q) <= n
  BY HeadTailProperties, EmptySeq DEF UpTo
<1>. QED
  BY <1>1, KeyAssumption DEF UpTo

LEMMA AddsExist == \A n \in Nat : \E g : Adds(g, UpTo(n))
<1> DEFINE Good == {n \in Nat : \E g : Adds(g, UpTo(n))}
<1>1. 0 \in Good
  <2>1. \A q \in UpTo(0) : q = << >>
    BY EmptySeq DEF UpTo
  <2>2. Adds([q \in UpTo(0) |-> 0], UpTo(0))
    BY <2>1 DEF Adds
  <2>. QED
    BY <2>2
<1>2. ASSUME NEW n \in Nat, n \in Good
      PROVE  n + 1 \in Good
  <2>1. PICK g : Adds(g, UpTo(n))
    BY <1>2
  <2> DEFINE h == [q \in UpTo(n + 1) |-> IF q = << >> THEN 0 ELSE Width[Head(q)] + g[Tail(q)]]
  <2>2. ASSUME NEW q \in UpTo(n + 1), q # << >>
        PROVE  h[Tail(q)] = g[Tail(q)]
    <3>1. Tail(q) \in UpTo(n + 1) /\ Tail(q) \in UpTo(n)
      BY <2>2, TailShorter
    <3>. QED
      BY <2>1, <3>1 DEF Adds
  <2>3. Adds(h, UpTo(n + 1))
    BY <2>2 DEF Adds
  <2>. QED
    BY <2>3
<1>3. Nat \subseteq Good
  <2> HIDE DEF Good
  <2>. QED
    BY <1>1, <1>2, NaturalsOf
<1>. QED
  BY <1>3

LEMMA AddsAgree ==
  ASSUME NEW m \in Nat, NEW n \in Nat, NEW g, NEW h,
         Adds(g, UpTo(m)), Adds(h, UpTo(n))
  PROVE  \A q \in UpTo(m) \cap UpTo(n) : g[q] = h[q]
<1> DEFINE Same == {q \in Seq(Char) : q \in UpTo(m) \cap UpTo(n) => g[q] = h[q]}
<1>1. << >> \in Same
  BY EmptySeq DEF Adds
<1>2. ASSUME NEW q \in Seq(Char), q # << >>, Tail(q) \in Same
      PROVE  q \in Same
  <2> SUFFICES ASSUME q \in UpTo(m) \cap UpTo(n)
               PROVE  g[q] = h[q]
    OBVIOUS
  <2>1. g[Tail(q)] = h[Tail(q)]
    BY <1>2, TailShorter
  <2>. QED
    BY <1>2, <2>1 DEF Adds
<1>3. Seq(Char) \subseteq Same
  <2> HIDE DEF Same
  <2>. QED
    BY <1>1, <1>2, SequencesOf
<1>. QED
  BY <1>3 DEF UpTo

LEMMA BytesAdd == DOMAIN Bytes = Seq(Char) /\ Adds(Bytes, Seq(Char))
<1> DEFINE Sum(n) == CHOOSE g : Adds(g, UpTo(n))
           f == [q \in Seq(Char) |-> Sum(Len(q))[q]]
<1>1. \A n \in Nat : Adds(Sum(n), UpTo(n))
  BY AddsExist
<1>2. ASSUME NEW q \in Seq(Char)
      PROVE  f[q] = IF q = << >> THEN 0 ELSE Width[Head(q)] + f[Tail(q)]
  <2>1. Len(q) \in Nat /\ q \in UpTo(Len(q)) /\ f[q] = Sum(Len(q))[q]
    BY LenProperties DEF UpTo
  <2>2. CASE q = << >>
    BY <1>1, <2>1, <2>2 DEF Adds
  <2>3. CASE q # << >>
    <3>1. /\ Tail(q) \in UpTo(Len(q)) \cap UpTo(Len(q) - 1)
          /\ Len(q) - 1 \in Nat /\ Len(Tail(q)) = Len(q) - 1 /\ Tail(q) \in Seq(Char)
      BY <2>1, <2>3, TailShorter DEF UpTo
    <3>2. f[Tail(q)] = Sum(Len(q) - 1)[Tail(q)]
      BY <3>1
    <3>3. Sum(Len(q))[Tail(q)] = Sum(Len(q) - 1)[Tail(q)]
      <4> HIDE DEF Sum
      <4>. QED
        BY <1>1, <2>1, <3>1, AddsAgree
    <3>4. Sum(Len(q))[q] = Width[Head(q)] + Sum(Len(q))[Tail(q)]
      BY <1>1, <2>1, <2>3 DEF Adds
    <3>. QED
      BY <2>1, <2>3, <3>2, <3>3, <3>4
  <2>. QED
    BY <2>2, <2>3
<1>3. f = [q \in Seq(Char) |-> IF q = << >> THEN 0 ELSE Width[Head(q)] + f[Tail(q)]]
  <2> HIDE DEF Sum
  <2>1. f = [q \in Seq(Char) |-> f[q]]
    OBVIOUS
  <2> HIDE DEF f
  <2>. QED
    BY <1>2, <2>1
<1>4. Bytes = [q \in Seq(Char) |-> IF q = << >> THEN 0 ELSE Width[Head(q)] + Bytes[Tail(q)]]
  <2> HIDE DEF f
  <2>1. \E b : b = [q \in Seq(Char) |-> IF q = << >> THEN 0 ELSE Width[Head(q)] + b[Tail(q)]]
    BY <1>3
  <2>. QED
    BY <2>1 DEF Bytes
<1>. QED
  BY <1>4 DEF Adds

LEMMA BytesOfNone == Bytes[<< >>] = 0
<1>1. << >> \in Seq(Char)
  BY EmptySeq
<1>2. \A q \in Seq(Char) : q = << >> => Bytes[q] = 0
  BY BytesAdd DEF Adds
<1>. QED
  BY <1>1, <1>2

LEMMA BytesType == \A q \in Seq(Char) : Bytes[q] \in Nat
<1> DEFINE Counted == {q \in Seq(Char) : Bytes[q] \in Nat}
<1>1. << >> \in Counted
  BY BytesOfNone, EmptySeq
<1>2. ASSUME NEW q \in Seq(Char), q # << >>, Tail(q) \in Counted
      PROVE  q \in Counted
  <2>1. Width[Head(q)] \in Nat
    BY <1>2, HeadTailProperties, KeyAssumption
  <2>. QED
    BY <1>2, <2>1, BytesAdd DEF Adds
<1>3. Seq(Char) \subseteq Counted
  <2> HIDE DEF Counted
  <2>. QED
    BY <1>1, <1>2, SequencesOf
<1>. QED
  BY <1>3

(* A character at the end adds its width.                                  *)
LEMMA BytesOfAppend ==
  ASSUME NEW c \in Char
  PROVE  \A q \in Seq(Char) : Bytes[q \o <<c>>] = Bytes[q] + Width[c]
<1> DEFINE Longer == {q \in Seq(Char) : Bytes[q \o <<c>>] = Bytes[q] + Width[c]}
<1>0. <<c>> \in Seq(Char) /\ Width[c] \in Nat
  BY KeyAssumption
<1>1. << >> \in Longer
  <2>1. << >> \o <<c>> = <<c>> /\ Head(<<c>>) = c /\ Tail(<<c>>) = << >> /\ <<c>> # << >>
    OBVIOUS
  <2>2. Bytes[<<c>>] = Width[c] + Bytes[<< >>] /\ Bytes[<< >>] = 0
    BY <1>0, <2>1, BytesAdd, BytesOfNone DEF Adds
  <2>. QED
    BY <1>0, <2>1, <2>2, EmptySeq
<1>2. ASSUME NEW q \in Seq(Char), q # << >>, Tail(q) \in Longer
      PROVE  q \in Longer
  <2>1. /\ q \o <<c>> \in Seq(Char) /\ q \o <<c>> # << >>
        /\ Head(q \o <<c>>) = Head(q) /\ Tail(q \o <<c>>) = Tail(q) \o <<c>>
    BY <1>0, <1>2
  <2>2. /\ Bytes[q \o <<c>>] = Width[Head(q)] + Bytes[Tail(q) \o <<c>>]
        /\ Bytes[q] = Width[Head(q)] + Bytes[Tail(q)]
    BY <1>2, <2>1, BytesAdd DEF Adds
  <2>3. Head(q) \in Char /\ Tail(q) \in Seq(Char)
    BY <1>2, HeadTailProperties
  <2>4. Width[Head(q)] \in Nat /\ Bytes[Tail(q)] \in Nat
    <3>1. \A d \in Char : Width[d] \in Nat
      BY KeyAssumption
    <3>. QED
      BY <2>3, <3>1, BytesType
  <2>. QED
    BY <1>0, <1>2, <2>2, <2>4
<1>3. Seq(Char) \subseteq Longer
  <2> HIDE DEF Longer
  <2>. QED
    BY <1>1, <1>2, SequencesOf
<1>. QED
  BY <1>3

(* The cursor of an empty query is at its end.                             *)
LEMMA NoneAtNone == 0 \in 0..Len(<< >>) /\ Bytes[SubSeq(<< >>, 1, 0)] = 0
<1>1. SubSeq(<< >>, 1, 0) = << >>
  BY SubSeqEmpty
<1>2. Bytes[SubSeq(<< >>, 1, 0)] = 0
  BY <1>1, BytesOfNone
<1>3. Len(<< >>) = 0
  BY EmptySeq
<1>. QED
  BY <1>2, <1>3

LEMMA NextCursor ==
  ASSUME TypeOK, CursorOnBoundary, [Next]_vars
  PROVE  CursorOnBoundary'
<1> USE DEF CursorOnBoundary, IsBoundary
<1>1. CASE TypeChar
  <2>1. PICK c \in Char \ {HelpKey}, k \in 0..Len(query) :
          /\ Bytes[SubSeq(query, 1, k)] = cursor
          /\ query' = SubSeq(query, 1, k) \o <<c>> \o SubSeq(query, k + 1, Len(query))
          /\ cursor' = cursor + Width[c]
    BY <1>1 DEF TypeChar
  <2> DEFINE front == SubSeq(query, 1, k)
             back == SubSeq(query, k + 1, Len(query))
  <2>2. /\ front \in Seq(Char) /\ back \in Seq(Char) /\ <<c>> \in Seq(Char)
        /\ Len(front) = k /\ k \in Nat /\ Len(<<c>>) = 1
    <3>1. query \in Seq(Char) /\ Len(query) \in Nat
      BY LenProperties DEF TypeOK
    <3>2. \A i \in 1..k : query[i] \in Char
      BY <3>1, ElementOfSeq
    <3>. QED
      BY <3>1, <3>2, PieceOfSeq, SubSeqProperties
  <2> HIDE DEF front, back
  <2>3. /\ front \o <<c>> \in Seq(Char) /\ Len(front \o <<c>>) = k + 1
        /\ query' = (front \o <<c>>) \o back
    BY <2>1, <2>2 DEF front, back
  <2>4. k + 1 \in 0..Len(query') /\ SubSeq(query', 1, k + 1) = front \o <<c>>
    BY <2>2, <2>3, ConcatProperties, LenProperties, SubSeqOfConcat1, SubSeqFull
  <2>5. Bytes[front \o <<c>>] = cursor'
    BY <2>1, <2>2, BytesOfAppend DEF front
  <2>. QED
    BY <2>4, <2>5
<1>2. CASE Backspace
  <2>1. CASE cursor > 0
    <3>1. PICK k \in 1..Len(query) :
            /\ query' = SubSeq(query, 1, k - 1) \o SubSeq(query, k + 1, Len(query))
            /\ cursor' = Bytes[SubSeq(query, 1, k - 1)]
      BY <1>2, <2>1 DEF Backspace
    <3> DEFINE front == SubSeq(query, 1, k - 1)
               back == SubSeq(query, k + 1, Len(query))
    <3>2. /\ front \in Seq(Char) /\ back \in Seq(Char) /\ Len(front) = k - 1 /\ k - 1 \in Nat
      <4>1. query \in Seq(Char) /\ Len(query) \in Nat
        BY LenProperties DEF TypeOK
      <4>2. \A i \in 1..k - 1 : query[i] \in Char
        BY <4>1, ElementOfSeq
      <4>. QED
        BY <4>1, <4>2, PieceOfSeq, SubSeqProperties
    <3> HIDE DEF front, back
    <3>3. query' = front \o back /\ Len(query') = Len(front) + Len(back) /\ Len(back) \in Nat
      BY <3>1, <3>2, ConcatProperties, LenProperties DEF front, back
    <3>4. SubSeq(query', 1, k - 1) = front
      <4>1. CASE k - 1 = 0
        <5>1. front = << >> /\ SubSeq(query', 1, 0) = << >>
          BY <3>2, <4>1, EmptySeq, SubSeqEmpty
        <5>. QED
          BY <4>1, <5>1
      <4>2. CASE k - 1 # 0
        <5>1. 1 \in 1..Len(front) /\ k - 1 \in 1..Len(front)
          BY <3>2, <4>2
        <5>2. SubSeq(query', 1, k - 1) = SubSeq(front, 1, k - 1)
          BY <3>2, <3>3, <5>1, SubSeqOfConcat1
        <5>. QED
          BY <3>2, <5>2, SubSeqFull
      <4>. QED
        BY <4>1, <4>2
    <3>5. k - 1 \in 0..Len(query')
      BY <3>2, <3>3
    <3>. QED
      BY <3>1, <3>4, <3>5 DEF front
  <2>2. CASE ~(cursor > 0)
    BY <1>2, <2>2 DEF Backspace
  <2>. QED
    BY <2>1, <2>2
<1>3. CASE Clear
  <2>1. query' = << >> /\ cursor' = 0
    BY <1>3 DEF Clear
  <2>. QED
    BY <2>1, NoneAtNone
<1>4. CASE UNCHANGED <<query, cursor>>
  BY <1>4
<1>5. \/ TypeChar \/ Backspace \/ Clear \/ UNCHANGED <<query, cursor>>
  BY NavigateMoves DEF Next, vars, bar, Draw, ShowReturns, Tick, Quit, Help, SwitchMode,
     FocusSearch, Navigate, Submit
<1>. QED
  BY <1>1, <1>2, <1>3, <1>4, <1>5

LEMMA Inductive == Spec => []IInv
<1>1. IInv /\ [Next]_vars => IInv'
  BY NextTypeOK, NextPane, NextBar DEF IInv
<1>. QED
  BY InitIInv, <1>1, PTL DEF Spec

-----------------------------------------------------------------------------
(* The variables of the UI have their types, for any keys and any commits. *)
THEOREM TypeCorrect == Spec => []TypeOK
<1>1. IInv => TypeOK
  BY DEF IInv
<1>. QED
  BY Inductive, <1>1, PTL

(* The diff on the screen is that of the selected commit (modes/search.rs, *)
(* set_selected, run_search and ensure_diff_loaded).                       *)
THEOREM DiffIsSelected == Spec => []DiffOfSelection
<1>1. IInv => DiffOfSelection
  <2> SUFFICES ASSUME IInv, phase = "poll", mode = "Search", selected # 0
               PROVE  diff # NoDiff /\ diff.sha = hits[selected]
    BY DEF DiffOfSelection
  <2>1. hits[selected] \in Sha /\ diffSha = hits[selected]
    BY ElementOfSeq, LenProperties DEF IInv, TypeOK, SelectionInHits, Cached
  <2>2. diff # NoDiff
    BY <2>1, ShaAssumption DEF IInv, Loaded
  <2>. QED
    BY <2>1, <2>2 DEF IInv, TypeOK, Rendered
<1>. QED
  BY Inductive, <1>1, PTL

(* The selected row is an index into the list after every key and every    *)
(* outcome of a search.                                                    *)
THEOREM SelectionValid == Spec => []SelectionInHits
<1>1. IInv => SelectionInHits
  BY DEF IInv
<1>. QED
  BY Inductive, <1>1, PTL

(* Outside input mode and without an error, the list answers the query.    *)
THEOREM ListAnswers == Spec => []HitsAnswerQuery
<1>1. IInv => HitsAnswerQuery
  BY DEF IInv
<1>. QED
  BY Inductive, <1>1, PTL

(* The input bar is focused in search mode only, whatever keys are bound   *)
(* to help and to focusing it.                                             *)
THEOREM FocusStaysInSearch == Spec => []InputOnlyInSearch
<1>1. IInv => InputOnlyInSearch
  BY DEF IInv
<1>. QED
  BY Inductive, <1>1, PTL

(* However characters of several bytes are typed and removed, the cursor   *)
(* stays between two characters of the query (modes/search.rs, the Char    *)
(* and Backspace arms of handle_action).                                   *)
THEOREM CursorBetweenCharacters == Spec => []CursorOnBoundary
<1>1. Init => CursorOnBoundary
  BY NoneAtNone DEF Init, CursorOnBoundary, IsBoundary
<1>2. IInv /\ CursorOnBoundary /\ [Next]_vars => CursorOnBoundary'
  BY NextCursor DEF IInv
<1>. QED
  BY Inductive, <1>1, <1>2, PTL DEF Spec
=============================================================================
