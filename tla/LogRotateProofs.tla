--------------------------- MODULE LogRotateProofs ---------------------------
(***************************************************************************)
(* Proofs about LogRotate, for any writers, files, caps, numbers of slots  *)
(* and sizes of records.                                                   *)
(***************************************************************************)
EXTENDS LogRotate, FiniteSetTheorems, TLAPS

Busy == {"check", "move", "reopen", "append"}
Running(w) == pc[w] # "closed"

(* A call of write has a record to append.                                 *)
Records == \A w \in Writer : pc[w] \in Busy => record[w] \in DOMAIN size

(* A file without bytes is one without records.                            *)
Empty == \A f \in File : bytes[f] = 0 => content[f] = << >>

(* What holds while writers run one after the other.                       *)
OneWriter == \A v, w \in Writer : Running(v) /\ Running(w) => v = w

(* The record to append is newer than any in a file.                       *)
Newest(w) ==
  pc[w] \in Busy =>
    /\ record[w] = Len(size)
    /\ \A f \in File : \A k \in DOMAIN content[f] : content[f][k] < record[w]

(* A rotation has emptied the slot above the one it has come to.           *)
Rotating(w) ==
  /\ pc[w] = "move" => slot[at[w]] # NoFile
  /\ pc[w] \in {"check", "move"} /\ at[w] < Retention => slot[at[w] + 1] = NoFile
  /\ pc[w] = "reopen" => slot[0] = NoFile

(* The writer appends to the youngest file there is, wherever a rotation   *)
(* that failed has left it; if it is gone, so are all the others.          *)
Youngest(w) ==
  /\ \A i, j \in Slot : slot[j] = handle[w] /\ i < j => slot[i] = NoFile
  /\ (\A j \in Slot : slot[j] # handle[w]) => \A j \in Slot : slot[j] = NoFile

(* It knows how long that file is, and appends what it has room for.       *)
Counts(w) ==
  /\ counted[w] = bytes[handle[w]]
  /\ pc[w] = "append" => counted[w] = 0 \/ counted[w] + size[record[w]] <= Cap

AtWork(w) == Newest(w) /\ Rotating(w) /\ Youngest(w) /\ Counts(w)

CapEach == \A f \in Named : bytes[f] <= Cap \/ Len(content[f]) = 1

(* Older slots have older records.                                         *)
InOrder ==
  \A i, j \in Slot : slot[i] # NoFile /\ slot[j] # NoFile /\ i > j =>
     \A k \in DOMAIN content[slot[i]], l \in DOMAIN content[slot[j]] :
        content[slot[i]][k] < content[slot[j]][l]

(* Nothing newer than a record that is kept has been dropped.              *)
NoGap == \A r \in Kept, s \in Written : s > r => s \in Kept

Alone ==
  ~shared => /\ \A v, w \in Writer : Running(v) /\ Running(w) => v = w
             /\ \A w \in Writer : Running(w) => AtWork(w)
             /\ CapEach /\ InOrder /\ NoGap

IInv == TypeOK /\ Records /\ Empty /\ Alone

LEMMA Constants ==
  /\ Cap \in Nat /\ Cap > 0 /\ Retention \in Nat /\ Retention > 0
  /\ MaxRecords \in Nat /\ MaxFaults \in Nat /\ NoFile \notin File
  /\ Slot = 0 .. Retention
  /\ \A n \in RecordSizes : n \in Nat /\ n > 0
BY CapAssumption, SizesAssumption, FileAssumption, BoundAssumption DEF Slot

LEMMA InitIInv == Init => IInv
<1> SUFFICES ASSUME Init PROVE IInv
  OBVIOUS
<1>1. TypeOK
  <2>1. slot \in [Slot -> File \union {NoFile}] /\ \A i \in Slot : slot[i] = NoFile
    BY DEF Init
  <2>2. /\ content \in [File -> Seq(DOMAIN size)] /\ bytes \in [File -> Nat]
        /\ size \in Seq(RecordSizes)
    BY DEF Init
  <2>3. pc \in [Writer -> Stage] /\ \A w \in Writer : handle[w] = NoFile /\ pc[w] = "closed"
    BY DEF Init, Stage
  <2>4. /\ at \in [Writer -> Slot] /\ counted \in [Writer -> Nat]
        /\ record \in [Writer -> 0 .. Len(size)]
    BY Constants DEF Init
  <2>5. /\ handle \in [Writer -> File \union {NoFile}] /\ refused \subseteq DOMAIN size
        /\ shared \in BOOLEAN
    BY DEF Init
  <2>6. faults \in 0 .. MaxFaults
    BY Constants DEF Init
  <2> QED
    BY <2>1, <2>2, <2>3, <2>4, <2>5, <2>6 DEF TypeOK
<1>2. Records /\ Empty
  BY DEF Init, Records, Empty, Busy
<1>3. \A w \in Writer : ~Running(w)
  BY DEF Init, Running
<1>4. Named = {}
  BY DEF Init, Named
<1>5. CapEach /\ InOrder /\ NoGap
  BY <1>4 DEF Init, CapEach, InOrder, NoGap, Kept
<1> QED
  BY <1>1, <1>2, <1>3, <1>5 DEF IInv, Alone

(* What open(create, append) gives: the active file, or a new one.         *)
OpensOld(w, f) == slot[0] = f /\ UNCHANGED <<slot, content, bytes>>
OpensNew(w, f) ==
  /\ slot[0] = NoFile /\ ~InUse(f)
  /\ slot' = [slot EXCEPT ![0] = f] /\ content' = [content EXCEPT ![f] = << >>]
  /\ bytes' = [bytes EXCEPT ![f] = 0]

LEMMA Opened ==
  ASSUME TypeOK, NEW w \in Writer, OpenActive(w)
  PROVE  \E f \in File : /\ handle' = [handle EXCEPT ![w] = f]
                         /\ OpensOld(w, f) \/ OpensNew(w, f)
<1>1. 0 \in Slot
  BY Constants
<1>2. CASE slot[0] # NoFile
  BY <1>1, <1>2 DEF TypeOK, OpenActive, OpensOld
<1>3. CASE slot[0] = NoFile
  <2>1. \E f \in File : ~InUse(f)
    BY <1>3 DEF OpenActive
  <2>2. (CHOOSE f \in File : ~InUse(f)) \in File /\ ~InUse(CHOOSE f \in File : ~InUse(f))
    BY <2>1
  <2> QED
    BY <1>3, <2>2 DEF OpenActive, OpensNew
<1> QED
  BY <1>2, <1>3

-----------------------------------------------------------------------------
(* Types.                                                                  *)

LEMMA OpenTypes ==
  ASSUME TypeOK, NEW w \in Writer, OpenActive(w), UNCHANGED size
  PROVE  /\ slot' \in [Slot -> File \union {NoFile}]
         /\ \A i, j \in Slot : slot'[i] = slot'[j] /\ slot'[i] # NoFile => i = j
         /\ content' \in [File -> Seq(DOMAIN size')] /\ bytes' \in [File -> Nat]
         /\ handle' \in [Writer -> File \union {NoFile}] /\ handle'[w] \in File
         /\ \A v \in Writer \ {w} : handle'[v] = handle[v]
<1>1. PICK f \in File : /\ handle' = [handle EXCEPT ![w] = f]
                        /\ OpensOld(w, f) \/ OpensNew(w, f)
  BY Opened
<1>2. CASE OpensOld(w, f)
  BY <1>1, <1>2 DEF OpensOld, TypeOK
<1>3. CASE OpensNew(w, f)
  <2>1. \A i \in Slot : slot[i] # f
    BY <1>3 DEF OpensNew, InUse
  <2>2. << >> \in Seq(DOMAIN size)
    OBVIOUS
  <2> QED
    BY <1>1, <1>3, <2>1, <2>2 DEF OpensNew, TypeOK
<1> QED
  BY <1>1, <1>2, <1>3

LEMMA ProceedTypes ==
  ASSUME TypeOK, NEW w \in Writer, Proceed(w)
  PROVE  /\ pc' \in [Writer -> Stage] /\ pc'[w] \in {"check", "reopen"}
         /\ \A v \in Writer \ {w} : pc'[v] = pc[v] /\ at'[v] = at[v]
         /\ at' \in [Writer -> Slot]
         /\ pc'[w] = "check" => at[w] > 0 /\ at'[w] = at[w] - 1
         /\ pc'[w] = "reopen" => at[w] = 0 /\ at'[w] = 0
<1>1. at[w] \in 0 .. Retention /\ at[w] \in Int
  BY Constants DEF TypeOK
<1>2. CASE at[w] = 0
  BY <1>1, <1>2 DEF Proceed, TypeOK, Stage
<1>3. CASE at[w] # 0
  <2>1. at[w] - 1 \in Slot /\ at[w] > 0
    BY <1>1, <1>3, Constants
  <2>2. pc' = [pc EXCEPT ![w] = "check"] /\ at' = [at EXCEPT ![w] = at[w] - 1]
    BY <1>3 DEF Proceed
  <2>3. at' \in [Writer -> Slot] /\ at'[w] = at[w] - 1
    BY <2>1, <2>2 DEF TypeOK
  <2>4. pc' \in [Writer -> Stage] /\ pc'[w] = "check"
    BY <2>2 DEF TypeOK, Stage
  <2> QED
    BY <2>1, <2>2, <2>3, <2>4 DEF TypeOK
<1> QED
  BY <1>2, <1>3

LEMMA Types ==
  ASSUME TypeOK, Records, NEW w \in Writer,
         \/ New(w) \/ (\E n \in RecordSizes : Write(w, n))
         \/ CheckSlot(w) \/ MoveSlot(w) \/ Reopen(w) \/ AppendRecord(w)
         \/ MoveRaces(w) \/ Fault(w) \/ Exit(w)
  PROVE  TypeOK'
<1> USE Constants DEF AtRest, Stage
<1>1. CASE New(w)
  <2>1. UNCHANGED size
    BY <1>1 DEF New
  <2>2. /\ pc' \in [Writer -> Stage]
        /\ \A v \in Writer : handle'[v] = NoFile <=> pc'[v] = "closed"
    BY <1>1, <2>1, OpenTypes DEF New, TypeOK
  <2>3. counted' \in [Writer -> Nat] /\ shared' \in BOOLEAN
    BY <1>1 DEF New, TypeOK
  <2> QED
    BY <1>1, <2>1, <2>2, <2>3, OpenTypes DEF New, TypeOK
<1>2. ASSUME NEW n \in RecordSizes, Write(w, n) PROVE TypeOK'
  <2>1. size' \in Seq(RecordSizes) /\ Len(size') = Len(size) + 1 /\ Len(size) \in Nat
        /\ DOMAIN size \subseteq DOMAIN size'
    BY <1>2 DEF Write, TypeOK
  <2>2. content \in [File -> Seq(DOMAIN size')]
    BY <2>1 DEF TypeOK
  <2>3. pc' \in [Writer -> Stage] /\ at' \in [Writer -> Slot]
        /\ \A v \in Writer : handle[v] = NoFile <=> pc'[v] = "closed"
    BY <1>2 DEF Write, TypeOK
  <2>4. record' \in [Writer -> 0 .. Len(size')]
    BY <1>2, <2>1 DEF Write, TypeOK
  <2> QED
    BY <1>2, <2>1, <2>2, <2>3, <2>4 DEF Write, TypeOK
<1>3. CASE CheckSlot(w)
  <2>1. CASE Proceed(w)
    <3>1. \A v \in Writer : handle[v] = NoFile <=> pc'[v] = "closed"
      BY <1>3, <2>1, ProceedTypes DEF CheckSlot, TypeOK
    <3> QED
      BY <1>3, <2>1, <3>1, ProceedTypes DEF CheckSlot, TypeOK
  <2>2. CASE pc' = [pc EXCEPT ![w] = "move"] /\ UNCHANGED at
    BY <1>3, <2>2 DEF CheckSlot, TypeOK
  <2> QED
    BY <1>3, <2>1, <2>2 DEF CheckSlot
<1>4. CASE MoveSlot(w)
  <2>1. slot' \in [Slot -> File \union {NoFile}]
        /\ \A i, j \in Slot : slot'[i] = slot'[j] /\ slot'[i] # NoFile => i = j
    BY <1>4 DEF MoveSlot, TypeOK
  <2>2. pc' \in [Writer -> Stage] /\ at' \in [Writer -> Slot]
        /\ \A v \in Writer : handle[v] = NoFile <=> pc'[v] = "closed"
    BY <1>4, ProceedTypes DEF MoveSlot, TypeOK
  <2> QED
    BY <1>4, <2>1, <2>2 DEF MoveSlot, TypeOK
<1>5. CASE Reopen(w)
  <2>1. UNCHANGED size
    BY <1>5 DEF Reopen
  <2>2. /\ pc' \in [Writer -> Stage]
        /\ \A v \in Writer : handle'[v] = NoFile <=> pc'[v] = "closed"
    BY <1>5, <2>1, OpenTypes DEF Reopen, TypeOK
  <2> QED
    BY <1>5, <2>1, <2>2, OpenTypes DEF Reopen, TypeOK
<1>6. CASE AppendRecord(w)
  <2>1. record[w] \in DOMAIN size /\ size[record[w]] \in Nat /\ handle[w] \in File
    BY <1>6 DEF AppendRecord, Records, Busy, TypeOK
  <2>2. content' \in [File -> Seq(DOMAIN size)]
    BY <1>6, <2>1 DEF AppendRecord, TypeOK
  <2>3. bytes' \in [File -> Nat] /\ counted' \in [Writer -> Nat]
    BY <1>6, <2>1 DEF AppendRecord, TypeOK
  <2>4. pc' \in [Writer -> Stage] /\ \A v \in Writer : handle[v] = NoFile <=> pc'[v] = "closed"
    BY <1>6 DEF AppendRecord, TypeOK
  <2> QED
    BY <1>6, <2>2, <2>3, <2>4 DEF AppendRecord, TypeOK
<1>7. CASE MoveRaces(w)
  BY <1>7 DEF MoveRaces, Refuse, TypeOK, Records, Busy
<1>8. CASE Fault(w)
  BY <1>8 DEF Fault, Refuse, TypeOK, Records, Busy
<1>9. CASE Exit(w)
  <2>1. refused' \subseteq DOMAIN size
    BY <1>9 DEF Exit, TypeOK, Records, Busy
  <2>2. pc' \in [Writer -> Stage] /\ handle' \in [Writer -> File \union {NoFile}]
        /\ \A v \in Writer : handle'[v] = NoFile <=> pc'[v] = "closed"
    BY <1>9 DEF Exit, TypeOK
  <2> QED
    BY <1>9, <2>1, <2>2 DEF Exit, TypeOK
<1> QED
  BY <1>1, <1>2, <1>3, <1>4, <1>5, <1>6, <1>7, <1>8, <1>9

-----------------------------------------------------------------------------
Step(w) ==
  \/ New(w) \/ (\E n \in RecordSizes : Write(w, n))
  \/ CheckSlot(w) \/ MoveSlot(w) \/ Reopen(w) \/ AppendRecord(w)
  \/ MoveRaces(w) \/ Fault(w) \/ Exit(w)

(* A step of one writer leaves what the others hold alone.                 *)
LEMMA Others ==
  ASSUME TypeOK, NEW w \in Writer, Step(w), NEW v \in Writer \ {w}
  PROVE  UNCHANGED <<pc[v], handle[v], at[v], record[v], counted[v]>>
<1> USE DEF AtRest, Refuse, TypeOK
<1>1. CASE New(w) \/ Reopen(w)
  <2>1. handle'[v] = handle[v]
    BY <1>1, Opened DEF New, Reopen
  <2> QED
    BY <1>1, <2>1 DEF New, Reopen
<1>2. CASE CheckSlot(w) \/ MoveSlot(w)
  BY <1>2 DEF CheckSlot, MoveSlot, Proceed
<1>3. CASE AppendRecord(w) \/ MoveRaces(w) \/ Fault(w) \/ Exit(w)
  BY <1>3 DEF AppendRecord, MoveRaces, Fault, Exit
<1>4. CASE \E n \in RecordSizes : Write(w, n)
  BY <1>4 DEF Write
<1> QED
  BY <1>1, <1>2, <1>3, <1>4 DEF Step

LEMMA RecordsKeeps ==
  ASSUME TypeOK, Records, NEW w \in Writer, Step(w)
  PROVE  Records'
<1>1. DOMAIN size \subseteq DOMAIN size'
  <2>1. CASE \E n \in RecordSizes : Write(w, n)
    BY <2>1 DEF Write, TypeOK
  <2> QED
    BY <2>1 DEF Step, New, CheckSlot, MoveSlot, Reopen, AppendRecord, MoveRaces, Fault, Refuse,
                Exit
<1>2. pc'[w] \in Busy => record'[w] \in DOMAIN size'
  <2>1. CASE \E n \in RecordSizes : Write(w, n)
    BY <2>1 DEF Write, TypeOK
  <2>2. CASE CheckSlot(w) \/ MoveSlot(w) \/ Reopen(w)
    BY <2>2 DEF CheckSlot, MoveSlot, Reopen, TypeOK, Records, Busy
  <2>3. CASE New(w) \/ AppendRecord(w) \/ MoveRaces(w) \/ Fault(w) \/ Exit(w)
    BY <2>3 DEF New, AppendRecord, MoveRaces, Fault, Refuse, Exit, TypeOK, Busy
  <2> QED
    BY <2>1, <2>2, <2>3 DEF Step
<1>3. \A v \in Writer \ {w} : pc'[v] \in Busy => record'[v] \in DOMAIN size'
  BY <1>1, Others DEF Records
<1> QED
  BY <1>2, <1>3 DEF Records

LEMMA EmptyKeeps ==
  ASSUME TypeOK, Records, Empty, NEW w \in Writer, Step(w)
  PROVE  Empty'
<1>1. CASE New(w) \/ Reopen(w)
  <2>1. PICK f \in File : OpensOld(w, f) \/ OpensNew(w, f)
    BY <1>1, Opened DEF New, Reopen
  <2> QED
    BY <2>1 DEF OpensOld, OpensNew, Empty, TypeOK
<1>2. CASE AppendRecord(w)
  <2>1. handle[w] \in File /\ size[record[w]] \in Nat /\ size[record[w]] > 0
    BY <1>2, Constants DEF AppendRecord, Records, Busy, TypeOK
  <2>2. /\ bytes'[handle[w]] # 0
        /\ \A f \in File \ {handle[w]} : UNCHANGED <<bytes[f], content[f]>>
    BY <1>2, <2>1 DEF AppendRecord, TypeOK
  <2> QED
    BY <2>2 DEF Empty
<1>3. CASE UNCHANGED <<content, bytes>>
  BY <1>3 DEF Empty
<1> QED
  BY <1>1, <1>2, <1>3
     DEF Step, Write, CheckSlot, MoveSlot, MoveRaces, Fault, Refuse, Exit

Solo(w) == ~shared /\ \A v \in Writer \ {w} : ~Running(v)
Kept1(w) == (Running(w) => AtWork(w)) /\ CapEach /\ InOrder /\ NoGap

(* Without others, what holds of the writer and of the files is enough.    *)
LEMMA AloneKeeps ==
  ASSUME TypeOK, Alone, NEW w \in Writer, Step(w),
         Solo(w) => Kept1(w)'
  PROVE  Alone'
<1> SUFFICES ASSUME ~shared' PROVE Alone'
  BY DEF Alone
<1>1. ~shared
  BY DEF Step, New, Write, CheckSlot, MoveSlot, Reopen, AppendRecord, MoveRaces, Fault, Refuse,
         Exit
<1>2. \A v \in Writer \ {w} : ~Running(v)
  <2>1. CASE New(w)
    BY <2>1 DEF New, Running
  <2>2. CASE ~New(w)
    <3>1. Running(w)
      BY <2>2 DEF Step, Write, CheckSlot, MoveSlot, Reopen, AppendRecord, MoveRaces, Fault, Exit,
                  Running
    <3> QED
      BY <1>1, <3>1 DEF Alone
  <2> QED
    BY <2>1, <2>2
<1>3. \A v \in Writer \ {w} : ~Running(v)'
  BY <1>2, Others DEF Running
<1> QED
  BY <1>1, <1>2, <1>3 DEF Alone, Solo, Kept1

(* Only appending and opening files and moving them changes what is kept.  *)
LEMMA SameFiles ==
  ASSUME CapEach, InOrder, NoGap, UNCHANGED <<slot, content, bytes>>, Written' \subseteq Written
  PROVE  CapEach' /\ InOrder' /\ NoGap'
BY DEF CapEach, InOrder, NoGap, Kept, Named

LEMMA SoloWorks ==
  ASSUME IInv, NEW w \in Writer, Solo(w)
  PROVE  Kept1(w)
BY DEF IInv, Alone, Solo, Kept1

LEMMA WriteSolo ==
  ASSUME IInv, NEW w \in Writer, NEW n \in RecordSizes, Write(w, n), Solo(w)
  PROVE  Kept1(w)'
<1>1. /\ pc[w] = "idle" /\ AtWork(w) /\ CapEach /\ InOrder /\ NoGap
      /\ UNCHANGED <<slot, content, bytes, handle, counted, refused>>
  BY SoloWorks DEF Write, Running, Kept1
<1>2. /\ Len(size) \in Nat /\ Len(size') = Len(size) + 1 /\ record'[w] = Len(size')
      /\ size'[record'[w]] = n /\ DOMAIN size' = DOMAIN size \cup {Len(size')}
  BY DEF IInv, TypeOK, Write
<1>3. /\ pc'[w] = (IF Rotates(w, n) THEN "check" ELSE "append")
      /\ at'[w] = (IF Rotates(w, n) THEN Retention ELSE 0)
  BY DEF IInv, TypeOK, Write
<1>4. Newest(w)'
  <2>1. \A f \in File : \A k \in DOMAIN content[f] : content[f][k] < Len(size')
    <3> SUFFICES ASSUME NEW f \in File, NEW k \in DOMAIN content[f]
                 PROVE  content[f][k] < Len(size')
      OBVIOUS
    <3>1. content[f] \in Seq(1 .. Len(size))
      BY DEF IInv, TypeOK
    <3>2. content[f][k] \in 1 .. Len(size)
      BY <3>1
    <3> QED
      BY <1>2, <3>2
  <2> QED
    BY <1>1, <1>2, <2>1 DEF Newest
<1>5. Rotating(w)' /\ Youngest(w)'
  <2>1. Rotating(w)'
    BY <1>3, Constants DEF Rotating
  <2>2. Youngest(w)'
    BY <1>1 DEF AtWork, Youngest
  <2> QED
    BY <2>1, <2>2
<1>6. Counts(w)'
  <2>1. counted[w] \in Nat /\ n \in Nat /\ Cap \in Nat
    BY Constants DEF IInv, TypeOK
  <2> QED
    BY <1>1, <1>2, <1>3, <2>1 DEF AtWork, Counts, Rotates
<1>7. Written' \subseteq Written
  <2> SUFFICES ASSUME NEW r \in Written' PROVE r \in Written
    OBVIOUS
  <2>1. pc'[w] \in Busy
    BY <1>3 DEF Busy
  <2>2. r \in DOMAIN size' /\ r \notin refused /\ r # Len(size')
    BY <1>1, <1>2, <2>1 DEF Written, Busy
  <2>3. \A v \in Writer : pc[v] \notin {"check", "move", "reopen", "append"}
    BY <1>1 DEF Solo, Running
  <2> QED
    BY <1>2, <2>2, <2>3 DEF Written
<1> QED
  BY <1>1, <1>4, <1>5, <1>6, <1>7, SameFiles DEF Kept1, AtWork

LEMMA CheckSolo ==
  ASSUME IInv, NEW w \in Writer, CheckSlot(w), Solo(w)
  PROVE  Kept1(w)'
<1>1. /\ pc[w] = "check" /\ AtWork(w) /\ CapEach /\ InOrder /\ NoGap
      /\ UNCHANGED <<slot, content, bytes, size, handle, counted, record, refused>>
  BY SoloWorks DEF CheckSlot, Running, Kept1
<1>2. pc'[w] \in {"check", "move", "reopen"} /\ \A v \in Writer \ {w} : pc'[v] = pc[v]
  BY ProceedTypes DEF CheckSlot, IInv, TypeOK
<1>3. Rotating(w)'
  <2>1. CASE slot[at[w]] # NoFile
    <3>1. pc'[w] = "move" /\ at' = at
      BY <2>1 DEF CheckSlot, IInv, TypeOK
    <3> QED
      BY <1>1, <2>1, <3>1 DEF AtWork, Rotating
  <2>2. CASE slot[at[w]] = NoFile
    <3>1. Proceed(w) /\ at[w] \in Nat
      BY <2>2, Constants DEF CheckSlot, IInv, TypeOK
    <3> QED
      BY <1>1, <2>2, <3>1, ProceedTypes DEF Rotating, IInv
  <2> QED
    BY <2>1, <2>2
<1>4. Newest(w)' /\ Youngest(w)' /\ Counts(w)'
  BY <1>1, <1>2 DEF AtWork, Newest, Busy, Youngest, Counts
<1>5. Written' \subseteq Written
  BY <1>1, <1>2 DEF Written
<1> QED
  BY <1>1, <1>3, <1>4, <1>5, SameFiles DEF Kept1, AtWork

LEMMA StopSolo ==
  ASSUME IInv, NEW w \in Writer, MoveRaces(w) \/ Fault(w) \/ Exit(w), Solo(w)
  PROVE  Kept1(w)'
<1>1. /\ Running(w) /\ AtWork(w) /\ CapEach /\ InOrder /\ NoGap
      /\ UNCHANGED <<slot, content, bytes, size>>
  BY SoloWorks DEF MoveRaces, Fault, Refuse, Exit, Running, Kept1
<1>2. Running(w)' => pc'[w] = "idle" /\ UNCHANGED <<handle, counted>>
  BY DEF MoveRaces, Fault, Refuse, Exit, Running, IInv, TypeOK
<1>3. Running(w)' => AtWork(w)'
  BY <1>1, <1>2 DEF AtWork, Newest, Busy, Rotating, Youngest, Counts
<1>4. Written' \subseteq Written
  <2>1. pc[w] \in Busy => refused' = refused \union {record[w]}
    BY DEF MoveRaces, Fault, Refuse, Exit, Busy
  <2>2. refused \subseteq refused'
    BY DEF MoveRaces, Fault, Refuse, Exit
  <2>3. \A v \in Writer \ {w} : pc[v] \notin Busy
    BY DEF Solo, Running, Busy
  <2> QED
    BY <1>1, <2>1, <2>2, <2>3 DEF Written, Busy
<1> QED
  BY <1>1, <1>3, <1>4, SameFiles DEF Kept1

(* Moving a slot up keeps the order, since the one above is empty; what     *)
(* goes from the last one is older than all that is kept.                   *)
LEMMA MoveSolo ==
  ASSUME IInv, NEW w \in Writer, MoveSlot(w), Solo(w)
  PROVE  Kept1(w)'
<1> DEFINE a == at[w]
<1>1. /\ pc[w] = "move" /\ AtWork(w) /\ CapEach /\ InOrder /\ NoGap /\ slot[a] # NoFile
      /\ UNCHANGED <<content, bytes, size, handle, counted, record, refused>>
  BY SoloWorks DEF MoveSlot, Running, Kept1
<1>2. /\ pc'[w] \in {"check", "reopen"} /\ \A v \in Writer \ {w} : pc'[v] = pc[v]
      /\ pc'[w] = "check" => a > 0 /\ at'[w] = a - 1
      /\ pc'[w] = "reopen" => a = 0
  BY ProceedTypes DEF MoveSlot, IInv
<1>3. /\ a \in 0 .. Retention /\ Slot = 0 .. Retention /\ Retention \in Nat /\ Retention > 0
      /\ slot \in [Slot -> File \cup {NoFile}]
      /\ handle[w] # NoFile
  BY <1>1, Constants DEF IInv, TypeOK
<1>4. /\ a < Retention => slot[a + 1] = NoFile
      /\ \A i, j \in Slot : slot[j] = handle[w] /\ i < j => slot[i] = NoFile
      /\ (\A j \in Slot : slot[j] # handle[w]) => \A j \in Slot : slot[j] = NoFile
  BY <1>1 DEF AtWork, Rotating, Youngest
<1>5. slot' = IF a = Retention THEN [slot EXCEPT ![a] = NoFile]
              ELSE [slot EXCEPT ![a + 1] = slot[a], ![a] = NoFile]
  BY DEF MoveSlot
<1> HIDE DEF a
<1>6. Newest(w)' /\ Counts(w)'
  BY <1>1, <1>2 DEF AtWork, Newest, Busy, Counts
<1>7. Written' = Written
  BY <1>1, <1>2 DEF Written
<1>8. CASE a = Retention
  <2>1. slot'[a] = NoFile /\ \A i \in Slot \ {a} : slot'[i] = slot[i]
    BY <1>3, <1>5, <1>8
  <2>2. Rotating(w)'
    BY <1>2, <1>3, <1>8, <2>1 DEF Rotating
  <2>3. Youngest(w)'
    BY <1>1, <1>3, <1>4, <1>8, <2>1 DEF Youngest
  <2>4. CapEach'
    BY <1>1, <2>1 DEF CapEach, Named
  <2>5. InOrder'
    BY <1>1, <2>1 DEF InOrder
  <2>6. NoGap'
    <3> SUFFICES ASSUME NEW r \in Kept', NEW s \in Written, s > r PROVE s \in Kept'
      BY <1>7 DEF NoGap
    <3>1. PICK j \in Slot : slot'[j] # NoFile /\ \E l \in DOMAIN content[slot'[j]] :
                               r = content[slot'[j]][l]
      BY <1>1 DEF Kept, Named
    <3>2. j # a /\ slot[j] = slot'[j] /\ a > j
      BY <1>3, <1>8, <2>1, <3>1
    <3>3. r \in Kept
      BY <3>1, <3>2 DEF Kept, Named
    <3>4. s \in Kept
      BY <1>1, <3>3 DEF NoGap
    <3>5. PICK i \in Slot : slot[i] # NoFile /\ \E k \in DOMAIN content[slot[i]] :
                               s = content[slot[i]][k]
      BY <3>4 DEF Kept, Named
    <3>6. i # a
      <4> SUFFICES ASSUME i = a PROVE FALSE
        OBVIOUS
      <4>1. s < r
        BY <1>1, <3>1, <3>2, <3>5 DEF InOrder
      <4>2. r \in Int /\ s \in Int
        <5>1. \A f \in File : content[f] \in Seq(1 .. Len(size))
          BY DEF IInv, TypeOK
        <5>2. slot[i] \in File /\ slot[j] \in File
          BY <1>3, <3>1, <3>2, <3>5
        <5>3. \A f \in File : \A k \in DOMAIN content[f] : content[f][k] \in Int
          BY <5>1
        <5> QED
          BY <3>1, <3>2, <3>5, <5>2, <5>3
      <4> QED
        BY <4>1, <4>2
    <3> QED
      BY <1>1, <2>1, <3>5, <3>6 DEF Kept, Named
  <2> QED
    BY <1>6, <2>2, <2>3, <2>4, <2>5, <2>6 DEF Kept1, AtWork
<1>9. CASE a < Retention
  <2>1. /\ a + 1 \in Slot /\ slot'[a] = NoFile /\ slot'[a + 1] = slot[a]
        /\ slot[a + 1] = NoFile
        /\ \A i \in Slot \ {a, a + 1} : slot'[i] = slot[i]
    BY <1>3, <1>4, <1>5, <1>9
  <2>2. Rotating(w)'
    BY <1>2, <1>3, <1>9, <2>1 DEF Rotating
  <2>3. Youngest(w)'
    <3>1. PICK j \in Slot : slot[j] = handle[w] /\ j <= a
      BY <1>1, <1>3, <1>4
    <3>2. \A i \in Slot : i < j => slot[i] = NoFile
      BY <1>4, <3>1
    <3>3. \A i \in Slot : slot[i] = handle[w] => i = j
      BY <1>3, <3>1 DEF IInv, TypeOK
    <3>4. CASE j = a
      BY <1>1, <1>3, <2>1, <3>1, <3>2, <3>3, <3>4 DEF Youngest
    <3>5. CASE j < a
      BY <1>1, <1>3, <2>1, <3>1, <3>2, <3>3, <3>5 DEF Youngest
    <3> QED
      BY <1>3, <3>1, <3>4, <3>5
  <2>4. Named' = Named
    BY <1>1, <1>3, <2>1 DEF Named
  <2>5. CapEach'
    BY <1>1, <2>4 DEF CapEach
  <2>6. InOrder'
    <3> SUFFICES ASSUME NEW i \in Slot, NEW j \in Slot,
                        slot'[i] # NoFile, slot'[j] # NoFile, i > j,
                        NEW k \in DOMAIN content[slot'[i]], NEW l \in DOMAIN content[slot'[j]]
                 PROVE  content[slot'[i]][k] < content[slot'[j]][l]
      BY <1>1 DEF InOrder
    <3> DEFINE from(m) == IF m = a + 1 THEN a ELSE m
    <3>1. \A m \in Slot : slot'[m] # NoFile => from(m) \in Slot /\ slot'[m] = slot[from(m)]
      BY <1>3, <2>1
    <3>2. from(i) > from(j)
      BY <1>3, <2>1
    <3> QED
      BY <1>1, <3>1, <3>2 DEF InOrder
  <2>7. NoGap'
    BY <1>1, <1>7, <2>4 DEF NoGap, Kept
  <2> QED
    BY <1>6, <2>2, <2>3, <2>5, <2>6, <2>7 DEF Kept1, AtWork
<1> QED
  BY <1>3, <1>8, <1>9

(* A new file is empty, and nothing had it before.                         *)
LEMMA OpenKeepsFiles ==
  ASSUME IInv, CapEach, InOrder, NoGap, NEW w \in Writer, OpenActive(w),
         Written' \subseteq Written
  PROVE  /\ CapEach' /\ InOrder' /\ NoGap' /\ Youngest(w)'
         /\ slot[0] = NoFile => bytes'[handle'[w]] = 0
         /\ slot[0] # NoFile => handle'[w] = slot[0] /\ bytes' = bytes
         /\ \A f \in File : content'[f] = content[f] \/ content'[f] = << >>
<1>1. PICK f \in File : /\ handle' = [handle EXCEPT ![w] = f]
                        /\ OpensOld(w, f) \/ OpensNew(w, f)
  BY Opened DEF IInv
<1>2. handle'[w] = f /\ f # NoFile /\ 0 \in Slot /\ Slot = 0 .. Retention
  BY <1>1, Constants DEF IInv, TypeOK
<1>3. CASE OpensOld(w, f)
  <2>1. Youngest(w)'
    BY <1>2, <1>3 DEF OpensOld, Youngest, IInv, TypeOK
  <2> QED
    BY <1>2, <1>3, <2>1, SameFiles DEF OpensOld
<1>4. CASE OpensNew(w, f)
  <2>1. /\ \A i \in Slot : slot[i] # f
        /\ slot'[0] = f /\ \A i \in Slot \ {0} : slot'[i] = slot[i]
        /\ content'[f] = << >> /\ \A g \in File \ {f} : UNCHANGED <<content[g], bytes[g]>>
        /\ bytes'[f] = 0 /\ slot[0] = NoFile
    BY <1>2, <1>4 DEF OpensNew, InUse, IInv, TypeOK
  <2>2. Youngest(w)'
    BY <1>2, <2>1 DEF Youngest
  <2>3. Named' = Named \cup {f}
    BY <1>2, <2>1 DEF Named
  <2>4. Named \subseteq File /\ f \notin Named
    BY <2>1 DEF Named, IInv, TypeOK
  <2>5. CapEach'
    BY <2>1, <2>3, <2>4, Constants DEF CapEach
  <2>6. InOrder'
    <3>1. \A i \in Slot : slot'[i] # NoFile /\ DOMAIN content'[slot'[i]] # {} =>
             slot'[i] = slot[i] /\ content'[slot'[i]] = content[slot[i]]
      BY <1>2, <2>1 DEF IInv, TypeOK
    <3> QED
      BY <3>1 DEF InOrder
  <2>7. Kept' = Kept
    <3>1. \A g \in Named : content'[g] = content[g]
      BY <2>1, <2>4
    <3> QED
      BY <2>1, <2>3, <3>1 DEF Kept
  <2>8. NoGap'
    BY <2>7 DEF NoGap
  <2> QED
    BY <1>2, <2>1, <2>2, <2>5, <2>6, <2>8
<1> QED
  BY <1>1, <1>3, <1>4

LEMMA OpenSolo ==
  ASSUME IInv, NEW w \in Writer, New(w) \/ Reopen(w), Solo(w)
  PROVE  Kept1(w)'
<1>1. /\ CapEach /\ InOrder /\ NoGap /\ OpenActive(w)
      /\ UNCHANGED <<size, at, record, refused>>
      /\ \A v \in Writer \ {w} : pc'[v] = pc[v]
  BY SoloWorks DEF New, Reopen, Kept1, IInv, TypeOK
<1>2. Written' \subseteq Written
  <2>1. pc[w] \in Busy => pc'[w] \in Busy
    BY DEF New, Reopen, Busy, IInv, TypeOK
  <2> QED
    BY <1>1, <2>1 DEF Written, Busy
<1>3. CapEach' /\ InOrder' /\ NoGap' /\ Youngest(w)'
  BY <1>1, <1>2, OpenKeepsFiles
<1>4. CASE New(w)
  <2>1. pc'[w] = "idle" /\ counted'[w] = IF slot[0] = NoFile THEN 0 ELSE bytes[slot[0]]
    BY <1>4 DEF New, IInv, TypeOK
  <2>2. counted'[w] = bytes'[handle'[w]]
    BY <1>1, <1>2, <2>1, OpenKeepsFiles
  <2> QED
    BY <1>3, <2>1, <2>2 DEF Kept1, AtWork, Newest, Busy, Rotating, Counts
<1>5. CASE Reopen(w)
  <2>1. pc[w] = "reopen" /\ pc'[w] = "append" /\ counted'[w] = 0 /\ AtWork(w)
    BY <1>5, SoloWorks DEF Reopen, Kept1, Running, IInv, TypeOK
  <2>2. slot[0] = NoFile /\ Newest(w)
    BY <2>1 DEF AtWork, Rotating
  <2>3. counted'[w] = bytes'[handle'[w]]
    BY <1>1, <1>2, <2>1, <2>2, OpenKeepsFiles
  <2>4. Newest(w)'
    <3>1. \A f \in File : content'[f] = content[f] \/ content'[f] = << >>
      BY <1>1, <1>2, OpenKeepsFiles
    <3> QED
      BY <1>1, <2>1, <2>2, <3>1 DEF Newest, Busy
  <2> QED
    BY <1>3, <2>1, <2>3, <2>4 DEF Kept1, AtWork, Rotating, Counts
<1> QED
  BY <1>4, <1>5

(* The record goes to the end of the youngest file, which has room for it. *)
LEMMA AppendSolo ==
  ASSUME IInv, NEW w \in Writer, AppendRecord(w), Solo(w)
  PROVE  Kept1(w)'
<1> DEFINE h == handle[w]
           r == record[w]
<1>1. /\ pc[w] = "append" /\ AtWork(w) /\ CapEach /\ InOrder /\ NoGap
      /\ UNCHANGED <<slot, size, handle, refused>>
  BY SoloWorks DEF AppendRecord, Running, Kept1
<1>2. /\ h \in File /\ h # NoFile /\ r \in DOMAIN size /\ size[r] \in Nat /\ size[r] > 0
      /\ counted[w] \in Nat /\ Cap \in Nat /\ r = Len(size) /\ Len(size) \in Nat
      /\ size \in Seq(RecordSizes) /\ slot \in [Slot -> File \cup {NoFile}]
      /\ Slot = 0 .. Retention /\ Retention \in Nat
  BY <1>1, Constants DEF IInv, TypeOK, Records, Busy, AtWork, Newest
<1>3. /\ content[h] \in Seq(1 .. Len(size)) /\ content'[h] = Append(content[h], r)
      /\ bytes'[h] = bytes[h] + size[r]
      /\ \A f \in File \ {h} : UNCHANGED <<content[f], bytes[f]>>
      /\ counted'[w] = counted[w] + size[r] /\ pc'[w] = "idle"
      /\ \A v \in Writer \ {w} : pc'[v] = pc[v]
  BY <1>2 DEF AppendRecord, IInv, TypeOK
<1>4. /\ counted[w] = bytes[h] /\ (counted[w] = 0 \/ counted[w] + size[r] <= Cap)
      /\ \A f \in File : \A k \in DOMAIN content[f] : content[f][k] < r
      /\ \A i, j \in Slot : slot[j] = h /\ i < j => slot[i] = NoFile
      /\ (\A j \in Slot : slot[j] # h) => \A j \in Slot : slot[j] = NoFile
  BY <1>1 DEF AtWork, Counts, Newest, Busy, Youngest
<1>5. /\ DOMAIN content'[h] = DOMAIN content[h] \cup {Len(content[h]) + 1}
      /\ \A k \in DOMAIN content[h] : content'[h][k] = content[h][k]
      /\ content'[h][Len(content[h]) + 1] = r
  BY <1>2, <1>3
<1> HIDE DEF h, r
<1>6. AtWork(w)'
  <2>1. Counts(w)'
    BY <1>1, <1>3, <1>4 DEF Counts, h
  <2>2. Youngest(w)'
    BY <1>1 DEF AtWork, Youngest
  <2> QED
    BY <1>3, <2>1, <2>2 DEF AtWork, Newest, Busy, Rotating
<1>7. CapEach'
  <2>1. Named' = Named /\ Named \subseteq File
    BY <1>1, <1>2 DEF Named
  <2>2. bytes'[h] <= Cap \/ Len(content'[h]) = 1
    <3>1. CASE counted[w] = 0
      <4>1. content[h] = << >>
        BY <1>2, <1>4, <3>1 DEF IInv, Empty
      <4> QED
        BY <1>3, <4>1
    <3>2. CASE counted[w] + size[r] <= Cap
      BY <1>3, <1>4, <3>2
    <3> QED
      BY <1>4, <3>1, <3>2
  <2> QED
    BY <1>1, <1>3, <2>1, <2>2 DEF CapEach
<1>8. InOrder'
  <2> SUFFICES ASSUME NEW i \in Slot, NEW j \in Slot,
                      slot[i] # NoFile, slot[j] # NoFile, i > j,
                      NEW k \in DOMAIN content'[slot[i]], NEW l \in DOMAIN content'[slot[j]]
               PROVE  content'[slot[i]][k] < content'[slot[j]][l]
    BY <1>1 DEF InOrder
  <2>1. slot[i] # h
    BY <1>2, <1>4
  <2>2. slot[i] \in File /\ slot[j] \in File
    BY <1>2
  <2>3. content'[slot[i]] = content[slot[i]] /\ content[slot[i]][k] < r
    BY <1>3, <1>4, <2>1, <2>2
  <2>4. CASE slot[j] = h /\ l = Len(content[h]) + 1
    BY <1>5, <2>3, <2>4
  <2>5. CASE l \in DOMAIN content[slot[j]] /\ content'[slot[j]][l] = content[slot[j]][l]
    BY <1>1, <2>3, <2>5 DEF InOrder
  <2> QED
    BY <1>3, <1>5, <2>2, <2>4, <2>5
<1>9. NoGap'
  <2> SUFFICES ASSUME NEW x \in Kept', NEW s \in Written', s > x PROVE s \in Kept'
    BY DEF NoGap
  <2>1. PICK i \in Slot : slot[i] # NoFile /\ \E k \in DOMAIN content'[slot[i]] :
                            x = content'[slot[i]][k]
    BY <1>1 DEF Kept, Named
  <2>2. Kept \subseteq Kept'
    <3> SUFFICES ASSUME NEW y \in Kept PROVE y \in Kept'
      OBVIOUS
    <3>1. PICK f \in Named : \E k \in DOMAIN content[f] : y = content[f][k]
      BY DEF Kept
    <3>2. f \in File /\ f \in Named'
      BY <1>1, <1>2 DEF Named
    <3>3. \E k \in DOMAIN content'[f] : y = content'[f][k]
      BY <1>3, <1>5, <3>1, <3>2
    <3> QED
      BY <3>2, <3>3 DEF Kept
  <2>3. CASE s = r
    <3>1. PICK j \in Slot : slot[j] = h
      BY <1>4, <2>1
    <3>2. h \in Named'
      BY <1>1, <1>2, <3>1 DEF Named
    <3> QED
      BY <1>5, <2>3, <3>2 DEF Kept
  <2>4. CASE s # r
    <3>1. s \in Written
      <4>1. \A v \in Writer \ {w} : pc[v] = "closed"
        BY DEF Solo, Running
      <4> QED
        BY <1>1, <2>4, <4>1 DEF Written, r
    <3>2. s \in 1 .. Len(size)
      BY <1>2, <3>1 DEF Written
    <3>3. x # r
      BY <1>2, <3>2
    <3>4. slot[i] \in File
      BY <1>2, <2>1
    <3>5. \E k \in DOMAIN content[slot[i]] : x = content[slot[i]][k]
      BY <1>3, <1>5, <2>1, <3>3, <3>4
    <3>6. x \in Kept
      BY <2>1, <3>5 DEF Kept, Named
    <3> QED
      BY <1>1, <2>2, <3>1, <3>6 DEF NoGap
  <2> QED
    BY <2>3, <2>4
<1> QED
  BY <1>6, <1>7, <1>8, <1>9 DEF Kept1

-----------------------------------------------------------------------------
LEMMA StepKeeps ==
  ASSUME IInv, NEW w \in Writer, Step(w)
  PROVE  IInv'
<1>1. TypeOK' /\ Records' /\ Empty'
  BY Types, RecordsKeeps, EmptyKeeps DEF IInv, Step
<1>2. Solo(w) => Kept1(w)'
  BY WriteSolo, CheckSolo, MoveSolo, OpenSolo, AppendSolo, StopSolo DEF Step
<1>3. Alone'
  BY <1>2, AloneKeeps DEF IInv
<1> QED
  BY <1>1, <1>3 DEF IInv

LEMMA Invariant == Spec => []IInv
<1>1. IInv /\ [Next]_vars => IInv'
  <2> SUFFICES ASSUME IInv, [Next]_vars PROVE IInv'
    OBVIOUS
  <2>1. CASE Next
    BY <2>1, StepKeeps DEF Next, Step
  <2>2. CASE UNCHANGED vars
    <3>1. TypeOK' /\ Records' /\ Empty'
      BY <2>2 DEF IInv, TypeOK, Records, Empty, vars
    <3>2. Alone'
      BY <2>2 DEF IInv, Alone, Running, AtWork, Newest, Rotating, Youngest, Counts, CapEach,
                  InOrder, NoGap, Kept, Written, Named, vars
    <3> QED
      BY <3>1, <3>2 DEF IInv
  <2> QED
    BY <2>1, <2>2
<1> QED
  BY <1>1, InitIInv, PTL DEF Spec

-----------------------------------------------------------------------------
(* Writers at the same time.  The bytes of a file are shared out: each of  *)
(* them lies in a cell of one writer, of which a writer has as many as the *)
(* cap.  The k-th cell of a writer is one it fills when it counts k bytes. *)
Cell == Writer \X (1 .. Cap)
SmallRecords == \A r \in DOMAIN size : size[r] <= Cap

Shares(f, g) ==
  /\ g \in [1 .. bytes[f] -> Cell]
  /\ \A a, b \in 1 .. bytes[f] : g[a] = g[b] => a = b
  /\ \A b \in 1 .. bytes[f] : \A w \in Writer : g[b][1] = w =>
       /\ g[b][2] <= bytes[f]
       /\ handle[w] = f => g[b][2] <= counted[w]
       /\ f = slot[0] /\ handle[w] # NoFile => handle[w] = f

Shared == SmallRecords => \A f \in File : \E g : Shares(f, g)

(* A writer counts no byte that is not there, and a rotation that opens    *)
(* the active file has left the file it had.                               *)
Behind(w) ==
  /\ handle[w] # NoFile => counted[w] <= bytes[handle[w]]
  /\ pc[w] = "append" => counted[w] = 0 \/ counted[w] + size[record[w]] <= Cap
  /\ pc[w] = "reopen" => handle[w] # slot[0]

PInv == Shared /\ \A w \in Writer : Behind(w)

(* A file that nobody appends to keeps its shares, while writers leave it. *)
LEMMA SharesStay ==
  ASSUME NEW f \in File, NEW g, Shares(f, g), UNCHANGED bytes[f],
         \A w \in Writer : handle'[w] = f => handle[w] = f /\ counted'[w] = counted[w],
         slot'[0] = f => /\ slot[0] = f
                         /\ \A w \in Writer : handle'[w] # NoFile /\ handle'[w] # f =>
                                handle[w] # NoFile /\ handle[w] # f
  PROVE  Shares(f, g)'
BY DEF Shares

(* An empty file has no bytes to share.                                    *)
LEMMA SharesNone ==
  ASSUME NEW f \in File, bytes'[f] = 0
  PROVE  \E g : Shares(f, g)'
<1> DEFINE none == [b \in 1 .. 0 |-> <<0, 0>>]
<1>1. \A b \in 1 .. 0 : FALSE
  OBVIOUS
<1>2. none \in [1 .. bytes'[f] -> Cell]
  BY <1>1
<1> HIDE DEF none
<1>3. Shares(f, none)'
  BY <1>1, <1>2 DEF Shares
<1> QED
  BY <1>3

(* A record fills the cells that follow the count of the writer.           *)
LEMMA SharesGrow ==
  ASSUME IInv, NEW w \in Writer, AppendRecord(w), Behind(w), SmallRecords,
         NEW f \in File, f = handle[w], NEW g, Shares(f, g)
  PROVE  \E h : Shares(f, h)'
<1> DEFINE n == size[record[w]]
           h == [b \in 1 .. bytes[f] + n |->
                   IF b <= bytes[f] THEN g[b] ELSE <<w, counted[w] + (b - bytes[f])>>]
<1>1. /\ f \in File /\ f # NoFile /\ n \in Nat /\ n > 0 /\ n <= Cap /\ Cap \in Nat
      /\ counted[w] \in Nat /\ bytes[f] \in Nat /\ counted[w] <= bytes[f]
      /\ counted[w] = 0 \/ counted[w] + n <= Cap
  BY Constants DEF IInv, TypeOK, Records, Busy, Behind, AppendRecord, SmallRecords
<1>2. /\ bytes'[f] = bytes[f] + n /\ counted'[w] = counted[w] + n
      /\ UNCHANGED <<slot, handle>> /\ \A v \in Writer \ {w} : counted'[v] = counted[v]
  BY <1>1 DEF AppendRecord, IInv, TypeOK
<1>3. /\ g \in [1 .. bytes[f] -> Cell]
      /\ \A a, b \in 1 .. bytes[f] : g[a] = g[b] => a = b
      /\ \A b \in 1 .. bytes[f] : \A v \in Writer : g[b][1] = v =>
           /\ g[b][2] <= bytes[f]
           /\ handle[v] = f => g[b][2] <= counted[v]
           /\ f = slot[0] /\ handle[v] # NoFile => handle[v] = f
  BY DEF Shares
<1> HIDE DEF n
<1>4. \A b \in 1 .. bytes[f] : g[b][1] \in Writer /\ g[b][2] \in 1 .. Cap
  BY <1>3 DEF Cell
<1>5. \A b \in 1 .. bytes[f] + n :
        IF b <= bytes[f] THEN b \in 1 .. bytes[f] /\ h[b] = g[b]
        ELSE h[b] = <<w, counted[w] + (b - bytes[f])>>
             /\ counted[w] + (b - bytes[f]) \in 1 .. Cap
             /\ counted[w] + (b - bytes[f]) > counted[w]
             /\ counted[w] + (b - bytes[f]) <= counted[w] + n
  BY <1>1
<1>6. DOMAIN h = 1 .. bytes[f] + n /\ h = [b \in 1 .. bytes[f] + n |-> h[b]]
  OBVIOUS
<1> HIDE DEF h
<1>7. h \in [1 .. bytes[f] + n -> Cell]
  <2>1. ASSUME NEW b \in 1 .. bytes[f] + n PROVE h[b] \in Cell
    <3>1. CASE b <= bytes[f]
      BY <1>3, <1>5, <3>1
    <3>2. CASE ~(b <= bytes[f])
      <4>1. PICK k \in 1 .. Cap : h[b] = <<w, k>>
        BY <1>5, <3>2
      <4> QED
        BY <4>1 DEF Cell
    <3> QED
      BY <3>1, <3>2
  <2> QED
    BY <1>6, <2>1
<1>8. ASSUME NEW a \in 1 .. bytes[f] + n, NEW b \in 1 .. bytes[f] + n, h[a] = h[b]
      PROVE  a = b
  <2>1. CASE a <= bytes[f] /\ b <= bytes[f]
    BY <1>3, <1>5, <1>8, <2>1
  <2>2. CASE ~(a <= bytes[f]) /\ ~(b <= bytes[f])
    BY <1>1, <1>5, <1>8, <2>2
  <2>3. ASSUME NEW x \in 1 .. bytes[f] + n, NEW y \in 1 .. bytes[f] + n,
               x <= bytes[f], ~(y <= bytes[f]), h[x] = h[y]
        PROVE  FALSE
    <3>1. g[x][1] = w /\ g[x][2] = counted[w] + (y - bytes[f]) /\ x \in 1 .. bytes[f]
      BY <1>5, <2>3
    <3>2. g[x][2] <= counted[w]
      BY <1>3, <3>1
    <3> QED
      BY <1>1, <1>5, <2>3, <3>1, <3>2
  <2> QED
    BY <1>8, <2>1, <2>2, <2>3
<1>9. ASSUME NEW b \in 1 .. bytes[f] + n, NEW v \in Writer, h[b][1] = v
      PROVE  /\ h[b][2] <= bytes[f] + n
             /\ handle[v] = f => h[b][2] <= counted'[v]
             /\ f = slot[0] /\ handle[v] # NoFile => handle[v] = f
  <2>1. CASE b <= bytes[f]
    <3>1. b \in 1 .. bytes[f] /\ g[b][1] = v /\ h[b][2] = g[b][2] /\ g[b][2] \in 1 .. Cap
      BY <1>4, <1>5, <1>9, <2>1
    <3>2. handle[v] = f => g[b][2] <= counted[v]
      BY <1>3, <3>1
    <3>3. counted'[v] = counted[v] \/ v = w
      BY <1>2
    <3> QED
      BY <1>1, <1>2, <1>3, <3>1, <3>2, <3>3
  <2>2. CASE ~(b <= bytes[f])
    BY <1>1, <1>2, <1>5, <1>9, <2>2
  <2> QED
    BY <2>1, <2>2
<1>10. PICK k : k = h
  OBVIOUS
<1>11. k \in [1 .. bytes'[f] -> Cell]
  BY <1>2, <1>7, <1>10
<1>12. Shares(f, k)'
  <2>1. \A a, b \in 1 .. bytes'[f] : k[a] = k[b] => a = b
    BY <1>2, <1>8, <1>10
  <2>2. \A b \in 1 .. bytes'[f] : \A v \in Writer : k[b][1] = v =>
          /\ k[b][2] <= bytes'[f]
          /\ handle'[v] = f => k[b][2] <= counted'[v]
          /\ f = slot'[0] /\ handle'[v] # NoFile => handle'[v] = f
    BY <1>2, <1>9, <1>10
  <2> QED
    BY <1>11, <2>1, <2>2 DEF Shares
<1> QED
  BY <1>12

(* A rotation only ever takes a file out of the active slot.               *)
LEMMA PromotesOnly ==
  ASSUME IInv, NEW w \in Writer, CheckSlot(w) \/ MoveSlot(w)
  PROVE  slot'[0] \in {slot[0], NoFile}
<1>1. /\ at[w] \in 0 .. Retention /\ 0 \in Slot /\ slot \in [Slot -> File \cup {NoFile}]
      /\ Slot = 0 .. Retention /\ Retention \in Nat /\ Retention > 0
  BY Constants DEF IInv, TypeOK
<1>2. CASE MoveSlot(w) /\ at[w] = Retention
  BY <1>1, <1>2 DEF MoveSlot
<1>3. CASE MoveSlot(w) /\ at[w] # Retention
  <2>1. at[w] + 1 # 0
    BY <1>1
  <2>2. slot' = [slot EXCEPT ![at[w] + 1] = slot[at[w]], ![at[w]] = NoFile]
    BY <1>3 DEF MoveSlot
  <2>3. slot'[0] = IF at[w] = 0 THEN NoFile ELSE slot[0]
    BY <1>1, <2>1, <2>2
  <2> QED
    BY <2>3
<1>4. CASE CheckSlot(w)
  BY <1>4 DEF CheckSlot
<1> QED
  BY <1>2, <1>3, <1>4

(* Opening the active file leaves all others; in the active one a writer   *)
(* has no byte, unless it opens it anew and counts all that is there.      *)
LEMMA OpenShares ==
  ASSUME IInv, Shared, NEW w \in Writer, OpenActive(w), UNCHANGED size,
         \A v \in Writer \ {w} : counted'[v] = counted[v],
         \/ handle[w] = NoFile /\ counted'[w] = (IF slot[0] = NoFile THEN 0 ELSE bytes[slot[0]])
         \/ handle[w] # NoFile /\ handle[w] # slot[0] /\ counted'[w] = 0
  PROVE  Shared'
<1> SUFFICES ASSUME SmallRecords, NEW f \in File PROVE \E g : Shares(f, g)'
  BY DEF Shared, SmallRecords
<1>1. PICK g : Shares(f, g)
  BY DEF Shared
<1>2. PICK e \in File : /\ handle' = [handle EXCEPT ![w] = e]
                        /\ OpensOld(w, e) \/ OpensNew(w, e)
  BY Opened DEF IInv
<1>3. /\ handle'[w] = e /\ \A v \in Writer \ {w} : handle'[v] = handle[v]
      /\ e # NoFile /\ 0 \in Slot
  BY <1>2, Constants DEF IInv, TypeOK
<1>4. CASE OpensNew(w, e)
  <2>1. /\ slot'[0] = e /\ bytes'[e] = 0 /\ \A d \in File \ {e} : bytes'[d] = bytes[d]
    BY <1>3, <1>4 DEF OpensNew, IInv, TypeOK
  <2>2. CASE f = e
    BY <2>1, <2>2, SharesNone
  <2>3. CASE f # e
    BY <1>1, <1>3, <2>1, <2>3, SharesStay
  <2> QED
    BY <2>2, <2>3
<1>5. CASE OpensOld(w, e)
  <2>1. slot[0] = e /\ slot' = slot /\ bytes' = bytes
    BY <1>5 DEF OpensOld
  <2>2. CASE f # e
    BY <1>1, <1>3, <2>1, <2>2, SharesStay
  <2>3. CASE f = e
    <3>1. ASSUME NEW b \in 1 .. bytes[f], NEW v \in Writer, g[b][1] = v
          PROVE  /\ handle'[v] = f => g[b][2] <= counted'[v]
                 /\ f = slot[0] /\ handle'[v] # NoFile => handle'[v] = f
      <4>1. /\ g[b][2] <= bytes[f]
            /\ handle[v] = f => g[b][2] <= counted[v]
            /\ handle[v] # NoFile => handle[v] = f
        BY <1>1, <2>1, <2>3, <3>1 DEF Shares
      <4>2. CASE v = w
        <5>1. handle[w] = NoFile
          BY <2>1, <2>3, <4>1, <4>2
        <5> QED
          BY <1>3, <2>1, <2>3, <4>1, <4>2, <5>1
      <4>3. CASE v # w
        BY <1>3, <4>1, <4>3
      <4> QED
        BY <4>2, <4>3
    <3>2. Shares(f, g)'
      BY <1>1, <2>1, <3>1 DEF Shares
    <3> QED
      BY <3>2
  <2> QED
    BY <2>2, <2>3
<1> QED
  BY <1>2, <1>4, <1>5

LEMMA SharedKeeps ==
  ASSUME IInv, PInv, NEW w \in Writer, Step(w)
  PROVE  Shared'
<1>1. Behind(w) /\ Shared
  BY DEF PInv
<1>2. CASE New(w)
  BY <1>1, <1>2, OpenShares DEF New, IInv, TypeOK
<1>3. CASE Reopen(w)
  <2>1. handle[w] # NoFile /\ handle[w] # slot[0] /\ counted'[w] = 0
        /\ \A v \in Writer \ {w} : counted'[v] = counted[v]
    BY <1>1, <1>3 DEF Reopen, Behind, IInv, TypeOK
  <2> QED
    BY <1>1, <1>3, <2>1, OpenShares DEF Reopen
<1>4. CASE AppendRecord(w)
  <2> SUFFICES ASSUME SmallRecords, NEW f \in File PROVE \E g : Shares(f, g)'
    BY <1>4 DEF Shared, SmallRecords, AppendRecord
  <2>1. PICK g : Shares(f, g)
    BY <1>1 DEF Shared
  <2>2. CASE f = handle[w]
    BY <1>1, <1>4, <2>1, <2>2, SharesGrow
  <2>3. CASE f # handle[w]
    <3>1. /\ bytes'[f] = bytes[f] /\ UNCHANGED <<slot, handle>>
          /\ \A v \in Writer \ {w} : counted'[v] = counted[v]
      BY <1>4, <2>3 DEF AppendRecord, IInv, TypeOK
    <3> QED
      BY <2>1, <2>3, <3>1, SharesStay
  <2> QED
    BY <2>2, <2>3
<1>5. CASE \/ CheckSlot(w) \/ MoveSlot(w) \/ MoveRaces(w) \/ Fault(w) \/ Exit(w)
           \/ \E n \in RecordSizes : Write(w, n)
  <2>1. SmallRecords' => SmallRecords
    <3>1. CASE \E n \in RecordSizes : Write(w, n)
      <4>1. PICK n : size' = Append(size, n)
        BY <3>1 DEF Write
      <4>2. \A r \in DOMAIN size : r \in DOMAIN size' /\ size'[r] = size[r]
        BY <4>1 DEF IInv, TypeOK
      <4> QED
        BY <4>2 DEF SmallRecords
    <3>2. CASE UNCHANGED size
      BY <3>2 DEF SmallRecords
    <3> QED
      BY <1>5, <3>1, <3>2 DEF CheckSlot, MoveSlot, MoveRaces, Fault, Refuse, Exit
  <2>2. bytes' = bytes
    BY <1>5 DEF CheckSlot, MoveSlot, MoveRaces, Fault, Refuse, Exit, Write
  <2>3. slot'[0] \in {slot[0], NoFile}
    <3>1. CASE CheckSlot(w) \/ MoveSlot(w)
      BY <3>1, PromotesOnly
    <3> QED
      BY <1>5, <3>1 DEF MoveRaces, Fault, Refuse, Exit, Write
  <2>4. \A v \in Writer : handle'[v] = NoFile \/ (handle'[v] = handle[v] /\ counted'[v] = counted[v])
    <3>1. CASE Exit(w)
      BY <3>1 DEF Exit, IInv, TypeOK
    <3> QED
      BY <1>5, <3>1 DEF CheckSlot, MoveSlot, MoveRaces, Fault, Refuse, Write
  <2> SUFFICES ASSUME SmallRecords, NEW f \in File PROVE \E g : Shares(f, g)'
    BY <2>1 DEF Shared
  <2>5. PICK g : Shares(f, g)
    BY <1>1 DEF Shared
  <2>6. f # NoFile
    BY Constants
  <2> QED
    BY <2>2, <2>3, <2>4, <2>5, <2>6, SharesStay
<1> QED
  BY <1>2, <1>3, <1>4, <1>5 DEF Step

LEMMA BehindKeeps ==
  ASSUME IInv, PInv, NEW w \in Writer, Step(w), NEW v \in Writer
  PROVE  Behind(v)'
<1>1. Behind(v)
  BY DEF PInv
<1>2. CASE New(w) \/ Reopen(w)
  <2>1. PICK e \in File : /\ handle' = [handle EXCEPT ![w] = e]
                          /\ OpensOld(w, e) \/ OpensNew(w, e)
    BY <1>2, Opened DEF New, Reopen, IInv
  <2>2. /\ 0 \in Slot /\ e # NoFile /\ handle'[w] = e /\ slot'[0] = e
        /\ bytes'[e] \in Nat /\ bytes'[e] = (IF slot[0] = NoFile THEN 0 ELSE bytes[slot[0]])
    BY <2>1, Constants DEF OpensOld, OpensNew, IInv, TypeOK
  <2>3. CASE v = w
    <3>1. counted'[w] \in {0, bytes'[e]} /\ pc'[w] \in {"idle", "append"}
          /\ (pc'[w] = "append" => counted'[w] = 0)
      BY <1>2, <2>2 DEF New, Reopen, IInv, TypeOK
    <3> QED
      BY <2>2, <2>3, <3>1 DEF Behind
  <2>4. CASE v # w
    <3>1. UNCHANGED <<pc[v], handle[v], record[v], counted[v], size>>
      BY <1>2, <2>4, Others DEF Step, IInv, New, Reopen
    <3>2. handle[v] # NoFile => bytes'[handle[v]] = bytes[handle[v]]
      BY <2>1 DEF OpensOld, OpensNew, InUse, IInv, TypeOK
    <3>3. slot'[0] = slot[0] \/ (handle[v] # NoFile => handle[v] # slot'[0])
      BY <2>1, <2>2 DEF OpensOld, OpensNew, InUse
    <3>4. pc[v] = "reopen" => handle[v] # NoFile
      BY DEF IInv, TypeOK
    <3> QED
      BY <1>1, <3>1, <3>2, <3>3, <3>4 DEF Behind
  <2> QED
    BY <2>3, <2>4
<1>3. CASE AppendRecord(w)
  <2>1. /\ handle[w] \in File /\ counted[w] \in Nat /\ size[record[w]] \in Nat
        /\ bytes[handle[w]] \in Nat
    BY <1>3, Constants DEF AppendRecord, IInv, TypeOK, Records, Busy
  <2>2. /\ counted'[w] = counted[w] + size[record[w]] /\ pc'[w] = "idle"
        /\ bytes'[handle[w]] = bytes[handle[w]] + size[record[w]]
        /\ \A f \in File \ {handle[w]} : bytes'[f] = bytes[f]
        /\ UNCHANGED <<handle, slot, size>>
    BY <1>3, <2>1 DEF AppendRecord, IInv, TypeOK
  <2>3. CASE v = w
    BY <1>1, <2>1, <2>2, <2>3 DEF Behind
  <2>4. CASE v # w
    <3>1. UNCHANGED <<pc[v], handle[v], record[v], counted[v]>>
      BY <1>3, <2>4, Others DEF Step, IInv
    <3>2. ASSUME handle[v] # NoFile
          PROVE  /\ bytes[handle[v]] \in Nat /\ counted[v] \in Nat
                 /\ bytes'[handle[v]] \in Nat /\ bytes'[handle[v]] >= bytes[handle[v]]
      <4>1. handle[v] \in File /\ bytes[handle[v]] \in Nat /\ counted[v] \in Nat
        BY <3>2 DEF IInv, TypeOK
      <4>2. CASE handle[v] = handle[w]
        BY <2>1, <2>2, <4>1, <4>2
      <4>3. CASE handle[v] # handle[w]
        BY <2>2, <4>1, <4>3
      <4> QED
        BY <4>1, <4>2, <4>3
    <3> QED
      BY <1>1, <2>2, <3>1, <3>2 DEF Behind
  <2> QED
    BY <2>3, <2>4
<1>4. CASE \E n \in RecordSizes : Write(w, n)
  <2>1. PICK n \in RecordSizes : Write(w, n)
    BY <1>4
  <2>2. /\ n \in Nat /\ UNCHANGED <<handle, slot, bytes, counted>>
        /\ size' = Append(size, n) /\ size \in Seq(RecordSizes)
    BY <2>1, Constants DEF Write, IInv, TypeOK
  <2>3. CASE v = w
    <3>1. /\ pc'[w] = (IF Rotates(w, n) THEN "check" ELSE "append")
          /\ size'[record'[w]] = n /\ counted[w] \in Nat
      BY <2>1, <2>2 DEF Write, IInv, TypeOK
    <3> QED
      BY <1>1, <2>2, <2>3, <3>1, Constants DEF Behind, Rotates
  <2>4. CASE v # w
    <3>1. UNCHANGED <<pc[v], record[v]>>
      BY <1>4, <2>4, Others DEF Step, IInv
    <3>2. pc[v] = "append" => size'[record[v]] = size[record[v]]
      BY <2>2 DEF IInv, Records, Busy, TypeOK
    <3> QED
      BY <1>1, <2>2, <3>1, <3>2 DEF Behind
  <2> QED
    BY <2>3, <2>4
<1>5. CASE CheckSlot(w) \/ MoveSlot(w)
  <2>1. UNCHANGED <<handle, bytes, counted, size, record>>
    BY <1>5 DEF CheckSlot, MoveSlot
  <2>2. pc'[v] \in {pc[v], "check", "move", "reopen"}
    BY <1>5, ProceedTypes, Others DEF CheckSlot, Step, IInv, TypeOK, MoveSlot
  <2>3. pc'[v] = "reopen" => handle[v] # slot'[0]
    <3>1. handle[v] # NoFile \/ pc'[v] = "closed"
      BY <2>1, Types, <1>5 DEF IInv, Step, TypeOK
    <3>2. CASE v = w
      <4>1. pc'[w] = "reopen" => slot'[0] = NoFile
        <5>1. CASE CheckSlot(w)
          <6>1. CASE slot[at[w]] # NoFile
            BY <5>1, <6>1 DEF CheckSlot, IInv, TypeOK
          <6>2. CASE slot[at[w]] = NoFile
            BY <5>1, <6>2, ProceedTypes DEF CheckSlot, IInv
          <6> QED
            BY <6>1, <6>2
        <5>2. CASE MoveSlot(w)
          <6>1. pc'[w] = "reopen" => at[w] = 0
            BY <5>2, ProceedTypes DEF MoveSlot, IInv
          <6> QED
            BY <5>2, <6>1, Constants DEF MoveSlot, IInv, TypeOK
        <5> QED
          BY <1>5, <5>1, <5>2
      <4> QED
        BY <3>1, <3>2, <4>1
    <3>3. CASE v # w
      <4>1. pc'[v] = pc[v]
        BY <1>5, <3>3, Others DEF Step, IInv
      <4>2. slot'[0] \in {slot[0], NoFile}
        BY <1>5, PromotesOnly
      <4> QED
        BY <1>1, <3>1, <4>1, <4>2 DEF Behind
    <3> QED
      BY <3>2, <3>3
  <2> QED
    BY <1>1, <2>1, <2>2, <2>3 DEF Behind
<1>6. CASE MoveRaces(w) \/ Fault(w) \/ Exit(w)
  <2>1. UNCHANGED <<slot, bytes, size>>
    BY <1>6 DEF MoveRaces, Fault, Refuse, Exit
  <2>2. CASE v = w
    <3>1. handle'[v] = NoFile \/ (handle'[v] = handle[v] /\ counted'[v] = counted[v])
      BY <1>6, <2>2 DEF MoveRaces, Fault, Refuse, Exit, IInv, TypeOK
    <3>2. pc'[v] \in {"idle", "closed"}
      BY <1>6, <2>2 DEF MoveRaces, Fault, Refuse, Exit, IInv, TypeOK
    <3> QED
      BY <1>1, <2>1, <3>1, <3>2 DEF Behind
  <2>3. CASE v # w
    BY <1>1, <1>6, <2>1, <2>3, Others DEF Step, IInv, Behind
  <2> QED
    BY <2>2, <2>3
<1> QED
  BY <1>2, <1>3, <1>4, <1>5, <1>6 DEF Step

LEMMA SharedInvariant == Spec => []PInv
<1>1. Init => PInv
  <2> SUFFICES ASSUME Init PROVE PInv
    OBVIOUS
  <2>1. \A w \in Writer : Behind(w)
    BY DEF Init, Behind
  <2>2. ASSUME NEW f \in File PROVE \E g : Shares(f, g)
    <3> DEFINE none == [b \in 1 .. 0 |-> <<0, 0>>]
    <3>1. bytes[f] = 0 /\ \A b \in 1 .. 0 : FALSE
      BY DEF Init
    <3>2. none \in [1 .. bytes[f] -> Cell]
      BY <3>1
    <3> HIDE DEF none
    <3>3. Shares(f, none)
      BY <3>1, <3>2 DEF Shares
    <3> QED
      BY <3>3
  <2> QED
    BY <2>1, <2>2 DEF PInv, Shared
<1>2. IInv /\ PInv /\ [Next]_vars => PInv'
  <2> SUFFICES ASSUME IInv, PInv, [Next]_vars PROVE PInv'
    OBVIOUS
  <2>1. CASE Next
    BY <2>1, SharedKeeps, BehindKeeps DEF Next, Step, PInv
  <2>2. CASE UNCHANGED vars
    BY <2>2 DEF vars, PInv, Shared, SmallRecords, Shares, Behind
  <2> QED
    BY <2>1, <2>2
<1> QED
  BY <1>1, <1>2, Invariant, PTL DEF Spec

(* There are no more cells than the cap for each writer.                   *)
LEMMA CellsBound ==
  ASSUME IInv, PInv
  PROVE  CappedPerWriter
<1> SUFFICES ASSUME SmallRecords, NEW f \in Named
             PROVE  bytes[f] <= Cap * Cardinality(Writer)
  BY DEF CappedPerWriter, SmallRecords
<1>1. f \in File /\ bytes[f] \in Nat /\ Cap \in Nat
  BY Constants DEF Named, IInv, TypeOK
<1>2. PICK g : Shares(f, g)
  BY <1>1 DEF PInv, Shared
<1>3. IsFiniteSet(1 .. Cap) /\ Cardinality(1 .. Cap) = Cap
      /\ Cardinality(1 .. bytes[f]) = bytes[f]
  BY <1>1, FS_Interval
<1>4. IsFiniteSet(Cell) /\ Cardinality(Cell) = Cardinality(Writer) * Cap
  BY <1>3, WriterAssumption, FS_Product DEF Cell
<1>5. g \in Injection(1 .. bytes[f], Cell)
  BY <1>2 DEF Shares, Injection, IsInjective
<1>6. bytes[f] <= Cardinality(Writer) * Cap
  BY <1>3, <1>4, <1>5, FS_Injection
<1>7. Cardinality(Writer) \in Nat
  BY WriterAssumption, FS_CardinalityType
<1> QED
  BY <1>1, <1>6, <1>7

(* The slots name distinct files, a process holds its file open exactly    *)
(* while it runs, and what is in the files are records that a process has  *)
(* written (log.rs:257-306).                                               *)
THEOREM TypeCorrect == Spec => []TypeOK
BY Invariant, PTL DEF IInv

(* Processes that log one after the other keep every file below the cap,   *)
(* but for a record that alone is longer, whatever fails in a rotation and *)
(* wherever a process ends; and however many log at the same time, and     *)
(* rename each other's files, none of these grows beyond one cap per       *)
(* process (log.rs:18, :282, :306, :311).                                  *)
THEOREM CapKept == Spec => []Capped
<1>1. IInv /\ PInv => Capped
  BY CellsBound DEF IInv, Alone, CapEach, CappedWhenAlone, Capped
<1> QED
  BY <1>1, Invariant, SharedInvariant, PTL

(* What they drop is older than all they keep, and the slots are in the    *)
(* order of age (log.rs:55, :283-302).                                     *)
THEOREM OldestFirst == Spec => []OldestGoFirst
<1>1. IInv => OldestGoFirst
  BY DEF IInv, Alone, NoGap, InOrder, OldestGoFirst
<1> QED
  BY <1>1, Invariant, PTL
=============================================================================
