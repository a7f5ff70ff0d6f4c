----------------------------- MODULE LogRotate ------------------------------
(***************************************************************************)
(* SizeRollingWriter (log.rs): an append-only log file that is rotated     *)
(* through numbered slots before a write would take it over its cap.       *)
(*                                                                         *)
(* Slot 0 is `gitlore.log`, slot i is `gitlore.log.i`.  A writer holds an  *)
(* open file, which keeps its identity when it is renamed, and counts the  *)
(* bytes it believes the file to have.  Several processes may log into the *)
(* same per-user directory; each has a writer of its own and none knows of *)
(* the others.                                                             *)
(***************************************************************************)
EXTENDS Integers, Sequences, FiniteSets

CONSTANTS
    Writer,         \* processes that log into the directory
    File,           \* files, named or only held open
    NoFile,
    Retention,      \* FILE_RETENTION
    Cap,            \* FILE_SIZE_LIMIT_BYTES, in the unit of record sizes
    RecordSizes,
    MaxRecords, MaxFaults       \* bounds

ASSUME CapAssumption == Cap \in Nat \ {0} /\ Retention \in Nat \ {0}
ASSUME SizesAssumption == RecordSizes \subseteq Nat \ {0}
ASSUME FileAssumption == NoFile \notin File
ASSUME WriterAssumption == IsFiniteSet(Writer)
ASSUME BoundAssumption == MaxRecords \in Nat /\ MaxFaults \in Nat

Slot == 0 .. Retention

VARIABLES
    slot,       \* the directory: slot -> file or NoFile
    content,    \* file -> the records in it, in order
    bytes,      \* file -> what metadata().len() says of it
    size,       \* record -> its size
    handle,     \* writer -> the file it appends to, NoFile while it does not run
    counted,    \* writer -> bytes_written
    pc,         \* writer -> what it does: see Stage
    at,         \* writer -> the slot its rotation has come to
    record,     \* writer -> the record its call of write has to append
    refused,    \* records whose write returned an error
    shared,     \* history: two writers have run at the same time
    faults

vars == <<slot, content, bytes, size, handle, counted, pc, at, record, refused, shared, faults>>

Stage == {"closed", "idle", "check", "move", "reopen", "append"}

\* What stays of a writer between two records.
AtRest(w) ==
    /\ at' = [at EXCEPT ![w] = 0]
    /\ record' = [record EXCEPT ![w] = 0]

InUse(f) == f \in {slot[i] : i \in Slot} \/ f \in {handle[w] : w \in Writer}

Init ==
    /\ slot = [i \in Slot |-> NoFile]
    /\ content = [f \in File |-> << >>]
    /\ bytes = [f \in File |-> 0]
    /\ size = << >>
    /\ handle = [w \in Writer |-> NoFile]
    /\ counted = [w \in Writer |-> 0]
    /\ pc = [w \in Writer |-> "closed"]
    /\ at = [w \in Writer |-> 0]
    /\ record = [w \in Writer |-> 0]
    /\ refused = {}
    /\ shared = FALSE
    /\ faults = 0

\* OpenOptions::new().create(true).append(true).open(&active).  File has more than slots
\* and writers can have in use.
OpenActive(w) ==
    IF slot[0] # NoFile
    THEN /\ handle' = [handle EXCEPT ![w] = slot[0]]
         /\ UNCHANGED <<slot, content, bytes>>
    ELSE /\ \E f \in File : ~InUse(f)
         /\ LET f == CHOOSE f \in File : ~InUse(f)
            IN  /\ slot' = [slot EXCEPT ![0] = f]
                /\ content' = [content EXCEPT ![f] = << >>]
                /\ bytes' = [bytes EXCEPT ![f] = 0]
                /\ handle' = [handle EXCEPT ![w] = f]

NewFromZero(w) ==
    /\ pc[w] = "closed"
    /\ OpenActive(w)
    /\ pc' = [pc EXCEPT ![w] = "idle"]
    /\ shared' = (shared \/ \E v \in Writer \ {w} : pc[v] # "closed")
    /\ UNCHANGED <<size, counted, at, record, refused, faults>>
\* SizeRollingWriter::new: the count starts at what is in the file already.
New(w) ==
    /\ pc[w] = "closed"
    /\ OpenActive(w)
    /\ counted' = [counted EXCEPT ![w] = IF slot[0] = NoFile THEN 0 ELSE bytes[slot[0]]]
    /\ pc' = [pc EXCEPT ![w] = "idle"]
    /\ shared' = (shared \/ \E v \in Writer \ {w} : pc[v] # "closed")
    /\ UNCHANGED <<size, at, record, refused, faults>>

\* Never for the first record of a file.
Rotates(w, n) == counted[w] > 0 /\ counted[w] + n > Cap

Write(w, n) ==
    /\ pc[w] = "idle" /\ Len(size) < MaxRecords
    /\ size' = Append(size, n)
    /\ record' = [record EXCEPT ![w] = Len(size')]
    /\ pc' = [pc EXCEPT ![w] = IF Rotates(w, n) THEN "check" ELSE "append"]
    /\ at' = [at EXCEPT ![w] = IF Rotates(w, n) THEN Retention ELSE 0]
    /\ UNCHANGED <<slot, content, bytes, handle, counted, refused, shared, faults>>

\* The rotation goes on with the next younger slot, or with the new active file.
Proceed(w) ==
    IF at[w] = 0
    THEN pc' = [pc EXCEPT ![w] = "reopen"] /\ UNCHANGED at
    ELSE pc' = [pc EXCEPT ![w] = "check"] /\ at' = [at EXCEPT ![w] = @ - 1]

\* `if path.exists()`, a call of its own.
CheckSlot(w) ==
    /\ pc[w] = "check"
    /\ IF slot[at[w]] # NoFile
       THEN pc' = [pc EXCEPT ![w] = "move"] /\ UNCHANGED at
       ELSE Proceed(w)
    /\ UNCHANGED <<slot, content, bytes, size, handle, counted, record, refused, shared, faults>>

MoveSlotCopies(w) ==
    /\ pc[w] = "move" /\ slot[at[w]] # NoFile
    /\ slot' = IF at[w] = Retention
               THEN [slot EXCEPT ![at[w]] = NoFile]
               ELSE [slot EXCEPT ![at[w] + 1] = slot[at[w]]]
    /\ Proceed(w)
    /\ UNCHANGED <<content, bytes, size, handle, counted, record, refused, shared, faults>>
MoveSlotRemovesYounger(w) ==
    /\ pc[w] = "move" /\ slot[at[w]] # NoFile
    /\ slot' = IF at[w] = Retention
               THEN [slot EXCEPT ![at[w] - 1] = NoFile]
               ELSE [slot EXCEPT ![at[w] + 1] = slot[at[w]], ![at[w]] = NoFile]
    /\ Proceed(w)
    /\ UNCHANGED <<content, bytes, size, handle, counted, record, refused, shared, faults>>
\* The oldest slot is removed, a younger one renamed over its elder.
MoveSlot(w) ==
    /\ pc[w] = "move" /\ slot[at[w]] # NoFile
    /\ slot' = IF at[w] = Retention
               THEN [slot EXCEPT ![at[w]] = NoFile]
               ELSE [slot EXCEPT ![at[w] + 1] = slot[at[w]], ![at[w]] = NoFile]
    /\ Proceed(w)
    /\ UNCHANGED <<content, bytes, size, handle, counted, record, refused, shared, faults>>

Reopen(w) ==
    /\ pc[w] = "reopen"
    /\ OpenActive(w)
    /\ counted' = [counted EXCEPT ![w] = 0]
    /\ pc' = [pc EXCEPT ![w] = "append"]
    /\ UNCHANGED <<size, at, record, refused, shared, faults>>

AppendRecord(w) ==
    /\ pc[w] = "append"
    /\ content' = [content EXCEPT ![handle[w]] = Append(@, record[w])]
    /\ bytes' = [bytes EXCEPT ![handle[w]] = @ + size[record[w]]]
    /\ counted' = [counted EXCEPT ![w] = @ + size[record[w]]]
    /\ pc' = [pc EXCEPT ![w] = "idle"]
    /\ AtRest(w)
    /\ UNCHANGED <<slot, size, handle, refused, shared, faults>>

\* `?`: the call of write ends with an error; file and count stay as they are.
Refuse(w) ==
    /\ refused' = refused \union {record[w]}
    /\ pc' = [pc EXCEPT ![w] = "idle"]
    /\ AtRest(w)
    /\ UNCHANGED <<slot, content, bytes, size, handle, counted, shared>>

\* What exists() saw is gone: another writer has moved it.
MoveRaces(w) ==
    /\ pc[w] = "move" /\ slot[at[w]] = NoFile
    /\ Refuse(w)
    /\ UNCHANGED faults

\* A full disk, a permission: the remove, the rename, the open or the write fails.
Fault(w) ==
    /\ pc[w] \in {"move", "reopen", "append"} /\ faults < MaxFaults
    /\ faults' = faults + 1
    /\ Refuse(w)

\* The process ends, at any point.
Exit(w) ==
    /\ pc[w] # "closed"
    /\ pc' = [pc EXCEPT ![w] = "closed"]
    /\ handle' = [handle EXCEPT ![w] = NoFile]
    /\ counted' = [counted EXCEPT ![w] = 0]
    /\ refused' = IF pc[w] = "idle" THEN refused ELSE refused \union {record[w]}
    /\ AtRest(w)
    /\ UNCHANGED <<slot, content, bytes, size, shared, faults>>

Next ==
    \E w \in Writer :
        \/ New(w)
        \/ \E n \in RecordSizes : Write(w, n)
        \/ CheckSlot(w) \/ MoveSlot(w) \/ Reopen(w) \/ AppendRecord(w)
        \/ MoveRaces(w) \/ Fault(w)
        \/ Exit(w)

Spec == Init /\ [][Next]_vars

-----------------------------------------------------------------------------
(* Properties. *)

Named == {slot[i] : i \in Slot} \ {NoFile}
Kept == UNION {{content[f][k] : k \in DOMAIN content[f]} : f \in Named}
Written == {r \in DOMAIN size : r \notin refused /\ \A w \in Writer :
               pc[w] \in {"check", "move", "reopen", "append"} => record[w] # r}

\* The directory names distinct files, a writer holds a file exactly while it runs,
\* and a record is in at most one place.
TypeOK ==
    /\ slot \in [Slot -> File \union {NoFile}]
    /\ \A i, j \in Slot : slot[i] = slot[j] /\ slot[i] # NoFile => i = j
    /\ content \in [File -> Seq(DOMAIN size)] /\ bytes \in [File -> Nat]
    /\ size \in Seq(RecordSizes)
    /\ handle \in [Writer -> File \union {NoFile}]
    /\ pc \in [Writer -> Stage]
    /\ \A w \in Writer : handle[w] = NoFile <=> pc[w] = "closed"
    /\ at \in [Writer -> Slot] /\ counted \in [Writer -> Nat]
    /\ record \in [Writer -> 0 .. Len(size)] /\ refused \subseteq DOMAIN size
    /\ shared \in BOOLEAN /\ faults \in 0 .. MaxFaults

\* "each file caps at FILE_SIZE_LIMIT_BYTES" (log.rs:18) and "bounds the total on-disk
\* footprint to (retention + 1) * max_bytes" (log.rs:270): as long as writers run one
\* after the other, no file outgrows the cap unless one record does, through faults in
\* the middle of a rotation and processes that end there.
CappedWhenAlone ==
    ~shared => \A f \in Named : bytes[f] <= Cap \/ Len(content[f]) = 1

\* What writers at the same time do to the cap: one that keeps appending to a file
\* another has renamed is stopped only by its own count, so a file may grow to one cap
\* per writer, and to no more.
CappedPerWriter ==
    (\A r \in DOMAIN size : size[r] <= Cap) =>
        \A f \in Named : bytes[f] <= Cap * Cardinality(Writer)

\* The cap on a file, for writers in turn and for writers at the same time (log.rs:270).
Capped == CappedWhenAlone /\ CappedPerWriter

\* Rotation loses the oldest records first (log.rs:55): writers that run one after the
\* other keep every record they accepted that is younger than one they keep, and the
\* slots, read from the oldest to the active file, give them in order.
OldestGoFirst ==
    ~shared =>
        /\ \A r \in Kept, s \in Written : s > r => s \in Kept
        /\ \A i, j \in Slot : slot[i] # NoFile /\ slot[j] # NoFile /\ i > j =>
              \A k \in DOMAIN content[slot[i]], l \in DOMAIN content[slot[j]] :
                  content[slot[i]][k] < content[slot[j]][l]

=============================================================================
