--------------------------- MODULE IndexStoreProofs --------------------------
(***************************************************************************)
(* Proofs about IndexStore, for any processes, binary versions and files.  *)
(***************************************************************************)
EXTENDS IndexStore, TLAPS

(* Where a process has the lock and an open database to write to.          *)
Writing == Holders \cap Connected

(* flock: one lockfile, one holder.                                        *)
OneHolder ==
    \A p, q \in Proc :
        pc[p] \in Holders /\ pc[q] \in Holders /\ handle[p] = handle[q] => p = q

(* Where the lock is not split, all have the same lockfile open, and no    *)
(* other one has the name.                                                 *)
OneLockfile ==
    \A p, q \in Proc :
        /\ dir[p] = dir[q] /\ ~split[dir[p]] /\ handle[p] # NoFile /\ handle[q] # NoFile
        => handle[p] = handle[q]
OnPath ==
    \A p \in Proc :
        ~split[dir[p]] /\ handle[p] # NoFile /\ lockfile[dir[p]] # NoFile
        => lockfile[dir[p]] = handle[p]

(* A file has one name, and only in the directory of whoever writes to it. *)
NamesDiffer ==
    \A d, e \in Dir : named[d] # NoFile /\ named[d] = named[e] => d = e
OwnName ==
    \A p \in Proc : pc[p] \in Writing => \A d \in Dir : named[d] = conn[p] => d = dir[p]
OneDir ==
    \A p, q \in Proc :
        pc[p] \in Writing /\ pc[q] \in Writing /\ conn[p] = conn[q] => dir[p] = dir[q]

(* migrate has in `from` what the database has, and never more than it     *)
(* knows.                                                                  *)
Migrating ==
    \A p \in Proc :
        pc[p] = "migrate" /\ ~split[dir[p]] =>
            from[p] = version[conn[p]] /\ from[p] <= Latest[p]

(* Whoever has the lock while a rebuild is about to delete took it after   *)
(* the rebuild had let it go.                                              *)
Overtaken ==
    \A p, q \in Proc :
        /\ pc[p] \in Holders /\ pc[q] \in {"freed", "unlink"} /\ dir[p] = dir[q]
        /\ ~split[dir[p]]
        => overtook[p]

(* The others write to the file that carries the name.                     *)
InPlace ==
    \A p \in Proc :
        pc[p] \in Writing /\ ~overtook[p] /\ ~split[dir[p]] => named[dir[p]] = conn[p]

(* A run reports what it has written.                                      *)
Filled == \A p \in Proc : pc[p] = "report" => seen[p] <= rows[conn[p]]

LockInv == OneHolder /\ OneLockfile /\ OnPath
FileInv ==
    /\ NamesDiffer /\ OwnName /\ OneDir /\ Migrating /\ InPlace /\ Filled
    /\ WritesOwnSchema /\ PromiseKept

IInv == TypeOK /\ LockInv /\ Overtaken /\ FileInv

-----------------------------------------------------------------------------
USE DEF Holders, Connected, Opened, Writing, Stage, Dir, Writers, Readers

LEMMA InitIInv == Init => IInv
<1> SUFFICES ASSUME Init
             PROVE  IInv
  OBVIOUS
<1>1. TypeOK
  BY NameAssumption, BoundAssumption DEF Init, TypeOK
<1>2. LockInv /\ Overtaken
  BY DEF Init, LockInv, OneHolder, OneLockfile, OnPath, Overtaken
<1>3. NamesDiffer /\ OwnName /\ OneDir /\ Migrating /\ InPlace /\ Filled
  BY DEF Init, NamesDiffer, OwnName, OneDir, Migrating, InPlace, Filled
<1>4. WritesOwnSchema /\ PromiseKept
  BY DEF Init, WritesOwnSchema, PromiseKept
<1>. QED
  BY <1>1, <1>2, <1>3, <1>4 DEF IInv, FileInv

(* Of two that hold the lock of a directory that is not split, each is the *)
(* other.                                                                  *)
LEMMA Exclusive ==
  ASSUME IInv, NEW p \in Proc, NEW q \in Proc, pc[p] \in Holders, pc[q] \in Holders,
         dir[p] = dir[q], ~split[dir[p]]
  PROVE  p = q
<1>1. handle[p] # NoFile /\ handle[q] # NoFile
  BY DEF IInv, TypeOK
<1>. QED
  BY <1>1 DEF IInv, LockInv, OneHolder, OneLockfile

(* A lockfile that is closed, or loses its name, splits nothing.           *)
LEMMA LockStays ==
  ASSUME IInv, NEW p \in Proc, UNCHANGED split,
         \A q \in Proc \ {p} : UNCHANGED <<pc[q], dir[q], handle[q]>>,
         handle'[p] \in {handle[p], NoFile}, dir'[p] = dir[p] \/ handle'[p] = NoFile,
         pc'[p] \in Holders => pc[p] \in Holders /\ handle'[p] = handle[p],
         \A d \in Dir : lockfile'[d] \in {lockfile[d], NoFile},
         dir' \in [Proc -> Dir]
  PROVE  LockInv'
<1>1. OneHolder'
  BY DEF IInv, LockInv, OneHolder
<1>2. OneLockfile'
  BY DEF IInv, LockInv, OneLockfile
<1>3. OnPath'
  BY DEF IInv, LockInv, OnPath
<1>. QED
  BY <1>1, <1>2, <1>3 DEF LockInv

(* A process that writes to no database, before and after its step,        *)
(* changes nothing about the files.                                        *)
LEMMA BesideKeeps ==
  ASSUME IInv, NEW p \in Proc, pc[p] \notin Writing, pc'[p] \notin Writing,
         \A q \in Proc \ {p} : UNCHANGED <<pc[q], dir[q], conn[q], from[q], seen[q], overtook[q]>>,
         \A d \in Dir : split[d] /\ ~split'[d] => \A q \in Proc : dir[q] = d => handle[q] = NoFile,
         UNCHANGED <<files, promised>>
  PROVE  FileInv'
<1> USE DEF files
<1>1. \A q \in Proc : pc[q] \in Writing => handle[q] # NoFile /\ dir[q] \in Dir
  BY DEF IInv, TypeOK
<1>2. \A q \in Proc : pc'[q] \in Writing => q # p /\ pc[q] \in Writing /\ dir'[q] = dir[q]
  OBVIOUS
<1>3. \A q \in Proc : pc'[q] \in Writing /\ ~split'[dir'[q]] => ~split[dir[q]]
  BY <1>1, <1>2
<1>4. NamesDiffer' /\ OwnName' /\ OneDir'
  BY <1>2 DEF IInv, FileInv, NamesDiffer, OwnName, OneDir
<1>5. Migrating' /\ WritesOwnSchema'
  BY <1>2, <1>3 DEF IInv, FileInv, Migrating, WritesOwnSchema
<1>6. InPlace' /\ Filled' /\ PromiseKept'
  BY <1>2, <1>3 DEF IInv, FileInv, InPlace, Filled, PromiseKept
<1>. QED
  BY <1>4, <1>5, <1>6 DEF FileInv

(* A command that ends, in whatever way, leaves the others as they were.   *)
LEMMA EndKeeps ==
  ASSUME IInv, NEW p \in Proc, NEW r, End(p, r),
         lockfile' \in [Dir -> Lockfile \cup {NoFile}],
         \A d \in Dir : lockfile'[d] \in {lockfile[d], NoFile},
         UNCHANGED <<environment, files, promised, expect, split>>
  PROVE  IInv'
<1> USE DEF End, Results, environment
<1>1. /\ pc' \in [Proc -> Stage] /\ conn' \in [Proc -> File \cup {NoFile}]
      /\ cmd' \in [Proc -> Writers \cup Readers \cup {"none"}] /\ wait' \in [Proc -> BOOLEAN]
      /\ dir' \in [Proc -> Dir] /\ from' \in [Proc -> Nat] /\ seen' \in [Proc -> 0 .. head']
      /\ overtook' \in [Proc -> BOOLEAN]
  BY BoundAssumption DEF IInv, TypeOK
<1>2. /\ handle' \in [Proc -> Lockfile \cup {NoFile}] /\ stamp' \in [Dir -> Proc \cup {NoProc, Dead}]
  BY DEF IInv, TypeOK
<1>3. /\ pc'[p] = "idle" /\ conn'[p] = NoFile /\ handle'[p] = NoFile
      /\ \A q \in Proc \ {p} : UNCHANGED <<pc[q], dir[q], conn[q], from[q], seen[q], overtook[q],
                                           handle[q]>>
  BY DEF IInv, TypeOK
<1>4. TypeOK'
  <2>1. \A q \in Proc : conn'[q] # NoFile <=> pc'[q] \in Connected
    BY <1>3 DEF IInv, TypeOK
  <2>2. \A q \in Proc : handle'[q] # NoFile <=> pc'[q] \in Opened
    BY <1>3 DEF IInv, TypeOK
  <2>. QED
    BY <1>1, <1>2, <2>1, <2>2 DEF IInv, TypeOK, files
<1>5. LockInv'
  BY <1>1, <1>3, LockStays
<1>6. Overtaken'
  BY <1>3 DEF IInv, Overtaken
<1>7. FileInv'
  <2>1. \A q \in Proc : pc'[q] \in Writing => q # p /\ pc[q] \in Writing
    BY <1>3
  <2>2. NamesDiffer' /\ OwnName' /\ OneDir'
    BY <1>3, <2>1 DEF files, IInv, FileInv, NamesDiffer, OwnName, OneDir
  <2>3. Migrating' /\ WritesOwnSchema'
    BY <1>3, <2>1 DEF files, IInv, FileInv, Migrating, WritesOwnSchema
  <2>4. InPlace' /\ Filled' /\ PromiseKept'
    BY <1>3, <2>1 DEF files, IInv, FileInv, InPlace, Filled, PromiseKept
  <2>. QED
    BY <2>2, <2>3, <2>4 DEF FileInv
<1>. QED
  BY <1>4, <1>5, <1>6, <1>7 DEF IInv

LEMMA EndsKeeps ==
  ASSUME IInv, NEW p \in Proc, NEW r, Ends(p, r)
  PROVE  IInv'
<1>1. lockfile' = lockfile /\ lockfile \in [Dir -> Lockfile \cup {NoFile}]
  BY DEF IInv, TypeOK, Ends
<1>. QED
  BY <1>1, EndKeeps DEF Ends

(* Nor does one that has yet to remove its lockfile.                       *)
LEMMA LeaveKeeps ==
  ASSUME IInv, NEW p \in Proc, NEW r, Leave(p, r), pc[p] \in Holders,
         promised' \in [Dir -> 0 .. head], PromiseKept'
  PROVE  IInv'
<1> USE DEF Leave, Results, environment, lock
<1>1. /\ pc' \in [Proc -> Stage] /\ conn' \in [Proc -> File \cup {NoFile}]
      /\ cmd' \in [Proc -> Writers \cup Readers \cup {"none"}] /\ wait' \in [Proc -> BOOLEAN]
      /\ dir' \in [Proc -> Dir] /\ from' \in [Proc -> Nat] /\ seen' \in [Proc -> 0 .. head']
      /\ overtook' \in [Proc -> BOOLEAN]
  BY BoundAssumption DEF IInv, TypeOK
<1>2. /\ pc'[p] = "quit" /\ conn'[p] = NoFile /\ handle' = handle /\ dir' = dir
      /\ \A q \in Proc \ {p} : UNCHANGED <<pc[q], conn[q], from[q], seen[q], overtook[q]>>
  BY DEF IInv, TypeOK
<1>3. TypeOK'
  <2>1. \A q \in Proc : conn'[q] # NoFile <=> pc'[q] \in Connected
    BY <1>2 DEF IInv, TypeOK
  <2>2. \A q \in Proc : handle'[q] # NoFile <=> pc'[q] \in Opened
    BY <1>2 DEF IInv, TypeOK
  <2>. QED
    BY <1>1, <2>1, <2>2 DEF IInv, TypeOK, files
<1>4. LockInv'
  BY <1>1, <1>2, LockStays
<1>5. Overtaken'
  BY <1>2 DEF IInv, Overtaken
<1>6. FileInv'
  <2>1. \A q \in Proc : pc'[q] \in Writing => q # p /\ pc[q] \in Writing
    BY <1>2
  <2>2. NamesDiffer' /\ OwnName' /\ OneDir'
    BY <1>2, <2>1 DEF files, IInv, FileInv, NamesDiffer, OwnName, OneDir
  <2>3. Migrating' /\ WritesOwnSchema'
    BY <1>2, <2>1 DEF files, IInv, FileInv, Migrating, WritesOwnSchema
  <2>4. InPlace' /\ Filled'
    BY <1>2, <2>1 DEF files, IInv, FileInv, InPlace, Filled
  <2>. QED
    BY <2>2, <2>3, <2>4 DEF FileInv
<1>. QED
  BY <1>3, <1>4, <1>5, <1>6 DEF IInv

LEMMA LeavesKeeps ==
  ASSUME IInv, NEW p \in Proc, NEW r, Leaves(p, r), pc[p] \in Holders
  PROVE  IInv'
<1>1. PromiseKept' /\ promised' \in [Dir -> 0 .. head]
  BY DEF IInv, FileInv, TypeOK, Leaves, Leave, PromiseKept, files
<1>. QED
  BY <1>1, LeaveKeeps DEF Leaves

LEMMA QuitKeeps ==
  ASSUME IInv, NEW p \in Proc, Quit(p)
  PROVE  IInv'
<1>1. /\ lockfile' \in [Dir -> Lockfile \cup {NoFile}]
      /\ \A d \in Dir : lockfile'[d] \in {lockfile[d], NoFile}
  BY DEF IInv, TypeOK, Quit, RemoveLockfile
<1>. QED
  BY <1>1, EndKeeps DEF Quit

LEMMA KillKeeps ==
  ASSUME IInv, NEW p \in Proc, Kill(p)
  PROVE  IInv'
<1>1. lockfile' = lockfile /\ lockfile \in [Dir -> Lockfile \cup {NoFile}]
  BY DEF IInv, TypeOK, Kill
<1>. QED
  BY <1>1, EndKeeps DEF Kill

(* Before it has the lock, and while it reads, a process only moves on.    *)
LEMMA BystanderKeeps ==
  ASSUME IInv, NEW p \in Proc,
         pc' \in [Proc -> Stage], dir' \in [Proc -> Dir], conn' \in [Proc -> File \cup {NoFile}],
         \A q \in Proc \ {p} : UNCHANGED <<pc[q], dir[q], conn[q], handle[q]>>,
         pc[p] \notin Holders \cup {"freed", "unlink"},
         pc'[p] \notin Holders \cup {"freed", "unlink"},
         conn'[p] # NoFile <=> pc'[p] \in Connected,
         handle' \in [Proc -> Lockfile \cup {NoFile}], handle'[p] # NoFile <=> pc'[p] \in Opened,
         handle'[p] \in {handle[p], NoFile}, dir'[p] = dir[p] \/ handle'[p] = NoFile,
         lockfile' \in [Dir -> Lockfile \cup {NoFile}],
         \A d \in Dir : lockfile'[d] \in {lockfile[d], NoFile},
         cmd' \in [Proc -> Writers \cup Readers \cup {"none"}], wait' \in [Proc -> BOOLEAN],
         expect' \in [Proc -> 0 .. head],
         UNCHANGED <<environment, files, stamp, from, seen, promised, overtook, split>>
  PROVE  IInv'
<1>1. TypeOK'
  <2>1. \A q \in Proc : conn'[q] # NoFile <=> pc'[q] \in Connected
    BY DEF IInv, TypeOK
  <2>2. \A q \in Proc : handle'[q] # NoFile <=> pc'[q] \in Opened
    BY DEF IInv, TypeOK
  <2>. QED
    BY <2>1, <2>2 DEF IInv, TypeOK, environment, files
<1>2. LockInv'
  BY LockStays
<1>3. Overtaken'
  BY DEF IInv, Overtaken
<1>4. FileInv'
  BY BesideKeeps
<1>. QED
  BY <1>1, <1>2, <1>3, <1>4 DEF IInv

LEMMA StartKeeps ==
  ASSUME IInv, NEW p \in Proc, NEW c \in Writers \cup Readers, NEW w \in BOOLEAN, Start(p, c, w)
  PROVE  IInv'
<1>1. /\ cmd' \in [Proc -> Writers \cup Readers \cup {"none"}] /\ wait' \in [Proc -> BOOLEAN]
      /\ expect' \in [Proc -> 0 .. head]
  BY DEF IInv, TypeOK, Start, Location
<1>2. /\ pc' \in [Proc -> Stage] /\ pc[p] = "idle" /\ pc'[p] = "resolve"
      /\ \A q \in Proc \ {p} : pc'[q] = pc[q]
  BY DEF IInv, TypeOK, Start
<1>3. UNCHANGED <<environment, files, stamp, lockfile, handle, from, seen, promised, overtook,
                  split, dir, conn>>
  BY DEF Start, lock
<1>4. /\ dir \in [Proc -> Dir] /\ conn \in [Proc -> File \cup {NoFile}] /\ conn[p] = NoFile
      /\ handle \in [Proc -> Lockfile \cup {NoFile}] /\ handle[p] = NoFile
      /\ lockfile \in [Dir -> Lockfile \cup {NoFile}]
  BY <1>2 DEF IInv, TypeOK
<1>. QED
  BY <1>1, <1>2, <1>3, <1>4, BystanderKeeps

LEMMA ResolveKeeps ==
  ASSUME IInv, NEW p \in Proc, Resolve(p)
  PROVE  IInv'
<1>1. /\ cmd' \in [Proc -> Writers \cup Readers \cup {"none"}] /\ wait' \in [Proc -> BOOLEAN]
      /\ expect' \in [Proc -> 0 .. head]
  BY DEF IInv, TypeOK, Resolve, Keep
<1>2. /\ pc' \in [Proc -> Stage] /\ pc[p] = "resolve" /\ pc'[p] \in {"lock", "attach", "exists"}
      /\ \A q \in Proc \ {p} : pc'[q] = pc[q]
  BY DEF IInv, TypeOK, Resolve
<1>3. dir' \in [Proc -> Dir] /\ \A q \in Proc \ {p} : dir'[q] = dir[q]
  BY DEF IInv, TypeOK, Resolve, Location
<1>4. UNCHANGED <<environment, files, stamp, lockfile, handle, from, seen, promised, overtook,
                  split, conn>>
  BY DEF Resolve, lock
<1>5. /\ conn \in [Proc -> File \cup {NoFile}] /\ conn[p] = NoFile
      /\ handle \in [Proc -> Lockfile \cup {NoFile}] /\ handle[p] = NoFile
      /\ lockfile \in [Dir -> Lockfile \cup {NoFile}]
  BY <1>2 DEF IInv, TypeOK
<1>. QED
  BY <1>1, <1>2, <1>3, <1>4, <1>5, BystanderKeeps

(* The steps of a command that reads.                                      *)
LEMMA ReadKeeps ==
  ASSUME IInv, NEW p \in Proc, ReadStep(p)
  PROVE  IInv'
<1>1. CASE FindsNone(p) \/ AttachFails(p) \/ CheckFails(p) \/ Read(p)
  BY <1>1, EndsKeeps DEF FindsNone, AttachFails, CheckFails, Read
<1>2. CASE FindsFile(p) \/ Attach(p) \/ CheckVersion(p)
  <2>1. /\ cmd' \in [Proc -> Writers \cup Readers \cup {"none"}] /\ wait' \in [Proc -> BOOLEAN]
        /\ expect' \in [Proc -> 0 .. head] /\ dir' \in [Proc -> Dir] /\ dir' = dir
    BY <1>2 DEF IInv, TypeOK, FindsFile, Attach, CheckVersion, Keep
  <2>2. /\ pc' \in [Proc -> Stage] /\ pc[p] \in {"exists", "attach", "check"}
        /\ pc'[p] \in {"attach", "check", "read"}
        /\ \A q \in Proc \ {p} : pc'[q] = pc[q]
    BY <1>2 DEF IInv, TypeOK, FindsFile, Attach, CheckVersion, Goto
  <2>3. /\ conn' \in [Proc -> File \cup {NoFile}] /\ \A q \in Proc \ {p} : conn'[q] = conn[q]
        /\ conn'[p] # NoFile <=> pc'[p] \in Connected
    BY <1>2 DEF IInv, TypeOK, FindsFile, Attach, CheckVersion, Goto
  <2>4. UNCHANGED <<environment, files, stamp, lockfile, handle, from, seen, promised, overtook,
                    split>>
    BY <1>2 DEF FindsFile, Attach, CheckVersion, lock
  <2>5. /\ handle \in [Proc -> Lockfile \cup {NoFile}] /\ handle[p] = NoFile
        /\ lockfile \in [Dir -> Lockfile \cup {NoFile}]
    BY <2>2 DEF IInv, TypeOK
  <2>. QED
    BY <2>1, <2>2, <2>3, <2>4, <2>5, BystanderKeeps
<1>. QED
  BY <1>1, <1>2 DEF ReadStep

-----------------------------------------------------------------------------
(* The lock.                                                               *)

(* What open_lockfile opens: the file with the name, or a new one.         *)
LEMMA LockfileOpened ==
  ASSUME IInv, NEW p \in Proc, OpenLock(p)
  PROVE  \E l \in Lockfile :
           /\ handle' = [handle EXCEPT ![p] = l]
           /\ \/ lockfile[dir[p]] = l /\ UNCHANGED <<lockfile, stamp>>
              \/ /\ lockfile[dir[p]] = NoFile
                 /\ lockfile' = [lockfile EXCEPT ![dir[p]] = l]
                 /\ stamp' = [stamp EXCEPT ![dir[p]] = NoProc]
<1> DEFINE free(l) == \A e \in Dir, q \in Proc : lockfile[e] # l /\ ~HasOpen(q, l)
           new == CHOOSE l \in Lockfile : free(l)
<1>1. CASE lockfile[dir[p]] # NoFile
  <2>1. lockfile[dir[p]] \in Lockfile
    BY <1>1 DEF IInv, TypeOK
  <2>. QED
    BY <1>1, <2>1 DEF OpenLock, OpenLockfile
<1>2. CASE lockfile[dir[p]] = NoFile
  <2>1. \E l \in Lockfile : free(l)
    BY <1>2 DEF OpenLock, OpenLockfile
  <2>2. new \in Lockfile
    BY <2>1
  <2>3. /\ handle' = [handle EXCEPT ![p] = new]
        /\ lockfile' = [lockfile EXCEPT ![dir[p]] = new]
        /\ stamp' = [stamp EXCEPT ![dir[p]] = NoProc]
    BY <1>2 DEF OpenLock, OpenLockfile
  <2>. QED
    BY <1>2, <2>2, <2>3
<1>. QED
  BY <1>1, <1>2

(* Where nobody has a lockfile open, the one opened now is the only one;   *)
(* where somebody has, it is that one, or the lock is split.               *)
LEMMA OpenLockKeeps ==
  ASSUME IInv, NEW p \in Proc, OpenLock(p)
  PROVE  IInv'
<1>1. PICK l \in Lockfile :
        /\ handle' = [handle EXCEPT ![p] = l]
        /\ \/ lockfile[dir[p]] = l /\ UNCHANGED <<lockfile, stamp>>
           \/ /\ lockfile[dir[p]] = NoFile
              /\ lockfile' = [lockfile EXCEPT ![dir[p]] = l]
              /\ stamp' = [stamp EXCEPT ![dir[p]] = NoProc]
  BY LockfileOpened
<1>2. /\ UNCHANGED <<environment, files, dir, conn, from, seen, promised, expect, overtook>>
      /\ UNCHANGED <<cmd, wait>>
  BY DEF OpenLock, Keep
<1>3. /\ pc' \in [Proc -> Stage] /\ pc[p] \in {"lock", "reopen"} /\ pc'[p] \in {"try", "retry"}
      /\ \A q \in Proc \ {p} : pc'[q] = pc[q]
  BY DEF OpenLock, Goto, IInv, TypeOK
<1>4. split' \in [Dir -> BOOLEAN] /\ dir[p] \in Dir
  BY DEF OpenLock, IInv, TypeOK
<1>5. \A d \in Dir \ {dir[p]} : split'[d] = split[d]
  BY DEF OpenLock, IInv, TypeOK
<1>6. ~split'[dir[p]] =>
        \/ \A q \in Proc : dir[q] = dir[p] => handle[q] = NoFile
        \/ lockfile[dir[p]] # NoFile /\ ~split[dir[p]]
  <2>1. split'[dir[p]] =
          (/\ split[dir[p]] \/ lockfile[dir[p]] = NoFile
           /\ \E q \in Proc : dir[q] = dir[p] /\ handle[q] # NoFile)
    BY <1>4 DEF OpenLock, IInv, TypeOK
  <2>. QED
    BY <2>1
<1>7. /\ handle'[p] = l /\ \A q \in Proc \ {p} : handle'[q] = handle[q]
      /\ lockfile'[dir[p]] = l /\ \A d \in Dir \ {dir[p]} : lockfile'[d] = lockfile[d]
  BY <1>1, <1>4 DEF IInv, TypeOK
<1>8. TypeOK'
  <2>1. /\ handle' \in [Proc -> Lockfile \cup {NoFile}]
        /\ lockfile' \in [Dir -> Lockfile \cup {NoFile}]
        /\ stamp' \in [Dir -> Proc \cup {NoProc, Dead}]
    BY <1>1 DEF IInv, TypeOK
  <2>2. \A q \in Proc : conn'[q] # NoFile <=> pc'[q] \in Connected
    BY <1>2, <1>3 DEF IInv, TypeOK
  <2>3. \A q \in Proc : handle'[q] # NoFile <=> pc'[q] \in Opened
    BY <1>3, <1>7, NameAssumption DEF IInv, TypeOK
  <2>. QED
    BY <1>2, <1>3, <1>4, <2>1, <2>2, <2>3 DEF IInv, TypeOK, environment, files
<1>9. LockInv'
  <2>1. OneHolder'
    BY <1>3, <1>7 DEF IInv, LockInv, OneHolder
  <2>2. ASSUME NEW q \in Proc \ {p}, dir[q] = dir[p], ~split'[dir[p]], handle[q] # NoFile
        PROVE  handle[q] = l
    BY <1>1, <1>6, <2>2 DEF IInv, LockInv, OnPath
  <2>3. ASSUME NEW d \in Dir, d # dir[p]
        PROVE  split'[d] = split[d]
    BY <1>5, <2>3
  <2>4. OneLockfile'
    <3> SUFFICES ASSUME NEW r \in Proc, NEW q \in Proc, dir[r] = dir[q], ~split'[dir[r]],
                        handle'[r] # NoFile, handle'[q] # NoFile
                 PROVE  handle'[r] = handle'[q]
      BY <1>2 DEF OneLockfile
    <3>1. CASE dir[r] = dir[p]
      BY <1>7, <2>2, <3>1
    <3>2. CASE dir[r] # dir[p]
      BY <1>7, <2>3, <3>2 DEF IInv, TypeOK, LockInv, OneLockfile
    <3>. QED
      BY <3>1, <3>2
  <2>5. OnPath'
    <3> SUFFICES ASSUME NEW q \in Proc, ~split'[dir[q]], handle'[q] # NoFile,
                        lockfile'[dir[q]] # NoFile
                 PROVE  lockfile'[dir[q]] = handle'[q]
      BY <1>2 DEF OnPath
    <3>1. CASE dir[q] = dir[p]
      BY <1>7, <2>2, <3>1
    <3>2. CASE dir[q] # dir[p]
      BY <1>7, <2>3, <3>2 DEF IInv, TypeOK, LockInv, OnPath
    <3>. QED
      BY <3>1, <3>2
  <2>. QED
    BY <2>1, <2>4, <2>5 DEF LockInv
<1>10. \A d \in Dir : split[d] /\ ~split'[d] => \A q \in Proc : dir[q] = d => handle[q] = NoFile
  BY <1>5, <1>6
<1>11. Overtaken'
  <2> SUFFICES ASSUME NEW q \in Proc, NEW r \in Proc, pc'[q] \in Holders,
                      pc'[r] \in {"freed", "unlink"}, dir'[q] = dir'[r], ~split'[dir'[q]]
               PROVE  overtook'[q]
    BY DEF Overtaken
  <2>1. q # p /\ r # p /\ pc[q] \in Holders /\ dir[q] = dir[r] /\ dir[q] \in Dir
    BY <1>2, <1>3 DEF IInv, TypeOK
  <2>2. ~split[dir[q]]
    BY <1>2, <1>10, <2>1 DEF IInv, TypeOK
  <2>. QED
    BY <1>2, <1>3, <2>1, <2>2 DEF IInv, Overtaken
<1>12. FileInv'
  BY <1>2, <1>3, <1>10, BesideKeeps
<1>. QED
  BY <1>8, <1>9, <1>11, <1>12 DEF IInv

(* flock grants a lockfile that no other holder has open.                  *)
LEMMA GrantKeeps ==
  ASSUME IInv, NEW p \in Proc, Grant(p)
  PROVE  IInv'
<1>1. /\ pc[p] \in {"try", "retry", "block"} /\ pc' = [pc EXCEPT ![p] = "stamp"]
      /\ overtook' = [overtook EXCEPT ![p] = Deleting(dir[p])]
      /\ wait' = [wait EXCEPT ![p] = FALSE]
      /\ UNCHANGED <<environment, files, lockfile, stamp, handle, dir, conn, from, seen, promised,
                     expect, split, cmd>>
  BY DEF Grant, lock
<1>2. /\ pc'[p] = "stamp" /\ \A q \in Proc \ {p} : pc'[q] = pc[q] /\ overtook'[q] = overtook[q]
      /\ overtook'[p] = Deleting(dir[p])
  BY <1>1 DEF IInv, TypeOK
<1>3. TypeOK'
  <2>1. pc' \in [Proc -> Stage] /\ overtook' \in [Proc -> BOOLEAN]
    BY <1>1 DEF IInv, TypeOK, Deleting
  <2>2. \A q \in Proc : conn'[q] # NoFile <=> pc'[q] \in Connected
    BY <1>1, <1>2 DEF IInv, TypeOK
  <2>3. \A q \in Proc : handle'[q] # NoFile <=> pc'[q] \in Opened
    BY <1>1, <1>2 DEF IInv, TypeOK
  <2>. QED
    BY <1>1, <2>1, <2>2, <2>3 DEF IInv, TypeOK, environment, files
<1>4. LockInv'
  <2>1. OneHolder'
    <3>1. handle[p] # NoFile
      BY <1>1 DEF IInv, TypeOK
    <3>2. \A q \in Proc : handle[q] = handle[p] => pc[q] \notin Holders
      BY <3>1 DEF Grant, Unlocked, HasOpen
    <3>. QED
      BY <1>1, <1>2, <3>2 DEF IInv, LockInv, OneHolder
  <2>2. OneLockfile' /\ OnPath'
    BY <1>1 DEF IInv, LockInv, OneLockfile, OnPath
  <2>. QED
    BY <2>1, <2>2 DEF LockInv
<1>5. Overtaken'
  <2>1. ASSUME NEW q \in Proc, pc[q] \in {"freed", "unlink"}, dir[q] = dir[p]
        PROVE  overtook'[p]
    BY <1>2, <2>1, Zenon DEF Deleting
  <2>. QED
    BY <1>1, <1>2, <2>1 DEF IInv, Overtaken
<1>6. FileInv'
  BY <1>1, <1>2, BesideKeeps
<1>. QED
  BY <1>3, <1>4, <1>5, <1>6 DEF IInv

LEMMA StampKeeps ==
  ASSUME IInv, NEW p \in Proc, Stamp(p)
  PROVE  IInv'
<1>1. /\ pc[p] = "stamp" /\ pc' = [pc EXCEPT ![p] = "open"]
      /\ UNCHANGED <<environment, files, lockfile, handle, dir, conn, from, seen, promised,
                     expect, overtook, split, cmd, wait>>
  BY DEF Stamp, Goto, Keep
<1>2. pc'[p] = "open" /\ \A q \in Proc \ {p} : pc'[q] = pc[q]
  BY <1>1 DEF IInv, TypeOK
<1>3. TypeOK'
  <2>1. /\ pc' \in [Proc -> Stage] /\ stamp' \in [Dir -> Proc \cup {NoProc, Dead}]
    BY <1>1 DEF Stamp, IInv, TypeOK
  <2>2. \A q \in Proc : conn'[q] # NoFile <=> pc'[q] \in Connected
    BY <1>1, <1>2 DEF IInv, TypeOK
  <2>3. \A q \in Proc : handle'[q] # NoFile <=> pc'[q] \in Opened
    BY <1>1, <1>2 DEF IInv, TypeOK
  <2>. QED
    BY <1>1, <2>1, <2>2, <2>3 DEF IInv, TypeOK, environment, files
<1>4. LockInv'
  BY <1>1, <1>2, LockStays DEF IInv, TypeOK
<1>5. Overtaken'
  BY <1>1, <1>2 DEF IInv, Overtaken
<1>6. FileInv'
  BY <1>1, <1>2, BesideKeeps
<1>. QED
  BY <1>3, <1>4, <1>5, <1>6 DEF IInv

LEMMA WaitKeeps ==
  ASSUME IInv, NEW p \in Proc, WouldBlock(p) \/ Probe(p) \/ Reclaim(p)
  PROVE  IInv'
<1>1. /\ UNCHANGED <<environment, files, stamp, dir, conn, from, seen, promised, expect, overtook,
                     split, cmd, wait>>
  BY DEF WouldBlock, Probe, Reclaim, Keep, lock
<1>2. /\ pc' \in [Proc -> Stage] /\ pc[p] \in {"try", "probe", "reclaim"}
      /\ pc'[p] \in {"probe", "reclaim", "block", "reopen"}
      /\ \A q \in Proc \ {p} : pc'[q] = pc[q]
  BY DEF WouldBlock, Probe, Reclaim, Goto, IInv, TypeOK
<1>3. /\ handle' \in [Proc -> Lockfile \cup {NoFile}]
      /\ handle'[p] # NoFile <=> pc'[p] \in Opened
      /\ handle'[p] \in {handle[p], NoFile} /\ \A q \in Proc \ {p} : handle'[q] = handle[q]
  BY DEF WouldBlock, Probe, Reclaim, Goto, lock, IInv, TypeOK
<1>4. /\ lockfile' \in [Dir -> Lockfile \cup {NoFile}]
      /\ \A d \in Dir : lockfile'[d] \in {lockfile[d], NoFile}
  BY DEF WouldBlock, Probe, Reclaim, RemoveLockfile, lock, IInv, TypeOK
<1>5. /\ cmd' \in [Proc -> Writers \cup Readers \cup {"none"}] /\ wait' \in [Proc -> BOOLEAN]
      /\ dir' \in [Proc -> Dir] /\ conn' \in [Proc -> File \cup {NoFile}]
      /\ expect' \in [Proc -> 0 .. head] /\ conn'[p] = NoFile
  BY <1>1, <1>2 DEF IInv, TypeOK
<1>6. /\ pc[p] \notin Holders \cup {"freed", "unlink"} /\ pc'[p] \notin Connected
      /\ pc'[p] \notin Holders \cup {"freed", "unlink"}
  BY <1>2
<1>7. /\ dir'[p] = dir[p]
      /\ \A q \in Proc \ {p} : UNCHANGED <<pc[q], dir[q], conn[q], handle[q]>>
  BY <1>1, <1>2, <1>3
<1>. QED
  BY <1>1, <1>2, <1>3, <1>4, <1>5, <1>6, <1>7, BystanderKeeps

LEMMA LockKeeps ==
  ASSUME IInv, NEW p \in Proc, LockStep(p)
  PROVE  IInv'
<1>1. CASE Contention(p) \/ ReclaimFails(p)
  BY <1>1, EndsKeeps DEF Contention, ReclaimFails
<1>2. CASE Denied(p)
  BY <1>2, EndsKeeps, LeavesKeeps DEF Denied
<1>. QED
  BY <1>1, <1>2, OpenLockKeeps, GrantKeeps, WaitKeeps, StampKeeps, QuitKeeps DEF LockStep

-----------------------------------------------------------------------------
(* Opening and migrating.                                                  *)

(* What Connection::open attaches: the file with the name, or a new one    *)
(* that nobody has.                                                        *)
LEMMA DatabaseOpened ==
  ASSUME IInv, NEW p \in Proc, OpenDatabase(p)
  PROVE  \E f \in File :
           /\ conn' = [conn EXCEPT ![p] = f]
           /\ \/ named[dir[p]] = f /\ UNCHANGED files
              \/ /\ Unused(f) /\ named[dir[p]] = NoFile
                 /\ named' = [named EXCEPT ![dir[p]] = f]
                 /\ version' = [version EXCEPT ![f] = 0] /\ rows' = [rows EXCEPT ![f] = 0]
<1>1. CASE named[dir[p]] # NoFile
  BY <1>1 DEF IInv, TypeOK, OpenDatabase, Attached
<1>2. CASE named[dir[p]] = NoFile
  <2>1. Created(p)
    BY <1>2 DEF OpenDatabase
  <2>2. (CHOOSE g \in File : Unused(g)) \in File /\ Unused(CHOOSE g \in File : Unused(g))
    BY <2>1 DEF Created
  <2>. QED
    BY <1>2, <2>1, <2>2 DEF Created, Attached
<1>. QED
  BY <1>1, <1>2

LEMMA OpenKeeps ==
  ASSUME IInv, NEW p \in Proc, OpenDatabase(p)
  PROVE  IInv'
<1>1. PICK f \in File :
        /\ conn' = [conn EXCEPT ![p] = f]
        /\ \/ named[dir[p]] = f /\ UNCHANGED files
           \/ /\ Unused(f) /\ named[dir[p]] = NoFile
              /\ named' = [named EXCEPT ![dir[p]] = f]
              /\ version' = [version EXCEPT ![f] = 0] /\ rows' = [rows EXCEPT ![f] = 0]
  BY DatabaseOpened
<1>2. /\ pc[p] = "open" /\ pc' = [pc EXCEPT ![p] = "version"]
      /\ UNCHANGED <<environment, lock, dir, from, seen, said, promised, expect, overtook, split>>
      /\ UNCHANGED <<cmd, wait>>
  BY DEF OpenDatabase, Goto, Keep
<1>3. /\ pc'[p] = "version" /\ conn'[p] = f
      /\ \A q \in Proc \ {p} : pc'[q] = pc[q] /\ conn'[q] = conn[q]
  BY <1>1, <1>2 DEF IInv, TypeOK
<1>4. \A q \in Proc : pc[q] \in Writing /\ conn[q] = f => named[dir[p]] = f /\ dir[q] = dir[p]
  BY <1>1 DEF IInv, TypeOK, FileInv, OwnName, Unused
<1>5. \A q \in Proc \ {p} : pc[q] \in Writing /\ ~split[dir[q]] => conn[q] # f
  <2> SUFFICES ASSUME NEW q \in Proc \ {p}, pc[q] \in Writing, ~split[dir[q]], conn[q] = f
               PROVE  FALSE
    OBVIOUS
  <2>1. dir[q] = dir[p] /\ pc[p] \in Holders
    BY <1>2, <1>4
  <2>. QED
    BY <2>1, Exclusive
<1>6. \A q \in Proc : pc[q] \in Writing => ~Unused(conn[q])
  BY DEF Unused
<1>7. \A g \in File : ~Unused(g) => rows'[g] = rows[g] /\ version'[g] = version[g]
  BY <1>1 DEF files, IInv, TypeOK
<1>8. \A q \in Proc : pc[q] \in Writing => conn[q] \in File
  BY DEF IInv, TypeOK
<1>9. TypeOK'
  <2>1. /\ pc' \in [Proc -> Stage] /\ conn' \in [Proc -> File \cup {NoFile}]
        /\ named' \in [Dir -> File \cup {NoFile}]
        /\ version' \in [File -> Nat] /\ rows' \in [File -> 0 .. head']
    BY <1>1, <1>2, BoundAssumption DEF IInv, TypeOK, environment, files
  <2>2. \A q \in Proc : conn'[q] # NoFile <=> pc'[q] \in Connected
    BY <1>3, NameAssumption DEF IInv, TypeOK
  <2>3. \A q \in Proc : handle'[q] # NoFile <=> pc'[q] \in Opened
    BY <1>2, <1>3 DEF IInv, TypeOK, lock
  <2>. QED
    BY <1>2, <2>1, <2>2, <2>3 DEF IInv, TypeOK, environment, lock
<1>10. LockInv'
  BY <1>2, <1>3, LockStays DEF IInv, TypeOK, lock
<1>11. Overtaken'
  BY <1>2, <1>3 DEF IInv, Overtaken
<1>12. NamesDiffer'
  BY <1>1 DEF files, IInv, TypeOK, FileInv, NamesDiffer, Unused
<1>13. OwnName'
  <2>1. \A d \in Dir : named'[d] = f => d = dir[p]
    BY <1>1, NameAssumption DEF files, IInv, TypeOK, FileInv, NamesDiffer, Unused
  <2>2. \A q \in Proc \ {p} : pc[q] \in Writing =>
           \A d \in Dir : named'[d] = conn[q] => d = dir[q]
    <3>1. CASE named[dir[p]] = f /\ UNCHANGED files
      BY <3>1 DEF files, IInv, FileInv, OwnName
    <3>2. CASE Unused(f) /\ named' = [named EXCEPT ![dir[p]] = f]
      BY <1>4, <1>6, <3>2 DEF IInv, TypeOK, FileInv, OwnName
    <3>. QED
      BY <1>1, <3>1, <3>2
  <2>. QED
    BY <1>2, <1>3, <2>1, <2>2 DEF OwnName
<1>14. OneDir'
  BY <1>2, <1>3, <1>4 DEF IInv, FileInv, OneDir
<1>15. Migrating' /\ WritesOwnSchema'
  BY <1>2, <1>3, <1>6, <1>7, <1>8 DEF IInv, FileInv, Migrating, WritesOwnSchema
<1>16. InPlace'
  <2>1. named'[dir[p]] = f
    BY <1>1 DEF files, IInv, TypeOK
  <2>2. \A d \in Dir : named[d] # NoFile => named'[d] = named[d]
    BY <1>1 DEF files, IInv, TypeOK
  <2>3. \A q \in Proc \ {p} : pc[q] \in Writing /\ ~overtook[q] /\ ~split[dir[q]] =>
           named'[dir[q]] = conn[q]
    BY <1>8, <2>2, NameAssumption DEF IInv, TypeOK, FileInv, InPlace
  <2>. QED
    BY <1>2, <1>3, <2>1, <2>3 DEF InPlace
<1>17. Filled'
  BY <1>2, <1>3, <1>6, <1>7, <1>8 DEF IInv, FileInv, Filled
<1>18. PromiseKept'
  BY <1>1, <1>2, NameAssumption DEF files, IInv, TypeOK, FileInv, PromiseKept, Unused
<1>. QED
  BY <1>9, <1>10, <1>11, <1>12, <1>13, <1>14, <1>15, <1>16, <1>17, <1>18 DEF IInv, FileInv

(* While a process has a database to write to, no file, name or lock       *)
(* changes hands.                                                          *)
LEMMA AtWorkKeeps ==
  ASSUME IInv, NEW p \in Proc,
         pc' \in [Proc -> Stage], \A q \in Proc \ {p} : pc'[q] = pc[q],
         pc[p] \in Writing, pc'[p] \in Writing,
         version' \in [File -> Nat], rows' \in [File -> 0 .. head],
         from' \in [Proc -> Nat], seen' \in [Proc -> 0 .. head],
         UNCHANGED <<environment, named, lock, cmd, wait, dir, conn, promised, expect, overtook,
                     split>>,
         Migrating', Filled', WritesOwnSchema', PromiseKept'
  PROVE  IInv'
<1> USE DEF environment, lock
<1>1. TypeOK'
  BY DEF IInv, TypeOK
<1>2. LockInv'
  BY LockStays DEF IInv, TypeOK
<1>3. Overtaken'
  BY DEF IInv, Overtaken
<1>4. NamesDiffer' /\ OwnName' /\ OneDir' /\ InPlace'
  BY DEF IInv, FileInv, NamesDiffer, OwnName, OneDir, InPlace
<1>. QED
  BY <1>1, <1>2, <1>3, <1>4 DEF IInv, FileInv

(* Where the lock is not split, nobody else writes to the file.            *)
LEMMA Apart ==
  ASSUME IInv, NEW p \in Proc, NEW q \in Proc, pc[p] \in Writing, pc[q] \in Writing,
         conn[p] = conn[q], ~split[dir[q]]
  PROVE  p = q
<1>1. dir[p] = dir[q]
  BY DEF IInv, FileInv, OneDir
<1>. QED
  BY <1>1, Exclusive

LEMMA ReadVersionKeeps ==
  ASSUME IInv, NEW p \in Proc, ReadVersion(p)
  PROVE  IInv'
<1> USE DEF ReadVersion, Keep, Goto, files, Supported
<1>1. /\ pc' \in [Proc -> Stage] /\ \A q \in Proc \ {p} : pc'[q] = pc[q]
      /\ pc[p] = "version" /\ pc'[p] = "migrate" /\ conn[p] \in File
  BY DEF IInv, TypeOK
<1>2. from' \in [Proc -> Nat] /\ version' \in [File -> Nat] /\ rows' \in [File -> 0 .. head]
      /\ seen' \in [Proc -> 0 .. head]
  BY <1>1 DEF IInv, TypeOK
<1>3. Migrating'
  BY <1>1 DEF IInv, TypeOK, FileInv, Migrating
<1>4. Filled' /\ WritesOwnSchema' /\ PromiseKept'
  BY <1>1 DEF IInv, TypeOK, FileInv, Filled, WritesOwnSchema, PromiseKept
<1>5. UNCHANGED <<environment, named, lock, cmd, wait, dir, conn, promised, expect, overtook,
                  split>>
  OBVIOUS
<1>. QED
  BY <1>1, <1>2, <1>3, <1>4, <1>5, AtWorkKeeps

LEMMA ApplyOneKeeps ==
  ASSUME IInv, NEW p \in Proc, ApplyOne(p)
  PROVE  IInv'
<1> USE DEF ApplyOne, Keep
<1>1. /\ pc' \in [Proc -> Stage] /\ pc' = pc /\ pc[p] = "migrate" /\ conn[p] \in File
      /\ \A q \in Proc \ {p} : pc[q] \in Writing /\ ~split[dir[q]] => conn[q] # conn[p]
  BY Apart DEF IInv, TypeOK
<1>2. from[p] \in Nat /\ Latest[p] \in Nat /\ from[p] < Latest[p]
  BY LatestAssumption DEF IInv, TypeOK
<1>3. /\ from' \in [Proc -> Nat] /\ from'[p] = from[p] + 1
      /\ \A q \in Proc \ {p} : from'[q] = from[q]
  BY <1>2 DEF IInv, TypeOK
<1>4. /\ version' \in [File -> Nat] /\ version'[conn[p]] = from[p] + 1
      /\ \A f \in File \ {conn[p]} : version'[f] = version[f]
  BY <1>1, <1>2, <1>3 DEF IInv, TypeOK
<1>5. Migrating'
  <2>1. \A q \in Proc \ {p} :
           pc[q] = "migrate" /\ ~split[dir[q]] => version'[conn[q]] = version[conn[q]]
    BY <1>1, <1>4 DEF IInv, TypeOK
  <2>. QED
    BY <1>1, <1>2, <1>3, <1>4, <2>1 DEF IInv, TypeOK, FileInv, Migrating
<1>6. WritesOwnSchema'
  <2>1. \A q \in Proc : pc[q] \in {"walk", "persist", "report"} /\ ~split[dir[q]] =>
           q # p /\ version'[conn[q]] = version[conn[q]]
    BY <1>1, <1>4 DEF IInv, TypeOK
  <2>. QED
    BY <1>1, <2>1 DEF IInv, FileInv, WritesOwnSchema
<1>7. Filled' /\ PromiseKept'
  BY DEF IInv, TypeOK, FileInv, Filled, PromiseKept
<1>8. /\ rows' \in [File -> 0 .. head] /\ seen' \in [Proc -> 0 .. head]
      /\ UNCHANGED <<environment, named, lock, cmd, wait, dir, conn, promised, expect, overtook,
                     split>>
  BY DEF IInv, TypeOK
<1>. QED
  BY <1>1, <1>3, <1>4, <1>5, <1>6, <1>7, <1>8, AtWorkKeeps

LEMMA MigratedKeeps ==
  ASSUME IInv, NEW p \in Proc, Migrated(p)
  PROVE  IInv'
<1> USE DEF Migrated, Keep, files
<1>1. /\ pc' \in [Proc -> Stage] /\ \A q \in Proc \ {p} : pc'[q] = pc[q]
      /\ pc[p] = "migrate" /\ pc'[p] \in {"drop", "walk"} /\ conn[p] \in File
  BY DEF IInv, TypeOK
<1>2. /\ from' \in [Proc -> Nat] /\ \A q \in Proc \ {p} : from'[q] = from[q]
      /\ version' \in [File -> Nat] /\ rows' \in [File -> 0 .. head]
      /\ seen' \in [Proc -> 0 .. head]
  BY <1>1 DEF IInv, TypeOK
<1>3. ~split[dir[p]] => version[conn[p]] = Latest[p]
  <2> SUFFICES ASSUME ~split[dir[p]]
               PROVE  version[conn[p]] = Latest[p]
    OBVIOUS
  <2>1. from[p] = version[conn[p]] /\ from[p] <= Latest[p]
    BY <1>1 DEF IInv, FileInv, Migrating
  <2>2. from[p] >= Latest[p] /\ from[p] \in Nat /\ Latest[p] \in Nat
    BY LatestAssumption DEF IInv, TypeOK
  <2>. QED
    BY <2>1, <2>2
<1>4. Migrating'
  BY <1>1, <1>2 DEF IInv, TypeOK, FileInv, Migrating
<1>5. WritesOwnSchema'
  BY <1>1, <1>3 DEF IInv, TypeOK, FileInv, WritesOwnSchema
<1>6. Filled' /\ PromiseKept'
  BY <1>1 DEF IInv, TypeOK, FileInv, Filled, PromiseKept
<1>7. UNCHANGED <<environment, named, lock, cmd, wait, dir, conn, promised, expect, overtook,
                  split>>
  OBVIOUS
<1>. QED
  BY <1>1, <1>2, <1>4, <1>5, <1>6, <1>7, AtWorkKeeps

-----------------------------------------------------------------------------
(* The run.                                                                *)

LEMMA WalkKeeps ==
  ASSUME IInv, NEW p \in Proc, Walk(p)
  PROVE  IInv'
<1> USE DEF Walk, Keep, Goto, files
<1>1. /\ pc' \in [Proc -> Stage] /\ \A q \in Proc \ {p} : pc'[q] = pc[q]
      /\ pc[p] = "walk" /\ pc'[p] = "persist" /\ conn[p] \in File
  BY DEF IInv, TypeOK
<1>2. /\ seen' \in [Proc -> 0 .. head] /\ \A q \in Proc \ {p} : seen'[q] = seen[q]
      /\ version' \in [File -> Nat] /\ rows' \in [File -> 0 .. head] /\ from' \in [Proc -> Nat]
  BY <1>1, BoundAssumption DEF IInv, TypeOK
<1>3. Migrating' /\ WritesOwnSchema'
  BY <1>1 DEF IInv, TypeOK, FileInv, Migrating, WritesOwnSchema
<1>4. Filled' /\ PromiseKept'
  BY <1>1, <1>2 DEF IInv, TypeOK, FileInv, Filled, PromiseKept
<1>5. UNCHANGED <<environment, named, lock, cmd, wait, dir, conn, promised, expect, overtook,
                  split>>
  OBVIOUS
<1>. QED
  BY <1>1, <1>2, <1>3, <1>4, <1>5, AtWorkKeeps

(* Rows are added, never taken away.                                       *)
LEMMA PersistKeeps ==
  ASSUME IInv, NEW p \in Proc, Persist(p)
  PROVE  IInv'
<1> USE DEF Persist, Keep, Goto
<1>1. /\ pc' \in [Proc -> Stage] /\ \A q \in Proc \ {p} : pc'[q] = pc[q]
      /\ pc[p] = "persist" /\ pc'[p] = "report" /\ conn[p] \in File
  BY DEF IInv, TypeOK
<1>2. /\ rows' \in [File -> 0 .. head] /\ seen[p] <= rows'[conn[p]]
      /\ \A f \in File : rows[f] <= rows'[f]
  BY <1>1 DEF IInv, TypeOK
<1>3. /\ version' \in [File -> Nat] /\ from' \in [Proc -> Nat] /\ seen' \in [Proc -> 0 .. head]
      /\ \A q \in Proc : pc[q] \in Writing => conn[q] \in File
  BY DEF IInv, TypeOK
<1>4. Migrating'
  BY <1>1 DEF IInv, TypeOK, FileInv, Migrating
<1>5. WritesOwnSchema'
  BY <1>1 DEF IInv, TypeOK, FileInv, WritesOwnSchema
<1>6. Filled'
  <2>1. \A q \in Proc \ {p} : pc[q] = "report" => seen[q] <= rows'[conn[q]]
    BY <1>2, <1>3 DEF IInv, TypeOK, FileInv, Filled
  <2>. QED
    BY <1>1, <1>2, <2>1 DEF IInv, TypeOK, FileInv, Filled
<1>7. PromiseKept'
  BY <1>2 DEF IInv, TypeOK, FileInv, PromiseKept
<1>8. UNCHANGED <<environment, named, lock, cmd, wait, dir, conn, promised, expect, overtook,
                  split>>
  OBVIOUS
<1>. QED
  BY <1>1, <1>2, <1>3, <1>4, <1>5, <1>6, <1>7, <1>8, AtWorkKeeps

(* A run that has not overtaken a rebuild, and holds a lock that is not    *)
(* split, reports rows of the file that carries the name.                  *)
LEMMA ReportKeeps ==
  ASSUME IInv, NEW p \in Proc, Report(p)
  PROVE  IInv'
<1> USE DEF Report
<1>1. pc[p] = "report" /\ seen[p] \in 0 .. head /\ dir[p] \in Dir /\ conn[p] \in File
  BY DEF IInv, TypeOK
<1>2. promised' \in [Dir -> 0 .. head]
  BY <1>1 DEF IInv, TypeOK
<1>3. ~overtook[p] /\ ~split[dir[p]] =>
        named[dir[p]] = conn[p] /\ seen[p] <= rows[named[dir[p]]]
  BY <1>1 DEF IInv, FileInv, InPlace, Filled
<1>4. PromiseKept'
  BY <1>1, <1>3, NameAssumption DEF IInv, TypeOK, FileInv, PromiseKept, Leave, files
<1>. QED
  BY <1>1, <1>2, <1>4, LeaveKeeps

-----------------------------------------------------------------------------
(* A rebuild.                                                              *)

LEMMA LetGoKeeps ==
  ASSUME IInv, NEW p \in Proc, LetGo(p)
  PROVE  IInv'
<1>1. /\ pc[p] = "drop" /\ pc' = [pc EXCEPT ![p] = "freed"]
      /\ conn' = [conn EXCEPT ![p] = NoFile] /\ overtook' = [overtook EXCEPT ![p] = FALSE]
      /\ UNCHANGED <<writable, head, named, version, rows, lockfile, stamp, handle, dir, from,
                     seen, promised, expect, split, cmd, wait>>
  BY DEF LetGo, Keep, Goto, environment, files, lock
<1>2. /\ pc'[p] = "freed" /\ conn'[p] = NoFile
      /\ \A q \in Proc \ {p} : UNCHANGED <<pc[q], conn[q], overtook[q]>>
  BY <1>1 DEF IInv, TypeOK
<1>3. TypeOK'
  <2>1. /\ pc' \in [Proc -> Stage] /\ conn' \in [Proc -> File \cup {NoFile}]
        /\ overtook' \in [Proc -> BOOLEAN]
    BY <1>1 DEF IInv, TypeOK
  <2>2. \A q \in Proc : conn'[q] # NoFile <=> pc'[q] \in Connected
    BY <1>1, <1>2 DEF IInv, TypeOK
  <2>3. \A q \in Proc : handle'[q] # NoFile <=> pc'[q] \in Opened
    BY <1>1, <1>2 DEF IInv, TypeOK
  <2>. QED
    BY <1>1, <2>1, <2>2, <2>3 DEF IInv, TypeOK
<1>4. LockInv'
  BY <1>1, <1>2, LockStays DEF IInv, TypeOK
<1>5. Overtaken'
  <2>1. \A q \in Proc \ {p} : pc[q] \in Holders /\ dir[q] = dir[p] => split[dir[p]]
    BY <1>1, Exclusive
  <2>. QED
    BY <1>1, <1>2, <2>1 DEF IInv, Overtaken
<1>6. FileInv'
  <2>1. \A q \in Proc : pc'[q] \in Writing => q # p /\ pc[q] \in Writing
    BY <1>2
  <2>2. NamesDiffer' /\ OwnName' /\ OneDir'
    BY <1>1, <1>2, <2>1 DEF IInv, FileInv, NamesDiffer, OwnName, OneDir
  <2>3. Migrating' /\ WritesOwnSchema'
    BY <1>1, <1>2, <2>1 DEF IInv, FileInv, Migrating, WritesOwnSchema
  <2>4. InPlace' /\ Filled' /\ PromiseKept'
    BY <1>1, <1>2, <2>1 DEF IInv, FileInv, InPlace, Filled, PromiseKept
  <2>. QED
    BY <2>2, <2>3, <2>4 DEF FileInv
<1>. QED
  BY <1>3, <1>4, <1>5, <1>6 DEF IInv

LEMMA FreeKeeps ==
  ASSUME IInv, NEW p \in Proc, Free(p)
  PROVE  IInv'
<1>1. /\ pc[p] = "freed" /\ pc' = [pc EXCEPT ![p] = "unlink"]
      /\ handle' = [handle EXCEPT ![p] = NoFile]
      /\ UNCHANGED <<environment, files, stamp, dir, conn, from, seen, promised, expect, overtook,
                     split, cmd, wait>>
  BY DEF Free, Keep, Goto
<1>2. /\ pc'[p] = "unlink" /\ handle'[p] = NoFile
      /\ \A q \in Proc \ {p} : pc'[q] = pc[q] /\ handle'[q] = handle[q]
  BY <1>1 DEF IInv, TypeOK
<1>3. /\ lockfile' \in [Dir -> Lockfile \cup {NoFile}]
      /\ \A d \in Dir : lockfile'[d] \in {lockfile[d], NoFile}
  BY DEF Free, RemoveLockfile, IInv, TypeOK
<1>4. TypeOK'
  <2>1. pc' \in [Proc -> Stage] /\ handle' \in [Proc -> Lockfile \cup {NoFile}]
    BY <1>1 DEF IInv, TypeOK
  <2>2. \A q \in Proc : conn'[q] # NoFile <=> pc'[q] \in Connected
    BY <1>1, <1>2 DEF IInv, TypeOK
  <2>3. \A q \in Proc : handle'[q] # NoFile <=> pc'[q] \in Opened
    BY <1>1, <1>2 DEF IInv, TypeOK
  <2>. QED
    BY <1>1, <1>3, <2>1, <2>2, <2>3 DEF IInv, TypeOK, environment, files
<1>5. LockInv'
  BY <1>1, <1>2, <1>3, LockStays DEF IInv, TypeOK
<1>6. Overtaken'
  BY <1>1, <1>2 DEF IInv, Overtaken
<1>7. FileInv'
  BY <1>1, <1>2, BesideKeeps
<1>. QED
  BY <1>4, <1>5, <1>6, <1>7 DEF IInv

LEMMA UnlinkKeeps ==
  ASSUME IInv, NEW p \in Proc, Unlink(p)
  PROVE  IInv'
<1>1. /\ pc[p] = "unlink" /\ pc' = [pc EXCEPT ![p] = "lock"] /\ dir[p] \in Dir
      /\ cmd' = [cmd EXCEPT ![p] = "index"] /\ wait' = [wait EXCEPT ![p] = FALSE]
      /\ named' = [named EXCEPT ![dir[p]] = NoFile]
      /\ promised' = [promised EXCEPT ![dir[p]] = 0] /\ expect' = [q \in Proc |-> 0]
      /\ UNCHANGED <<writable, head, version, rows, lockfile, stamp, handle, dir, conn, from, seen,
                     overtook, split>>
  BY DEF Unlink, Goto, environment, lock, IInv, TypeOK
<1>2. pc'[p] = "lock" /\ \A q \in Proc \ {p} : pc'[q] = pc[q]
  BY <1>1 DEF IInv, TypeOK
<1>3. TypeOK'
  <2>1. /\ pc' \in [Proc -> Stage] /\ named' \in [Dir -> File \cup {NoFile}]
        /\ cmd' \in [Proc -> Writers \cup Readers \cup {"none"}] /\ wait' \in [Proc -> BOOLEAN]
        /\ promised' \in [Dir -> 0 .. head] /\ expect' \in [Proc -> 0 .. head]
    BY <1>1, BoundAssumption DEF IInv, TypeOK
  <2>2. \A q \in Proc : conn'[q] # NoFile <=> pc'[q] \in Connected
    BY <1>1, <1>2 DEF IInv, TypeOK
  <2>3. \A q \in Proc : handle'[q] # NoFile <=> pc'[q] \in Opened
    BY <1>1, <1>2 DEF IInv, TypeOK
  <2>. QED
    BY <1>1, <2>1, <2>2, <2>3 DEF IInv, TypeOK
<1>4. LockInv'
  BY <1>1, <1>2, LockStays DEF IInv, TypeOK
<1>5. Overtaken'
  BY <1>1, <1>2 DEF IInv, Overtaken
<1>6. NamesDiffer'
  BY <1>1 DEF IInv, TypeOK, FileInv, NamesDiffer
<1>7. \A q \in Proc : pc'[q] \in Writing => q # p /\ pc[q] \in Writing /\ conn[q] \in File
  BY <1>2 DEF IInv, TypeOK
<1>8. OwnName' /\ OneDir'
  BY <1>1, <1>7, NameAssumption DEF IInv, TypeOK, FileInv, OwnName, OneDir
<1>9. Migrating' /\ WritesOwnSchema'
  BY <1>1, <1>2, <1>7 DEF IInv, FileInv, Migrating, WritesOwnSchema
<1>10. InPlace'
  <2>1. \A q \in Proc : pc[q] \in Writing /\ ~overtook[q] /\ ~split[dir[q]] => dir[q] # dir[p]
    BY <1>1 DEF IInv, Overtaken
  <2>. QED
    BY <1>1, <1>7, <2>1 DEF IInv, TypeOK, FileInv, InPlace
<1>11. Filled'
  BY <1>1, <1>2, <1>7 DEF IInv, FileInv, Filled
<1>12. PromiseKept'
  BY <1>1 DEF IInv, TypeOK, FileInv, PromiseKept
<1>. QED
  BY <1>3, <1>4, <1>5, <1>6, <1>8, <1>9, <1>10, <1>11, <1>12 DEF IInv, FileInv

-----------------------------------------------------------------------------
(* The user.                                                               *)

LEMMA UserKeeps ==
  ASSUME IInv, Commit \/ Flip
  PROVE  IInv'
<1> USE DEF Commit, Flip, files, lock, process, history
<1>1. UNCHANGED <<named, version, rows, lockfile, stamp, handle, pc, cmd, wait, dir, conn, from,
                  seen, promised, overtook, split>>
  OBVIOUS
<1>2. TypeOK'
  <2>0. writable' \in BOOLEAN
    <3>1. writable \in BOOLEAN
      BY DEF IInv, TypeOK
    <3>2. writable' = writable \/ writable' = (~writable)
      BY DEF environment
    <3>. QED
      BY <3>1, <3>2
  <2>1. head' \in 1 .. MaxHead /\ head <= head'
    <3>1. head \in 1 .. MaxHead /\ MaxHead \in Nat
      BY BoundAssumption DEF IInv, TypeOK
    <3>2. head' = head \/ (head < MaxHead /\ head' = head + 1)
      BY DEF environment
    <3>. QED
      BY <3>1, <3>2
  <2>2. 0 .. head \subseteq 0 .. head'
    BY <2>1, BoundAssumption DEF IInv, TypeOK
  <2>3. /\ rows' \in [File -> 0 .. head'] /\ seen' \in [Proc -> 0 .. head']
        /\ promised' \in [Dir -> 0 .. head']
    BY <1>1, <2>2 DEF IInv, TypeOK
  <2>4. expect' \in [Proc -> 0 .. head']
    BY <2>1, <2>2, BoundAssumption DEF IInv, TypeOK
  <2>. QED
    BY <1>1, <2>0, <2>1, <2>3, <2>4 DEF IInv, TypeOK
<1>3. LockInv' /\ Overtaken'
  BY <1>1 DEF IInv, LockInv, OneHolder, OneLockfile, OnPath, Overtaken
<1>4. NamesDiffer' /\ OwnName' /\ OneDir' /\ Migrating' /\ WritesOwnSchema'
  BY <1>1 DEF IInv, FileInv, NamesDiffer, OwnName, OneDir, Migrating, WritesOwnSchema
<1>5. InPlace' /\ Filled' /\ PromiseKept'
  BY <1>1 DEF IInv, FileInv, InPlace, Filled, PromiseKept
<1>. QED
  BY <1>2, <1>3, <1>4, <1>5 DEF IInv, FileInv

-----------------------------------------------------------------------------
LEMMA NextKeeps == IInv /\ [Next]_vars => IInv'
<1> SUFFICES ASSUME IInv, [Next]_vars
             PROVE  IInv'
  OBVIOUS
<1>1. CASE Commit \/ Flip
  BY <1>1, UserKeeps
<1>2. ASSUME NEW p \in Proc, Step(p)
      PROVE  IInv'
  <2>1. CASE LockStep(p)
    BY <2>1, LockKeeps
  <2>2. CASE OpenStep(p)
    <3>1. CASE TooNew(p)
      BY <3>1, LeavesKeeps DEF TooNew
    <3>. QED
      BY <2>2, <3>1, ResolveKeeps, OpenKeeps, ReadVersionKeeps, ApplyOneKeeps,
         MigratedKeeps DEF OpenStep
  <2>3. CASE RebuildStep(p)
    BY <2>3, LetGoKeeps, FreeKeeps, UnlinkKeeps DEF RebuildStep
  <2>4. CASE RunStep(p)
    <3>1. CASE Plan(p)
      BY <3>1, LeavesKeeps DEF Plan
    <3>. QED
      BY <2>4, <3>1, WalkKeeps, PersistKeeps, ReportKeeps DEF RunStep
  <2>5. CASE ReadStep(p)
    BY <2>5, ReadKeeps
  <2>. QED
    BY <1>2, <2>1, <2>2, <2>3, <2>4, <2>5 DEF Step
<1>3. ASSUME NEW p \in Proc, NEW c \in Writers \cup Readers, NEW w \in BOOLEAN, Start(p, c, w)
      PROVE  IInv'
  BY <1>3, StartKeeps
<1>4. CASE UNCHANGED vars
  <2>1. /\ UNCHANGED <<writable, head, named, version, rows, lockfile, stamp, handle, pc, cmd>>
        /\ UNCHANGED <<wait, dir, conn, from, seen, promised, expect, overtook, split>>
    BY <1>4 DEF vars, environment, files, lock, process, history
  <2>2. TypeOK' /\ NamesDiffer' /\ OwnName' /\ OneDir' /\ Migrating'
    BY <2>1 DEF IInv, FileInv, TypeOK, NamesDiffer, OwnName, OneDir, Migrating
  <2>3. Overtaken' /\ InPlace' /\ Filled' /\ WritesOwnSchema' /\ PromiseKept'
    BY <2>1 DEF IInv, FileInv, Overtaken, InPlace, Filled, WritesOwnSchema, PromiseKept
  <2>4. LockInv'
    BY <2>1 DEF IInv, LockInv, OneHolder, OneLockfile, OnPath
  <2>. QED
    BY <2>2, <2>3, <2>4 DEF IInv, FileInv
<1>. QED
  BY <1>1, <1>2, <1>3, <1>4, KillKeeps DEF Next

LEMMA Inductive == Spec => []IInv
<1>. QED
  BY InitIInv, NextKeeps, PTL DEF Spec

(* Type correctness: a process has a database open, and a lockfile, in     *)
(* exactly the stages of the code that use one (lock.rs:129-226).          *)
THEOREM TypeCorrect == Spec => []TypeOK
<1>1. IInv => TypeOK
  BY DEF IInv
<1>. QED
  BY <1>1, Inductive, PTL

(* A run writes to a database of exactly its own schema, whatever other    *)
(* binaries do to the name (migrations/mod.rs:15, :97), while no two       *)
(* lockfiles of the directory are open: that the lock is exclusive then    *)
(* follows from the steps of acquire and Drop, the gap of a rebuild        *)
(* included.                                                               *)
THEOREM OwnSchema == Spec => []WritesOwnSchema
<1>1. IInv => WritesOwnSchema
  BY DEF IInv, FileInv
<1>. QED
  BY <1>1, Inductive, PTL

(* What a run reported stays in the file with the name until a rebuild     *)
(* deletes it, also when the lock splits later; but for runs that took the *)
(* lock in the gap of a rebuild (indexer.rs:262-292) or of a split one.    *)
THEOREM ReportsLast == Spec => []PromiseKept
<1>1. IInv => PromiseKept
  BY DEF IInv, FileInv
<1>. QED
  BY <1>1, Inductive, PTL

-----------------------------------------------------------------------------
(* What readers find.                                                      *)

(* Every binary has the migration that adds is_bot, which identities reads *)
(* (NeededVersion).                                                        *)
HaveIsBot == \A p \in Proc : Latest[p] >= 2

(* A file in a schema that every reader can read, and that nobody is about *)
(* to migrate from an older one: under a split lock two may migrate it.    *)
Settled(f) ==
    /\ version[f] >= 2
    /\ \A p \in Proc : pc[p] = "migrate" /\ conn[p] = f => from[p] >= 2

(* The file has n heads of rows, and stays readable.                       *)
Serves(f, n) == f # NoFile /\ rows[f] >= n /\ Settled(f)

(* Whatever is promised is in such a file.                                 *)
Schemas == \A d \in Dir : promised[d] > 0 => Settled(named[d])

(* Where a reader that was promised rows still finds them.                 *)
Reading(p) ==
    /\ cmd[p] \in Readers /\ said[p].result = "none"
    /\ \/ pc[p] = "resolve" /\ Serves(named[Location("index")], expect[p])
       \/ /\ pc[p] \in {"exists", "attach"} /\ dir[p] = Location("index")
          /\ Serves(named[dir[p]], expect[p])
       \/ pc[p] \in {"check", "read"} /\ Serves(conn[p], expect[p])

Answered(p) ==
    said[p].result \notin {"none", "schema_version_too_new"} =>
        said[p].result = "rows" /\ said[p].rows >= expect[p]

Serving(p) == expect[p] > 0 => IF pc[p] = "idle" THEN Answered(p) ELSE Reading(p)

AInv == DOMAIN said = Proc /\ Schemas /\ \A p \in Proc : Serving(p)

(* No file that has a name or is held open loses rows or becomes           *)
(* unreadable, and no name is taken from a file.                           *)
Improves ==
    /\ \A f \in File : ~Unused(f) => rows'[f] >= rows[f] /\ (Settled(f) => Settled(f)')
    /\ \A d \in Dir : named[d] # NoFile => named'[d] = named[d]

LEMMA SameFilesImprove ==
  ASSUME IInv, UNCHANGED files,
         \A q \in Proc : pc'[q] = "migrate" =>
           \/ pc[q] = "migrate" /\ UNCHANGED <<conn[q], from[q]>>
           \/ conn'[q] = conn[q] /\ from'[q] = version[conn[q]]
  PROVE  Improves
BY DEF IInv, TypeOK, Improves, Settled, files

LEMMA QuietStepImproves ==
  ASSUME IInv, NEW p \in Proc, UNCHANGED files, pc'[p] # "migrate",
         \A q \in Proc \ {p} : UNCHANGED <<pc[q], conn[q], from[q]>>
  PROVE  Improves
BY SameFilesImprove

(* A promise that is left alone stays one of a schema that readers know.   *)
LEMMA SchemasStay ==
  ASSUME IInv, IInv', Schemas, Improves, UNCHANGED promised
  PROVE  Schemas'
<1> SUFFICES ASSUME NEW d \in Dir, promised[d] > 0
             PROVE  Settled(named[d])'
  BY DEF Schemas
<1>1. named[d] \in File /\ named'[d] = named[d]
  BY DEF IInv, FileInv, TypeOK, PromiseKept, Improves
<1>2. ~Unused(named[d])
  BY DEF Unused
<1>3. Settled(named[d])'
  BY <1>1, <1>2 DEF Improves, Schemas
<1>. QED
  BY <1>1, <1>3 DEF Settled

(* A reader that others leave alone still finds what it was promised.      *)
LEMMA OthersServed ==
  ASSUME IInv, IInv', NEW q \in Proc, Serving(q), Improves, UNCHANGED writable,
         UNCHANGED <<pc[q], cmd[q], dir[q], conn[q], said[q], expect[q]>>
  PROVE  Serving(q)'
<1> SUFFICES ASSUME expect[q] > 0, pc[q] # "idle"
             PROVE  Reading(q)'
  BY DEF Serving, Answered
<1>1. Reading(q)
  BY DEF Serving
<1>2. ASSUME NEW f, f \in File, ~Unused(f), Serves(f, expect[q])
      PROVE  Serves(f, expect[q])'
  <2>1. rows[f] \in Nat /\ rows'[f] \in Nat /\ expect[q] \in Nat
    BY <1>2, BoundAssumption DEF IInv, TypeOK
  <2>. QED
    BY <1>2, <2>1 DEF Improves, Serves
<1>3. \A d \in Dir : Serves(named[d], expect[q]) =>
        Serves(named[d], expect[q])' /\ named'[d] = named[d]
  <2> SUFFICES ASSUME NEW d \in Dir, Serves(named[d], expect[q])
               PROVE  Serves(named[d], expect[q])' /\ named'[d] = named[d]
    OBVIOUS
  <2>1. named[d] \in File /\ ~Unused(named[d]) /\ named'[d] = named[d]
    BY DEF IInv, TypeOK, Serves, Unused, Improves
  <2>. QED
    BY <1>2, <2>1
<1>4. Serves(conn[q], expect[q]) => Serves(conn[q], expect[q])'
  <2> SUFFICES ASSUME Serves(conn[q], expect[q])
               PROVE  Serves(conn[q], expect[q])'
    OBVIOUS
  <2>1. conn[q] \in File /\ ~Unused(conn[q])
    BY DEF IInv, TypeOK, Serves, Unused
  <2>. QED
    BY <1>2, <2>1
<1>5. Location("index")' = Location("index") /\ Location("index") \in Dir /\ dir[q] \in Dir
  BY DEF Location, IInv, TypeOK
<1>. QED
  BY <1>1, <1>3, <1>4, <1>5 DEF Reading

(* A step of one process that leaves promises and permissions alone.       *)
LEMMA StepServes ==
  ASSUME IInv, IInv', AInv, Improves, UNCHANGED <<writable, promised>>, NEW p \in Proc,
         Serving(p)', DOMAIN said' = Proc,
         \A q \in Proc \ {p} :
            UNCHANGED <<pc[q], cmd[q], dir[q], conn[q], said[q], expect[q]>>
  PROVE  AInv'
BY OthersServed, SchemasStay DEF AInv

(* A process that is no reader was promised nothing.                       *)
LEMMA WriterUnpromised ==
  ASSUME IInv, AInv, NEW p \in Proc,
         pc[p] \notin {"idle", "resolve", "exists", "attach", "check", "read"}
  PROVE  expect[p] = 0
<1>1. ~Reading(p)
  BY DEF Reading
<1>. QED
  BY <1>1, BoundAssumption DEF IInv, TypeOK, AInv, Serving

(* A reply to who was promised n rows.                                     *)
Meets(r, n) ==
    \/ r.result \in {"none", "schema_version_too_new"}
    \/ r.result = "rows" /\ r.rows >= n

(* A command that ends.                                                    *)
LEMMA EndServes ==
  ASSUME IInv, IInv', AInv, NEW p \in Proc, NEW r, End(p, r),
         UNCHANGED <<environment, files, promised, expect>>,
         expect[p] > 0 => Meets(r, expect[p])
  PROVE  AInv'
<1>2. /\ pc'[p] = "idle" /\ said'[p] = r /\ DOMAIN said' = Proc
      /\ \A q \in Proc \ {p} :
           UNCHANGED <<pc[q], cmd[q], dir[q], conn[q], from[q], said[q], expect[q]>>
  BY DEF End, Results, IInv, TypeOK, AInv
<1>1. Improves /\ UNCHANGED <<writable, promised>>
  BY <1>2, QuietStepImproves DEF environment
<1>3. Serving(p)'
  BY <1>2 DEF Serving, Answered, Meets
<1>. QED
  BY <1>1, <1>2, <1>3, StepServes

LEMMA EndsServes ==
  ASSUME IInv, IInv', AInv, NEW p \in Proc, NEW r, Ends(p, r),
         expect[p] > 0 => Meets(r, expect[p])
  PROVE  AInv'
BY EndServes DEF Ends

(* A step of a writer.                                                     *)
LEMMA WriterServes ==
  ASSUME IInv, IInv', AInv, NEW p \in Proc,
         pc[p] \notin {"idle", "resolve", "exists", "attach", "check", "read"},
         Improves, UNCHANGED <<writable, promised, expect, said>>,
         \A q \in Proc \ {p} : UNCHANGED <<pc[q], cmd[q], dir[q], conn[q]>>
  PROVE  AInv'
<1>1. Serving(p)'
  BY WriterUnpromised DEF Serving
<1>. QED
  BY <1>1, StepServes DEF AInv

LEMMA StartServes ==
  ASSUME IInv, IInv', AInv, NEW p \in Proc, NEW c \in Writers \cup Readers, NEW w \in BOOLEAN,
         Start(p, c, w)
  PROVE  AInv'
<1>1. Improves /\ UNCHANGED <<writable, promised, named, rows, version, conn, from>>
  BY QuietStepImproves DEF Start, environment, files, IInv, TypeOK
<1>2. /\ pc'[p] = "resolve" /\ cmd'[p] = c /\ said'[p] = NoReply /\ DOMAIN said' = Proc
      /\ expect'[p] = (IF c \in Readers THEN promised[Location("index")] ELSE 0)
      /\ \A q \in Proc \ {p} :
           UNCHANGED <<pc[q], cmd[q], dir[q], conn[q], said[q], expect[q]>>
  BY DEF Start, IInv, TypeOK, AInv
<1>3. Serving(p)'
  <2> SUFFICES ASSUME expect'[p] > 0
               PROVE  Reading(p)'
    BY <1>2 DEF Serving
  <2>1. c \in Readers /\ expect'[p] = promised[Location("index")]
    BY <1>2
  <2>2. Location("index")' = Location("index") /\ Location("index") \in Dir
    BY <1>1 DEF Location
  <2>3. Serves(named[Location("index")], expect'[p])
    <3>1. \A d \in Dir : promised[d] > 0 => Serves(named[d], promised[d])
      <4> SUFFICES ASSUME NEW d \in Dir, promised[d] > 0
                   PROVE  Serves(named[d], promised[d])
        OBVIOUS
      <4>1. promised[d] \in Nat
        BY BoundAssumption DEF IInv, TypeOK
      <4>2. named[d] # NoFile /\ rows[named[d]] >= promised[d]
        BY <4>1, BoundAssumption DEF IInv, FileInv, TypeOK, PromiseKept
      <4>. QED
        BY <4>2 DEF AInv, Schemas, Serves
    <3>. QED
      BY <1>2, <2>1, <2>2, <3>1
  <2>. QED
    <3>1. Serves(named[Location("index")], expect[p])'
      BY <1>1, <1>2, <2>2, <2>3 DEF Serves, Settled
    <3>. QED
      BY <1>2, <2>1, <2>2, <3>1 DEF Reading, NoReply
<1>. QED
  BY <1>1, <1>2, <1>3, StepServes

(* A reader asks for the directory that the run asked for.                 *)
LEMMA ResolveServes ==
  ASSUME IInv, IInv', AInv, NEW p \in Proc, Resolve(p)
  PROVE  AInv'
<1>0. pc'[p] \in {"lock", "attach", "exists"}
  BY DEF Resolve, IInv, TypeOK
<1>1. Improves /\ UNCHANGED <<writable, promised, named, rows, version, from>>
  BY <1>0, QuietStepImproves DEF Resolve, environment, files, IInv, TypeOK, environment, files
<1>2. /\ pc[p] = "resolve" /\ dir'[p] = Location("index")
      /\ UNCHANGED <<cmd, conn, said, expect>> /\ DOMAIN said' = Proc
      /\ \A q \in Proc \ {p} : UNCHANGED <<pc[q], dir[q]>>
  BY DEF Resolve, Keep, IInv, TypeOK, AInv, Location
<1>3. cmd[p] \in Readers => pc'[p] \in {"exists", "attach"}
  <2> SUFFICES ASSUME cmd[p] \in Readers
               PROVE  pc'[p] \in {"exists", "attach"}
    OBVIOUS
  <2>1. cmd[p] \notin Writers
    OBVIOUS
  <2>2. pc'[p] = CASE cmd[p] \in Writers -> "lock" [] cmd[p] = "search" -> "attach"
                   [] OTHER -> "exists"
    BY Zenon DEF Resolve, IInv, TypeOK
  <2>. QED
    BY <2>1, <2>2, Zenon
<1>4. Serving(p)'
  <2> SUFFICES ASSUME expect[p] > 0
               PROVE  Reading(p)'
    BY <1>2, <1>3 DEF Serving, Reading, AInv
  <2>1. /\ cmd[p] \in Readers /\ said[p].result = "none"
        /\ Serves(named[Location("index")], expect[p])
    BY <1>2 DEF AInv, Serving, Reading
  <2>2. Location("index")' = Location("index")
    BY <1>1 DEF Location
  <2>3. Settled(named[Location("index")])'
    BY <1>0, <1>1, <1>2, <2>1, <2>2 DEF Serves, Settled
  <2>. QED
    BY <1>1, <1>2, <1>3, <2>1, <2>2, <2>3 DEF Reading, Serves
<1>. QED
  BY <1>1, <1>2, <1>4, StepServes

(* A reader finds the file, a schema it can read, and the rows.            *)
LEMMA ReadServes ==
  ASSUME IInv, IInv', AInv, NEW p \in Proc, ReadStep(p)
  PROVE  AInv'
<1>1. expect[p] > 0 => Reading(p) /\ expect[p] \in Nat
  BY DEF ReadStep, FindsFile, FindsNone, Attach, AttachFails, CheckVersion, CheckFails, Read,
         Goto, AInv, Serving, IInv, TypeOK
<1>2. CASE FindsNone(p)
  <2>1. expect[p] = 0
    BY <1>1, <1>2, BoundAssumption DEF FindsNone, Reading, Serves, IInv, TypeOK
  <2>. QED
    BY <1>2, <2>1, EndsServes DEF FindsNone
<1>3. CASE AttachFails(p)
  <2>1. expect[p] = 0
    BY <1>1, <1>3, BoundAssumption
       DEF AttachFails, Reading, Serves, ReadOnly, Location, IInv, TypeOK
  <2>. QED
    BY <1>3, <2>1, EndsServes DEF AttachFails
<1>4. CASE CheckFails(p)
  <2>1. Meets(Failure("schema_version_too_new"), expect[p])
    <3>1. Failure("schema_version_too_new").result = "schema_version_too_new"
      BY DEF Failure
    <3>. QED
      BY <3>1, Zenon DEF Meets
  <2>. QED
    BY <1>4, <2>1, EndsServes DEF CheckFails
<1>5. CASE Read(p)
  <2>1. expect[p] > 0 => rows[conn[p]] >= expect[p] /\ version[conn[p]] >= 2 /\ conn[p] \in File
    BY <1>1, <1>5 DEF Read, Reading, Serves, Settled, IInv, TypeOK
  <2>2. expect[p] > 0 => ~(version[conn[p]] < NeededVersion(cmd[p]))
    BY <2>1 DEF NeededVersion, IInv, TypeOK
  <2>. QED
    BY <1>5, <2>1, <2>2, EndsServes DEF Read, Meets
<1>6. CASE FindsFile(p) \/ Attach(p) \/ CheckVersion(p)
  <2>1. UNCHANGED <<writable, promised, named, rows, version, from>>
    BY <1>6 DEF FindsFile, Attach, CheckVersion, environment, files
  <2>2. /\ UNCHANGED <<cmd, dir, said, expect>> /\ DOMAIN said' = Proc
        /\ \A q \in Proc \ {p} : UNCHANGED <<pc[q], conn[q]>>
    BY <1>6 DEF FindsFile, Attach, CheckVersion, Keep, Goto, IInv, TypeOK, AInv
  <2>3. \/ pc[p] = "exists" /\ pc'[p] = "attach"
        \/ pc[p] = "attach" /\ pc'[p] \in {"check", "read"} /\ conn'[p] = named[dir[p]]
        \/ pc[p] = "check" /\ pc'[p] = "read" /\ conn'[p] = conn[p]
    BY <1>6 DEF FindsFile, Attach, CheckVersion, Goto, IInv, TypeOK
  <2>4. Location("index")' = Location("index")
    BY <2>1 DEF Location
  <2>5. Improves
    BY <2>1, <2>2, <2>3, QuietStepImproves DEF files
  <2>6. \A f \in File : Settled(f) => Settled(f)'
    BY <2>1, <2>2, <2>3 DEF Settled
  <2>7. /\ named[dir[p]] \in File \cup {NoFile} /\ named[Location("index")] \in File \cup {NoFile}
        /\ conn[p] \in File \cup {NoFile}
    BY DEF IInv, TypeOK, Location
  <2>8. Serving(p)'
    BY <1>1, <2>1, <2>2, <2>3, <2>4, <2>6, <2>7 DEF Serving, Reading, Serves
  <2>. QED
    BY <2>1, <2>2, <2>5, <2>8, StepServes
<1>. QED
  BY <1>2, <1>3, <1>4, <1>5, <1>6 DEF ReadStep

-----------------------------------------------------------------------------
LEMMA OpenServes ==
  ASSUME IInv, IInv', AInv, NEW p \in Proc, OpenDatabase(p)
  PROVE  AInv'
<1>1. PICK f \in File :
        /\ conn' = [conn EXCEPT ![p] = f]
        /\ \/ named[dir[p]] = f /\ UNCHANGED files
           \/ /\ Unused(f) /\ named[dir[p]] = NoFile
              /\ named' = [named EXCEPT ![dir[p]] = f]
              /\ version' = [version EXCEPT ![f] = 0] /\ rows' = [rows EXCEPT ![f] = 0]
  BY DatabaseOpened
<1>2. /\ pc[p] = "open" /\ UNCHANGED <<writable, promised, expect, said, cmd, dir, from>>
      /\ pc'[p] = "version" /\ \A q \in Proc \ {p} : UNCHANGED <<pc[q], conn[q]>>
  BY <1>1 DEF OpenDatabase, Goto, Keep, environment, IInv, TypeOK
<1>3. Improves
  <2>1. CASE UNCHANGED files
    BY <1>2, <2>1, QuietStepImproves
  <2>2. CASE /\ Unused(f) /\ named[dir[p]] = NoFile
             /\ named' = [named EXCEPT ![dir[p]] = f]
             /\ version' = [version EXCEPT ![f] = 0] /\ rows' = [rows EXCEPT ![f] = 0]
    <3>1. \A g \in File : ~Unused(g) => rows'[g] = rows[g] /\ version'[g] = version[g]
      BY <2>2 DEF IInv, TypeOK
    <3>2. \A g \in File : ~Unused(g) /\ Settled(g) => Settled(g)'
      BY <1>2, <3>1 DEF Settled
    <3>3. \A d \in Dir : named[d] # NoFile => named'[d] = named[d]
      BY <2>2 DEF IInv, TypeOK
    <3>. QED
      BY <3>1, <3>2, <3>3 DEF Improves, IInv, TypeOK
  <2>. QED
    BY <1>1, <2>1, <2>2
<1>. QED
  BY <1>2, <1>3, WriterServes

(* A migration of a settled file leaves it settled.                        *)
LEMMA ApplyOneServes ==
  ASSUME IInv, IInv', AInv, NEW p \in Proc, ApplyOne(p)
  PROVE  AInv'
<1>1. pc[p] = "migrate" /\ from[p] \in Nat /\ conn[p] \in File
  BY DEF ApplyOne, IInv, TypeOK
<1>2. /\ from'[p] = from[p] + 1 /\ version' = [version EXCEPT ![conn[p]] = from'[p]]
      /\ \A q \in Proc \ {p} : from'[q] = from[q]
      /\ UNCHANGED <<named, rows, pc, conn>>
  BY DEF ApplyOne, Keep, IInv, TypeOK
<1>3. Improves
  <2>1. \A f \in File : Settled(f) => Settled(f)'
    <3> SUFFICES ASSUME NEW f \in File, Settled(f)
                 PROVE  Settled(f)'
      OBVIOUS
    <3>1. CASE f = conn[p]
      BY <1>1, <1>2, <3>1 DEF Settled, IInv, TypeOK
    <3>2. CASE f # conn[p]
      BY <1>1, <1>2, <3>2 DEF Settled, IInv, TypeOK
    <3>. QED
      BY <3>1, <3>2
  <2>. QED
    BY <1>2, <2>1 DEF Improves, IInv, TypeOK
<1>4. UNCHANGED <<writable, promised, expect, said, cmd, dir, pc, conn>>
  BY DEF ApplyOne, Keep, environment
<1>. QED
  BY <1>1, <1>3, <1>4, WriterServes

LEMMA PersistServes ==
  ASSUME IInv, IInv', AInv, NEW p \in Proc, Persist(p)
  PROVE  AInv'
<1>1. Improves
  <2>1. \A f \in File : rows'[f] >= rows[f]
    BY DEF Persist, IInv, TypeOK
  <2>2. \A f \in File : Settled(f) => Settled(f)'
    BY DEF Persist, Goto, Settled, IInv, TypeOK
  <2>. QED
    BY <2>1, <2>2 DEF Persist, Improves
<1>2. /\ pc[p] = "persist" /\ UNCHANGED <<writable, promised, expect, said, cmd, dir, conn>>
      /\ \A q \in Proc \ {p} : UNCHANGED pc[q]
  BY DEF Persist, Goto, Keep, environment, IInv, TypeOK
<1>. QED
  BY <1>1, <1>2, WriterServes

(* What a run promises has the schema of its binary.                       *)
LEMMA ReportServes ==
  ASSUME HaveIsBot, IInv, IInv', AInv, NEW p \in Proc, Report(p)
  PROVE  AInv'
<1>1. UNCHANGED <<writable, expect, named, version, rows>>
  BY DEF Report, Leave, environment, files
<1>2. /\ pc[p] = "report" /\ pc'[p] = "quit" /\ dir[p] \in Dir /\ DOMAIN said' = Proc
      /\ \A q \in Proc \ {p} : UNCHANGED <<pc[q], cmd[q], dir[q], conn[q], from[q], said[q]>>
  BY DEF Report, Leave, Results, IInv, TypeOK, AInv
<1>3. Improves
  BY <1>1, <1>2, QuietStepImproves DEF files
<1>4. \A f \in File : Settled(f) => Settled(f)'
  BY <1>1, <1>2 DEF Settled
<1>5. ~overtook[p] /\ ~split[dir[p]] => Settled(named[dir[p]])
  <2> SUFFICES ASSUME ~overtook[p], ~split[dir[p]]
               PROVE  Settled(named[dir[p]])
    OBVIOUS
  <2>1. named[dir[p]] = conn[p] /\ version[conn[p]] >= 2
    BY <1>2 DEF IInv, FileInv, WritesOwnSchema, InPlace, HaveIsBot
  <2>2. \A q \in Proc : pc[q] = "migrate" => conn[q] # conn[p]
    <3> SUFFICES ASSUME NEW q \in Proc, pc[q] = "migrate", conn[q] = conn[p]
                 PROVE  FALSE
      OBVIOUS
    <3>1. q = p
      BY <1>2, Apart
    <3>. QED
      BY <1>2, <3>1
  <2>. QED
    BY <2>1, <2>2 DEF Settled
<1>6. Schemas'
  <2>1. promised' = IF overtook[p] \/ split[dir[p]] THEN promised
                    ELSE [promised EXCEPT ![dir[p]] = seen[p]]
    BY DEF Report
  <2>2. DOMAIN promised = Dir
    BY DEF IInv, TypeOK
  <2>3. \A d \in Dir : promised'[d] > 0 => named[d] \in File /\ Settled(named[d])
    <3>1. \A d \in Dir : promised'[d] > 0 => named[d] \in File
      BY <1>1, BoundAssumption DEF IInv, FileInv, TypeOK, PromiseKept
    <3>. QED
      BY <1>2, <1>5, <2>1, <2>2, <3>1 DEF AInv, Schemas
  <2>. QED
    BY <1>1, <1>4, <2>3 DEF Schemas, Settled
<1>7. Serving(p)'
  BY <1>1, <1>2, WriterUnpromised DEF Serving
<1>8. \A q \in Proc \ {p} : Serving(q)'
  BY <1>1, <1>2, <1>3, OthersServed DEF AInv
<1>. QED
  BY <1>2, <1>6, <1>7, <1>8 DEF AInv

(* A rebuild that deletes the file takes back what was promised.           *)
LEMMA UnlinkServes ==
  ASSUME IInv, AInv, NEW p \in Proc, Unlink(p)
  PROVE  AInv'
<1>1. \A q \in Proc : expect'[q] = 0
  BY DEF Unlink
<1>2. Schemas'
  <2>1. /\ pc'[p] = "lock" /\ \A q \in Proc \ {p} : pc'[q] = pc[q]
        /\ \A d \in Dir \ {dir[p]} : named'[d] = named[d] /\ promised'[d] = promised[d]
        /\ promised'[dir[p]] = 0 /\ UNCHANGED <<version, conn, from>>
    BY DEF Unlink, Goto, IInv, TypeOK
  <2>2. \A d \in Dir \ {dir[p]} : promised[d] > 0 => Settled(named[d])'
    BY <2>1 DEF AInv, Schemas, Settled
  <2>. QED
    BY <2>1, <2>2 DEF Schemas, Settled
<1>. QED
  BY <1>1, <1>2 DEF AInv, Serving, Unlink

(* A writer that drops its guard has its reply already, and was promised   *)
(* nothing.                                                                *)
LEMMA LeavesServes ==
  ASSUME IInv, IInv', AInv, NEW p \in Proc, NEW r, Leaves(p, r), pc[p] \in Holders
  PROVE  AInv'
<1>1. /\ pc'[p] = "quit" /\ DOMAIN said' = Proc /\ expect' = expect
      /\ UNCHANGED <<writable, promised>> /\ UNCHANGED files
      /\ \A q \in Proc \ {p} :
           UNCHANGED <<pc[q], cmd[q], dir[q], conn[q], from[q], said[q], expect[q]>>
  BY DEF Leaves, Leave, Results, environment, IInv, TypeOK, AInv
<1>2. Improves
  BY <1>1, QuietStepImproves
<1>3. Serving(p)'
  BY <1>1, WriterUnpromised DEF Serving
<1>. QED
  BY <1>1, <1>2, <1>3, StepServes

(* The steps of a writer that change no file, or a lockfile only.          *)
LEMMA MovingServes ==
  ASSUME IInv, IInv', AInv, NEW p \in Proc,
         \/ OpenLock(p) \/ Grant(p) \/ WouldBlock(p) \/ Probe(p) \/ Reclaim(p) \/ Stamp(p)
         \/ ReadVersion(p) \/ Migrated(p) \/ LetGo(p) \/ Free(p) \/ Walk(p)
  PROVE  AInv'
<1>1. CASE ReadVersion(p)
  <2>1. /\ pc[p] = "version" /\ UNCHANGED files
        /\ UNCHANGED <<writable, promised, expect, said, dir, conn, cmd>>
        /\ from'[p] = version[conn[p]]
        /\ \A q \in Proc \ {p} : UNCHANGED <<pc[q], from[q]>>
    BY <1>1 DEF ReadVersion, Goto, Keep, environment, IInv, TypeOK
  <2>. QED
    BY <2>1, SameFilesImprove, WriterServes
<1>2. CASE \/ OpenLock(p) \/ Grant(p) \/ WouldBlock(p) \/ Probe(p) \/ Reclaim(p) \/ Stamp(p)
           \/ Migrated(p) \/ LetGo(p) \/ Free(p) \/ Walk(p)
  <2>1. UNCHANGED files /\ UNCHANGED <<writable, promised, expect, said, dir, cmd>>
    BY <1>2 DEF OpenLock, Grant, WouldBlock, Probe, Reclaim, Stamp, Migrated, LetGo, Free, Walk,
                Keep, environment
  <2>2. /\ pc[p] \notin {"idle", "resolve", "exists", "attach", "check", "read"}
        /\ pc'[p] # "migrate" /\ \A q \in Proc \ {p} : pc'[q] = pc[q]
    BY <1>2 DEF OpenLock, Grant, WouldBlock, Probe, Reclaim, Stamp, Migrated, LetGo, Free, Walk,
                Goto, IInv, TypeOK
  <2>3. \A q \in Proc \ {p} : UNCHANGED <<conn[q], from[q]>>
    BY <1>2 DEF OpenLock, Grant, WouldBlock, Probe, Reclaim, Stamp, Migrated, LetGo, Free, Walk,
                IInv, TypeOK
  <2>. QED
    BY <2>1, <2>2, <2>3, QuietStepImproves, WriterServes
<1>. QED
  BY <1>1, <1>2

LEMMA WritingServes ==
  ASSUME HaveIsBot, IInv, IInv', AInv, NEW p \in Proc,
         LockStep(p) \/ OpenStep(p) \/ RebuildStep(p) \/ RunStep(p)
  PROVE  AInv'
<1>1. CASE Contention(p) \/ ReclaimFails(p)
  <2>1. expect[p] = 0
    BY <1>1, WriterUnpromised DEF Contention, ReclaimFails
  <2>. QED
    BY <1>1, <2>1, EndsServes DEF Contention, ReclaimFails
<1>2. CASE Denied(p)
  <2>1. expect[p] = 0
    BY <1>2, WriterUnpromised DEF Denied
  <2>. QED
    BY <1>2, <2>1, EndsServes, LeavesServes DEF Denied
<1>3. CASE TooNew(p) \/ Plan(p)
  BY <1>3, LeavesServes DEF TooNew, Plan
<1>4. CASE Quit(p)
  <2>1. expect[p] = 0
    BY <1>4, WriterUnpromised DEF Quit
  <2>2. End(p, said[p]) /\ UNCHANGED <<environment, files, promised, expect>>
    BY <1>4 DEF Quit
  <2>. QED
    BY <2>1, <2>2, EndServes
<1>. QED
  BY <1>1, <1>2, <1>3, <1>4, MovingServes, ResolveServes, OpenServes, ApplyOneServes,
     PersistServes, ReportServes, UnlinkServes
     DEF LockStep, OpenStep, RebuildStep, RunStep

LEMMA UserServes ==
  ASSUME IInv, IInv', AInv, Commit \/ Flip \/ UNCHANGED vars
  PROVE  AInv'
<1>1. UNCHANGED files /\ UNCHANGED <<pc, cmd, dir, conn, from, said, promised>>
  BY DEF Commit, Flip, vars, history, process
<1>2. Schemas' /\ DOMAIN said' = Proc
  BY <1>1 DEF AInv, Schemas, Settled, files
<1>3. CASE Flip
  BY <1>2, <1>3 DEF Flip, AInv, Serving
<1>4. CASE Commit \/ UNCHANGED vars
  <2>1. UNCHANGED <<writable, expect>>
    BY <1>4 DEF Commit, vars, history, environment
  <2>. QED
    BY <1>1, <1>2, <2>1, SameFilesImprove, OthersServed DEF AInv
<1>. QED
  BY <1>3, <1>4

LEMMA NextServes ==
  ASSUME HaveIsBot, IInv, IInv', AInv, [Next]_vars
  PROVE  AInv'
<1>1. ASSUME NEW p \in Proc, Kill(p)
      PROVE  AInv'
  <2>1. Meets(NoReply, expect[p])
    <3>1. NoReply.result = "none"
      BY DEF NoReply
    <3>. QED
      BY <3>1, Zenon DEF Meets
  <2>2. End(p, NoReply) /\ UNCHANGED <<environment, files, promised, expect>>
    BY <1>1 DEF Kill
  <2>. QED
    BY <2>1, <2>2, EndServes
<1>. QED
  BY <1>1, UserServes, StartServes, WritingServes, ReadServes DEF Next, Step

(* The directory, the file and the schema that a reader looks at are those *)
(* that the last successful run left (storage.rs:84, status.rs,            *)
(* conn_pool.rs), whatever other binaries open, migrate and fill           *)
(* meanwhile. Binaries from before migration 0002 are left out: what they  *)
(* index, identities of a later binary cannot read.                        *)
THEOREM AnswersLast ==
  ASSUME HaveIsBot
  PROVE  Spec => []AnswersKeepPromise
<1>1. Init => AInv
  BY DEF Init, AInv, Schemas, Serving
<1>2. IInv /\ IInv' /\ AInv /\ [Next]_vars => AInv'
  BY NextServes
<1>3. AInv => AnswersKeepPromise
  BY DEF AInv, AnswersKeepPromise, Serving, Reading, Answered
<1>. QED
  BY <1>1, <1>2, <1>3, Inductive, PTL DEF Spec
=============================================================================
