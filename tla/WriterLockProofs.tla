-------------------------- MODULE WriterLockProofs --------------------------
(***************************************************************************)
(* Proofs about WriterLock, for any set of processes and inodes and any    *)
(* setting of the three flags.                                             *)
(***************************************************************************)
EXTENDS WriterLock, TLAPS

(* The pcs at which acquire or the guard has the lockfile open.            *)
FileOpenAt == {"try", "parse", "probe", "retry", "block",
               "truncate", "write", "held", "remove"}

OpenFiles == \A p \in Proc : file[p] # NoInode <=> pc[p] \in FileOpenAt

(* A process that never ran owns nothing, so that it may start.            *)
NewOwnsNothing == \A p \in Proc, i \in Inode : pc[p] = "new" => owner[i] # p

(* Until a remove_file hits a file in use, every open file is at the path. *)
OnPath == ~split => \A p \in Proc : file[p] # NoInode => file[p] = link

IInv ==
  /\ TypeOK
  /\ OpenFiles
  /\ OwnerIsHolder
  /\ NewOwnsNothing
  /\ OnPath

-----------------------------------------------------------------------------
LEMMA InitIInv == Init => IInv
<1> SUFFICES ASSUME Init
             PROVE  IInv
  OBVIOUS
<1> USE DEF Init
<1>1. TypeOK
  BY DEF TypeOK, Location, Mode, Reply
<1>2. OpenFiles
  BY DEF OpenFiles, FileOpenAt
<1>3. OwnerIsHolder
  BY DEF OwnerIsHolder, Holding
<1>4. NewOwnsNothing
  BY ProcAssumption DEF NewOwnsNothing
<1>5. OnPath
  BY DEF OnPath
<1>. QED
  BY <1>1, <1>2, <1>3, <1>4, <1>5 DEF IInv

LEMMA NextTypeOK == TypeOK /\ [Next]_vars => TypeOK'
<1> SUFFICES ASSUME TypeOK, [Next]_vars
             PROVE  TypeOK'
  OBVIOUS
<1> USE FlagAssumption DEF TypeOK, Location, Mode, Reply
<1>1. ASSUME NEW p \in Proc, NEW m \in Mode, Start(p, m)
      PROVE  TypeOK'
  BY <1>1 DEF Start
<1>2. ASSUME NEW p \in Proc, Open(p)
      PROVE  TypeOK'
  BY <1>2 DEF Open, OpenLockfile, Goto
<1>3. ASSUME NEW p \in Proc, TryLock(p)
      PROVE  TypeOK'
  BY <1>3 DEF TryLock, Grant, Goto
<1>4. ASSUME NEW p \in Proc, ParseNoWait(p)
      PROVE  TypeOK'
  BY <1>4 DEF ParseNoWait, Fail, Goto
<1>5. ASSUME NEW p \in Proc, ParseWait(p)
      PROVE  TypeOK'
  BY <1>5 DEF ParseWait, Recorded, Goto
<1>6. ASSUME NEW p \in Proc, Probe(p)
      PROVE  TypeOK'
  BY <1>6 DEF Probe, Goto
<1>7. ASSUME NEW p \in Proc, Unlink(p)
      PROVE  TypeOK'
  BY <1>7 DEF Unlink, RemovePath, Fail, Goto
<1>8. ASSUME NEW p \in Proc, Reopen(p)
      PROVE  TypeOK'
  BY <1>8 DEF Reopen, OpenLockfile, Goto
<1>9. ASSUME NEW p \in Proc, Retry(p)
      PROVE  TypeOK'
  BY <1>9 DEF Retry, Grant, Fail, Goto
<1>10. ASSUME NEW p \in Proc, Block(p)
       PROVE  TypeOK'
  BY <1>10 DEF Block, Grant, Goto
<1>11. ASSUME NEW p \in Proc, Truncate(p) \/ Write(p)
       PROVE  TypeOK'
  BY <1>11 DEF Truncate, Write, Goto
<1>12. ASSUME NEW p \in Proc, StampFails(p) \/ Unlock(p)
       PROVE  TypeOK'
  BY <1>12 DEF StampFails, Unlock, Release
<1>13. ASSUME NEW p \in Proc, Remove(p)
       PROVE  TypeOK'
  BY <1>13 DEF Remove, RemovePath, Goto
<1>14. ASSUME NEW p \in Proc, Terminate(p)
       PROVE  TypeOK'
  BY <1>14 DEF Terminate
<1>15. ASSUME NEW i \in Inode, KernelRelease(i)
       PROVE  TypeOK'
  BY <1>15 DEF KernelRelease
<1>16. CASE UNCHANGED vars
  BY <1>16 DEF vars
<1>. QED
  BY <1>1, <1>2, <1>3, <1>4, <1>5, <1>6, <1>7, <1>8, <1>9, <1>10, <1>11, <1>12,
     <1>13, <1>14, <1>15, <1>16 DEF Next, AcquireStep, DropStep

(* Every variable of the lock keeps its type.                              *)
THEOREM TypeCorrect == Spec => []TypeOK
<1>1. Init => TypeOK
  BY InitIInv DEF IInv
<1>. QED
  BY <1>1, NextTypeOK, PTL DEF Spec

-----------------------------------------------------------------------------
(* Where the path and the open files go. An action that neither opens nor  *)
(* closes a file, nor touches the path, keeps OnPath.                      *)
LEMMA NextOnPath == IInv /\ [Next]_vars => OnPath'
<1> SUFFICES ASSUME IInv, [Next]_vars
             PROVE  OnPath'
  OBVIOUS
<1> USE DEF IInv, TypeOK, OnPath
<1>1. ASSUME NEW p \in Proc, Open(p) \/ Reopen(p)
      PROVE  OnPath'
  BY <1>1, InodeAssumption DEF Open, Reopen, OpenLockfile
<1>2. ASSUME NEW p \in Proc, ParseNoWait(p) \/ Retry(p)
      PROVE  OnPath'
  BY <1>2 DEF ParseNoWait, Retry, Fail
<1>3. ASSUME NEW p \in Proc, Probe(p)
      PROVE  OnPath'
  BY <1>3 DEF Probe
<1>4. ASSUME NEW p \in Proc, Unlink(p)
      PROVE  OnPath'
  <2>1. file[p] = NoInode
    BY <1>4 DEF Unlink, Goto, OpenFiles, FileOpenAt
  <2>. QED
    BY <1>4, <2>1 DEF Unlink, RemovePath, Fail
<1>5. ASSUME NEW p \in Proc, Remove(p)
      PROVE  OnPath'
  BY <1>5 DEF Remove, RemovePath
<1>6. ASSUME NEW p \in Proc, Terminate(p)
      PROVE  OnPath'
  BY <1>6 DEF Terminate
<1>7. ASSUME UNCHANGED <<file, link, split>>
      PROVE  OnPath'
  BY <1>7
<1>8. ASSUME NEW p \in Proc, NEW m \in Mode,
             \/ Start(p, m) \/ TryLock(p) \/ ParseWait(p) \/ Block(p) \/ Truncate(p)
             \/ Write(p) \/ StampFails(p) \/ Unlock(p)
      PROVE  UNCHANGED <<file, link, split>>
  BY <1>8 DEF Start, TryLock, ParseWait, Block, Truncate, Write, StampFails, Unlock
<1>9. ASSUME NEW i \in Inode, KernelRelease(i)
      PROVE  UNCHANGED <<file, link, split>>
  BY <1>9 DEF KernelRelease
<1>. QED
  BY <1>1, <1>2, <1>3, <1>4, <1>5, <1>6, <1>7, <1>8, <1>9
     DEF Next, AcquireStep, DropStep, vars, Mode

(* Which process has a file open is a function of its pc.                  *)
LEMMA NextOpenFiles == IInv /\ [Next]_vars => OpenFiles'
<1> SUFFICES ASSUME IInv, [Next]_vars
             PROVE  OpenFiles'
  OBVIOUS
<1> USE InodeAssumption DEF IInv, TypeOK, OpenFiles, FileOpenAt
<1>1. ASSUME NEW p \in Proc, NEW m \in Mode, Start(p, m)
      PROVE  OpenFiles'
  BY <1>1 DEF Start
<1>2. ASSUME NEW p \in Proc, Open(p) \/ Reopen(p)
      PROVE  OpenFiles'
  BY <1>2 DEF Open, Reopen, OpenLockfile, Goto
<1>3. ASSUME NEW p \in Proc, TryLock(p) \/ Block(p) \/ Truncate(p) \/ Write(p)
      PROVE  OpenFiles'
  BY <1>3 DEF TryLock, Block, Truncate, Write, Goto
<1>4. ASSUME NEW p \in Proc, ParseNoWait(p) \/ ParseWait(p)
      PROVE  OpenFiles'
  BY <1>4 DEF ParseNoWait, ParseWait, Fail, Goto
<1>5. ASSUME NEW p \in Proc, Probe(p)
      PROVE  OpenFiles'
  BY <1>5 DEF Probe, Goto
<1>6. ASSUME NEW p \in Proc, Unlink(p) \/ Retry(p)
      PROVE  OpenFiles'
  BY <1>6 DEF Unlink, Retry, Fail, Goto
<1>7. ASSUME NEW p \in Proc, StampFails(p) \/ Unlock(p)
      PROVE  OpenFiles'
  BY <1>7 DEF StampFails, Unlock, Release
<1>8. ASSUME NEW p \in Proc, Remove(p) \/ Terminate(p)
      PROVE  OpenFiles'
  BY <1>8 DEF Remove, Terminate, Goto
<1>9. ASSUME NEW i \in Inode, KernelRelease(i)
      PROVE  OpenFiles'
  BY <1>9 DEF KernelRelease
<1>10. CASE UNCHANGED vars
  BY <1>10 DEF vars
<1>. QED
  BY <1>1, <1>2, <1>3, <1>4, <1>5, <1>6, <1>7, <1>8, <1>9, <1>10
     DEF Next, AcquireStep, DropStep

(* Only a holder gains a flock, on the one file it has open.               *)
LEMMA NextOwnerIsHolder ==
  IInv /\ [Next]_vars => OwnerIsHolder' /\ NewOwnsNothing'
<1> SUFFICES ASSUME IInv, [Next]_vars
             PROVE  OwnerIsHolder' /\ NewOwnsNothing'
  OBVIOUS
<1> DEFINE Goal == OwnerIsHolder /\ NewOwnsNothing
<1> USE ProcAssumption, InodeAssumption
    DEF IInv, TypeOK, OwnerIsHolder, NewOwnsNothing, Holding, Alive
<1>1. ASSUME NEW p \in Proc, NEW m \in Mode, Start(p, m)
      PROVE  Goal'
  BY <1>1 DEF Start
<1>2. ASSUME NEW p \in Proc, Open(p) \/ Reopen(p)
      PROVE  Goal'
  BY <1>2 DEF Open, Reopen, OpenLockfile, Goto
<1>3. ASSUME NEW p \in Proc, TryLock(p)
      PROVE  Goal'
  BY <1>3 DEF TryLock, Grant, Goto, OpenFiles, FileOpenAt
<1>4. ASSUME NEW p \in Proc, Block(p)
      PROVE  Goal'
  BY <1>4 DEF Block, Grant, Goto, OpenFiles, FileOpenAt
<1>5. ASSUME NEW p \in Proc, Retry(p)
      PROVE  Goal'
  BY <1>5 DEF Retry, Grant, Fail, Goto, OpenFiles, FileOpenAt
<1>6. ASSUME NEW p \in Proc, ParseNoWait(p) \/ ParseWait(p)
      PROVE  Goal'
  BY <1>6 DEF ParseNoWait, ParseWait, Fail, Goto
<1>7. ASSUME NEW p \in Proc, Probe(p)
      PROVE  Goal'
  BY <1>7 DEF Probe, Goto
<1>8. ASSUME NEW p \in Proc, Unlink(p)
      PROVE  Goal'
  BY <1>8 DEF Unlink, Fail, Goto
<1>9. ASSUME NEW p \in Proc, Truncate(p) \/ Write(p)
      PROVE  Goal'
  BY <1>9 DEF Truncate, Write, Goto
<1>10. ASSUME NEW p \in Proc, StampFails(p) \/ Unlock(p)
       PROVE  Goal'
  BY <1>10 DEF StampFails, Unlock, Release
<1>11. ASSUME NEW p \in Proc, Remove(p)
       PROVE  Goal'
  BY <1>11 DEF Remove, Goto
<1>12. ASSUME NEW p \in Proc, Terminate(p)
       PROVE  Goal'
  BY <1>12 DEF Terminate
<1>13. ASSUME NEW i \in Inode, KernelRelease(i)
       PROVE  Goal'
  BY <1>13 DEF KernelRelease
<1>14. CASE UNCHANGED vars
  BY <1>14 DEF vars
<1>. QED
  BY <1>1, <1>2, <1>3, <1>4, <1>5, <1>6, <1>7, <1>8, <1>9, <1>10, <1>11, <1>12,
     <1>13, <1>14 DEF Next, AcquireStep, DropStep

LEMMA Inductive == Spec => []IInv
<1>1. IInv /\ [Next]_vars => IInv'
  BY NextTypeOK, NextOpenFiles, NextOwnerIsHolder, NextOnPath DEF IInv
<1>. QED
  BY InitIInv, <1>1, PTL DEF Spec

-----------------------------------------------------------------------------
(* No flock leaks or is shared: whatever way acquire returned or Drop went, *)
(* a live owner of a flock is a holder with that very file open.           *)
THEOREM NoLockLeak == Spec => []OwnerIsHolder
<1>1. IInv => OwnerIsHolder
  BY DEF IInv
<1>. QED
  BY <1>1, Inductive, PTL

(* Two writers at a time need a remove_file that hit a file in use: as     *)
(* long as none did, the lock excludes, for any number of processes.       *)
THEOREM ExclusionUnlessSplit == Spec => []ExclusiveUnlessSplit
<1>1. IInv => ExclusiveUnlessSplit
  BY DEF IInv, OwnerIsHolder, OnPath, ExclusiveUnlessSplit, MutualExclusion
<1>. QED
  BY <1>1, Inductive, PTL
=============================================================================
