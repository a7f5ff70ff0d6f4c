----------------------------- MODULE WriterLock -----------------------------
(***************************************************************************)
(* The writer lock of gitlore-core/src/index/lock.rs: an advisory flock    *)
(* on the file <index-dir>/index.lock, whose body holds the PID of the     *)
(* process that stamped it last.                                           *)
(*                                                                         *)
(* flock locks an inode, while `acquire`, the stale-PID reclaim and `Drop` *)
(* also create, read and remove the PATH, so the two are kept apart:       *)
(* `link` is the inode the path names now, `file` the inode each process   *)
(* has open, and `owner` and `payload` are state of inodes.                *)
(***************************************************************************)
EXTENDS Naturals, FiniteSets

CONSTANTS
  Proc,               \* PIDs of the processes that open the index for writing
  Inode,              \* inodes the file system hands out and recycles; as many
                      \* as processes are enough
  NoProc, NoInode,    \* absence of a PID, of an inode
  Reentrant,          \* TRUE: a process may acquire again after it dropped
                      \* its guard (Indexer::rebuild does)
  PidReuse,           \* TRUE: the kernel may give a dead PID to a new process
  FlockOutlivesCrash  \* TRUE: the kernel may release a dead process's lock
                      \* late (lock.rs names macOS)

ASSUME ProcAssumption == NoProc \notin Proc
ASSUME InodeAssumption == NoInode \notin Inode
ASSUME FlagAssumption == {Reentrant, PidReuse, FlockOutlivesCrash} \subseteq BOOLEAN

VARIABLES
  pc,       \* where each process is in acquire / critical section / Drop
  mode,     \* LockMode of the call in progress
  file,     \* inode behind the File handle, NoInode when none is open
  seen,     \* PID that parse_lockfile returned to this call
  reply,    \* what the last acquire returned
  link,     \* inode that the path of the lockfile names
  owner,    \* inode -> process that holds its flock
  payload,  \* inode -> PID in its body, NoProc when empty or malformed
  split     \* history: some remove_file took the path away from a file that
            \* another live process had open

vars == <<pc, mode, file, seen, reply, link, owner, payload, split>>

Mode == {"Wait", "NoWait"}
Reply == {"none", "ok", "contention", "would_block", "enoent", "io"}
Location == {"new", "open", "try", "parse", "probe", "unlink", "reopen", "retry",
             "block", "truncate", "write", "held", "remove", "idle", "dead"}

(* Between the grant of the flock and its release a process owns the lock. *)
Holding(p) == pc[p] \in {"truncate", "write", "held"}

(* kill(pid, None) finds a process. *)
Alive(p) == pc[p] \notin {"new", "dead"}

-----------------------------------------------------------------------------
Init ==
  /\ pc = [p \in Proc |-> "new"]
  /\ mode = [p \in Proc |-> "Wait"]
  /\ file = [p \in Proc |-> NoInode]
  /\ seen = [p \in Proc |-> NoProc]
  /\ reply = [p \in Proc |-> "none"]
  /\ link = NoInode
  /\ owner = [i \in Inode |-> NoProc]
  /\ payload = [i \in Inode |-> NoProc]
  /\ split = FALSE

Goto(p, from, to) ==
  /\ pc[p] = from
  /\ pc' = [pc EXCEPT ![p] = to]

(* The call of process p returns an error: its File handle is closed. The  *)
(* PID and time that LockContention carries for display are left out.      *)
Fail(p, error) ==
  /\ reply' = [reply EXCEPT ![p] = error]
  /\ file' = [file EXCEPT ![p] = NoInode]

(* acquire(path, mode) is called.                                          *)
Start(p, m) ==
  /\ \/ pc[p] = "new"
     \/ pc[p] = "idle" /\ Reentrant
     \/ pc[p] = "dead" /\ PidReuse /\ \A i \in Inode : owner[i] # p
  /\ pc' = [pc EXCEPT ![p] = "open"]
  /\ mode' = [mode EXCEPT ![p] = m]
  /\ reply' = [reply EXCEPT ![p] = "none"]
  /\ UNCHANGED <<file, seen, link, owner, payload, split>>

(* An inode number is free when nothing names it, has it open or locks it. *)
FreeInode(i) ==
  /\ i # link
  /\ owner[i] = NoProc
  /\ \A q \in Proc : file[q] # i

(* open_lockfile: open the file at path, create it when there is none.     *)
OpenLockfile(p) ==
  IF link # NoInode
  THEN /\ file' = [file EXCEPT ![p] = link]
       /\ UNCHANGED <<link, payload>>
  ELSE \E i \in Inode :
         /\ FreeInode(i)
         /\ file' = [file EXCEPT ![p] = i]
         /\ link' = i
         /\ payload' = [payload EXCEPT ![i] = NoProc]

Open(p) ==
  /\ Goto(p, "open", "try")
  /\ OpenLockfile(p)
  /\ UNCHANGED <<mode, seen, reply, owner, split>>

(* Mutant of Grant: a shared lock is taken.                                *)
GrantShared(p) == owner' = [owner EXCEPT ![file[p]] = p]

(* try_lock_exclusive returned Ok, or the kernel granted a blocked request. *)
Grant(p) ==
  /\ owner[file[p]] = NoProc
  /\ owner' = [owner EXCEPT ![file[p]] = p]

(* Mutant of TryLock: lock_exclusive, whatever the mode.                   *)
TryLockThenBlock(p) ==
  /\ \/ Goto(p, "try", "truncate") /\ Grant(p)
     \/ Goto(p, "try", "block") /\ owner[file[p]] # NoProc /\ UNCHANGED owner
  /\ UNCHANGED <<mode, file, seen, reply, link, payload, split>>

TryLock(p) ==
  /\ \/ Goto(p, "try", "truncate") /\ Grant(p)
     \/ Goto(p, "try", "parse") /\ owner[file[p]] # NoProc /\ UNCHANGED owner
  /\ UNCHANGED <<mode, file, seen, reply, link, payload, split>>

(* parse_lockfile opens the path anew: it need not read the inode that     *)
(* try_lock_exclusive failed on.                                           *)
Recorded == IF link = NoInode THEN NoProc ELSE payload[link]

ParseNoWait(p) ==
  /\ mode[p] = "NoWait"
  /\ Goto(p, "parse", "idle")
  /\ Fail(p, "contention")
  /\ UNCHANGED <<mode, seen, link, owner, payload, split>>

ParseWait(p) ==
  /\ mode[p] = "Wait"
  /\ Goto(p, "parse", IF Recorded = NoProc THEN "block" ELSE "probe")
  /\ seen' = [seen EXCEPT ![p] = Recorded]
  /\ UNCHANGED <<mode, file, reply, link, owner, payload, split>>

(* kill(holder_pid, None): ESRCH closes the handle and goes on to reclaim. *)
Probe(p) ==
  /\ \/ Goto(p, "probe", "block") /\ Alive(seen[p]) /\ UNCHANGED file
     \/ /\ Goto(p, "probe", "unlink")
        /\ ~Alive(seen[p])
        /\ file' = [file EXCEPT ![p] = NoInode]
  /\ seen' = [seen EXCEPT ![p] = NoProc]
  /\ UNCHANGED <<mode, reply, link, owner, payload, split>>

(* remove_file(path), whichever file the path names by now.                *)
RemovePath(p) ==
  /\ link' = NoInode
  /\ split' = (split \/ \E q \in Proc \ {p} : link # NoInode /\ file[q] = link)

Unlink(p) ==
  /\ \/ /\ link # NoInode
        /\ Goto(p, "unlink", "reopen")
        /\ RemovePath(p)
        /\ UNCHANGED <<file, reply>>
     \/ /\ link = NoInode
        /\ Goto(p, "unlink", "idle")
        /\ Fail(p, "enoent")
        /\ UNCHANGED <<link, split>>
  /\ UNCHANGED <<mode, seen, owner, payload>>

Reopen(p) ==
  /\ Goto(p, "reopen", "retry")
  /\ OpenLockfile(p)
  /\ UNCHANGED <<mode, seen, reply, owner, split>>

Retry(p) ==
  /\ \/ Goto(p, "retry", "truncate") /\ Grant(p) /\ UNCHANGED <<file, reply>>
     \/ /\ Goto(p, "retry", "idle")
        /\ owner[file[p]] # NoProc
        /\ Fail(p, "would_block")
        /\ UNCHANGED owner
  /\ UNCHANGED <<mode, seen, link, payload, split>>

(* lock_exclusive on the handle opened at the start of the call.           *)
Block(p) ==
  /\ Goto(p, "block", "truncate")
  /\ Grant(p)
  /\ UNCHANGED <<mode, file, seen, reply, link, payload, split>>

(* stamp_payload: set_len(0), then the write of the PID.                   *)
Truncate(p) ==
  /\ Goto(p, "truncate", "write")
  /\ payload' = [payload EXCEPT ![file[p]] = NoProc]
  /\ UNCHANGED <<mode, file, seen, reply, link, owner, split>>

(* Mutant of Write: the inode is stamped, not the PID.                     *)
WriteInode(p) ==
  /\ Goto(p, "write", "held")
  /\ payload' = [payload EXCEPT ![file[p]] = file[p]]
  /\ reply' = [reply EXCEPT ![p] = "ok"]
  /\ UNCHANGED <<mode, file, seen, link, owner, split>>

Write(p) ==
  /\ Goto(p, "write", "held")
  /\ payload' = [payload EXCEPT ![file[p]] = p]
  /\ reply' = [reply EXCEPT ![p] = "ok"]
  /\ UNCHANGED <<mode, file, seen, link, owner, split>>

(* Mutant of Release: the guard goes without unlocking.                    *)
ReleaseNothing(p) ==
  /\ pc' = [pc EXCEPT ![p] = "remove"]
  /\ UNCHANGED owner

(* Drop, first half: flock is released, the handle is still open.          *)
Release(p) ==
  /\ owner' = [owner EXCEPT ![file[p]] = NoProc]
  /\ pc' = [pc EXCEPT ![p] = "remove"]

(* Mutant of StampFails: there is no guard yet that `?` could drop, and    *)
(* the handle leaks.                                                       *)
StampFailsLeaks(p) ==
  /\ pc[p] \in {"truncate", "write"}
  /\ pc' = [pc EXCEPT ![p] = "idle"]
  /\ reply' = [reply EXCEPT ![p] = "io"]
  /\ UNCHANGED <<mode, file, seen, link, owner, payload, split>>

(* Stamping fails: `?` in acquire drops the guard it just built.           *)
StampFails(p) ==
  /\ pc[p] \in {"truncate", "write"}
  /\ Release(p)
  /\ reply' = [reply EXCEPT ![p] = "io"]
  /\ UNCHANGED <<mode, file, seen, link, payload, split>>

Unlock(p) ==
  /\ pc[p] = "held"
  /\ Release(p)
  /\ UNCHANGED <<mode, file, seen, reply, link, payload, split>>

(* Drop, second half: best-effort remove_file, then the handle closes.     *)
Remove(p) ==
  /\ Goto(p, "remove", "idle")
  /\ RemovePath(p)
  /\ file' = [file EXCEPT ![p] = NoInode]
  /\ UNCHANGED <<mode, seen, reply, owner, payload>>

(* The process ends: it exits, or is killed at any point. No destructor    *)
(* runs; its memory is gone, and the kernel closes its handles and         *)
(* releases its flocks.                                                    *)
Terminate(p) ==
  /\ Alive(p)
  /\ pc' = [pc EXCEPT ![p] = "dead"]
  /\ file' = [file EXCEPT ![p] = NoInode]
  /\ mode' = [mode EXCEPT ![p] = "Wait"]
  /\ seen' = [seen EXCEPT ![p] = NoProc]
  /\ reply' = [reply EXCEPT ![p] = "none"]
  /\ \/ owner' = [i \in Inode |-> IF owner[i] = p THEN NoProc ELSE owner[i]]
     \/ FlockOutlivesCrash /\ UNCHANGED owner
  /\ UNCHANGED <<link, payload, split>>

KernelRelease(i) ==
  /\ owner[i] # NoProc /\ ~Alive(owner[i])
  /\ owner' = [owner EXCEPT ![i] = NoProc]
  /\ UNCHANGED <<pc, mode, file, seen, reply, link, payload, split>>

-----------------------------------------------------------------------------
(* The steps of acquire that the calling process takes by itself, the one  *)
(* that waits for the kernel, and the steps of Drop.                       *)
AcquireStep(p) ==
  \/ Open(p) \/ TryLock(p) \/ ParseNoWait(p) \/ ParseWait(p) \/ Probe(p)
  \/ Unlink(p) \/ Reopen(p) \/ Retry(p) \/ Truncate(p) \/ Write(p) \/ StampFails(p)
DropStep(p) == Unlock(p) \/ Remove(p)

Next ==
  \/ \E p \in Proc : \/ \E m \in Mode : Start(p, m)
                     \/ AcquireStep(p) \/ Block(p) \/ DropStep(p) \/ Terminate(p)
  \/ \E i \in Inode : KernelRelease(i)

Spec == Init /\ [][Next]_vars

(* A process runs on inside acquire, the kernel grants a lock that stays   *)
(* free and releases the locks of dead processes. The holder may keep the  *)
(* lock for ever.                                                          *)
FairSpec ==
  /\ Spec
  /\ \A p \in Proc : WF_vars(AcquireStep(p)) /\ WF_vars(Block(p))
  /\ \A i \in Inode : WF_vars(KernelRelease(i))

-----------------------------------------------------------------------------
TypeOK ==
  /\ pc \in [Proc -> Location]
  /\ mode \in [Proc -> Mode]
  /\ file \in [Proc -> Inode \cup {NoInode}]
  /\ seen \in [Proc -> Proc \cup {NoProc}]
  /\ reply \in [Proc -> Reply]
  /\ link \in Inode \cup {NoInode}
  /\ owner \in [Inode -> Proc \cup {NoProc}]
  /\ payload \in [Inode -> Proc \cup {NoProc}]
  /\ split \in BOOLEAN

(* At most one process holds the writer lock: "only one writer at a time   *)
(* ... the kernel enforces mutual exclusion across processes, even across  *)
(* crashes" (lock.rs:4-10).                                                *)
MutualExclusion ==
  \A p, q \in Proc : Holding(p) /\ Holding(q) => p = q

(* Two writers at once always go back to a remove_file, of Drop or of the  *)
(* reclaim, that took the path away from a file another live process had   *)
(* open: nothing else in acquire or Drop can break mutual exclusion.       *)
ExclusiveUnlessSplit == ~split => MutualExclusion

(* No lock leaks and none is shared: a flock whose owner runs belongs to a *)
(* holder that has exactly this inode open, and a holder owns the flock of *)
(* the inode it has open. An acquire that failed, whichever of its error   *)
(* paths it took, and a Drop that finished own nothing.                    *)
OwnerIsHolder ==
  /\ \A i \in Inode : owner[i] # NoProc /\ Alive(owner[i]) =>
                         Holding(owner[i]) /\ file[owner[i]] = i
  /\ \A p \in Proc : Holding(p) => file[p] # NoInode /\ owner[file[p]] = p

(* A NoWait call returns even if the holder never lets go.                 *)
NoWaitReturns ==
  \A p \in Proc : pc[p] = "open" /\ mode[p] = "NoWait" ~>
                    pc[p] \in {"held", "remove", "idle", "dead"}

(* As long as every holder lets go some time, a Wait call that blocks in   *)
(* lock_exclusive gets out of it, even when the inode it waits on was      *)
(* unlinked meanwhile or its holder was killed.                            *)
WaiterServed ==
  (\A p \in Proc : []<>~Holding(p)) =>
     \A p \in Proc : pc[p] = "block" ~> pc[p] # "block"
=============================================================================
