----------------------------- MODULE IndexStore -----------------------------
(***************************************************************************)
(* Which database file a gitlore command works on.  Processes of several   *)
(* binary versions resolve the index directory (storage.rs), take the      *)
(* writer lock, create, migrate (migrations/mod.rs), fill, delete and      *)
(* rebuild the database (indexer.rs), or open it to read                   *)
(* (status.rs, identities_report.rs, classify_report.rs, conn_pool.rs).    *)
(*                                                                         *)
(* A file that is deleted lives on for the processes that have it open.    *)
(* That holds of the lockfile as well (lock.rs): flock locks the file, but *)
(* acquire and Drop create and remove the name.  The steps of the lock are *)
(* those of WriterLock, without PID reuse and failing stamps.  What a run  *)
(* writes (Indexer) is the head of the repository as it saw it: 0 for no   *)
(* rows, and each head has all commits of those below it.                  *)
(***************************************************************************)
EXTENDS Integers, FiniteSets

CONSTANTS
    Proc,
    Latest,         \* Proc -> migrations::LATEST of its binary
    File, NoFile,   \* database files, named or only held open
    Lockfile,       \* files that were an index.lock, named or only held open
    NoProc, Dead,   \* no readable PID; that of a process that has ended
    MaxHead, MaxCommands,
    MaxAccidents    \* bounds; accidents are kills and changes of permissions

ASSUME LatestAssumption == Latest \in [Proc -> Nat \ {0}]
ASSUME NameAssumption ==
    NoFile \notin File \cup Lockfile /\ {NoProc, Dead} \cap Proc = {} /\ IsFiniteSet(File)
ASSUME BoundAssumption ==
    MaxHead \in Nat \ {0} /\ {MaxCommands, MaxAccidents} \subseteq Nat

Dir == {"common", "xdg"}        \* <git common dir>/gitlore, and the XDG fallback
Writers == {"index", "rebuild", "dry_run"}
Readers == {"status", "identities", "classify", "search"}

VARIABLES
    writable,   \* the git common dir can be written
    head,       \* of the repository
    named,      \* directory -> the file its index.db is
    version,    \* file -> schema_version
    rows,       \* file -> the head whose commits it has
    lockfile,   \* directory -> the file its index.lock is
    stamp,      \* directory -> whose PID is in that file
    handle,     \* process -> its open lockfile
    pc, cmd, wait, dir,
    conn,       \* process -> its open database
    from,       \* process -> the version its call of migrate read
    seen,       \* process -> the head its run walks, or the rows its query found
    said,       \* process -> how its last command ended
    \* bounds and history
    commands, accidents,
    promised,   \* directory -> head of the last run that reported success there
                \* and did not overtake, unless the file was deleted since
    expect,     \* process -> what was promised when its command started
    overtook,   \* process -> it took the lock that a rebuild had let go to delete
    split       \* directory -> an index.lock was created while another process
                \* had an older one open, and since then somebody had one open

files == <<named, version, rows>>
lock == <<lockfile, stamp, handle>>
process == <<pc, cmd, wait, dir, conn, from, seen, said>>
environment == <<writable, head>>
history == <<commands, accidents, promised, expect, overtook, split>>
vars == <<environment, files, lock, process, history>>

NoReply == [result |-> "none", rows |-> 0]
Failure(e) == [result |-> e, rows |-> 0]

Init ==
    /\ writable \in BOOLEAN /\ head = 1
    /\ named = [d \in Dir |-> NoFile]
    /\ version = [f \in File |-> 0] /\ rows = [f \in File |-> 0]
    /\ lockfile = [d \in Dir |-> NoFile] /\ stamp = [d \in Dir |-> NoProc]
    /\ handle = [p \in Proc |-> NoFile]
    /\ pc = [p \in Proc |-> "idle"] /\ cmd = [p \in Proc |-> "none"]
    /\ wait = [p \in Proc |-> FALSE] /\ dir = [p \in Proc |-> "common"]
    /\ conn = [p \in Proc |-> NoFile] /\ from = [p \in Proc |-> 0]
    /\ seen = [p \in Proc |-> 0] /\ said = [p \in Proc |-> NoReply]
    /\ commands = 0 /\ accidents = 0
    /\ promised = [d \in Dir |-> 0] /\ expect = [p \in Proc |-> 0]
    /\ overtook = [p \in Proc |-> FALSE] /\ split = [d \in Dir |-> FALSE]

-----------------------------------------------------------------------------
Goto(p, a, b) == pc[p] = a /\ pc' = [pc EXCEPT ![p] = b]

(* Of a process that goes on with what it was started for.                 *)
Keep == UNCHANGED <<cmd, wait, commands, accidents>>

(* The result of a command: its database is closed.                        *)
Results(p, reply) ==
    /\ said' = [said EXCEPT ![p] = reply]
    /\ cmd' = [cmd EXCEPT ![p] = "none"] /\ wait' = [wait EXCEPT ![p] = FALSE]
    /\ conn' = [conn EXCEPT ![p] = NoFile] /\ from' = [from EXCEPT ![p] = 0]
    /\ seen' = [seen EXCEPT ![p] = 0] /\ overtook' = [overtook EXCEPT ![p] = FALSE]

(* The process exits: the kernel closes its lockfile, and its PID is free. *)
End(p, reply) ==
    /\ Results(p, reply)
    /\ pc' = [pc EXCEPT ![p] = "idle"] /\ dir' = [dir EXCEPT ![p] = "common"]
    /\ handle' = [handle EXCEPT ![p] = NoFile]
    /\ stamp' = [d \in Dir |-> IF stamp[d] = p THEN Dead ELSE stamp[d]]

Ends(p, reply) ==
    /\ End(p, reply)
    /\ UNCHANGED <<environment, files, lockfile, commands, accidents, promised, expect, split>>

(* Who holds the lock drops its guard first, and Drop unlocks before it    *)
(* removes the name.                                                       *)
Leave(p, reply) ==
    /\ Results(p, reply)
    /\ pc' = [pc EXCEPT ![p] = "quit"]
    /\ UNCHANGED <<environment, files, lock, dir, commands, accidents, expect, split>>

Leaves(p, reply) == Leave(p, reply) /\ UNCHANGED promised

(* The user commits; permissions of the common dir change, or the file     *)
(* system is remounted.                                                    *)
Commit ==
    /\ head < MaxHead /\ head' = head + 1
    /\ UNCHANGED <<writable, files, lock, process, history>>

Flip ==
    /\ accidents < MaxAccidents /\ accidents' = accidents + 1
    /\ writable' = ~writable
    /\ expect' = [p \in Proc |-> 0]
    /\ UNCHANGED <<head, files, lock, process, commands, promised, overtook, split>>

Kill(p) ==
    /\ pc[p] # "idle" /\ accidents < MaxAccidents /\ accidents' = accidents + 1
    /\ End(p, NoReply)
    /\ UNCHANGED <<environment, files, lockfile, commands, promised, expect, split>>

-----------------------------------------------------------------------------
(* Where the index is.                                                     *)

(* Mutant of Location: readers look for an index instead of probing.       *)
LocationOfReader(c) ==
    IF c \in Readers THEN IF named["xdg"] # NoFile THEN "xdg" ELSE "common"
    ELSE IF writable THEN "common" ELSE "xdg"

(* resolve_index_path: every command, also one that only reads, writes and *)
(* removes a probe file; a directory that refuses it is left for the XDG   *)
(* one.                                                                    *)
Location(c) == IF writable THEN "common" ELSE "xdg"

Start(p, c, w) ==
    /\ pc[p] = "idle" /\ commands < MaxCommands /\ commands' = commands + 1
    /\ cmd' = [cmd EXCEPT ![p] = c] /\ wait' = [wait EXCEPT ![p] = w]
    /\ c \in Readers => ~w
    /\ pc' = [pc EXCEPT ![p] = "resolve"]
    /\ said' = [said EXCEPT ![p] = NoReply]
    /\ expect' = [expect EXCEPT ![p] = IF c \in Readers THEN promised[Location("index")] ELSE 0]
    /\ UNCHANGED <<environment, files, lock, dir, conn, from, seen, accidents, promised,
                   overtook, split>>

Resolve(p) ==
    /\ pc[p] = "resolve"
    /\ dir' = [dir EXCEPT ![p] = Location(cmd[p])]
    /\ pc' = [pc EXCEPT ![p] =
                CASE cmd[p] \in Writers -> "lock"
                  [] cmd[p] = "search" -> "attach"
                  [] OTHER -> "exists"]
    /\ UNCHANGED <<environment, files, lock, conn, from, seen, said, promised, expect,
                   overtook, split>>
    /\ Keep

-----------------------------------------------------------------------------
(* The lock: acquire, the reclaim of a dead holder's lockfile, and Drop.   *)

(* The directory became read-only after the probe: what is there may still *)
(* open, nothing can be created or removed.                                *)
ReadOnly(p) == dir[p] = "common" /\ ~writable

Holders == {"stamp", "open", "version", "migrate", "drop", "walk", "persist", "report"}

HasOpen(q, l) == handle[q] # NoFile /\ handle[q] = l

(* open_lockfile. Of the files that nobody has, the file system takes one. *)
OpenLockfile(p) ==
    LET d == dir[p]
        free(l) == \A e \in Dir, q \in Proc : lockfile[e] # l /\ ~HasOpen(q, l)
        new == CHOOSE l \in Lockfile : free(l)
    IN  IF lockfile[d] # NoFile
        THEN handle' = [handle EXCEPT ![p] = lockfile[d]] /\ UNCHANGED <<lockfile, stamp>>
        ELSE /\ ~ReadOnly(p) /\ \E l \in Lockfile : free(l)
             /\ handle' = [handle EXCEPT ![p] = new]
             /\ lockfile' = [lockfile EXCEPT ![d] = new]
             /\ stamp' = [stamp EXCEPT ![d] = NoProc]

OpenLock(p) ==
    /\ Goto(p, "lock", "try") \/ Goto(p, "reopen", "retry")
    /\ OpenLockfile(p)
    /\ split' = [split EXCEPT ![dir[p]] =
                    /\ @ \/ lockfile[dir[p]] = NoFile
                    /\ \E q \in Proc : dir[q] = dir[p] /\ handle[q] # NoFile]
    /\ UNCHANGED <<environment, files, dir, conn, from, seen, said, promised, expect, overtook>>
    /\ Keep

Unlocked(p) == \A q \in Proc : HasOpen(q, handle[p]) => pc[q] \notin Holders

Deleting(d) == \E q \in Proc : pc[q] \in {"freed", "unlink"} /\ dir[q] = d

(* flock grants the open file, whatever its name is by now: at once, after *)
(* the reclaim, or when a Wait call has waited for it. The mode was only   *)
(* for acquire.                                                            *)
Grant(p) ==
    /\ pc[p] \in {"try", "retry", "block"} /\ pc' = [pc EXCEPT ![p] = "stamp"]
    /\ Unlocked(p)
    /\ overtook' = [overtook EXCEPT ![p] = Deleting(dir[p])]
    /\ wait' = [wait EXCEPT ![p] = FALSE]
    /\ UNCHANGED <<environment, files, lock, cmd, dir, conn, from, seen, said, commands,
                   accidents, promised, expect, split>>

WouldBlock(p) ==
    /\ wait[p] /\ ~Unlocked(p) /\ Goto(p, "try", "probe")
    /\ UNCHANGED <<environment, files, lock, dir, conn, from, seen, said, promised, expect,
                   overtook, split>>
    /\ Keep

Contention(p) ==
    /\ pc[p] = "try" /\ ~wait[p] /\ ~Unlocked(p)
    /\ Ends(p, Failure("lock_contention"))

(* Mutant of Probe: the handle of the old lockfile stays open.             *)
ProbeKeepsHandle(p) ==
    /\ \/ /\ Goto(p, "probe", "reclaim")
          /\ lockfile[dir[p]] # NoFile /\ stamp[dir[p]] = Dead
       \/ /\ Goto(p, "probe", "block")
          /\ lockfile[dir[p]] = NoFile \/ stamp[dir[p]] # Dead
    /\ UNCHANGED <<environment, files, lock, dir, conn, from, seen, said, promised,
                   expect, overtook, split>>
    /\ Keep

(* The PID in the file that has the name now, and kill(pid, None).         *)
Probe(p) ==
    /\ \/ /\ Goto(p, "probe", "reclaim")
          /\ lockfile[dir[p]] # NoFile /\ stamp[dir[p]] = Dead
          /\ handle' = [handle EXCEPT ![p] = NoFile]
       \/ /\ Goto(p, "probe", "block")
          /\ lockfile[dir[p]] = NoFile \/ stamp[dir[p]] # Dead
          /\ UNCHANGED handle
    /\ UNCHANGED <<environment, files, lockfile, stamp, dir, conn, from, seen, said, promised,
                   expect, overtook, split>>
    /\ Keep

(* remove_file, whichever file has the name by now and whoever has it open.*)
RemoveLockfile(p) == lockfile' = [lockfile EXCEPT ![dir[p]] = NoFile]

Reclaim(p) ==
    /\ lockfile[dir[p]] # NoFile /\ ~ReadOnly(p)
    /\ Goto(p, "reclaim", "reopen")
    /\ RemoveLockfile(p)
    /\ UNCHANGED <<environment, files, stamp, handle, dir, conn, from, seen, said, promised,
                   expect, overtook, split>>
    /\ Keep

(* Another process was faster.                                             *)
ReclaimFails(p) ==
    /\ \/ pc[p] = "reclaim" /\ lockfile[dir[p]] = NoFile
       \/ pc[p] = "retry" /\ ~Unlocked(p)
    /\ Ends(p, Failure("io"))

Stamp(p) ==
    /\ Goto(p, "stamp", "open")
    /\ stamp' = IF HasOpen(p, lockfile[dir[p]]) THEN [stamp EXCEPT ![dir[p]] = p] ELSE stamp
    /\ UNCHANGED <<environment, files, lockfile, handle, dir, conn, from, seen, said, promised,
                   expect, overtook, split>>
    /\ Keep

(* The second half of Drop, "best-effort removal", of whoever ends.        *)
Quit(p) ==
    /\ pc[p] = "quit"
    /\ IF ReadOnly(p) THEN UNCHANGED lockfile ELSE RemoveLockfile(p)
    /\ End(p, said[p])
    /\ UNCHANGED <<environment, files, commands, accidents, promised, expect, split>>

Denied(p) ==
    /\ ReadOnly(p)
    /\ \/ pc[p] \in {"lock", "reclaim", "reopen", "unlink"} /\ Ends(p, Failure("io"))
       \/ pc[p] = "open" /\ Leaves(p, Failure("io"))

-----------------------------------------------------------------------------
(* Writers: Indexer::open_with_provider.                                   *)

Unused(f) == (\A d \in Dir : named[d] # f) /\ (\A p \in Proc : conn[p] # f)

Attached(p, f) == conn' = [conn EXCEPT ![p] = f]

(* File has one more than directories and processes can have in use.       *)
Created(p) ==
    /\ ~ReadOnly(p) /\ \E g \in File : Unused(g)
    /\ LET f == CHOOSE g \in File : Unused(g)
       IN  /\ Attached(p, f)
           /\ named' = [named EXCEPT ![dir[p]] = f]
           /\ version' = [version EXCEPT ![f] = 0]
           /\ rows' = [rows EXCEPT ![f] = 0]

(* Mutant of OpenDatabase: a database with an older schema is replaced     *)
(* instead of migrated.                                                    *)
OpenDatabaseReplacesOld(p) ==
    /\ Goto(p, "open", "version")
    /\ IF named[dir[p]] # NoFile /\ version[named[dir[p]]] >= Latest[p]
       THEN Attached(p, named[dir[p]]) /\ UNCHANGED files
       ELSE Created(p)
    /\ UNCHANGED <<environment, lock, dir, from, seen, said, promised, expect, overtook, split>>
    /\ Keep

(* Connection::open creates a file that is not there.                      *)
OpenDatabase(p) ==
    /\ Goto(p, "open", "version")
    /\ IF named[dir[p]] # NoFile
       THEN Attached(p, named[dir[p]]) /\ UNCHANGED files
       ELSE Created(p)
    /\ UNCHANGED <<environment, lock, dir, from, seen, said, promised, expect, overtook, split>>
    /\ Keep

(* Mutant of Supported: any version that is not older is taken as current. *)
SupportedAny(p, v) == TRUE

(* "refuse to operate on an index written by a newer binary".              *)
Supported(p, v) == v <= Latest[p]

(* migrate reads the version once, and applies what is above it.           *)
ReadVersion(p) ==
    /\ Goto(p, "version", "migrate")
    /\ Supported(p, version[conn[p]])
    /\ from' = [from EXCEPT ![p] = version[conn[p]]]
    /\ UNCHANGED <<environment, files, lock, dir, conn, seen, said, promised, expect, overtook,
                   split>>
    /\ Keep

TooNew(p) ==
    /\ pc[p] = "version" /\ ~Supported(p, version[conn[p]])
    /\ Leaves(p, Failure("schema_version_too_new"))

(* apply_one: one transaction, which also writes the version.              *)
ApplyOne(p) ==
    /\ pc[p] = "migrate" /\ from[p] < Latest[p]
    /\ from' = [from EXCEPT ![p] = @ + 1]
    /\ version' = [version EXCEPT ![conn[p]] = from'[p]]
    /\ UNCHANGED <<environment, named, rows, lock, pc, dir, conn, seen, said, promised, expect,
                   overtook, split>>
    /\ Keep

(* A rebuild goes on to delete what it has just migrated, the first time.  *)
Migrated(p) ==
    /\ pc[p] = "migrate" /\ from[p] >= Latest[p]
    /\ pc' = [pc EXCEPT ![p] = CASE cmd[p] = "rebuild" -> "drop"
                                 [] OTHER -> "walk"]
    /\ from' = [from EXCEPT ![p] = 0]
    /\ UNCHANGED <<environment, files, lock, dir, conn, seen, said, promised, expect,
                   overtook, split>>
    /\ Keep

-----------------------------------------------------------------------------
(* Indexer::rebuild.                                                       *)

(* The connection is closed and the lock let go "so the lockfile can be    *)
(* re-created": Drop unlocks,                                              *)
LetGo(p) ==
    /\ Goto(p, "drop", "freed")
    /\ conn' = [conn EXCEPT ![p] = NoFile]
    /\ overtook' = [overtook EXCEPT ![p] = FALSE]
    /\ UNCHANGED <<environment, files, lock, dir, from, seen, said, promised, expect, split>>
    /\ Keep

(* and removes the name; who waits for the file may have it by then.       *)
Free(p) ==
    /\ Goto(p, "freed", "unlink")
    /\ IF ReadOnly(p) THEN UNCHANGED lockfile ELSE RemoveLockfile(p)
    /\ handle' = [handle EXCEPT ![p] = NoFile]
    /\ UNCHANGED <<environment, files, stamp, dir, conn, from, seen, said, promised, expect,
                   overtook, split>>
    /\ Keep

(* The database files go. Then NoWait, as Indexer::open does, and          *)
(* run_initial: from here on a rebuild is a run.                           *)
Unlink(p) ==
    /\ Goto(p, "unlink", "lock") /\ ~ReadOnly(p)
    /\ cmd' = [cmd EXCEPT ![p] = "index"] /\ wait' = [wait EXCEPT ![p] = FALSE]
    /\ named' = [named EXCEPT ![dir[p]] = NoFile]
    /\ promised' = [promised EXCEPT ![dir[p]] = 0]
    /\ expect' = [q \in Proc |-> 0]
    /\ UNCHANGED <<environment, version, rows, lock, dir, conn, from, seen, said, commands,
                   accidents, overtook, split>>

-----------------------------------------------------------------------------
(* The run.                                                                *)

Walk(p) ==
    /\ Goto(p, "walk", "persist")
    /\ seen' = [seen EXCEPT ![p] = head]
    /\ UNCHANGED <<environment, files, lock, dir, conn, from, said, promised, expect, overtook,
                   split>>
    /\ Keep

Plan(p) ==
    /\ pc[p] = "persist" /\ cmd[p] = "dry_run"
    /\ Leaves(p, [result |-> "plan", rows |-> seen[p]])

Persist(p) ==
    /\ cmd[p] = "index" /\ Goto(p, "persist", "report")
    /\ rows' = [rows EXCEPT ![conn[p]] = IF @ < seen[p] THEN seen[p] ELSE @]
    /\ UNCHANGED <<environment, named, version, lock, dir, conn, from, seen, said, promised,
                   expect, overtook, split>>
    /\ Keep

Report(p) ==
    /\ pc[p] = "report"
    /\ Leave(p, [result |-> "indexed", rows |-> seen[p]])
    /\ promised' = IF overtook[p] \/ split[dir[p]] THEN promised
                   ELSE [promised EXCEPT ![dir[p]] = seen[p]]

-----------------------------------------------------------------------------
(* Readers: no lock, a connection that never creates the file.             *)

FindsFile(p) ==
    /\ named[dir[p]] # NoFile /\ Goto(p, "exists", "attach")
    /\ UNCHANGED <<environment, files, lock, dir, conn, from, seen, said, promised, expect,
                   overtook, split>>
    /\ Keep

(* status and identities report an empty index, classify no such commit.   *)
FindsNone(p) ==
    /\ pc[p] = "exists" /\ named[dir[p]] = NoFile
    /\ Ends(p, IF cmd[p] = "classify" THEN Failure("sha_not_found") ELSE Failure("empty"))

(* status and search look at the version first, the other two never.       *)
Attach(p) ==
    /\ named[dir[p]] # NoFile /\ pc[p] = "attach"
    /\ conn' = [conn EXCEPT ![p] = named[dir[p]]]
    /\ pc' = [pc EXCEPT ![p] = IF cmd[p] \in {"status", "search"} THEN "check" ELSE "read"]
    /\ UNCHANGED <<environment, files, lock, dir, from, seen, said, promised, expect, overtook,
                   split>>
    /\ Keep

AttachFails(p) ==
    /\ pc[p] = "attach" /\ (named[dir[p]] = NoFile \/ ReadOnly(p))
    /\ Ends(p, Failure("sqlite"))

(* check_schema_version: a database without tables passes as version 0.    *)
CheckVersion(p) ==
    /\ Goto(p, "check", "read") /\ Supported(p, version[conn[p]])
    /\ UNCHANGED <<environment, files, lock, dir, conn, from, seen, said, promised, expect,
                   overtook, split>>
    /\ Keep

CheckFails(p) ==
    /\ pc[p] = "check" /\ ~Supported(p, version[conn[p]])
    /\ Ends(p, Failure("schema_version_too_new"))

(* identities reads is_bot, which migration 0002 adds.                     *)
NeededVersion(c) == IF c = "identities" THEN 2 ELSE 1

Read(p) ==
    /\ pc[p] = "read"
    /\ Ends(p, IF version[conn[p]] < NeededVersion(cmd[p]) THEN Failure("sqlite")
               ELSE [result |-> "rows", rows |-> rows[conn[p]]])

-----------------------------------------------------------------------------
LockStep(p) ==
    \/ OpenLock(p) \/ Grant(p) \/ WouldBlock(p) \/ Contention(p) \/ Probe(p) \/ Reclaim(p)
    \/ ReclaimFails(p) \/ Stamp(p) \/ Quit(p) \/ Denied(p)

OpenStep(p) ==
    \/ Resolve(p) \/ OpenDatabase(p) \/ ReadVersion(p) \/ TooNew(p) \/ ApplyOne(p)
    \/ Migrated(p)

RebuildStep(p) == LetGo(p) \/ Free(p) \/ Unlink(p)

RunStep(p) == Walk(p) \/ Plan(p) \/ Persist(p) \/ Report(p)

ReadStep(p) ==
    \/ FindsFile(p) \/ FindsNone(p) \/ Attach(p) \/ AttachFails(p)
    \/ CheckVersion(p) \/ CheckFails(p) \/ Read(p)

Step(p) == LockStep(p) \/ OpenStep(p) \/ RebuildStep(p) \/ RunStep(p) \/ ReadStep(p)

Next ==
    \/ Commit \/ Flip
    \/ \E p \in Proc :
         \/ Step(p) \/ Kill(p)
         \/ \E c \in Writers \cup Readers, w \in BOOLEAN : Start(p, c, w)

Spec == Init /\ [][Next]_vars

-----------------------------------------------------------------------------
Connected == {"version", "migrate", "drop", "walk", "persist", "report", "check", "read"}
Opened == Holders \cup {"try", "probe", "block", "retry", "freed", "quit"}

Stage == Connected \cup Opened
          \cup {"idle", "resolve", "lock", "reclaim", "reopen", "unlink", "exists", "attach"}

TypeOK ==
    /\ writable \in BOOLEAN /\ head \in 1 .. MaxHead
    /\ named \in [Dir -> File \cup {NoFile}]
    /\ version \in [File -> Nat] /\ rows \in [File -> 0 .. head]
    /\ lockfile \in [Dir -> Lockfile \cup {NoFile}]
    /\ stamp \in [Dir -> Proc \cup {NoProc, Dead}]
    /\ handle \in [Proc -> Lockfile \cup {NoFile}]
    /\ pc \in [Proc -> Stage] /\ conn \in [Proc -> File \cup {NoFile}]
    /\ cmd \in [Proc -> Writers \cup Readers \cup {"none"}] /\ wait \in [Proc -> BOOLEAN]
    /\ dir \in [Proc -> Dir] /\ from \in [Proc -> Nat] /\ seen \in [Proc -> 0 .. head]
    /\ promised \in [Dir -> 0 .. head] /\ expect \in [Proc -> 0 .. head]
    /\ overtook \in [Proc -> BOOLEAN] /\ split \in [Dir -> BOOLEAN]
    /\ \A p \in Proc : conn[p] # NoFile <=> pc[p] \in Connected
    /\ \A p \in Proc : handle[p] # NoFile <=> pc[p] \in Opened

(* "AC-IDX-10: refuse to operate on an index written by a newer binary"    *)
(* (migrations/mod.rs:15): while a run writes, its database has exactly    *)
(* the schema of its binary, although other binaries migrate the file that *)
(* has the same name before, after, and while a rebuild has let the lock   *)
(* go. But Drop unlocks before it removes the name (lock.rs:105-114), so   *)
(* who waits for a lockfile may be granted one that has no name any more,  *)
(* and the next to come creates another: while both are open two may hold  *)
(* a lock, and the newer may migrate the database under the older.         *)
WritesOwnSchema ==
    \A p \in Proc :
        pc[p] \in {"walk", "persist", "report"} /\ ~split[dir[p]] =>
            version[conn[p]] = Latest[p]

(* What a run reported as indexed is in the file that carries the name,    *)
(* until a rebuild deletes that file on purpose, whoever works on it       *)
(* meanwhile. Two kinds of run report success for rows that nobody may     *)
(* see, and promise nothing here: one that took the lock after a rebuild   *)
(* had let it go and before it deleted the file (indexer.rs:266-278), and  *)
(* one that ends while lockfiles of two kinds are open.                    *)
PromiseKept ==
    \A d \in Dir :
        promised[d] <= IF named[d] = NoFile THEN 0 ELSE rows[named[d]]

(* A command that reads, started when a run had reported success, finds    *)
(* those rows or refuses a newer schema: it resolves to the directory the  *)
(* run wrote to, and the file is neither missing nor half made, as long as *)
(* the common dir stays as writable as it was (storage.rs:84) and nobody   *)
(* rebuilds.                                                               *)
AnswersKeepPromise ==
    \A p \in Proc :
        expect[p] > 0 /\ said[p].result \notin {"none", "schema_version_too_new"} =>
        said[p].result = "rows" /\ said[p].rows >= expect[p]
=============================================================================
