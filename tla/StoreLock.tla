----------------------------- MODULE StoreLock -----------------------------
(***************************************************************************)
(* The store lock of `protocol drive`: one file, `.engineering/runs/       *)
(* lock.json`, taken by `drive run` and `drive resume` before a run is     *)
(* allocated or continued (crates/protocol-cli/src/drive.rs).              *)
(*                                                                         *)
(* Every file-system call is one action, because another invocation can    *)
(* run between any two of them.  `fs::write` is two calls, an open that    *)
(* truncates and a write through the handle; a handle keeps naming its     *)
(* inode after the path has been unlinked.  An invocation's pid is the     *)
(* invocation itself, and it is alive until it exits, fails or crashes.    *)
(***************************************************************************)
EXTENDS Naturals, FiniteSets

CONSTANTS
  Proc,       \* invocations of `protocol drive run` or `protocol drive resume`
  Resuming,   \* the invocations that are `resume`, each of run Resumed
  Forcing,    \* the invocations given `--take-lock`
  Host,       \* the host of each invocation
  ProcFs,     \* the hosts that have a /proc to probe
  MaxRun,     \* bound on run ordinals
  NoFile,     \* no lock file at the path
  Empty,      \* the file was truncated and not written yet
  Garbled,    \* two writers left bytes that do not parse
  NoRun,      \* the lock's `run: None`
  NoCursor,   \* a run directory without a cursor.json
  Nobody, Lost \* no owner of the store, and an owner that is gone

ASSUME ProcAssumption == Proc # {} /\ Resuming \subseteq Proc /\ Forcing \subseteq Proc
ASSUME OwnerAssumption == Nobody \notin Proc /\ Lost \notin Proc
ASSUME BoundAssumption == MaxRun \in Nat \ {0}

VARIABLES
  lock,     \* the lock file: NoFile, or its inode and what it holds
  pc,       \* where each invocation is
  handle,   \* the inode each invocation last opened
  seen,     \* the lock body each invocation last parsed
  stolen,   \* HeldLock.stolen: whom each invocation took the lock from
  run,      \* the run each invocation drives
  dirs,     \* the run directories that exist
  current,  \* what the file `current` names, or NoRun
  cursors   \* per run: no cursor yet, or the cursor's took_lock_from

files == <<lock, handle>>
vars == <<lock, pc, handle, seen, stolen, run, dirs, current, cursors>>

Run == 1 .. MaxRun

(* The run a `resume` names is the first one; a `run` allocates its own. *)
Resumed == 1

Body == [pid : Proc, run : Run \cup {NoRun}]

Inode == Proc \X {"create", "steal", "record"}

LockFile == [inode : Inode, body : Body \cup {Empty, Garbled}]

ASSUME SentinelAssumption == NoFile \notin LockFile /\ NoCursor # {}

(* An invocation is over once it exited, failed on an error or crashed. *)
Over == {"exited", "failed", "crashed"}

Alive(p) == pc[p] \notin Over

Steps == {"start", "write_new", "read", "probe", "steal", "steal_write",
          "allocate", "record", "record_open", "record_write", "mkdir",
          "current", "driving", "release"} \cup Over

Goto(p, label) == pc' = [pc EXCEPT ![p] = label]

Parsed == lock # NoFile /\ lock.body \notin {Empty, Garbled}

(* Opening with create and truncate: an existing inode is emptied, an      *)
(* absent file becomes a new inode.                                        *)
OpenTruncate(p, phase) ==
  LET inode == IF lock = NoFile THEN <<p, phase>> ELSE lock.inode
  IN /\ lock' = [inode |-> inode, body |-> Empty]
     /\ handle' = [handle EXCEPT ![p] = inode]

(* Writing through the handle reaches the path only while the path still   *)
(* names that inode.  Over another writer's bytes a shorter body leaves a  *)
(* tail of the longer one.                                                 *)
WriteThrough(p, body) ==
  IF lock # NoFile /\ lock.inode = handle[p]
  THEN \E b \in (IF lock.body = Empty THEN {body} ELSE {body, Garbled}) :
         lock' = [lock EXCEPT !.body = b]
  ELSE UNCHANGED lock

---------------------------------------------------------------------------
Init ==
  /\ lock = NoFile
  /\ pc = [p \in Proc |-> "start"]
  /\ handle = [p \in Proc |-> <<p, "create">>]
  /\ seen = [p \in Proc |-> [pid |-> p, run |-> NoRun]]
  /\ stolen = [p \in Proc |-> {}]
  /\ run = [p \in Proc |-> IF p \in Resuming THEN Resumed ELSE NoRun]
  /\ dirs = IF Resuming = {} THEN {} ELSE {Resumed}
  /\ current = NoRun
  /\ cursors = [r \in Run |-> IF r \in dirs THEN {} ELSE NoCursor]

(* h is the highest run directory, 0 when there is none.                   *)
Highest(h) == IF dirs = {} THEN h = 0 ELSE h \in dirs /\ \A d \in dirs : d <= h

(* After the lock: `run` allocates an ordinal, `resume` has one already.   *)
AfterTaking(p) == IF p \in Resuming THEN "record" ELSE "allocate"

(* take_lock: one create_new call.                                         *)
CreateNew(p) ==
  /\ pc[p] = "start"
  /\ IF lock = NoFile
     THEN /\ lock' = [inode |-> <<p, "create">>, body |-> Empty]
          /\ handle' = [handle EXCEPT ![p] = <<p, "create">>]
          /\ Goto(p, "write_new")
     ELSE /\ Goto(p, "read")
          /\ UNCHANGED <<lock, handle>>
  /\ UNCHANGED <<seen, stolen, run, dirs, current, cursors>>

WriteNew(p) ==
  /\ pc[p] = "write_new"
  /\ WriteThrough(p, [pid |-> p, run |-> NoRun])
  /\ Goto(p, AfterTaking(p))
  /\ UNCHANGED <<handle, seen, stolen, run, dirs, current, cursors>>

(* read_lock: a file that is gone or does not parse ends the invocation.   *)
ReadLock(p) ==
  /\ pc[p] = "read"
  /\ IF Parsed
     THEN seen' = [seen EXCEPT ![p] = lock.body] /\ Goto(p, "probe")
     ELSE Goto(p, "exited") /\ UNCHANGED seen
  /\ UNCHANGED <<files, stolen, run, dirs, current, cursors>>

(* Mutant: a pid of another host is looked up in this host's table.        *)
LivenessAnyHost(p) ==
  LET q == seen[p].pid
  IN IF Host[q] = Host[p] /\ Alive(q) THEN {"Alive"} ELSE {"Dead"}

(* liveness: another host is never stale, a host without /proc never says  *)
(* dead, and a dead holder's pid may have been issued again.               *)
Liveness(p) ==
  LET q == seen[p].pid
  IN IF Host[q] # Host[p] THEN {"OtherHost"}
     ELSE IF Host[p] \notin ProcFs \/ Alive(q) THEN {"Alive"}
     ELSE {"Dead", "Alive"}

(* Mutant: the flag alone takes the lock, whatever the holder does.        *)
ProbeFlagOnly(p) ==
  /\ pc[p] = "probe"
  /\ IF p \in Forcing THEN Goto(p, "steal") ELSE Goto(p, "exited")
  /\ UNCHANGED <<files, seen, stolen, run, dirs, current, cursors>>

(* LockState.is_stale and the refusal: taken over only when stale and      *)
(* `--take-lock` was given.                                                *)
Probe(p) ==
  /\ pc[p] = "probe"
  /\ \E found \in Liveness(p) :
       IF p \in Forcing /\ found = "Dead"
       THEN Goto(p, "steal") ELSE Goto(p, "exited")
  /\ UNCHANGED <<files, seen, stolen, run, dirs, current, cursors>>

StealOpen(p) ==
  /\ pc[p] = "steal"
  /\ OpenTruncate(p, "steal")
  /\ Goto(p, "steal_write")
  /\ UNCHANGED <<seen, stolen, run, dirs, current, cursors>>

StealWrite(p) ==
  /\ pc[p] = "steal_write"
  /\ WriteThrough(p, [pid |-> p, run |-> NoRun])
  /\ stolen' = [stolen EXCEPT ![p] = {seen[p].pid}]
  /\ Goto(p, AfterTaking(p))
  /\ UNCHANGED <<handle, seen, run, dirs, current, cursors>>

(* Mutant: one more than what `current` names.                             *)
AllocateAfterCurrent(p) ==
  /\ pc[p] = "allocate"
  /\ run' = [run EXCEPT ![p] = IF current = NoRun THEN 1 ELSE current + 1]
  /\ Goto(p, "record")
  /\ UNCHANGED <<files, seen, stolen, dirs, current, cursors>>

(* allocate_run: one more than the highest directory there is.             *)
AllocateRun(p) ==
  /\ pc[p] = "allocate"
  /\ \E r \in Run :
       /\ Highest(r - 1)
       /\ run' = [run EXCEPT ![p] = r]
  /\ Goto(p, "record")
  /\ UNCHANGED <<files, seen, stolen, dirs, current, cursors>>

(* HeldLock::record_run: read, then rewrite what was read with the run.    *)
RecordRead(p) ==
  /\ pc[p] = "record"
  /\ IF Parsed
     THEN seen' = [seen EXCEPT ![p] = lock.body] /\ Goto(p, "record_open")
     ELSE Goto(p, "failed") /\ UNCHANGED seen
  /\ UNCHANGED <<files, stolen, run, dirs, current, cursors>>

RecordOpen(p) ==
  /\ pc[p] = "record_open"
  /\ OpenTruncate(p, "record")
  /\ Goto(p, "record_write")
  /\ UNCHANGED <<seen, stolen, run, dirs, current, cursors>>

(* Mutant: the lock is rewritten as it was read.                           *)
RecordWriteUnchanged(p) ==
  /\ pc[p] = "record_write"
  /\ WriteThrough(p, seen[p])
  /\ Goto(p, IF p \in Resuming THEN "driving" ELSE "mkdir")
  /\ UNCHANGED <<handle, seen, stolen, run, dirs, current, cursors>>

RecordWrite(p) ==
  /\ pc[p] = "record_write"
  /\ WriteThrough(p, [pid |-> seen[p].pid, run |-> run[p]])
  /\ Goto(p, IF p \in Resuming THEN "driving" ELSE "mkdir")
  /\ UNCHANGED <<handle, seen, stolen, run, dirs, current, cursors>>

(* create_dir_all succeeds on a directory that is already there.           *)
MakeDirectory(p) ==
  /\ pc[p] = "mkdir"
  /\ dirs' = dirs \cup {run[p]}
  /\ Goto(p, "current")
  /\ UNCHANGED <<files, seen, stolen, run, current, cursors>>

WriteCurrent(p) ==
  /\ pc[p] = "current"
  /\ current' = run[p]
  /\ Goto(p, "driving")
  /\ UNCHANGED <<files, seen, stolen, run, dirs, cursors>>

(* aep_driver::run persists the cursor as it drives: a fresh cursor is     *)
(* built with `took_lock_from: None`, one that was read keeps its value.   *)
PersistCursor(p) ==
  /\ pc[p] = "driving"
  /\ cursors' = [cursors EXCEPT ![run[p]] = IF @ = NoCursor THEN {} ELSE @]
  /\ UNCHANGED <<files, pc, seen, stolen, run, dirs, current>>

(* The driver returns, whatever its report: completed, blocked, paused on  *)
(* an operator, out of budget, or a DriveError.                            *)
Return(p) ==
  /\ pc[p] = "driving"
  /\ Goto(p, "release")
  /\ UNCHANGED <<files, seen, stolen, run, dirs, current, cursors>>

(* HeldLock::release removes whatever file is at the path.                 *)
Release(p) ==
  /\ pc[p] = "release"
  /\ lock' = NoFile
  /\ Goto(p, "exited")
  /\ UNCHANGED <<handle, seen, stolen, run, dirs, current, cursors>>

(* The calls followed by `?` between taking the lock and driving: an I/O   *)
(* error there leaves the function before `lock.release()`.                *)
Fallible == {"write_new", "steal_write", "allocate", "record",
             "record_open", "record_write", "mkdir", "current"}

Fail(p) ==
  /\ pc[p] \in Fallible
  /\ Goto(p, "failed")
  /\ UNCHANGED <<files, seen, stolen, run, dirs, current, cursors>>

(* The process is killed.                                                  *)
Crash(p) ==
  /\ Alive(p) /\ pc[p] # "start"
  /\ Goto(p, "crashed")
  /\ UNCHANGED <<files, seen, stolen, run, dirs, current, cursors>>

TakeLock(p) ==
  \/ CreateNew(p) \/ WriteNew(p) \/ ReadLock(p) \/ Probe(p)
  \/ StealOpen(p) \/ StealWrite(p)

StartRun(p) ==
  \/ AllocateRun(p) \/ RecordRead(p) \/ RecordOpen(p) \/ RecordWrite(p)
  \/ MakeDirectory(p) \/ WriteCurrent(p)

DriveRun(p) == PersistCursor(p) \/ Return(p) \/ Release(p)

Invocation(p) == TakeLock(p) \/ StartRun(p) \/ DriveRun(p) \/ Fail(p) \/ Crash(p)

Next == \E p \in Proc : Invocation(p)

Spec == Init /\ [][Next]_vars

(***************************************************************************)
(* What `--take-lock` needs and the code does not enforce: nobody touches  *)
(* the lock file between the read in take_lock and the overwrite, as a     *)
(* compare-and-swap would guarantee.  With Forcing = {} this is Spec.      *)
(***************************************************************************)
Undisturbed ==
  lock' # lock =>
    \A p \in Forcing : pc[p] \in {"probe", "steal"} => pc'[p] # pc[p]

AtomicTakeoverNext == \E p \in Proc : Invocation(p) /\ Undisturbed

AtomicTakeoverSpec == Init /\ [][AtomicTakeoverNext]_vars

---------------------------------------------------------------------------
(* What the lock file, the run directories and every invocation's own      *)
(* memory hold, whoever wrote last.                                        *)
TypeOK ==
  /\ lock \in LockFile \cup {NoFile}
  /\ pc \in [Proc -> Steps]
  /\ handle \in [Proc -> Inode]
  /\ seen \in [Proc -> Body]
  /\ stolen \in [Proc -> SUBSET Proc]
  /\ run \in [Proc -> Run \cup {NoRun}]
  /\ dirs \subseteq Run
  /\ current \in Run \cup {NoRun}
  /\ cursors \in [Run -> {NoCursor, {}}]

(* An invocation holds the lock, in its own view, from the call that made  *)
(* or overwrote the file until it removes it.                              *)
Holding == {"write_new", "steal_write", "allocate", "record", "record_open",
            "record_write", "mkdir", "current", "driving", "release"}

(* Two invocations never both hold the store lock, so a fixed temporary    *)
(* name is safe: the guarantee run.rs takes from the lock (run.rs 48-51).  *)
OneDriver ==
  \A p, q \in Proc : pc[p] \in Holding /\ pc[q] \in Holding => p = q

(* While a run is driven, the lock on disk names that process and that     *)
(* run: what a refusal prints and what a later liveness probe asks about.  *)
LockNamesDriver ==
  \A p \in Proc : pc[p] = "driving" =>
    /\ lock # NoFile
    /\ lock.body = [pid |-> p, run |-> run[p]]

(* "A run directory is never deleted and never reused" (drive.rs 802-804): *)
(* create_dir_all would accept an existing directory, so the ordinal       *)
(* allocated several steps earlier must still be free when it is created.  *)
DirectoryNeverReused ==
  [][\A p \in Proc :
       pc[p] = "mkdir" /\ pc'[p] = "current" => run[p] \notin dirs]_vars

(* A lock is overwritten only when the process it names is not running.    *)
StolenFromTheDead ==
  [][\A p \in Proc :
       pc[p] = "steal" /\ pc'[p] = "steal_write" /\ Parsed => ~Alive(lock.body.pid)]_vars

(* The lock file, whatever it holds, is a mutex: an invocation owns the    *)
(* store while it holds the lock in its own view, and a file nobody holds  *)
(* is the lock of an invocation that is gone.                              *)
Owner ==
  IF \E p \in Proc : pc[p] \in Holding THEN CHOOSE p \in Proc : pc[p] \in Holding
  ELSE IF lock = NoFile THEN Nobody ELSE Lost

Mutex == INSTANCE StoreMutex WITH owner <- Owner, gone <- {p \in Proc : pc[p] \in Over}

(* What take_lock and release are for (drive.rs 862-910): the files and    *)
(* calls of this module implement the mutex, crashes included.             *)
ImplementsMutex == Mutex!Spec

(* What was stolen "goes into the new run's cursor" (drive.rs 947): a run  *)
(* started under a stolen lock has a cursor that names the old holder.     *)
TheftRecorded ==
  \A p \in Proc :
    pc[p] = "release" /\ p \notin Resuming /\ cursors[run[p]] # NoCursor
      => cursors[run[p]] = stolen[p]

(* release is "called on every exit path the driver controls" (drive.rs    *)
(* 868): an invocation that returned an error leaves no lock of its own.   *)
ReleasedOnEveryExit ==
  \A p \in Proc : pc[p] \in {"exited", "failed"} => ~(Parsed /\ lock.body.pid = p)

(* "Being stale only means a route out exists" (lock.rs 80): a lock no     *)
(* running process holds can be read, which is what --take-lock needs.     *)
StaleLockHasRouteOut ==
  lock # NoFile /\ (\A p \in Proc : ~Alive(p) \/ pc[p] = "start") => Parsed

=============================================================================
