-------------------------- MODULE StoreLockProofs --------------------------
(* Proofs about StoreLock: type correctness of every behaviour, and that   *)
(* the store lock admits one driver whenever no one touches the file       *)
(* between a take-over's read and its overwrite.                           *)
EXTENDS StoreLock, TLAPS

(* Past allocate_run an invocation has its run, and a resume always does.  *)
HasRun(p) ==
  \/ p \in Resuming
  \/ pc[p] \in {"record", "record_open", "record_write", "mkdir", "current",
               "driving", "release"}

RunAllocated == \A p \in Proc : HasRun(p) => run[p] \in Run

TypeInv == TypeOK /\ RunAllocated

LEMMA TypeInit == Init => TypeInv
  BY BoundAssumption, ProcAssumption, SentinelAssumption
  DEF Init, TypeInv, TypeOK, RunAllocated, HasRun, LockFile, Inode, Body, Run,
      Resumed, Steps, Over

LEMMA TypeNext == TypeInv /\ [Next]_vars => TypeInv'
<1>. SUFFICES ASSUME TypeInv, [Next]_vars PROVE TypeInv'
  OBVIOUS
<1>. USE DEF TypeInv
<1>1. CASE UNCHANGED vars
  BY <1>1 DEF TypeOK, RunAllocated, HasRun, vars
<1>2. ASSUME NEW p \in Proc, Invocation(p) PROVE TypeInv'
  <2>. USE DEF TypeOK, RunAllocated, HasRun, Goto, files
  <2>1. CASE CreateNew(p)
    <3>1. TypeOK'
      BY <2>1 DEF CreateNew, LockFile, Inode, Steps
    <3>2. RunAllocated'
      BY <2>1 DEF CreateNew, Steps
    <3>. QED
      BY <3>1, <3>2
  <2>2. CASE WriteNew(p)
    BY <2>2, ProcAssumption DEF WriteNew, WriteThrough, LockFile, Body, Steps, AfterTaking
  <2>3. CASE ReadLock(p)
    BY <2>3 DEF ReadLock, Parsed, LockFile, Steps, Over
  <2>4. CASE Probe(p)
    BY <2>4 DEF Probe, Steps, Over
  <2>5. CASE StealOpen(p)
    BY <2>5 DEF StealOpen, OpenTruncate, LockFile, Inode, Steps
  <2>6. CASE StealWrite(p)
    BY <2>6 DEF StealWrite, WriteThrough, LockFile, Body, Steps, AfterTaking
  <2>7. CASE AllocateRun(p)
    BY <2>7 DEF AllocateRun, Steps
  <2>8. CASE RecordRead(p)
    BY <2>8 DEF RecordRead, Parsed, LockFile, Steps, Over
  <2>9. CASE RecordOpen(p)
    BY <2>9 DEF RecordOpen, OpenTruncate, LockFile, Inode, Steps
  <2>10. CASE RecordWrite(p)
    BY <2>10 DEF RecordWrite, WriteThrough, LockFile, Body, Steps
  <2>11. CASE MakeDirectory(p)
    BY <2>11 DEF MakeDirectory, Steps
  <2>12. CASE WriteCurrent(p)
    BY <2>12 DEF WriteCurrent, Steps
  <2>13. CASE PersistCursor(p)
    BY <2>13 DEF PersistCursor
  <2>14. CASE Return(p)
    BY <2>14 DEF Return, Steps
  <2>15. CASE Release(p)
    BY <2>15 DEF Release, Steps, Over
  <2>16. CASE Fail(p)
    BY <2>16 DEF Fail, Steps, Over
  <2>17. CASE Crash(p)
    BY <2>17 DEF Crash, Steps, Over
  <2>. QED
    BY <1>2, <2>1, <2>2, <2>3, <2>4, <2>5, <2>6, <2>7, <2>8, <2>9, <2>10, <2>11,
       <2>12, <2>13, <2>14, <2>15, <2>16, <2>17
    DEF Invocation, TakeLock, StartRun, DriveRun
<1>. QED
  BY <1>1, <1>2 DEF Next

(* Every behaviour of the lock protocol, with any number of invocations,   *)
(* hosts and take-overs, keeps its variables in their types.               *)
THEOREM TypeCorrect == Spec => []TypeOK
<1>. QED
  BY TypeInit, TypeNext, PTL DEF Spec, TypeInv

---------------------------------------------------------------------------
(* A forcing invocation that has read the lock file finds it untouched,    *)
(* and the process it names is dead once the probe has said so.            *)
ReadIsCurrent(p) ==
  p \in Forcing /\ pc[p] \in {"probe", "steal"} => Parsed /\ lock.body = seen[p]

StealsFromTheDead(p) ==
  pc[p] = "steal" => p \in Forcing /\ ~Alive(seen[p].pid)

(* While someone holds the lock, the file exists and is theirs.            *)
HolderHasFile(p) ==
  pc[p] \in Holding => lock # NoFile /\ (Parsed => lock.body.pid = p)

(* record_run rewrites the body it read, which is the holder's own.        *)
RecordsItself(p) ==
  /\ pc[p] \in {"record_open", "record_write"} => seen[p].pid = p
  /\ pc[p] = "record_write" => lock.inode = handle[p] /\ lock.body = Empty
  /\ pc[p] \in {"mkdir", "current", "driving"} =>
       lock.body = [pid |-> p, run |-> run[p]]

(* A resume makes no directory, and the ordinal a run allocated is free    *)
(* until its directory is made.                                            *)
OrdinalIsFree(p) ==
  /\ p \in Resuming => pc[p] \notin {"allocate", "mkdir"}
  /\ p \notin Resuming /\ pc[p] \in {"record", "record_open", "record_write", "mkdir"}
       => run[p] \notin dirs

Owns(p) ==
  /\ ReadIsCurrent(p)
  /\ StealsFromTheDead(p)
  /\ HolderHasFile(p)
  /\ RecordsItself(p)
  /\ OrdinalIsFree(p)

LockInv == TypeInv /\ OneDriver /\ \A p \in Proc : Owns(p)

LEMMA LockInvInit == Init => LockInv
<1>. SUFFICES ASSUME Init PROVE LockInv
  OBVIOUS
<1>1. TypeInv
  BY TypeInit
<1>. QED
  BY <1>1, ProcAssumption
  DEF Init, LockInv, OneDriver, Owns, ReadIsCurrent, StealsFromTheDead,
      HolderHasFile, RecordsItself, OrdinalIsFree, Holding

(* What an invocation's step leaves alone: the other invocations, and no   *)
(* step is taken by one that is over.                                      *)
LEMMA Frame ==
  ASSUME TypeOK, NEW q \in Proc, Invocation(q), NEW p \in Proc, p # q
  PROVE  /\ pc'[p] = pc[p] /\ handle'[p] = handle[p]
         /\ seen'[p] = seen[p] /\ run'[p] = run[p]
         /\ Alive(q)
  BY DEF TypeOK, Invocation, TakeLock, StartRun, DriveRun, Goto, files, Alive, Over,
      OpenTruncate, Fallible,
      CreateNew, WriteNew, ReadLock, Probe, StealOpen, StealWrite, AllocateRun, RecordRead, RecordOpen,
      RecordWrite, MakeDirectory, WriteCurrent, PersistCursor, Return, Release, Fail, Crash

(* A step of one invocation leaves the lock file of another that holds it: *)
(* the others are kept out by create_new, by the refusal of a living       *)
(* holder, and by there being one holder to release.                       *)
LEMMA OthersLeaveTheLock ==
  ASSUME LockInv, NEW p \in Proc, NEW q \in Proc, p # q, pc[p] \in Holding,
         Invocation(q)
  PROVE  lock' = lock /\ dirs' = dirs /\ pc'[q] \notin Holding
<1>1. pc[q] \notin Holding /\ lock # NoFile /\ (Parsed => lock.body.pid = p)
  BY DEF LockInv, OneDriver, Owns, HolderHasFile
<1>2. pc[q] # "steal"
  <2>. SUFFICES ASSUME pc[q] = "steal" PROVE FALSE
    OBVIOUS
  <2>1. lock.body.pid = p /\ ~Alive(lock.body.pid)
    BY <1>1 DEF LockInv, Owns, ReadIsCurrent, StealsFromTheDead
  <2>. QED
    BY <2>1 DEF Alive, Over, Holding
<1>. QED
  BY <1>1, <1>2
  DEF LockInv, TypeInv, TypeOK, Invocation, TakeLock, StartRun, DriveRun, Holding, Goto, files,
      Over,
      CreateNew, WriteNew, ReadLock, Probe, StealOpen, StealWrite, AllocateRun, RecordRead, RecordOpen,
      RecordWrite, MakeDirectory, WriteCurrent, PersistCursor, Return, Release, Fail, Crash

(* What the step of q does to the facts about another invocation p.        *)
LEMMA OthersKeepTheirs ==
  ASSUME LockInv, NEW q \in Proc, Invocation(q), Undisturbed, NEW p \in Proc, p # q
  PROVE  Owns(p)'
<1>1. TypeOK /\ Owns(p)
  BY DEF LockInv, TypeInv
<1>2. /\ pc'[p] = pc[p] /\ handle'[p] = handle[p]
      /\ seen'[p] = seen[p] /\ run'[p] = run[p]
  BY <1>1, Frame
<1>3. pc[p] \in Holding => lock' = lock /\ dirs' = dirs
  BY OthersLeaveTheLock
<1>4. ReadIsCurrent(p)'
  BY <1>1, <1>2, ProcAssumption DEF Owns, ReadIsCurrent, Undisturbed, Parsed
<1>5. StealsFromTheDead(p)'
  <2>1. seen[p].pid \in Proc
    BY <1>1 DEF TypeOK, Body
  <2>2. ~Alive(seen[p].pid) => pc'[seen[p].pid] = pc[seen[p].pid]
    BY <1>1, <2>1, Frame
  <2>. QED
    BY <1>1, <1>2, <2>2 DEF Owns, StealsFromTheDead, Alive
<1>6. HolderHasFile(p)'
  BY <1>1, <1>2, <1>3 DEF Owns, HolderHasFile, Parsed
<1>7. RecordsItself(p)' /\ OrdinalIsFree(p)'
  BY <1>1, <1>2, <1>3 DEF Owns, RecordsItself, OrdinalIsFree, Holding
<1>. QED
  BY <1>4, <1>5, <1>6, <1>7 DEF Owns

(* A write through a handle to the file at the path leaves a file there,   *)
(* with the body written unless another writer's bytes were in the way.    *)
LEMMA WriteReaches ==
  ASSUME TypeOK, NEW p, NEW b \in Body, lock # NoFile, WriteThrough(p, b)
  PROVE  /\ lock' # NoFile
         /\ lock' = lock \/ lock'.body \in {b, Garbled}
         /\ lock.inode = handle[p] /\ lock.body = Empty => lock'.body = b
<1>1. lock \in LockFile
  BY DEF TypeOK
<1>2. lock' = lock \/ \E x \in {b, Garbled} : lock' = [lock EXCEPT !.body = x]
  BY DEF WriteThrough
<1>3. lock' \in LockFile
  BY <1>1, <1>2 DEF LockFile
<1>. QED
  BY <1>1, <1>3, SentinelAssumption DEF LockFile, WriteThrough

LEMMA LockInvNext == LockInv /\ [AtomicTakeoverNext]_vars => LockInv'
<1>. SUFFICES ASSUME LockInv, [AtomicTakeoverNext]_vars PROVE LockInv'
  OBVIOUS
<1>1. TypeInv'
  BY TypeNext DEF LockInv, AtomicTakeoverNext, Next
<1>2. CASE UNCHANGED vars
  BY <1>1, <1>2
  DEF vars, LockInv, OneDriver, Owns, ReadIsCurrent, StealsFromTheDead, HolderHasFile,
      RecordsItself, OrdinalIsFree, Parsed, Alive
<1>3. ASSUME NEW q \in Proc, Invocation(q), Undisturbed PROVE LockInv'
  <2>1. OneDriver'
    BY <1>3, OthersLeaveTheLock, Frame DEF LockInv, TypeInv, OneDriver
  <2>2. \A p \in Proc \ {q} : Owns(p)'
    BY <1>3, OthersKeepTheirs
  <2>3. TypeOK /\ TypeOK' /\ Owns(q)
    BY <1>1 DEF LockInv, TypeInv
  <2>4. Owns(q)'
    <3>. USE <1>3, <2>3, ProcAssumption, SentinelAssumption
         DEF TypeOK, Owns, ReadIsCurrent, StealsFromTheDead, HolderHasFile,
             RecordsItself, OrdinalIsFree, Holding, Parsed, Goto, files, Over
    <3>1. CASE CreateNew(q)
      BY <3>1 DEF CreateNew, LockFile, Inode
    <3>2. CASE WriteNew(q)
      <4>1. lock' # NoFile /\ (lock' = lock \/ lock'.body \in {[pid |-> q, run |-> NoRun], Garbled})
        BY <3>2, WriteReaches DEF WriteNew, Body
      <4>. QED
        BY <3>2, <4>1 DEF WriteNew, AfterTaking
    <3>3. CASE ReadLock(q)
      BY <3>3 DEF ReadLock
    <3>4. CASE Probe(q)
      <4>1. pc'[q] = "steal" => q \in Forcing /\ "Dead" \in Liveness(q)
        BY <3>4 DEF Probe
      <4>2. pc'[q] = "steal" => ~Alive(seen[q].pid)'
        BY <3>4, <4>1, Frame DEF Probe, Liveness, Alive, Body
      <4>. QED
        BY <3>4, <4>1, <4>2 DEF Probe
    <3>5. CASE StealOpen(q)
      BY <3>5 DEF StealOpen, OpenTruncate, LockFile, Inode
    <3>6. CASE StealWrite(q)
      <4>1. lock' # NoFile /\ (lock' = lock \/ lock'.body \in {[pid |-> q, run |-> NoRun], Garbled})
        BY <3>6, WriteReaches DEF StealWrite, Body
      <4>. QED
        BY <3>6, <4>1 DEF StealWrite, AfterTaking
    <3>7. CASE AllocateRun(q)
      BY <3>7 DEF AllocateRun, Highest, Run
    <3>8. CASE RecordRead(q)
      BY <3>8 DEF RecordRead
    <3>9. CASE RecordOpen(q)
      BY <3>9 DEF RecordOpen, OpenTruncate, LockFile, Inode
    <3>10. CASE RecordWrite(q)
      <4>1. [pid |-> q, run |-> run[q]] \in Body /\ seen[q].pid = q
        BY <3>10, <1>1 DEF RecordWrite, TypeInv, RunAllocated, HasRun, Body
      <4>2. lock' # NoFile /\ lock'.body = [pid |-> q, run |-> run[q]]
        BY <3>10, <4>1, WriteReaches DEF RecordWrite
      <4>. QED
        BY <3>10, <4>2 DEF RecordWrite
    <3>11. CASE MakeDirectory(q)
      BY <3>11 DEF MakeDirectory
    <3>12. CASE WriteCurrent(q)
      BY <3>12 DEF WriteCurrent
    <3>13. CASE PersistCursor(q)
      BY <3>13 DEF PersistCursor
    <3>14. CASE Return(q)
      BY <3>14 DEF Return
    <3>15. CASE Release(q)
      BY <3>15 DEF Release
    <3>16. CASE Fail(q)
      BY <3>16 DEF Fail
    <3>17. CASE Crash(q)
      BY <3>17 DEF Crash
    <3>. QED
      BY <3>1, <3>2, <3>3, <3>4, <3>5, <3>6, <3>7, <3>8, <3>9, <3>10, <3>11, <3>12, <3>13, <3>14, <3>15, <3>16, <3>17
      DEF Invocation, TakeLock, StartRun, DriveRun
  <2>. QED
    BY <1>1, <2>1, <2>2, <2>4 DEF LockInv
<1>. QED
  BY <1>2, <1>3 DEF AtomicTakeoverNext

(* For any number of invocations and any number of `--take-lock`s, the     *)
(* store lock admits one driver, as long as the file is not touched        *)
(* between a take-over's read and its overwrite.                           *)
THEOREM TakeoverIsExclusive == AtomicTakeoverSpec => []OneDriver
<1>1. LockInv => OneDriver
  BY DEF LockInv, Owns, HolderHasFile, Holding
<1>. QED
  BY <1>1, LockInvInit, LockInvNext, PTL DEF AtomicTakeoverSpec

(* Under the same condition the lock on disk names who drives, and the run *)
(* it drives once that is recorded (drive.rs, HeldLock::record_run).       *)
THEOREM TheLockNamesItsDriver == AtomicTakeoverSpec => []LockNamesDriver
<1>1. LockInv => LockNamesDriver
  BY DEF LockInv, Owns, HolderHasFile, RecordsItself, LockNamesDriver, Holding
<1>. QED
  BY <1>1, LockInvInit, LockInvNext, PTL DEF AtomicTakeoverSpec

(* Under the same condition no run directory is ever given to a second     *)
(* run: the ordinal allocate_run found is still free at create_dir_all.    *)
THEOREM DirectoriesAreFresh == AtomicTakeoverSpec => DirectoryNeverReused
<1>1. LockInv /\ [AtomicTakeoverNext]_vars =>
        [\A p \in Proc : pc[p] = "mkdir" /\ pc'[p] = "current" => run[p] \notin dirs]_vars
  <2>. SUFFICES ASSUME LockInv, AtomicTakeoverNext, NEW p \in Proc,
                       pc[p] = "mkdir", pc'[p] = "current"
                PROVE  run[p] \notin dirs
    OBVIOUS
  <2>1. p \notin Resuming
    BY DEF LockInv, Owns, OrdinalIsFree
  <2>. QED
    BY <2>1 DEF LockInv, Owns, OrdinalIsFree
<1>. QED
  BY <1>1, LockInvInit, LockInvNext, PTL DEF AtomicTakeoverSpec, DirectoryNeverReused

(* Under the same condition a lock is only ever overwritten when the       *)
(* process it names is no longer running.                                  *)
THEOREM TheLivingKeepTheirLock == AtomicTakeoverSpec => StolenFromTheDead
<1>1. LockInv /\ [AtomicTakeoverNext]_vars =>
        [\A p \in Proc : pc[p] = "steal" /\ pc'[p] = "steal_write" /\ Parsed
           => ~Alive(lock.body.pid)]_vars
  BY DEF LockInv, Owns, ReadIsCurrent, StealsFromTheDead
<1>. QED
  BY <1>1, LockInvInit, LockInvNext, PTL DEF AtomicTakeoverSpec, StolenFromTheDead

---------------------------------------------------------------------------
(* The files implement the mutex                                           *)

(* One holder is the owner; nobody's file is a lost lock.                  *)
LEMMA OwnerIs ==
  ASSUME OneDriver
  PROVE  /\ \A p \in Proc : pc[p] \in Holding => Owner = p
         /\ (\A p \in Proc : pc[p] \notin Holding)
              => Owner = IF lock = NoFile THEN Nobody ELSE Lost
  BY DEF Owner, OneDriver

(* Who takes part in a step: q enters Holding from a free or a lost lock,  *)
(* leaves it by a release or for good, or neither.                         *)
Keeps(q) ==
  /\ pc'[q] \notin Over
  /\ pc[q] \in Holding <=> pc'[q] \in Holding
  /\ lock = NoFile <=> lock' = NoFile

Gives(q) ==
  /\ pc[q] \in Holding \cup {"start", "read", "probe", "steal"} /\ pc'[q] \in Over
  /\ lock' = lock

Takes(q) ==
  /\ pc[q] \in {"start", "steal"} /\ pc'[q] \in Holding
  /\ pc[q] = "start" => lock = NoFile
  /\ pc[q] = "steal" => lock # NoFile

Frees(q) ==
  pc[q] = "release" /\ pc'[q] = "exited" /\ lock' = NoFile

LEMMA StepKinds ==
  ASSUME LockInv, NEW q \in Proc, Invocation(q)
  PROVE  Keeps(q) \/ Gives(q) \/ Takes(q) \/ Frees(q)
<1>1. TypeOK /\ Owns(q)
  BY DEF LockInv, TypeInv
<1>. USE <1>1, SentinelAssumption
     DEF TypeOK, Holding, Over, Goto, files, Keeps, Gives, Takes, Frees
<1>2. CASE CreateNew(q)
  BY <1>2 DEF CreateNew, LockFile, Inode
<1>3. CASE WriteNew(q) \/ StealWrite(q) \/ RecordWrite(q)
  <2>1. lock # NoFile
    BY <1>3 DEF Owns, HolderHasFile, WriteNew, StealWrite, RecordWrite
  <2>2. /\ [pid |-> q, run |-> NoRun] \in Body
        /\ RecordWrite(q) => [pid |-> seen[q].pid, run |-> run[q]] \in Body
    BY DEF LockInv, TypeInv, RunAllocated, HasRun, RecordWrite, Body
  <2>3. lock' # NoFile
    BY <1>3, <2>1, <2>2, WriteReaches DEF WriteNew, StealWrite, RecordWrite
  <2>. QED
    BY <1>3, <2>1, <2>3 DEF WriteNew, StealWrite, RecordWrite, AfterTaking
<1>4. CASE ReadLock(q) \/ Probe(q)
  BY <1>4 DEF ReadLock, Probe
<1>5. CASE StealOpen(q)
  BY <1>5 DEF StealOpen, OpenTruncate, Owns, ReadIsCurrent, StealsFromTheDead, Parsed
<1>6. CASE AllocateRun(q) \/ MakeDirectory(q) \/ WriteCurrent(q) \/ PersistCursor(q) \/ Return(q)
  BY <1>6 DEF AllocateRun, MakeDirectory, WriteCurrent, PersistCursor, Return
<1>7. CASE RecordRead(q)
  BY <1>7 DEF RecordRead
<1>8. CASE RecordOpen(q)
  BY <1>8 DEF RecordOpen, OpenTruncate, Owns, HolderHasFile, LockFile
<1>9. CASE Release(q)
  BY <1>9 DEF Release
<1>10. CASE Fail(q) \/ Crash(q)
  BY <1>10 DEF Fail, Crash, Fallible, Alive, Steps
<1>. QED
  BY <1>2, <1>3, <1>4, <1>5, <1>6, <1>7, <1>8, <1>9, <1>10
  DEF Invocation, TakeLock, StartRun, DriveRun

(* What a step of q does to the owner, whoever the others are.             *)
LEMMA OwnerNext ==
  ASSUME LockInv, NEW q \in Proc, Invocation(q), Undisturbed, LockInv'
  PROVE  [Mutex!Next]_<<Owner, {p \in Proc : pc[p] \in Over}>>
<1>. DEFINE gone == {p \in Proc : pc[p] \in Over}
<1>1. /\ OneDriver /\ OneDriver' /\ TypeOK /\ TypeOK'
      /\ \A p \in Proc : pc[p] \in Holding => lock # NoFile
      /\ \A p \in Proc : pc'[p] \in Holding => lock' # NoFile
  BY DEF LockInv, TypeInv, Owns, HolderHasFile
<1>2. \A p \in Proc \ {q} : pc'[p] = pc[p]
  BY <1>1, Frame
<1>3. \A p \in Proc \ {q} : pc[p] \in Holding => lock' = lock /\ pc'[q] \notin Holding
  BY OthersLeaveTheLock
<1>4. q \notin gone
  BY <1>1, Frame DEF Alive, Over, Invocation, TakeLock, StartRun, DriveRun, Fallible,
     CreateNew, WriteNew, ReadLock, Probe, StealOpen, StealWrite, AllocateRun, RecordRead,
     RecordOpen, RecordWrite, MakeDirectory, WriteCurrent, PersistCursor, Return, Release, Fail, Crash
<1>5. /\ \A p \in Proc : pc[p] \in Holding => Owner = p
      /\ (\A p \in Proc : pc[p] \notin Holding) => Owner = IF lock = NoFile THEN Nobody ELSE Lost
  BY <1>1, OwnerIs
<1>6. /\ \A p \in Proc : pc'[p] \in Holding => Owner' = p
      /\ (\A p \in Proc : pc'[p] \notin Holding) => Owner' = IF lock' = NoFile THEN Nobody ELSE Lost
  BY <1>1 DEF OneDriver, Owner
<1>. HIDE DEF Owner
<1>7. Over \cap Holding = {}
  BY DEF Over, Holding
<1>8. CASE Keeps(q)
  <2>1. gone' = gone
    BY <1>2, <1>4, <1>8 DEF Keeps
  <2>2. Owner' = Owner
    BY <1>2, <1>5, <1>6, <1>8 DEF Keeps
  <2>. QED
    BY <2>1, <2>2
<1>9. CASE Takes(q)
  <2>1. gone' = gone
    BY <1>2, <1>4, <1>7, <1>9 DEF Takes
  <2>2. Owner' = q
    BY <1>6, <1>9 DEF Takes
  <2>3. \A p \in Proc : pc[p] \notin Holding
    BY <1>3, <1>9 DEF Takes, Holding
  <2>4. Owner \in {Nobody, Lost}
    BY <1>5, <2>3
  <2>. QED
    BY <1>4, <2>1, <2>2, <2>4 DEF Mutex!Next, Mutex!Acquire, Mutex!TakeOver
<1>10. CASE Frees(q)
  <2>1. gone' = gone \cup {q} /\ Owner = q
    BY <1>2, <1>5, <1>10 DEF Frees, Over, Holding
  <2>2. Owner' = Nobody
    BY <1>1, <1>6, <1>10 DEF Frees
  <2>. QED
    BY <1>4, <2>1, <2>2 DEF Mutex!Next, Mutex!Release
<1>11. CASE Gives(q)
  <2>1. gone' = gone \cup {q}
    BY <1>2, <1>11 DEF Gives
  <2>2. Owner' = IF Owner = q THEN Lost ELSE Owner
    <3>1. CASE pc[q] \in Holding
      <4>1. \A p \in Proc : pc'[p] \notin Holding
        BY <1>1, <1>2, <1>7, <1>11, <3>1 DEF Gives, OneDriver
      <4>. QED
        BY <1>1, <1>5, <1>6, <1>11, <3>1, <4>1 DEF Gives
    <3>2. CASE pc[q] \notin Holding
      <4>1. Owner' = Owner
        BY <1>2, <1>5, <1>6, <1>7, <1>11, <3>2 DEF Gives
      <4>2. Owner # q
        BY <1>5, <3>2, OwnerAssumption
      <4>. QED
        BY <4>1, <4>2
    <3>. QED
      BY <3>1, <3>2
  <2>. QED
    BY <1>4, <2>1, <2>2 DEF Mutex!Next, Mutex!Leave
<1>. QED
  BY <1>8, <1>9, <1>10, <1>11, StepKinds

(* For any number of invocations, hosts and take-overs that nobody         *)
(* disturbs, the calls on the lock file implement a mutex whose lock is    *)
(* passed on only when its owner is gone (drive.rs 862-958).               *)
THEOREM FilesImplementTheMutex == AtomicTakeoverSpec => ImplementsMutex
<1>1. Init => Mutex!Init
  BY DEF Init, Mutex!Init, Owner, Holding, Over
<1>2. LockInv /\ LockInv' /\ [AtomicTakeoverNext]_vars
        => [Mutex!Next]_<<Owner, {p \in Proc : pc[p] \in Over}>>
  <2>1. CASE UNCHANGED vars
    BY <2>1 DEF vars, Owner
  <2>. QED
    BY <2>1, OwnerNext DEF AtomicTakeoverNext
<1>. QED
  BY <1>1, <1>2, LockInvInit, LockInvNext, PTL
  DEF AtomicTakeoverSpec, ImplementsMutex, Mutex!Spec, Mutex!vars

=============================================================================
