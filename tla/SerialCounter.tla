--------------------------- MODULE SerialCounter ---------------------------
(***************************************************************************)
(* MonotonicSerialCounter: the persisted invoice serial of one fiscal      *)
(* memory (backend/src/moadian/pipeline.py).                               *)
(*                                                                         *)
(* A caller is one thread executing `counter()` or `counter.current`.      *)
(* Several callers may share one counter object (and so its thread lock),  *)
(* or each use an object of their own, as the HTTP API does: it builds a   *)
(* new counter for every request.  Objects live in processes, which may    *)
(* be killed between any two steps; a power failure stops all of them and  *)
(* may also undo directory entries that were not yet flushed.              *)
(*                                                                         *)
(* `with self._thread_lock, self._exclusive()` is split at every system    *)
(* call, because another thread, a crash or an I/O error can come between  *)
(* any two of them.                                                        *)
(***************************************************************************)
EXTENDS Integers, FiniteSets

CONSTANTS
  Caller,       \* threads that use the counter
  Counter,      \* MonotonicSerialCounter objects on one path
  Process,      \* operating system processes
  CounterOf,    \* the object each caller uses
  ProcessOf,    \* the process each caller runs in
  NoCaller,     \* nobody holds the lock
  HasFlock,     \* fcntl could be imported (FALSE on Windows)
  MaxSerial,    \* MAX_SERIAL: the largest serial ten hex digits hold
  MayCorrupt    \* something outside the program may overwrite the file

ASSUME CallerAssumption ==
  /\ CounterOf \in [Caller -> Counter]
  /\ ProcessOf \in [Caller -> Process]
  /\ NoCaller \notin Caller
  \* an object is memory of one process
  /\ \A c, d \in Caller : CounterOf[c] = CounterOf[d] => ProcessOf[c] = ProcessOf[d]

ASSUME SerialAssumption ==
  /\ MaxSerial \in Nat \ {0}
  /\ HasFlock \in BOOLEAN
  /\ MayCorrupt \in BOOLEAN

VARIABLES
  pc,          \* where each caller is
  op,          \* "next" for counter(), "current" for the property
  serial,      \* the local variable each call will return
  raised,      \* the call is unwinding with an exception
  flushed,     \* the caller's temporary file has been fsynced
  threadLock,  \* holder of each object's threading.Lock
  flock,       \* holder of the advisory lock on the sidecar file
  file,        \* what the path holds now
  survivors,   \* what the path may hold after a power failure
  issued,      \* history: how often each serial was returned to a caller
  before       \* history: the serials returned when each call began

vars == <<pc, op, serial, raised, flushed, threadLock, flock, file,
          survivors, issued, before>>

local  == <<op, serial, raised, flushed, before>>
locks  == <<threadLock, flock>>
disk   == <<file, survivors>>

Serials == 1 .. MaxSerial

(***************************************************************************)
(* Contents of the value file.  A number may be negative, and garbage is   *)
(* anything int() refuses; _read raises for both.  A missing file reads    *)
(* as 0.                                                                   *)
(***************************************************************************)
Number(n) == [kind |-> "number", n |-> n]
Absent    == [kind |-> "absent", n |-> 0]
Garbage   == [kind |-> "garbage", n |-> 0]

Contents == [kind : {"number", "absent", "garbage"}, n : {-1, 0} \union Serials]

Readable(f) == f.kind # "garbage" /\ f.n >= 0

Returned == {s \in Serials : issued[s] > 0}

Init ==
  /\ pc = [c \in Caller |-> "idle"]
  /\ op = [c \in Caller |-> "next"]
  /\ serial = [c \in Caller |-> 0]
  /\ raised = [c \in Caller |-> FALSE]
  /\ flushed = [c \in Caller |-> FALSE]
  /\ threadLock = [o \in Counter |-> NoCaller]
  /\ flock = NoCaller
  /\ file = Absent
  /\ survivors = {Absent}
  /\ issued = [s \in Serials |-> 0]
  /\ before = [c \in Caller |-> {}]

Goto(c, from, to) == pc[c] = from /\ pc' = [pc EXCEPT ![c] = to]

\* The callers in gone are back where they started, their locals forgotten.
Forget(gone) ==
  /\ pc' = [c \in Caller |-> IF c \in gone THEN "idle" ELSE pc[c]]
  /\ op' = [c \in Caller |-> IF c \in gone THEN "next" ELSE op[c]]
  /\ serial' = [c \in Caller |-> IF c \in gone THEN 0 ELSE serial[c]]
  /\ raised' = [c \in Caller |-> IF c \in gone THEN FALSE ELSE raised[c]]
  /\ flushed' = [c \in Caller |-> IF c \in gone THEN FALSE ELSE flushed[c]]
  /\ before' = [c \in Caller |-> IF c \in gone THEN {} ELSE before[c]]

(***************************************************************************)
(* Entering the two locks.                                                 *)
(***************************************************************************)
Call(c, what) ==
  /\ Goto(c, "idle", "lock")
  /\ op' = [op EXCEPT ![c] = what]
  /\ before' = [before EXCEPT ![c] = Returned]
  /\ UNCHANGED <<serial, raised, flushed, locks, disk, issued>>

AcquireThreadLock(c) ==
  /\ Goto(c, "lock", "flock")
  /\ threadLock[CounterOf[c]] = NoCaller
  /\ threadLock' = [threadLock EXCEPT ![CounterOf[c]] = c]
  /\ UNCHANGED <<local, flock, disk, issued>>

\* Mutant: the file lock is taken shared, so it never waits.
AcquireFlockShared(c) ==
  /\ Goto(c, "flock", "read")
  /\ flock' = c
  /\ UNCHANGED <<local, threadLock, disk, issued>>

\* _exclusive(): open the sidecar and flock it, or just yield without fcntl.
AcquireFlock(c) ==
  /\ Goto(c, "flock", "read")
  /\ IF HasFlock THEN flock = NoCaller /\ flock' = c ELSE UNCHANGED flock
  /\ UNCHANGED <<local, threadLock, disk, issued>>

(***************************************************************************)
(* The body of the with statement.                                         *)
(***************************************************************************)
\* Mutant: a file that is not a number counts as no serial issued.
ReadCurrentLenient(c) ==
  /\ op[c] = "current"
  /\ Goto(c, "read", "unflock")
  /\ serial' = [serial EXCEPT ![c] = IF Readable(file) THEN file.n ELSE 0]
  /\ UNCHANGED <<op, raised, flushed, before, locks, disk, issued>>

\* counter.current: report the value and consume nothing.
ReadCurrent(c) ==
  /\ op[c] = "current"
  /\ Readable(file)
  /\ Goto(c, "read", "unflock")
  /\ serial' = [serial EXCEPT ![c] = file.n]
  /\ UNCHANGED <<op, raised, flushed, before, locks, disk, issued>>

\* Mutant: no check against MAX_SERIAL.
ReadNextUnchecked(c) ==
  /\ op[c] = "next"
  /\ Readable(file)
  /\ Goto(c, "read", "write")
  /\ serial' = [serial EXCEPT ![c] = file.n + 1]
  /\ UNCHANGED <<op, raised, flushed, before, locks, disk, issued>>

\* Mutant: an exhausted counter starts over.
ReadNextWraps(c) ==
  /\ op[c] = "next"
  /\ Readable(file)
  /\ Goto(c, "read", "write")
  /\ serial' = [serial EXCEPT ![c] = (file.n % MaxSerial) + 1]
  /\ UNCHANGED <<op, raised, flushed, before, locks, disk, issued>>

\* counter(): the next serial, unless the ten digits are used up.
ReadNext(c) ==
  /\ op[c] = "next"
  /\ Readable(file)
  /\ file.n + 1 <= MaxSerial
  /\ Goto(c, "read", "write")
  /\ serial' = [serial EXCEPT ![c] = file.n + 1]
  /\ UNCHANGED <<op, raised, flushed, before, locks, disk, issued>>

\* An unreadable, non-integer or negative file, or an exhausted counter.
ReadRefuses(c) ==
  /\ ~ Readable(file) \/ (op[c] = "next" /\ file.n + 1 > MaxSerial)
  /\ Goto(c, "read", "unflock")
  /\ raised' = [raised EXCEPT ![c] = TRUE]
  /\ UNCHANGED <<op, serial, flushed, before, locks, disk, issued>>

\* Mutant: the temporary file is renamed without os.fsync.
WriteTempUnflushed(c) ==
  /\ Goto(c, "write", "replace")
  /\ UNCHANGED <<local, locks, disk, issued>>

\* mkstemp, write and flush: the data may still be in the page cache.
WriteTemp(c) ==
  /\ Goto(c, "write", "fsync")
  /\ UNCHANGED <<local, locks, disk, issued>>

FsyncTemp(c) ==
  /\ Goto(c, "fsync", "replace")
  /\ flushed' = [flushed EXCEPT ![c] = TRUE]
  /\ UNCHANGED <<op, serial, raised, before, locks, disk, issued>>

\* os.replace: visible at once, but until the directory is flushed a power
\* failure may bring back any entry it had since the last flush.  Data that
\* was never flushed may come back as anything.
ReplaceFile(c) ==
  /\ Goto(c, "replace", "fsyncdir")
  /\ file' = Number(serial[c])
  /\ survivors' = survivors \union {Number(serial[c])}
                    \union (IF flushed[c] THEN {} ELSE {Garbage})
  /\ UNCHANGED <<local, locks, issued>>

\* Mutant: the flush of the directory does nothing.
FsyncNothing(c) ==
  /\ Goto(c, "fsyncdir", "unflock")
  /\ UNCHANGED <<local, locks, disk, issued>>

FsyncDir(c) ==
  /\ Goto(c, "fsyncdir", "unflock")
  /\ survivors' = {file}
  /\ UNCHANGED <<local, locks, file, issued>>

\* Mutant: an error while flushing the directory is swallowed.
IOErrorSwallowed(c) ==
  /\ Goto(c, "fsyncdir", "unflock")
  /\ UNCHANGED <<local, locks, disk, issued>>

\* Mutant: the file lock is not released on the raising path.
IOErrorKeepsFlock(c) ==
  /\ pc[c] \in {"flock", "read", "write", "fsync", "replace", "fsyncdir"}
  /\ pc' = [pc EXCEPT ![c] = "return"]
  /\ raised' = [raised EXCEPT ![c] = TRUE]
  /\ UNCHANGED <<op, serial, flushed, before, locks, disk, issued>>

\* Any system call may fail: the temporary file is unlinked and the exception
\* leaves both with statements, which release what they hold.
IOError(c) ==
  /\ \/ pc[c] = "flock" /\ pc' = [pc EXCEPT ![c] = "return"]
     \/ /\ pc[c] \in {"read", "write", "fsync", "replace", "fsyncdir"}
        /\ pc' = [pc EXCEPT ![c] = "unflock"]
  /\ raised' = [raised EXCEPT ![c] = TRUE]
  /\ UNCHANGED <<op, serial, flushed, before, locks, disk, issued>>

(***************************************************************************)
(* Leaving the two locks, in the opposite order.                           *)
(***************************************************************************)
ReleaseFlock(c) ==
  /\ Goto(c, "unflock", "return")
  /\ IF HasFlock THEN flock' = NoCaller ELSE UNCHANGED flock
  /\ UNCHANGED <<local, threadLock, disk, issued>>

Return(c) ==
  /\ pc[c] = "return"
  /\ Forget({c})
  /\ threadLock' = [threadLock EXCEPT ![CounterOf[c]] = NoCaller]
  /\ issued' = IF op[c] = "next" /\ ~ raised[c]
                 THEN [issued EXCEPT ![serial[c]] = @ + 1]
                 ELSE issued
  /\ UNCHANGED <<flock, disk>>

Step(c) ==
  \/ AcquireThreadLock(c) \/ AcquireFlock(c)
  \/ ReadCurrent(c) \/ ReadNext(c) \/ ReadRefuses(c)
  \/ WriteTemp(c) \/ FsyncTemp(c) \/ ReplaceFile(c) \/ FsyncDir(c)
  \/ ReleaseFlock(c) \/ Return(c)

(***************************************************************************)
(* What happens to the counter from outside.                               *)
(***************************************************************************)
\* The kernel drops the locks of the threads it kills; their temporary files
\* stay behind under names nobody reads.
Kill(dead) ==
  /\ Forget(dead)
  /\ threadLock' = [o \in Counter |->
                     IF threadLock[o] \in dead THEN NoCaller ELSE threadLock[o]]
  /\ flock' = IF flock \in dead THEN NoCaller ELSE flock

CrashProcess(p) ==
  /\ Kill({c \in Caller : ProcessOf[c] = p})
  /\ UNCHANGED <<disk, issued>>

PowerFailure ==
  /\ Kill(Caller)
  /\ \E f \in survivors : file' = f /\ survivors' = {f}
  /\ UNCHANGED issued

Corrupt ==
  /\ MayCorrupt
  /\ \E f \in {Garbage, Number(-1)} : file' = f /\ survivors' = {f}
  /\ UNCHANGED <<pc, local, locks, issued>>

Next ==
  \/ \E c \in Caller : (\E what \in {"next", "current"} : Call(c, what)) \/ Step(c) \/ IOError(c)
  \/ \E p \in Process : CrashProcess(p)
  \/ PowerFailure
  \/ Corrupt

Spec == Init /\ [][Next]_vars

\* A thread that can run, runs; no system call is assumed to succeed, and no
\* order is assumed between the threads waiting for a lock.
Fairness == \A c \in Caller : WF_vars(Step(c))

FairSpec == Spec /\ Fairness

(***************************************************************************)
(* Properties.                                                             *)
(***************************************************************************)
Holding   == {"read", "write", "fsync", "replace", "fsyncdir", "unflock"}
Committed == {"unflock", "return"}

\* Every variable has its type.
TypeOK ==
  /\ pc \in [Caller -> {"idle", "lock", "flock", "return"} \union Holding]
  /\ op \in [Caller -> {"next", "current"}]
  /\ serial \in [Caller -> 0 .. MaxSerial]
  /\ raised \in [Caller -> BOOLEAN]
  /\ flushed \in [Caller -> BOOLEAN]
  /\ threadLock \in [Counter -> Caller \union {NoCaller}]
  /\ flock \in Caller \union {NoCaller}
  /\ file \in Contents
  /\ survivors \in SUBSET Contents
  /\ issued \in [Serials -> Nat]
  /\ before \in [Caller -> SUBSET Serials]

\* No serial is ever returned twice, whatever threads, processes, crashes,
\* I/O errors and power failures do: "a persisted, never-repeating invoice
\* serial" (class docstring of MonotonicSerialCounter).
IssuedOnce == \A s \in Serials : issued[s] <= 1

\* A serial is handed out only once no power failure can bring back a smaller
\* one: _write flushes the data, renames, and flushes the directory before
\* __call__ returns.
DurableBeforeReturned ==
  \A s \in Serials : issued[s] > 0 =>
     \A f \in survivors : Readable(f) => s <= f.n

\* A caller about to receive a serial already has it on stable storage, so the
\* process may die right after returning it.
DurableBeforeRelease ==
  \A c \in Caller : pc[c] \in Committed /\ op[c] = "next" /\ ~ raised[c] =>
     \A f \in survivors : Readable(f) => serial[c] <= f.n

\* The counter is linearizable: a call gets a serial above every serial that
\* had been returned when it began, from whatever process.
LaterCallsGetLargerSerials ==
  \A c \in Caller : pc[c] \in Committed /\ op[c] = "next" /\ ~ raised[c] =>
     \A s \in before[c] : s < serial[c]

\* counter.current never reports less than what had been returned when it was
\* asked; tools/serial.py decides from that number what it may overwrite.
CurrentIsNotBehind ==
  \A c \in Caller : pc[c] \in Committed /\ op[c] = "current" /\ ~ raised[c] =>
     \A s \in before[c] : s <= serial[c]

\* A file that cannot be read is never silently replaced by a fresh count: the
\* only writer that may replace one already held a number read before.
NeverRestartsFromGarbage ==
  [][ ~ Readable(file) /\ Readable(file') =>
        \A s \in Serials : issued[s] > 0 => s <= file'.n ]_vars

\* No write makes a file that was good unreadable after a power failure: what is
\* renamed into place has been flushed first.  An unreadable counter refuses
\* every filing until somebody repairs it by hand.
WritesLeaveNoGarbage ==
  [][ (\A f \in survivors : Readable(f)) /\ Readable(file') =>
        \A f \in survivors' : Readable(f) ]_vars

(***************************************************************************)
(* The promise: seen from its callers the counter is a SerialSource.  A    *)
(* serial is granted when the directory is flushed.                        *)
(***************************************************************************)
CallSeen ==
  [c \in Caller |->
     CASE pc[c] = "idle" \/ op[c] = "current" -> [at |-> "idle", n |-> 0]
       [] pc[c] \in Committed /\ op[c] = "next" /\ ~ raised[c] ->
            [at |-> "granted", n |-> serial[c]]
       [] OTHER -> [at |-> "asked", n |-> 0]]

Source == INSTANCE SerialSource WITH call <- CallSeen

\* Every step of the counter is a step of the abstract source or invisible to
\* its callers: what InvoicePipeline._with_identity relies on.
Implements == Source!Spec

\* Every hold of the file lock ends, on the raising paths too.
FlockIsReleased == flock # NoCaller ~> flock = NoCaller

=============================================================================
