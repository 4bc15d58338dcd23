------------------------ MODULE SerialCounter_proof ------------------------
(***************************************************************************)
(* Proofs about SerialCounter, for every set of callers, objects and       *)
(* processes and every MaxSerial.                                          *)
(*                                                                         *)
(* The safety of the counter rests on one fact: at most one caller is      *)
(* between reading the file and flushing its directory (OneHolder).  That  *)
(* follows from the file lock; without it (no fcntl) from the thread lock, *)
(* but then only while all callers share one object.  Exclusion says so,   *)
(* and every theorem that needs it assumes it.                             *)
(***************************************************************************)
EXTENDS SerialCounter, TLAPS

Exclusion == HasFlock \/ \A c, d \in Caller : CounterOf[c] = CounterOf[d]

(***************************************************************************)
(* The inductive invariant.                                                *)
(***************************************************************************)
InLock    == {"flock", "return"} \union Holding
Taking(c) == pc[c] \in {"write", "fsync", "replace", "fsyncdir"}
Granted(c) == pc[c] \in Committed /\ op[c] = "next" /\ ~ raised[c]

\* Who is past an acquisition holds that lock.
Locking ==
  \A c \in Caller :
    /\ pc[c] \in InLock => threadLock[CounterOf[c]] = c
    /\ pc[c] \in Holding /\ HasFlock => flock = c

\* What the path holds is what a power failure may leave, and no serial of
\* before a call is unknown to issued.
Bookkeeping ==
  /\ file \in survivors
  /\ \A c \in Caller : before[c] \subseteq Returned

\* A serial being taken is above all that were returned or granted; once the
\* file is replaced, it is what the file says.
TakenIsNew ==
  \A c \in Caller : Taking(c) =>
    /\ op[c] = "next"
    /\ serial[c] \in Serials
    /\ \A s \in Serials : issued[s] > 0 => s < serial[c]
    /\ \A d \in Caller : Granted(d) => serial[d] < serial[c]
    /\ pc[c] = "fsyncdir" /\ Readable(file) => file.n = serial[c]

\* A granted serial is durable, was not returned to anyone, and belongs to one
\* caller.
GrantedIsMine ==
  \A c \in Caller : Granted(c) =>
    /\ serial[c] \in Serials
    /\ issued[serial[c]] = 0
    /\ \A s \in before[c] : s < serial[c]
    /\ \A d \in Caller : Granted(d) /\ serial[d] = serial[c] => d = c

Inv ==
  /\ TypeOK
  /\ Locking
  /\ Bookkeeping
  /\ IssuedOnce
  /\ DurableBeforeReturned
  /\ DurableBeforeRelease
  /\ TakenIsNew
  /\ GrantedIsMine
  /\ CurrentIsNotBehind

(***************************************************************************)
(* Types.                                                                  *)
(***************************************************************************)
\* Forgetting the locals of some callers keeps the locals in their types.
LEMMA ForgetTypes ==
  ASSUME NEW gone \in SUBSET Caller, TypeOK, Forget(gone)
  PROVE  /\ pc' \in [Caller -> {"idle", "lock", "flock", "return"} \union Holding]
         /\ op' \in [Caller -> {"next", "current"}]
         /\ serial' \in [Caller -> 0 .. MaxSerial]
         /\ raised' \in [Caller -> BOOLEAN]
         /\ flushed' \in [Caller -> BOOLEAN]
         /\ before' \in [Caller -> SUBSET Serials]
<1>1. pc' \in [Caller -> {"idle", "lock", "flock", "return"} \union Holding]
  BY DEF Forget, TypeOK
<1>2. op' \in [Caller -> {"next", "current"}]
  BY DEF Forget, TypeOK
<1>3. serial' \in [Caller -> 0 .. MaxSerial]
  BY SerialAssumption DEF Forget, TypeOK
<1>4. raised' \in [Caller -> BOOLEAN] /\ flushed' \in [Caller -> BOOLEAN]
  BY DEF Forget, TypeOK
<1>5. before' \in [Caller -> SUBSET Serials]
  BY DEF Forget, TypeOK
<1> QED
  BY <1>1, <1>2, <1>3, <1>4, <1>5

\* Every step keeps every variable in its type.
LEMMA TypeStep == TypeOK /\ [Next]_vars => TypeOK'
<1> SUFFICES ASSUME TypeOK, [Next]_vars PROVE TypeOK'
  OBVIOUS
<1> USE CallerAssumption, SerialAssumption DEF TypeOK, Goto, Holding, Serials, Contents,
      Number, Absent, Garbage, Readable, local, locks, disk
<1>1. ASSUME NEW c \in Caller, NEW what \in {"next", "current"}, Call(c, what)
      PROVE  TypeOK'
  BY <1>1 DEF Call, Returned
<1>2. ASSUME NEW c \in Caller, AcquireThreadLock(c) PROVE TypeOK'
  BY <1>2 DEF AcquireThreadLock
<1>3. ASSUME NEW c \in Caller, AcquireFlock(c) PROVE TypeOK'
  BY <1>3 DEF AcquireFlock
<1>4. ASSUME NEW c \in Caller, ReadCurrent(c) PROVE TypeOK'
  BY <1>4 DEF ReadCurrent
<1>5. ASSUME NEW c \in Caller, ReadNext(c) PROVE TypeOK'
  <2>1. file.n + 1 \in 0 .. MaxSerial
    BY <1>5 DEF ReadNext
  <2>2. serial' \in [Caller -> 0 .. MaxSerial]
    BY <1>5, <2>1 DEF ReadNext
  <2>3. pc' \in [Caller -> {"idle", "lock", "flock", "return"} \union Holding]
    BY <1>5 DEF ReadNext
  <2> QED
    BY <1>5, <2>2, <2>3 DEF ReadNext
<1>6. ASSUME NEW c \in Caller, ReadRefuses(c) PROVE TypeOK'
  BY <1>6 DEF ReadRefuses
<1>7. ASSUME NEW c \in Caller, WriteTemp(c) PROVE TypeOK'
  BY <1>7 DEF WriteTemp
<1>8. ASSUME NEW c \in Caller, FsyncTemp(c) PROVE TypeOK'
  BY <1>8 DEF FsyncTemp
<1>9. ASSUME NEW c \in Caller, ReplaceFile(c) PROVE TypeOK'
  BY <1>9 DEF ReplaceFile
<1>10. ASSUME NEW c \in Caller, FsyncDir(c) PROVE TypeOK'
  BY <1>10 DEF FsyncDir
<1>11. ASSUME NEW c \in Caller, ReleaseFlock(c) PROVE TypeOK'
  BY <1>11 DEF ReleaseFlock
<1>12. ASSUME NEW c \in Caller, Return(c) PROVE TypeOK'
  <2>1. {c} \in SUBSET Caller /\ Forget({c})
    BY <1>12 DEF Return
  <2>2. threadLock' \in [Counter -> Caller \union {NoCaller}]
    BY <1>12 DEF Return
  <2>3. issued' \in [Serials -> Nat]
    <3>1. issued \in [Serials -> Nat]
      OBVIOUS
    <3>2. issued' = issued \/ issued' = [issued EXCEPT ![serial[c]] = issued[serial[c]] + 1]
      BY <1>12 DEF Return
    <3>3. CASE issued' = [issued EXCEPT ![serial[c]] = issued[serial[c]] + 1]
      <4> HIDE DEF TypeOK, Serials
      <4>1. ASSUME NEW s \in Serials PROVE issued'[s] = issued[s] \/ issued'[s] = issued[s] + 1
        BY <3>1, <3>3
      <4>2. issued' = [s \in Serials |-> issued'[s]]
        BY <3>1, <3>3
      <4>3. ASSUME NEW s \in Serials PROVE issued'[s] \in Nat
        BY <3>1, <4>1
      <4> QED
        BY <4>2, <4>3
    <3> QED
      BY <3>1, <3>2, <3>3
  <2> QED
    BY <1>12, <2>1, <2>2, <2>3, ForgetTypes DEF Return
<1>13. ASSUME NEW c \in Caller, IOError(c) PROVE TypeOK'
  BY <1>13 DEF IOError
<1>14. ASSUME NEW p \in Process, CrashProcess(p) PROVE TypeOK'
  <2> DEFINE dead == {c \in Caller : ProcessOf[c] = p}
  <2>1. dead \in SUBSET Caller /\ Forget(dead)
    BY <1>14 DEF CrashProcess, Kill
  <2>2. threadLock' \in [Counter -> Caller \union {NoCaller}] /\ flock' \in Caller \union {NoCaller}
    BY <1>14 DEF CrashProcess, Kill
  <2> HIDE DEF dead
  <2> QED
    BY <1>14, <2>1, <2>2, ForgetTypes DEF CrashProcess
<1>15. CASE PowerFailure
  <2>1. Caller \in SUBSET Caller /\ Forget(Caller)
    BY <1>15 DEF PowerFailure, Kill
  <2>2. threadLock' \in [Counter -> Caller \union {NoCaller}] /\ flock' \in Caller \union {NoCaller}
    BY <1>15 DEF PowerFailure, Kill
  <2> QED
    BY <1>15, <2>1, <2>2, ForgetTypes DEF PowerFailure
<1>16. CASE Corrupt
  BY <1>16 DEF Corrupt
<1>17. CASE UNCHANGED vars
  BY <1>17 DEF vars
<1> HIDE DEF TypeOK
<1> QED
  BY <1>1, <1>2, <1>3, <1>4, <1>5, <1>6, <1>7, <1>8, <1>9, <1>10, <1>11, <1>12,
     <1>13, <1>14, <1>15, <1>16, <1>17 DEF Next, Step

(***************************************************************************)
(* Mutual exclusion.                                                       *)
(***************************************************************************)
\* Every step keeps each caller past an acquisition the holder of that lock:
\* nobody releases a lock somebody else holds.
LEMMA LockingStep == TypeOK /\ Locking /\ [Next]_vars => Locking'
<1> SUFFICES ASSUME TypeOK, Locking, [Next]_vars PROVE Locking'
  OBVIOUS
<1> USE CallerAssumption DEF Goto, Holding, InLock, local, locks, disk
<1>0. pc \in [Caller -> {"idle", "lock", "flock", "return"} \union Holding]
      /\ threadLock \in [Counter -> Caller \union {NoCaller}]
  BY DEF TypeOK
<1>1. ASSUME NEW c \in Caller, NEW what \in {"next", "current"}, Call(c, what)
      PROVE  Locking'
  BY <1>0, <1>1 DEF Call, Locking
<1>2. ASSUME NEW c \in Caller, AcquireThreadLock(c) PROVE Locking'
  BY <1>0, <1>2 DEF AcquireThreadLock, Locking
<1>3. ASSUME NEW c \in Caller, AcquireFlock(c) PROVE Locking'
  BY <1>0, <1>3 DEF AcquireFlock, Locking
<1>4. ASSUME NEW c \in Caller,
             \/ ReadCurrent(c) \/ ReadNext(c) \/ ReadRefuses(c)
             \/ WriteTemp(c) \/ FsyncTemp(c) \/ ReplaceFile(c) \/ FsyncDir(c)
      PROVE  Locking'
  <2>1. UNCHANGED locks /\ pc[c] \in Holding /\ \E to \in Holding : pc' = [pc EXCEPT ![c] = to]
    BY <1>4 DEF ReadCurrent, ReadNext, ReadRefuses, WriteTemp, FsyncTemp, ReplaceFile, FsyncDir
  <2> QED
    BY <1>0, <2>1 DEF Locking
<1>5. ASSUME NEW c \in Caller, ReleaseFlock(c) PROVE Locking'
  BY <1>0, <1>5 DEF ReleaseFlock, Locking
<1>6. ASSUME NEW c \in Caller, Return(c) PROVE Locking'
  BY <1>0, <1>6 DEF Return, Forget, Locking
<1>7. ASSUME NEW c \in Caller, IOError(c) PROVE Locking'
  BY <1>0, <1>7 DEF IOError, Locking
<1>8. ASSUME NEW p \in Process, CrashProcess(p) PROVE Locking'
  BY <1>0, <1>8 DEF CrashProcess, Kill, Forget, Locking
<1>9. CASE PowerFailure
  BY <1>0, <1>9 DEF PowerFailure, Kill, Forget, Locking
<1>10. CASE Corrupt
  BY <1>10 DEF Corrupt, Locking
<1>11. CASE UNCHANGED vars
  BY <1>11 DEF vars, Locking
<1> QED
  BY <1>1, <1>2, <1>3, <1>4, <1>5, <1>6, <1>7, <1>8, <1>9, <1>10, <1>11 DEF Next, Step

\* Under Exclusion one caller at most is between the read and the release.
LEMMA OneHolder ==
  ASSUME Exclusion, TypeOK, Locking, NEW c \in Caller, NEW d \in Caller,
         pc[c] \in Holding, pc[d] \in Holding
  PROVE  c = d
BY CallerAssumption DEF Exclusion, Locking, InLock

(***************************************************************************)
(* The serials.                                                            *)
(***************************************************************************)
Serial == /\ Bookkeeping /\ IssuedOnce /\ DurableBeforeReturned /\ DurableBeforeRelease
          /\ TakenIsNew /\ GrantedIsMine /\ CurrentIsNotBehind

\* d is back at the start of a call: what it knows of before is all returned.
Restarted(d) == pc'[d] \in {"idle", "lock"} /\ before'[d] \subseteq Returned

\* d may have moved, but took, was granted and read nothing new.
Quiet(d) ==
  /\ op'[d] = op[d] /\ serial'[d] = serial[d] /\ before'[d] = before[d]
  /\ Taking(d)' => Taking(d)
  /\ Granted(d)' => Granted(d)
  /\ pc'[d] = "fsyncdir" => pc[d] = "fsyncdir"
  /\ pc'[d] \in Committed /\ ~ raised'[d] => pc[d] \in Committed /\ ~ raised[d]

\* What crashes, errors, power failures, corruption and most steps have in
\* common: callers restart or stay quiet, and no new number appears on disk.
LEMMA QuietStep ==
  ASSUME TypeOK, Serial, UNCHANGED issued,
         file' \in survivors',
         \A f \in survivors' : f \in survivors \/ ~ Readable(f),
         file' = file \/ ~ Readable(file') \/ \A c \in Caller : Restarted(c),
         \A c \in Caller : Restarted(c) \/ Quiet(c)
  PROVE  Serial'
<1> USE DEF Serial
<1>1. Bookkeeping'
  BY DEF Bookkeeping, Returned, Restarted, Quiet
<1>2. IssuedOnce'
  BY DEF IssuedOnce
<1>3. DurableBeforeReturned'
  BY DEF DurableBeforeReturned, Readable
<1>4. \A c \in Caller : Granted(c)' => Granted(c) /\ Quiet(c)
  BY DEF Granted, Quiet, Restarted, Committed
<1>5. \A c \in Caller : Taking(c)' => Taking(c) /\ Quiet(c) /\ ~ Restarted(c)
  BY DEF Taking, Quiet, Restarted
<1>6. DurableBeforeRelease'
  BY <1>4 DEF DurableBeforeRelease, Granted, Quiet, Readable
<1>7. TakenIsNew'
  BY <1>4, <1>5 DEF TakenIsNew, Quiet, Readable
<1>8. GrantedIsMine'
  BY <1>4 DEF GrantedIsMine, Quiet
<1>9. CurrentIsNotBehind'
  BY DEF CurrentIsNotBehind, Quiet, Restarted, Committed
<1> QED
  BY <1>1, <1>2, <1>3, <1>6, <1>7, <1>8, <1>9

\* A read that raises nothing gives a serial above all that were returned or
\* granted, and one that only looks gives a number not below them.
LEMMA ReadStep ==
  ASSUME Exclusion, TypeOK, Locking, Serial, NEW c \in Caller, ReadCurrent(c) \/ ReadNext(c)
  PROVE  Serial'
<1> USE DEF Serial, Goto, local, locks, disk
<1>0. /\ UNCHANGED <<op, raised, before, file, survivors, issued>>
      /\ pc[c] = "read" /\ Readable(file)
      /\ \A d \in Caller \ {c} : pc'[d] = pc[d] /\ serial'[d] = serial[d]
  BY DEF ReadCurrent, ReadNext, TypeOK
<1>1. \A s \in Serials : issued[s] > 0 => s <= file.n
  BY <1>0 DEF Bookkeeping, DurableBeforeReturned
<1>2. \A d \in Caller : Granted(d) => serial[d] <= file.n
  BY <1>0 DEF Bookkeeping, DurableBeforeRelease, Granted
<1>3. \A d \in Caller \ {c} : ~ Taking(d)
  BY <1>0, OneHolder DEF Taking, Holding
<1>4. CASE ReadCurrent(c)
  <2>1. pc'[c] = "unflock" /\ op[c] = "current" /\ serial'[c] = file.n
    BY <1>4 DEF ReadCurrent, TypeOK
  <2>2. \A d \in Caller : ~ Taking(d)' /\ (Granted(d)' => d # c /\ Granted(d))
    BY <1>0, <1>3, <2>1 DEF Taking, Granted
  <2>3. CurrentIsNotBehind'
    BY <1>0, <1>1, <2>1 DEF CurrentIsNotBehind, Bookkeeping, Returned
  <2>4. TakenIsNew' /\ GrantedIsMine'
    BY <1>0, <2>2 DEF TakenIsNew, GrantedIsMine
  <2>5. DurableBeforeRelease'
    BY <1>0, <2>1 DEF DurableBeforeRelease, Readable
  <2> QED
    BY <1>0, <2>3, <2>4, <2>5
       DEF Bookkeeping, Returned, IssuedOnce, DurableBeforeReturned, Readable
<1>5. CASE ReadNext(c)
  <2>1. /\ pc'[c] = "write" /\ op[c] = "next" /\ serial'[c] = file.n + 1
        /\ file.n + 1 <= MaxSerial /\ file.n \in Int
    BY <1>5 DEF ReadNext, TypeOK, Contents, Serials
  <2>2. /\ \A d \in Caller \ {c} : ~ Taking(d)'
        /\ \A d \in Caller : Granted(d)' => d # c /\ Granted(d)
    BY <1>0, <1>3, <2>1 DEF Taking, Granted, Committed
  <2>3. TakenIsNew'
    <3>1. serial'[c] \in Serials
      BY <1>0, <2>1, SerialAssumption DEF Serials, Readable
    <3>2. \A s \in Serials : issued'[s] > 0 => s < serial'[c]
      BY <1>0, <1>1, <2>1 DEF Serials
    <3>3. \A d \in Caller : Granted(d)' => serial'[d] < serial'[c]
      <4> TAKE d \in Caller
      <4> HAVE Granted(d)'
      <4>1. serial'[d] = serial[d] /\ serial[d] <= file.n /\ serial[d] \in Int
        BY <1>0, <1>2, <2>2 DEF TypeOK
      <4> QED
        BY <4>1, <2>1
    <3> QED
      BY <1>0, <2>1, <2>2, <3>1, <3>2, <3>3 DEF TakenIsNew
  <2>4. GrantedIsMine' /\ DurableBeforeRelease'
    BY <1>0, <2>1, <2>2 DEF GrantedIsMine, DurableBeforeRelease, Readable, Granted
  <2>5. CurrentIsNotBehind'
    BY <1>0, <2>1 DEF CurrentIsNotBehind
  <2> QED
    BY <1>0, <2>3, <2>4, <2>5
       DEF Bookkeeping, Returned, IssuedOnce, DurableBeforeReturned, Readable
<1> QED
  BY <1>4, <1>5

\* os.replace shows the new number before it is durable; nobody is granted it
\* yet, and all that were granted are below it.
LEMMA ReplaceStep ==
  ASSUME Exclusion, TypeOK, Locking, Serial, NEW c \in Caller, ReplaceFile(c)
  PROVE  Serial'
<1> USE DEF Serial, Goto, local, locks
<1>0. /\ UNCHANGED <<op, serial, raised, before, issued>>
      /\ pc[c] = "replace" /\ pc' = [pc EXCEPT ![c] = "fsyncdir"]
      /\ file' = Number(serial[c])
      /\ \A f \in survivors' : f \in survivors \/ f = file' \/ ~ Readable(f)
      /\ file' \in survivors'
  BY DEF ReplaceFile, Readable, Garbage
<1>1. /\ \A d \in Caller \ {c} : ~ Taking(d)'
      /\ Taking(c) /\ Taking(c)'
      /\ \A d \in Caller : Granted(d)' => Granted(d)
      /\ \A d \in Caller : pc'[d] \in Committed => pc[d] \in Committed
  <2>1. \A d \in Caller \ {c} : ~ Taking(d)
    BY <1>0, OneHolder DEF Taking, Holding
  <2> QED
    BY <1>0, <2>1 DEF Taking, Granted, Committed, TypeOK
<1>2. /\ file'.n = serial[c]
      /\ \A s \in Serials : issued[s] > 0 => s < serial[c]
      /\ \A d \in Caller : Granted(d) => serial[d] < serial[c]
      /\ \A d \in Caller : serial[d] \in Int
  BY <1>0, <1>1 DEF TakenIsNew, Number, TypeOK
<1>3. Bookkeeping' /\ IssuedOnce' /\ CurrentIsNotBehind'
  BY <1>0, <1>1 DEF Bookkeeping, Returned, IssuedOnce, CurrentIsNotBehind
<1>4. DurableBeforeReturned'
  BY <1>0, <1>2 DEF DurableBeforeReturned, Readable, Serials
<1>5. DurableBeforeRelease'
  BY <1>0, <1>1, <1>2 DEF DurableBeforeRelease, Readable, Granted
<1>6. TakenIsNew'
  BY <1>0, <1>1, <1>2 DEF TakenIsNew, Readable
<1>7. GrantedIsMine'
  BY <1>0, <1>1 DEF GrantedIsMine
<1> QED
  BY <1>3, <1>4, <1>5, <1>6, <1>7

\* Flushing the directory makes the number durable and grants it.
LEMMA FsyncDirStep ==
  ASSUME Exclusion, TypeOK, Locking, Serial, NEW c \in Caller, FsyncDir(c)
  PROVE  Serial'
<1> USE DEF Serial, Goto, local, locks
<1>0. /\ UNCHANGED <<op, serial, raised, before, file, issued>>
      /\ pc[c] = "fsyncdir" /\ pc' = [pc EXCEPT ![c] = "unflock"]
      /\ survivors' = {file}
  BY DEF FsyncDir
<1>1. /\ \A d \in Caller : ~ Taking(d)'
      /\ Taking(c)
      /\ \A d \in Caller \ {c} : Granted(d)' => Granted(d)
      /\ \A d \in Caller \ {c} : pc'[d] \in Committed => pc[d] \in Committed
  <2>1. \A d \in Caller \ {c} : ~ Taking(d)
    BY <1>0, OneHolder DEF Taking, Holding
  <2> QED
    BY <1>0, <2>1 DEF Taking, Granted, Committed, TypeOK
<1>2. /\ op[c] = "next" /\ serial[c] \in Serials
      /\ Readable(file) => file.n = serial[c]
      /\ \A s \in Serials : issued[s] > 0 => s < serial[c]
      /\ \A d \in Caller : Granted(d) => serial[d] < serial[c]
  BY <1>0, <1>1 DEF TakenIsNew
<1>3. Bookkeeping' /\ IssuedOnce'
  BY <1>0 DEF Bookkeeping, Returned, IssuedOnce
<1>4. DurableBeforeReturned'
  BY <1>0 DEF DurableBeforeReturned, Readable, Bookkeeping
<1>5. DurableBeforeRelease'
  <2> SUFFICES ASSUME NEW d \in Caller, Granted(d)', Readable(file)
               PROVE  serial[d] <= file.n
    BY <1>0 DEF DurableBeforeRelease, Granted, Readable
  <2>1. CASE d = c
    BY <1>2, <2>1 DEF Serials
  <2>2. CASE d # c
    BY <1>1, <2>2 DEF DurableBeforeRelease, Granted, Bookkeeping
  <2> QED
    BY <2>1, <2>2
<1>6. TakenIsNew'
  BY <1>1 DEF TakenIsNew
<1>7. GrantedIsMine'
  <2>1. issued[serial[c]] = 0 /\ \A s \in before[c] : s < serial[c]
    BY <1>2 DEF Bookkeeping, Returned, TypeOK, Serials
  <2>2. \A d \in Caller : Granted(d)' /\ d # c => Granted(d) /\ serial[d] # serial[c]
    BY <1>1, <1>2 DEF Serials, TypeOK
  <2> QED
    BY <1>0, <1>2, <2>1, <2>2 DEF GrantedIsMine
<1>8. CurrentIsNotBehind'
  BY <1>0, <1>1, <1>2 DEF CurrentIsNotBehind
<1> QED
  BY <1>3, <1>4, <1>5, <1>6, <1>7, <1>8

\* Returning a granted serial returns it for the first and only time.
LEMMA ReturnStep ==
  ASSUME TypeOK, Serial, NEW c \in Caller, Return(c)
  PROVE  Serial'
<1> USE DEF Serial
<1>0. /\ pc[c] = "return" /\ UNCHANGED disk
      /\ pc'[c] = "idle" /\ before'[c] = {}
      /\ \A d \in Caller \ {c} : /\ pc'[d] = pc[d] /\ op'[d] = op[d] /\ serial'[d] = serial[d]
                                 /\ raised'[d] = raised[d] /\ before'[d] = before[d]
  BY DEF Return, Forget
<1>1. CASE ~ Granted(c)
  <2>1. UNCHANGED issued
    BY <1>0, <1>1 DEF Return, Granted, Committed
  <2>2. \A d \in Caller : Restarted(d) \/ Quiet(d)
    BY <1>0 DEF Restarted, Quiet, Taking, Granted
  <2> QED
    BY <1>0, <2>1, <2>2, QuietStep DEF Bookkeeping, disk
<1>2. CASE Granted(c)
  <2>1. /\ serial[c] \in Serials /\ issued[serial[c]] = 0
        /\ issued' = [issued EXCEPT ![serial[c]] = 1]
        /\ \A f \in survivors : Readable(f) => serial[c] <= f.n
    <3>1. /\ serial[c] \in Serials /\ issued[serial[c]] = 0
          /\ \A f \in survivors : Readable(f) => serial[c] <= f.n
      BY <1>2 DEF GrantedIsMine, DurableBeforeRelease, Granted
    <3>2. issued' = [issued EXCEPT ![serial[c]] = issued[serial[c]] + 1]
      BY <1>2 DEF Return, Granted
    <3> QED
      BY <3>1, <3>2
  <2>2. \A s \in Serials : issued'[s] > 0 => issued[s] > 0 \/ s = serial[c]
    BY <2>1 DEF TypeOK
  <2>3. \A d \in Caller : /\ Taking(d)' => Taking(d) /\ d # c
                          /\ Granted(d)' => Granted(d) /\ d # c
                          /\ pc'[d] \in Committed => d # c
    BY <1>0 DEF Taking, Granted, Committed
  <2>4. Bookkeeping'
    BY <1>0, <2>1 DEF Bookkeeping, Returned, disk, TypeOK
  <2>5. IssuedOnce'
    BY <2>1 DEF IssuedOnce, TypeOK
  <2>6. DurableBeforeReturned'
    BY <1>0, <2>1, <2>2 DEF DurableBeforeReturned, disk, Readable
  <2>7. DurableBeforeRelease'
    BY <1>0, <2>3 DEF DurableBeforeRelease, disk, Readable
  <2>8. TakenIsNew'
    BY <1>0, <1>2, <2>2, <2>3 DEF TakenIsNew, disk, Readable
  <2>9. GrantedIsMine'
    BY <1>0, <1>2, <2>1, <2>3 DEF GrantedIsMine, TypeOK
  <2>10. CurrentIsNotBehind'
    BY <1>0, <2>3 DEF CurrentIsNotBehind
  <2> QED
    BY <2>4, <2>5, <2>6, <2>7, <2>8, <2>9, <2>10
<1> QED
  BY <1>1, <1>2

\* Every step keeps the invariant on the serials.
LEMMA SerialStep == Exclusion /\ TypeOK /\ Locking /\ Serial /\ [Next]_vars => Serial'
<1> SUFFICES ASSUME Exclusion, TypeOK, Locking, Serial, [Next]_vars PROVE Serial'
  OBVIOUS
<1> USE DEF Goto, local, locks, disk
<1>0. file \in survivors
  BY DEF Serial, Bookkeeping
<1>1. ASSUME NEW c \in Caller, NEW what \in {"next", "current"}, Call(c, what)
      PROVE  Serial'
  <2>1. \A d \in Caller : Restarted(d) \/ Quiet(d)
    BY <1>1 DEF Call, Restarted, Quiet, Taking, Granted, TypeOK
  <2> QED
    BY <1>0, <1>1, <2>1, QuietStep DEF Call
<1>2. ASSUME NEW c \in Caller,
             \/ AcquireThreadLock(c) \/ AcquireFlock(c) \/ ReadRefuses(c)
             \/ WriteTemp(c) \/ FsyncTemp(c) \/ ReleaseFlock(c) \/ IOError(c)
      PROVE  Serial'
  <2>1. UNCHANGED <<op, serial, before, disk, issued>>
    BY <1>2 DEF AcquireThreadLock, AcquireFlock, ReadRefuses, WriteTemp, FsyncTemp,
                ReleaseFlock, IOError
  <2>2. \A d \in Caller \ {c} : pc'[d] = pc[d] /\ raised'[d] = raised[d]
    BY <1>2 DEF AcquireThreadLock, AcquireFlock, ReadRefuses, WriteTemp, FsyncTemp,
                ReleaseFlock, IOError, TypeOK
  <2>3. Quiet(c)
    BY <1>2, <2>1 DEF AcquireThreadLock, AcquireFlock, ReadRefuses, WriteTemp, FsyncTemp,
                ReleaseFlock, IOError, TypeOK, Quiet, Taking, Granted, Committed
  <2>4. \A d \in Caller : Quiet(d)
    BY <2>1, <2>2, <2>3 DEF Quiet, Taking, Granted
  <2> QED
    BY <1>0, <2>1, <2>4, QuietStep
<1>3. ASSUME NEW p \in Process, CrashProcess(p) PROVE Serial'
  <2>1. \A d \in Caller : Restarted(d) \/ Quiet(d)
    BY <1>3 DEF CrashProcess, Kill, Forget, Restarted, Quiet, Taking, Granted
  <2> QED
    BY <1>0, <1>3, <2>1, QuietStep DEF CrashProcess
<1>4. CASE PowerFailure
  <2>1. \A d \in Caller : Restarted(d)
    BY <1>4 DEF PowerFailure, Kill, Forget, Restarted
  <2> QED
    BY <1>4, <2>1, QuietStep DEF PowerFailure
<1>5. CASE Corrupt
  <2>1. \A d \in Caller : Quiet(d)
    BY <1>5 DEF Corrupt, Quiet, Taking, Granted
  <2>2. ~ Readable(file') /\ survivors' = {file'}
    BY <1>5 DEF Corrupt, Readable, Garbage, Number
  <2> QED
    BY <1>5, <2>1, <2>2, QuietStep DEF Corrupt
<1>6. CASE UNCHANGED vars
  <2>1. \A d \in Caller : Quiet(d)
    BY <1>6 DEF vars, Quiet, Taking, Granted
  <2> QED
    BY <1>0, <1>6, <2>1, QuietStep DEF vars
<1> QED
  BY <1>1, <1>2, <1>3, <1>4, <1>5, <1>6, ReadStep, ReplaceStep, FsyncDirStep, ReturnStep
     DEF Next, Step
(***************************************************************************)
(* The theorems.                                                           *)
(***************************************************************************)
\* The invariant holds initially.
LEMMA InitInv == Init => TypeOK /\ Locking /\ Serial
<1> SUFFICES ASSUME Init PROVE TypeOK /\ Locking /\ Serial
  OBVIOUS
<1> USE DEF Init
<1>1. TypeOK
  BY CallerAssumption, SerialAssumption DEF TypeOK, Contents, Absent, Serials
<1>2. Locking
  BY DEF Locking, InLock, Holding
<1>3. Serial
  BY DEF Serial, Bookkeeping, IssuedOnce, DurableBeforeReturned, DurableBeforeRelease,
         TakenIsNew, GrantedIsMine, CurrentIsNotBehind, Taking, Granted, Committed
<1> QED
  BY <1>1, <1>2, <1>3

\* Every variable keeps its type: no serial ever exceeds the ten digits a tax
\* id has for it, however the counter was overwritten or interrupted.
THEOREM TypeCorrect == Spec => []TypeOK
<1>1. Init => TypeOK
  BY InitInv
<1> QED
  BY <1>1, TypeStep, PTL DEF Spec

\* The inductive invariant.
LEMMA Invariance == ASSUME Exclusion PROVE Spec => [](TypeOK /\ Locking /\ Serial)
<1>1. TypeOK /\ Locking /\ Serial /\ [Next]_vars => (TypeOK /\ Locking /\ Serial)'
  BY TypeStep, LockingStep, SerialStep
<1> QED
  BY <1>1, InitInv, PTL DEF Spec

\* MonotonicSerialCounter never returns a serial twice: with the file lock from
\* any number of processes, without it while its callers share one object.
THEOREM NeverRepeats == ASSUME Exclusion PROVE Spec => []IssuedOnce
<1>1. Serial => IssuedOnce
  BY DEF Serial
<1> QED
  BY <1>1, Invariance, PTL

\* Every serial that was returned survives a power failure.
THEOREM Durable == ASSUME Exclusion PROVE Spec => [](DurableBeforeReturned /\ DurableBeforeRelease)
<1>1. Serial => DurableBeforeReturned /\ DurableBeforeRelease
  BY DEF Serial
<1> QED
  BY <1>1, Invariance, PTL

\* A call gets a serial above all that were returned before it began, and
\* counter.current reports no less than them.
THEOREM Linearizable ==
  ASSUME Exclusion PROVE Spec => [](LaterCallsGetLargerSerials /\ CurrentIsNotBehind)
<1>1. Serial => LaterCallsGetLargerSerials /\ CurrentIsNotBehind
  BY DEF Serial, GrantedIsMine, LaterCallsGetLargerSerials, Granted
<1> QED
  BY <1>1, Invariance, PTL

(***************************************************************************)
(* Properties of steps.                                                    *)
(***************************************************************************)
\* A temporary file is renamed into place only after it was flushed.
FlushedFirst == \A c \in Caller : pc[c] = "replace" => flushed[c]

LEMMA FlushedStep == TypeOK /\ FlushedFirst /\ [Next]_vars => FlushedFirst'
<1> SUFFICES ASSUME TypeOK, FlushedFirst, [Next]_vars PROVE FlushedFirst'
  OBVIOUS
<1> USE DEF Goto, FlushedFirst, local
<1>0. pc \in [Caller -> {"idle", "lock", "flock", "return"} \union Holding]
      /\ flushed \in [Caller -> BOOLEAN]
  BY DEF TypeOK
<1>1. ASSUME NEW c \in Caller, NEW what \in {"next", "current"}, Call(c, what)
      PROVE  FlushedFirst'
  BY <1>0, <1>1 DEF Call
<1>2. ASSUME NEW c \in Caller, AcquireThreadLock(c) \/ AcquireFlock(c) PROVE FlushedFirst'
  BY <1>0, <1>2 DEF AcquireThreadLock, AcquireFlock
<1>3. ASSUME NEW c \in Caller, ReadCurrent(c) \/ ReadNext(c) \/ ReadRefuses(c) PROVE FlushedFirst'
  BY <1>0, <1>3 DEF ReadCurrent, ReadNext, ReadRefuses
<1>4. ASSUME NEW c \in Caller, WriteTemp(c) \/ FsyncTemp(c) PROVE FlushedFirst'
  BY <1>0, <1>4 DEF WriteTemp, FsyncTemp
<1>5. ASSUME NEW c \in Caller, ReplaceFile(c) \/ FsyncDir(c) \/ ReleaseFlock(c)
      PROVE  FlushedFirst'
  BY <1>0, <1>5 DEF ReplaceFile, FsyncDir, ReleaseFlock
<1>6. ASSUME NEW c \in Caller, Return(c) PROVE FlushedFirst'
  BY <1>0, <1>6 DEF Return, Forget
<1>7. ASSUME NEW c \in Caller, IOError(c) PROVE FlushedFirst'
  BY <1>0, <1>7 DEF IOError
<1>8. ASSUME NEW p \in Process, CrashProcess(p) PROVE FlushedFirst'
  BY <1>0, <1>8 DEF CrashProcess, Kill, Forget
<1>9. CASE PowerFailure
  BY <1>9 DEF PowerFailure, Kill, Forget
<1>10. CASE Corrupt \/ UNCHANGED vars
  BY <1>10 DEF Corrupt, vars
<1> QED
  BY <1>1, <1>2, <1>3, <1>4, <1>5, <1>6, <1>7, <1>8, <1>9, <1>10 DEF Next, Step

\* The steps that can change what is on disk.
LEMMA DiskSteps ==
  ASSUME [Next]_vars
  PROVE  \/ UNCHANGED disk \/ PowerFailure \/ Corrupt
         \/ \E c \in Caller : ReplaceFile(c) \/ FsyncDir(c)
BY DEF Next, Step, vars, disk, Call, AcquireThreadLock, AcquireFlock, ReadCurrent, ReadNext,
       ReadRefuses, WriteTemp, FsyncTemp, ReleaseFlock, Return, IOError, CrashProcess

\* An unreadable counter is never taken for an empty one: what replaces it is
\* above everything that was returned.
THEOREM GarbageIsNotZero == ASSUME Exclusion PROVE Spec => NeverRestartsFromGarbage
<1>1. ASSUME Serial, [Next]_vars, ~ Readable(file), Readable(file'),
             NEW s \in Serials, issued[s] > 0
      PROVE  s <= file'.n
  <2>1. CASE UNCHANGED disk
    BY <1>1, <2>1 DEF disk
  <2>2. CASE PowerFailure
    BY <1>1, <2>2 DEF PowerFailure, Serial, DurableBeforeReturned
  <2>3. CASE Corrupt
    BY <1>1, <2>3 DEF Corrupt, Readable, Garbage, Number
  <2>4. ASSUME NEW c \in Caller, ReplaceFile(c) PROVE s <= file'.n
    <3>1. s < serial[c] /\ serial[c] \in Serials
      BY <1>1, <2>4 DEF ReplaceFile, Goto, Serial, TakenIsNew, Taking
    <3>2. file'.n = serial[c]
      BY <2>4 DEF ReplaceFile, Number
    <3> QED
      BY <3>1, <3>2 DEF Serials
  <2>5. ASSUME NEW c \in Caller, FsyncDir(c) PROVE s <= file'.n
    BY <1>1, <2>5 DEF FsyncDir
  <2> QED
    BY <1>1, <2>1, <2>2, <2>3, <2>4, <2>5, DiskSteps
<1>2. Serial /\ [Next]_vars =>
        [~ Readable(file) /\ Readable(file') =>
           \A s \in Serials : issued[s] > 0 => s <= file'.n]_vars
  BY <1>1
<1> QED
  BY <1>2, Invariance, PTL DEF Spec, NeverRestartsFromGarbage

\* No write can leave an unreadable file behind for the next power failure.
THEOREM GarbageIsNotWritten == Spec => WritesLeaveNoGarbage
<1>1. ASSUME TypeOK, FlushedFirst, [Next]_vars,
             \A f \in survivors : Readable(f), Readable(file'), NEW f \in survivors'
      PROVE  Readable(f)
  <2>1. CASE UNCHANGED disk
    BY <1>1, <2>1 DEF disk
  <2>2. CASE PowerFailure \/ Corrupt
    BY <1>1, <2>2 DEF PowerFailure, Corrupt
  <2>3. ASSUME NEW c \in Caller, ReplaceFile(c) PROVE Readable(f)
    BY <1>1, <2>3 DEF ReplaceFile, Goto, FlushedFirst
  <2>4. ASSUME NEW c \in Caller, FsyncDir(c) PROVE Readable(f)
    BY <1>1, <2>4 DEF FsyncDir
  <2> QED
    BY <1>1, <2>1, <2>2, <2>3, <2>4, DiskSteps
<1>2. TypeOK /\ FlushedFirst /\ [Next]_vars =>
        [(\A f \in survivors : Readable(f)) /\ Readable(file') =>
           \A f \in survivors' : Readable(f)]_vars
  BY <1>1
<1>3. Init => TypeOK /\ FlushedFirst
  BY InitInv DEF Init, FlushedFirst
<1> QED
  BY <1>2, <1>3, TypeStep, FlushedStep, PTL DEF Spec, WritesLeaveNoGarbage

(***************************************************************************)
(* The counter implements SerialSource.                                    *)
(***************************************************************************)
\* What the source shows of a caller, by cases.
Shows(d, seen) ==
  /\ pc[d] = "idle" \/ op[d] = "current" => seen = Source!Idle
  /\ Granted(d) => seen = Source!Granted(serial[d])
  /\ pc[d] # "idle" /\ op[d] = "next" /\ ~ Granted(d) => seen = Source!Asked

LEMMA SeenIs ==
  ASSUME NEW d \in Caller
  PROVE  Shows(d, CallSeen[d]) /\ Shows(d, CallSeen[d])'
BY DEF Shows, CallSeen, Granted, Committed, Source!Idle, Source!Granted, Source!Asked

\* A caller whose state did not change shows the same.
LEMMA SeenSame ==
  ASSUME NEW d \in Caller, pc'[d] = pc[d], op'[d] = op[d],
         serial'[d] = serial[d], raised'[d] = raised[d]
  PROVE  CallSeen'[d] = CallSeen[d]
BY DEF CallSeen

\* Every step of the counter is a step of the source or a stutter.
LEMMA Simulation ==
  TypeOK /\ Serial /\ [Next]_vars => [Source!Next]_(Source!vars)
<1> SUFFICES ASSUME TypeOK, Serial, [Next]_vars PROVE [Source!Next]_(Source!vars)
  OBVIOUS
<1> USE DEF Goto
<1>0. CallSeen = [d \in Caller |-> CallSeen[d]] /\ CallSeen' = [d \in Caller |-> CallSeen'[d]]
  BY DEF CallSeen
<1>1. ASSUME NEW c \in Caller, NEW what \in {"next", "current"}, Call(c, what)
      PROVE  [Source!Next]_(Source!vars)
  <2>0. issued' = issued /\ \A d \in Caller \ {c} : CallSeen'[d] = CallSeen[d]
    BY <1>1, SeenSame DEF Call, TypeOK
  <2>1. CallSeen[c] = Source!Idle
    BY <1>1, SeenIs DEF Call, Shows
  <2>2. CallSeen'[c] = IF what = "next" THEN Source!Asked ELSE Source!Idle
    <3>1. pc'[c] = "lock" /\ op'[c] = what
      BY <1>1 DEF Call, TypeOK
    <3>2. Shows(c, CallSeen[c])'
      BY SeenIs
    <3> QED
      BY <3>1, <3>2 DEF Shows, Granted, Committed
  <2>3. CASE what = "next"
    <3>1. CallSeen' = [CallSeen EXCEPT ![c] = Source!Asked]
      BY <1>0, <2>0, <2>2, <2>3
    <3> QED
      BY <2>0, <2>1, <3>1 DEF Source!Ask, Source!Next
  <2>4. CASE what = "current"
    BY <1>0, <2>0, <2>1, <2>2, <2>4 DEF Source!vars
  <2> QED
    BY <2>3, <2>4
<1>2. ASSUME NEW c \in Caller,
             \/ AcquireThreadLock(c) \/ AcquireFlock(c) \/ ReadCurrent(c) \/ ReadNext(c)
             \/ ReadRefuses(c) \/ WriteTemp(c) \/ FsyncTemp(c) \/ ReplaceFile(c)
             \/ ReleaseFlock(c) \/ IOError(c)
      PROVE  [Source!Next]_(Source!vars)
  <2>0. issued' = issued /\ op' = op /\ pc[c] # "idle" /\ pc'[c] # "idle"
    BY <1>2 DEF AcquireThreadLock, AcquireFlock, ReadCurrent, ReadNext, ReadRefuses, WriteTemp,
                FsyncTemp, ReplaceFile, ReleaseFlock, IOError, TypeOK, local
  <2>1. \A d \in Caller \ {c} : /\ pc'[d] = pc[d] /\ op'[d] = op[d]
                                /\ serial'[d] = serial[d] /\ raised'[d] = raised[d]
    BY <1>2 DEF AcquireThreadLock, AcquireFlock, ReadCurrent, ReadNext, ReadRefuses, WriteTemp,
                FsyncTemp, ReplaceFile, ReleaseFlock, IOError, TypeOK, local
  <2>2. op[c] = "next" => /\ Granted(c)' <=> Granted(c)
                          /\ Granted(c) => serial'[c] = serial[c]
    BY <1>2 DEF AcquireThreadLock, AcquireFlock, ReadCurrent, ReadNext, ReadRefuses, WriteTemp,
                FsyncTemp, ReplaceFile, ReleaseFlock, IOError, TypeOK, local, Granted, Committed
  <2>3. CallSeen'[c] = CallSeen[c]
    BY <2>0, <2>2, SeenIs DEF Shows, TypeOK
  <2>4. \A d \in Caller : CallSeen'[d] = CallSeen[d]
    BY <2>1, <2>3, SeenSame
  <2> QED
    BY <1>0, <2>0, <2>4 DEF Source!vars
<1>3. ASSUME NEW c \in Caller, FsyncDir(c) PROVE [Source!Next]_(Source!vars)
  <2>0. /\ issued' = issued /\ op' = op /\ serial' = serial /\ raised' = raised
        /\ pc[c] = "fsyncdir" /\ pc'[c] = "unflock"
        /\ \A d \in Caller \ {c} : pc'[d] = pc[d]
    BY <1>3 DEF FsyncDir, TypeOK, local, locks
  <2>1. /\ op[c] = "next" /\ serial[c] \in Serials
        /\ \A s \in Serials : issued[s] > 0 => s < serial[c]
        /\ \A d \in Caller : Granted(d) => serial[d] < serial[c]
    BY <2>0 DEF Serial, TakenIsNew, Taking
  <2>2. \A d \in Caller \ {c} : CallSeen'[d] = CallSeen[d]
    BY <2>0, SeenSame
  <2>3. CallSeen[c] = Source!Asked
    BY <2>0, <2>1, SeenIs DEF Shows, Granted, Committed
  <2>4. CASE raised[c]
    <3>1. CallSeen'[c] = Source!Asked
      BY <2>0, <2>1, <2>4, SeenIs DEF Shows, Granted
    <3> QED
      BY <1>0, <2>0, <2>2, <2>3, <3>1 DEF Source!vars
  <2>5. CASE ~ raised[c]
    <3>1. CallSeen'[c] = Source!Granted(serial[c])
      BY <2>0, <2>1, <2>5, SeenIs DEF Shows, Granted, Committed
    <3>2. CallSeen' = [CallSeen EXCEPT ![c] = Source!Granted(serial[c])]
      BY <1>0, <2>2, <3>1
    <3>3. \A d \in Caller : CallSeen[d].at = "granted" => CallSeen[d].n < serial[c]
      <4> TAKE d \in Caller
      <4>1. Shows(d, CallSeen[d])
        BY SeenIs
      <4> QED
        BY <2>1, <4>1 DEF Shows, Source!Idle, Source!Asked, Source!Granted, TypeOK
    <3>4. Source!Grant(c)
      BY <2>0, <2>1, <2>3, <3>2, <3>3 DEF Source!Grant, Source!Serials, Serials
    <3> QED
      BY <3>4 DEF Source!Next
  <2> QED
    BY <2>4, <2>5
<1>4. ASSUME NEW c \in Caller, Return(c) PROVE [Source!Next]_(Source!vars)
  <2>0. /\ pc[c] = "return" /\ pc'[c] = "idle"
        /\ \A d \in Caller \ {c} : /\ pc'[d] = pc[d] /\ op'[d] = op[d]
                                   /\ serial'[d] = serial[d] /\ raised'[d] = raised[d]
        /\ issued' = IF Granted(c) THEN [issued EXCEPT ![serial[c]] = @ + 1] ELSE issued
    BY <1>4 DEF Return, Forget, Granted, Committed
  <2>1. \A d \in Caller \ {c} : CallSeen'[d] = CallSeen[d]
    BY <2>0, SeenSame
  <2>2. CallSeen'[c] = Source!Idle
    BY <2>0, SeenIs DEF Shows
  <2>3. CASE Granted(c)
    <3>1. CallSeen[c] = Source!Granted(serial[c])
      BY <2>3, SeenIs DEF Shows
    <3>2. CallSeen' = [CallSeen EXCEPT ![c] = Source!Idle]
      BY <1>0, <2>1, <2>2
    <3>3. Source!Deliver(c)
      BY <2>0, <2>3, <3>1, <3>2 DEF Source!Deliver, Source!Granted
    <3> QED
      BY <3>3 DEF Source!Next
  <2>4. CASE ~ Granted(c)
    <3>1. Source!GiveUp({c})
      BY <1>0, <2>0, <2>1, <2>2, <2>4 DEF Source!GiveUp
    <3> QED
      BY <3>1 DEF Source!Next
  <2> QED
    BY <2>3, <2>4
<1>5. ASSUME NEW dead \in SUBSET Caller, Kill(dead), UNCHANGED issued
      PROVE  [Source!Next]_(Source!vars)
  <2>1. \A d \in dead : CallSeen'[d] = Source!Idle
    <3> TAKE d \in dead
    <3>1. pc'[d] = "idle" /\ Shows(d, CallSeen[d])'
      BY <1>5, SeenIs DEF Kill, Forget
    <3> QED
      BY <3>1 DEF Shows
  <2>2. \A d \in Caller \ dead : CallSeen'[d] = CallSeen[d]
    BY <1>5, SeenSame DEF Kill, Forget
  <2>3. Source!GiveUp(dead)
    BY <1>0, <1>5, <2>1, <2>2 DEF Source!GiveUp
  <2> QED
    BY <2>3 DEF Source!Next
<1>6. ASSUME NEW p \in Process, CrashProcess(p) PROVE [Source!Next]_(Source!vars)
  BY <1>5, <1>6 DEF CrashProcess
<1>7. CASE PowerFailure
  BY <1>5, <1>7 DEF PowerFailure
<1>8. CASE Corrupt \/ UNCHANGED vars
  <2>1. UNCHANGED <<pc, op, serial, raised, issued>>
    BY <1>8 DEF Corrupt, vars, local
  <2>2. \A d \in Caller : CallSeen'[d] = CallSeen[d]
    BY <2>1, SeenSame
  <2> QED
    BY <1>0, <2>1, <2>2 DEF Source!vars
<1> QED
  BY <1>1, <1>2, <1>3, <1>4, <1>6, <1>7, <1>8 DEF Next, Step

\* InvoicePipeline may take the counter for an ideal source of serials: each
\* one granted is new, above all granted before, and delivered once or skipped.
THEOREM Refinement == ASSUME Exclusion PROVE Spec => Implements
<1>1. Init => Source!Init
  <2> SUFFICES ASSUME Init PROVE Source!Init
    OBVIOUS
  <2>1. CallSeen = [d \in Caller |-> CallSeen[d]]
    BY DEF CallSeen
  <2>2. \A d \in Caller : CallSeen[d] = Source!Idle
    BY SeenIs DEF Shows, Init
  <2> QED
    BY <2>1, <2>2 DEF Init, Source!Init, Source!Serials, Serials
<1> QED
  BY <1>1, Simulation, Invariance, PTL DEF Spec, Implements, Source!Spec

\* CallSeen keeps up: what counter.current reports is no less than any serial
\* that was returned before it was asked.
THEOREM CurrentKeepsUp == ASSUME Exclusion PROVE Spec => []CurrentIsNotBehind
BY Linearizable, PTL

=============================================================================
