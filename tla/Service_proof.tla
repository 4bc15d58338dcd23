---------------------------- MODULE Service_proof ----------------------------
(***************************************************************************)
(* Proofs about the profile file, the upgrade of the buyers and goods, the *)
(* catalogue and the check digit (with the lemmas of Parts_proof), the     *)
(* signing files, the fields and the money of an invoice, and the serial   *)
(* tool.  The parts share no variable, so each has an inductive invariant  *)
(* of its own, and a step of the service is a step or a stutter of each.   *)
(***************************************************************************)
EXTENDS Service, Parts_proof, LeastNumber_proof, TLAPS

(* The profile file. *)

Holdings == [Name -> Value \cup {Absent}]
Calls    == [at : {"idle", "read"} \cup Saving, name : Name \cup {Absent}, value : Value \cup {Absent},
             held : Holdings, flushed : BOOLEAN]

\* What the file says is saved.
OnFile == IF file \in {Absent, Garbage} THEN Nothing ELSE file.held

\* Types, and a call in progress names a profile.
ProfileTypes ==
  /\ ProfileTypeOK
  /\ passphrase \in Passphrase
  /\ kept \in Holdings
  /\ disturbed \in BOOLEAN
  /\ call \in [Request -> Calls]
  /\ \A r \in Request : call[r].at # "idle" => call[r].name \in Name

\* A copy on its way to the file differs from what is saved by its own change.
CopyIsCurrent ==
  ~ disturbed => \A r \in Request : call[r].at \in Saving =>
    call[r].held = [kept EXCEPT ![call[r].name] = call[r].value]

\* No rename is due before the contents are on the disk.
RenamesFlushed == \A r \in Request : call[r].at = "replace" => call[r].flushed

ProfileInv ==
  ProfileTypes /\ PowerFailureLeavesWholeFile /\ ProfilesAreKept /\ CopyIsCurrent /\ RenamesFlushed

\* No profiles at all, and an idle call, have their types.
LEMMA ProfileValues ==
  /\ Nothing \in Holdings
  /\ NoCall \in Calls
  /\ NoCall.at = "idle"
<1>1. Nothing \in Holdings
  BY DEF Nothing, Holdings
<1> QED
  BY <1>1 DEF NoCall, Calls

\* What the file says is saved is a set of profiles.
LEMMA OnFileType == ASSUME ProfileInv PROVE OnFile \in Holdings
BY ProfileValues, ProfileAssumption DEF ProfileInv, ProfileTypes, ProfileTypeOK, OnFile, Files, Holdings

\* _read_all, when the passphrase opens the file, returns what the file says.
LEMMA HeldIsOnFile == ASSUME ProfileInv, Opens PROVE Held = OnFile
BY DEF Opens, Held, OnFile, ProfileInv, PowerFailureLeavesWholeFile, ProfileTypes, ProfileTypeOK

\* A service that was never used has saved nothing, and its file agrees.
LEMMA ProfileStart == ProfileInit => ProfileInv
<1> SUFFICES ASSUME ProfileInit PROVE ProfileInv
  OBVIOUS
<1>1. \A r \in Request : call[r] = NoCall
  BY DEF ProfileInit
<1>2. ProfileTypeOK /\ PowerFailureLeavesWholeFile /\ ProfilesAreKept
  BY ProfileAssumption DEF ProfileInit, ProfileTypeOK, Files, PowerFailureLeavesWholeFile, ProfilesAreKept
<1>3. ProfileTypes
  BY <1>1, <1>2, ProfileValues DEF ProfileInit, ProfileTypes
<1>4. CopyIsCurrent /\ RenamesFlushed
  BY <1>1, ProfileValues DEF CopyIsCurrent, RenamesFlushed, Saving
<1> QED
  BY <1>2, <1>3, <1>4 DEF ProfileInv

\* A request that writes its copy goes on to the next place.
LEMMA Moving ==
  ASSUME ProfileInv, UNCHANGED <<file, survivors, passphrase, asked, kept, disturbed>>,
         NEW r \in Request, call[r].at \in Saving,
         NEW at \in Saving, NEW flushed \in BOOLEAN, at = "replace" => flushed,
         call' = [call EXCEPT ![r].at = at, ![r].flushed = flushed]
  PROVE  ProfileInv'
<1> DEFINE next == [call[r] EXCEPT !.at = at, !.flushed = flushed]
<1>1. call' = [call EXCEPT ![r] = next]
  BY DEF ProfileInv, ProfileTypes
<1>2. next \in Calls
  BY DEF ProfileInv, ProfileTypes, Calls
<1>3. next.at = at /\ next.flushed = flushed /\ next.held = call[r].held
      /\ next.name = call[r].name /\ next.value = call[r].value
  BY DEF ProfileInv, ProfileTypes, Calls
<1>4. call[r].name \in Name
  BY DEF ProfileInv, ProfileTypes, Saving
<1> HIDE DEF next
<1>8. call'[r] = next /\ \A s \in Request : s # r => call'[s] = call[s]
  BY <1>1 DEF ProfileInv, ProfileTypes
<1>9. call' \in [Request -> Calls]
  BY <1>1, <1>2 DEF ProfileInv, ProfileTypes
<1>5. ProfileTypes'
  <2>1. \A s \in Request : call'[s].at # "idle" => call'[s].name \in Name
    BY <1>3, <1>4, <1>8 DEF ProfileInv, ProfileTypes
  <2> QED
    BY <1>9, <2>1 DEF ProfileInv, ProfileTypes, ProfileTypeOK, Files
<1>6. CopyIsCurrent' /\ RenamesFlushed'
  <2>1. CopyIsCurrent'
    <3> SUFFICES ASSUME ~ disturbed, NEW s \in Request, call'[s].at \in Saving
                 PROVE  call'[s].held = [kept EXCEPT ![call'[s].name] = call'[s].value]
      BY DEF CopyIsCurrent
    <3>1. CASE s # r
      BY <1>8, <3>1 DEF ProfileInv, CopyIsCurrent
    <3>2. CASE s = r
      <4>1. call[r].held = [kept EXCEPT ![call[r].name] = call[r].value]
        BY DEF ProfileInv, CopyIsCurrent
      <4> QED
        BY <1>3, <1>8, <3>2, <4>1
    <3> QED
      BY <3>1, <3>2
  <2>2. RenamesFlushed'
    BY <1>3, <1>8 DEF ProfileInv, RenamesFlushed
  <2> QED
    BY <2>1, <2>2
<1>7. PowerFailureLeavesWholeFile' /\ ProfilesAreKept'
  BY DEF ProfileInv, PowerFailureLeavesWholeFile, ProfilesAreKept, Nothing
<1> QED
  BY <1>5, <1>6, <1>7 DEF ProfileInv

\* A request ends and leaves everything as it was.
LEMMA Forgotten ==
  ASSUME ProfileInv, UNCHANGED <<file, survivors, passphrase, asked, kept, disturbed>>,
         NEW r \in Request, call' = [call EXCEPT ![r] = NoCall]
  PROVE  ProfileInv'
BY ProfileValues
DEF ProfileInv, Nothing, ProfileTypes, ProfileTypeOK, Files, PowerFailureLeavesWholeFile, ProfilesAreKept,
    CopyIsCurrent, RenamesFlushed, Saving

\* Every step of a request, a restart, a power failure or the file system keeps
\* the file whole and, undisturbed, equal to what was answered as saved.
LEMMA ProfileStep == ProfileInv /\ [ProfileNext]_profileVars => ProfileInv'
<1> SUFFICES ASSUME ProfileInv, [ProfileNext]_profileVars PROVE ProfileInv'
  OBVIOUS
<1> USE DEF ProfileInv
<1>1. ASSUME NEW r \in Request, AskProfile(r) PROVE ProfileInv'
  <2>1. PICK n \in Name, v \in Value \cup {Absent} :
          call' = [call EXCEPT ![r] = [NoCall EXCEPT !.at = "read", !.name = n, !.value = v]]
    BY <1>1 DEF AskProfile
  <2>2. UNCHANGED <<file, survivors, passphrase, kept, disturbed>>
    BY <1>1 DEF AskProfile
  <2>3. [NoCall EXCEPT !.at = "read", !.name = n, !.value = v] \in Calls
    BY ProfileValues DEF Calls
  <2>4. ProfileTypes'
    BY <2>1, <2>2, <2>3, ProfileValues DEF ProfileTypes, ProfileTypeOK, Files, Calls
  <2>5. CopyIsCurrent' /\ RenamesFlushed'
    BY <2>1, <2>2, <2>3, ProfileValues DEF ProfileTypes, CopyIsCurrent, RenamesFlushed, Calls, Saving
  <2> QED
    BY <2>2, <2>4, <2>5 DEF PowerFailureLeavesWholeFile, ProfilesAreKept, Nothing
<1>2. ASSUME NEW r \in Request, ReadAll(r) PROVE ProfileInv'
  <2>1. UNCHANGED <<file, survivors, passphrase, kept, disturbed>>
    BY <1>2 DEF ReadAll
  <2>2. PowerFailureLeavesWholeFile' /\ ProfilesAreKept'
    BY <2>1 DEF PowerFailureLeavesWholeFile, ProfilesAreKept, Nothing
  <2>3. CASE Opens /\ call' = [call EXCEPT ![r].at = "write",
                                 ![r].held = [Held EXCEPT ![call[r].name] = call[r].value]]
    <3>1. Held \in Holdings /\ (~ disturbed => Held = kept)
      BY <2>3, HeldIsOnFile, OnFileType DEF ProfilesAreKept, OnFile
    <3>2. [Held EXCEPT ![call[r].name] = call[r].value] \in Holdings
      BY <3>1 DEF ProfileTypes, Calls, Holdings
    <3>3. [call[r] EXCEPT !.at = "write", !.held = [Held EXCEPT ![call[r].name] = call[r].value]] \in Calls
      BY <3>2 DEF ProfileTypes, Calls, Saving
    <3>4. call' = [call EXCEPT ![r] = [call[r] EXCEPT !.at = "write",
                                          !.held = [Held EXCEPT ![call[r].name] = call[r].value]]]
      BY <2>3 DEF ProfileTypes
    <3>5. call[r].at = "read" /\ call[r].name \in Name
      BY <1>2 DEF ReadAll, ProfileTypes
    <3>6. ProfileTypes'
      BY <2>1, <3>3, <3>4, <3>5 DEF ProfileTypes, ProfileTypeOK, Files, Calls, Saving
    <3>7. CopyIsCurrent' /\ RenamesFlushed'
      BY <2>1, <3>1, <3>3, <3>4 DEF ProfileTypes, CopyIsCurrent, RenamesFlushed, Calls, Saving
    <3> QED
      BY <2>2, <3>6, <3>7
  <2>4. CASE call' = [call EXCEPT ![r] = NoCall]
    <3>1. UNCHANGED <<file, survivors, passphrase, asked, kept, disturbed>>
      BY <1>2 DEF ReadAll
    <3> QED
      BY <2>4, <3>1, Forgotten
  <2> QED
    BY <1>2, <2>3, <2>4 DEF ReadAll
<1>3. ASSUME NEW r \in Request, WriteTemporary(r) PROVE ProfileInv'
  BY <1>3, Moving DEF WriteTemporary, Saving
<1>4. ASSUME NEW r \in Request, Flush(r) PROVE ProfileInv'
  BY <1>4, Moving DEF Flush, Saving
<1>9. ASSUME NEW r \in Request, Replace(r) PROVE ProfileInv'
  <2> DEFINE new == Sealed(passphrase, call[r].held)
  <2>1. /\ call[r].at = "replace" /\ call[r].flushed /\ UNCHANGED passphrase
        /\ file' = new /\ survivors' = survivors \cup {new}
        /\ kept' = [kept EXCEPT ![call[r].name] = call[r].value]
        /\ disturbed' = (disturbed \/ \E s \in Request \ {r} : call[s].at \in Saving)
        /\ call' = [call EXCEPT ![r] = NoCall]
    BY <1>9 DEF Replace, RenamesFlushed
  <2>2. new \in [key : Passphrase, held : Holdings] /\ new \notin {Absent, Garbage} /\ new.held = call[r].held
    BY ProfileAssumption DEF Sealed, ProfileTypes, Calls, Holdings
  <2>3. ProfileTypeOK' /\ PowerFailureLeavesWholeFile'
    BY <2>1, <2>2 DEF ProfileTypes, ProfileTypeOK, Files, Holdings, PowerFailureLeavesWholeFile
  <2>4. kept' \in Holdings /\ disturbed' \in BOOLEAN
    BY <2>1 DEF ProfileTypes, Calls, Holdings
  <2>5. ProfileTypes'
    BY <2>1, <2>3, <2>4, ProfileValues DEF ProfileTypes
  <2>6. ProfilesAreKept'
    BY <2>1, <2>2 DEF ProfilesAreKept, CopyIsCurrent, Saving
  <2>7. CopyIsCurrent' /\ RenamesFlushed'
    BY <2>1, ProfileValues DEF CopyIsCurrent, RenamesFlushed, ProfileTypes, Saving
  <2> QED
    BY <2>3, <2>5, <2>6, <2>7
<1>10. ASSUME NEW r \in Request, WriteFails(r) PROVE ProfileInv'
  BY <1>10, Forgotten DEF WriteFails
<1>5. CASE RestartProfiles
  BY <1>5, ProfileValues
  DEF RestartProfiles, Nothing, ProfileTypes, ProfileTypeOK, Files, PowerFailureLeavesWholeFile, ProfilesAreKept,
      CopyIsCurrent, RenamesFlushed, Saving
<1>6. CASE PowerFails
  BY <1>6, ProfileValues
  DEF PowerFails, Nothing, ProfileTypes, ProfileTypeOK, Files, PowerFailureLeavesWholeFile, ProfilesAreKept,
      CopyIsCurrent, RenamesFlushed, Saving
<1>7. CASE DirectorySettles
  BY <1>7
  DEF DirectorySettles, Nothing, ProfileTypes, ProfileTypeOK, Files, PowerFailureLeavesWholeFile, ProfilesAreKept,
      CopyIsCurrent, RenamesFlushed
<1>8. CASE UNCHANGED profileVars
  BY <1>8
  DEF profileVars, Nothing, ProfileTypes, ProfileTypeOK, Files, PowerFailureLeavesWholeFile, ProfilesAreKept,
      CopyIsCurrent, RenamesFlushed
<1> QED BY <1>1, <1>2, <1>3, <1>4, <1>5, <1>6, <1>7, <1>8, <1>9, <1>10 DEF ProfileNext

-----------------------------------------------------------------------------
(* The buyers and goods. *)

\* The keys the organization issued, the rows they can make, and the tables.
Issued == NewKey \cup UNION {Keys(OldRows[t]) : t \in Table}
Rows   == [id : Nat, key : Issued, def : BOOLEAN]
TableType == [cols : {"v1", "v2", "none"}, rows : SUBSET Rows, aside : SUBSET SUBSET Rows]

\* Where a worker that upgrades may be.
InUpgrade == {"check", "rename", "create", "copy", "drop", "default", "commit"}

\* Ids number the rows, those in the table and those put aside; the issued keys
\* are unique once the table is new; and every undeleted old key is somewhere.
TableOK(table, t) ==
  /\ table.cols = "none" => table.rows = {}
  /\ table.cols = "v2" => \A r, s \in table.rows : r.key = s.key => r = s
  /\ \A r, s \in table.rows : r.id = s.id => r = s
  /\ \A r, s \in IfExists(table.aside) : r.id = s.id => r = s
  /\ \A r \in table.rows \cup IfExists(table.aside) : r.id < nextRow
  /\ Keys(OldRows[t]) \ removed[t] \subseteq Keys(table.rows \cup IfExists(table.aside))

\* No copied row has its original still aside.
Apart(table) == \A r \in table.rows, s \in IfExists(table.aside) : r.id # s.id

OneDefault(table) == table.cols = "v2" => \A r, s \in DefaultsIn(table.rows) : r = s

\* A table as committed, or as seen outside the copying of it.
SoundTable(table, t) ==
  /\ table \in TableType
  /\ TableOK(table, t)
  /\ Apart(table)
  /\ t = "goods" => OneDefault(table)

Sound(image) == image = [t \in Table |-> image[t]] /\ \A t \in Table : SoundTable(image[t], t)

\* What a worker that is at a place of the upgrade of t has open.
Half(image, at, t) ==
  /\ at \in InUpgrade
  /\ image = [u \in Table |-> image[u]]
  /\ \A u \in Table : image[u] \in TableType /\ TableOK(image[u], u)
  /\ \A u \in Table : (at = "drop" /\ t = u) \/ Apart(image[u])
  /\ (at \in {"drop", "default"} /\ t = "goods") \/ OneDefault(image["goods"])
  /\ at = "drop" => Keys(IfExists(image[t].aside)) \subseteq Keys(image[t].rows)
  /\ at = "default" => t = "goods"

\* The open transaction: between the copy and the drop the rows are there twice,
\* and only then, or before the defaults are settled, is it not sound.
InWork(w) == Half(txn.image, opener[w].at, opener[w].t)

\* A worker between its copy and its last statement owns the transaction: what
\* drops a table has its rows copied in the same transaction.
RecordInv ==
  /\ nextRow \in Nat
  /\ removed \in [Table -> SUBSET Issued]
  /\ opener \in [Worker -> [at : InUpgrade \cup {"closed", "schema", "ready"}, t : Table]]
  /\ txn.owner \in Worker \cup {Nobody} /\ txn = [owner |-> txn.owner, image |-> txn.image]
  /\ Sound(tables)
  /\ \A w \in Worker : txn.owner = w => InWork(w)
  /\ \A w \in Worker : opener[w].at \in {"drop", "default"} => txn.owner = w

\* The INSERT ... SELECT of _migrate copies a row of every key.
LEMMA OldestKeepsKeys ==
  ASSUME NEW rows \in SUBSET Rows
  PROVE  Keys(Oldest(rows)) = Keys(rows)
<1> SUFFICES ASSUME NEW r \in rows PROVE r.key \in Keys(Oldest(rows))
  BY DEF Keys, Oldest
<1> DEFINE same == {s.id : s \in {s \in rows : s.key = r.key}}
<1>1. same \in SUBSET Nat
  BY DEF Rows
<1> r.id \in same
  OBVIOUS
<1>2. PICK n \in same : \A m \in same : n <= m
  BY <1>1, LeastNumber
<1>3. PICK s \in rows : s.key = r.key /\ s.id = n
  BY <1>2
<1>4. s \in Oldest(rows)
  BY <1>2, <1>3 DEF Oldest
<1> QED BY <1>3, <1>4 DEF Keys

\* The version 1 tables, before any worker opens them.
LEMMA RecordStart == RecordInit => RecordInv
<1> SUFFICES ASSUME RecordInit PROVE RecordInv
  OBVIOUS
<1>1. \A t \in Table : OldRows[t] \in SUBSET Rows
  BY RecordAssumption DEF Rows, Issued, Keys
<1>2. nextRow \in Nat /\ \A t \in Table : \A r \in OldRows[t] : r.id < nextRow
  <2> DEFINE above(n) == \A t \in Table : \A r \in OldRows[t] : r.id < n
  <2>1. MaxRow + 1 \in 1 .. MaxRow + 1 /\ above(MaxRow + 1)
    BY RecordAssumption
  <2>2. nextRow = CHOOSE n \in 1 .. MaxRow + 1 : above(n)
    BY DEF RecordInit
  <2> HIDE DEF above
  <2>3. nextRow \in 1 .. MaxRow + 1 /\ above(nextRow)
    BY <2>1, <2>2
  <2> QED
    BY <2>3, RecordAssumption DEF above
<1>3. \A t \in Table : tables[t] = [cols |-> "v1", rows |-> OldRows[t], aside |-> {}]
  BY DEF RecordInit
<1>4. \A t \in Table : SoundTable(tables[t], t)
  <2> SUFFICES ASSUME NEW t \in Table PROVE SoundTable(tables[t], t)
    OBVIOUS
  <2> DEFINE table == [cols |-> "v1", rows |-> OldRows[t], aside |-> {}]
  <2>1. tables[t] = table
    BY <1>3
  <2>2. table.rows = OldRows[t] /\ table.cols = "v1" /\ table.aside = {} /\ table \in TableType
    BY <1>1 DEF TableType
  <2>3. IfExists({}) = {} /\ OldRows[t] \cup {} = OldRows[t]
    BY DEF IfExists
  <2> HIDE DEF table
  <2> QED
    BY <1>2, <2>1, <2>2, <2>3, RecordAssumption DEF SoundTable, TableOK, Apart, OneDefault
<1>5. tables = [t \in Table |-> tables[t]]
  BY DEF RecordInit
<1>7. opener \in [Worker -> [at : InUpgrade \cup {"closed", "schema", "ready"}, t : Table]]
      /\ \A w \in Worker : opener[w].at = "closed"
  BY DEF RecordInit, Table
<1>8. txn.owner = Nobody /\ txn = [owner |-> txn.owner, image |-> txn.image]
  BY DEF RecordInit, NoTxn
<1>9. removed \in [Table -> SUBSET Issued]
  BY DEF RecordInit
<1> QED
  BY <1>2, <1>4, <1>5, <1>7, <1>8, <1>9, RecordAssumption DEF RecordInv, Sound

Quiet == UNCHANGED <<nextRow, removed>>

\* What is committed stays sound while it is left alone.
LEMMA SoundStays ==
  ASSUME Sound(tables), Quiet, tables' = tables
  PROVE  Sound(tables)'
<1>1. ASSUME NEW t \in Table, TableOK(tables[t], t) PROVE TableOK(tables[t], t)'
  BY <1>1 DEF TableOK, Quiet
<1>2. ASSUME NEW t \in Table, SoundTable(tables[t], t) PROVE SoundTable(tables[t], t)'
  BY <1>1, <1>2 DEF SoundTable
<1> QED
  BY <1>2 DEF Sound

\* A step of a worker that may write, for all that concerns the others.
LEMMA WriteKeeps ==
  ASSUME RecordInv, NEW w \in Worker, MayWrite(w), Quiet,
         NEW place \in [at : InUpgrade \cup {"closed", "schema", "ready"}, t : Table],
         opener' = [opener EXCEPT ![w] = place],
         Sound(tables)', txn'.owner \in {w, Nobody}, txn' = [owner |-> txn'.owner, image |-> txn'.image],
         txn'.owner = w => InWork(w)',
         place.at \in {"drop", "default"} => txn'.owner = w
  PROVE  RecordInv'
BY RecordAssumption DEF RecordInv, MayWrite, Quiet

\* A worker moves on without writing.
LEMMA MoveKeeps ==
  ASSUME RecordInv, NEW w \in Worker, Quiet, UNCHANGED <<tables, txn>>,
         NEW place \in [at : InUpgrade \cup {"closed", "schema", "ready"}, t : Table],
         opener' = [opener EXCEPT ![w] = place],
         place.at \notin {"drop", "default"},
         txn.owner = w => place.at \in InUpgrade /\ opener[w].at \notin {"drop", "default"}
  PROVE  RecordInv'
<1>1. Sound(tables)'
  BY SoundStays DEF RecordInv
<1>2. ASSUME NEW v \in Worker, txn'.owner = v PROVE InWork(v)'
  BY <1>2 DEF RecordInv, Quiet, InWork, Half, TableOK
<1> QED
  BY <1>1, <1>2 DEF RecordInv, Quiet

\* The constructor of the store begins.
LEMMA Opening ==
  ASSUME RecordInv, NEW w \in Worker, Open(w)
  PROVE  RecordInv'
<1>1. opener[w].at = "closed" /\ [at |-> "check", t |-> "buyers"] \in [at : InUpgrade, t : Table]
  BY DEF Open, InUpgrade, Table
<1> QED
  BY <1>1, MoveKeeps DEF Open, Quiet, InUpgrade

\* What a worker that may write sees is sound, but for its own half-done work.
LEMMA SeesIsSound ==
  ASSUME RecordInv, NEW w \in Worker, opener[w].at \notin {"drop", "default"}
  PROVE  Sound(Sees(w))
BY DEF RecordInv, InWork, Half, Sees, Sound, SoundTable

\* A worker that moves stays with its table.
LEMMA PlaceType ==
  ASSUME RecordInv, NEW w \in Worker, NEW at \in InUpgrade \cup {"closed", "schema", "ready"}
  PROVE  /\ opener[w].t \in Table
         /\ [opener EXCEPT ![w].at = at] = [opener EXCEPT ![w] = [at |-> at, t |-> opener[w].t]]
<1>1. opener[w] \in [at : InUpgrade \cup {"closed", "schema", "ready"}, t : Table]
  BY DEF RecordInv
<1>2. [opener[w] EXCEPT !.at = at] = [at |-> at, t |-> opener[w].t]
  BY <1>1
<1> QED
  BY <1>1, <1>2

\* An error or a death rolls the open transaction back.
LEMMA Failing ==
  ASSUME RecordInv, NEW w \in Worker, Fail(w), Quiet
  PROVE  RecordInv'
<1>1. opener' = [opener EXCEPT ![w] = [at |-> "closed", t |-> opener[w].t]] /\ opener[w].t \in Table
  BY PlaceType DEF Fail, Move
<1>2. Sound(tables)'
  BY SoundStays DEF Fail, Rollback, RecordInv
<1>3. CASE txn.owner = w
  BY <1>1, <1>2, <1>3, WriteKeeps, RecordAssumption DEF Fail, Rollback, NoTxn, MayWrite
<1>4. CASE txn.owner # w
  <2>1. UNCHANGED <<tables, txn>>
    BY <1>4 DEF Fail, Rollback
  <2> QED
    BY <1>1, <1>4, <2>1, MoveKeeps
<1> QED
  BY <1>3, <1>4

\* _migrate reads the columns of a table and moves on.
LEMMA Checking ==
  ASSUME RecordInv, NEW w \in Worker, Check(w)
  PROVE  RecordInv'
<1>1. opener[w].at = "check" /\ UNCHANGED <<tables, txn>> /\ Quiet
  BY DEF Check, Quiet
<1>2. \E place \in [at : {"rename", "check", "commit"}, t : Table] : opener' = [opener EXCEPT ![w] = place]
  <2>1. CASE Move(w, "rename") \/ Move(w, "commit")
    <3>1. PICK at \in {"rename", "commit"} : Move(w, at)
      BY <2>1
    <3>2. opener' = [opener EXCEPT ![w] = [at |-> at, t |-> opener[w].t]] /\ opener[w].t \in Table
      BY <3>1, PlaceType DEF Move, InUpgrade
    <3> QED
      BY <3>1, <3>2
  <2>2. CASE opener' = [opener EXCEPT ![w] = [at |-> "check", t |-> "goods"]]
    BY <2>2 DEF Table
  <2> QED
    BY <2>1, <2>2 DEF Check, NextTable
<1> QED
  BY <1>1, <1>2, MoveKeeps DEF InUpgrade

\* A DDL statement on what the worker sees, committed or in its transaction.
LEMMA DdlKeeps ==
  ASSUME RecordInv, NEW w \in Worker, MayWrite(w), Quiet,
         NEW image, Sound(image), Ddl(w, image),
         NEW place \in [at : InUpgrade \cup {"closed", "schema", "ready"}, t : Table],
         opener' = [opener EXCEPT ![w] = place],
         place.at \notin {"drop", "default"},
         txn.owner = w => place.at \in InUpgrade
  PROVE  RecordInv'
<1>1. opener'[w] = place
  BY DEF RecordInv
<1>2. CASE txn.owner = w
  <2>1. txn' = [owner |-> w, image |-> image] /\ UNCHANGED tables
    BY <1>2 DEF Ddl, RecordInv
  <2>2. Sound(tables)'
    BY <2>1, SoundStays DEF RecordInv
  <2>3. InWork(w)'
    <3>1. /\ opener'[w].at \in InUpgrade \ {"drop", "default"}
          /\ txn'.image = image
      BY <1>1, <1>2, <2>1
    <3>2. image = [u \in Table |-> image[u]] /\ OneDefault(image["goods"])
          /\ \A u \in Table : image[u] \in TableType /\ TableOK(image[u], u)' /\ Apart(image[u])
      BY DEF Quiet, Sound, SoundTable, TableOK, Table
    <3> QED
      BY <3>1, <3>2 DEF InWork, Half
  <2> QED
    BY <2>1, <2>2, <2>3, WriteKeeps
<1>3. CASE txn.owner # w
  <2>1. tables' = image /\ UNCHANGED txn
    BY <1>3 DEF Ddl
  <2>2. Sound(tables)'
    BY <2>1 DEF Quiet, Sound, SoundTable, TableOK
  <2>3. txn'.owner = Nobody /\ txn'.owner # w /\ txn' = [owner |-> txn'.owner, image |-> txn'.image]
    BY <1>3, <2>1, RecordAssumption DEF MayWrite, RecordInv
  <2> QED
    BY <2>1, <2>2, <2>3, WriteKeeps
<1> QED
  BY <1>2, <1>3

\* One table of a sound pair is replaced by a sound one.
LEMMA ReplaceTable ==
  ASSUME NEW image, Sound(image), NEW t \in Table, NEW table, SoundTable(table, t)
  PROVE  Sound([image EXCEPT ![t] = table])
<1> DEFINE new == [image EXCEPT ![t] = table]
<1>1. new = [u \in Table |-> new[u]] /\ \A u \in Table : new[u] = IF u = t THEN table ELSE image[u]
  BY DEF Sound
<1> HIDE DEF new
<1>2. Sound(new)
  BY <1>1 DEF Sound
<1> QED
  BY <1>2 DEF new

\* ALTER TABLE ... RENAME puts the rows aside.
LEMMA Renaming ==
  ASSUME RecordInv, NEW w \in Worker, RenameOld(w)
  PROVE  RecordInv'
<1> DEFINE t == opener[w].t
           old == Sees(w)[t]
           table == [cols |-> "none", rows |-> {}, aside |-> {old.rows}]
           image == [Sees(w) EXCEPT ![t] = table]
<1>1. opener[w].at = "rename" /\ MayWrite(w) /\ Quiet /\ t \in Table
  BY DEF RenameOld, Quiet, RecordInv
<1>2. CASE Fail(w)
  BY <1>1, <1>2, Failing
<1>3. CASE old.aside = {} /\ Ddl(w, image) /\ Move(w, "create")
  <2>1. Sound(Sees(w)) /\ SoundTable(old, t)
    BY <1>1, SeesIsSound DEF Sound
  <2>2. opener' = [opener EXCEPT ![w] = [at |-> "create", t |-> t]]
    BY <1>3, PlaceType DEF Move, InUpgrade
  <2>3. IfExists({old.rows}) = old.rows /\ IfExists({}) = {}
    BY DEF IfExists
  <2>4. table.cols = "none" /\ table.rows = {} /\ table.aside = {old.rows} /\ table \in TableType
    BY <2>1 DEF SoundTable, TableType
  <2>5. old.rows \cup {} = {} \cup old.rows
    OBVIOUS
  <2>6. SoundTable(table, t)
    <3>1. IfExists(old.aside) = {} /\ IfExists(table.aside) = old.rows
      BY <1>3, <2>3, <2>4
    <3>2. table.rows \cup IfExists(table.aside) = old.rows \cup IfExists(old.aside)
      BY <2>4, <2>5, <3>1
    <3> HIDE DEF table, old, t
    <3>3. TableOK(table, t)
      BY <2>1, <2>4, <3>1, <3>2 DEF SoundTable, TableOK
    <3> QED
      BY <2>4, <3>3 DEF SoundTable, Apart, OneDefault
  <2>7. Sound(image)
    BY <1>1, <2>1, <2>6, ReplaceTable
  <2> HIDE DEF image, t
  <2> QED
    BY <1>1, <1>3, <2>2, <2>7, DdlKeeps DEF InUpgrade
<1> QED
  BY <1>2, <1>3 DEF RenameOld

\* CREATE TABLE IF NOT EXISTS loses nothing.
LEMMA CreatedIsSound ==
  ASSUME NEW image, Sound(image), NEW t \in Table
  PROVE  Sound(Created(image, t))
<1> DEFINE table == [image[t] EXCEPT !.cols = "v2"]
<1>1. SoundTable(image[t], t)
  BY DEF Sound
<1>2. CASE image[t].cols = "none"
  <2>1. table.cols = "v2" /\ table.rows = {} /\ table.aside = image[t].aside /\ image[t].rows = {}
        /\ table \in TableType
    BY <1>1, <1>2 DEF SoundTable, TableType, TableOK
  <2>2. [image EXCEPT ![t].cols = "v2"] = [image EXCEPT ![t] = table]
    OBVIOUS
  <2> HIDE DEF table
  <2>3. SoundTable(table, t)
    BY <1>1, <2>1 DEF SoundTable, TableOK, Apart, OneDefault, DefaultsIn
  <2> QED
    BY <1>2, <2>2, <2>3, ReplaceTable DEF Created
<1> QED
  BY <1>2 DEF Created

\* The new table of _migrate.
LEMMA Creating ==
  ASSUME RecordInv, NEW w \in Worker, CreateNew(w)
  PROVE  RecordInv'
<1>1. opener[w].at = "create" /\ MayWrite(w) /\ Quiet /\ opener[w].t \in Table
  BY DEF CreateNew, Quiet, RecordInv
<1>2. opener' = [opener EXCEPT ![w] = [at |-> "copy", t |-> opener[w].t]]
  BY PlaceType DEF CreateNew, Move, InUpgrade
<1>3. Sound(Created(Sees(w), opener[w].t))
  BY <1>1, SeesIsSound, CreatedIsSound
<1> QED
  BY <1>1, <1>2, <1>3, DdlKeeps DEF CreateNew, InUpgrade

\* The schema script after the upgrade.
LEMMA Finishing ==
  ASSUME RecordInv, NEW w \in Worker, Schema(w)
  PROVE  RecordInv'
<1>1. opener[w].at = "schema" /\ MayWrite(w) /\ Quiet /\ opener[w].t \in Table
  BY DEF Schema, Quiet, RecordInv
<1>2. opener' = [opener EXCEPT ![w] = [at |-> "ready", t |-> opener[w].t]]
  BY PlaceType DEF Schema, Move
<1>3. Sound(Created(Created(tables, "buyers"), "goods"))
  BY CreatedIsSound DEF RecordInv, Table
<1>4. txn.owner # w
  BY <1>1 DEF RecordInv, InWork, Half, InUpgrade
<1> QED
  BY <1>1, <1>2, <1>3, <1>4, DdlKeeps DEF Schema

\* The commit that ends the upgrade: only then do others see the copied rows.
LEMMA Committing ==
  ASSUME RecordInv, NEW w \in Worker, Migrated(w)
  PROVE  RecordInv'
<1>1. opener[w].at = "commit" /\ Quiet /\ opener[w].t \in Table
  BY DEF Migrated, Quiet, RecordInv
<1>2. opener' = [opener EXCEPT ![w] = [at |-> "schema", t |-> opener[w].t]]
  BY PlaceType DEF Migrated, Move
<1>3. CASE txn.owner = w
  <2>1. tables' = txn.image /\ txn' = NoTxn
    BY <1>3 DEF Migrated, Commit
  <2>2. Sound(txn.image)
    BY <1>1, <1>3 DEF RecordInv, InWork, Half, Sound, SoundTable
  <2>3. Sound(tables)'
    BY <1>1, <2>1, <2>2 DEF Quiet, Sound, SoundTable, TableOK
  <2> QED
    BY <1>1, <1>2, <1>3, <2>1, <2>3, WriteKeeps, RecordAssumption DEF MayWrite, NoTxn
<1>4. CASE txn.owner # w
  BY <1>1, <1>2, <1>4, MoveKeeps DEF Migrated, Commit
<1> QED
  BY <1>3, <1>4

\* A worker dies at any place.
LEMMA Dying ==
  ASSUME RecordInv, NEW w \in Worker, WorkerDies(w)
  PROVE  RecordInv'
BY Failing DEF WorkerDies, Quiet

\* An INSERT or UPDATE of the upgrade leaves the committed tables alone.
LEMMA DmlKeeps ==
  ASSUME RecordInv, NEW w \in Worker, MayWrite(w), Quiet,
         NEW image, UNCHANGED tables, txn' = [owner |-> w, image |-> image],
         NEW place \in [at : InUpgrade, t : Table], opener' = [opener EXCEPT ![w] = place],
         Half(image, place.at, place.t)
  PROVE  RecordInv'
<1>1. Sound(tables)'
  BY SoundStays DEF RecordInv
<1>2. opener'[w] = place /\ txn'.image = image /\ txn'.owner = w
  BY DEF RecordInv
<1>3. Half(image, place.at, place.t)'
  BY DEF Quiet, Half, TableOK
<1>4. InWork(w)'
  BY <1>2, <1>3 DEF InWork
<1> QED
  BY <1>1, <1>2, <1>4, WriteKeeps

\* The oldest rows of the old table are added to what is in the new one.
LEMMA Copying ==
  ASSUME RecordInv, NEW w \in Worker, CopyOldest(w)
  PROVE  RecordInv'
<1> DEFINE t == opener[w].t
           old == Sees(w)[t]
           given == IfExists(old.aside)
           copied == Oldest(given)
           table == [old EXCEPT !.rows = @ \cup copied]
           image == [Sees(w) EXCEPT ![t] = table]
<1>1. opener[w].at = "copy" /\ MayWrite(w) /\ Quiet /\ t \in Table
  BY DEF CopyOldest, Quiet, RecordInv
<1>2. CASE Fail(w)
  BY <1>1, <1>2, Failing
<1>3. CASE old.cols # "none" /\ Keys(copied) \cap Keys(old.rows) = {} /\ Dml(w, image) /\ Move(w, "drop")
  <2>1. Sound(Sees(w)) /\ SoundTable(old, t)
    BY <1>1, SeesIsSound DEF Sound
  <2>2. opener' = [opener EXCEPT ![w] = [at |-> "drop", t |-> t]] /\ opener'[w] = [at |-> "drop", t |-> t]
    <3>1. opener' = [opener EXCEPT ![w] = [at |-> "drop", t |-> t]]
      BY <1>3, PlaceType DEF Move, InUpgrade
    <3> HIDE DEF t
    <3> QED
      BY <3>1 DEF RecordInv
  <2>3. table.cols = old.cols /\ table.aside = old.aside /\ table.rows = old.rows \cup copied
    BY <2>1 DEF SoundTable, TableType
  <2>4. given \in SUBSET Rows /\ copied \subseteq given
    BY <2>1 DEF SoundTable, TableType, IfExists, Oldest
  <2>5. table \in TableType
    BY <2>1, <2>4 DEF SoundTable, TableType
  <2>6. Keys(given) = Keys(copied)
    BY <2>4, OldestKeepsKeys
  <2>7. \A r, s \in copied : r.key = s.key => r = s
    <3>1. \A r, s \in copied : r.key = s.key => r.id <= s.id /\ s.id <= r.id
      BY DEF Oldest
    <3>2. \A r, s \in given : r.id = s.id => r = s
      BY <2>1 DEF SoundTable, TableOK
    <3>3. \A r \in given : r.id \in Nat
      BY <2>4 DEF Rows
    <3> HIDE DEF copied, given
    <3> QED
      BY <2>4, <3>1, <3>2, <3>3
  <2>8. TableOK(table, t)
    <3>1. \A r \in copied, s \in old.rows : r.key # s.key /\ r.id # s.id
      BY <1>3, <2>1, <2>4 DEF SoundTable, Apart, Keys
    <3>2. table.rows \cup given = old.rows \cup given
      BY <2>3, <2>4
    <3> HIDE DEF copied, given, old, table
    <3> QED
      BY <1>3, <2>1, <2>3, <2>4, <2>7, <3>1, <3>2 DEF SoundTable, TableOK, given
  <2>9. Keys(given) \subseteq Keys(table.rows)
    BY <2>3, <2>6 DEF Keys
  <2>10. /\ image = [u \in Table |-> image[u]]
         /\ image[t] = table /\ \A u \in Table \ {t} : image[u] = Sees(w)[u]
    BY <1>1, <2>1 DEF Sound
  <2>11. UNCHANGED tables /\ txn' = [owner |-> w, image |-> image]
    BY <1>3 DEF Dml
  <2> HIDE DEF image, table
  <2>12. Half(image, "drop", t)
    <3>1. \A u \in Table : image[u] \in TableType /\ TableOK(image[u], u) /\ (u = t \/ Apart(image[u]))
      <4> HIDE DEF t, old, copied, given
      <4> QED
        BY <2>1, <2>5, <2>8, <2>10 DEF Sound, SoundTable
    <3>2. t = "goods" \/ OneDefault(image["goods"])
      BY <2>1, <2>10 DEF Sound, SoundTable, Table
    <3>3. Keys(IfExists(image[t].aside)) \subseteq Keys(image[t].rows)
      BY <2>3, <2>9, <2>10
    <3> HIDE DEF t
    <3> QED
      BY <2>10, <3>1, <3>2, <3>3 DEF Half, InUpgrade
  <2> DEFINE place == [at |-> "drop", t |-> t]
  <2>13. place \in [at : InUpgrade, t : Table] /\ place.at = "drop" /\ place.t = t
    BY <1>1 DEF InUpgrade
  <2> HIDE DEF t, place
  <2> QED
    BY <1>1, <2>2, <2>11, <2>12, <2>13, DmlKeeps DEF place
<1> QED
  BY <1>2, <1>3 DEF CopyOldest

\* DROP TABLE t_v1 happens only in the transaction that copied its rows.
LEMMA Dropping ==
  ASSUME RecordInv, NEW w \in Worker, DropOld(w)
  PROVE  RecordInv'
<1> DEFINE t == opener[w].t
           old == txn.image[t]
           table == [old EXCEPT !.aside = {}]
           image == [txn.image EXCEPT ![t] = table]
           place == IF t = "goods" THEN [at |-> "default", t |-> t] ELSE [at |-> "check", t |-> "goods"]
<1>1. opener[w].at = "drop" /\ Quiet /\ t \in Table /\ txn.owner = w /\ MayWrite(w)
  BY DEF DropOld, Quiet, RecordInv, MayWrite
<1>2. Half(txn.image, "drop", t)
  BY <1>1 DEF RecordInv, InWork
<1>3. UNCHANGED tables /\ txn' = [owner |-> w, image |-> image]
  <2>1. Ddl(w, [txn.image EXCEPT ![t].aside = {}])
    BY <1>1 DEF DropOld, Sees
  <2>2. [txn.image EXCEPT ![t].aside = {}] = image
    OBVIOUS
  <2> HIDE DEF image
  <2> QED
    BY <1>1, <2>1, <2>2 DEF Ddl, RecordInv
<1>4. opener' = [opener EXCEPT ![w] = place]
  <2>1. CASE t = "goods"
    BY <2>1, PlaceType DEF DropOld, Move, InUpgrade
  <2>2. CASE t # "goods"
    BY <1>1, <2>2 DEF DropOld, NextTable, Table
  <2> QED
    BY <2>1, <2>2
<1>5. place \in [at : InUpgrade, t : Table] /\ place.at \in {"default", "check"}
      /\ (place.at = "default" <=> t = "goods") /\ (place.at = "default" => place.t = "goods")
  BY <1>1 DEF InUpgrade, Table
<1>6. table.cols = old.cols /\ table.rows = old.rows /\ table.aside = {} /\ table \in TableType
  BY <1>1, <1>2 DEF Half, TableType
<1>7. IfExists({}) = {} /\ old.rows \cup {} = old.rows
  BY DEF IfExists
<1>8. TableOK(table, t) /\ Apart(table)
  <2>1. TableOK(old, t) /\ Keys(IfExists(old.aside)) \subseteq Keys(old.rows)
    BY <1>1, <1>2 DEF Half
  <2>2. Keys(old.rows \cup IfExists(old.aside)) \subseteq Keys(old.rows)
    BY <2>1 DEF Keys
  <2>3. table.rows \cup IfExists(table.aside) = old.rows
    BY <1>6, <1>7
  <2> HIDE DEF table, old, t
  <2> QED
    BY <1>6, <1>7, <2>1, <2>2, <2>3 DEF TableOK, Apart
<1>9. image = [u \in Table |-> image[u]] /\ image[t] = table /\ \A u \in Table \ {t} : image[u] = txn.image[u]
  BY <1>1, <1>2 DEF Half
<1> HIDE DEF image, table
<1>10. \A u \in Table : image[u] \in TableType /\ TableOK(image[u], u) /\ Apart(image[u])
  <2> HIDE DEF t
  <2> QED
    BY <1>2, <1>6, <1>8, <1>9 DEF Half
<1>11. t = "goods" \/ OneDefault(image["goods"])
  BY <1>2, <1>9 DEF Half, Table
<1> HIDE DEF t, place
<1>12. Half(image, place.at, place.t)
  BY <1>5, <1>9, <1>10, <1>11 DEF Half, InUpgrade
<1> QED
  BY <1>1, <1>3, <1>4, <1>5, <1>12, DmlKeeps

\* Clearing flags keeps the ids and the keys, so keeps a table sound.
LEMMA FlagsOnly ==
  ASSUME NEW old, NEW t \in Table, old \in TableType, TableOK(old, t), Apart(old),
         old.cols # "none" \/ old.rows = {},
         NEW rows \in SUBSET Rows,
         \A n \in rows : \E r \in old.rows : n.id = r.id /\ n.key = r.key,
         \A n, m \in rows : n.id = m.id => n = m,
         Keys(rows) = Keys(old.rows)
  PROVE  LET table == [old EXCEPT !.rows = rows]
         IN table \in TableType /\ TableOK(table, t) /\ Apart(table)
<1> DEFINE table == [old EXCEPT !.rows = rows]
<1>1. table.cols = old.cols /\ table.rows = rows /\ table.aside = old.aside /\ table \in TableType
  BY DEF TableType
<1>2. Keys(rows \cup IfExists(old.aside)) = Keys(old.rows \cup IfExists(old.aside))
  <2>1. \A k : k \in Keys(rows) <=> k \in Keys(old.rows)
    OBVIOUS
  <2> QED
    BY <2>1 DEF Keys
<1> HIDE DEF table
<1>3. TableOK(table, t)
  <2>1. old.cols = "none" => rows = {}
    BY DEF TableOK
  <2>2. old.cols = "v2" => \A n, m \in rows : n.key = m.key => n = m
    BY DEF TableOK
  <2>3. \A n \in rows \cup IfExists(old.aside) : n.id < nextRow
    BY DEF TableOK
  <2> QED
    BY <1>1, <1>2, <2>1, <2>2, <2>3 DEF TableOK
<1>4. Apart(table)
  BY <1>1 DEF Apart
<1> QED
  BY <1>1, <1>3, <1>4 DEF table

\* The rows with their flags set anew.
Flagged(rows, flag) == {[r EXCEPT !.def = flag[r]] : r \in rows}

\* Giving rows other flags changes neither ids nor keys.
LEMMA Flagging ==
  ASSUME NEW old \in SUBSET Rows, \A r, s \in old : r.id = s.id => r = s,
         NEW flag \in [old -> BOOLEAN],
         NEW rows, rows = Flagged(old, flag)
  PROVE  /\ rows \in SUBSET Rows /\ Keys(rows) = Keys(old)
         /\ \A n \in rows : \E r \in old : n.id = r.id /\ n.key = r.key /\ n.def = flag[r]
         /\ \A n, m \in rows : n.id = m.id => n = m
<1> DEFINE flagged(r) == [r EXCEPT !.def = flag[r]]
<1>1. \A r \in old : /\ flagged(r) \in Rows
                     /\ flagged(r).id = r.id /\ flagged(r).key = r.key /\ flagged(r).def = flag[r]
  BY DEF Rows
<1>2. \A n : n \in rows <=> \E r \in old : n = flagged(r)
  BY DEF Flagged
<1> HIDE DEF flagged
<1>3. \A n \in rows : n \in Rows /\ \E r \in old : n.id = r.id /\ n.key = r.key /\ n.def = flag[r]
  BY <1>1, <1>2
<1>4. \A r \in old : \E n \in rows : n.key = r.key
  BY <1>1, <1>2
<1>5. Keys(rows) = Keys(old)
  <2>1. \A n \in rows : \E r \in old : n.key = r.key
    BY <1>3
  <2> QED
    BY <1>4, <2>1 DEF Keys
<1>6. \A n, m \in rows : n.id = m.id => n = m
  BY <1>1, <1>2
<1> QED
  BY <1>3, <1>5, <1>6

\* Of the defaults of several profiles the oldest stays.
LEMMA Defaulting ==
  ASSUME RecordInv, NEW w \in Worker, KeepOneDefault(w)
  PROVE  RecordInv'
<1> DEFINE old == txn.image["goods"]
           rows == OneDefaultOf(old.rows)
           table == [old EXCEPT !.rows = rows]
           image == [txn.image EXCEPT !["goods"] = table]
           flag == [r \in old.rows |-> r.def /\ \A s \in DefaultsIn(old.rows) : r.id <= s.id]
<1>1. opener[w].at = "default" /\ Quiet /\ opener[w].t = "goods" /\ txn.owner = w /\ MayWrite(w) /\ "goods" \in Table
  BY DEF KeepOneDefault, Quiet, RecordInv, MayWrite, InWork, Half, Table
<1>2. Half(txn.image, "default", "goods")
  BY <1>1 DEF RecordInv, InWork
<1>3. UNCHANGED tables /\ txn' = [owner |-> w, image |-> image]
  <2>1. Dml(w, [txn.image EXCEPT !["goods"].rows = OneDefaultOf(@)])
    BY <1>1 DEF KeepOneDefault, Sees
  <2>2. [txn.image EXCEPT !["goods"].rows = OneDefaultOf(@)] = image
    OBVIOUS
  <2> HIDE DEF image
  <2> QED
    BY <2>1, <2>2 DEF Dml
<1>4. opener' = [opener EXCEPT ![w] = [at |-> "commit", t |-> "goods"]]
  <2>1. opener' = [opener EXCEPT ![w].at = "commit"]
    BY DEF KeepOneDefault, Move
  <2>2. opener' = [opener EXCEPT ![w] = [at |-> "commit", t |-> opener[w].t]]
    BY <2>1, PlaceType DEF InUpgrade
  <2> QED
    BY <1>1, <2>2
<1>5. old \in TableType /\ TableOK(old, "goods") /\ Apart(old)
  <2>1. \A u \in Table : txn.image[u] \in TableType /\ TableOK(txn.image[u], u) /\ Apart(txn.image[u])
    BY <1>2 DEF Half
  <2> QED
    BY <1>1, <2>1
<1>6. /\ old.rows \in SUBSET Rows /\ \A r, s \in old.rows : r.id = s.id => r = s
      /\ flag \in [old.rows -> BOOLEAN]
  <2> HIDE DEF old
  <2> QED
    BY <1>5 DEF TableType, TableOK, Rows
<1>7. rows = Flagged(old.rows, flag)
  <2>1. \A n : n \in rows <=> \E r \in old.rows : n = [r EXCEPT !.def = flag[r]]
    BY DEF OneDefaultOf
  <2> QED
    BY <2>1 DEF Flagged
<1>8. \A r \in old.rows : flag[r] => r.def /\ \A s \in DefaultsIn(old.rows) : r.id <= s.id
  OBVIOUS
<1> HIDE DEF old, rows, flag
<1>9. /\ rows \in SUBSET Rows /\ Keys(rows) = Keys(old.rows)
      /\ \A n \in rows : \E r \in old.rows : n.id = r.id /\ n.key = r.key /\ n.def = flag[r]
      /\ \A n, m \in rows : n.id = m.id => n = m
  BY <1>6, <1>7, Flagging
<1>10. \A n, m \in DefaultsIn(rows) : n = m
  <2> SUFFICES ASSUME NEW n \in rows, n.def, NEW m \in rows, m.def PROVE n = m
    BY DEF DefaultsIn
  <2>1. PICK r \in old.rows : n.id = r.id /\ flag[r]
    BY <1>9
  <2>2. PICK s \in old.rows : m.id = s.id /\ flag[s]
    BY <1>9
  <2>3. r.id <= s.id /\ s.id <= r.id /\ r.id \in Nat /\ s.id \in Nat
    BY <1>6, <1>8, <2>1, <2>2 DEF DefaultsIn, Rows
  <2> QED
    BY <1>9, <2>1, <2>2, <2>3
<1>11. table \in TableType /\ TableOK(table, "goods") /\ Apart(table) /\ table.rows = rows
  <2>1. old.cols # "none" \/ old.rows = {}
    BY <1>5 DEF TableOK
  <2>2. table.rows = rows
    BY <1>5 DEF TableType
  <2> QED
    BY <1>1, <1>5, <1>9, <2>1, <2>2, FlagsOnly
<1> HIDE DEF table
<1>12. /\ image = [u \in Table |-> image[u]]
       /\ image["goods"] = table /\ \A u \in Table \ {"goods"} : image[u] = txn.image[u]
  BY <1>1, <1>2 DEF Half
<1> HIDE DEF image
<1>13. Half(image, "commit", "goods")
  BY <1>2, <1>10, <1>11, <1>12 DEF Half, InUpgrade, OneDefault
<1> DEFINE place == [at |-> "commit", t |-> "goods"]
<1>14. place \in [at : InUpgrade, t : Table] /\ place.at = "commit" /\ place.t = "goods"
  BY <1>1 DEF InUpgrade
<1> HIDE DEF place
<1> QED
  BY <1>1, <1>3, <1>4, <1>13, <1>14, DmlKeeps DEF place

-----------------------------------------------------------------------------
(* The open store. *)

\* An operation of the open store replaces one table by a sound one.
LEMMA OperationKeeps ==
  ASSUME RecordInv, txn.owner = Nobody, UNCHANGED <<txn, opener>>,
         nextRow' \in Nat, nextRow <= nextRow',
         removed' \in [Table -> SUBSET Issued], \A u \in Table : removed[u] \subseteq removed'[u],
         NEW t \in Table, NEW table, tables' = [tables EXCEPT ![t] = table], SoundTable(table, t)'
  PROVE  RecordInv'
<1>1. ASSUME NEW u \in Table, NEW tab, SoundTable(tab, u) PROVE SoundTable(tab, u)'
  <2>1. \A r \in tab.rows \cup IfExists(tab.aside) : r.id \in Nat
    BY <1>1 DEF SoundTable, TableType, IfExists, Rows
  <2>2. \A r \in tab.rows \cup IfExists(tab.aside) : r.id < nextRow'
    BY <1>1, <2>1 DEF SoundTable, TableOK, RecordInv
  <2>3. Keys(OldRows[u]) \ removed'[u] \subseteq Keys(tab.rows \cup IfExists(tab.aside))
    BY <1>1 DEF SoundTable, TableOK
  <2>4. TableOK(tab, u)'
    BY <1>1, <2>2, <2>3 DEF SoundTable, TableOK
  <2> QED
    BY <1>1, <2>4 DEF SoundTable
<1>2. tables' = [u \in Table |-> tables'[u]] /\ \A u \in Table : tables'[u] = IF u = t THEN table ELSE tables[u]
  BY DEF RecordInv, Sound
<1>3. \A u \in Table : SoundTable(tables[u], u)
  BY DEF RecordInv, Sound
<1>4. \A u \in Table : SoundTable(tables[u], u) => \E tab : tab = tables[u] /\ SoundTable(tab, u)'
  BY <1>1
<1>5. Sound(tables)'
  BY <1>2, <1>3, <1>4 DEF Sound
<1>6. \A w \in Worker : opener[w].at \notin {"drop", "default"} /\ txn.owner # w
  BY RecordAssumption DEF RecordInv
<1> QED
  BY <1>5, <1>6 DEF RecordInv

\* What an operation may start from.
LEMMA ReadyTable ==
  ASSUME RecordInv, NEW w \in Worker, NEW t \in Table, Ready(w, t)
  PROVE  /\ txn.owner = Nobody
         /\ SoundTable(tables[t], t)
         /\ tables[t].cols = "v2"
         /\ nextRow \in Nat /\ removed \in [Table -> SUBSET Issued]
BY DEF Ready, RecordInv, Sound

\* set_default_goods leaves the one default it was given.
LEMMA SettingDefault ==
  ASSUME RecordInv, NEW w \in Worker, NEW i, SetDefault(w, i)
  PROVE  RecordInv'
<1> DEFINE old == tables["goods"]
           flag == [r \in old.rows |-> r.id = i]
           rows == {[r EXCEPT !.def = flag[r]] : r \in old.rows}
           table == [old EXCEPT !.rows = rows]
<1>1. txn.owner = Nobody /\ SoundTable(old, "goods") /\ "goods" \in Table
  BY ReadyTable DEF SetDefault, Table
<1>2. UNCHANGED <<txn, opener, nextRow, removed>>
  BY DEF SetDefault
<1>3. tables' = [tables EXCEPT !["goods"] = table]
  <2>1. {[r EXCEPT !.def = r.id = i] : r \in old.rows} = rows
    OBVIOUS
  <2> QED
    BY <2>1 DEF SetDefault, SetRows
<1>4. old.rows \in SUBSET Rows /\ flag \in [old.rows -> BOOLEAN] /\ \A r, s \in old.rows : r.id = s.id => r = s
  BY <1>1 DEF SoundTable, TableType, TableOK
<1>5. rows = Flagged(old.rows, flag) /\ \A r \in old.rows : flag[r] <=> r.id = i
  BY DEF Flagged
<1> HIDE DEF flag, rows, old
<1>6. /\ rows \in SUBSET Rows /\ Keys(rows) = Keys(old.rows)
      /\ \A n \in rows : \E r \in old.rows : n.id = r.id /\ n.key = r.key /\ n.def = flag[r]
      /\ \A n, m \in rows : n.id = m.id => n = m
  BY <1>4, <1>5, Flagging
<1>7. \A n, m \in rows : n.def /\ m.def => n = m
  BY <1>5, <1>6
<1>8. table \in TableType /\ TableOK(table, "goods") /\ Apart(table)
  <2>1. old.cols # "none" \/ old.rows = {}
    BY <1>1 DEF SoundTable, TableOK
  <2> QED
    BY <1>1, <1>6, <2>1, FlagsOnly DEF SoundTable
<1>9. table.rows = rows
  BY <1>1 DEF SoundTable, TableType
<1> HIDE DEF table
<1>10. SoundTable(table, "goods")
  BY <1>7, <1>8, <1>9 DEF SoundTable, OneDefault, DefaultsIn
<1>11. \A tab : SoundTable(tab, "goods") => SoundTable(tab, "goods")'
  BY <1>2 DEF SoundTable, TableOK
<1>12. PICK tab : tab = table /\ SoundTable(tab, "goods")'
  BY <1>10, <1>11
<1>13. nextRow' \in Nat /\ nextRow <= nextRow' /\ removed' \in [Table -> SUBSET Issued]
       /\ \A u \in Table : removed[u] \subseteq removed'[u]
  BY <1>2 DEF RecordInv
<1> QED
  BY <1>1, <1>2, <1>3, <1>12, <1>13, OperationKeeps

\* delete_buyer and delete_goods lose only the key they were asked to.
LEMMA Removing ==
  ASSUME RecordInv, NEW w \in Worker, NEW t \in Table, NEW i, DeleteRow(w, t, i)
  PROVE  RecordInv'
<1>1. PICK r \in tables[t].rows : /\ tables' = [tables EXCEPT ![t].rows = tables[t].rows \ {r}]
                                  /\ removed' = [removed EXCEPT ![t] = @ \cup {r.key}]
  BY DEF DeleteRow, SetRows
<1>2. txn.owner = Nobody /\ SoundTable(tables[t], t) /\ UNCHANGED <<txn, opener, nextRow>>
  BY ReadyTable DEF DeleteRow
<1>3. PICK old : old = tables[t]
  OBVIOUS
<1> DEFINE rows == old.rows \ {r}
           table == [old EXCEPT !.rows = rows]
<1>4. SoundTable(old, t) /\ old.rows \in SUBSET Rows /\ r \in old.rows /\ r.key \in Issued
  BY <1>1, <1>2, <1>3 DEF SoundTable, TableType, Rows
<1>5. tables' = [tables EXCEPT ![t] = table]
  BY <1>1, <1>3
<1>6. removed' \in [Table -> SUBSET Issued] /\ removed'[t] = removed[t] \cup {r.key}
      /\ \A u \in Table : removed[u] \subseteq removed'[u]
  BY <1>1, <1>4 DEF RecordInv
<1>7. table \in TableType /\ table.rows = rows /\ table.cols = old.cols /\ table.aside = old.aside
  BY <1>4 DEF SoundTable, TableType
<1> HIDE DEF table
<1>8. Keys(OldRows[t]) \ removed'[t] \subseteq Keys(rows \cup IfExists(old.aside))
  BY <1>4, <1>6 DEF SoundTable, TableOK, Keys
<1>9. SoundTable(table, t)'
  <2>1. TableOK(table, t)'
    BY <1>2, <1>4, <1>7, <1>8 DEF SoundTable, TableOK
  <2> QED
    BY <1>4, <1>7, <2>1 DEF SoundTable, Apart, OneDefault, DefaultsIn
<1> HIDE DEF rows
<1>10. nextRow' \in Nat /\ nextRow <= nextRow'
  BY <1>2 DEF RecordInv
<1> QED
  BY <1>2, <1>5, <1>6, <1>9, <1>10, OperationKeeps

\* add_buyer and add_goods: a new default takes the place of the old one.
LEMMA Adding ==
  ASSUME RecordInv, NEW w \in Worker, NEW t \in Table, NEW key \in NewKey, NEW def \in BOOLEAN, Add(w, t, key, def)
  PROVE  RecordInv'
<1>1. PICK old : old = tables[t]
  OBVIOUS
<1>2. PICK base : base = IF def THEN Undefault(old.rows) ELSE old.rows
  OBVIOUS
<1>3. PICK new : new = [id |-> nextRow, key |-> key, def |-> def]
  OBVIOUS
<1> DEFINE rows == base \cup {new}
           table == [old EXCEPT !.rows = rows]
<1>4. /\ txn.owner = Nobody /\ SoundTable(old, t) /\ UNCHANGED <<txn, opener, removed>>
      /\ nextRow \in Nat /\ nextRow' = nextRow + 1 /\ removed \in [Table -> SUBSET Issued]
      /\ key \notin Keys(old.rows) /\ (def => t = "goods")
  BY <1>1, ReadyTable DEF Add
<1>5. tables' = [tables EXCEPT ![t] = table]
  BY <1>1, <1>2, <1>3 DEF Add, SetRows
<1>6. old.rows \in SUBSET Rows /\ \A r, s \in old.rows : r.id = s.id => r = s
  BY <1>4 DEF SoundTable, TableType, TableOK
<1>7. new \in Rows /\ new.id = nextRow /\ new.key = key /\ new.def = def
  BY <1>3, <1>4 DEF Rows, Issued
<1>8. /\ base \in SUBSET Rows /\ Keys(base) = Keys(old.rows)
      /\ \A n \in base : \E r \in old.rows : n.id = r.id /\ n.key = r.key
      /\ \A n, m \in base : n.id = m.id => n = m
      /\ \A n \in base : n.def => ~ def
      /\ ~ def => base = old.rows
  <2>1. CASE def
    <3>1. PICK flag : flag = [r \in old.rows |-> FALSE]
      OBVIOUS
    <3>2. flag \in [old.rows -> BOOLEAN] /\ \A r \in old.rows : ~ flag[r]
      BY <3>1
    <3>3. \A n : n \in Flagged(old.rows, flag) <=> n \in Undefault(old.rows)
      BY <3>1 DEF Flagged, Undefault
    <3>4. base = Flagged(old.rows, flag)
      BY <1>2, <2>1, <3>3 DEF Flagged, Undefault
    <3>5. /\ base \in SUBSET Rows /\ Keys(base) = Keys(old.rows)
          /\ \A n \in base : \E r \in old.rows : n.id = r.id /\ n.key = r.key /\ n.def = flag[r]
          /\ \A n, m \in base : n.id = m.id => n = m
      BY <1>6, <3>2, <3>4, Flagging
    <3> QED
      BY <2>1, <3>2, <3>5
  <2>2. CASE ~ def
    BY <1>2, <1>6, <2>2
  <2> QED
    BY <2>1, <2>2
<1>9. table \in TableType /\ table.rows = rows /\ table.cols = old.cols /\ table.aside = old.aside
  BY <1>4, <1>7, <1>8 DEF SoundTable, TableType
<1> HIDE DEF table
<1>10. old.cols = "v2"
  BY <1>1, ReadyTable DEF Add
<1>11. TableOK(table, t)' /\ Apart(table)'
  <2>1. TableOK(old, t) /\ Apart(old)
    BY <1>4 DEF SoundTable
  <2>2. \A n \in base : n.id \in Nat /\ n.id < nextRow
    BY <1>8, <2>1 DEF TableOK, Rows
  <2>3. \A r \in IfExists(old.aside) : r.id \in Nat /\ r.id < nextRow
    BY <1>4, <2>1 DEF SoundTable, TableType, IfExists, TableOK, Rows
  <2>4. \A n \in rows \cup IfExists(old.aside) : n.id < nextRow'
    BY <1>4, <1>7, <2>2, <2>3
  <2>5. \A n, m \in rows : n.id = m.id => n = m
    BY <1>4, <1>7, <1>8, <2>2
  <2>6. \A n, m \in base : n.key = m.key => n = m
    <3>1. \A r, s \in old.rows : r.key = s.key => r = s
      BY <1>10, <2>1 DEF TableOK
    <3> QED
      BY <1>8, <3>1
  <2>7. \A n, m \in rows : n.key = m.key => n = m
    <3>1. \A n \in base : n.key # new.key
      BY <1>4, <1>7, <1>8 DEF Keys
    <3> QED
      BY <2>6, <3>1
  <2>8. Keys(OldRows[t]) \ removed[t] \subseteq Keys(rows \cup IfExists(old.aside))
    BY <1>8, <2>1 DEF TableOK, Keys
  <2>9. \A r \in rows, s \in IfExists(old.aside) : r.id # s.id
    BY <1>7, <1>8, <2>1, <2>3 DEF Apart
  <2> HIDE DEF rows
  <2> QED
    BY <1>4, <1>9, <1>10, <2>1, <2>4, <2>5, <2>7, <2>8, <2>9 DEF TableOK, Apart
<1>12. t = "goods" => OneDefault(table)'
  <2> SUFFICES ASSUME t = "goods", NEW n \in rows, n.def, NEW m \in rows, m.def PROVE n = m
    BY <1>9 DEF OneDefault, DefaultsIn
  <2>1. CASE def
    BY <1>8, <2>1
  <2>2. CASE ~ def
    BY <1>4, <1>7, <1>8, <1>10, <2>2 DEF SoundTable, OneDefault, DefaultsIn
  <2> QED
    BY <2>1, <2>2
<1>13. SoundTable(table, t)'
  BY <1>9, <1>11, <1>12 DEF SoundTable
<1> HIDE DEF rows
<1>14. nextRow' \in Nat /\ nextRow <= nextRow' /\ removed' \in [Table -> SUBSET Issued]
       /\ \A u \in Table : removed[u] \subseteq removed'[u]
  BY <1>4
<1> QED
  BY <1>4, <1>5, <1>13, <1>14, OperationKeeps

\* Every step of every worker keeps the invariant of the two tables.
LEMMA RecordStep == RecordInv /\ [RecordNext]_recordVars => RecordInv'
<1> SUFFICES ASSUME RecordInv, [RecordNext]_recordVars PROVE RecordInv'
  OBVIOUS
<1>1. ASSUME NEW w \in Worker, Upgrading(w) PROVE RecordInv'
  BY <1>1, Opening, Checking, Renaming, Creating, Copying, Dropping, Defaulting, Committing, Finishing, Dying
  DEF Upgrading
<1>2. ASSUME NEW w \in Worker, Operating(w) PROVE RecordInv'
  BY <1>2, Adding, SettingDefault, Removing DEF Operating
<1>3. CASE UNCHANGED recordVars
  <2>1. UNCHANGED <<tables, txn, opener, nextRow, removed>>
    BY <1>3 DEF recordVars
  <2>2. Sound(tables)'
    BY <2>1 DEF RecordInv, Sound, SoundTable, TableOK
  <2>3. \A w \in Worker : txn'.owner = w => InWork(w)'
    BY <2>1 DEF RecordInv, InWork, Half, TableOK
  <2> QED
    BY <2>1, <2>2, <2>3 DEF RecordInv
<1> QED
  BY <1>1, <1>2, <1>3 DEF RecordNext

\* The invariant says where every undeleted key is.
LEMMA KeptKeys == RecordInv => NothingIsLost
BY DEF RecordInv, Sound, SoundTable, TableOK, NothingIsLost

\* The invariant says that two defaults are one.
LEMMA OneFirstLine == RecordInv => AtMostOneDefault
<1> SUFFICES ASSUME RecordInv PROVE AtMostOneDefault
  OBVIOUS
<1>1. SoundTable(tables["goods"], "goods")
  BY DEF RecordInv, Sound, Table
<1> QED
  BY <1>1 DEF SoundTable, OneDefault, AtMostOneDefault

\* The ids that were given stay below the bound.
RowNumbers == nextRow \in 1 .. MaxRow + 1

\* The rows of the old tables leave an id to begin with.
LEMMA FirstNumber == RecordInit => RowNumbers
<1> SUFFICES ASSUME RecordInit PROVE RowNumbers
  OBVIOUS
<1> DEFINE above(n) == \A t \in Table : \A r \in OldRows[t] : r.id < n
<1>1. MaxRow + 1 \in 1 .. MaxRow + 1 /\ above(MaxRow + 1)
  BY RecordAssumption
<1>2. nextRow = CHOOSE n \in 1 .. MaxRow + 1 : above(n)
  BY DEF RecordInit
<1> HIDE DEF above
<1> QED
  BY <1>1, <1>2 DEF RowNumbers

\* Only an INSERT takes an id, while one is left.
LEMMA NextNumber == RowNumbers /\ [RecordNext]_recordVars => RowNumbers'
<1> SUFFICES ASSUME RowNumbers, [RecordNext]_recordVars PROVE RowNumbers'
  OBVIOUS
<1>1. ASSUME NEW w \in Worker, Upgrading(w) PROVE UNCHANGED nextRow
  BY <1>1 DEF Upgrading, Open, Check, RenameOld, CreateNew, CopyOldest, DropOld, KeepOneDefault, Migrated, Schema,
              WorkerDies
<1>2. ASSUME NEW w \in Worker, Operating(w) PROVE UNCHANGED nextRow \/ (nextRow <= MaxRow /\ nextRow' = nextRow + 1)
  <2>1. \A t, i, key, def : Add(w, t, key, def) => nextRow <= MaxRow /\ nextRow' = nextRow + 1
    BY DEF Add
  <2>2. \A t, i : SetDefault(w, i) \/ DeleteRow(w, t, i) => UNCHANGED nextRow
    BY DEF SetDefault, DeleteRow
  <2> QED
    BY <1>2, <2>1, <2>2 DEF Operating
<1>3. UNCHANGED recordVars => UNCHANGED nextRow
  BY DEF recordVars
<1>4. UNCHANGED nextRow \/ (nextRow <= MaxRow /\ nextRow' = nextRow + 1)
  BY <1>1, <1>2, <1>3 DEF RecordNext
<1> QED
  BY <1>4, RecordAssumption DEF RowNumbers

\* The tables as the type invariant of the store has them.
LEMMA RecordTyped == RecordInv /\ RowNumbers => RecordTypeOK
<1> SUFFICES ASSUME RecordInv, RowNumbers PROVE RecordTypeOK
  OBVIOUS
<1>1. ASSUME NEW t \in Table
      PROVE  /\ tables[t].cols \in {"v1", "v2", "none"} /\ (tables[t].cols = "none" => tables[t].rows = {})
             /\ tables[t].cols = "v2" => \A r, s \in tables[t].rows : r.key = s.key => r = s
  BY DEF RecordInv, Sound, SoundTable, TableOK, TableType
<1> QED
  BY <1>1 DEF RecordInv, RowNumbers, RecordTypeOK

-----------------------------------------------------------------------------
(* The signing files. *)

\* A path that leads to a file: a certificate file has its dates.
Dated(m) == m.cert \in {NoPath, NoFile} \/ (m.cert.from \in Int /\ m.cert.to \in Int)

\* verify and load take the same decisions, for every certificate, key, passphrase and day.
LEMMA ReportIsLoad ==
  ASSUME NEW m, Dated(m), NEW phrase, NEW now \in Int
  PROVE  IF Verify(m, phrase, now).returns
         THEN /\ Verify(m, phrase, now).ok <=> Load(m, phrase, now) = "usable"
              /\ Verify(m, phrase, now).matches = "no" =>
                   /\ Require(m) = "ok" /\ CertificateLoads(m.cert) /\ PrivateKeyLoads(m.key, phrase)
                   /\ Load(m, phrase, now) = "CertificateError"
         ELSE Load(m, phrase, now) = "CertificateError"
<1>1. CASE Require(m) # "ok"
  BY <1>1 DEF Verify, Load, Report
<1>2. CASE Require(m) = "ok" /\ ~ CertificateLoads(m.cert)
  BY <1>2 DEF Verify, Load, Report
<1>3. CASE Require(m) = "ok" /\ CertificateLoads(m.cert)
  <2>1. m.cert.from \in Int /\ m.cert.to \in Int
    BY <1>3 DEF Require, Dated
  <2>2. CASE SummaryRaises(m.cert)
    <3>1. Verify(m, phrase, now) = Raises("AttributeError")
      BY <1>3, <2>2 DEF Verify
    <3>2. Load(m, phrase, now) = "CertificateError"
      BY <1>3, <2>2 DEF Load, SummaryRaises
    <3> QED
      BY <3>1, <3>2 DEF Raises
  <2>3. CASE ~ SummaryRaises(m.cert) /\ ~ PrivateKeyLoads(m.key, phrase)
    BY <1>3, <2>3 DEF Verify, Load, Report
  <2>4. CASE ~ SummaryRaises(m.cert) /\ PrivateKeyLoads(m.key, phrase)
    <3> DEFINE report == VerifyBoth(m, now)
               usable == KeysMatch(m.cert, m.key) /\ InForce(m.cert, now)
    <3>1. Verify(m, phrase, now) = report
      BY <1>3, <2>4 DEF Verify
    <3>2. Load(m, phrase, now) = IF usable THEN "usable" ELSE "CertificateError"
      BY <1>3, <2>4 DEF Load, KeysMatch
    <3>3. CASE ~ KeysMatch(m.cert, m.key)
      <4>1. report.returns /\ ~ report.ok
        BY <3>3 DEF VerifyBoth, Report
      <4> QED
        BY <1>3, <2>4, <3>1, <3>2, <3>3, <4>1
    <3>4. CASE KeysMatch(m.cert, m.key) /\ now < m.cert.from
      <4>1. ~ usable
        BY <2>1, <3>4 DEF InForce
      <4>2. report.returns /\ ~ report.ok /\ report.matches = "yes"
        BY <2>1, <3>4 DEF VerifyBoth, Report
      <4> QED
        BY <3>1, <3>2, <4>1, <4>2
    <3>5. CASE KeysMatch(m.cert, m.key) /\ ~ now < m.cert.from /\ now > m.cert.to
      <4>1. ~ usable
        BY <2>1, <3>5 DEF InForce
      <4>2. report.returns /\ ~ report.ok /\ report.matches = "yes"
        BY <2>1, <3>5 DEF VerifyBoth, Report
      <4> QED
        BY <3>1, <3>2, <4>1, <4>2
    <3>6. CASE KeysMatch(m.cert, m.key) /\ ~ now < m.cert.from /\ ~ now > m.cert.to
      <4>1. usable
        BY <2>1, <3>6 DEF InForce
      <4>2. report.returns /\ report.ok /\ report.matches = "yes"
        BY <2>1, <3>6 DEF VerifyBoth, Report
      <4> QED
        BY <3>1, <3>2, <4>1, <4>2
    <3> QED
      BY <3>3, <3>4, <3>5, <3>6
  <2> QED
    BY <2>2, <2>3, <2>4
<1> QED
  BY <1>1, <1>2, <1>3

\* What an inspection shows agrees with what filing meets.
LEMMA KeysStep == VerifyAgreesWithLoad /\ [Inspect]_keyVars => VerifyAgreesWithLoad'
<1>1. ASSUME Inspect PROVE VerifyAgreesWithLoad'
  <2>1. PICK shared \in Shared, own \in Paths, phrase \in {"none", "s"}, now \in 1 .. 4 :
          LET m == SigningMaterial(shared, own)
          IN /\ shown' = [report |-> Verify(m, phrase, now),
                          readable |-> /\ Require(m) = "ok"
                                       /\ CertificateLoads(m.cert) /\ PrivateKeyLoads(m.key, phrase)]
             /\ filing' = Load(m, phrase, now)
    BY <1>1 DEF Inspect
  <2>2. PICK m : m = SigningMaterial(shared, own)
    OBVIOUS
  <2>3. \A c \in Certificates \cup {NoPath} : c \in {NoPath, NoFile} \/ (c.from \in Int /\ c.to \in Int)
    <3>1. ASSUME NEW c \in Certificates \ {NoFile} PROVE c.from = 2 /\ c.to = 3
      BY DEF Certificates, Certificate
    <3> QED
      BY <3>1
  <2>4. shared.cert \in {NoPath, NoFile} \/ (shared.cert.from \in Int /\ shared.cert.to \in Int)
    <3>1. PICK c : c = Certificate("pem", "rsa", 1, 2, 3)
      OBVIOUS
    <3>2. c.from = 2 /\ c.to = 3
      BY <3>1 DEF Certificate
    <3>3. shared.cert = NoPath \/ shared.cert = c
      BY <3>1 DEF Shared
    <3> QED
      BY <3>2, <3>3
  <2>5. Dated(m)
    BY <2>2, <2>3, <2>4 DEF Dated, SigningMaterial, Paths
  <2>6. shown'.report = Verify(m, phrase, now) /\ filing' = Load(m, phrase, now)
        /\ (shown'.readable <=> /\ Require(m) = "ok"
                                /\ CertificateLoads(m.cert) /\ PrivateKeyLoads(m.key, phrase))
    BY <2>1, <2>2
  <2>7. now \in Int
    OBVIOUS
  <2>8. IF shown'.report.returns
        THEN /\ shown'.report.ok <=> filing' = "usable"
             /\ shown'.report.matches = "no" => shown'.readable /\ filing' = "CertificateError"
        ELSE filing' = "CertificateError"
    BY <2>5, <2>6, <2>7, ReportIsLoad
  <2> QED
    BY <2>8 DEF VerifyAgreesWithLoad
<1> QED
  BY <1>1 DEF keyVars, VerifyAgreesWithLoad

-----------------------------------------------------------------------------
(* The fields of an invoice. *)

\* What a rule and a violation were made of.
LEMMA RuleIs == \A o, w, t : Rule(o, w, t).obligation = o /\ Rule(o, w, t).byType = t
BY DEF Rule

\* Who refuses.
LEMMA ErrorIs ==
  ASSUME NEW f, NEW r, NEW s
  PROVE  Violation(f, r, s).severity = s
BY DEF Violation

\* load_rules keeps the rules of a pattern's header and adds the exclusions.
LEMMA LoadedHeader ==
  ASSUME NEW p \in DOMAIN Matrix, NEW spec, spec = LoadRules(Matrix)[p]
  PROVE  /\ DOMAIN spec.header = DOMAIN Matrix[p].header \cup Matrix[p].excluded.header
         /\ \A f \in DOMAIN Matrix[p].header : spec.header[f] = Matrix[p].header[f]
         /\ \A f \in Matrix[p].excluded.header :
              spec.header[f].obligation = "not_applicable" /\ spec.header[f].byType = <<>>
<1> DEFINE rules    == spec.header
           raw      == Matrix[p].header
           excluded == Matrix[p].excluded.header
           none     == Rule("not_applicable", "", <<>>)
<1>1. none.obligation = "not_applicable" /\ none.byType = <<>>
  BY RuleIs
<1>2. rules = [f \in DOMAIN raw \cup excluded |-> IF f \in excluded THEN none ELSE raw[f]]
  BY DEF LoadRules
<1>3. excluded \cap DOMAIN raw = {}
  BY MatrixAssumption
<1> HIDE DEF rules, raw, excluded, none
<1>4. /\ DOMAIN rules = DOMAIN raw \cup excluded /\ \A f \in DOMAIN raw : rules[f] = raw[f]
      /\ \A f \in excluded : rules[f].obligation = "not_applicable" /\ rules[f].byType = <<>>
  BY <1>1, <1>2, <1>3
<1> QED
  BY <1>4 DEF rules, raw, excluded

\* And so it does with the rules of its rows.
LEMMA LoadedBody ==
  ASSUME NEW p \in DOMAIN Matrix, NEW spec, spec = LoadRules(Matrix)[p]
  PROVE  /\ DOMAIN spec.body = DOMAIN Matrix[p].body \cup Matrix[p].excluded.body
         /\ \A f \in DOMAIN Matrix[p].body : spec.body[f] = Matrix[p].body[f]
         /\ \A f \in Matrix[p].excluded.body :
              spec.body[f].obligation = "not_applicable" /\ spec.body[f].byType = <<>>
<1> DEFINE rules    == spec.body
           raw      == Matrix[p].body
           excluded == Matrix[p].excluded.body
           none     == Rule("not_applicable", "", <<>>)
<1>1. none.obligation = "not_applicable" /\ none.byType = <<>>
  BY RuleIs
<1>2. rules = [f \in DOMAIN raw \cup excluded |-> IF f \in excluded THEN none ELSE raw[f]]
  BY DEF LoadRules
<1>3. excluded \cap DOMAIN raw = {}
  BY MatrixAssumption
<1> HIDE DEF rules, raw, excluded, none
<1>4. /\ DOMAIN rules = DOMAIN raw \cup excluded /\ \A f \in DOMAIN raw : rules[f] = raw[f]
      /\ \A f \in excluded : rules[f].obligation = "not_applicable" /\ rules[f].byType = <<>>
  BY <1>1, <1>2, <1>3
<1> QED
  BY <1>4 DEF rules, raw, excluded

\* What an accepted invoice has been held against.
LEMMA HeldAgainst ==
  ASSUME NEW invoice, Accepted(invoice), PatternOf(invoice) \in DOMAIN Matrix,
         NEW spec, spec = LoadRules(Matrix)[PatternOf(invoice)]
  PROVE  LET header == invoice.header
             Duty(f) == ForType(spec.header[f], header.inty)
         IN /\ \A f \in DOMAIN spec.header :
                 /\ Duty(f) = "not_applicable" => f \notin Present(header)
                 /\ Duty(f) = "required" \/ (Duty(f) = "conditional" /\ Applies(spec.header[f], header))
                      => f \in Present(header)
            /\ invoice.body # <<>>
            /\ \A f \in DOMAIN spec.body : ForType(spec.body[f], header.inty) = "required" =>
                 \A i \in DOMAIN invoice.body : f \in Present(invoice.body[i])
            /\ \A i \in DOMAIN invoice.body : invoice.body[i].mu \notin {"letters", "nine digits"}
<1> DEFINE header == invoice.header
           Duty(f) == ForType(spec.header[f], header.inty)
           Due(f)  == Duty(f) = "required" \/ (Duty(f) = "conditional" /\ Applies(spec.header[f], header))
<1>1. PatternOf(invoice) \in DOMAIN LoadRules(Matrix)
  BY DEF LoadRules
<1>2. \A v \in CheckObligations(invoice, spec) \cup CheckLengths(invoice) : v.severity # "error"
  BY <1>1 DEF Accepted, ValidateInvoice
<1>3. \A f, r : Violation(f, r, "error") \notin CheckObligations(invoice, spec) \cup CheckLengths(invoice)
  BY <1>2, ErrorIs
<1>4. \A f, r : Violation(f, r, "error") \notin HeaderObligations(invoice, spec)
  BY <1>3 DEF CheckObligations
<1>5. \A f \in DOMAIN spec.header : Duty(f) = "not_applicable" => f \notin Present(header)
  <2> SUFFICES ASSUME NEW f \in DOMAIN spec.header, Duty(f) = "not_applicable", f \in Present(header) PROVE FALSE
    OBVIOUS
  <2>1. Violation(f, "not_applicable", "error") \in HeaderObligations(invoice, spec)
    BY DEF HeaderObligations
  <2> QED
    BY <1>4, <2>1
<1>6. \A f \in DOMAIN spec.header : Due(f) => f \in Present(header)
  <2> SUFFICES ASSUME NEW f \in DOMAIN spec.header, Due(f), f \notin Present(header) PROVE FALSE
    OBVIOUS
  <2>1. Violation(f, Duty(f), "error") \in HeaderObligations(invoice, spec)
    BY DEF HeaderObligations
  <2> QED
    BY <1>4, <2>1
<1>7. invoice.body # <<>>
  <2>1. invoice.body = <<>> => Violation("body", "not_empty", "error") \in CheckObligations(invoice, spec)
    BY DEF CheckObligations
  <2> QED
    BY <1>3, <2>1
<1>8. ASSUME NEW f \in DOMAIN spec.body, ForType(spec.body[f], header.inty) = "required",
             NEW i \in DOMAIN invoice.body
      PROVE  f \in Present(invoice.body[i])
  <2>1. f \notin Present(invoice.body[i])
          => Violation(f, "required", "error") \in RowObligations(invoice.body, spec.body, header.inty)
    BY <1>8 DEF RowObligations
  <2>2. Violation(f, "required", "error") \notin RowObligations(invoice.body, spec.body, header.inty)
    BY <1>3 DEF CheckObligations
  <2> QED
    BY <2>1, <2>2
<1>9. ASSUME NEW i \in DOMAIN invoice.body PROVE invoice.body[i].mu \notin {"letters", "nine digits"}
  <2>1. invoice.body[i].mu \in {"letters", "nine digits"}
          => Violation("mu", "format", "error") \in CheckLengths(invoice)
    BY DEF CheckLengths
  <2> QED
    BY <1>3, <2>1
<1> QED
  BY <1>5, <1>6, <1>7, <1>8, <1>9

\* A settlement method that is given is not unset.
LEMMA UnsetIsNoMethod == Unset # 3
BY MoneyAssumption

\* The conditions, by name.
LEMMA HoldsIs ==
  /\ \A h : Holds("setm == 3", h) <=> h.setm = 3
  /\ \A h : Holds("ins in (2, 3, 4)", h) <=> h.ins \in {2, 3, 4}
BY DEF Holds

\* The invoice that was typed is one an operator may type.
FieldsInv == described \in Invoice \cup {NoInvoice}

\* An accepted invoice has what its pattern and its type oblige it to.
LEMMA CompleteWhenAccepted == FieldsInv => AcceptedIsComplete
<1> SUFFICES ASSUME described \in Invoice, Accepted(described), PatternOf(described) \in DOMAIN Matrix
             PROVE  AcceptedIsComplete
  BY DEF FieldsInv, AcceptedIsComplete
<1> DEFINE p       == PatternOf(described)
           raw     == Matrix[p]
           spec    == LoadRules(Matrix)[p]
           header  == described.header
           inty    == header.inty
           wire    == OnWire(described)
           Duty(f) == ForType(spec.header[f], inty)
           TypeSays(f, duty) == inty # Unset /\ inty \in DOMAIN raw.header[f].byType
                                /\ raw.header[f].byType[inty] = duty
           TypeIsSilent(f) == inty \notin DOMAIN raw.header[f].byType
<1>1. /\ DOMAIN spec.header = DOMAIN raw.header \cup raw.excluded.header
      /\ \A f \in DOMAIN raw.header : spec.header[f] = raw.header[f]
      /\ \A f \in raw.excluded.header : spec.header[f].obligation = "not_applicable" /\ spec.header[f].byType = <<>>
  <2>1. p \in DOMAIN Matrix /\ spec = LoadRules(Matrix)[p]
    OBVIOUS
  <2> HIDE DEF p, spec
  <2> QED
    BY <2>1, LoadedHeader
<1>2. /\ DOMAIN raw.body \subseteq DOMAIN spec.body
      /\ \A f \in DOMAIN raw.body : spec.body[f] = raw.body[f]
  <2>1. p \in DOMAIN Matrix /\ spec = LoadRules(Matrix)[p]
    OBVIOUS
  <2> HIDE DEF p, spec
  <2> QED
    BY <2>1, LoadedBody
<1>3. /\ \A f \in DOMAIN spec.header :
           /\ Duty(f) = "not_applicable" => f \notin Present(header)
           /\ Duty(f) = "required" \/ (Duty(f) = "conditional" /\ Applies(spec.header[f], header))
                => f \in Present(header)
      /\ described.body # <<>>
      /\ \A f \in DOMAIN spec.body : ForType(spec.body[f], inty) = "required" =>
           \A i \in DOMAIN described.body : f \in Present(described.body[i])
      /\ \A i \in DOMAIN described.body : described.body[i].mu \notin {"letters", "nine digits"}
  BY HeldAgainst
<1>4. /\ wire.header = WithoutBlanks(header)
      /\ \A i \in DOMAIN described.body : wire.body[i] = WithoutBlanks(described.body[i])
  BY DEF OnWire
<1>5. \A section : /\ Present(section) \subseteq WithoutBlanks(section) \cup Blanks(section)
                   /\ WithoutBlanks(section) \subseteq Present(section)
                   /\ WithoutBlanks(section) \cap Blanks(section) = {}
  BY DEF Present, WithoutBlanks, Blanks
<1>6. /\ {"irtaxid", "setm", "cap"} \subseteq DOMAIN raw.header
      /\ raw.header.irtaxid.obligation = "conditional" /\ raw.header.irtaxid.when = "ins in (2, 3, 4)"
      /\ DOMAIN raw.header.irtaxid.byType = {}
      /\ raw.header.cap.obligation = "conditional" /\ raw.header.cap.when = "setm == 3"
      /\ \A t \in DOMAIN raw.header.cap.byType :
           \/ raw.header.cap.byType[t] = "conditional"
           \/ t \in DOMAIN raw.header.setm.byType /\ raw.header.setm.byType[t] = "not_applicable"
      /\ \A f \in DOMAIN raw.body : raw.body[f].obligation = "required" => DOMAIN raw.body[f].byType = {}
  BY MatrixAssumption
<1>7. /\ "setm" \in DOMAIN header /\ header.cap # Blank
      /\ \A i \in DOMAIN described.body : described.body[i].mu \in {Unset, Blank} \cup UnitKinds
  BY MatrixAssumption
<1> HIDE DEF p, raw, spec, wire
<1>8. \A f \in DOMAIN raw.header :
        TypeSays(f, "required") \/ (TypeIsSilent(f) /\ raw.header[f].obligation = "required")
          => f \in wire.header \cup Blanks(header)
  <2> SUFFICES ASSUME NEW f \in DOMAIN raw.header,
                      TypeSays(f, "required") \/ (TypeIsSilent(f) /\ raw.header[f].obligation = "required")
               PROVE  f \in wire.header \cup Blanks(header)
    OBVIOUS
  <2>1. Duty(f) = "required" /\ f \in DOMAIN spec.header
    BY <1>1 DEF ForType
  <2>2. f \in Present(header)
    BY <1>3, <2>1
  <2> QED
    BY <1>4, <1>5, <2>2
<1>9. wire.header \cap raw.excluded.header = {}
  <2> SUFFICES ASSUME NEW f \in raw.excluded.header PROVE f \notin wire.header
    OBVIOUS
  <2>1. Duty(f) = "not_applicable" /\ f \in DOMAIN spec.header
    BY <1>1 DEF ForType
  <2>2. f \notin Present(header)
    BY <1>3, <2>1
  <2> QED
    BY <1>4, <1>5, <2>2
<1>10. \A f \in wire.header \cap DOMAIN raw.header : ~ TypeSays(f, "not_applicable")
  <2> SUFFICES ASSUME NEW f \in DOMAIN raw.header, TypeSays(f, "not_applicable") PROVE f \notin wire.header
    OBVIOUS
  <2>1. Duty(f) = "not_applicable" /\ f \in DOMAIN spec.header
    BY <1>1 DEF ForType
  <2>2. f \notin Present(header)
    BY <1>3, <2>1
  <2> QED
    BY <1>4, <1>5, <2>2
<1>11. header.ins \in {2, 3, 4} => "irtaxid" \in wire.header \cup Blanks(header)
  <2> SUFFICES ASSUME header.ins \in {2, 3, 4} PROVE "irtaxid" \in wire.header \cup Blanks(header)
    OBVIOUS
  <2>1. "irtaxid" \in DOMAIN spec.header /\ spec.header["irtaxid"] = raw.header.irtaxid
    BY <1>1, <1>6
  <2>2. Duty("irtaxid") = "conditional"
    BY <1>6, <2>1 DEF ForType
  <2>3. Applies(spec.header["irtaxid"], header)
    <3>1. Holds("ins in (2, 3, 4)", header)
      BY HoldsIs
    <3> QED
      BY <1>6, <2>1, <3>1 DEF Applies
  <2>4. "irtaxid" \in Present(header)
    BY <1>3, <2>1, <2>2, <2>3
  <2> QED
    BY <1>4, <1>5, <2>4
<1>12. header.setm = 3 => "cap" \in wire.header
  <2> SUFFICES ASSUME header.setm = 3 PROVE "cap" \in wire.header
    OBVIOUS
  <2>1. /\ "cap" \in DOMAIN spec.header /\ spec.header["cap"] = raw.header.cap
        /\ "setm" \in DOMAIN spec.header /\ spec.header["setm"] = raw.header.setm
    BY <1>1, <1>6
  <2>2. Duty("setm") # "not_applicable"
    <3>1. "setm" \in Present(header)
      BY <1>7, UnsetIsNoMethod DEF Present
    <3> QED
      BY <1>3, <2>1, <3>1
  <2>3. Duty("cap") = "conditional"
    <3>1. ~ (inty \in DOMAIN raw.header.setm.byType /\ raw.header.setm.byType[inty] = "not_applicable")
      BY <2>1, <2>2 DEF ForType
    <3> QED
      BY <1>6, <2>1, <3>1 DEF ForType
  <2>4. Applies(spec.header["cap"], header)
    <3>1. Holds("setm == 3", header)
      BY HoldsIs
    <3> QED
      BY <1>6, <2>1, <3>1 DEF Applies
  <2>5. "cap" \in Present(header)
    BY <1>3, <2>1, <2>3, <2>4
  <2>6. "cap" \notin Blanks(header)
    BY <1>7 DEF Blanks
  <2> QED
    BY <1>4, <1>5, <2>5, <2>6
<1>13. ASSUME NEW i \in DOMAIN described.body
       PROVE  /\ \A f \in DOMAIN raw.body : raw.body[f].obligation = "required"
                   => f \in wire.body[i] \cup Blanks(described.body[i])
              /\ wire.body[i] \cap Blanks(described.body[i]) = {}
              /\ "mu" \in wire.body[i] => described.body[i].mu \in {KnownUnit, "unknown"}
  <2>1. ASSUME NEW f \in DOMAIN raw.body, raw.body[f].obligation = "required"
        PROVE  f \in wire.body[i] \cup Blanks(described.body[i])
    <3>1. ForType(spec.body[f], inty) = "required" /\ f \in DOMAIN spec.body
      BY <1>2, <1>6, <2>1 DEF ForType
    <3>2. f \in Present(described.body[i])
      BY <1>3, <3>1
    <3> QED
      BY <1>4, <1>5, <3>2
  <2>2. wire.body[i] \cap Blanks(described.body[i]) = {}
    BY <1>4, <1>5
  <2>3. "mu" \in wire.body[i] => described.body[i].mu \in {KnownUnit, "unknown"}
    <3>1. "mu" \in wire.body[i] => described.body[i].mu \notin {Unset, Blank}
      BY <1>4 DEF WithoutBlanks, Present
    <3> QED
      BY <1>3, <1>7, <3>1 DEF UnitKinds
  <2> QED
    BY <2>1, <2>2, <2>3
<1> QED
  BY <1>3, <1>8, <1>9, <1>10, <1>11, <1>12, <1>13 DEF AcceptedIsComplete, p, raw, wire

-----------------------------------------------------------------------------
(* The money of an invoice. *)

LineType   == [EntryFields \cup Derived -> Amount]
HeaderType == [TermFields \cup DOMAIN Columns -> Amount]
FormType   == [pattern : Pattern, header : HeaderType, body : Seq(LineType)]

\* Each amount of a line is the rounding of what the others make it; each total
\* of the header the rounding of its columns' sum.
LineFresh(item, pattern) ==
  /\ item.prdis  = Round(PreDiscount(item, pattern))
  /\ item.adis   = Round(AfterDiscount(item, pattern))
  /\ item.vam    = Round(Vat(item, pattern))
  /\ item.tsstam = Round(LineTotal(item, pattern))
TotalsFresh(header, body) == \A name \in DOMAIN Columns : header[name] = Round(Total(body, name))
Fresh(f) == (\A i \in 1 .. Len(f.body) : LineFresh(f.body[i], f.pattern)) /\ TotalsFresh(f.header, f.body)

MoneyInv ==
  /\ form = NoForm \/ form \in FormType
  /\ calculated => form \in FormType /\ Fresh(form)

\* A sum of integers is one.
LEMMA SumIsInt ==
  ASSUME NEW amounts \in Seq(Int)
  PROVE  AddUp(amounts) \in Int
<1> DEFINE n == Len(amounts)
           Body(f) == [k \in 0 .. n |-> IF k = 0 THEN 0 ELSE f[k - 1] + amounts[k]]
           sums == CHOOSE f : f = Body(f)
           round == [i \in 1 .. n |-> [v \in Int |-> v + amounts[i]]]
<1>1. n \in Nat /\ \A i \in 1 .. n : amounts[i] \in Int
  OBVIOUS
<1>2. AddUp(amounts) = sums[n]
  BY DEF AddUp
<1> HIDE DEF n
<1>3. round \in [1 .. n -> [Int -> Int]] /\ 0 \in Int
  BY <1>1
<1>4. PICK f \in [0 .. n -> Int] : f[0] = 0 /\ \A i \in 1 .. n : f[i] = round[i][f[i - 1]]
  <2> HIDE DEF round
  <2>1. PICK f : LoopRuns(f, n, Int, 0, round)
    BY <1>1, <1>3, Loop
  <2> QED
    BY <2>1 DEF LoopRuns
<1>5. f = Body(f)
  <2>1. ASSUME NEW i \in 1 .. n PROVE f[i] = f[i - 1] + amounts[i]
    <3>1. i - 1 \in 0 .. n
      BY <1>1
    <3>2. f[i - 1] \in Int
      BY <1>4, <3>1
    <3> QED
      BY <1>4, <3>2
  <2>2. \A k \in 0 .. n : k = 0 \/ k \in 1 .. n
    BY <1>1
  <2>3. \A k \in 0 .. n : f[k] = IF k = 0 THEN 0 ELSE f[k - 1] + amounts[k]
    BY <1>4, <2>1, <2>2
  <2> QED
    BY <1>4, <2>3
<1>6. sums = Body(sums)
  <2> HIDE DEF Body
  <2> QED
    BY <1>5
<1> HIDE DEF sums
<1> DEFINE T == {k \in 0 .. n : sums[k] \in Int}
<1>7. 0 \in T
  <2>1. 0 \in 0 .. n
    BY <1>1
  <2>2. sums[0] = 0
    BY <1>6, <2>1
  <2> QED
    BY <2>1, <2>2
<1>8. ASSUME NEW i \in 1 .. n, i - 1 \in T PROVE i \in T
  <2>1. i \in 0 .. n /\ i # 0
    BY <1>1
  <2>2. sums[i] = sums[i - 1] + amounts[i]
    BY <1>6, <2>1
  <2> QED
    BY <1>1, <1>8, <2>1, <2>2
<1>9. \A k \in 0 .. n : k \in T
  <2> HIDE DEF T
  <2> QED
    BY <1>1, <1>7, <1>8, SetInduction
<1>10. n \in 0 .. n
  BY <1>1
<1> QED
  BY <1>2, <1>9, <1>10

\* Rounding to whole rials moves an amount by half a rial at most.
LEMMA Rounding ==
  ASSUME NEW x \in Int
  PROVE  Round(x) \in Int /\ ~ Off(Round(x), x)
<1> DEFINE r == x \div Rial
           m == x % Rial
<1>1. r \in Int /\ m \in 0 .. 9999 /\ x = 10000 * r + m
  BY DEF Rial
<1>2. Round(x) = Rial * (IF 2 * m > Rial \/ (2 * m = Rial /\ r % 2 = 1) THEN r + 1 ELSE r)
  BY DEF Round
<1> HIDE DEF r, m
<1>3. Round(x) = 10000 * r + 10000 \/ Round(x) = 10000 * r
  BY <1>1, <1>2 DEF Rial
<1>4. (Round(x) = 10000 * r + 10000 /\ m >= 5000) \/ (Round(x) = 10000 * r /\ m <= 5000)
  BY <1>1, <1>2 DEF Rial
<1>5. Round(x) \in Int /\ Round(x) - x \in -TOLERANCE .. TOLERANCE
  <2> DEFINE y == Round(x)
             t == TOLERANCE
  <2>1. y \in Int /\ t = 10000
    BY <1>1, <1>3 DEF TOLERANCE, Rial
  <2>2. \/ y = 10000 * r + 10000 /\ m >= 5000
        \/ y = 10000 * r /\ m <= 5000
    BY <1>4
  <2> HIDE DEF y, t
  <2>3. y - x <= t /\ -t <= y - x /\ y - x \in Int /\ t \in Int
    BY <1>1, <2>1, <2>2
  <2>4. \A z \in Int : z <= t /\ -t <= z => z \in -t .. t
    BY <2>3
  <2>5. y - x \in -t .. t
    BY <2>3, <2>4
  <2>6. y \in Int
    BY <2>1
  <2> QED
    BY ONLY <2>5, <2>6 DEF y, t
<1>6. N(Round(x)) = Round(x)
  BY <1>5, MoneyAssumption DEF N
<1> QED
  BY <1>5, <1>6 DEF Off

\* An unset amount counts as nothing.
LEMMA AmountIsInt == \A v \in Amount : N(v) \in Int
BY DEF Amount, N

\* Products and percentages of amounts are integers.
LEMMA ProductsAreInt ==
  ASSUME NEW a \in Amount, NEW b \in Amount
  PROVE  Times(a, b) \in Int /\ Percent(a, b) \in Int
<1>1. \A i, j \in Int : i * j \in Int
  OBVIOUS
<1>2. N(a) * N(b) \in Int
  BY <1>1, AmountIsInt
<1> DEFINE c == N(a) * N(b)
<1> HIDE DEF c
<1>3. c \in Int => c \div 10000 \in Int /\ c \div 1000 \in Int
  OBVIOUS
<1> QED
  BY <1>2, <1>3 DEF c, Times, Percent, Rial

\* The formulas of a line give integers.
LEMMA FormulasAreInt ==
  ASSUME NEW item \in LineType, NEW pattern
  PROVE  /\ PreDiscount(item, pattern) \in Int /\ AfterDiscount(item, pattern) \in Int
         /\ Vat(item, pattern) \in Int /\ LineTotal(item, pattern) \in Int
<1>1. /\ item.am \in Amount /\ item.fee \in Amount /\ item.cfee \in Amount /\ item.exr \in Amount
      /\ item.dis \in Amount /\ item.vra \in Amount /\ item.tcpbs \in Amount /\ item.sovat \in Amount
      /\ item.odam \in Amount /\ item.olam \in Amount /\ item.ssrv \in Amount
      /\ item.adis \in Amount /\ item.vam \in Amount
  BY DEF LineType, EntryFields, Derived
<1>2. PreDiscount(item, pattern) \in Int
  BY <1>1, AmountIsInt, ProductsAreInt DEF PreDiscount
<1>3. 100 \in Amount /\ PreDiscount(item, pattern) \in Amount
  BY <1>2 DEF Amount
<1>4. AfterDiscount(item, pattern) \in Int
  BY <1>1, <1>2, AmountIsInt DEF AfterDiscount
<1>5. Vat(item, pattern) \in Int
  <2>1. /\ Percent(item.tcpbs, 100) \in Int /\ Percent(PreDiscount(item, pattern), item.vra) \in Int
        /\ Percent(item.sovat, item.vra) \in Int /\ Percent(item.adis, item.vra) \in Int
    BY <1>1, <1>3, ProductsAreInt
  <2> QED
    BY <2>1 DEF Vat
<1>6. LineTotal(item, pattern) \in Int
  BY <1>1, AmountIsInt DEF LineTotal
<1> QED
  BY <1>2, <1>4, <1>5, <1>6

\* The totals of a form are integers.
LEMMA TotalsAreInt ==
  ASSUME NEW body \in Seq(LineType), NEW name \in DOMAIN Columns
  PROVE  Total(body, name) \in Int
<1>1. ASSUME NEW field \in EntryFields \cup Derived PROVE Sum(body, field) \in Int
  <2> DEFINE amounts == [i \in DOMAIN body |-> N(body[i][field])]
  <2>1. DOMAIN body = 1 .. Len(body) /\ \A i \in 1 .. Len(body) : body[i][field] \in Amount
    BY <1>1 DEF LineType
  <2>2. amounts \in [1 .. Len(body) -> Int]
    BY <2>1, AmountIsInt
  <2>3. Len(body) \in Nat
    OBVIOUS
  <2>4. amounts \in Seq(Int)
    <3> HIDE DEF amounts
    <3> QED
      BY <2>2, <2>3
  <2> HIDE DEF amounts
  <2>5. AddUp(amounts) \in Int
    BY <2>4, SumIsInt
  <2> QED
    BY <2>5 DEF Sum, amounts
<1>2. PICK n \in Nat : /\ DOMAIN Columns[name] = 1 .. n
                       /\ \A c \in 1 .. n : Columns[name][c] \in EntryFields \cup Derived
  <2>1. name \in {"tprdis", "tdis", "tadis", "tvam", "tbill", "todam"}
    BY DEF Columns
  <2>2. /\ Columns["tprdis"] = <<"prdis">> /\ Columns["tdis"] = <<"dis">> /\ Columns["tadis"] = <<"adis">>
        /\ Columns["tvam"] = <<"vam">> /\ Columns["tbill"] = <<"tsstam">> /\ Columns["todam"] = <<"odam", "olam">>
    BY DEF Columns
  <2>3. {"prdis", "dis", "adis", "vam", "tsstam", "odam", "olam"} \subseteq EntryFields \cup Derived
    BY DEF EntryFields, Derived
  <2>4. \A f \in EntryFields \cup Derived : DOMAIN <<f>> = 1 .. 1 /\ \A c \in 1 .. 1 : <<f>>[c] \in EntryFields \cup Derived
    OBVIOUS
  <2>5. CASE name = "todam"
    <3>1. DOMAIN Columns[name] = 1 .. 2 /\ \A c \in 1 .. 2 : Columns[name][c] \in {"odam", "olam"}
      BY <2>2, <2>5
    <3> QED
      BY <2>3, <3>1
  <2>6. CASE name # "todam"
    <3>1. PICK f \in EntryFields \cup Derived : Columns[name] = <<f>>
      BY <2>1, <2>2, <2>3, <2>6
    <3> QED
      BY <2>4, <3>1
  <2> QED
    BY <2>5, <2>6
<1> DEFINE amounts == [c \in DOMAIN Columns[name] |-> Sum(body, Columns[name][c])]
<1>3. amounts \in [1 .. n -> Int]
  BY <1>1, <1>2
<1> HIDE DEF amounts
<1>4. amounts \in Seq(Int)
  BY <1>3
<1>5. AddUp(amounts) \in Int
  BY <1>4, SumIsInt
<1> QED
  BY <1>5 DEF Total, amounts

\* Filling in a field of a line.
LEMMA FillIn ==
  ASSUME NEW item \in LineType, NEW field \in Derived, NEW x \in Int, NEW new, new = [item EXCEPT ![field] = x]
  PROVE  /\ new \in LineType /\ new[field] = x
         /\ \A f \in EntryFields \cup Derived : f # field => new[f] = item[f]
BY DEF LineType, Amount

\* The formulas of a line look at what the operator typed, and each at no amount
\* that is filled in after it.
LEMMA FormulasLookBack ==
  ASSUME NEW item \in LineType, NEW new \in LineType, NEW pattern,
         \A f \in EntryFields : new[f] = item[f]
  PROVE  /\ PreDiscount(new, pattern) = PreDiscount(item, pattern)
         /\ AfterDiscount(new, pattern) = AfterDiscount(item, pattern)
         /\ new.adis = item.adis => Vat(new, pattern) = Vat(item, pattern)
         /\ new.adis = item.adis /\ new.vam = item.vam => LineTotal(new, pattern) = LineTotal(item, pattern)
<1>1. /\ new.am = item.am /\ new.fee = item.fee /\ new.cfee = item.cfee /\ new.exr = item.exr
      /\ new.dis = item.dis /\ new.vra = item.vra /\ new.tcpbs = item.tcpbs /\ new.sovat = item.sovat
      /\ new.odam = item.odam /\ new.olam = item.olam /\ new.ssrv = item.ssrv
  BY DEF EntryFields
<1>2. PreDiscount(new, pattern) = PreDiscount(item, pattern)
  BY <1>1 DEF PreDiscount
<1>3. AfterDiscount(new, pattern) = AfterDiscount(item, pattern)
  BY <1>1, <1>2 DEF AfterDiscount
<1>4. new.adis = item.adis => Vat(new, pattern) = Vat(item, pattern)
  BY <1>1, <1>2 DEF Vat
<1>5. new.adis = item.adis /\ new.vam = item.vam => LineTotal(new, pattern) = LineTotal(item, pattern)
  BY <1>1 DEF LineTotal
<1> QED
  BY <1>2, <1>3, <1>4, <1>5

\* recompute_line makes each amount of those that are final by then.
LEMMA RecomputedLine ==
  ASSUME NEW item \in LineType, NEW pattern
  PROVE  RecomputeLine(item, pattern) \in LineType /\ LineFresh(RecomputeLine(item, pattern), pattern)
<1> DEFINE x1 == Round(PreDiscount(item, pattern))
           a  == [item EXCEPT !["prdis"] = x1]
           x2 == Round(AfterDiscount(a, pattern))
           b  == [a EXCEPT !["adis"] = x2]
           x3 == Round(Vat(b, pattern))
           c  == [b EXCEPT !["vam"] = x3]
           x4 == Round(LineTotal(c, pattern))
           d  == [c EXCEPT !["tsstam"] = x4]
<1>1. RecomputeLine(item, pattern) = d
  BY DEF RecomputeLine
<1>2. {"prdis", "adis", "vam", "tsstam"} = Derived /\ EntryFields \cap Derived = {}
  BY DEF Derived, EntryFields
<1> HIDE DEF d
<1>3. x1 \in Int
  BY FormulasAreInt, Rounding
<1>4. a \in LineType /\ a["prdis"] = x1 /\ \A f \in EntryFields \cup Derived : f # "prdis" => a[f] = item[f]
  <2> HIDE DEF x1
  <2> QED
    BY <1>2, <1>3, FillIn
<1> HIDE DEF a
<1>5. x2 \in Int
  BY <1>4, FormulasAreInt, Rounding
<1>6. b \in LineType /\ b["adis"] = x2 /\ \A f \in EntryFields \cup Derived : f # "adis" => b[f] = a[f]
  <2> HIDE DEF x2
  <2> QED
    BY <1>2, <1>4, <1>5, FillIn
<1> HIDE DEF b
<1>7. x3 \in Int
  BY <1>6, FormulasAreInt, Rounding
<1>8. c \in LineType /\ c["vam"] = x3 /\ \A f \in EntryFields \cup Derived : f # "vam" => c[f] = b[f]
  <2> HIDE DEF x3
  <2> QED
    BY <1>2, <1>6, <1>7, FillIn
<1> HIDE DEF c
<1>9. x4 \in Int
  BY <1>8, FormulasAreInt, Rounding
<1>10. d \in LineType /\ d["tsstam"] = x4 /\ \A f \in EntryFields \cup Derived : f # "tsstam" => d[f] = c[f]
  <2> HIDE DEF x4
  <2> QED
    BY <1>2, <1>8, <1>9, FillIn DEF d
<1>11. /\ d.prdis = x1 /\ d.adis = x2 /\ d.vam = x3 /\ d.tsstam = x4
       /\ b.adis = x2 /\ c.adis = x2 /\ c.vam = x3
  <2> HIDE DEF x1, x2, x3, x4
  <2>1. \A f \in Derived : f \in EntryFields \cup Derived
    OBVIOUS
  <2>2. "prdis" \in Derived /\ "adis" \in Derived /\ "vam" \in Derived /\ "tsstam" \in Derived
    BY <1>2
  <2> QED
    BY <1>4, <1>6, <1>8, <1>10, <2>1, <2>2
<1>12. /\ \A f \in EntryFields : a[f] = item[f] /\ d[f] = item[f] /\ d[f] = a[f] /\ d[f] = b[f] /\ d[f] = c[f]
  <2> HIDE DEF x1, x2, x3, x4
  <2>1. \A f \in EntryFields : f \in EntryFields \cup Derived /\ f # "prdis" /\ f # "adis" /\ f # "vam" /\ f # "tsstam"
    BY <1>2
  <2> QED
    BY <1>4, <1>6, <1>8, <1>10, <2>1
<1>13. /\ PreDiscount(d, pattern) = PreDiscount(item, pattern)
       /\ AfterDiscount(d, pattern) = AfterDiscount(a, pattern)
       /\ Vat(d, pattern) = Vat(b, pattern)
       /\ LineTotal(d, pattern) = LineTotal(c, pattern)
  <2> HIDE DEF x1, x2, x3, x4
  <2>1. d.adis = b.adis /\ d.adis = c.adis /\ d.vam = c.vam
    BY <1>11
  <2>2. PreDiscount(d, pattern) = PreDiscount(item, pattern)
    BY <1>10, <1>12, FormulasLookBack
  <2>3. AfterDiscount(d, pattern) = AfterDiscount(a, pattern)
    BY <1>4, <1>10, <1>12, FormulasLookBack
  <2>4. Vat(d, pattern) = Vat(b, pattern)
    BY <1>6, <1>10, <1>12, <2>1, FormulasLookBack
  <2>5. LineTotal(d, pattern) = LineTotal(c, pattern)
    BY <1>8, <1>10, <1>12, <2>1, FormulasLookBack
  <2> QED
    BY <2>2, <2>3, <2>4, <2>5
<1> QED
  BY <1>1, <1>10, <1>11, <1>13 DEF LineFresh

\* A broken rule is one of the tests, and its test came out.
LEMMA BrokenIs ==
  ASSUME NEW tests, NEW line, NEW v \in Broken(tests, line)
  PROVE  v.rule \in DOMAIN tests /\ tests[v.rule]
BY DEF Broken

\* check_line finds no fault with amounts the button has filled in.
LEMMA FreshLinePasses ==
  ASSUME NEW item \in LineType, NEW pattern, LineFresh(item, pattern), NEW line,
         NEW v \in CheckLine(item, line, pattern)
  PROVE  v.rule \in EntryRules
<1>1. /\ ~ Off(item.prdis, PreDiscount(item, pattern)) /\ ~ Off(item.adis, AfterDiscount(item, pattern))
      /\ ~ Off(item.vam, Vat(item, pattern)) /\ ~ Off(item.tsstam, LineTotal(item, pattern))
  BY FormulasAreInt, Rounding DEF LineFresh
<1> DEFINE t1 == Off(item.prdis, PreDiscount(item, pattern))
           t2 == N(item.prdis) <= 0
           t3 == N(item.dis) < 0
           t4 == N(item.dis) >= 0 /\ N(item.dis) > N(item.prdis) + TOLERANCE
           t5 == Off(item.adis, AfterDiscount(item, pattern))
           t6 == N(item.adis) < 0
           t7 == N(item.vra) < 0
           t8 == pattern \in ZeroVatPatterns /\ N(item.vra) # 0
           t9 == Off(item.vam, Vat(item, pattern))
           t10 == Off(item.tsstam, LineTotal(item, pattern))
           tests == [prdis |-> t1, prdis_positive |-> t2, dis_negative |-> t3, dis_at_most |-> t4, adis |-> t5,
                     adis_negative |-> t6, vra_negative |-> t7, vra_zero |-> t8, vam |-> t9, tsstam |-> t10]
<1>2. v \in Broken(tests, line)
  BY DEF CheckLine
<1>3. ~ t1 /\ ~ t5 /\ ~ t9 /\ ~ t10
  BY <1>1
<1> HIDE DEF t1, t2, t3, t4, t5, t6, t7, t8, t9, t10
<1>4. ~ tests["prdis"] /\ ~ tests["adis"] /\ ~ tests["vam"] /\ ~ tests["tsstam"]
  BY <1>3
<1>5. DOMAIN tests = {"prdis", "prdis_positive", "dis_negative", "dis_at_most", "adis", "adis_negative",
                      "vra_negative", "vra_zero", "vam", "tsstam"}
  OBVIOUS
<1> HIDE DEF tests
<1>6. v.rule \in DOMAIN tests /\ tests[v.rule]
  BY <1>2, BrokenIs
<1> QED
  BY <1>4, <1>5, <1>6 DEF EntryRules

\* check_totals finds no fault with totals the button has filled in.
LEMMA FreshTotalsPass ==
  ASSUME NEW header, NEW body \in Seq(LineType), TotalsFresh(header, body),
         NEW v \in CheckTotals(header, body)
  PROVE  v.rule \in EntryRules
<1> DEFINE tests == [name \in DOMAIN Columns |-> Off(header[name], Total(body, name))]
           last  == [tprdis_positive |-> N(header.tprdis) <= 0]
<1>1. CASE v \in Broken(tests, 0)
  <2>1. v.rule \in DOMAIN tests /\ tests[v.rule]
    BY <1>1, BrokenIs
  <2>2. v.rule \in DOMAIN Columns /\ Off(header[v.rule], Total(body, v.rule))
    BY <2>1
  <2>3. ~ Off(header[v.rule], Total(body, v.rule))
    BY <2>2, TotalsAreInt, Rounding DEF TotalsFresh
  <2> QED
    BY <2>2, <2>3
<1>2. CASE v \in Broken(last, 0)
  <2>1. v.rule \in DOMAIN last
    BY <1>2, BrokenIs
  <2> QED
    BY <2>1 DEF EntryRules
<1> QED
  BY <1>1, <1>2 DEF CheckTotals

\* What check_settlement judges is what the operator entered.
LEMMA SettlementIsEntered ==
  ASSUME NEW header, NEW v \in CheckSettlement(header)
  PROVE  v.rule \in EntryRules
<1>1. PICK tests : v \in Broken(tests, 0) /\ DOMAIN tests \subseteq EntryRules
  <2> DEFINE cap == N(header.cap)
             insp == N(header.insp)
             tbill == N(header.tbill)
             both == Unset \notin {header.cap, header.insp}
             s1 == header.cap = Unset
             s2 == header.insp = Unset
             s3 == header.cap # Unset /\ cap <= 0
             s4 == header.insp # Unset /\ insp <= 0
             s5 == both /\ Off(cap, tbill - N(header.todam) - N(header.tvam) - insp)
             s6 == both /\ cap >= tbill
             s7 == both /\ insp >= tbill
             one == [method |-> TRUE]
             all == [cap_required |-> s1, insp_required |-> s2, cap_positive |-> s3, insp_positive |-> s4,
                     split_balances |-> s5, cap_below |-> s6, insp_below |-> s7]
  <2>1. v \in Broken(one, 0) \/ v \in Broken(all, 0)
    BY DEF CheckSettlement
  <2> HIDE DEF s1, s2, s3, s4, s5, s6, s7
  <2>2. DOMAIN one \subseteq EntryRules /\ DOMAIN all \subseteq EntryRules
    BY DEF EntryRules
  <2> HIDE DEF one, all
  <2> QED
    BY <2>1, <2>2
<1> QED
  BY <1>1, BrokenIs

\* What the button has filled in breaks no rule about it.
LEMMA FreshPasses == MoneyInv => CalculatedIsAccepted
<1> SUFFICES ASSUME MoneyInv, calculated, NEW v \in CheckArithmetic(form) PROVE v.rule \in EntryRules
  BY DEF CalculatedIsAccepted
<1>1. form \in FormType /\ Fresh(form)
  BY DEF MoneyInv
<1>2. /\ form.body \in Seq(LineType)
      /\ \A i \in DOMAIN form.body : form.body[i] \in LineType /\ LineFresh(form.body[i], form.pattern)
      /\ TotalsFresh(form.header, form.body)
  BY <1>1 DEF FormType, Fresh
<1> DEFINE lines == {CheckLine(form.body[i], i, form.pattern) : i \in DOMAIN form.body}
<1>3. v \in (UNION lines) \cup CheckTotals(form.header, form.body) \cup CheckSettlement(form.header)
  BY DEF CheckArithmetic
<1>4. v \in UNION lines => \E i \in DOMAIN form.body : v \in CheckLine(form.body[i], i, form.pattern)
  OBVIOUS
<1> HIDE DEF lines
<1>5. CASE \E i \in DOMAIN form.body : v \in CheckLine(form.body[i], i, form.pattern)
  BY <1>2, <1>5, FreshLinePasses
<1>6. CASE v \in CheckTotals(form.header, form.body)
  BY <1>2, <1>6, FreshTotalsPass
<1>7. CASE v \in CheckSettlement(form.header)
  BY <1>7, SettlementIsEntered
<1>8. v \in UNION lines \/ v \in CheckTotals(form.header, form.body) \/ v \in CheckSettlement(form.header)
  BY <1>3
<1> QED
  BY <1>4, <1>5, <1>6, <1>7, <1>8

\* A new form: what is to be filled in is unset.
LEMMA Entering == MoneyInv /\ Enter => MoneyInv'
<1> SUFFICES ASSUME MoneyInv, Enter PROVE MoneyInv'
  OBVIOUS
<1>1. PICK n \in 1 .. MaxLines : \E lines \in [1 .. n -> Entries], pattern \in Pattern, terms \in Terms :
        form' = [pattern |-> pattern, header |-> HeaderOf(terms), body |-> [i \in DOMAIN lines |-> LineOf(lines[i])]]
  BY DEF Enter
<1>2. PICK lines \in [1 .. n -> Entries], pattern \in Pattern, terms \in Terms :
        form' = [pattern |-> pattern, header |-> HeaderOf(terms), body |-> [i \in DOMAIN lines |-> LineOf(lines[i])]]
  BY <1>1
<1>3. \A entry \in Entries : LineOf(entry) \in LineType
  BY MoneyAssumption DEF LineOf, LineType, Amount
<1>4. HeaderOf(terms) \in HeaderType
  BY MoneyAssumption DEF HeaderOf, HeaderType, Amount
<1>5. [i \in DOMAIN lines |-> LineOf(lines[i])] \in Seq(LineType)
  <2>1. n \in Nat /\ [i \in DOMAIN lines |-> LineOf(lines[i])] \in [1 .. n -> LineType]
    BY <1>3
  <2> QED
    BY <2>1
<1>6. form' \in FormType
  BY <1>2, <1>4, <1>5 DEF FormType
<1>7. ~ calculated'
  <2>1. DOMAIN NoForm.header = {} /\ "setm" \in TermFields
    BY DEF NoForm, TermFields
  <2>2. NoForm \notin FormType
    BY <2>1 DEF FormType, HeaderType
  <2> QED
    BY <2>2 DEF Enter, MoneyInv
<1> QED
  BY <1>6, <1>7 DEF MoneyInv

\* The button fills in every line, then the totals of the lines it filled in.
LEMMA Calculating == MoneyInv /\ Calculate => MoneyInv'
<1> SUFFICES ASSUME MoneyInv, Calculate PROVE MoneyInv'
  OBVIOUS
<1> DEFINE body == [i \in DOMAIN form.body |-> RecomputeLine(form.body[i], form.pattern)]
           header == [name \in DOMAIN form.header |->
                        IF name \in DOMAIN Columns THEN Round(Total(body, name)) ELSE form.header[name]]
<1>1. /\ form \in FormType /\ form' = Recompute(form)
      /\ form.pattern \in Pattern /\ form.header \in HeaderType /\ form.body \in Seq(LineType)
  BY DEF MoneyInv, Calculate, FormType
<1>2. form' = [form EXCEPT !.body = body, !.header = header]
  BY <1>1 DEF Recompute
<1>3. body \in Seq(LineType) /\ \A i \in 1 .. Len(body) : LineFresh(body[i], form.pattern)
  <2> DEFINE n == Len(form.body)
  <2>1. n \in Nat /\ DOMAIN form.body = 1 .. n /\ \A i \in 1 .. n : form.body[i] \in LineType
    BY <1>1
  <2>2. body \in [1 .. n -> LineType] /\ \A i \in 1 .. n : LineFresh(body[i], form.pattern)
    BY <2>1, RecomputedLine
  <2> HIDE DEF body, n
  <2>3. body \in Seq(LineType) /\ Len(body) = n
    BY <2>1, <2>2
  <2> QED
    BY <2>2, <2>3
<1> HIDE DEF body
<1>4. \A name \in DOMAIN Columns : Round(Total(body, name)) \in Int
  BY <1>3, TotalsAreInt, Rounding
<1>5. header \in HeaderType /\ TotalsFresh(header, body)
  <2>1. DOMAIN form.header = TermFields \cup DOMAIN Columns
        /\ \A name \in TermFields \cup DOMAIN Columns : form.header[name] \in Amount
    BY <1>1 DEF HeaderType
  <2>2. \A i \in Int : i \in Amount
    BY DEF Amount
  <2>3. header \in HeaderType
    BY <1>4, <2>1, <2>2 DEF HeaderType
  <2> QED
    BY <2>1, <2>3 DEF TotalsFresh
<1> HIDE DEF header
<1>6. form'.pattern = form.pattern /\ form'.header = header /\ form'.body = body /\ form' \in FormType
  BY <1>1, <1>2, <1>3, <1>5 DEF FormType
<1> QED
  BY <1>3, <1>5, <1>6 DEF MoneyInv, Fresh

\* Another element in a place of a sequence.
LEMMA ReplaceKeeps ==
  ASSUME NEW S, NEW s \in Seq(S), NEW i, NEW x \in S
  PROVE  [s EXCEPT ![i] = x] \in Seq(S)
<1> DEFINE m == Len(s)
<1>1. m \in Nat /\ s \in [1 .. m -> S]
  OBVIOUS
<1> HIDE DEF m
<1>2. [s EXCEPT ![i] = x] \in [1 .. m -> S]
  BY <1>1
<1> QED
  BY <1>1, <1>2

\* A line is typed over: the form is one, and not yet calculated.
LEMMA Correcting == MoneyInv /\ Correct => MoneyInv'
<1> SUFFICES ASSUME MoneyInv, Correct PROVE MoneyInv'
  OBVIOUS
<1>1. form \in FormType /\ ~ calculated'
  BY DEF MoneyInv, Correct
<1> DEFINE n == Len(form.body)
           typed(entry) == [field \in DOMAIN form.body[n] |-> IF field \in Derived THEN form.body[n][field] ELSE entry[field]]
<1>2. PICK entry \in Entries : form' = [form EXCEPT !.body[n] = typed(entry)]
  BY DEF Correct
<1>3. form.body \in Seq(LineType) /\ n \in Nat
  BY <1>1 DEF FormType
<1>4. [form.body EXCEPT ![n] = typed(entry)] \in Seq(LineType)
  <2>1. CASE n \in 1 .. n
    <3>1. form.body[n] \in LineType
      BY <1>3, <2>1
    <3>2. typed(entry) \in LineType
      BY <3>1, MoneyAssumption DEF LineType
    <3> HIDE DEF typed, n
    <3> QED
      BY <1>3, <3>2, ReplaceKeeps
  <2>2. CASE n \notin 1 .. n
    <3>1. n = 0
      BY <1>3, <2>2
    <3> HIDE DEF typed
    <3>2. [form.body EXCEPT ![n] = typed(entry)] = form.body
      BY <1>3, <2>2
    <3> QED
      BY <1>3, <3>2
  <2> QED
    BY <2>1, <2>2
<1> DEFINE new == [form.body EXCEPT ![n] = typed(entry)]
<1>5. form' = [form EXCEPT !.body = new]
  BY <1>2
<1> HIDE DEF new
<1>6. form' \in FormType
  BY <1>1, <1>4, <1>5 DEF FormType, new
<1> QED
  BY <1>1, <1>6 DEF MoneyInv

\* Every step of the entry form.
LEMMA MoneyStep == MoneyInv /\ [MoneyNext]_moneyVars => MoneyInv'
<1>1. MoneyInv /\ UNCHANGED moneyVars => MoneyInv'
  BY DEF moneyVars, MoneyInv
<1> QED
  BY <1>1, Entering, Calculating, Correcting DEF MoneyNext

-----------------------------------------------------------------------------
(* The serial tool. *)

\* The counters are numbers, and what is filed was generated.
ToolTypes ==
  /\ counter \in [Memory -> Nat] /\ doubtful \in [Memory -> BOOLEAN]
  /\ \A id \in filed : \E m \in Memory, n \in 1 .. MaxDrawn, day \in Day : id = GenerateTaxId(m, n, day)

\* What the tool is about to write is above every tax id it was given.
WritesHighest ==
  tool.at = "write" =>
    tool.memory \in Memory /\ tool.target \in Nat /\ \A id \in tool.ids : SerialOf(id).serial <= tool.target

\* Unless it was forced or overtaken, the tool does not lower the counter.
WritesUp == \A m \in Memory : tool.at = "write" /\ tool.memory = m /\ ~ doubtful[m] => counter[m] <= tool.target

ToolInv == ToolTypes /\ WritesHighest /\ WritesUp /\ NextSerialIsNew

\* serial_of reads back the memory and the serial generate_tax_id was given, for
\* every memory, serial and day, and makes a number or an error of a misread one.
THEOREM SerialsReadBack == ReadsBack
<1> SUFFICES ASSUME NEW m \in Memory, NEW n \in 1 .. MaxDrawn, NEW day \in Day
             PROVE  LET id == GenerateTaxId(m, n, day)
                    IN /\ SubSeq(id, 1, MemoryWidth) = m /\ SerialOf(id) = [memory |-> m, serial |-> n]
                       /\ SerialOf(Misread(id)).serial \in Int
  BY DEF ReadsBack
<1> DEFINE id == GenerateTaxId(m, n, day)
<1>1. m \in Seq(Raised) /\ Len(m) = MemoryWidth /\ day \in 0 .. Largest(DayWidth)
  BY SerialToolAssumption DEF Raised
<1>2. n \in 0 .. MaxSerialNumber
  <2>1. MaxSerialNumber \in Nat
    BY TaxIdAssumption, LargestIs DEF MaxSerialNumber
  <2>2. MaxDrawn \in 1 .. MaxSerialNumber
    BY SerialToolAssumption
  <2> HIDE DEF MaxSerialNumber
  <2> QED
    BY <2>1, <2>2
<1>3. /\ id \in Seq(Raised) /\ Len(id) = MemoryWidth + DayWidth + SerialWidth + 1
      /\ SubSeq(id, 1, MemoryWidth) = m /\ SerialOf(id) = [memory |-> m, serial |-> n]
  BY <1>1, <1>2, SerialBack
<1> HIDE DEF id
<1>4. Len(id) >= 2
  BY <1>3, TaxIdAssumption DEF MemoryWidth, DayWidth
<1>5. Misread(id) \in Seq(Raised)
  BY <1>3, <1>4, MisreadIsRaised DEF Misread
<1>6. SerialOf(Misread(id)).serial \in Int
  BY <1>5, SerialIsNumber
<1> QED
  BY <1>3, <1>6 DEF id

\* What a filed tax id says.
LEMMA FiledIs ==
  ASSUME NEW id, \E m \in Memory, n \in 1 .. MaxDrawn, day \in Day : id = GenerateTaxId(m, n, day)
  PROVE  SerialOf(id).serial \in 1 .. MaxDrawn /\ SerialOf(Misread(id)).serial \in Int
<1>1. PICK m \in Memory, n \in 1 .. MaxDrawn, day \in Day : id = GenerateTaxId(m, n, day)
  OBVIOUS
<1> QED
  BY <1>1, SerialsReadBack DEF ReadsBack

\* Of the serials of two tax ids of this memory --from-taxid takes the highest.
LEMMA HighestIs ==
  ASSUME NEW m, NEW first, NEW last, SerialOf(first).serial \in Int, SerialOf(last).serial \in Int,
         HighestOf(m, <<first, last>>) # -1
  PROVE  /\ HighestOf(m, <<first, last>>) \in Int
         /\ SerialOf(first).serial <= HighestOf(m, <<first, last>>)
         /\ SerialOf(last).serial <= HighestOf(m, <<first, last>>)
<1> DEFINE a == SerialOf(first).serial
           b == SerialOf(last).serial
           ids == <<first, last>>
           serials == {0} \cup {SerialOf(ids[i]).serial : i \in DOMAIN ids}
<1>1. serials = {0, a, b}
  <2>1. DOMAIN ids = {1, 2} /\ ids[1] = first /\ ids[2] = last
    OBVIOUS
  <2> HIDE DEF ids
  <2>2. {SerialOf(ids[i]).serial : i \in DOMAIN ids} = {a, b}
    BY <2>1
  <2> QED
    BY <2>2
<1>2. HighestOf(m, ids) = CHOOSE n \in serials : \A k \in serials : k <= n
  BY DEF HighestOf
<1> HIDE DEF serials, ids, a, b
<1>3. a \in Int /\ b \in Int
  BY DEF a, b
<1>4. \E n \in serials : \A k \in serials : k <= n
  <2>1. CASE a <= 0 /\ b <= 0
    BY <1>1, <1>3, <2>1
  <2>2. CASE 0 <= a /\ b <= a
    BY <1>1, <1>3, <2>2
  <2>3. CASE 0 <= b /\ a <= b
    BY <1>1, <1>3, <2>3
  <2> QED
    BY <1>3, <2>1, <2>2, <2>3
<1>5. HighestOf(m, ids) \in serials /\ \A k \in serials : k <= HighestOf(m, ids)
  BY <1>2, <1>4
<1> QED
  BY <1>1, <1>3, <1>5 DEF ids, a, b

\* A service that has filed nothing, and no tool.
LEMMA ToolStart == ToolInit => ToolInv
BY DEF ToolInit, NotRunning, ToolInv, ToolTypes, WritesHighest, WritesUp, NextSerialIsNew, FiledFor

\* A draw takes the next serial; a tool it overtakes is doubtful.
LEMMA Drawing ==
  ASSUME ToolInv, NEW m \in Memory, DrawAndFile(m)
  PROVE  ToolInv'
<1>1. /\ counter \in [Memory -> Nat] /\ doubtful \in [Memory -> BOOLEAN] /\ counter[m] < MaxDrawn /\ UNCHANGED tool
      /\ counter' = [counter EXCEPT ![m] = counter[m] + 1]
      /\ doubtful' = [doubtful EXCEPT ![m] = doubtful[m] \/ (tool.at = "write" /\ tool.memory = m)]
  BY DEF ToolInv, ToolTypes, DrawAndFile
<1>2. PICK day \in Day : filed' = filed \cup {GenerateTaxId(m, counter[m] + 1, day)}
  BY DEF DrawAndFile
<1> DEFINE n == counter[m] + 1
           id == GenerateTaxId(m, n, day)
<1>3. n \in 1 .. MaxDrawn /\ n \in Nat
  BY <1>1, SerialToolAssumption
<1>4. SubSeq(id, 1, MemoryWidth) = m /\ SerialOf(id).serial = n
  <2> HIDE DEF n
  <2> QED
    BY <1>3, SerialsReadBack DEF ReadsBack
<1> HIDE DEF id
<1>5. ToolTypes'
  BY <1>1, <1>2, <1>3 DEF ToolInv, ToolTypes, id
<1>6. /\ counter'[m] = n /\ \A k \in Memory : k # m => counter'[k] = counter[k]
      /\ doubtful'[m] = (doubtful[m] \/ (tool.at = "write" /\ tool.memory = m))
      /\ \A k \in Memory : k # m => doubtful'[k] = doubtful[k]
  BY <1>1
<1>7. NextSerialIsNew'
  <2> SUFFICES ASSUME NEW k \in Memory, ~ doubtful'[k], NEW d \in FiledFor(k)'
               PROVE  SerialOf(d).serial <= counter'[k]
    BY DEF NextSerialIsNew
  <2>1. d \in filed' /\ SubSeq(d, 1, MemoryWidth) = k /\ ~ doubtful[k]
    BY <1>6 DEF FiledFor
  <2>2. CASE d \in filed
    <3>1. SerialOf(d).serial <= counter[k]
      BY <2>1, <2>2 DEF ToolInv, NextSerialIsNew, FiledFor
    <3>2. SerialOf(d).serial \in Int
      BY <2>2, FiledIs DEF ToolInv, ToolTypes
    <3>3. counter[k] \in Nat /\ counter'[k] \in Nat /\ counter[k] <= counter'[k]
      BY <1>1, <1>6
    <3> QED
      BY <3>1, <3>2, <3>3
  <2>3. CASE d = id
    <3>1. k = m
      BY <1>4, <2>1, <2>3
    <3>2. SerialOf(d).serial = n /\ counter'[k] = n
      BY <1>4, <1>6, <2>3, <3>1
    <3> HIDE DEF n
    <3> QED
      BY <1>3, <3>2
  <2> QED
    BY <1>2, <2>1, <2>2, <2>3 DEF id
<1>8. WritesUp' /\ WritesHighest'
  BY <1>1, <1>6 DEF ToolInv, WritesUp, WritesHighest
<1> QED
  BY <1>5, <1>7, <1>8 DEF ToolInv

\* A counter restored from a backup is doubtful.
LEMMA Restoring ==
  ASSUME ToolInv, NEW m \in Memory, RestoreBackup(m)
  PROVE  ToolInv'
<1>1. PICK old \in 0 .. counter[m] - 1 : counter' = [counter EXCEPT ![m] = old]
  BY DEF RestoreBackup
<1>2. /\ counter \in [Memory -> Nat] /\ doubtful \in [Memory -> BOOLEAN] /\ tool.at = "idle"
      /\ doubtful' = [doubtful EXCEPT ![m] = TRUE] /\ UNCHANGED <<filed, tool>>
  BY DEF ToolInv, ToolTypes, RestoreBackup, NotRunning
<1>3. ToolTypes' /\ WritesHighest' /\ WritesUp'
  BY <1>1, <1>2 DEF ToolInv, ToolTypes, WritesHighest, WritesUp
<1>4. \A k \in Memory : ~ doubtful'[k] => k # m /\ ~ doubtful[k] /\ counter'[k] = counter[k]
  BY <1>1, <1>2
<1>5. NextSerialIsNew'
  BY <1>2, <1>4 DEF ToolInv, NextSerialIsNew, FiledFor
<1> QED
  BY <1>3, <1>5 DEF ToolInv

\* The tool decides on a serial above what it was given.
LEMMA Deciding ==
  ASSUME ToolInv, NEW m \in Memory, NEW target, NEW force, NEW ids, Decide(m, target, force, ids),
         target \in 0 .. MaxSerialNumber => \A id \in ids : SerialOf(id).serial <= target
  PROVE  ToolInv'
<1>1. /\ counter \in [Memory -> Nat] /\ doubtful \in [Memory -> BOOLEAN] /\ UNCHANGED <<counter, filed>>
      /\ target \in Nat /\ \A id \in ids : SerialOf(id).serial <= target
      /\ tool' = [at |-> "write", memory |-> m, target |-> target, ids |-> ids]
      /\ doubtful' = [doubtful EXCEPT ![m] = doubtful[m] \/ target < counter[m]]
  BY DEF ToolInv, ToolTypes, Decide
<1>2. tool'.at = "write" /\ tool'.memory = m /\ tool'.target = target /\ tool'.ids = ids
  BY <1>1
<1>3. /\ doubtful'[m] = (doubtful[m] \/ target < counter[m])
      /\ \A k \in Memory : k # m => doubtful'[k] = doubtful[k]
  BY <1>1
<1>4. ToolTypes' /\ WritesHighest'
  BY <1>1, <1>2 DEF ToolInv, ToolTypes, WritesHighest
<1>5. WritesUp'
  <2> SUFFICES ASSUME NEW k \in Memory, tool'.memory = k, ~ doubtful'[k]
               PROVE  counter'[k] <= tool'.target
    BY DEF WritesUp
  <2>1. k = m /\ ~ (target < counter[m]) /\ counter'[k] = counter[m]
    BY <1>1, <1>2, <1>3
  <2>2. counter[m] \in Nat
    BY <1>1
  <2> QED
    BY <1>1, <1>2, <2>1, <2>2
<1>6. NextSerialIsNew'
  BY <1>1, <1>3 DEF ToolInv, NextSerialIsNew, FiledFor
<1> QED
  BY <1>4, <1>5, <1>6 DEF ToolInv

\* --from-taxid, with ids read from what was filed or misread.
LEMMA Reading ==
  ASSUME ToolInv, NEW m \in Memory, FromTaxIds(m)
  PROVE  ToolInv'
<1>1. PICK first \in filed, last \in filed \cup {Misread(id) : id \in filed}, force \in BOOLEAN :
        Decide(m, HighestOf(m, <<first, last>>), force, {first, last})
  BY DEF FromTaxIds
<1> DEFINE highest == HighestOf(m, <<first, last>>)
<1>2. SerialOf(first).serial \in Int /\ SerialOf(last).serial \in Int
  BY FiledIs DEF ToolInv, ToolTypes
<1>3. highest \in 0 .. MaxSerialNumber => \A id \in {first, last} : SerialOf(id).serial <= highest
  <2>1. highest \in 0 .. MaxSerialNumber => highest # -1
    OBVIOUS
  <2> QED
    BY <1>2, <2>1, HighestIs
<1> HIDE DEF highest
<1> QED
  BY <1>1, <1>3, Deciding DEF highest

\* Whoever gave every tax id filed has put the counter right.
LEMMA Writing ==
  ASSUME ToolInv, WriteTarget
  PROVE  ToolInv'
<1> DEFINE m == tool.memory
           all == FiledFor(m) # {} /\ FiledFor(m) \subseteq tool.ids
<1>1. /\ counter \in [Memory -> Nat] /\ doubtful \in [Memory -> BOOLEAN]
      /\ m \in Memory /\ tool.target \in Nat /\ tool'.at = "idle" /\ UNCHANGED filed
      /\ \A id \in tool.ids : SerialOf(id).serial <= tool.target
      /\ counter' = [counter EXCEPT ![m] = tool.target]
      /\ doubtful' = [doubtful EXCEPT ![m] = doubtful[m] /\ ~ all]
  BY DEF ToolInv, ToolTypes, WritesHighest, WriteTarget, NotRunning
<1>2. ~ doubtful[m] => counter[m] <= tool.target
  BY <1>1 DEF ToolInv, WritesUp, WriteTarget
<1> HIDE DEF m
<1>3. /\ counter'[m] = tool.target /\ \A k \in Memory : k # m => counter'[k] = counter[k]
      /\ (doubtful'[m] <=> doubtful[m] /\ ~ all)
      /\ \A k \in Memory : k # m => doubtful'[k] = doubtful[k]
  <2> HIDE DEF all
  <2> QED
    BY <1>1
<1>4. ToolTypes' /\ WritesHighest' /\ WritesUp'
  BY <1>1 DEF ToolInv, ToolTypes, WritesHighest, WritesUp
<1>5. NextSerialIsNew'
  <2> SUFFICES ASSUME NEW k \in Memory, ~ doubtful'[k], NEW d \in FiledFor(k)'
               PROVE  SerialOf(d).serial <= counter'[k]
    BY DEF NextSerialIsNew
  <2>1. d \in FiledFor(k) /\ d \in filed
    BY <1>1 DEF FiledFor
  <2>2. SerialOf(d).serial \in Int
    BY <2>1, FiledIs DEF ToolInv, ToolTypes
  <2>3. CASE k # m
    BY <1>3, <2>1, <2>3 DEF ToolInv, NextSerialIsNew
  <2>4. CASE k = m /\ ~ doubtful[m]
    <3>1. SerialOf(d).serial <= counter[m] /\ counter[m] \in Nat
      BY <1>1, <2>1, <2>4 DEF ToolInv, NextSerialIsNew
    <3> QED
      BY <1>1, <1>2, <1>3, <2>2, <2>4, <3>1
  <2>5. CASE k = m /\ doubtful[m]
    <3>1. d \in tool.ids
      BY <1>3, <2>1, <2>5
    <3> QED
      BY <1>1, <1>3, <2>5, <3>1
  <2> QED
    BY <2>3, <2>4, <2>5
<1> QED
  BY <1>4, <1>5 DEF ToolInv

\* Every step of the tool, the service and the operator.
LEMMA ToolStep ==
  ASSUME ToolInv, [ToolNext]_toolVars
  PROVE  ToolInv'
<1>1. ASSUME NEW m \in Memory, Set(m) PROVE ToolInv'
  <2>1. PICK target \in -1 .. MaxDrawn + 1, force \in BOOLEAN : Decide(m, target, force, {})
    BY <1>1 DEF Set
  <2> QED
    BY <2>1, Deciding
<1>2. CASE UNCHANGED toolVars
  BY <1>2 DEF toolVars, ToolInv, ToolTypes, WritesHighest, WritesUp, NextSerialIsNew, FiledFor
<1> QED
  BY <1>1, <1>2, Drawing, Restoring, Reading, Writing DEF ToolNext

-----------------------------------------------------------------------------
(* The service. *)

ServiceInv ==
  /\ ProfileInv /\ RecordInv /\ RowNumbers /\ CatalogueInv /\ VerifyAgreesWithLoad
  /\ MoneyInv /\ FieldsInv /\ number \in Seq(Digit)

\* A step of the service is a step or a stutter of each part.
LEMMA Shuffle ==
  [Next]_vars => /\ [ProfileNext]_profileVars /\ [RecordNext]_recordVars
                 /\ [CatalogueNext]_catalogueVars /\ [Inspect]_keyVars
                 /\ [ToolNext]_toolVars /\ [MoneyNext]_moneyVars /\ [Describe]_described
                 /\ [TaxIdNext]_number
<1>1. ASSUME Next
      PROVE  /\ [ProfileNext]_profileVars /\ [RecordNext]_recordVars
             /\ [CatalogueNext]_catalogueVars /\ [Inspect]_keyVars
             /\ [ToolNext]_toolVars /\ [MoneyNext]_moneyVars /\ [Describe]_described
             /\ [TaxIdNext]_number
  <2>1. /\ moving # "profiles"  => UNCHANGED profileVars
        /\ moving # "records"   => UNCHANGED recordVars
        /\ moving # "catalogue" => UNCHANGED catalogueVars
        /\ moving # "keys"      => UNCHANGED keyVars
        /\ moving # "tool"      => UNCHANGED toolVars
        /\ moving # "numbers"   => UNCHANGED number
        /\ moving # "money"     => UNCHANGED moneyVars
        /\ moving # "fields"    => UNCHANGED described
    BY <1>1 DEF Next, Rest
  <2>2. /\ moving = "profiles"  => ProfileNext
        /\ moving = "records"   => RecordNext
        /\ moving = "catalogue" => CatalogueNext
        /\ moving = "keys"      => Inspect
        /\ moving = "tool"      => ToolNext
        /\ moving = "numbers"   => TaxIdNext
        /\ moving = "money"     => MoneyNext
        /\ moving = "fields"    => Describe
    BY <1>1 DEF Next
  <2> QED
    BY <2>1, <2>2
<1>2. UNCHANGED vars => UNCHANGED <<profileVars, recordVars, catalogueVars, keyVars, toolVars, number, moneyVars, described>>
  BY DEF vars
<1> QED
  BY <1>1, <1>2

\* A number is made of digits.
LEMMA DigitsAreTyped ==
  ASSUME number \in Seq(Digit), [TaxIdNext]_number
  PROVE  number' \in Seq(Digit)
<1>1. ASSUME NEW two \in [1 .. 2 -> 0 .. 9], NEW zeros \in 0 .. 7
      PROVE  <<1>> \o two \o [i \in 1 .. zeros |-> 0] \in Seq(Digit)
  <2>1. <<1>> \in Seq(Digit)
    BY DEF Digit
  <2>2. two \in Seq(Digit)
    <3>1. \A S, n : n \in Nat => \A s \in [1 .. n -> S] : s \in Seq(S)
      OBVIOUS
    <3>2. two \in [1 .. 2 -> Digit] /\ 2 \in Nat
      BY DEF Digit
    <3> QED
      BY <3>1, <3>2
  <2>3. [i \in 1 .. zeros |-> 0] \in Seq(Digit)
    BY DEF Digit
  <2>4. <<1>> \o two \in Seq(Digit)
    BY <2>1, <2>2
  <2> QED
    BY <2>3, <2>4
<1> QED
  BY <1>1 DEF TaxIdNext

\* The invariants of the parts hold in every state of the service.
THEOREM ServiceInvariant == Spec => []ServiceInv
<1>1. Init => ServiceInv
  <2>1. MoneyInit => MoneyInv
    BY DEF MoneyInit, MoneyInv
  <2>2. FieldsInit => FieldsInv
    BY DEF FieldsInit, FieldsInv
  <2>3. TaxIdInit => number \in Seq(Digit)
    BY DEF TaxIdInit
  <2> QED
    BY <2>1, <2>2, <2>3, ProfileStart, RecordStart, FirstNumber, CatalogueStart
       DEF Init, KeyInit, VerifyAgreesWithLoad, ServiceInv
<1>2. ServiceInv /\ [Next]_vars => ServiceInv'
  <2>1. FieldsInv /\ [Describe]_described => FieldsInv'
    BY DEF FieldsInv, Describe
  <2>2. number \in Seq(Digit) /\ [TaxIdNext]_number => number' \in Seq(Digit)
    BY DigitsAreTyped
  <2> QED
    BY <2>1, <2>2, Shuffle, ProfileStep, RecordStep, NextNumber, CatalogueStep, KeysStep, MoneyStep DEF ServiceInv
<1> QED
  BY <1>1, <1>2, PTL DEF Spec

\* verhoeff.py: a number with its check digit passes, and with one wrong digit or two
\* neighbours swapped it does not.
THEOREM CheckDigits == Spec => []CheckDigitCatchesErrors
<1>1. ServiceInv => CheckDigitCatchesErrors
  BY CheckDigitWorks DEF ServiceInv
<1> QED
  BY <1>1, ServiceInvariant, PTL

\* The three stores keep their types and their UNIQUE columns: profiles.py,
\* store/records.py and store/catalogue.py.
THEOREM StoresAreTyped == Spec => []TypeOK
<1>1. ServiceInv => TypeOK
  BY RecordTyped, CatalogueTyped DEF ServiceInv, ProfileInv, ProfileTypes, TypeOK
<1> QED
  BY <1>1, ServiceInvariant, PTL

\* import_catalogue.py replaces the catalogue whole: whatever files it is given,
\* and wherever it dies, search() sees what one completed import was given.
THEOREM WholeCatalogue == Spec => []CatalogueIsWhole
<1>1. ServiceInv => CatalogueIsWhole
  BY OneImportOnly DEF ServiceInv
<1> QED
  BY <1>1, ServiceInvariant, PTL

\* The index is always that of the table: search() by number and by words agree.
THEOREM SearchesAgree == Spec => []BothPathsAgree
<1>1. ServiceInv => BothPathsAgree
  BY PathsMeet DEF ServiceInv
<1> QED
  BY <1>1, ServiceInvariant, PTL

\* While no save has overwritten another's change (_read_all and _write_all are
\* not one step) the file holds exactly the profiles that were answered as saved.
THEOREM Profiles == Spec => []ProfilesAreKept
BY ServiceInvariant, PTL DEF ServiceInv, ProfileInv

\* _atomic_write flushes what it writes before it renames it: wherever a power
\* failure falls, the file is absent or one that was saved, never half of one.
THEOREM WholeFile == Spec => []PowerFailureLeavesWholeFile
BY ServiceInvariant, PTL DEF ServiceInv, ProfileInv

\* _migrate deletes nothing that is not first copied, with any number of workers
\* that upgrade at the same time, die, or meet an error.
THEOREM Upgrade == Spec => []NothingIsLost
<1>1. ServiceInv => NothingIsLost
  BY KeptKeys DEF ServiceInv
<1> QED
  BY <1>1, ServiceInvariant, PTL

\* The goods of version 2 never show two defaults.
THEOREM Defaults == Spec => []AtMostOneDefault
<1>1. ServiceInv => AtMostOneDefault
  BY OneFirstLine DEF ServiceInv
<1> QED
  BY <1>1, ServiceInvariant, PTL

\* SigningMaterial.verify, where it returns, reports a pair as good exactly when load
\* accepts it; and where it raises (an Ed25519 certificate), load refuses as well.
THEOREM SigningFiles == Spec => []VerifyAgreesWithLoad
BY ServiceInvariant, PTL DEF ServiceInv

\* recompute and check_arithmetic agree: whatever the operator types, in however
\* many lines and corrections, what the calculate button fills in is accepted.
THEOREM CalculatedInvoices == Spec => []CalculatedIsAccepted
<1>1. ServiceInv => CalculatedIsAccepted
  BY FreshPasses DEF ServiceInv
<1> QED
  BY <1>1, ServiceInvariant, PTL

\* The engine, for any matrix of rules with what patterns.yaml says of every
\* pattern: an invoice it accepts carries every field that is due and none that
\* does not belong, as models/invoice.py puts it on the wire.
THEOREM AcceptedInvoices == Spec => []AcceptedIsComplete
<1>1. ServiceInv => AcceptedIsComplete
  BY CompleteWhenAccepted DEF ServiceInv
<1> QED
  BY <1>1, ServiceInvariant, PTL

\* tools/serial.py beside a service that files: a counter nobody has moved down
\* gives new serials.
THEOREM SerialsAreNew == Spec => []NextSerialIsNew
<1>1. Init => ToolInv
  BY ToolStart DEF Init
<1>2. ToolInv /\ [Next]_vars => ToolInv'
  BY Shuffle, ToolStep
<1>3. ToolInv => NextSerialIsNew
  BY DEF ToolInv
<1> QED
  BY <1>1, <1>2, <1>3, PTL DEF Spec

=============================================================================
