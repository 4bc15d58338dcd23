---------------------------- MODULE ProfileStore ----------------------------
(***************************************************************************)
(* The profiles of config/profiles.py: one encrypted file, read whole,     *)
(* changed in memory and replaced whole by the handlers of api/app.py.     *)
(*                                                                         *)
(* No lock covers the read and the replacement: handlers on other threads  *)
(* and in other workers fall between.  The new file is written, flushed    *)
(* and renamed in steps of their own, and the directory is not flushed     *)
(* after: a power failure falls anywhere.                                  *)
(*                                                                         *)
(* Abstraction.  A ciphertext is the passphrase that opens it and what it  *)
(* holds.  What create_profile refuses before it saves never arrives: an   *)
(* unusable profile, or one whose environment has no working key pair.     *)
(***************************************************************************)
EXTENDS Integers

CONSTANTS
  Request,     \* requests in progress at the same time
  Absent,      \* no file, no profile
  Garbage,     \* a file that is not a ciphertext
  Name, Value, \* profile names, and what may be stored under one
  Passphrase,  \* what MOADIAN_MASTER_PASSPHRASE may be at a start
  MaxAsked     \* bound: requests ever made

\* No file, a broken one and a ciphertext are told apart; Absent is not stored.
ASSUME ProfileAssumption ==
  /\ Absent \notin Value /\ Absent # Garbage
  /\ {Absent, Garbage} \cap [key : Passphrase, held : [Name -> Value \cup {Absent}]] = {}

VARIABLES
  file,        \* what the path shows
  survivors,   \* what it may show after a power failure
  passphrase,  \* the one this process was started with
  asked,       \* how many requests were made
  call,        \* the requests in progress
  kept,        \* history: what was saved and not deleted since
  disturbed    \* history: two changes overlapped, or a power failure undid one

profileVars == <<file, survivors, passphrase, asked, call, kept, disturbed>>

Sealed(key, held) == [key |-> key, held |-> held]
Nothing == [n \in Name |-> Absent]
NoCall  == [at |-> "idle", name |-> Absent, value |-> Absent, held |-> Nothing, flushed |-> FALSE]

\* Where a request holds a copy of what it read.
Saving == {"write", "fsync", "replace"}

ProfileInit ==
  /\ file = Absent /\ survivors = {Absent} /\ passphrase \in Passphrase /\ asked = 0
  /\ call = [r \in Request |-> NoCall]
  /\ kept = Nothing /\ disturbed = FALSE

\* A faulty version for a mutant: what cannot be opened counts as empty.
OpensLeniently == TRUE

\* _read_all raises unless there is no file or the passphrase opens it.
Opens == file = Absent \/ (file # Garbage /\ file.key = passphrase)

Held == IF file \in {Absent, Garbage} \/ file.key # passphrase THEN Nothing ELSE file.held

\* create_profile saves a value; delete_profile is the value Absent.
AskProfile(r) ==
  /\ call[r].at = "idle" /\ asked < MaxAsked
  /\ asked' = asked + 1
  /\ \E n \in Name, v \in Value \cup {Absent} :
       call' = [call EXCEPT ![r] = [NoCall EXCEPT !.at = "read", !.name = n, !.value = v]]
  /\ UNCHANGED <<file, survivors, passphrase, kept, disturbed>>

\* The file is read, and the profile set or removed in the copy.
ReadAll(r) ==
  /\ call[r].at = "read"
  /\ LET n == call[r].name v == call[r].value
     IN IF Opens /\ (v = Absent => Held[n] # Absent)
        THEN call' = [call EXCEPT ![r].at = "write", ![r].held = [Held EXCEPT ![n] = v]]
        ELSE call' = [call EXCEPT ![r] = NoCall]
  /\ UNCHANGED <<file, survivors, passphrase, asked, kept, disturbed>>

\* _atomic_write: a temporary file nobody else looks at is written, flushed, and
\* renamed onto the path.  Written only, it is in the page cache.
WriteTemporary(r) ==
  /\ call[r].at = "write"
  /\ call' = [call EXCEPT ![r].at = "fsync", ![r].flushed = FALSE]
  /\ UNCHANGED <<file, survivors, passphrase, asked, kept, disturbed>>

\* A faulty version for a mutant: handle.flush() is taken to be enough.
FlushBuffer(r) ==
  /\ call[r].at = "fsync"
  /\ call' = [call EXCEPT ![r].at = "replace"]
  /\ UNCHANGED <<file, survivors, passphrase, asked, kept, disturbed>>

Flush(r) ==
  /\ call[r].at = "fsync"
  /\ call' = [call EXCEPT ![r].at = "replace", ![r].flushed = TRUE]
  /\ UNCHANGED <<file, survivors, passphrase, asked, kept, disturbed>>

\* os.replace: until the directory is flushed, a power failure may bring back
\* whatever was there before; and a name may reach the disk before contents
\* that were not flushed do.
Replace(r) ==
  /\ call[r].at = "replace"
  /\ LET new == Sealed(passphrase, call[r].held)
     IN /\ file' = new
        /\ survivors' = survivors \cup {new} \cup (IF call[r].flushed THEN {} ELSE {Garbage})
  /\ kept' = [kept EXCEPT ![call[r].name] = call[r].value]
  /\ disturbed' = (disturbed \/ \E s \in Request \ {r} : call[s].at \in Saving)
  /\ call' = [call EXCEPT ![r] = NoCall]
  /\ UNCHANGED <<passphrase, asked>>

\* Anything raised before the rename removes the temporary file.
WriteFails(r) ==
  /\ call[r].at \in Saving
  /\ call' = [call EXCEPT ![r] = NoCall]
  /\ UNCHANGED <<file, survivors, passphrase, asked, kept, disturbed>>

\* The process ends and is started again, perhaps with another passphrase.
RestartProfiles ==
  /\ passphrase' \in Passphrase
  /\ call' = [r \in Request |-> NoCall]
  /\ UNCHANGED <<file, survivors, asked, kept, disturbed>>

PowerFails ==
  /\ \E f \in survivors : file' = f /\ survivors' = {f} /\ disturbed' = (disturbed \/ f # file)
  /\ call' = [r \in Request |-> NoCall]
  /\ UNCHANGED <<passphrase, asked, kept>>

\* The operating system writes the directory back.
DirectorySettles == survivors' = {file} /\ UNCHANGED <<file, passphrase, asked, call, kept, disturbed>>

ProfileNext == \/ \E r \in Request : \/ AskProfile(r) \/ ReadAll(r)
                                     \/ WriteTemporary(r) \/ Flush(r) \/ Replace(r) \/ WriteFails(r)
               \/ RestartProfiles \/ PowerFails \/ DirectorySettles

-----------------------------------------------------------------------------

Files == {Absent, Garbage} \cup [key : Passphrase, held : [Name -> Value \cup {Absent}]]

ProfileTypeOK == file \in Files /\ survivors \subseteq Files /\ file \in survivors

\* What was saved is there and what was deleted is not, after failed writes,
\* crashes and restarts: under a wrong passphrase everything is refused and
\* nothing overwritten.  The exception is the missing lock: of two changes that
\* overlap the later one undoes the earlier one.
ProfilesAreKept ==
  ~ disturbed => kept = (IF file \in {Absent, Garbage} THEN Nothing ELSE file.held)

\* Wherever a power failure falls among the writing, flushing and renaming of
\* overlapping changes, what it leaves is one of the files saved, whole: at worst
\* the last changes are missing.
PowerFailureLeavesWholeFile == Garbage \notin survivors

=============================================================================
