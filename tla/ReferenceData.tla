---------------------------- MODULE ReferenceData ----------------------------
(***************************************************************************)
(* The buyers and goods of store/records.py, and the upgrade of their two  *)
(* tables when a worker opens the database.                                *)
(*                                                                         *)
(* Python's sqlite3 opens a transaction before an INSERT, UPDATE or DELETE *)
(* but not before ALTER or CREATE: those commit on their own unless one is *)
(* open already.  So the upgrade is one action per statement, while an     *)
(* operation of an open store, one transaction under the store's lock and  *)
(* SQLite's write lock, is one step.                                       *)
(*                                                                         *)
(* Abstraction.  A row is its id, the key the organization issued and the  *)
(* default flag (goods only).  A copied row keeps its id: SQLite gives it  *)
(* a new one in the same order, and which of several defaults stays is all *)
(* the order decides.                                                      *)
(***************************************************************************)
EXTENDS Integers

CONSTANTS
  Worker,    \* processes (or first requests of one) that open the store
  Nobody,    \* no transaction is open
  OldRows,   \* the version 1 rows of each table
  NewKey,    \* keys a request may add
  MaxRow     \* bound: row ids

Table == {"buyers", "goods"}

VARIABLES
  tables,  \* committed: for each name the columns ("v1", "v2", "none"), the rows,
           \* and the table renamed to <name>_v1: the set of its rows, if there is one
  txn,     \* the open transaction: whose it is, and the tables as it sees them
  opener,  \* where each worker is: [at, t], t the table it upgrades
  nextRow, \* AUTOINCREMENT
  removed  \* history: the keys deleted from each table

recordVars == <<tables, txn, opener, nextRow, removed>>

Keys(rows)     == {r.key : r \in rows}
DefaultsIn(rows) == {r \in rows : r.def}
IfExists(aside) == UNION aside

\* A faulty version for a mutant: every row is copied, whatever its key.
All(rows) == rows

\* SQLite numbers the rows of a table.
ASSUME RecordAssumption ==
  /\ Nobody \notin Worker /\ MaxRow \in Nat
  /\ \A t \in Table : OldRows[t] \subseteq [id : 1 .. MaxRow, key : Keys(OldRows[t]), def : BOOLEAN]
  /\ \A t \in Table : \A r, s \in OldRows[t] : r.id = s.id => r = s

Oldest(rows) == {r \in rows : \A s \in rows : s.key = r.key => r.id <= s.id}

NoTxn == [owner |-> Nobody, image |-> <<>>]

RecordInit ==
  /\ tables = [t \in Table |-> [cols |-> "v1", rows |-> OldRows[t], aside |-> {}]]
  /\ txn = NoTxn
  /\ opener = [w \in Worker |-> [at |-> "closed", t |-> "buyers"]]
  /\ nextRow = CHOOSE n \in 1 .. MaxRow + 1 : \A t \in Table : \A r \in OldRows[t] : r.id < n
  /\ removed = [t \in Table |-> {}]

-----------------------------------------------------------------------------
(* Transactions. *)

Sees(w)     == IF txn.owner = w THEN txn.image ELSE tables
MayWrite(w) == txn.owner \in {Nobody, w}

\* ALTER, CREATE and DROP: part of the transaction if there is one.
Ddl(w, image) ==
  IF txn.owner = w THEN txn' = [txn EXCEPT !.image = image] /\ UNCHANGED tables
                   ELSE tables' = image /\ UNCHANGED txn

\* INSERT and UPDATE: they open it.
Dml(w, image) == txn' = [owner |-> w, image |-> image] /\ UNCHANGED tables

Commit(w)   == IF txn.owner = w THEN tables' = txn.image /\ txn' = NoTxn
                                ELSE UNCHANGED <<tables, txn>>
Rollback(w) == txn' = (IF txn.owner = w THEN NoTxn ELSE txn) /\ UNCHANGED tables

Move(w, at) == opener' = [opener EXCEPT ![w].at = at]

\* The constructor raises; the next request that needs the store tries again.
Fail(w) == Rollback(w) /\ Move(w, "closed")

-----------------------------------------------------------------------------
(* Opening the store: _migrate, then the schema. *)

Open(w) ==
  /\ opener[w].at = "closed"
  /\ opener' = [opener EXCEPT ![w] = [at |-> "check", t |-> "buyers"]]
  /\ UNCHANGED <<tables, txn, nextRow, removed>>

\* The other table, or the end of the with block, which commits.
NextTable(w) ==
  IF opener[w].t = "buyers"
  THEN opener' = [opener EXCEPT ![w] = [at |-> "check", t |-> "goods"]]
  ELSE Move(w, "commit")

Check(w) ==
  /\ opener[w].at = "check"
  /\ IF Sees(w)[opener[w].t].cols = "v1" THEN Move(w, "rename") ELSE NextTable(w)
  /\ UNCHANGED <<tables, txn, nextRow, removed>>

\* ALTER TABLE t RENAME TO t_v1: an error if there is no t, or a t_v1 already.
RenameOld(w) ==
  /\ opener[w].at = "rename" /\ MayWrite(w)
  /\ LET t == opener[w].t now == Sees(w)
     IN IF now[t].cols = "none" \/ now[t].aside # {} THEN Fail(w)
        ELSE /\ Ddl(w, [now EXCEPT ![t] = [cols |-> "none", rows |-> {}, aside |-> {now[t].rows}]])
             /\ Move(w, "create")
  /\ UNCHANGED <<nextRow, removed>>

\* CREATE TABLE IF NOT EXISTS.
Created(image, t) == IF image[t].cols = "none" THEN [image EXCEPT ![t].cols = "v2"] ELSE image

\* A faulty version for a mutant: the old rows go before they are copied.
CreateNewDropsOld(w) ==
  /\ opener[w].at = "create" /\ MayWrite(w)
  /\ Ddl(w, [Created(Sees(w), opener[w].t) EXCEPT ![opener[w].t].aside = {{}}])
  /\ Move(w, "copy")
  /\ UNCHANGED <<nextRow, removed>>

CreateNew(w) ==
  /\ opener[w].at = "create" /\ MayWrite(w)
  /\ Ddl(w, Created(Sees(w), opener[w].t))
  /\ Move(w, "copy")
  /\ UNCHANGED <<nextRow, removed>>

\* INSERT ... SELECT the oldest row of each key: an error if one is taken, or if
\* either table was renamed or dropped by another worker.
CopyOldest(w) ==
  /\ opener[w].at = "copy" /\ MayWrite(w)
  /\ LET t == opener[w].t now == Sees(w) copied == Oldest(IfExists(now[t].aside))
     IN IF now[t].cols = "none" \/ now[t].aside = {} \/ Keys(copied) \cap Keys(now[t].rows) # {}
        THEN Fail(w)
        ELSE Dml(w, [now EXCEPT ![t].rows = @ \cup copied]) /\ Move(w, "drop")
  /\ UNCHANGED <<nextRow, removed>>

DropOld(w) ==
  /\ opener[w].at = "drop"
  /\ Ddl(w, [Sees(w) EXCEPT ![opener[w].t].aside = {}])
  /\ IF opener[w].t = "goods" THEN Move(w, "default") ELSE NextTable(w)
  /\ UNCHANGED <<nextRow, removed>>

\* A faulty version for a mutant: each profile's default is carried over.
OneDefaultOfAll(rows) == rows

OneDefaultOf(rows) ==
  {[r EXCEPT !.def = r.def /\ \A s \in DefaultsIn(rows) : r.id <= s.id] : r \in rows}

\* The defaults of several profiles have met in one table.
KeepOneDefault(w) ==
  /\ opener[w].at = "default"
  /\ Dml(w, [Sees(w) EXCEPT !["goods"].rows = OneDefaultOf(@)])
  /\ Move(w, "commit")
  /\ UNCHANGED <<nextRow, removed>>

Migrated(w) ==
  /\ opener[w].at = "commit"
  /\ Commit(w) /\ Move(w, "schema")
  /\ UNCHANGED <<nextRow, removed>>

\* The schema script creates what is missing and leaves alone what is there.
Schema(w) ==
  /\ opener[w].at = "schema" /\ MayWrite(w)
  /\ Ddl(w, Created(Created(tables, "buyers"), "goods"))
  /\ Move(w, "ready")
  /\ UNCHANGED <<nextRow, removed>>

\* The worker dies, in the upgrade or later; its transaction is undone.
WorkerDies(w) ==
  /\ opener[w].at # "closed"
  /\ Fail(w)
  /\ UNCHANGED <<nextRow, removed>>

-----------------------------------------------------------------------------
(* The open store.  An error undoes the whole transaction. *)

Ready(w, t) == opener[w].at = "ready" /\ txn.owner = Nobody /\ tables[t].cols = "v2"

SetRows(t, rows) == tables' = [tables EXCEPT ![t].rows = rows]

Undefault(rows) == {[r EXCEPT !.def = FALSE] : r \in rows}

\* add_buyer and add_goods; a new default takes the place of the old one.
Add(w, t, key, def) ==
  /\ Ready(w, t) /\ nextRow <= MaxRow /\ (def => t = "goods")
  /\ LET rows == tables[t].rows
     IN /\ key \notin Keys(rows)
        /\ SetRows(t, (IF def THEN Undefault(rows) ELSE rows)
                        \cup {[id |-> nextRow, key |-> key, def |-> def]})
        /\ nextRow' = nextRow + 1
  /\ UNCHANGED <<txn, opener, removed>>

\* set_default_goods; an unknown id is refused and the old default stays.
SetDefault(w, i) ==
  /\ Ready(w, "goods")
  /\ \E r \in tables["goods"].rows : r.id = i
  /\ SetRows("goods", {[r EXCEPT !.def = r.id = i] : r \in tables["goods"].rows})
  /\ UNCHANGED <<txn, opener, nextRow, removed>>

\* delete_buyer and delete_goods.
DeleteRow(w, t, i) ==
  /\ Ready(w, t)
  /\ \E r \in tables[t].rows :
       /\ r.id = i
       /\ SetRows(t, tables[t].rows \ {r})
       /\ removed' = [removed EXCEPT ![t] = @ \cup {r.key}]
  /\ UNCHANGED <<txn, opener, nextRow>>

Upgrading(w) == \/ Open(w) \/ Check(w) \/ RenameOld(w) \/ CreateNew(w) \/ CopyOldest(w) \/ DropOld(w)
                \/ KeepOneDefault(w) \/ Migrated(w) \/ Schema(w) \/ WorkerDies(w)

Operating(w) == \E t \in Table, i \in 1 .. MaxRow, key \in NewKey, def \in BOOLEAN :
                  Add(w, t, key, def) \/ SetDefault(w, i) \/ DeleteRow(w, t, i)

RecordNext == \E w \in Worker : Upgrading(w) \/ Operating(w)

-----------------------------------------------------------------------------

RecordTypeOK ==
  /\ \A t \in Table : tables[t].cols \in {"v1", "v2", "none"} /\ (tables[t].cols = "none" => tables[t].rows = {})
  /\ txn.owner \in Worker \cup {Nobody} /\ nextRow \in 1 .. MaxRow + 1
  /\ \A t \in Table : tables[t].cols = "v2" => \A r, s \in tables[t].rows : r.key = s.key => r = s

\* "Nothing is deleted that is not first copied": a key of version 1 that no
\* request deleted is in the table or in the one renamed out of the way, though
\* workers upgrade at the same time, die, or find a key taken.
NothingIsLost ==
  \A t \in Table : Keys(OldRows[t]) \ removed[t] \subseteq Keys(tables[t].rows \cup IfExists(tables[t].aside))

\* The form has one first line to fill in: the merged goods never show two
\* defaults, not even between the statements of an upgrade.
AtMostOneDefault == tables["goods"].cols = "v2" => \A r, s \in DefaultsIn(tables["goods"].rows) : r = s

\* The docstring of _migrate: "the whole thing runs in one transaction: an
\* interrupted upgrade leaves v1 intact".  What was entered under version 1 and
\* not deleted is in its table whenever nobody is upgrading.
InterruptedUpgradeKeepsRows ==
  (\A w \in Worker : opener[w].at \in {"closed", "ready"})
    => \A t \in Table : Keys(OldRows[t]) \ removed[t] \subseteq Keys(tables[t].rows)

=============================================================================
