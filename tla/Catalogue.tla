------------------------------ MODULE Catalogue ------------------------------
(***************************************************************************)
(* The organization's catalogue (store/catalogue.py): tools/               *)
(* import_catalogue.py replaces it in one transaction, statement by        *)
(* statement, while the handlers of other processes search it.             *)
(*                                                                         *)
(* Abstraction.  A row of an export is a code, a word of its description,  *)
(* a rate with its date, and whether it has expired; folding has made the  *)
(* spelling of code and word one.  The batches of the index and the order  *)
(* of an answer are left out.                                              *)
(***************************************************************************)
EXTENDS Sequences, FiniteSets, Integers

CONSTANTS
  Export,     \* files an import may be given: sequences of rows, or Alien
  Alien,      \* a file without the export's columns
  MaxParts,   \* bound: files of one import
  MaxImports, \* bound: imports ever started
  MaxEntry    \* bound: rows ever inserted, AUTOINCREMENT

\* A row as it is in the file; only what a proof about all files needs.
ExportRow == [code : STRING, word : STRING, rate : Nat, expired : BOOLEAN]

ASSUME CatalogueAssumption ==
  /\ \A file \in Export : file = Alien \/ file \in Seq(ExportRow)
  /\ MaxParts \in Nat /\ MaxImports \in Nat /\ MaxEntry \in Nat

VARIABLES
  entries,    \* committed: the table, a set of [id, row]
  index,      \* committed: the full text index, a set of [id, code, word]
  work,       \* the import: where it is, what it has yet to read, and its image
  imports,    \* how many were started
  nextEntry,  \* the next id
  complete    \* history: what the last completed import was given

catalogueVars == <<entries, index, work, imports, nextEntry, complete>>

NoImport == [at |-> "idle", parts |-> <<>>, given |-> <<>>, entries |-> {}, index |-> {}, next |-> 1]

CatalogueInit ==
  /\ entries = {} /\ index = {} /\ work = NoImport /\ imports = 0 /\ nextEntry = 1
  /\ complete = <<>>

\* UNIQUE (stuff_id, run_date, vat_rate).
SameKey(r, s) == r.code = s.code /\ r.rate = s.rate

\* An export row without a code or a description is skipped.
Usable(r) == r.code # "" /\ r.word # ""

\* The rows of a list that INSERT OR IGNORE keeps: the first of each key.
Firsts(rows) ==
  {i \in DOMAIN rows : Usable(rows[i]) /\ \A j \in 1 .. i - 1 : Usable(rows[j]) => ~ SameKey(rows[j], rows[i])}

\* A row read from the file: in force when it has no expiration date.
Entry(id, r) == [id |-> id, code |-> r.code, word |-> r.word, rate |-> r.rate, current |-> ~ r.expired]

-----------------------------------------------------------------------------
(* The import.  It holds SQLite's write lock from its first statement. *)

Start ==
  /\ work.at = "idle" /\ imports < MaxImports
  /\ imports' = imports + 1
  /\ \E n \in 1 .. MaxParts : \E parts \in [1 .. n -> Export] :
       work' = [NoImport EXCEPT !.at = "clear", !.parts = parts, !.given = parts, !.next = nextEntry]
  /\ UNCHANGED <<entries, index, nextEntry, complete>>

\* A faulty version for a mutant: the index keeps the terms of the old rows.
ClearTableOnly ==
  /\ work.at = "clear"
  /\ work' = [work EXCEPT !.at = "insert", !.entries = {}, !.index = index]
  /\ UNCHANGED <<entries, index, imports, nextEntry, complete>>

\* 'delete-all' and DELETE, in the transaction's image.
Clear ==
  /\ work.at = "clear"
  /\ work' = [work EXCEPT !.at = "insert", !.entries = {}, !.index = {}]
  /\ UNCHANGED <<entries, index, imports, nextEntry, complete>>

Abandon == work' = NoImport /\ UNCHANGED <<entries, index, nextEntry, complete>>

\* A faulty version for a mutant: each file is committed when it is in.
InsertPartCommits ==
  /\ work.at = "insert" /\ work.parts # <<>>
  /\ LET rows == Head(work.parts)
         new  == {i \in Firsts(rows) : \A e \in work.entries : ~ SameKey(e, rows[i])}
         id(i) == work.next + Cardinality({j \in new : j < i})
         all  == work.entries \cup {Entry(id(i), rows[i]) : i \in new}
     IN IF rows = Alien THEN Abandon
        ELSE /\ work.next + Cardinality(new) <= MaxEntry + 1
             /\ work' = [work EXCEPT !.parts = Tail(@), !.next = @ + Cardinality(new), !.entries = all]
             /\ entries' = all /\ nextEntry' = work'.next
             /\ UNCHANGED <<index, complete>>
  /\ UNCHANGED imports

\* The rows come out of the generator while they are inserted, file by file: a
\* file that is no export ends the program in the middle of the transaction.
InsertPart ==
  /\ work.at = "insert" /\ work.parts # <<>>
  /\ LET rows == Head(work.parts)
         new  == {i \in Firsts(rows) : \A e \in work.entries : ~ SameKey(e, rows[i])}
         id(i) == work.next + Cardinality({j \in new : j < i})
     IN IF rows = Alien THEN Abandon
        ELSE /\ work.next + Cardinality(new) <= MaxEntry + 1
             /\ work' = [work EXCEPT !.parts = Tail(@), !.next = @ + Cardinality(new),
                                     !.entries = @ \cup {Entry(id(i), rows[i]) : i \in new}]
             /\ UNCHANGED <<entries, index, nextEntry, complete>>
  /\ UNCHANGED imports

\* The index is filled from the table that is now in the image.
Index ==
  /\ work.at = "insert" /\ work.parts = <<>>
  /\ work' = [work EXCEPT !.at = "commit",
                !.index = @ \cup {[id |-> e.id, code |-> e.code, word |-> e.word] : e \in work.entries}]
  /\ UNCHANGED <<entries, index, imports, nextEntry, complete>>

CommitImport ==
  /\ work.at = "commit"
  /\ entries' = work.entries /\ index' = work.index /\ nextEntry' = work.next /\ complete' = work.given
  /\ work' = NoImport
  /\ UNCHANGED imports

ImportDies ==
  /\ work.at # "idle"
  /\ Abandon
  /\ UNCHANGED imports

-----------------------------------------------------------------------------
(* The handlers.  A search is one statement. *)

\* Typed digits: a prefix of the code, over the table.
ByCode(code) == {e \in entries : e.current /\ e.code = code}

\* Typed words: the index joined to the table; codes are indexed with the words.
ByWord(term) == {e \in entries : e.current /\ \E x \in index : x.id = e.id /\ term \in {x.code, x.word}}

CatalogueNext == Start \/ Clear \/ InsertPart \/ Index \/ CommitImport \/ ImportDies

-----------------------------------------------------------------------------

CatalogueTypeOK ==
  /\ work.at \in {"idle", "clear", "insert", "commit"}
  /\ nextEntry \in 1 .. MaxEntry + 1
  /\ \A e, f \in entries : (e.id = f.id \/ SameKey(e, f)) => e = f

RowsGiven == LET all(n) == {r \in {complete[n][i] : i \in DOMAIN complete[n]} : Usable(r)}
             IN UNION {all(n) : n \in DOMAIN complete}

\* A search sees the goods of one whole import and no others: not of one that
\* died, met a bad file, or is still running, nor any that were withdrawn since.
CatalogueIsWhole ==
  /\ \A e \in entries : \E r \in RowsGiven : e = Entry(e.id, r)
  /\ \A r \in RowsGiven : \E e \in entries : SameKey(e, r)

\* What is found by its number is found by its words and the other way round,
\* and nothing that has expired is offered.
BothPathsAgree ==
  /\ {x.id : x \in index} = {e.id : e \in entries}
  /\ \A e \in entries : e.current <=> e \in ByCode(e.code) \cap ByWord(e.code) \cap ByWord(e.word)

=============================================================================
