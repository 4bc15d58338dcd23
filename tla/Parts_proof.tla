----------------------------- MODULE Parts_proof -----------------------------
(***************************************************************************)
(* Lemmas for the proofs about the service.  The catalogue: whatever the   *)
(* files and however many, what is committed is what one completed import  *)
(* was given.  The check digit: whatever the length of the number, a wrong *)
(* digit or two neighbours swapped are noticed.  The tax id: serial_of     *)
(* reads back what generate_tax_id was given, whatever the width.          *)
(***************************************************************************)
EXTENDS Catalogue, TaxId, LeastNumber_proof, FiniteSetTheorems, TLAPS

\* Rows of the table, factors of the index, and the import.
Wares    == [id : Nat, code : STRING, word : STRING, rate : Nat, current : BOOLEAN]
IndexRow == [id : Nat, code : STRING, word : STRING]
Imports  == [at : {"idle", "clear", "insert", "commit"}, parts : Seq(Export), given : Seq(Export),
             entries : SUBSET Wares, index : SUBSET IndexRow, next : 1 .. MaxEntry + 1]

\* The usable rows of one file, and of the first k files of an import.
UsableIn(rows) == {r \in {rows[i] : i \in DOMAIN rows} : Usable(r)}
RowsOf(given, k) == UNION {UsableIn(given[n]) : n \in 1 .. k}

\* A table holds what these files say, and a row of each key they have.
SaysOnly(table, rows) == \A e \in table : \E r \in rows : e = Entry(e.id, r)
HasAll(table, rows)   == \A r \in rows : \E e \in table : SameKey(e, r)

\* Ids below next, one row to an id and one to a key.
OneEach(table, next) ==
  /\ \A e \in table : e.id < next
  /\ \A e, f \in table : (e.id = f.id \/ SameKey(e, f)) => e = f

\* What a table is while the first k files are in it.
InTable(table, given, k, next) ==
  /\ table \in SUBSET Wares
  /\ SaysOnly(table, RowsOf(given, k)) /\ HasAll(table, RowsOf(given, k))
  /\ OneEach(table, next)

\* The index of a table.
IndexOf(table) == {[id |-> e.id, code |-> e.code, word |-> e.word] : e \in table}

\* The files an import has read, and has yet to read.
HasRead(w) == Len(w.given) - Len(w.parts)
PartsOK(w) ==
  /\ Len(w.parts) <= Len(w.given)
  /\ \A i \in 1 .. Len(w.parts) : w.parts[i] = w.given[HasRead(w) + i]
  /\ \A i \in 1 .. HasRead(w) : w.given[i] # Alien

\* What the import has in its image.
WorkOK(w) ==
  /\ w \in Imports
  /\ w.at # "idle" => PartsOK(w)
  /\ w.at = "clear" => HasRead(w) = 0
  /\ w.at \in {"insert", "commit"} => InTable(w.entries, w.given, HasRead(w), w.next)
  /\ w.at = "insert" => w.index = {}
  /\ w.at = "commit" => HasRead(w) = Len(w.given) /\ w.index = IndexOf(w.entries)

CommittedOK ==
  /\ nextEntry \in 1 .. MaxEntry + 1
  /\ complete \in Seq(Export) /\ \A i \in 1 .. Len(complete) : complete[i] # Alien
  /\ InTable(entries, complete, Len(complete), nextEntry)
  /\ index = IndexOf(entries)

CatalogueInv == CommittedOK /\ WorkOK(work)

-----------------------------------------------------------------------------
(* Inserting the rows of a file. *)

\* The rows of a file that the table has no row of that key for, and their ids.
NewIn(table, rows) == {i \in Firsts(rows) : \A e \in table : ~ SameKey(e, rows[i])}
IdOf(new, next, i) == next + Cardinality({j \in new : j < i})
With(table, rows, new, next) == table \cup {Entry(IdOf(new, next, i), rows[i]) : i \in new}

\* An entry has the id and the key it was made with.
LEMMA EntryIs ==
  ASSUME NEW id \in Nat, NEW r \in ExportRow
  PROVE  /\ Entry(id, r) \in Wares
         /\ Entry(id, r).id = id
         /\ \A s : SameKey(Entry(id, r), s) <=> SameKey(r, s)
BY DEF Entry, SameKey, Wares, ExportRow

\* An entry says the same under its own id.
LEMMA EntrySays ==
  ASSUME NEW id, NEW r
  PROVE  Entry(id, r) = Entry(Entry(id, r).id, r)
BY DEF Entry

\* Ids are given in the order of the rows, and all in a row.
LEMMA IdsAreNew ==
  ASSUME NEW new, IsFiniteSet(new), new \subseteq Nat, NEW next \in Nat
  PROVE  /\ Cardinality(new) \in Nat
         /\ \A i \in new : IdOf(new, next, i) \in Nat /\ next <= IdOf(new, next, i)
                           /\ IdOf(new, next, i) < next + Cardinality(new)
         /\ \A i, k \in new : i # k => IdOf(new, next, i) # IdOf(new, next, k)
<1> DEFINE below(i) == {j \in new : j < i}
<1>1. Cardinality(new) \in Nat
  BY FS_CardinalityType
<1>2. ASSUME NEW i \in new PROVE IsFiniteSet(below(i)) /\ Cardinality(below(i)) \in Nat
  BY FS_Subset, FS_CardinalityType
<1>3. ASSUME NEW i \in new, NEW S \in SUBSET new, below(i) \cup {i} \subseteq S
      PROVE  Cardinality(below(i)) < Cardinality(S)
  <2>1. i \notin below(i)
    OBVIOUS
  <2>2. Cardinality(below(i) \cup {i}) = Cardinality(below(i)) + 1 /\ IsFiniteSet(below(i) \cup {i})
    BY <1>2, <2>1, FS_AddElement
  <2>3. IsFiniteSet(S)
    BY FS_Subset
  <2>4. Cardinality(below(i) \cup {i}) <= Cardinality(S) /\ Cardinality(S) \in Nat
    BY <1>3, <2>3, FS_Subset, FS_CardinalityType
  <2> HIDE DEF below
  <2> QED
    BY <1>2, <2>2, <2>4
<1>4. ASSUME NEW i \in new PROVE Cardinality(below(i)) < Cardinality(new)
  <2>1. below(i) \cup {i} \subseteq new
    OBVIOUS
  <2> QED
    BY <1>3, <2>1
<1>5. ASSUME NEW i \in new, NEW k \in new, i < k PROVE Cardinality(below(i)) < Cardinality(below(k))
  <2>1. \A j \in new : j \in Nat
    OBVIOUS
  <2>2. \A j \in new : j < i => j < k
    BY <1>5, <2>1
  <2>3. below(k) \in SUBSET new /\ below(i) \cup {i} \subseteq below(k)
    BY <1>5, <2>2
  <2> QED
    BY <1>3, <2>3
<1>6. \A i, k \in new : i # k => i < k \/ k < i
  OBVIOUS
<1>7. \A i \in new : IdOf(new, next, i) = next + Cardinality(below(i))
  BY DEF IdOf
<1> HIDE DEF below
<1>8. \A i \in new : IdOf(new, next, i) \in Nat /\ next <= IdOf(new, next, i)
                           /\ IdOf(new, next, i) < next + Cardinality(new)
  BY <1>1, <1>2, <1>4, <1>7
<1>9. \A i, k \in new : i # k => IdOf(new, next, i) # IdOf(new, next, k)
  BY <1>2, <1>5, <1>6, <1>7
<1> QED
  BY <1>1, <1>8, <1>9

\* INSERT OR IGNORE keeps a row of each key a file has.
LEMMA FirstsCover ==
  ASSUME NEW rows \in Seq(ExportRow), NEW i \in 1 .. Len(rows), Usable(rows[i])
  PROVE  \E k \in Firsts(rows) : SameKey(rows[k], rows[i])
<1> DEFINE same == {k \in 1 .. Len(rows) : Usable(rows[k]) /\ SameKey(rows[k], rows[i])}
<1>1. i \in same /\ same \in SUBSET Nat
  BY DEF SameKey
<1>2. PICK k \in same : \A m \in same : k <= m
  BY <1>1, LeastNumber
<1>3. \A a, b, c : SameKey(a, b) /\ SameKey(b, c) => SameKey(a, c)
  BY DEF SameKey
<1>4. ASSUME NEW j \in 1 .. k - 1, Usable(rows[j]) PROVE ~ SameKey(rows[j], rows[k])
  <2>1. j \in 1 .. Len(rows) /\ ~ (k <= j)
    OBVIOUS
  <2>2. SameKey(rows[k], rows[i])
    OBVIOUS
  <2>3. j \notin same
    BY <1>2, <2>1
  <2> QED
    BY <1>3, <1>4, <2>1, <2>2, <2>3
<1>5. k \in Firsts(rows)
  BY <1>4 DEF Firsts
<1> QED
  BY <1>5

\* Two rows that INSERT OR IGNORE keeps have different keys.
LEMMA FirstsDiffer ==
  ASSUME NEW rows \in Seq(ExportRow)
  PROVE  /\ Firsts(rows) \subseteq 1 .. Len(rows)
         /\ \A i \in Firsts(rows) : Usable(rows[i])
         /\ \A i, k \in Firsts(rows) : SameKey(rows[i], rows[k]) => i = k
<1>1. Firsts(rows) \subseteq 1 .. Len(rows) /\ \A i \in Firsts(rows) : Usable(rows[i])
  BY DEF Firsts
<1>2. ASSUME NEW i \in Firsts(rows), NEW k \in Firsts(rows), i < k PROVE ~ SameKey(rows[i], rows[k])
  <2>1. i \in 1 .. k - 1 /\ Usable(rows[i])
    BY <1>1, <1>2
  <2> QED
    BY <2>1 DEF Firsts
<1>3. \A a, b : SameKey(a, b) => SameKey(b, a)
  BY DEF SameKey
<1> QED
  BY <1>1, <1>2, <1>3

\* A sequence has finitely many indices.
LEMMA IndicesFinite ==
  ASSUME NEW S, NEW s \in Seq(S)
  PROVE  IsFiniteSet(1 .. Len(s))
<1>1. Len(s) \in Int /\ 1 \in Int
  OBVIOUS
<1> QED
  BY <1>1, FS_Interval

\* The table with the new rows of a file in it.
LEMMA InsertKeeps ==
  ASSUME NEW given \in Seq(Export), NEW k \in Nat, k < Len(given), \A i \in 1 .. k + 1 : given[i] # Alien,
         NEW table, NEW next \in Nat, InTable(table, given, k, next),
         NEW rows, rows = given[k + 1], NEW new, new = NewIn(table, rows)
  PROVE  /\ Cardinality(new) \in Nat
         /\ InTable(With(table, rows, new, next), given, k + 1, next + Cardinality(new))
<1> DEFINE id(i)  == IdOf(new, next, i)
           all    == With(table, rows, new, next)
           before == RowsOf(given, k)
           after  == RowsOf(given, k + 1)
           top    == next + Cardinality(new)
<1>1. rows \in Seq(ExportRow)
  BY CatalogueAssumption
<1>2. after = before \cup UsableIn(rows)
  <2>1. 1 .. k + 1 = (1 .. k) \cup {k + 1}
    OBVIOUS
  <2> QED
    BY <2>1 DEF RowsOf
<1>3. \A r : r \in UsableIn(rows) <=> \E i \in 1 .. Len(rows) : r = rows[i] /\ Usable(rows[i])
  BY <1>1 DEF UsableIn
<1>4. /\ new \subseteq 1 .. Len(rows)
      /\ \A i \in new : i \in Firsts(rows) /\ Usable(rows[i]) /\ rows[i] \in ExportRow
      /\ \A i, j \in new : SameKey(rows[i], rows[j]) => i = j
      /\ \A i \in new, e \in table : ~ SameKey(e, rows[i])
  BY <1>1, FirstsDiffer DEF NewIn
<1>5. IsFiniteSet(new) /\ new \subseteq Nat
  <2>1. IsFiniteSet(1 .. Len(rows))
    BY <1>1, IndicesFinite
  <2> QED
    BY <1>4, <2>1, FS_Subset
<1>6. /\ Cardinality(new) \in Nat
      /\ \A i \in new : id(i) \in Nat /\ next <= id(i) /\ id(i) < top
      /\ \A i, j \in new : i # j => id(i) # id(j)
  BY <1>5, IdsAreNew
<1>7. \A i \in new : /\ Entry(id(i), rows[i]) \in Wares
                     /\ Entry(id(i), rows[i]).id = id(i)
                     /\ \A s : SameKey(Entry(id(i), rows[i]), s) <=> SameKey(rows[i], s)
  BY <1>4, <1>6, EntryIs
<1>8. \A e : e \in all <=> e \in table \/ \E i \in new : e = Entry(id(i), rows[i])
  BY DEF With
<1>9. \A a, b : SameKey(a, b) => SameKey(b, a)
  BY DEF SameKey
<1>10. \A i \in new : Entry(id(i), rows[i]) = Entry(Entry(id(i), rows[i]).id, rows[i])
  BY EntrySays
<1>11. /\ table \in SUBSET Wares /\ SaysOnly(table, before) /\ HasAll(table, before)
       /\ \A e \in table : e.id \in Nat /\ e.id < next
       /\ \A e, f \in table : (e.id = f.id \/ SameKey(e, f)) => e = f
  BY DEF InTable, OneEach, Wares
<1>12. next <= top
  BY <1>6
<1> HIDE DEF id, all, before, after, top
<1>13. all \in SUBSET Wares
  BY <1>7, <1>8, <1>11
<1>14. SaysOnly(all, after)
  <2>1. \A i \in new : rows[i] \in after
    BY <1>2, <1>3, <1>4
  <2>2. \A e \in table : \E r \in after : e = Entry(e.id, r)
    BY <1>2, <1>11 DEF SaysOnly
  <2> QED
    BY <1>8, <1>10, <2>1, <2>2 DEF SaysOnly
<1>15. HasAll(all, after)
  <2> SUFFICES ASSUME NEW r \in after PROVE \E e \in all : SameKey(e, r)
    BY DEF HasAll
  <2>1. CASE r \in before
    BY <1>8, <1>11, <2>1 DEF HasAll
  <2>2. CASE r \in UsableIn(rows)
    <3>1. PICK i \in 1 .. Len(rows) : r = rows[i] /\ Usable(rows[i])
      BY <1>3, <2>2
    <3>2. PICK j \in Firsts(rows) : SameKey(rows[j], r)
      BY <1>1, <3>1, FirstsCover
    <3>3. CASE j \in new
      BY <1>7, <1>8, <3>2, <3>3
    <3>4. CASE j \notin new
      <4>1. PICK e \in table : SameKey(e, rows[j])
        BY <3>4 DEF NewIn
      <4>2. \A a, b, c : SameKey(a, b) /\ SameKey(b, c) => SameKey(a, c)
        BY DEF SameKey
      <4> QED
        BY <1>8, <3>2, <4>1, <4>2
    <3> QED
      BY <3>3, <3>4
  <2> QED
    BY <1>2, <2>1, <2>2
<1>16. \A e \in all : e.id < top
  BY <1>6, <1>7, <1>8, <1>11, <1>12 DEF top
<1>17. ASSUME NEW e \in all, NEW f \in all, e.id = f.id \/ SameKey(e, f) PROVE e = f
  <2>1. ASSUME NEW i \in new, NEW g \in table
        PROVE  Entry(id(i), rows[i]).id # g.id /\ ~ SameKey(Entry(id(i), rows[i]), g)
               /\ ~ SameKey(g, Entry(id(i), rows[i]))
    <3>1. ~ (id(i) <= g.id) /\ Entry(id(i), rows[i]).id = id(i)
      BY <1>6, <1>7, <1>11
    <3>2. ~ SameKey(Entry(id(i), rows[i]), g)
      BY <1>4, <1>7, <1>9
    <3> QED
      BY <1>6, <1>9, <3>1, <3>2
  <2>2. CASE e \in table /\ f \in table
    BY <1>11, <1>17, <2>2
  <2>3. CASE e \in table /\ f \notin table
    BY <1>8, <1>17, <2>1, <2>3
  <2>4. CASE e \notin table /\ f \in table
    BY <1>8, <1>17, <2>1, <2>4
  <2>5. CASE e \notin table /\ f \notin table
    <3>1. PICK i \in new, j \in new : e = Entry(id(i), rows[i]) /\ f = Entry(id(j), rows[j])
      BY <1>8, <2>5
    <3>2. CASE i = j
      BY <3>1, <3>2
    <3>3. CASE i # j
      <4>1. e.id # f.id
        BY <1>6, <1>7, <3>1, <3>3
      <4>2. ~ SameKey(e, f)
        <5>1. ~ SameKey(rows[j], rows[i])
          BY <1>4, <3>3
        <5>2. ~ SameKey(f, rows[i])
          BY <1>7, <3>1, <5>1
        <5>3. ~ SameKey(rows[i], f)
          BY <1>9, <5>2
        <5> QED
          BY <1>7, <3>1, <5>3
      <4> QED
        BY <1>17, <4>1, <4>2
    <3> QED
      BY <3>2, <3>3
  <2> QED
    BY <2>2, <2>3, <2>4, <2>5
<1>18. InTable(all, given, k + 1, top)
  BY <1>13, <1>14, <1>15, <1>16, <1>17 DEF InTable, OneEach, after
<1> QED
  BY <1>6, <1>18 DEF all, top

-----------------------------------------------------------------------------
(* The steps of the import. *)

\* An empty table holds no files.
LEMMA NothingHeld ==
  ASSUME NEW given, NEW next
  PROVE  InTable({}, given, 0, next)
BY DEF InTable, SaysOnly, HasAll, RowsOf, OneEach

\* The import that is not there.
LEMMA IdleIsOK == WorkOK(NoImport)
BY CatalogueAssumption DEF WorkOK, NoImport, Imports

\* A new database.
LEMMA CatalogueStart == CatalogueInit => CatalogueInv
BY NothingHeld, IdleIsOK, CatalogueAssumption DEF CatalogueInit, CatalogueInv, CommittedOK, IndexOf

\* A step of the import that commits nothing.
LEMMA ImportMoves ==
  ASSUME CatalogueInv, UNCHANGED <<entries, index, nextEntry, complete>>, WorkOK(work')
  PROVE  CatalogueInv'
<1>1. CommittedOK'
  BY DEF CatalogueInv, CommittedOK
<1> QED
  BY <1>1 DEF CatalogueInv

\* An import that fails or dies leaves what was committed.
LEMMA Abandoning == CatalogueInv /\ Abandon => CatalogueInv'
BY ImportMoves, IdleIsOK DEF Abandon

\* The import begins with the files it was given.
LEMMA Starting == CatalogueInv /\ Start => CatalogueInv'
<1> SUFFICES ASSUME CatalogueInv, Start PROVE CatalogueInv'
  OBVIOUS
<1>1. PICK n \in 1 .. MaxParts : \E parts \in [1 .. n -> Export] :
        work' = [NoImport EXCEPT !.at = "clear", !.parts = parts, !.given = parts, !.next = nextEntry]
  BY DEF Start
<1>2. PICK parts \in [1 .. n -> Export] :
        work' = [NoImport EXCEPT !.at = "clear", !.parts = parts, !.given = parts, !.next = nextEntry]
  BY <1>1
<1>3. parts \in Seq(Export) /\ nextEntry \in 1 .. MaxEntry + 1
  BY CatalogueAssumption DEF CatalogueInv, CommittedOK
<1>4. work' = [at |-> "clear", parts |-> parts, given |-> parts, entries |-> {}, index |-> {},
               next |-> nextEntry]
  BY <1>2 DEF NoImport
<1> DEFINE w == work'
<1>5. /\ w.at = "clear" /\ w.parts = parts /\ w.given = parts /\ w \in Imports
  BY <1>3, <1>4 DEF Imports
<1>6. PartsOK(w) /\ HasRead(w) = 0
  <2>1. HasRead(w) = 0
    BY <1>3, <1>5 DEF HasRead
  <2> QED
    BY <1>3, <1>5, <2>1 DEF PartsOK
<1>7. WorkOK(w)
  BY <1>5, <1>6 DEF WorkOK
<1> QED
  BY <1>7, ImportMoves DEF Start

\* Deleting the old rows, in the image.
LEMMA Clearing == CatalogueInv /\ Clear => CatalogueInv'
<1> SUFFICES ASSUME CatalogueInv, Clear PROVE CatalogueInv'
  OBVIOUS
<1>1. work \in Imports /\ PartsOK(work) /\ HasRead(work) = 0
  BY DEF CatalogueInv, WorkOK, Clear
<1> DEFINE w == work'
<1>2. /\ w.at = "insert" /\ w.entries = {} /\ w.index = {} /\ w \in Imports
      /\ w.parts = work.parts /\ w.given = work.given
  BY <1>1 DEF Clear, Imports
<1> HIDE DEF w
<1>3. PartsOK(w) /\ HasRead(w) = 0
  BY <1>1, <1>2 DEF PartsOK, HasRead
<1>4. WorkOK(w)
  BY <1>2, <1>3, NothingHeld DEF WorkOK
<1> QED
  BY <1>4, ImportMoves DEF Clear, w

\* One more file is in the image, or the import is over.
LEMMA Inserting == CatalogueInv /\ InsertPart => CatalogueInv'
<1> SUFFICES ASSUME CatalogueInv, InsertPart PROVE CatalogueInv'
  OBVIOUS
<1> DEFINE rows == Head(work.parts)
           new  == NewIn(work.entries, rows)
           k    == HasRead(work)
           w    == work'
<1>1. /\ work.at = "insert" /\ work \in Imports /\ PartsOK(work) /\ work.parts # <<>>
      /\ InTable(work.entries, work.given, k, work.next) /\ work.index = {}
  BY DEF CatalogueInv, WorkOK, InsertPart
<1>2. CASE Abandon
  BY <1>2, Abandoning
<1>3. CASE rows # Alien /\ ~ Abandon
  <2>1. /\ work.next + Cardinality(new) <= MaxEntry + 1
        /\ work' = [work EXCEPT !.parts = Tail(@), !.next = @ + Cardinality(new),
                      !.entries = @ \cup {Entry(work.next + Cardinality({j \in new : j < i}), rows[i]) : i \in new}]
        /\ UNCHANGED <<entries, index, nextEntry, complete>>
    BY <1>3 DEF InsertPart, NewIn
  <2>2. /\ work.given \in Seq(Export) /\ work.parts \in Seq(Export) /\ Len(work.parts) \in Nat
        /\ Len(work.given) \in Nat /\ Len(work.parts) <= Len(work.given) /\ Len(work.parts) # 0
        /\ work.next \in 1 .. MaxEntry + 1
    BY <1>1 DEF Imports, PartsOK
  <2>3. /\ k \in Nat /\ k < Len(work.given) /\ rows = work.given[k + 1] /\ rows = work.parts[1]
        /\ \A i \in 1 .. k + 1 : work.given[i] # Alien
    <3>1. k \in Nat /\ k < Len(work.given)
      <4> DEFINE m == Len(work.given)
                 n == Len(work.parts)
      <4>1. k = m - n /\ m \in Nat /\ n \in Nat /\ n <= m /\ n # 0
        BY <2>2 DEF HasRead
      <4> HIDE DEF m, n, k
      <4>2. k \in Nat /\ k < m
        BY <4>1
      <4> QED
        BY <4>2 DEF m
    <3>2. rows = work.parts[1]
      BY <1>1, <2>2
    <3>3. work.parts[1] = work.given[k + 1]
      BY <1>1, <2>2 DEF PartsOK
    <3>4. \A i \in 1 .. k : work.given[i] # Alien
      BY <1>1 DEF PartsOK
    <3> HIDE DEF k, rows
    <3>5. \A i \in 1 .. k + 1 : i \in 1 .. k \/ i = k + 1
      BY <3>1
    <3> QED
      BY <1>3, <3>1, <3>2, <3>3, <3>4, <3>5
  <2>4. /\ Cardinality(new) \in Nat
        /\ InTable(With(work.entries, rows, new, work.next), work.given, k + 1, work.next + Cardinality(new))
    <3>1. work.next \in Nat
      BY <2>2, CatalogueAssumption
    <3> HIDE DEF k, rows
    <3> QED
      BY <1>1, <2>2, <2>3, <3>1, InsertKeeps
  <2> DEFINE all == With(work.entries, rows, new, work.next)
             top == work.next + Cardinality(new)
  <2>5. all = work.entries \cup {Entry(work.next + Cardinality({j \in new : j < i}), rows[i]) : i \in new}
    BY DEF With, IdOf
  <2>6. work' = [work EXCEPT !.parts = Tail(work.parts), !.next = top, !.entries = all]
    BY <2>1, <2>5
  <2>7. top \in 1 .. MaxEntry + 1 /\ all \in SUBSET Wares
    <3>1. all \in SUBSET Wares
      BY <2>4 DEF InTable
    <3> HIDE DEF new, all
    <3> QED
      BY <2>1, <2>2, <2>4, <3>1, CatalogueAssumption
  <2>8. Tail(work.parts) \in Seq(Export) /\ Len(Tail(work.parts)) = Len(work.parts) - 1
        /\ \A i \in 1 .. Len(work.parts) - 1 : Tail(work.parts)[i] = work.parts[i + 1]
    BY <1>1, <2>2
  <2> HIDE DEF all, top, new, rows
  <2>9. /\ w.at = "insert" /\ w.parts = Tail(work.parts) /\ w.given = work.given /\ w.entries = all
        /\ w.index = {} /\ w.next = top /\ w \in Imports
    BY <1>1, <2>6, <2>7, <2>8 DEF Imports
  <2>10. HasRead(w) = k + 1
    <3> DEFINE m == Len(work.given)
               n == Len(work.parts)
    <3>1. HasRead(w) = m - (n - 1) /\ k = m - n /\ m \in Nat /\ n \in Nat
      BY <2>2, <2>8, <2>9 DEF HasRead
    <3> HIDE DEF m, n, k
    <3> QED
      BY <3>1
  <2> HIDE DEF w, k
  <2>11. PartsOK(w)
    <3>1. Len(w.parts) = Len(work.parts) - 1 /\ Len(w.given) = Len(work.given)
      BY <2>8, <2>9
    <3>2. \A i \in 1 .. Len(w.parts) : i + 1 \in 1 .. Len(work.parts) /\ w.parts[i] = work.parts[i + 1]
      BY <2>2, <2>8, <2>9, <3>1
    <3>3. \A i \in 1 .. Len(work.parts) : work.parts[i] = work.given[k + i]
      BY <1>1 DEF PartsOK, k
    <3>4. \A i \in 1 .. Len(w.parts) : w.parts[i] = w.given[(k + 1) + i]
      <4> SUFFICES ASSUME NEW i \in 1 .. Len(w.parts) PROVE w.parts[i] = w.given[(k + 1) + i]
        OBVIOUS
      <4>1. w.parts[i] = work.given[k + (i + 1)]
        BY <3>2, <3>3
      <4>2. k + (i + 1) = (k + 1) + i
        BY <2>3, <3>2
      <4> QED
        BY <2>9, <4>1, <4>2
    <3> QED
      BY <2>2, <2>3, <2>9, <2>10, <3>1, <3>4 DEF PartsOK
  <2>12. WorkOK(w)
    BY <2>4, <2>9, <2>10, <2>11 DEF WorkOK, all, top
  <2> QED
    BY <2>1, <2>12, ImportMoves DEF w
<1> QED
  BY <1>2, <1>3 DEF InsertPart

\* The index is made from the table of the image, once every file is in.
LEMMA Indexing == CatalogueInv /\ Index => CatalogueInv'
<1> SUFFICES ASSUME CatalogueInv, Index PROVE CatalogueInv'
  OBVIOUS
<1>1. /\ work.at = "insert" /\ work \in Imports /\ PartsOK(work) /\ work.parts = <<>>
      /\ InTable(work.entries, work.given, HasRead(work), work.next) /\ work.index = {}
  BY DEF CatalogueInv, WorkOK, Index
<1> DEFINE w == work'
           new == IndexOf(work.entries)
<1>2. new \in SUBSET IndexRow
  <2>1. work.entries \in SUBSET Wares
    BY <1>1 DEF InTable
  <2> QED
    BY <2>1 DEF IndexOf, Wares, IndexRow
<1>3. work' = [work EXCEPT !.at = "commit", !.index = new]
  <2>1. work' = [work EXCEPT !.at = "commit", !.index = work.index \cup new]
    BY DEF Index, IndexOf
  <2>2. work.index \cup new = new
    BY <1>1
  <2> HIDE DEF new
  <2> QED
    BY <2>1, <2>2
<1> HIDE DEF new
<1>4. /\ w.at = "commit" /\ w.index = new /\ w.entries = work.entries /\ w.parts = work.parts
      /\ w.given = work.given /\ w.next = work.next /\ w \in Imports
  BY <1>1, <1>2, <1>3 DEF Imports
<1>5. HasRead(work) = Len(work.given)
  BY <1>1 DEF HasRead, Imports
<1> HIDE DEF w
<1>6. PartsOK(w) /\ HasRead(w) = HasRead(work)
  BY <1>1, <1>4 DEF PartsOK, HasRead
<1>7. WorkOK(w)
  BY <1>1, <1>4, <1>5, <1>6 DEF WorkOK, new
<1> QED
  BY <1>7, ImportMoves DEF Index, w

\* The commit puts the image of one whole import in the place of the last one's.
LEMMA CommittingImport == CatalogueInv /\ CommitImport => CatalogueInv'
<1> SUFFICES ASSUME CatalogueInv, CommitImport PROVE CatalogueInv'
  OBVIOUS
<1>1. /\ work \in Imports /\ PartsOK(work) /\ HasRead(work) = Len(work.given)
      /\ InTable(work.entries, work.given, HasRead(work), work.next) /\ work.index = IndexOf(work.entries)
  BY DEF CatalogueInv, WorkOK, CommitImport
<1>2. \A i \in 1 .. Len(work.given) : work.given[i] # Alien
  BY <1>1 DEF PartsOK
<1>3. CommittedOK'
  BY <1>1, <1>2 DEF CommitImport, CommittedOK, Imports
<1> QED
  BY <1>3, IdleIsOK DEF CatalogueInv, CommitImport

\* Every step of an import, and its death, keeps the catalogue whole.
LEMMA CatalogueStep == CatalogueInv /\ [CatalogueNext]_catalogueVars => CatalogueInv'
<1>1. CatalogueInv /\ ImportDies => CatalogueInv'
  BY Abandoning DEF ImportDies
<1>2. CatalogueInv /\ UNCHANGED catalogueVars => CatalogueInv'
  BY DEF catalogueVars, CatalogueInv, CommittedOK
<1> QED
  BY <1>1, <1>2, Starting, Clearing, Inserting, Indexing, CommittingImport DEF CatalogueNext

-----------------------------------------------------------------------------
(* What the invariant says of a search. *)

\* The ids are unique, and the UNIQUE columns are.
LEMMA CatalogueTyped == CatalogueInv => CatalogueTypeOK
BY DEF CatalogueInv, CommittedOK, WorkOK, Imports, InTable, OneEach, CatalogueTypeOK

\* A search sees the goods of one whole import and no others.
LEMMA OneImportOnly == CatalogueInv => CatalogueIsWhole
<1> SUFFICES ASSUME CatalogueInv PROVE CatalogueIsWhole
  OBVIOUS
<1>1. RowsOf(complete, Len(complete)) = RowsGiven
  <2>1. DOMAIN complete = 1 .. Len(complete)
    BY DEF CatalogueInv, CommittedOK
  <2> QED
    BY <2>1 DEF RowsOf, UsableIn, RowsGiven
<1> QED
  BY <1>1 DEF CatalogueInv, CommittedOK, InTable, SaysOnly, HasAll, CatalogueIsWhole

\* The table and the index lead to the same goods.
LEMMA PathsMeet == CatalogueInv => BothPathsAgree
<1> SUFFICES ASSUME CatalogueInv PROVE BothPathsAgree
  OBVIOUS
<1> DEFINE indexed(e) == [id |-> e.id, code |-> e.code, word |-> e.word]
<1>1. /\ \A x : x \in index <=> \E e \in entries : x = indexed(e)
      /\ \A e : indexed(e).id = e.id /\ indexed(e).code = e.code /\ indexed(e).word = e.word
  BY DEF CatalogueInv, CommittedOK, IndexOf
<1> HIDE DEF indexed
<1>2. {x.id : x \in index} = {e.id : e \in entries}
  BY <1>1
<1>3. ASSUME NEW e \in entries
      PROVE  e.current <=> e \in ByCode(e.code) \cap ByWord(e.code) \cap ByWord(e.word)
  <2>1. indexed(e) \in index
    BY <1>1
  <2>2. \E x \in index : x.id = e.id /\ x.code = e.code
    BY <1>1, <2>1
  <2>3. \E x \in index : x.id = e.id /\ x.word = e.word
    BY <1>1, <2>1
  <2> QED
    BY <2>2, <2>3 DEF ByCode, ByWord
<1> QED
  BY <1>2, <1>3 DEF BothPathsAgree

-----------------------------------------------------------------------------
(* The check digit.  The table is the product of the ten symmetries of a     *)
(* pentagon, written in arithmetic: products can be regrouped and either     *)
(* factor is told by the other, so what differs in one place stays apart.    *)

Digit == 0 .. 9

\* The symmetries of a pentagon: 0 to 4 turn it, 5 to 9 mirror it and turn it.
Turned(n)  == IF n < 0 THEN n + 5 ELSE IF n < 5 THEN n ELSE n - 5
Turn(a, b) == IF a < 5 THEN (IF b < 5 THEN Turned(a + b) ELSE 5 + Turned(a + b - 5))
              ELSE (IF b < 5 THEN 5 + Turned(a - 5 - b) ELSE Turned(a - b))

\* The digit a position makes of a digit.
Moved(k, d) == P[(k % 8) + 1][d + 1]

\* The table is that of the group.
LEMMA TableIsGroup ==
  ASSUME NEW a \in Digit, NEW b \in Digit
  PROVE  D[a + 1][b + 1] = Turn(a, b)
<1> DEFINE row(t) == t[1] = Turn(a, 0) /\ t[2] = Turn(a, 1) /\ t[3] = Turn(a, 2) /\ t[4] = Turn(a, 3)
                     /\ t[5] = Turn(a, 4) /\ t[6] = Turn(a, 5) /\ t[7] = Turn(a, 6) /\ t[8] = Turn(a, 7)
                     /\ t[9] = Turn(a, 8) /\ t[10] = Turn(a, 9)
<1>1. ASSUME NEW t, row(t) PROVE t[b + 1] = Turn(a, b)
  <2>1. b \in {0, 1, 2, 3, 4, 5, 6, 7, 8, 9}
    BY DEF Digit
  <2> QED
    BY <1>1, <2>1
<1>2. row(D[a + 1])
  <2>1. CASE a = 0
    BY <2>1 DEF D, Turn, Turned
  <2>2. CASE a = 1
    BY <2>2 DEF D, Turn, Turned
  <2>3. CASE a = 2
    BY <2>3 DEF D, Turn, Turned
  <2>4. CASE a = 3
    BY <2>4 DEF D, Turn, Turned
  <2>5. CASE a = 4
    BY <2>5 DEF D, Turn, Turned
  <2>6. CASE a = 5
    BY <2>6 DEF D, Turn, Turned
  <2>7. CASE a = 6
    BY <2>7 DEF D, Turn, Turned
  <2>8. CASE a = 7
    BY <2>8 DEF D, Turn, Turned
  <2>9. CASE a = 8
    BY <2>9 DEF D, Turn, Turned
  <2>10. CASE a = 9
    BY <2>10 DEF D, Turn, Turned
  <2> QED
    BY <2>1, <2>2, <2>3, <2>4, <2>5, <2>6, <2>7, <2>8, <2>9, <2>10 DEF Digit
<1> HIDE DEF row
<1> QED
  BY <1>1, <1>2

\* A product of digits is a digit, and either factor tells the other.
LEMMA Cancels ==
  ASSUME NEW a \in Digit, NEW b \in Digit, NEW c \in Digit
  PROVE  /\ Turn(a, b) \in Digit
         /\ Turn(a, b) = Turn(a, c) => b = c
         /\ Turn(b, a) = Turn(c, a) => b = c
         /\ Turn(a, 0) = a /\ Turn(0, a) = a
BY DEF Turn, Turned, Digit

\* Products may be taken in any grouping.
LEMMA Associates ==
  ASSUME NEW a \in Digit, NEW b \in Digit, NEW c \in Digit
  PROVE  Turn(Turn(a, b), c) = Turn(a, Turn(b, c))
<1>1. CASE a < 5
  BY <1>1, SMTT(60) DEF Turn, Turned, Digit
<1>2. CASE a >= 5
  BY <1>2, SMTT(60) DEF Turn, Turned, Digit
<1> QED
  BY <1>1, <1>2 DEF Digit

\* Inv has the inverses.
LEMMA Inverts ==
  ASSUME NEW a \in Digit
  PROVE  Inv[a + 1] \in Digit /\ Turn(Inv[a + 1], a) = 0
<1>1. a \in {0, 1, 2, 3, 4, 5, 6, 7, 8, 9}
  BY DEF Digit
<1> QED
  BY <1>1 DEF Inv, Turn, Turned, Digit

\* The first permutation, as the list of what it makes of each digit.
Shift(d) == P[2][d + 1]

\* The permutation of a position is a digit's, and that of the next one follows it
\* by Shift; the eighth is back where the first one was.
LEMMA ShiftsOn ==
  ASSUME NEW k \in Nat, NEW d \in Digit
  PROVE  /\ Moved(0, d) = d /\ Moved(k, d) \in Digit
         /\ Moved(k + 1, d) = Shift(Moved(k, d))
<1> DEFINE j == k % 8
           next(t, u) == /\ t[1] \in Digit /\ u[1] = P[2][t[1] + 1] /\ t[2] \in Digit /\ u[2] = P[2][t[2] + 1]
                         /\ t[3] \in Digit /\ u[3] = P[2][t[3] + 1] /\ t[4] \in Digit /\ u[4] = P[2][t[4] + 1]
                         /\ t[5] \in Digit /\ u[5] = P[2][t[5] + 1] /\ t[6] \in Digit /\ u[6] = P[2][t[6] + 1]
                         /\ t[7] \in Digit /\ u[7] = P[2][t[7] + 1] /\ t[8] \in Digit /\ u[8] = P[2][t[8] + 1]
                         /\ t[9] \in Digit /\ u[9] = P[2][t[9] + 1] /\ t[10] \in Digit /\ u[10] = P[2][t[10] + 1]
<1>1. j \in {0, 1, 2, 3, 4, 5, 6, 7} /\ (k + 1) % 8 = IF j = 7 THEN 0 ELSE j + 1
  OBVIOUS
<1>2. d \in {0, 1, 2, 3, 4, 5, 6, 7, 8, 9}
  BY DEF Digit
<1>3. ASSUME NEW t, NEW u, next(t, u) PROVE t[d + 1] \in Digit /\ u[d + 1] = P[2][t[d + 1] + 1]
  BY <1>2, <1>3
<1>4. next(P[j + 1], P[(IF j = 7 THEN 0 ELSE j + 1) + 1])
  <2>1. CASE j = 0
    BY <2>1, SMTT(30) DEF P, Digit
  <2>2. CASE j = 1
    BY <2>2, SMTT(30) DEF P, Digit
  <2>3. CASE j = 2
    BY <2>3, SMTT(30) DEF P, Digit
  <2>4. CASE j = 3
    BY <2>4, SMTT(30) DEF P, Digit
  <2>5. CASE j = 4
    BY <2>5, SMTT(30) DEF P, Digit
  <2>6. CASE j = 5
    BY <2>6, SMTT(30) DEF P, Digit
  <2>7. CASE j = 6
    BY <2>7, SMTT(30) DEF P, Digit
  <2>8. CASE j = 7
    BY <2>8, SMTT(30) DEF P, Digit
  <2> QED
    BY <1>1, <2>1, <2>2, <2>3, <2>4, <2>5, <2>6, <2>7, <2>8
<1>5. Moved(0, d) = d
  <2>1. P[1] = <<0, 1, 2, 3, 4, 5, 6, 7, 8, 9>> /\ 0 % 8 = 0
    BY DEF P
  <2> QED
    BY <1>2, <2>1 DEF Moved
<1> HIDE DEF next, j
<1> QED
  BY <1>1, <1>3, <1>4, <1>5 DEF Moved, Shift, j

\* What Shift makes of two digits tells them apart, and so do the products of
\* neighbours in either order: that is what the permutation was chosen for.
LEMMA ShiftTells ==
  ASSUME NEW a \in Digit, NEW b \in Digit, a # b
  PROVE  Shift(a) # Shift(b) /\ Turn(a, Shift(b)) # Turn(b, Shift(a))
<1>1. /\ Shift(0) = 1 /\ Shift(1) = 5 /\ Shift(2) = 7 /\ Shift(3) = 6 /\ Shift(4) = 2
      /\ Shift(5) = 8 /\ Shift(6) = 3 /\ Shift(7) = 0 /\ Shift(8) = 9 /\ Shift(9) = 4
  BY DEF Shift, P
<1>2. a \in {0, 1, 2, 3, 4, 5, 6, 7, 8, 9} /\ b \in {0, 1, 2, 3, 4, 5, 6, 7, 8, 9}
  BY DEF Digit
<1> QED
  BY <1>1, <1>2 DEF Turn, Turned

\* No position makes two digits one.
LEMMA MovedTells ==
  ASSUME NEW k \in Nat, NEW a \in Digit, NEW b \in Digit, a # b
  PROVE  Moved(k, a) # Moved(k, b)
<1> DEFINE T == {j \in Nat : Moved(j, a) # Moved(j, b)}
<1>1. 0 \in T
  BY ShiftsOn
<1>2. ASSUME NEW j \in 1 .. k, j - 1 \in T PROVE j \in T
  <2>1. j - 1 \in Nat /\ j \in Nat /\ (j - 1) + 1 = j
    OBVIOUS
  <2>2. Moved(j - 1, a) # Moved(j - 1, b)
    BY <1>2
  <2>3. Moved(j - 1, a) \in Digit /\ Moved(j - 1, b) \in Digit
    BY <2>1, ShiftsOn
  <2>4. Moved(j, a) = Shift(Moved(j - 1, a)) /\ Moved(j, b) = Shift(Moved(j - 1, b))
    BY <2>1, ShiftsOn
  <2> QED
    BY <2>1, <2>2, <2>3, <2>4, ShiftTells
<1> HIDE DEF T
<1>3. \A j \in 0 .. k : j \in T
  BY <1>1, <1>2, SetInduction
<1> QED
  BY <1>3 DEF T

\* The digits moved by their positions, the last one first.
Factors(digits, from) ==
  [k \in 1 .. Len(digits) |-> Moved(k - 1 + from, digits[Len(digits) - k + 1])]

\* The products of the first k factors.
Multiplies(f, n, factors) ==
  f \in [0 .. n -> Digit] /\ f[0] = 0 /\ \A k \in 1 .. n : f[k] = Turn(f[k - 1], factors[k])

\* Each factor of a product is a digit.
LEMMA FactorsAreDigits ==
  ASSUME NEW digits \in Seq(Digit), NEW from \in Nat
  PROVE  Factors(digits, from) \in [1 .. Len(digits) -> Digit]
<1>1. ASSUME NEW k \in 1 .. Len(digits) PROVE Moved(k - 1 + from, digits[Len(digits) - k + 1]) \in Digit
  <2>1. Len(digits) - k + 1 \in 1 .. Len(digits) /\ k - 1 + from \in Nat
    OBVIOUS
  <2>2. digits[Len(digits) - k + 1] \in Digit
    BY <2>1
  <2> QED
    BY <2>1, <2>2, ShiftsOn
<1> QED
  BY <1>1 DEF Factors

\* Product is the last of the products.
LEMMA ProductIs ==
  ASSUME NEW digits \in Seq(Digit), NEW from \in Nat
  PROVE  \E f : Multiplies(f, Len(digits), Factors(digits, from)) /\ Product(digits, from) = f[Len(digits)]
<1> DEFINE n == Len(digits)
           factors == Factors(digits, from)
           Body(f) == [k \in 0 .. n |->
                         IF k = 0 THEN 0
                         ELSE D[f[k - 1] + 1][P[((k - 1 + from) % 8) + 1][digits[n - k + 1] + 1] + 1]]
           last == CHOOSE f : f = Body(f)
           round == [i \in 1 .. n |-> [v \in Digit |-> Turn(v, factors[i])]]
<1>1. n \in Nat /\ 0 \in Digit /\ factors \in [1 .. n -> Digit]
  BY FactorsAreDigits DEF Digit
<1>2. Product(digits, from) = last[n]
  BY DEF Product
<1>3. \A k \in 1 .. n : factors[k] = P[((k - 1 + from) % 8) + 1][digits[n - k + 1] + 1]
  BY DEF Factors, Moved
<1> HIDE DEF n, factors
<1>4. round \in [1 .. n -> [Digit -> Digit]]
  <2>1. ASSUME NEW i \in 1 .. n, NEW v \in Digit PROVE Turn(v, factors[i]) \in Digit
    BY <1>1, Cancels
  <2> QED
    BY <2>1
<1>5. PICK f : Multiplies(f, n, factors)
  <2>1. PICK f : LoopRuns(f, n, Digit, 0, round)
    <3> HIDE DEF round
    <3> QED
      BY <1>1, <1>4, Loop
  <2>2. f \in [0 .. n -> Digit] /\ f[0] = 0 /\ \A i \in 1 .. n : f[i] = round[i][f[i - 1]]
    BY <2>1 DEF LoopRuns
  <2>3. ASSUME NEW i \in 1 .. n PROVE f[i] = Turn(f[i - 1], factors[i])
    <3>1. i - 1 \in 0 .. n
      BY <1>1
    <3>2. f[i - 1] \in Digit
      BY <2>2, <3>1
    <3> QED
      BY <2>2, <3>2
  <2> QED
    BY <2>2, <2>3 DEF Multiplies
<1>6. f = Body(f)
  <2>1. ASSUME NEW k \in 1 .. n
        PROVE  f[k] = D[f[k - 1] + 1][P[((k - 1 + from) % 8) + 1][digits[n - k + 1] + 1] + 1]
    <3>1. k - 1 \in 0 .. n
      BY <1>1
    <3>2. f[k - 1] \in Digit /\ factors[k] \in Digit /\ f[k] = Turn(f[k - 1], factors[k])
      BY <1>1, <1>5, <3>1 DEF Multiplies
    <3>3. f[k] = D[f[k - 1] + 1][factors[k] + 1]
      BY <3>2, TableIsGroup
    <3> QED
      BY <1>3, <3>3
  <2>2. \A k \in 0 .. n : k = 0 \/ k \in 1 .. n
    BY <1>1
  <2>3. \A k \in 0 .. n : f[k] = IF k = 0 THEN 0
                                 ELSE D[f[k - 1] + 1][P[((k - 1 + from) % 8) + 1][digits[n - k + 1] + 1] + 1]
    BY <1>5, <2>1, <2>2 DEF Multiplies
  <2> QED
    BY <1>5, <2>3 DEF Multiplies
<1>7. last = Body(last)
  <2> HIDE DEF Body
  <2> QED
    BY <1>6
<1> HIDE DEF last
<1> DEFINE T == {k \in 0 .. n : last[k] = f[k]}
<1>8. 0 \in T
  <2>1. 0 \in 0 .. n
    BY <1>1
  <2>2. last[0] = 0
    BY <1>7, <2>1
  <2> QED
    BY <1>5, <2>1, <2>2 DEF Multiplies
<1>9. ASSUME NEW k \in 1 .. n, k - 1 \in T PROVE k \in T
  <2>1. k \in 0 .. n /\ k # 0
    BY <1>1
  <2>2. last[k] = D[last[k - 1] + 1][P[((k - 1 + from) % 8) + 1][digits[n - k + 1] + 1] + 1]
    BY <1>7, <2>1
  <2>3. f[k] = D[f[k - 1] + 1][P[((k - 1 + from) % 8) + 1][digits[n - k + 1] + 1] + 1]
    BY <1>6, <2>1
  <2>4. last[k - 1] = f[k - 1]
    BY <1>9
  <2> QED
    BY <2>1, <2>2, <2>3, <2>4
<1> HIDE DEF T
<1>10. \A k \in 0 .. n : k \in T
  BY <1>1, <1>8, <1>9, SetInduction
<1>11. n \in 0 .. n
  BY <1>1
<1>12. last[n] = f[n]
  BY <1>10, <1>11 DEF T
<1> QED
  BY <1>2, <1>5, <1>12 DEF n, factors

\* Products that differ still differ after any factors in common.
LEMMA StaysApart ==
  ASSUME NEW n \in Nat, NEW s \in [1 .. n -> Digit], NEW t \in [1 .. n -> Digit], NEW f, NEW g,
         Multiplies(f, n, s), Multiplies(g, n, t),
         NEW p \in 0 .. n, f[p] # g[p], \A k \in 1 .. n : k > p => s[k] = t[k]
  PROVE  f[n] # g[n]
<1> DEFINE T == {k \in 0 .. n : k >= p => f[k] # g[k]}
<1>1. 0 \in T
  OBVIOUS
<1>2. ASSUME NEW k \in 1 .. n, k - 1 \in T PROVE k \in T
  <2>1. k \in 0 .. n /\ k - 1 \in 0 .. n
    OBVIOUS
  <2>2. f[k - 1] \in Digit /\ g[k - 1] \in Digit /\ s[k] \in Digit
    BY <2>1 DEF Multiplies
  <2>3. f[k] = Turn(f[k - 1], s[k]) /\ g[k] = Turn(g[k - 1], t[k])
    BY DEF Multiplies
  <2>4. CASE k > p
    <3>1. f[k - 1] # g[k - 1] /\ s[k] = t[k]
      BY <1>2, <2>4
    <3> QED
      BY <2>1, <2>2, <2>3, <3>1, Cancels
  <2>5. CASE k <= p
    BY <2>1, <2>5
  <2> QED
    BY <2>4, <2>5
<1> HIDE DEF T
<1>3. \A k \in 0 .. n : k \in T
  BY <1>1, <1>2, SetInduction
<1> QED
  BY <1>3 DEF T

\* Products of the same factors are the same.
LEMMA StaysEqual ==
  ASSUME NEW n \in Nat, NEW s \in [1 .. n -> Digit], NEW t \in [1 .. n -> Digit], NEW f, NEW g,
         Multiplies(f, n, s), Multiplies(g, n, t),
         NEW p \in 0 .. n, \A k \in 1 .. n : k <= p => s[k] = t[k]
  PROVE  f[p] = g[p] /\ f[p] \in Digit
<1> DEFINE T == {k \in 0 .. n : k <= p => f[k] = g[k]}
<1>1. 0 \in T
  BY DEF Multiplies
<1>2. ASSUME NEW k \in 1 .. n, k - 1 \in T PROVE k \in T
  <2>1. f[k] = Turn(f[k - 1], s[k]) /\ g[k] = Turn(g[k - 1], t[k])
    BY DEF Multiplies
  <2>2. k <= p => f[k - 1] = g[k - 1] /\ s[k] = t[k]
    BY <1>2
  <2> QED
    BY <2>1, <2>2
<1> HIDE DEF T
<1>3. \A k \in 0 .. n : k \in T
  BY <1>1, <1>2, SetInduction
<1> QED
  BY <1>3 DEF T, Multiplies

\* The same factors but for at most two of them.
AgreeBut(s, t, n, p, q) == \A k \in 1 .. n : k # p /\ k # q => s[k] = t[k]

\* Factors that differ in one place have different products.
LEMMA OneApart ==
  ASSUME NEW n \in Nat, NEW s \in [1 .. n -> Digit], NEW t \in [1 .. n -> Digit], NEW f, NEW g,
         Multiplies(f, n, s), Multiplies(g, n, t),
         NEW p \in 1 .. n, s[p] # t[p], AgreeBut(s, t, n, p, p)
  PROVE  f[n] # g[n]
<1>1. f[p - 1] = g[p - 1] /\ f[p - 1] \in Digit
  <2>1. p - 1 \in 0 .. n /\ \A k \in 1 .. n : k <= p - 1 => s[k] = t[k]
    BY DEF AgreeBut
  <2> QED
    BY <2>1, StaysEqual
<1>2. f[p] = Turn(f[p - 1], s[p]) /\ g[p] = Turn(g[p - 1], t[p])
  BY DEF Multiplies
<1>3. f[p] # g[p]
  BY <1>1, <1>2, Cancels
<1>4. p \in 0 .. n /\ \A k \in 1 .. n : k > p => s[k] = t[k]
  BY DEF AgreeBut
<1> QED
  BY <1>3, <1>4, StaysApart

\* So have factors that differ in two neighbours, if those two have.
LEMMA TwoApart ==
  ASSUME NEW n \in Nat, NEW s \in [1 .. n -> Digit], NEW t \in [1 .. n -> Digit], NEW f, NEW g,
         Multiplies(f, n, s), Multiplies(g, n, t),
         NEW p \in 1 .. n, p < n, NEW q, q = p + 1, Turn(s[p], s[q]) # Turn(t[p], t[q]),
         AgreeBut(s, t, n, p, q)
  PROVE  f[n] # g[n]
<1>1. f[p - 1] = g[p - 1] /\ f[p - 1] \in Digit
  <2>1. p - 1 \in 0 .. n /\ \A k \in 1 .. n : k <= p - 1 => s[k] = t[k]
    BY DEF AgreeBut
  <2> QED
    BY <2>1, StaysEqual
<1>2. p + 1 \in 1 .. n /\ p + 1 \in 0 .. n /\ (p + 1) - 1 = p
  OBVIOUS
<1>3. f[p] = Turn(f[p - 1], s[p]) /\ g[p] = Turn(g[p - 1], t[p])
  BY DEF Multiplies
<1>4. f[p + 1] = Turn(f[p], s[p + 1]) /\ g[p + 1] = Turn(g[p], t[p + 1])
  BY <1>2 DEF Multiplies
<1>5. s[p] \in Digit /\ s[p + 1] \in Digit /\ t[p] \in Digit /\ t[p + 1] \in Digit
  BY <1>2
<1>6. f[p + 1] = Turn(f[p - 1], Turn(s[p], s[p + 1])) /\ g[p + 1] = Turn(f[p - 1], Turn(t[p], t[p + 1]))
  BY <1>1, <1>3, <1>4, <1>5, Associates
<1>7. Turn(s[p], s[p + 1]) \in Digit /\ Turn(t[p], t[p + 1]) \in Digit
  BY <1>5, Cancels
<1>8. f[p + 1] # g[p + 1]
  BY <1>1, <1>6, <1>7, Cancels
<1>9. \A k \in 1 .. n : k > p + 1 => s[k] = t[k]
  BY DEF AgreeBut
<1> QED
  BY <1>2, <1>8, <1>9, StaysApart

\* A number with its check digit passes.
LEMMA CheckedPasses ==
  ASSUME NEW digits \in Seq(Digit)
  PROVE  /\ CheckDigit(digits) \in Digit
         /\ Validate(digits \o <<CheckDigit(digits)>>)
<1> DEFINE n == Len(digits)
           c == CheckDigit(digits)
           whole == digits \o <<c>>
<1>1. PICK f : Multiplies(f, n, Factors(digits, 1)) /\ Product(digits, 1) = f[n]
  BY ProductIs
<1>2. n \in Nat /\ f[n] \in Digit
  BY <1>1 DEF Multiplies
<1>3. c \in Digit /\ Turn(c, f[n]) = 0
  BY <1>1, <1>2, Inverts DEF CheckDigit
<1> HIDE DEF c
<1>4. whole \in Seq(Digit) /\ Len(whole) = n + 1 /\ whole[n + 1] = c /\ \A i \in 1 .. n : whole[i] = digits[i]
  BY <1>3
<1> HIDE DEF whole
<1>5. PICK g : Multiplies(g, n + 1, Factors(whole, 0)) /\ Product(whole, 0) = g[n + 1]
  BY <1>4, ProductIs
<1>6. Factors(whole, 0)[1] = c
  <2>1. 1 \in 1 .. Len(whole) /\ Len(whole) - 1 + 1 = n + 1 /\ 1 - 1 + 0 = 0
    BY <1>2, <1>4
  <2>2. Factors(whole, 0)[1] = Moved(0, whole[n + 1])
    BY <2>1 DEF Factors
  <2> QED
    BY <1>3, <1>4, <2>2, ShiftsOn
<1>7. \A k \in 1 .. n : Factors(whole, 0)[k + 1] = Factors(digits, 1)[k]
  <2>1. ASSUME NEW k \in 1 .. n PROVE Factors(whole, 0)[k + 1] = Factors(digits, 1)[k]
    <3>1. k + 1 \in 1 .. Len(whole) /\ Len(whole) - (k + 1) + 1 = n - k + 1 /\ (k + 1) - 1 + 0 = k - 1 + 1
          /\ n - k + 1 \in 1 .. n
      BY <1>2, <1>4
    <3>2. whole[n - k + 1] = digits[n - k + 1]
      BY <1>4, <3>1
    <3> QED
      BY <3>1, <3>2 DEF Factors
  <2> QED
    BY <2>1
<1> DEFINE T == {k \in 0 .. n : g[k + 1] = Turn(c, f[k])}
<1>8. 0 \in T
  <2>1. 1 \in 1 .. n + 1 /\ 0 \in 0 .. n
    BY <1>2
  <2>2. g[1] = Turn(g[0], Factors(whole, 0)[1]) /\ g[0] = 0 /\ f[0] = 0
    BY <1>1, <1>5, <2>1 DEF Multiplies
  <2>3. g[1] = c /\ Turn(c, f[0]) = c
    BY <1>3, <1>6, <2>2, Cancels
  <2> QED
    BY <2>1, <2>3
<1>9. ASSUME NEW k \in 1 .. n, k - 1 \in T PROVE k \in T
  <2>1. k + 1 \in 1 .. n + 1 /\ (k + 1) - 1 = k /\ (k - 1) + 1 = k /\ k - 1 \in 0 .. n /\ k \in 0 .. n
    BY <1>2
  <2>2. g[k + 1] = Turn(g[k], Factors(whole, 0)[k + 1])
    BY <1>5, <2>1 DEF Multiplies
  <2>3. g[k] = Turn(c, f[k - 1])
    BY <1>9, <2>1
  <2>4. f[k] = Turn(f[k - 1], Factors(digits, 1)[k]) /\ f[k - 1] \in Digit
    BY <1>1, <2>1 DEF Multiplies
  <2>5. Factors(digits, 1)[k] \in Digit
    BY FactorsAreDigits
  <2>6. g[k + 1] = Turn(Turn(c, f[k - 1]), Factors(digits, 1)[k])
    BY <1>7, <2>2, <2>3
  <2> QED
    BY <1>3, <2>1, <2>4, <2>5, <2>6, Associates
<1> HIDE DEF T
<1>10. \A k \in 0 .. n : k \in T
  BY <1>2, <1>8, <1>9, SetInduction
<1>11. g[n + 1] = 0
  <2>1. n \in 0 .. n
    BY <1>2
  <2> QED
    BY <1>3, <1>10, <2>1 DEF T
<1> QED
  BY <1>3, <1>5, <1>11 DEF Validate, whole, c

\* One wrong digit is noticed.
LEMMA WrongDigitFails ==
  ASSUME NEW whole \in Seq(Digit), Validate(whole), NEW i \in DOMAIN whole, NEW d \in Digit, d # whole[i]
  PROVE  ~ Validate([whole EXCEPT ![i] = d])
<1> DEFINE n == Len(whole)
           wrong == [whole EXCEPT ![i] = d]
           p == n - i + 1
<1>1. n \in Nat /\ i \in 1 .. n /\ p \in 1 .. n /\ n - p + 1 = i
  OBVIOUS
<1>2. wrong \in Seq(Digit) /\ Len(wrong) = n /\ wrong[i] = d /\ \A j \in 1 .. n : j # i => wrong[j] = whole[j]
  OBVIOUS
<1> HIDE DEF wrong
<1>3. PICK f : Multiplies(f, n, Factors(whole, 0)) /\ Product(whole, 0) = f[n]
  BY ProductIs
<1>4. PICK g : Multiplies(g, n, Factors(wrong, 0)) /\ Product(wrong, 0) = g[n]
  BY <1>2, ProductIs
<1>5. Factors(whole, 0) \in [1 .. n -> Digit] /\ Factors(wrong, 0) \in [1 .. n -> Digit]
  BY <1>2, FactorsAreDigits
<1>6. \A k \in 1 .. n : /\ Factors(whole, 0)[k] = Moved(k - 1 + 0, whole[n - k + 1])
                        /\ Factors(wrong, 0)[k] = Moved(k - 1 + 0, wrong[n - k + 1])
  BY <1>2 DEF Factors
<1>7. Factors(whole, 0)[p] # Factors(wrong, 0)[p]
  <2>1. p - 1 + 0 \in Nat /\ whole[i] \in Digit
    BY <1>1
  <2> HIDE DEF p
  <2> QED
    BY <1>1, <1>2, <1>6, <2>1, MovedTells
<1>8. \A k \in 1 .. n : k # p => Factors(whole, 0)[k] = Factors(wrong, 0)[k]
  <2>1. ASSUME NEW k \in 1 .. n, k # p PROVE Factors(whole, 0)[k] = Factors(wrong, 0)[k]
    <3>1. n - k + 1 \in 1 .. n /\ n - k + 1 # i
      BY <1>1, <2>1
    <3> QED
      BY <1>2, <1>6, <3>1
  <2> QED
    BY <2>1
<1>9. f[n] # g[n]
  <2> DEFINE x == Factors(whole, 0)
             y == Factors(wrong, 0)
  <2>1. n \in Nat /\ p \in 1 .. n /\ x[p] # y[p]
    BY <1>1, <1>7
  <2>2. Multiplies(f, n, x) /\ Multiplies(g, n, y) /\ x \in [1 .. n -> Digit] /\ y \in [1 .. n -> Digit]
    BY <1>3, <1>4, <1>5
  <2>3. AgreeBut(x, y, n, p, p)
    BY <1>8 DEF AgreeBut
  <2> HIDE DEF n, p, x, y
  <2> QED
    BY <2>1, <2>2, <2>3, OneApart
<1> QED
  BY <1>3, <1>4, <1>9 DEF Validate, wrong

\* A sequence of digits with one of them replaced.
LEMMA OneReplaced ==
  ASSUME NEW s \in Seq(Digit), NEW i \in 1 .. Len(s), NEW d \in Digit
  PROVE  /\ [s EXCEPT ![i] = d] \in Seq(Digit) /\ Len([s EXCEPT ![i] = d]) = Len(s)
         /\ [s EXCEPT ![i] = d][i] = d /\ \A j \in 1 .. Len(s) : j # i => [s EXCEPT ![i] = d][j] = s[j]
  OBVIOUS

\* Two neighbours that changed places are noticed.
LEMMA SwapFails ==
  ASSUME NEW whole \in Seq(Digit), Validate(whole), NEW i \in 1 .. Len(whole) - 1, whole[i] # whole[i + 1]
  PROVE  ~ Validate([whole EXCEPT ![i] = whole[i + 1], ![i + 1] = whole[i]])
<1> DEFINE n == Len(whole)
           wrong == [whole EXCEPT ![i] = whole[i + 1], ![i + 1] = whole[i]]
           p == n - i
           u == Moved(p - 1 + 0, whole[i + 1])
           v == Moved(p - 1 + 0, whole[i])
<1>1. /\ n \in Nat /\ i \in 1 .. n /\ i + 1 \in 1 .. n /\ p \in 1 .. n /\ p < n /\ p + 1 \in 1 .. n
      /\ n - p + 1 = i + 1 /\ n - (p + 1) + 1 = i /\ p - 1 + 0 \in Nat /\ (p - 1 + 0) + 1 = (p + 1) - 1 + 0
  OBVIOUS
<1>2. whole[i] \in Digit /\ whole[i + 1] \in Digit
  BY <1>1
<1>3. /\ wrong \in Seq(Digit) /\ Len(wrong) = n /\ wrong[i] = whole[i + 1] /\ wrong[i + 1] = whole[i]
      /\ \A j \in 1 .. n : j # i /\ j # i + 1 => wrong[j] = whole[j]
  <2> DEFINE first == [whole EXCEPT ![i] = whole[i + 1]]
  <2>1. first \in Seq(Digit) /\ Len(first) = n /\ first[i] = whole[i + 1] /\ \A j \in 1 .. n : j # i => first[j] = whole[j]
    <3> DEFINE d == whole[i + 1]
    <3>1. first = [whole EXCEPT ![i] = d] /\ i \in 1 .. Len(whole) /\ d \in Digit /\ whole \in Seq(Digit)
      BY <1>1, <1>2
    <3> HIDE DEF d
    <3>2. /\ [whole EXCEPT ![i] = d] \in Seq(Digit) /\ Len([whole EXCEPT ![i] = d]) = Len(whole)
          /\ [whole EXCEPT ![i] = d][i] = d /\ \A j \in 1 .. Len(whole) : j # i => [whole EXCEPT ![i] = d][j] = whole[j]
      BY <3>1, OneReplaced
    <3> HIDE DEF first
    <3> QED
      BY <3>1, <3>2 DEF d
  <2>2. wrong = [first EXCEPT ![i + 1] = whole[i]]
    OBVIOUS
  <2> HIDE DEF first, wrong
  <2>3. i + 1 \in 1 .. Len(first)
    BY <1>1, <2>1
  <2>4. /\ wrong \in Seq(Digit) /\ Len(wrong) = Len(first) /\ wrong[i + 1] = whole[i]
        /\ \A j \in 1 .. Len(first) : j # i + 1 => wrong[j] = first[j]
    BY <1>2, <2>1, <2>2, <2>3, OneReplaced
  <2>5. i # i + 1
    BY <1>1
  <2> QED
    BY <1>1, <2>1, <2>4, <2>5
<1> HIDE DEF wrong
<1>4. PICK f : Multiplies(f, n, Factors(whole, 0)) /\ Product(whole, 0) = f[n]
  BY ProductIs
<1>5. PICK g : Multiplies(g, n, Factors(wrong, 0)) /\ Product(wrong, 0) = g[n]
  BY <1>3, ProductIs
<1>6. Factors(whole, 0) \in [1 .. n -> Digit] /\ Factors(wrong, 0) \in [1 .. n -> Digit]
  BY <1>3, FactorsAreDigits
<1>7. \A k \in 1 .. n : /\ Factors(whole, 0)[k] = Moved(k - 1 + 0, whole[n - k + 1])
                        /\ Factors(wrong, 0)[k] = Moved(k - 1 + 0, wrong[n - k + 1])
  BY <1>3 DEF Factors
<1>8. u \in Digit /\ v \in Digit /\ u # v
  <2> DEFINE k == p - 1 + 0
  <2>1. k \in Nat
    BY <1>1
  <2> HIDE DEF k
  <2>2. Moved(k, whole[i + 1]) \in Digit /\ Moved(k, whole[i]) \in Digit
    BY <1>2, <2>1, ShiftsOn
  <2>3. Moved(k, whole[i + 1]) # Moved(k, whole[i])
    BY <1>2, <2>1, MovedTells
  <2> QED
    BY <2>2, <2>3 DEF k
<1>9. /\ Factors(whole, 0)[p] = u /\ Factors(whole, 0)[p + 1] = Shift(v)
      /\ Factors(wrong, 0)[p] = v /\ Factors(wrong, 0)[p + 1] = Shift(u)
  <2>1. Moved((p + 1) - 1 + 0, whole[i]) = Shift(v) /\ Moved((p + 1) - 1 + 0, whole[i + 1]) = Shift(u)
    <3> HIDE DEF p
    <3> QED
      BY <1>1, <1>2, ShiftsOn
  <2>2. Factors(whole, 0)[p] = Moved(p - 1 + 0, whole[i + 1]) /\ Factors(wrong, 0)[p] = Moved(p - 1 + 0, wrong[i + 1])
    <3> HIDE DEF p
    <3> QED
      BY <1>1, <1>7
  <2>3. /\ Factors(whole, 0)[p + 1] = Moved((p + 1) - 1 + 0, whole[i])
        /\ Factors(wrong, 0)[p + 1] = Moved((p + 1) - 1 + 0, wrong[i])
    <3> HIDE DEF p
    <3> QED
      BY <1>1, <1>7
  <2> QED
    BY <1>3, <2>1, <2>2, <2>3
<1> HIDE DEF u, v
<1>10. Turn(Factors(whole, 0)[p], Factors(whole, 0)[p + 1]) # Turn(Factors(wrong, 0)[p], Factors(wrong, 0)[p + 1])
  BY <1>8, <1>9, ShiftTells
<1>11. \A k \in 1 .. n : k # p /\ k # p + 1 => Factors(whole, 0)[k] = Factors(wrong, 0)[k]
  <2>1. ASSUME NEW k \in 1 .. n, k # p, k # p + 1 PROVE Factors(whole, 0)[k] = Factors(wrong, 0)[k]
    <3>1. n - k + 1 \in 1 .. n /\ n - k + 1 # i /\ n - k + 1 # i + 1
      BY <1>1, <2>1
    <3> QED
      BY <1>3, <1>7, <3>1
  <2> QED
    BY <2>1
<1>12. f[n] # g[n]
  <2> DEFINE x == Factors(whole, 0)
             y == Factors(wrong, 0)
             q == p + 1
  <2>1. n \in Nat /\ p \in 1 .. n /\ p < n /\ q = p + 1
    BY <1>1
  <2>2. Multiplies(f, n, x) /\ Multiplies(g, n, y) /\ x \in [1 .. n -> Digit] /\ y \in [1 .. n -> Digit]
    BY <1>4, <1>5, <1>6
  <2>3. Turn(x[p], x[q]) # Turn(y[p], y[q])
    BY <1>10
  <2>4. AgreeBut(x, y, n, p, q)
    BY <1>11 DEF AgreeBut
  <2> HIDE DEF n, p, q, x, y
  <2> QED
    BY <2>1, <2>2, <2>3, <2>4, TwoApart
<1> QED
  BY <1>4, <1>5, <1>12 DEF Validate, wrong

\* The check digit of a number of any length: the number with it passes, with one
\* wrong digit or two neighbours swapped it does not.
THEOREM CheckDigitWorks ==
  ASSUME number \in Seq(Digit)
  PROVE  CheckDigitCatchesErrors
<1> DEFINE whole == number \o <<CheckDigit(number)>>
<1>1. whole \in Seq(Digit) /\ Validate(whole)
  <2>1. CheckDigit(number) \in Digit
    BY CheckedPasses
  <2> QED
    BY <2>1, CheckedPasses
<1> HIDE DEF whole
<1>2. \A i \in DOMAIN whole, d \in Digit : d # whole[i] => ~ Validate([whole EXCEPT ![i] = d])
  BY <1>1, WrongDigitFails
<1>3. \A i \in 1 .. Len(whole) - 1 : whole[i] # whole[i + 1] =>
        ~ Validate([whole EXCEPT ![i] = whole[i + 1], ![i + 1] = whole[i]])
  BY <1>1, SwapFails
<1> QED
  BY <1>1, <1>2, <1>3 DEF CheckDigitCatchesErrors, whole, Digit

-----------------------------------------------------------------------------
(* Numbers written and read. *)

\* The bases numbers are written in.
Base == {10, 16}

\* What division by a base leaves.
LEMMA DivMod ==
  ASSUME NEW m \in Nat, NEW base \in Base
  PROVE  /\ m % base \in 0 .. base - 1 /\ m \div base \in Nat
         /\ m >= base => m \div base \in 0 .. m - 1
<1>1. CASE base = 10
  BY <1>1
<1>2. CASE base = 16
  BY <1>2
<1> QED
  BY <1>1, <1>2 DEF Base

\* f[m] is m in the base.
Writes(f, n, base) ==
  f = [m \in 0 .. n |-> IF m < base THEN <<m>> ELSE Append(f[m \div base], m % base)]

\* There is such a function.
LEMMA WritesExists ==
  ASSUME NEW n \in Nat, NEW base \in Base
  PROVE  \E f : Writes(f, n, base)
<1> DEFINE T == {m \in 0 .. n : \E f : Writes(f, m, base)}
<1>1. 0 \in T
  <2> DEFINE f == [m \in 0 .. 0 |-> <<m>>]
  <2>1. 0 < base
    BY DEF Base
  <2>2. \A m \in 0 .. 0 : m < base
    BY <2>1
  <2>3. f = [m \in 0 .. 0 |-> IF m < base THEN <<m>> ELSE Append(f[m \div base], m % base)]
    BY <2>2, Zenon
  <2>4. 0 \in 0 .. n
    OBVIOUS
  <2> QED
    BY <2>3, <2>4 DEF Writes
<1>2. ASSUME NEW m \in 1 .. n, m - 1 \in T PROVE m \in T
  <2>1. PICK f : Writes(f, m - 1, base)
    BY <1>2
  <2> DEFINE new == IF m < base THEN <<m>> ELSE Append(f[m \div base], m % base)
             g == [k \in 0 .. m |-> IF k = m THEN new ELSE f[k]]
  <2>2. \A k \in 0 .. m - 1 : f[k] = IF k < base THEN <<k>> ELSE Append(f[k \div base], k % base)
    BY <2>1 DEF Writes
  <2>3. ASSUME NEW k \in 0 .. m PROVE g[k] = IF k < base THEN <<k>> ELSE Append(g[k \div base], k % base)
    <3>1. CASE k < base
      <4>1. k = m => new = <<k>>
        BY <3>1
      <4>2. k # m => k \in 0 .. m - 1
        OBVIOUS
      <4> HIDE DEF new
      <4> QED
        BY <2>2, <3>1, <4>1, <4>2
    <3>2. CASE ~ (k < base)
      <4>1. k \div base \in 0 .. k - 1
        BY <3>2, DivMod DEF Base
      <4>2. g[k \div base] = f[k \div base]
        BY <4>1
      <4>3. k = m => new = Append(f[k \div base], k % base)
        BY <3>2
      <4>4. k # m => k \in 0 .. m - 1
        OBVIOUS
      <4>5. g[k] = Append(f[k \div base], k % base)
        <5> HIDE DEF new
        <5> QED
          BY <2>2, <3>2, <4>3, <4>4
      <4> HIDE DEF g
      <4> QED
        BY <3>2, <4>2, <4>5
    <3> QED
      BY <3>1, <3>2
  <2>4. Writes(g, m, base)
    <3>1. g = [k \in 0 .. m |-> g[k]]
      OBVIOUS
    <3> HIDE DEF g
    <3> QED
      BY <2>3, <3>1 DEF Writes
  <2>5. m \in 0 .. n
    OBVIOUS
  <2> QED
    BY <2>4, <2>5
<1> HIDE DEF T
<1>3. \A m \in 0 .. n : m \in T
  BY <1>1, <1>2, SetInduction
<1> QED
  BY <1>3 DEF T

\* What Digits writes: f[n], after some zeros.
LEMMA DigitsAre ==
  ASSUME NEW n \in Nat, NEW base \in Base, NEW width
  PROVE  \E f : /\ Writes(f, n, base)
                /\ Digits(n, base, width) =
                     [i \in 1 .. (IF Len(f[n]) < width THEN width - Len(f[n]) ELSE 0) |-> 0] \o f[n]
<1> DEFINE text == CHOOSE f : Writes(f, n, base)
<1>1. Writes(text, n, base)
  BY WritesExists
<1>2. Digits(n, base, width) =
        [i \in 1 .. (IF Len(text[n]) < width THEN width - Len(text[n]) ELSE 0) |-> 0] \o text[n]
  BY DEF Digits, Writes
<1> QED
  BY <1>1, <1>2

\* Its digits are digits of the base, and at least one.
LEMMA WritesDigits ==
  ASSUME NEW n \in Nat, NEW base \in Base, NEW f, Writes(f, n, base), NEW m \in 0 .. n
  PROVE  f[m] \in Seq(0 .. base - 1) /\ f[m] # <<>>
<1> DEFINE T == {k \in 0 .. n : f[k] \in Seq(0 .. base - 1) /\ f[k] # <<>>}
<1>1. ASSUME NEW k \in 0 .. n, \A i \in 0 .. k - 1 : i \in T PROVE k \in T
  <2>1. f[k] = IF k < base THEN <<k>> ELSE Append(f[k \div base], k % base)
    BY DEF Writes
  <2>2. CASE k < base
    <3>1. k \in 0 .. base - 1
      BY <2>2 DEF Base
    <3>2. f[k] = <<k>>
      BY <2>1, <2>2
    <3>3. \A S : \A i \in S : <<i>> \in Seq(S) /\ <<i>> # <<>>
      OBVIOUS
    <3>4. f[k] \in Seq(0 .. base - 1) /\ f[k] # <<>>
      BY <3>1, <3>2, <3>3
    <3> QED
      BY <3>4
  <2>3. CASE ~ (k < base)
    <3>1. k \div base \in 0 .. k - 1 /\ k % base \in 0 .. base - 1
      BY <2>3, DivMod DEF Base
    <3> DEFINE s == f[k \div base]
    <3>2. s \in Seq(0 .. base - 1)
      BY <1>1, <3>1
    <3>3. f[k] = Append(s, k % base)
      BY <2>1, <2>3
    <3> HIDE DEF s
    <3>4. Append(s, k % base) \in Seq(0 .. base - 1) /\ Append(s, k % base) # <<>>
      <4> DEFINE d == k % base
      <4>1. s \in Seq(0 .. base - 1) /\ d \in 0 .. base - 1
        BY <3>1, <3>2
      <4> HIDE DEF d
      <4>2. Append(s, d) \in Seq(0 .. base - 1)
        BY <4>1
      <4>3. Len(Append(s, d)) = Len(s) + 1 /\ Len(s) \in Nat
        BY <4>1
      <4>4. Append(s, d) # <<>>
        <5>1. \A x : x = <<>> => Len(x) = 0
          OBVIOUS
        <5>2. Len(Append(s, d)) # 0
          BY <4>3
        <5> QED
          BY <5>1, <5>2, Zenon
      <4> QED
        BY <4>2, <4>4 DEF d
    <3>5. f[k] \in Seq(0 .. base - 1) /\ f[k] # <<>>
      BY <3>3, <3>4
    <3> QED
      BY <3>5
  <2> QED
    BY <2>2, <2>3
<1> HIDE DEF T
<1>2. m \in T
  BY <1>1, StrongInduction
<1> QED
  BY <1>2 DEF T

\* u[k] is the number of the first k hex digits.
Reads(u, s) == u \in [0 .. Len(s) -> Nat] /\ u[0] = 0 /\ \A k \in 1 .. Len(s) : u[k] = u[k - 1] * 16 + s[k]

\* NumberOf is the last of the numbers of the first digits.
LEMMA NumberIs ==
  ASSUME NEW s \in Seq(Nat)
  PROVE  \E u : Reads(u, s) /\ NumberOf(s, 16) = u[Len(s)]
<1> DEFINE n == Len(s)
           Body(u) == [k \in 0 .. n |-> IF k = 0 THEN 0 ELSE u[k - 1] * 16 + s[k]]
           upTo == CHOOSE u : u = Body(u)
           round == [i \in 1 .. n |-> [v \in Nat |-> v * 16 + s[i]]]
<1>1. n \in Nat /\ \A i \in 1 .. n : s[i] \in Nat
  OBVIOUS
<1>2. NumberOf(s, 16) = upTo[n]
  BY DEF NumberOf
<1> HIDE DEF n
<1>3. round \in [1 .. n -> [Nat -> Nat]]
  BY <1>1
<1>4. PICK u : u \in [0 .. n -> Nat] /\ u[0] = 0 /\ \A k \in 1 .. n : u[k] = u[k - 1] * 16 + s[k]
  <2>1. PICK u : LoopRuns(u, n, Nat, 0, round)
    <3> HIDE DEF round
    <3> QED
      BY <1>1, <1>3, Loop
  <2>2. u \in [0 .. n -> Nat] /\ u[0] = 0 /\ \A i \in 1 .. n : u[i] = round[i][u[i - 1]]
    BY <2>1 DEF LoopRuns
  <2>3. ASSUME NEW i \in 1 .. n PROVE u[i] = u[i - 1] * 16 + s[i]
    <3>1. i - 1 \in 0 .. n
      BY <1>1
    <3>2. u[i - 1] \in Nat
      BY <2>2, <3>1
    <3> QED
      BY <2>2, <3>2
  <2> QED
    BY <2>2, <2>3
<1>5. u = Body(u)
  <2>1. \A k \in 0 .. n : k = 0 \/ k \in 1 .. n
    BY <1>1
  <2>2. \A k \in 0 .. n : u[k] = IF k = 0 THEN 0 ELSE u[k - 1] * 16 + s[k]
    BY <1>4, <2>1
  <2> QED
    BY <1>4, <2>2
<1>6. upTo = Body(upTo)
  <2> HIDE DEF Body
  <2> QED
    BY <1>5
<1> HIDE DEF upTo
<1> DEFINE T == {k \in 0 .. n : upTo[k] = u[k]}
<1>7. 0 \in T
  <2>1. 0 \in 0 .. n
    BY <1>1
  <2>2. upTo[0] = 0
    BY <1>6, <2>1
  <2> QED
    BY <1>4, <2>1, <2>2
<1>8. ASSUME NEW k \in 1 .. n, k - 1 \in T PROVE k \in T
  <2>1. k \in 0 .. n /\ k # 0
    BY <1>1
  <2>2. upTo[k] = upTo[k - 1] * 16 + s[k]
    BY <1>6, <2>1
  <2>3. upTo[k - 1] = u[k - 1]
    BY <1>8
  <2> QED
    BY <1>4, <2>1, <2>2, <2>3
<1> HIDE DEF T
<1>9. \A k \in 0 .. n : k \in T
  BY <1>1, <1>7, <1>8, SetInduction
<1>10. upTo[n] = u[n]
  <2>1. n \in 0 .. n
    BY <1>1
  <2> QED
    BY <1>9, <2>1 DEF T
<1> QED
  BY <1>2, <1>4, <1>10 DEF n, Reads

\* One digit more.
LEMMA NumberOfMore ==
  /\ NumberOf(<<>>, 16) = 0
  /\ \A s \in Seq(Nat), d \in Nat :
       NumberOf(s, 16) \in Nat /\ NumberOf(Append(s, d), 16) = NumberOf(s, 16) * 16 + d
<1>1. NumberOf(<<>>, 16) = 0
  <2>1. <<>> \in Seq(Nat) /\ Len(<<>>) = 0
    OBVIOUS
  <2>2. PICK u : Reads(u, <<>>) /\ NumberOf(<<>>, 16) = u[Len(<<>>)]
    BY <2>1, NumberIs
  <2> QED
    BY <2>1, <2>2 DEF Reads
<1>2. ASSUME NEW s \in Seq(Nat), NEW d \in Nat
      PROVE  NumberOf(s, 16) \in Nat /\ NumberOf(Append(s, d), 16) = NumberOf(s, 16) * 16 + d
  <2> DEFINE n == Len(s)
             t == Append(s, d)
  <2>1. n \in Nat /\ t \in Seq(Nat) /\ Len(t) = n + 1 /\ t[n + 1] = d /\ \A k \in 1 .. n : t[k] = s[k]
    OBVIOUS
  <2>2. PICK u : Reads(u, s) /\ NumberOf(s, 16) = u[n]
    BY NumberIs
  <2> HIDE DEF t
  <2>3. PICK v : Reads(v, t) /\ NumberOf(t, 16) = v[n + 1]
    BY <2>1, NumberIs
  <2>4. u \in [0 .. n -> Nat] /\ u[0] = 0 /\ \A k \in 1 .. n : u[k] = u[k - 1] * 16 + s[k]
    BY <2>2 DEF Reads
  <2> HIDE DEF n
  <2>5. v[0] = 0 /\ \A k \in 1 .. n + 1 : v[k] = v[k - 1] * 16 + t[k]
    BY <2>1, <2>3 DEF Reads
  <2> DEFINE T == {k \in 0 .. n : v[k] = u[k]}
  <2>6. 0 \in T
    BY <2>1, <2>4, <2>5
  <2>7. ASSUME NEW k \in 1 .. n, k - 1 \in T PROVE k \in T
    <3>1. k \in 0 .. n /\ k \in 1 .. n + 1
      BY <2>1
    <3>2. v[k] = v[k - 1] * 16 + t[k] /\ u[k] = u[k - 1] * 16 + s[k] /\ t[k] = s[k]
      BY <2>1, <2>4, <2>5, <3>1
    <3>3. v[k - 1] = u[k - 1]
      BY <2>7
    <3> QED
      BY <3>1, <3>2, <3>3
  <2> HIDE DEF T
  <2>8. \A k \in 0 .. n : k \in T
    BY <2>1, <2>6, <2>7, SetInduction
  <2>9. n \in 0 .. n /\ n + 1 \in 1 .. n + 1 /\ (n + 1) - 1 = n
    BY <2>1
  <2>10. v[n] = u[n] /\ u[n] \in Nat
    BY <2>4, <2>8, <2>9 DEF T
  <2>11. v[n + 1] = v[n] * 16 + t[n + 1]
    BY <2>5, <2>9
  <2> QED
    BY <2>1, <2>2, <2>3, <2>10, <2>11 DEF t
<1> QED
  BY <1>1, <1>2

\* The largest number of so many hex digits.
LEMMA LargestIs ==
  /\ Largest(0) = 0
  /\ \A w \in Nat : Largest(w) \in Nat /\ Largest(w + 1) = 16 * Largest(w) + 15
<1> DEFINE effs(w) == [i \in 1 .. w |-> 15]
<1>1. effs(0) = <<>>
  OBVIOUS
<1>2. ASSUME NEW w \in Nat PROVE effs(w) \in Seq(Nat) /\ effs(w + 1) = Append(effs(w), 15)
  OBVIOUS
<1>3. \A w : Largest(w) = NumberOf(effs(w), 16)
  BY DEF Largest
<1> HIDE DEF effs
<1>4. Largest(0) = 0
  BY <1>1, <1>3, NumberOfMore
<1>5. ASSUME NEW w \in Nat PROVE Largest(w) \in Nat /\ Largest(w + 1) = 16 * Largest(w) + 15
  <2>1. NumberOf(effs(w), 16) \in Nat /\ NumberOf(Append(effs(w), 15), 16) = NumberOf(effs(w), 16) * 16 + 15
    <3> DEFINE x == effs(w)
    <3>1. x \in Seq(Nat) /\ 15 \in Nat
      BY <1>2
    <3> HIDE DEF x
    <3>2. NumberOf(x, 16) \in Nat /\ NumberOf(Append(x, 15), 16) = NumberOf(x, 16) * 16 + 15
      BY <3>1, NumberOfMore
    <3> QED
      BY <3>2 DEF x
  <2>2. effs(w + 1) = Append(effs(w), 15)
    BY <1>2
  <2> QED
    <3>1. Largest(w) = NumberOf(effs(w), 16) /\ Largest(w + 1) = NumberOf(Append(effs(w), 15), 16)
      BY <1>3, <2>2
    <3> QED
      BY <2>1, <3>1
<1> QED
  BY <1>4, <1>5

\* A number that was padded with zeros is the same number.
LEMMA ZerosRead ==
  ASSUME NEW p \in Nat
  PROVE  [i \in 1 .. p |-> 0] \in Seq(Nat) /\ NumberOf([i \in 1 .. p |-> 0], 16) = 0
<1> DEFINE z(k) == [i \in 1 .. k |-> 0]
           T == {k \in 0 .. p : NumberOf(z(k), 16) = 0}
<1>1. z(0) = <<>> /\ 0 \in 0 .. p
  OBVIOUS
<1>2. ASSUME NEW k \in Nat PROVE z(k) \in Seq(Nat) /\ z(k + 1) = Append(z(k), 0)
  OBVIOUS
<1> HIDE DEF z
<1>3. 0 \in T
  BY <1>1, NumberOfMore
<1>4. ASSUME NEW k \in 1 .. p, k - 1 \in T PROVE k \in T
  <2> DEFINE y == z(k - 1)
  <2>1. k - 1 \in Nat /\ (k - 1) + 1 = k /\ k \in 0 .. p
    OBVIOUS
  <2>2. y \in Seq(Nat) /\ z(k) = Append(y, 0) /\ NumberOf(y, 16) = 0
    BY <1>2, <1>4, <2>1
  <2> HIDE DEF y
  <2>3. NumberOf(Append(y, 0), 16) = NumberOf(y, 16) * 16 + 0
    BY <2>2, NumberOfMore
  <2>4. NumberOf(z(k), 16) = 0
    BY <2>2, <2>3
  <2> QED
    BY <2>1, <2>4
<1> HIDE DEF T
<1>5. p \in T
  <2>1. p \in 0 .. p /\ \A k \in 0 .. p : k \in T
    BY <1>3, <1>4, SetInduction
  <2> QED
    BY <2>1
<1> QED
  BY <1>2, <1>5 DEF T, z

\* What was written in hex reads as the number it was.
LEMMA WrittenReads ==
  ASSUME NEW n \in Nat, NEW f, Writes(f, n, 16), NEW z \in Seq(Nat), NumberOf(z, 16) = 0
  PROVE  NumberOf(z \o f[n], 16) = n
<1> DEFINE T == {m \in 0 .. n : NumberOf(z \o f[m], 16) = m}
<1>1. ASSUME NEW m \in 0 .. n, \A k \in 0 .. m - 1 : k \in T PROVE m \in T
  <2>1. f[m] = IF m < 16 THEN <<m>> ELSE Append(f[m \div 16], m % 16)
    BY DEF Writes
  <2>2. CASE m < 16
    <3>1. z \o <<m>> = Append(z, m) /\ m \in Nat
      OBVIOUS
    <3>2. NumberOf(Append(z, m), 16) = NumberOf(z, 16) * 16 + m
      BY <3>1, NumberOfMore
    <3>3. f[m] = <<m>>
      BY <2>1, <2>2
    <3>4. z \o f[m] = Append(z, m)
      BY <3>1, <3>3
    <3>5. NumberOf(z \o f[m], 16) = m
      BY <3>1, <3>2, <3>4
    <3> QED
      BY <3>5
  <2>3. CASE ~ (m < 16)
    <3> DEFINE q == m \div 16
               d == m % 16
               s == f[q]
    <3>1. q \in 0 .. m - 1 /\ q \in 0 .. n /\ d \in Nat /\ q * 16 + d = m
      BY <2>3
    <3>2. f[m] = Append(s, d)
      BY <2>1, <2>3
    <3> HIDE DEF q, d
    <3>3. s \in Seq(0 .. 16 - 1)
      BY <3>1, WritesDigits DEF Base
    <3>4. NumberOf(z \o s, 16) = q
      BY <1>1, <3>1
    <3> HIDE DEF s
    <3>5. z \o s \in Seq(Nat) /\ z \o Append(s, d) = Append(z \o s, d)
      <4>1. s \in Seq(Nat)
        <5>1. \A S, R : S \subseteq R => \A u \in Seq(S) : u \in Seq(R)
          OBVIOUS
        <5>2. 0 .. 16 - 1 \subseteq Nat
          OBVIOUS
        <5> QED
          BY <3>3, <5>1, <5>2, Zenon
      <4> QED
        BY <3>1, <4>1
    <3>6. NumberOf(Append(z \o s, d), 16) = NumberOf(z \o s, 16) * 16 + d
      BY <3>1, <3>5, NumberOfMore
    <3>7. NumberOf(z \o f[m], 16) = m
      BY <3>1, <3>2, <3>4, <3>5, <3>6
    <3> QED
      BY <3>7
  <2> QED
    BY <2>2, <2>3
<1> HIDE DEF T
<1>2. n \in T
  <2>1. \A m \in 0 .. n : m \in T
    BY <1>1, StrongInduction
  <2>2. n \in 0 .. n
    OBVIOUS
  <2> QED
    BY <2>1, <2>2
<1> QED
  BY <1>2 DEF T

\* A number that is not too large has no more digits than the width.
LEMMA WrittenFits ==
  ASSUME NEW n \in Nat, NEW f, Writes(f, n, 16), NEW m \in 0 .. n, NEW w \in Nat \ {0}, m <= Largest(w)
  PROVE  Len(f[m]) <= w
<1> DEFINE T == {k \in 0 .. n : \A v \in Nat \ {0} : k <= Largest(v) => Len(f[k]) <= v}
<1>1. ASSUME NEW k \in 0 .. n, \A i \in 0 .. k - 1 : i \in T PROVE k \in T
  <2>1. f[k] = IF k < 16 THEN <<k>> ELSE Append(f[k \div 16], k % 16)
    BY DEF Writes
  <2>2. ASSUME NEW v \in Nat \ {0}, k <= Largest(v) PROVE Len(f[k]) <= v
    <3>1. CASE k < 16
      <4>1. f[k] = <<k>> /\ Len(<<k>>) = 1
        BY <2>1, <3>1
      <4> QED
        BY <4>1
    <3>2. CASE ~ (k < 16)
      <4> DEFINE q == k \div 16
                 d == k % 16
                 s == f[q]
                 u == v - 1
      <4>1. q \in 0 .. k - 1 /\ q \in 0 .. n /\ d \in Nat /\ d < 16 /\ q * 16 + d = k
        BY <3>2
      <4>2. f[k] = Append(s, d)
        BY <2>1, <3>2
      <4> HIDE DEF q, d
      <4>3. u \in Nat /\ u + 1 = v
        OBVIOUS
      <4> HIDE DEF u
      <4>4. Largest(u) \in Nat /\ Largest(v) = 16 * Largest(u) + 15
        BY <4>3, LargestIs
      <4>5. q <= Largest(u)
        BY <2>2, <4>1, <4>4
      <4>6. u # 0
        BY <3>2, <4>1, <4>4, <4>5, LargestIs
      <4>7. Len(s) <= u
        BY <1>1, <4>1, <4>3, <4>5, <4>6
      <4>8. s \in Seq(0 .. 16 - 1)
        BY <4>1, WritesDigits DEF Base
      <4> HIDE DEF s
      <4>9. Len(Append(s, d)) = Len(s) + 1 /\ Len(s) \in Nat
        BY <4>8
      <4> QED
        BY <4>2, <4>3, <4>7, <4>9
    <3> QED
      BY <3>1, <3>2
  <2> QED
    BY <2>2
<1> HIDE DEF T
<1>2. m \in T
  BY <1>1, StrongInduction
<1> QED
  BY <1>2 DEF T

\* A number in a base: digits of the base; the number, when it is read; the width,
\* when it fits.
LEMMA DigitsBack ==
  ASSUME NEW n \in Nat, NEW width \in Nat \ {0}
  PROVE  /\ Digits(n, 10, width) \in Seq(Digit)
         /\ Digits(n, 16, width) \in Seq(0 .. 15) /\ NumberOf(Digits(n, 16, width), 16) = n
         /\ n <= Largest(width) => Len(Digits(n, 16, width)) = width
<1> DEFINE zeros(f) == [i \in 1 .. (IF Len(f[n]) < width THEN width - Len(f[n]) ELSE 0) |-> 0]
<1>1. \A base \in Base : \E f : Writes(f, n, base) /\ Digits(n, base, width) = zeros(f) \o f[n]
  <2>1. ASSUME NEW base \in Base PROVE \E f : Writes(f, n, base) /\ Digits(n, base, width) = zeros(f) \o f[n]
    BY DigitsAre
  <2> QED
    BY <2>1
<1>2. \A f : Len(f[n]) \in Nat =>
        \E p \in Nat : zeros(f) = [i \in 1 .. p |-> 0] /\ p = IF Len(f[n]) < width THEN width - Len(f[n]) ELSE 0
  <2>1. ASSUME NEW f, Len(f[n]) \in Nat
        PROVE  \E p \in Nat : zeros(f) = [i \in 1 .. p |-> 0] /\ p = IF Len(f[n]) < width THEN width - Len(f[n]) ELSE 0
    <3>1. (IF Len(f[n]) < width THEN width - Len(f[n]) ELSE 0) \in Nat
      BY <2>1
    <3> QED
      BY <3>1
  <2> QED
    BY <2>1
<1> HIDE DEF zeros
<1>3. n \in 0 .. n
  OBVIOUS
<1>4. Digits(n, 10, width) \in Seq(Digit)
  <2>1. PICK f : Writes(f, n, 10) /\ Digits(n, 10, width) = zeros(f) \o f[n]
    BY <1>1 DEF Base
  <2>2. f[n] \in Seq(0 .. 10 - 1)
    BY <1>3, <2>1, WritesDigits DEF Base
  <2> DEFINE s == f[n]
  <2>3. s \in Seq(Digit) /\ Len(s) \in Nat
    BY <2>2 DEF Digit
  <2>4. PICK p \in Nat : zeros(f) = [i \in 1 .. p |-> 0]
    BY <1>2, <2>3
  <2>5. [i \in 1 .. p |-> 0] \in Seq(Digit)
    BY DEF Digit
  <2> HIDE DEF s
  <2>6. [i \in 1 .. p |-> 0] \o s \in Seq(Digit)
    BY <2>3, <2>5
  <2> QED
    BY <2>1, <2>4, <2>6 DEF s
<1>5. /\ Digits(n, 16, width) \in Seq(0 .. 15) /\ NumberOf(Digits(n, 16, width), 16) = n
      /\ n <= Largest(width) => Len(Digits(n, 16, width)) = width
  <2>1. PICK f : Writes(f, n, 16) /\ Digits(n, 16, width) = zeros(f) \o f[n]
    BY <1>1 DEF Base
  <2>2. f[n] \in Seq(0 .. 16 - 1) /\ f[n] # <<>>
    BY <1>3, <2>1, WritesDigits DEF Base
  <2>3. n <= Largest(width) => Len(f[n]) <= width
    BY <1>3, <2>1, WrittenFits
  <2> DEFINE s == f[n]
  <2>4. s \in Seq(0 .. 15) /\ Len(s) \in Nat
    BY <2>2
  <2>5. PICK p \in Nat : zeros(f) = [i \in 1 .. p |-> 0] /\ p = IF Len(f[n]) < width THEN width - Len(f[n]) ELSE 0
    BY <1>2, <2>4
  <2> DEFINE z == [i \in 1 .. p |-> 0]
  <2>6. z \in Seq(0 .. 15) /\ Len(z) = p
    OBVIOUS
  <2>7. z \in Seq(Nat) /\ NumberOf(z, 16) = 0
    BY ZerosRead
  <2> HIDE DEF z
  <2>8. NumberOf(z \o f[n], 16) = n
    BY <2>1, <2>7, WrittenReads
  <2>9. Digits(n, 16, width) = z \o s
    BY <2>1, <2>5 DEF z
  <2> HIDE DEF s
  <2>10. z \o s \in Seq(0 .. 15) /\ Len(z \o s) = p + Len(s)
    BY <2>4, <2>6
  <2>11. n <= Largest(width) => p + Len(s) = width
    <3> DEFINE l == Len(f[n])
    <3>1. p = (IF l < width THEN width - l ELSE 0) /\ l \in Nat /\ (n <= Largest(width) => l <= width) /\ Len(s) = l
      BY <2>3, <2>4, <2>5 DEF s
    <3> HIDE DEF l
    <3> QED
      BY <3>1
  <2> QED
    BY <2>8, <2>9, <2>10, <2>11 DEF s
<1> QED
  BY <1>4, <1>5

\* A text of one character.
LEMMA Single ==
  ASSUME NEW S, NEW d \in S
  PROVE  <<d>> \in Seq(S) /\ Len(<<d>>) = 1 /\ <<d>>[1] = d
  OBVIOUS

\* The control text is digits.
LEMMA ControlIsDigits ==
  ASSUME NEW memory \in Seq(Numerals \cup Letters), NEW day \in Nat, NEW serial \in Nat
  PROVE  ControlText(memory, day, serial) \in Seq(Digit)
<1> DEFINE n == Len(memory)
           piece == [i \in 1 .. n |-> IF memory[i] \in Numerals THEN <<memory[i] - 48>> ELSE Digits(memory[i], 10, 1)]
           Body(f) == [k \in 0 .. n |-> IF k = 0 THEN <<>>
                         ELSE f[k - 1] \o (IF memory[k] \in Numerals THEN <<memory[k] - 48>> ELSE Digits(memory[k], 10, 1))]
           text == CHOOSE f : f = Body(f)
           round == [i \in 1 .. n |-> [v \in Seq(Digit) |-> v \o piece[i]]]
<1>1. n \in Nat /\ <<>> \in Seq(Digit)
  OBVIOUS
<1>2. Decimalise(memory) = text[n]
  BY DEF Decimalise
<1>3. \A i \in 1 .. n : piece[i] \in Seq(Digit)
  <2>1. ASSUME NEW i \in 1 .. n PROVE piece[i] \in Seq(Digit)
    <3>1. memory[i] \in Numerals \cup Letters
      OBVIOUS
    <3>2. CASE memory[i] \in Numerals
      <4> DEFINE c == memory[i] - 48
      <4>1. c \in Digit
        BY <3>2 DEF Numerals, Digit
      <4>2. piece[i] = <<c>>
        BY <3>2
      <4> HIDE DEF piece, c
      <4>3. <<c>> \in Seq(Digit)
        BY <4>1, Single
      <4> QED
        BY <4>2, <4>3
    <3>3. CASE memory[i] \notin Numerals
      <4>0. \A c \in Numerals \cup Letters : c \in Nat
        BY DEF Numerals, Letters
      <4>1. memory[i] \in Nat /\ 1 \in Nat \ {0}
        BY <3>1, <4>0
      <4>2. Digits(memory[i], 10, 1) \in Seq(Digit)
        BY <4>1, DigitsBack
      <4> QED
        BY <3>3, <4>2
    <3> QED
      BY <3>2, <3>3
  <2> QED
    BY <2>1
<1>4. \A k \in 1 .. n : piece[k] = IF memory[k] \in Numerals THEN <<memory[k] - 48>> ELSE Digits(memory[k], 10, 1)
  OBVIOUS
<1> HIDE DEF n, piece
<1>5. round \in [1 .. n -> [Seq(Digit) -> Seq(Digit)]]
  <2>1. ASSUME NEW i \in 1 .. n, NEW v \in Seq(Digit) PROVE v \o piece[i] \in Seq(Digit)
    BY <1>3
  <2> QED
    BY <2>1
<1>6. PICK f : f \in [0 .. n -> Seq(Digit)] /\ f[0] = <<>> /\ \A k \in 1 .. n : f[k] = f[k - 1] \o piece[k]
  <2>1. PICK f : LoopRuns(f, n, Seq(Digit), <<>>, round)
    <3> HIDE DEF round
    <3> QED
      BY <1>1, <1>5, Loop
  <2>2. f \in [0 .. n -> Seq(Digit)] /\ f[0] = <<>> /\ \A i \in 1 .. n : f[i] = round[i][f[i - 1]]
    BY <2>1 DEF LoopRuns
  <2>3. ASSUME NEW i \in 1 .. n PROVE f[i] = f[i - 1] \o piece[i]
    <3>1. i - 1 \in 0 .. n
      BY <1>1
    <3>2. f[i - 1] \in Seq(Digit)
      BY <2>2, <3>1
    <3> QED
      BY <2>2, <3>2
  <2> QED
    BY <2>2, <2>3
<1>7. f = Body(f)
  <2>1. \A k \in 0 .. n : k = 0 \/ k \in 1 .. n
    BY <1>1
  <2>2. \A k \in 0 .. n : f[k] = IF k = 0 THEN <<>>
          ELSE f[k - 1] \o (IF memory[k] \in Numerals THEN <<memory[k] - 48>> ELSE Digits(memory[k], 10, 1))
    BY <1>4, <1>6, <2>1
  <2> QED
    BY <1>6, <2>2
<1>8. text = Body(text)
  <2> HIDE DEF Body
  <2> QED
    BY <1>7
<1> HIDE DEF text
<1> DEFINE T == {k \in 0 .. n : text[k] \in Seq(Digit)}
<1>9. 0 \in T
  <2>1. 0 \in 0 .. n
    BY <1>1
  <2>2. text[0] = <<>>
    BY <1>8, <2>1
  <2> QED
    BY <1>1, <2>1, <2>2
<1>10. ASSUME NEW k \in 1 .. n, k - 1 \in T PROVE k \in T
  <2>1. k \in 0 .. n /\ k # 0
    BY <1>1
  <2>2. text[k] = text[k - 1] \o piece[k]
    BY <1>4, <1>8, <2>1
  <2>3. text[k - 1] \o piece[k] \in Seq(Digit)
    BY <1>3, <1>10
  <2> QED
    BY <2>1, <2>2, <2>3
<1> HIDE DEF T
<1>11. text[n] \in Seq(Digit)
  <2>1. \A k \in 0 .. n : k \in T
    BY <1>1, <1>9, <1>10, SetInduction
  <2>2. n \in 0 .. n
    BY <1>1
  <2> QED
    BY <2>1, <2>2 DEF T
<1>12. Digits(day, 10, 6) \in Seq(Digit) /\ Digits(serial, 10, 12) \in Seq(Digit)
  <2>1. 6 \in Nat \ {0} /\ 12 \in Nat \ {0}
    OBVIOUS
  <2> QED
    BY <2>1, DigitsBack
<1>13. Decimalise(memory) \in Seq(Digit)
  BY <1>2, <1>11
<1> QED
  BY <1>12, <1>13 DEF ControlText

\* The characters of a tax id.
Raised == Numerals \cup (65 .. 90)

\* What is upper case already stays so.
LEMMA RaisedStays ==
  ASSUME NEW s \in Seq(Raised)
  PROVE  Upper(s) = s
<1>1. DOMAIN s = 1 .. Len(s) /\ \A i \in DOMAIN s : s[i] \in Raised
  OBVIOUS
<1>2. \A c \in Raised : c \notin 97 .. 122
  BY DEF Raised, Numerals
<1>3. \A i \in DOMAIN s : (IF s[i] \in 97 .. 122 THEN s[i] - 32 ELSE s[i]) = s[i]
  BY <1>1, <1>2
<1>4. s = [i \in DOMAIN s |-> s[i]]
  OBVIOUS
<1> QED
  BY <1>3, <1>4 DEF Upper

\* A hex character and its digit.
LEMMA HexPairs ==
  /\ \A d \in 0 .. 15 : HexChar(d) \in HexChars /\ HexDigit(HexChar(d)) = d
  /\ \A c \in HexChars : HexDigit(c) \in 0 .. 15 /\ c \in Raised
BY DEF HexChar, HexDigit, HexChars, Numerals, Raised

\* A number that fits is written in so many hex characters, and read back from them.
LEMMA HexBack ==
  ASSUME NEW n \in Nat, NEW width \in Nat \ {0}, n <= Largest(width)
  PROVE  /\ Hex(n, width) \in Seq(HexChars) /\ Len(Hex(n, width)) = width
         /\ NumberOf([i \in DOMAIN Hex(n, width) |-> HexDigit(Hex(n, width)[i])], 16) = n
<1> DEFINE s == Digits(n, 16, width)
           h == Hex(n, width)
<1>1. s \in Seq(0 .. 15) /\ Len(s) = width /\ NumberOf(s, 16) = n
  BY DigitsBack
<1>2. h = [i \in DOMAIN s |-> HexChar(s[i])]
  BY DEF Hex
<1> HIDE DEF s, h
<1>3. DOMAIN s = 1 .. width /\ \A i \in 1 .. width : s[i] \in 0 .. 15
  BY <1>1
<1>4. DOMAIN h = 1 .. width /\ \A i \in 1 .. width : h[i] = HexChar(s[i])
  BY <1>2, <1>3
<1>5. \A i \in 1 .. width : h[i] \in HexChars /\ HexDigit(h[i]) = s[i]
  BY <1>3, <1>4, HexPairs
<1>6. h \in Seq(HexChars) /\ Len(h) = width
  <2>1. h \in [1 .. width -> HexChars]
    BY <1>2, <1>3, <1>4, <1>5
  <2>2. width \in Nat
    OBVIOUS
  <2>3. \A S, m : m \in Nat => \A x \in [1 .. m -> S] : x \in Seq(S) /\ Len(x) = m
    OBVIOUS
  <2> QED
    BY <2>1, <2>2, <2>3
<1>7. [i \in DOMAIN h |-> HexDigit(h[i])] = s
  <2>1. s = [i \in 1 .. width |-> s[i]]
    BY <1>1, <1>3
  <2> QED
    BY <1>4, <1>5, <2>1
<1> QED
  BY <1>1, <1>6, <1>7 DEF h

\* Text of hex characters reads as a number.
LEMMA HexReads ==
  ASSUME NEW text \in Seq(HexChars)
  PROVE  NumberOf([i \in DOMAIN text |-> HexDigit(text[i])], 16) \in Nat
<1> DEFINE s == [i \in DOMAIN text |-> HexDigit(text[i])]
<1>1. DOMAIN text = 1 .. Len(text) /\ Len(text) \in Nat /\ \A i \in DOMAIN text : text[i] \in HexChars
  OBVIOUS
<1>2. \A i \in DOMAIN text : HexDigit(text[i]) \in Nat
  BY <1>1, HexPairs
<1>3. s \in [1 .. Len(text) -> Nat]
  BY <1>1, <1>2
<1>4. \A S, m : m \in Nat => \A x \in [1 .. m -> S] : x \in Seq(S)
  OBVIOUS
<1> HIDE DEF s
<1>5. s \in Seq(Nat)
  BY <1>1, <1>3, <1>4
<1> QED
  BY <1>5, NumberOfMore DEF s

\* The parts of a tax id, cut out of it.
Parted(whole, S, a, b, c, d, x, y, z) ==
  /\ whole \in Seq(S) /\ Len(whole) = x + y + z + 1 /\ whole[x + y + z + 1] = d
  /\ SubSeq(whole, 1, x) = a /\ SubSeq(whole, x + 1, x + y) = b
  /\ SubSeq(whole, x + y + 1, x + y + z) = c

\* Four texts after one another, taken apart again.
LEMMA Parting ==
  ASSUME NEW S, NEW a \in Seq(S), NEW b \in Seq(S), NEW c \in Seq(S), NEW d \in S,
         NEW x \in Nat, NEW y \in Nat, NEW z \in Nat, Len(a) = x, Len(b) = y, Len(c) = z
  PROVE  Parted(a \o b \o c \o <<d>>, S, a, b, c, d, x, y, z)
<1> DEFINE whole == a \o b \o c \o <<d>>
<1>1. <<d>> \in Seq(S) /\ Len(<<d>>) = 1 /\ <<d>>[1] = d
  OBVIOUS
<1> DEFINE e == <<d>>
<1>2. /\ whole \in Seq(S) /\ Len(whole) = x + y + z + 1
      /\ \A i \in 1 .. x : whole[i] = a[i]
      /\ \A i \in 1 .. y : whole[x + i] = b[i]
      /\ \A i \in 1 .. z : whole[x + y + i] = c[i]
      /\ whole[x + y + z + 1] = d
  <2> DEFINE ab == a \o b
             abc == ab \o c
  <2>1. /\ ab \in Seq(S) /\ Len(ab) = x + y /\ \A i \in 1 .. x : ab[i] = a[i]
        /\ \A i \in 1 .. y : ab[x + i] = b[i]
    <3>1. /\ ab \in Seq(S) /\ Len(ab) = Len(a) + Len(b) /\ \A i \in 1 .. Len(a) : ab[i] = a[i]
          /\ \A i \in 1 .. Len(b) : ab[Len(a) + i] = b[i]
      OBVIOUS
    <3> HIDE DEF ab
    <3> QED
      BY <3>1
  <2> HIDE DEF ab
  <2>2. /\ abc \in Seq(S) /\ Len(abc) = x + y + z /\ \A i \in 1 .. x + y : abc[i] = ab[i]
        /\ \A i \in 1 .. z : abc[x + y + i] = c[i]
    <3>1. /\ abc \in Seq(S) /\ Len(abc) = Len(ab) + Len(c) /\ \A i \in 1 .. Len(ab) : abc[i] = ab[i]
          /\ \A i \in 1 .. Len(c) : abc[Len(ab) + i] = c[i]
      <4>1. ab \in Seq(S)
        BY <2>1
      <4>2. abc \in Seq(S)
        BY <4>1
      <4>3. Len(abc) = Len(ab) + Len(c)
        <5>1. \A s, t \in Seq(S) : Len(s \o t) = Len(s) + Len(t)
          OBVIOUS
        <5> QED
          BY <4>1, <5>1, Zenon
      <4>4. \A i \in 1 .. Len(ab) : abc[i] = ab[i]
        BY <4>1
      <4>5. \A i \in 1 .. Len(c) : abc[Len(ab) + i] = c[i]
        BY <4>1
      <4> QED
        BY <4>2, <4>3, <4>4, <4>5
    <3> HIDE DEF abc
    <3> QED
      BY <2>1, <3>1
  <2> HIDE DEF abc, e
  <2>3. /\ abc \o e \in Seq(S) /\ Len(abc \o e) = x + y + z + 1
        /\ \A i \in 1 .. x + y + z : (abc \o e)[i] = abc[i]
        /\ (abc \o e)[x + y + z + 1] = d
    <3>1. e \in Seq(S) /\ Len(e) = 1 /\ e[1] = d
      BY <1>1 DEF e
    <3>2. /\ abc \o e \in Seq(S) /\ Len(abc \o e) = Len(abc) + Len(e)
          /\ \A i \in 1 .. Len(abc) : (abc \o e)[i] = abc[i]
          /\ \A i \in 1 .. Len(e) : (abc \o e)[Len(abc) + i] = e[i]
      <4>1. abc \in Seq(S) /\ e \in Seq(S)
        BY <2>2, <3>1
      <4> QED
        BY <4>1
    <3>3. 1 \in 1 .. Len(e) /\ Len(abc) + 1 = x + y + z + 1
      BY <2>2, <3>1
    <3>4. (abc \o e)[x + y + z + 1] = d
      BY <3>1, <3>2, <3>3
    <3> QED
      BY <2>2, <3>1, <3>2, <3>4
  <2>4. whole = abc \o e
    BY DEF ab, abc, e
  <2> HIDE DEF whole
  <2>5. \A i \in 1 .. x : whole[i] = a[i]
    BY <2>1, <2>2, <2>3, <2>4
  <2>6. \A i \in 1 .. y : whole[x + i] = b[i]
    <3>1. \A i \in 1 .. y : x + i \in 1 .. x + y /\ x + i \in 1 .. x + y + z
      OBVIOUS
    <3> QED
      BY <2>1, <2>2, <2>3, <2>4, <3>1
  <2>7. \A i \in 1 .. z : whole[x + y + i] = c[i]
    <3>1. \A i \in 1 .. z : x + y + i \in 1 .. x + y + z
      OBVIOUS
    <3> QED
      BY <2>2, <2>3, <2>4, <3>1
  <2> QED
    BY <2>3, <2>4, <2>5, <2>6, <2>7
<1> HIDE DEF whole
<1>3. SubSeq(whole, 1, x) = a
  BY <1>2
<1>4. SubSeq(whole, x + 1, x + y) = b
  BY <1>2
<1>5. SubSeq(whole, x + y + 1, x + y + z) = c
  BY <1>2
<1> QED
  BY <1>2, <1>3, <1>4, <1>5 DEF Parted, whole

\* The characters of a piece cut from a text.
LEMMA Cut ==
  ASSUME NEW S, NEW t \in Seq(S), NEW a \in Nat, NEW b \in Nat, a + b <= Len(t)
  PROVE  \A i \in 1 .. b : SubSeq(t, a + 1, a + b)[i] = t[a + i]
  OBVIOUS

\* What generate_tax_id makes of what it accepts.
LEMMA TaxIdIs ==
  ASSUME NEW m \in Seq(Raised), Len(m) = MemoryWidth, NEW day \in 0 .. Largest(DayWidth), NEW n \in 0 .. MaxSerialNumber
  PROVE  /\ GenerateTaxId(m, n, day) = m \o Hex(day, DayWidth) \o Hex(n, SerialWidth)
                                         \o <<48 + CheckDigit(ControlText(m, day, n))>>
         /\ 48 + CheckDigit(ControlText(m, day, n)) \in Numerals
<1>1. m \in Seq(Numerals \cup Letters) /\ \A i \in DOMAIN m : m[i] \in Numerals \cup Letters
  <2>1. \A i \in DOMAIN m : m[i] \in Raised
    OBVIOUS
  <2>2. Raised \subseteq Numerals \cup Letters
    BY DEF Raised, Letters
  <2>3. \A i \in DOMAIN m : m[i] \in Numerals \cup Letters
    BY <2>1, <2>2
  <2>4. \A S, T : S \subseteq T => \A s \in Seq(S) : s \in Seq(T)
    OBVIOUS
  <2> QED
    BY <2>2, <2>3, <2>4
<1>2. Upper(m) = m
  BY RaisedStays
<1>3. Largest(DayWidth) \in Nat /\ MaxSerialNumber \in Nat
  BY LargestIs, TaxIdAssumption DEF DayWidth, MaxSerialNumber
<1>4. Identified(m, n, day)
  BY <1>1 DEF Identified
<1>5. CheckDigit(ControlText(m, day, n)) \in Digit
  <2>1. day \in Nat /\ n \in Nat
    BY <1>3
  <2> QED
    BY <1>1, <2>1, ControlIsDigits, CheckedPasses
<1>6. 48 + CheckDigit(ControlText(m, day, n)) \in Numerals
  BY <1>5 DEF Numerals, Digit
<1> QED
  BY <1>2, <1>4, <1>6 DEF GenerateTaxId

\* serial_of gives back what generate_tax_id was given.
LEMMA SerialBack ==
  ASSUME NEW m \in Seq(Raised), Len(m) = MemoryWidth, NEW day \in 0 .. Largest(DayWidth), NEW n \in 0 .. MaxSerialNumber
  PROVE  /\ GenerateTaxId(m, n, day) \in Seq(Raised)
         /\ Len(GenerateTaxId(m, n, day)) = MemoryWidth + DayWidth + SerialWidth + 1
         /\ SubSeq(GenerateTaxId(m, n, day), 1, MemoryWidth) = m
         /\ SerialOf(GenerateTaxId(m, n, day)) = [memory |-> m, serial |-> n]
<1> DEFINE d == Hex(day, DayWidth)
           s == Hex(n, SerialWidth)
           c == 48 + CheckDigit(ControlText(m, day, n))
           id == GenerateTaxId(m, n, day)
           Read(text) == NumberOf([i \in DOMAIN text |-> HexDigit(text[i])], 16)
<1>1. id = m \o d \o s \o <<c>> /\ c \in Numerals
  BY TaxIdIs
<1>2. DayWidth \in Nat \ {0} /\ SerialWidth \in Nat \ {0} /\ MemoryWidth \in Nat
  BY TaxIdAssumption DEF DayWidth, MemoryWidth
<1>3. Largest(DayWidth) \in Nat /\ MaxSerialNumber = Largest(SerialWidth) /\ Largest(SerialWidth) \in Nat
  BY <1>2, LargestIs DEF MaxSerialNumber
<1>4. day \in Nat /\ day <= Largest(DayWidth) /\ n \in Nat /\ n <= Largest(SerialWidth)
  BY <1>3
<1>5. d \in Seq(HexChars) /\ Len(d) = DayWidth /\ Read(d) = day
  BY <1>2, <1>4, HexBack
<1>6. s \in Seq(HexChars) /\ Len(s) = SerialWidth /\ Read(s) = n
  BY <1>2, <1>4, HexBack
<1>7. d \in Seq(Raised) /\ s \in Seq(Raised) /\ c \in Raised
  <2>1. HexChars \subseteq Raised /\ Numerals \subseteq Raised
    BY DEF HexChars, Raised
  <2>2. \A S, T : S \subseteq T => \A t \in Seq(S) : t \in Seq(T)
    OBVIOUS
  <2> QED
    BY <1>1, <1>5, <1>6, <2>1, <2>2
<1> HIDE DEF d, s, c, id, Read
<1> DEFINE x == MemoryWidth
           y == DayWidth
           z == SerialWidth
<1>8. /\ id \in Seq(Raised) /\ Len(id) = x + y + z + 1 /\ id[x + y + z + 1] = c
      /\ SubSeq(id, 1, x) = m /\ SubSeq(id, x + 1, x + y) = d /\ SubSeq(id, x + y + 1, x + y + z) = s
  <2>1. x \in Nat /\ y \in Nat /\ z \in Nat /\ Len(m) = x /\ Len(d) = y /\ Len(s) = z
    BY <1>2, <1>5, <1>6
  <2> HIDE DEF x, y, z
  <2>2. Parted(id, Raised, m, d, s, c, x, y, z)
    BY <1>1, <1>7, <2>1, Parting
  <2> QED
    BY <2>2 DEF Parted
<1>9. Upper(id) = id
  BY <1>8, RaisedStays
<1>10. \A i \in MemoryWidth + 1 .. Len(id) - 1 : id[i] \in HexChars
  <2>1. x \in Nat /\ y \in Nat /\ z \in Nat
    BY <1>2
  <2>2. \A i \in 1 .. y : d[i] \in HexChars
    BY <1>5
  <2>3. \A i \in 1 .. z : s[i] \in HexChars
    BY <1>6
  <2>4. \A i \in 1 .. y : d[i] = id[x + i]
    <3> HIDE DEF x, y, z
    <3>1. id \in Seq(Raised) /\ x + y <= Len(id)
      BY <1>8, <2>1
    <3>2. \A i \in 1 .. y : SubSeq(id, x + 1, x + y)[i] = id[x + i]
      BY <2>1, <3>1, Cut
    <3> QED
      BY <1>8, <3>2
  <2>5. \A i \in 1 .. z : s[i] = id[x + y + i]
    <3> HIDE DEF x, y, z
    <3>1. id \in Seq(Raised) /\ x + y \in Nat /\ x + y + z <= Len(id)
      BY <1>8, <2>1
    <3>2. \A i \in 1 .. z : SubSeq(id, x + y + 1, x + y + z)[i] = id[x + y + i]
      BY <2>1, <3>1, Cut
    <3> QED
      BY <1>8, <3>2
  <2> SUFFICES ASSUME NEW i \in x + 1 .. Len(id) - 1 PROVE id[i] \in HexChars
    OBVIOUS
  <2> HIDE DEF x, y, z
  <2>6. CASE i <= x + y
    <3>1. i - x \in 1 .. y /\ x + (i - x) = i
      BY <1>8, <2>1, <2>6
    <3> QED
      BY <2>2, <2>4, <3>1
  <2>7. CASE i > x + y
    <3>1. i - (x + y) \in 1 .. z /\ x + y + (i - (x + y)) = i
      BY <1>8, <2>1, <2>7
    <3> QED
      BY <2>3, <2>5, <3>1
  <2>8. i <= x + y \/ i > x + y
    BY <1>8, <2>1
  <2> QED
    BY <2>6, <2>7, <2>8
<1>11. SerialOf(id) = [memory |-> m, serial |-> n]
  <2>1. Len(id) - 1 = x + y + z
    BY <1>2, <1>8
  <2>2. SubSeq(id, x + y + 1, Len(id) - 1) = s /\ id[Len(id)] = c
    BY <1>8, <2>1
  <2>3. /\ Len(id) = MemoryWidth + DayWidth + SerialWidth + 1
        /\ SubSeq(id, 1, MemoryWidth) = m
        /\ SubSeq(id, MemoryWidth + 1, MemoryWidth + DayWidth) = d
        /\ SubSeq(id, MemoryWidth + DayWidth + 1, Len(id) - 1) = s
    BY <1>8, <2>2
  <2>4. c = 48 + CheckDigit(ControlText(m, Read(d), Read(s)))
    BY <1>5, <1>6 DEF c
  <2>5. NumberOf([i \in DOMAIN s |-> HexDigit(s[i])], 16) = n /\ NumberOf([i \in DOMAIN d |-> HexDigit(d[i])], 16) = day
    BY <1>5, <1>6 DEF Read
  <2>6. id[Len(id)] = 48 + CheckDigit(ControlText(m, NumberOf([i \in DOMAIN d |-> HexDigit(d[i])], 16),
                                                  NumberOf([i \in DOMAIN s |-> HexDigit(s[i])], 16)))
    BY <2>2, <2>4 DEF Read
  <2> HIDE DEF x, y, z
  <2> QED
    BY <1>9, <1>10, <2>3, <2>5, <2>6 DEF SerialOf
<1> QED
  BY <1>8, <1>11 DEF id

\* Of whatever it is given, serial_of makes a number or an error.
LEMMA SerialIsNumber ==
  ASSUME NEW t \in Seq(Raised)
  PROVE  SerialOf(t).serial \in Int
<1> DEFINE x == MemoryWidth + DayWidth
           z == SerialWidth
           s == SubSeq(t, x + 1, Len(t) - 1)
           Read(text) == NumberOf([i \in DOMAIN text |-> HexDigit(text[i])], 16)
           Sound == /\ Len(t) = MemoryWidth + DayWidth + SerialWidth + 1
                    /\ \A i \in MemoryWidth + 1 .. Len(t) - 1 : t[i] \in HexChars
<1> DEFINE Length == Len(t) = MemoryWidth + DayWidth + SerialWidth + 1
           Stray  == \E i \in MemoryWidth + 1 .. Len(t) - 1 : t[i] \notin HexChars
           Wrong  == t[Len(t)] # 48 + CheckDigit(ControlText(SubSeq(t, 1, MemoryWidth),
                                                             Read(SubSeq(t, MemoryWidth + 1, x)), Read(s)))
           Bad    == [memory |-> <<>>, serial |-> -1]
           Good   == [memory |-> SubSeq(t, 1, MemoryWidth), serial |-> Read(s)]
<1>1. \/ SerialOf(t) = Bad
      \/ Sound /\ SerialOf(t) = Good
  <2>1. Upper(t) = t
    BY RaisedStays
  <2>2. SerialOf(t) = IF ~ Length THEN Bad ELSE IF Stray THEN Bad ELSE IF Wrong THEN Bad ELSE Good
    BY <2>1, Zenon DEF SerialOf
  <2>3. Length /\ ~ Stray => Sound
    OBVIOUS
  <2> HIDE DEF Sound, Length, Stray, Wrong, Bad, Good
  <2> QED
    BY <2>2, <2>3
<1>2. ASSUME Sound PROVE Read(s) \in Nat
  <2>1. x \in Nat /\ z \in Nat /\ Len(t) = x + z + 1 /\ Len(t) - 1 = x + z /\ MemoryWidth + 1 <= x + 1
    BY <1>2, TaxIdAssumption DEF MemoryWidth, DayWidth
  <2>2. \A i \in 1 .. z : t[x + i] \in HexChars
    <3>1. \A i \in 1 .. z : x + i \in MemoryWidth + 1 .. Len(t) - 1
      BY <2>1 DEF MemoryWidth, DayWidth
    <3> QED
      BY <1>2, <3>1
  <2>3. \A i \in 1 .. z : s[i] = t[x + i]
    <3> HIDE DEF x, z
    <3>1. x + z <= Len(t)
      BY <2>1
    <3>2. \A i \in 1 .. z : SubSeq(t, x + 1, x + z)[i] = t[x + i]
      BY <2>1, <3>1, Cut
    <3> QED
      BY <2>1, <3>2
  <2>4. s \in Seq(Raised) /\ Len(s) = z
    <3> HIDE DEF x, z
    <3>1. SubSeq(t, x + 1, x + z) \in Seq(Raised) /\ Len(SubSeq(t, x + 1, x + z)) = z
      BY <2>1
    <3> QED
      BY <2>1, <3>1
  <2> HIDE DEF s
  <2>5. s \in Seq(HexChars)
    <3> HIDE DEF x, z
    <3>1. \A i \in 1 .. z : s[i] \in HexChars
      BY <2>2, <2>3
    <3>2. \A S, T : \A u \in Seq(S) : (\A i \in 1 .. Len(u) : u[i] \in T) => u \in Seq(T)
      OBVIOUS
    <3> QED
      BY <2>4, <3>1, <3>2
  <2> QED
    BY <2>5, HexReads
<1>3. SerialOf(t).serial = -1 \/ (Sound /\ SerialOf(t).serial = Read(s))
  <2>1. Bad.serial = -1 /\ Good.serial = Read(s)
    OBVIOUS
  <2> HIDE DEF Sound, Bad, Good, Read, s
  <2> QED
    BY <1>1, <2>1
<1> QED
  <2> HIDE DEF Sound, Bad, Good, Read, s
  <2> QED
    BY <1>2, <1>3

\* A misread character leaves a text of characters.
LEMMA MisreadIsRaised ==
  ASSUME NEW id \in Seq(Raised), Len(id) >= 2
  PROVE  [id EXCEPT ![Len(id) - 1] = HexChar(9)] \in Seq(Raised)
<1> DEFINE c == HexChar(9)
<1>1. c \in Raised
  BY DEF HexChar, Raised, Numerals
<1>2. Len(id) - 1 \in 1 .. Len(id) /\ Len(id) \in Nat /\ id \in [1 .. Len(id) -> Raised]
  OBVIOUS
<1> DEFINE k == Len(id) - 1
           n == Len(id)
<1>3. [id EXCEPT ![k] = c] \in [1 .. n -> Raised]
  <2> HIDE DEF k, n, c
  <2> QED
    BY <1>1, <1>2 DEF n
<1>4. \A S, p : p \in Nat => \A f \in [1 .. p -> S] : f \in Seq(S)
  OBVIOUS
<1> QED
  <2> HIDE DEF k, c
  <2>1. [id EXCEPT ![k] = c] \in Seq(Raised)
    BY <1>2, <1>3, <1>4 DEF n
  <2> QED
    BY <2>1 DEF k, c

=============================================================================
