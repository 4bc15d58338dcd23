----------------------------- MODULE SerialTool -----------------------------
(***************************************************************************)
(* tools/serial.py, with which an operator inspects and repairs the serial *)
(* counter of a fiscal memory, beside a service that draws from it.        *)
(*                                                                         *)
(* The tool reads the counter, decides, and writes: the two are steps of   *)
(* their own, and no lock is held over both.  A draw is one step here; how *)
(* it is made so is SerialCounter's subject.                               *)
(***************************************************************************)
EXTENDS Integers, Sequences, TaxId

CONSTANTS
  Memory,    \* fiscal memories, each with a counter file
  Day,       \* the days invoices are dated
  MaxDrawn   \* bound: serials drawn for a memory

\* The ids of memories are those a profile may have.
ASSUME SerialToolAssumption ==
  /\ \A m \in Memory : m \in Seq(Numerals \cup (65 .. 90)) /\ Len(m) = MemoryWidth
  /\ Day \subseteq 0 .. Largest(DayWidth)
  /\ MaxDrawn \in 1 .. MaxSerialNumber

VARIABLES
  counter,   \* the counter file of each memory; an absent one reads as 0
  filed,     \* the tax ids in the operator's hands: what was filed
  tool,      \* the tool's run: [at, memory, target, ids]
  doubtful   \* history: the counter may be behind what was issued

toolVars == <<counter, filed, tool, doubtful>>

NotRunning == [at |-> "idle", memory |-> <<>>, target |-> 0, ids |-> {}]

ToolInit ==
  /\ counter = [m \in Memory |-> 0]
  /\ filed = {}
  /\ tool = NotRunning
  /\ doubtful = [m \in Memory |-> FALSE]

FiledFor(m) == {id \in filed : SubSeq(id, 1, MemoryWidth) = m}

\* A draw between the tool's reading and its writing is not in what it writes.
DrawAndFile(m) ==
  /\ counter[m] < MaxDrawn
  /\ counter' = [counter EXCEPT ![m] = @ + 1]
  /\ \E day \in Day : filed' = filed \cup {GenerateTaxId(m, counter[m] + 1, day)}
  /\ doubtful' = [doubtful EXCEPT ![m] = @ \/ (tool.at = "write" /\ tool.memory = m)]
  /\ UNCHANGED tool

\* The files are restored from a backup, or lost (external).
RestoreBackup(m) ==
  /\ tool = NotRunning
  /\ \E old \in 0 .. counter[m] - 1 : counter' = [counter EXCEPT ![m] = old]
  /\ doubtful' = [doubtful EXCEPT ![m] = TRUE]
  /\ UNCHANGED <<filed, tool>>

\* One character of the serial misread.
Misread(id) == [id EXCEPT ![Len(id) - 1] = HexChar(9)]

\* serial_of reads back the memory and the serial generate_tax_id was given, and
\* makes a number, or an error, of a misread one.
ReadsBack ==
  \A m \in Memory, n \in 1 .. MaxDrawn, day \in Day :
    LET id == GenerateTaxId(m, n, day)
    IN /\ SubSeq(id, 1, MemoryWidth) = m /\ SerialOf(id) = [memory |-> m, serial |-> n]
       /\ SerialOf(Misread(id)).serial \in Int

\* A faulty version for a mutant: the last tax id given wins.
LastOf(m, ids) ==
  IF \A i \in DOMAIN ids : SerialOf(ids[i]).memory = m THEN SerialOf(ids[Len(ids)]).serial ELSE -1

\* --from-taxid: the highest serial, if every id is sound and of this memory.
HighestOf(m, ids) ==
  LET serials == {0} \cup {SerialOf(ids[i]).serial : i \in DOMAIN ids}
  IN IF \A i \in DOMAIN ids : SerialOf(ids[i]).memory = m
     THEN CHOOSE n \in serials : \A k \in serials : k <= n ELSE -1

\* main up to the write; what it refuses, or has nothing to do for, changes nothing.
Decide(m, target, force, ids) ==
  /\ tool.at = "idle"
  /\ target \in 0 .. MaxSerialNumber
  /\ target # counter[m]
  /\ target < counter[m] => force
  /\ tool' = [at |-> "write", memory |-> m, target |-> target, ids |-> ids]
  /\ doubtful' = [doubtful EXCEPT ![m] = @ \/ target < counter[m]]
  /\ UNCHANGED <<counter, filed>>

Set(m) == \E target \in -1 .. MaxDrawn + 1, force \in BOOLEAN : Decide(m, target, force, {})

FromTaxIds(m) ==
  /\ tool.at = "idle"
  /\ \E first \in filed, last \in filed \cup {Misread(id) : id \in filed} :
       LET highest == HighestOf(m, <<first, last>>)
       IN \E force \in BOOLEAN : Decide(m, highest, force, {first, last})

\* _write; whoever gave every tax id filed, and met no draw, knows where he is.
WriteTarget ==
  /\ tool.at = "write"
  /\ counter' = [counter EXCEPT ![tool.memory] = tool.target]
  /\ doubtful' = [doubtful EXCEPT ![tool.memory] =
                    @ /\ ~ (FiledFor(tool.memory) # {} /\ FiledFor(tool.memory) \subseteq tool.ids)]
  /\ tool' = NotRunning
  /\ UNCHANGED filed

ToolNext == WriteTarget \/ \E m \in Memory : DrawAndFile(m) \/ RestoreBackup(m) \/ Set(m) \/ FromTaxIds(m)

\* The next serial of a memory is one it has not filed, however the tool was
\* used on this memory or another, unless its counter was restored, lowered by
\* force or overtaken while the tool ran; and the tax ids filed, given in any
\* order, then put it right.
NextSerialIsNew ==
  \A m \in Memory : ~ doubtful[m] =>
    \A id \in FiledFor(m) : SerialOf(id).serial <= counter[m]

=============================================================================
