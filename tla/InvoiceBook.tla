----------------------------- MODULE InvoiceBook -----------------------------
(***************************************************************************)
(* What the invoice records promise an operator who does one thing at a    *)
(* time and gets every answer: a book in which a filing is one entry, made *)
(* in one step with the filing itself, and is never amended, discarded or  *)
(* filed again.  The handlers, which read a row, await the organization    *)
(* and write the whole row back, implement it (InvoiceLifecycle!KeepsBook).*)
(***************************************************************************)
EXTENDS Integers

CONSTANTS
  MaxId,       \* bound: records ever entered
  MaxSerial    \* bound: serials

VARIABLES
  book,        \* id -> the record, Blank for none
  next,        \* the id the next record gets
  filings      \* serial -> what the organization has of it

vars == <<book, next, filings>>

Ids      == 1 .. MaxId
Serials  == 1 .. MaxSerial
Invoices == [valid : BOOLEAN, voids : 0 .. MaxSerial, taxid : 0 .. MaxSerial]

NoInvoice == [valid |-> FALSE, voids |-> 0, taxid |-> 0]
Blank     == [state |-> "none", payload |-> NoInvoice, tax |-> 0, ref |-> 0]
Unknown   == [status |-> "unknown", payload |-> NoInvoice]

Entry(state, inv, tax, ref) == [state |-> state, payload |-> inv, tax |-> tax, ref |-> ref]
Unfiled(inv) == Entry(IF inv.valid THEN "draft" ELSE "invalid", inv, 0, 0)

Init ==
  /\ book = [i \in Ids |-> Blank]
  /\ next = 1
  /\ filings = [s \in Serials |-> Unknown]

Draft(i) == book[i].state \in {"draft", "invalid"}

\* A new record gets the next id; only a draft is replaced.
Put(i, entry) ==
  /\ i = next \/ Draft(i)
  /\ book' = [book EXCEPT ![i] = entry]
  /\ next' = IF i = next THEN next + 1 ELSE next

Write(i, inv) ==
  /\ Put(i, Unfiled(inv))
  /\ UNCHANGED filings

Discard(i) ==
  /\ Draft(i)
  /\ book' = [book EXCEPT ![i] = Blank]
  /\ UNCHANGED <<next, filings>>

\* No record and no filing has the serial.
Fresh(s) == filings[s] = Unknown /\ \A i \in Ids : book[i].tax # s

\* What is filed under a serial is the invoice with that as its tax id.
Signed(inv, s) == [inv EXCEPT !.taxid = s]

\* The organization may have ruled by the time the record shows the filing.
File(i, inv, s) ==
  /\ inv.valid /\ Fresh(s)
  /\ Put(i, Entry("sent", inv, s, s))
  /\ \E status \in {"in_progress", "success", "failed"} :
       filings' = [filings EXCEPT ![s] = [status |-> status, payload |-> Signed(inv, s)]]

\* The organization answered without a result: nothing to inquire about.
FileUnanswered(i, inv, s) ==
  /\ inv.valid /\ Fresh(s)
  /\ Put(i, Entry("sent", inv, s, 0))
  /\ UNCHANGED filings

Rule(s) ==
  /\ filings[s].status = "in_progress"
  /\ \E verdict \in {"success", "failed"} : filings' = [filings EXCEPT ![s].status = verdict]
  /\ UNCHANGED <<book, next>>

\* The state a record may be given from what the organization says of it.
Told(i) ==
  CASE filings[book[i].ref].status = "success" -> "confirmed"
    [] filings[book[i].ref].status = "failed"  -> "rejected"
    [] OTHER                                   -> "sent"

Restate(i, state) ==
  /\ book' = [book EXCEPT ![i].state = state]
  /\ UNCHANGED <<next, filings>>

Learn(i) ==
  /\ book[i].state = "sent" /\ book[i].ref # 0
  /\ Restate(i, Told(i))

\* A record is void only after the book shows the confirmed record that voids it.
Void(i) ==
  /\ book[i].state \in {"sent", "confirmed", "rejected"}
  /\ \E j \in Ids \ {i} : book[j].state = "confirmed" /\ book[j].payload.voids = book[i].tax
  /\ Restate(i, "cancelled")

\* An answer from before the voiding is written over it: the state is what it
\* might have been without (InvoiceLifecycle!VoidStaysVoid fails).
Unvoid(i) ==
  /\ book[i].state = "cancelled" /\ book[i].ref # 0
  /\ \E state \in {"sent", Told(i)} : Restate(i, state)

Next ==
  \/ \E i \in Ids, inv \in Invoices : Write(i, inv)
  \/ \E i \in Ids : Discard(i) \/ Learn(i) \/ Void(i) \/ Unvoid(i)
  \/ \E i \in Ids, inv \in Invoices, s \in Serials : File(i, inv, s) \/ FileUnanswered(i, inv, s)
  \/ \E s \in Serials : Rule(s)

Spec == Init /\ [][Next]_vars

=============================================================================
