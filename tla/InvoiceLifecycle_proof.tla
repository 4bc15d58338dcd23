----------------------- MODULE InvoiceLifecycle_proof -----------------------
(***************************************************************************)
(* Proofs about the invoice records, for any requests, workers, records    *)
(* and serials.  Rows live on in the copies of requests that write them    *)
(* back later, so the inductive invariant is about every row held          *)
(* anywhere: in the table, in a batch of an inquiry, or as the target of a *)
(* voiding.                                                                *)
(***************************************************************************)
EXTENDS InvoiceLifecycle, LeastNumber_proof, TLAPS

NoTarget == [id |-> 0, row |-> NoRow]

Holdings == [id : Ids \cup {0}, row : Rows \cup {NoRow}]

\* The rows held somewhere, each with the id it would be written to.
Stored  == {Record(i) : i \in Ids}
Batched == UNION {todo[r] : r \in Request}
Targets == {voided[r] : r \in Request}
Held    == Stored \cup Batched \cup Targets

Cause(o, tax) == \E s \in Serials : o[s].status = "success" /\ o[s].payload.voids = tax

\* What a row says is so at the organization.
Truthful(row, o) ==
  /\ row.state \in {"none", "draft", "invalid"} => row.tax = 0 /\ row.ref = 0
  /\ row.ref # 0 => /\ row.ref = row.tax /\ o[row.ref] # Unknown
                    /\ o[row.ref].payload = WithIdentity(row.payload, row.tax)
  /\ row.state = "confirmed" => row.ref # 0 /\ o[row.ref].status = "success"
  /\ row.state = "rejected" => row.ref # 0 /\ o[row.ref].status = "failed"
  /\ row.state = "cancelled" => Cause(o, row.tax)

\* A held row is truthful, and belongs to a record that exists or existed.
EntryOK(e, o, count, next) ==
  /\ Truthful(e.row, o) /\ e.row.tax <= count
  /\ e.row # NoRow => e.id \in 1 .. next - 1

SameRecord(H) == \A e, f \in H : e.row.tax # 0 /\ e.row.tax = f.row.tax => e.id = f.id

HeldOK == (\A e \in Held : EntryOK(e, org, counter, nextId)) /\ SameRecord(Held)

Filing == {"post", "accepted", "ignored"}

\* A serial drawn for a request is no row's and no other request's.
DrawnIsNew ==
  \A r \in Request : at[r] \in Filing =>
    /\ drawn[r] \in 1 .. counter
    /\ \A e \in Held : e.row.tax # drawn[r]
    /\ \A q \in Request \ {r} : at[q] \in Filing => drawn[q] # drawn[r]

\* What a request holds at each place.
Local(p, i, cp, b, d, td, vd, o) ==
  /\ cp.tax = 0 /\ cp.ref = 0
  /\ p \in {"update", "delete"} => i # 0 /\ cp # NoRow
  /\ p = "refuse" => (i = 0 <=> cp = NoRow)
  /\ p = "post" => o[d] = Unknown
  /\ p = "accepted" => o[d] # Unknown /\ o[d].payload = WithIdentity(b, d)
  /\ \A e \in td : e.row.ref # 0
  /\ p = "find" => /\ td # {}
                  /\ LET e == CHOOSE e \in td : \A f \in td : e.id <= f.id
                     IN e.row.state = "confirmed" /\ e.row.payload.voids # 0
  /\ p = "cancel" => vd.row # NoRow /\ Cause(o, vd.row.tax)

Locals == \A r \in Request : Local(at[r], id[r], copy[r], body[r], drawn[r], todo[r], voided[r], org)

\* Serials and ids not given out yet are unknown everywhere.
Untouched ==
  /\ \A s \in Serials : s > counter => org[s] = Unknown
  /\ \A i \in Ids : i >= nextId => rows[i] = NoRow

LifeInv == TypeOK /\ HeldOK /\ DrawnIsNew /\ Locals /\ Untouched

(***************************************************************************)
(* Types, and what the operators of the model do to them.                  *)
(***************************************************************************)
\* Rows and the absent row have the fields of a row.
LEMMA RowFields ==
  ASSUME NEW row \in Rows \cup {NoRow}
  PROVE  /\ row.payload \in Invoices /\ row.tax \in 0 .. MaxSerial /\ row.ref \in 0 .. MaxSerial
         /\ row.state \in States \cup {"none"}
         /\ row.state = "none" <=> row = NoRow
<1>1. CASE row \in Rows
  <2>1. "none" \notin States /\ NoRow.state = "none"
    BY DEF NoRow, States
  <2> QED
    BY <1>1, <2>1 DEF Rows
<1>2. CASE row = NoRow
  BY <1>2, LifecycleAssumption DEF NoRow, NoInvoice, Invoices
<1> QED
  BY <1>1, <1>2

\* The copy that is signed is an invoice too, and voids what its original voids.
LEMMA Identity ==
  ASSUME NEW inv \in Invoices, NEW s \in 0 .. MaxSerial
  PROVE  WithIdentity(inv, s) \in Invoices /\ WithIdentity(inv, s).voids = inv.voids
<1>1. PICK v \in BOOLEAN, w \in 0 .. MaxSerial, t \in 0 .. MaxSerial :
        inv = [valid |-> v, voids |-> w, taxid |-> t]
  BY DEF Invoices
<1>2. WithIdentity(inv, s) = [valid |-> v, voids |-> w, taxid |-> s]
  BY <1>1 DEF WithIdentity
<1> QED
  BY <1>1, <1>2 DEF Invoices

\* A row put together from typed parts is a row.
LEMMA MakeRow ==
  ASSUME NEW s \in States, NEW p \in Invoices, NEW t \in 0 .. MaxSerial, NEW f \in 0 .. MaxSerial
  PROVE  [state |-> s, payload |-> p, tax |-> t, ref |-> f] \in Rows
BY DEF Rows

\* A row in another state is a row.
LEMMA Restated ==
  ASSUME NEW row \in Rows \cup {NoRow}, NEW s \in States
  PROVE  /\ [row EXCEPT !.state = s] = [state |-> s, payload |-> row.payload, tax |-> row.tax, ref |-> row.ref]
         /\ [row EXCEPT !.state = s] \in Rows
<1>1. PICK u, q, t, f : row = [state |-> u, payload |-> q, tax |-> t, ref |-> f]
  BY DEF Rows, NoRow
<1>2. [row EXCEPT !.state = s] = [state |-> s, payload |-> q, tax |-> t, ref |-> f]
  BY <1>1
<1> QED
  BY <1>1, <1>2, RowFields, MakeRow

\* A store update changes at most the row it names, and only if it is there.
LEMMA Updated ==
  ASSUME rows \in [Ids -> Rows \cup {NoRow}], NEW i \in Ids \cup {0}, NEW row \in Rows \cup {NoRow}
  PROVE  /\ Update(i, row) \in [Ids -> Rows \cup {NoRow}]
         /\ \A j \in Ids : Update(i, row)[j] = IF j = i /\ rows[i] # NoRow THEN row ELSE rows[j]
BY LifecycleAssumption DEF Update, Exists, Ids

\* A new row gets the next id, and no other row changes.
LEMMA Inserted ==
  ASSUME rows \in [Ids -> Rows \cup {NoRow}], nextId \in 1 .. MaxId + 1, NEW row \in Rows \cup {NoRow},
         Insert(row)
  PROVE  /\ rows' \in [Ids -> Rows \cup {NoRow}] /\ nextId \in Ids
         /\ nextId' = nextId + 1 /\ nextId' \in 1 .. MaxId + 1
         /\ \A j \in Ids : rows'[j] = IF j = nextId THEN row ELSE rows[j]
BY LifecycleAssumption DEF Insert, Ids

\* Any save leaves the table typed, and changes one row at most.
LEMMA Saved ==
  ASSUME rows \in [Ids -> Rows \cup {NoRow}], nextId \in 1 .. MaxId + 1, NEW i \in Ids \cup {0},
         NEW row \in Rows \cup {NoRow}, Save(i, row)
  PROVE  /\ rows' \in [Ids -> Rows \cup {NoRow}] /\ nextId' \in 1 .. MaxId + 1
         /\ i = 0 => nextId \in Ids /\ nextId' = nextId + 1
         /\ i # 0 => nextId' = nextId
         /\ \A j \in Ids : rows'[j] =
              IF j = (IF i = 0 THEN nextId ELSE i) /\ (i = 0 \/ rows[i] # NoRow) THEN row ELSE rows[j]
<1>1. CASE i = 0
  <2>1. Insert(row)
    BY <1>1 DEF Save
  <2> QED
    BY <1>1, <2>1, Inserted
<1>2. CASE i # 0
  <2>1. rows' = Update(i, row) /\ nextId' = nextId
    BY <1>2 DEF Save
  <2> QED
    BY <1>2, <2>1, Updated
<1> QED
  BY <1>1, <1>2

Same(q) ==
  /\ at'[q] = at[q] /\ id'[q] = id[q] /\ copy'[q] = copy[q] /\ body'[q] = body[q]
  /\ drawn'[q] = drawn[q] /\ todo'[q] = todo[q] /\ voided'[q] = voided[q]

Over(r) ==
  /\ at'[r] = "idle" /\ id'[r] = 0 /\ copy'[r] = NoRow /\ body'[r] = NoInvoice
  /\ drawn'[r] = 0 /\ todo'[r] = {} /\ voided'[r] = NoTarget

Ends(G) == (\A r \in G : Over(r)) /\ (\A q \in Request \ G : Same(q))

\* Requests that end forget their locals, and the others keep theirs.
LEMMA Finished ==
  ASSUME TypeOK, NEW G \in SUBSET Request, Finish(G)
  PROVE  /\ at' \in [Request -> RequestStates] /\ id' \in [Request -> Ids \cup {0}]
         /\ copy' \in [Request -> Rows \cup {NoRow}] /\ body' \in [Request -> Invoices]
         /\ drawn' \in [Request -> Serials \cup {0}] /\ todo' \in [Request -> SUBSET Entries]
         /\ voided' \in [Request -> Entries \cup {NoTarget}]
         /\ Ends(G)
<1>1. NoInvoice \in Invoices
  BY LifecycleAssumption DEF NoInvoice, Invoices
<1>2. "idle" \in RequestStates
  BY DEF RequestStates
<1> QED
  BY <1>1, <1>2 DEF Finish, TypeOK, NoTarget, Ends, Over, Same

\* A batch that is not empty has an oldest record.
LEMMA OldestIs ==
  ASSUME NEW r \in Request, todo[r] \in SUBSET Entries, todo[r] # {}
  PROVE  /\ Oldest(r) \in todo[r] /\ Oldest(r) \in Entries
         /\ \A f \in todo[r] : Oldest(r).id <= f.id
<1> DEFINE numbers == {e.id : e \in todo[r]}
<1>1. numbers \in SUBSET Nat /\ numbers # {}
  BY DEF Entries, Ids
<1>2. PICK n \in numbers : \A m \in numbers : n <= m
  <2> HIDE DEF numbers
  <2> QED
    BY <1>1, LeastNumber
<1>3. \E e \in todo[r] : \A f \in todo[r] : e.id <= f.id
  BY <1>2
<1> QED
  BY <1>3 DEF Oldest

\* Of the records that carry a tax id one is the newest.
LEMMA NewestIs ==
  ASSUME NEW T \in SUBSET Ids, T # {}
  PROVE  (CHOOSE i \in T : \A j \in T : j <= i) \in T
<1> DEFINE mirror == {MaxId - i : i \in T}
<1>1. mirror \in SUBSET Nat /\ mirror # {}
  <2>1. ASSUME NEW i \in T PROVE MaxId - i \in Nat
    BY LifecycleAssumption DEF Ids
  <2> QED
    BY <2>1
<1>2. PICK n \in mirror : \A m \in mirror : n <= m
  <2> HIDE DEF mirror
  <2> QED
    BY <1>1, LeastNumber
<1>3. PICK i \in T : n = MaxId - i
  BY <1>2
<1>4. \A j \in T : j <= i
  <2>1. MaxId \in Nat
    BY LifecycleAssumption
  <2>2. T \in SUBSET (1 .. MaxId)
    BY DEF Ids
  <2>3. ASSUME NEW j \in T PROVE j <= i
    <3>1. MaxId - j \in mirror
      OBVIOUS
    <3>2. n <= MaxId - j
      BY <1>2, <3>1
    <3>3. i \in 1 .. MaxId /\ j \in 1 .. MaxId
      BY <2>2
    <3> HIDE DEF mirror
    <3> QED
      BY ONLY <1>3, <2>1, <3>2, <3>3
  <2> QED
    BY <2>3
<1> QED
  BY <1>4

\* What an answer makes of an entry: the same record in the state of the verdict.
LEMMA Answered ==
  ASSUME NEW e \in Entries, NEW status
  PROVE  /\ [e EXCEPT !.row.state = Verdict(@, status)] =
              [id |-> e.id, row |-> [state |-> Verdict(e.row.state, status), payload |-> e.row.payload,
                                     tax |-> e.row.tax, ref |-> e.row.ref]]
         /\ [e EXCEPT !.row.state = Verdict(@, status)] \in Entries
<1>1. PICK i \in Ids, u \in States, q \in Invoices, t \in 0 .. MaxSerial, f \in 0 .. MaxSerial :
        e = [id |-> i, row |-> [state |-> u, payload |-> q, tax |-> t, ref |-> f]]
  BY DEF Entries, Rows
<1>2. Verdict(u, status) \in States
  BY DEF Verdict, States
<1>3. [e EXCEPT !.row.state = Verdict(@, status)] =
        [id |-> i, row |-> [state |-> Verdict(u, status), payload |-> q, tax |-> t, ref |-> f]]
  BY <1>1
<1>4. [id |-> i, row |-> [state |-> Verdict(u, status), payload |-> q, tax |-> t, ref |-> f]] \in Entries
  BY <1>2 DEF Entries, Rows
<1> QED
  BY <1>1, <1>3, <1>4

\* Recorded rows are entries.
LEMMA RecordIs ==
  ASSUME rows \in [Ids -> Rows \cup {NoRow}], NEW i \in Ids, rows[i] \in Rows
  PROVE  Record(i) \in Entries /\ Record(i).id = i /\ Record(i).row = rows[i]
BY DEF Record, Entries

(***************************************************************************)
(* Every step leaves every variable its type.                              *)
(***************************************************************************)
\* The steps that only touch the table, or end a request with it.
LEMMA TypesOfWrites ==
  ASSUME TypeOK, NEW r \in Request,
         UpdateWrite(r) \/ DeleteWrite(r) \/ SubmitRefuse(r) \/ SubmitSave(r)
  PROVE  TypeOK'
<1>1. rows \in [Ids -> Rows \cup {NoRow}] /\ nextId \in 1 .. MaxId + 1 /\ id[r] \in Ids \cup {0}
      /\ copy[r] \in Rows \cup {NoRow} /\ body[r] \in Invoices /\ drawn[r] \in 0 .. MaxSerial
  BY LifecycleAssumption DEF TypeOK, Serials
<1>2. copy[r].tax \in 0 .. MaxSerial /\ copy[r].ref \in 0 .. MaxSerial /\ 0 \in 0 .. MaxSerial
  BY <1>1, RowFields, LifecycleAssumption
<1>3. rows' \in [Ids -> Rows \cup {NoRow}] /\ nextId' \in 1 .. MaxId + 1
  <2>1. CASE UpdateWrite(r)
    <3> DEFINE row == [state |-> Verified(body[r]), payload |-> body[r], tax |-> 0, ref |-> copy[r].ref]
    <3>1. row \in Rows
      BY <1>1, <1>2, MakeRow DEF Verified, States
    <3>2. rows' = Update(id[r], row) /\ nextId' = nextId
      BY <2>1 DEF UpdateWrite
    <3> HIDE DEF row
    <3> QED
      BY <1>1, <3>1, <3>2, Updated
  <2>2. CASE DeleteWrite(r)
    BY <1>1, <2>2 DEF DeleteWrite
  <2>3. CASE SubmitRefuse(r)
    <3> DEFINE row == [state |-> "invalid", payload |-> body[r], tax |-> copy[r].tax, ref |-> copy[r].ref]
    <3>1. row \in Rows
      BY <1>1, <1>2, MakeRow DEF States
    <3>2. Save(id[r], row)
      BY <2>3 DEF SubmitRefuse
    <3> HIDE DEF row
    <3> QED
      BY <1>1, <3>1, <3>2, Saved
  <2>4. CASE SubmitSave(r)
    <3> DEFINE ref == IF at[r] = "accepted" THEN drawn[r] ELSE 0
               row == [state |-> "sent", payload |-> body[r], tax |-> drawn[r], ref |-> ref]
    <3>1. row \in Rows
      BY <1>1, <1>2, MakeRow DEF States
    <3>2. Save(id[r], row)
      BY <2>4 DEF SubmitSave
    <3> HIDE DEF row
    <3> QED
      BY <1>1, <3>1, <3>2, Saved
  <2> QED
    BY <2>1, <2>2, <2>3, <2>4
<1>4. Finish({r}) /\ UNCHANGED <<counter, org, source>>
  BY DEF UpdateWrite, DeleteWrite, SubmitRefuse, SubmitSave
<1> QED
  BY <1>3, <1>4, Finished DEF TypeOK, NoTarget

\* The steps that end requests and change nothing else.
LEMMA TypesOfEnds ==
  ASSUME TypeOK, NEW G \in SUBSET Request, Finish(G), UNCHANGED <<table, counter, org, source>>
  PROVE  TypeOK'
BY Finished DEF TypeOK, NoTarget, table

\* The steps that begin a request.
LEMMA TypesOfBegins ==
  ASSUME TypeOK, NEW r \in Request, Begin(r)
  PROVE  TypeOK'
<1>1. ASSUME NEW i \in Ids, NEW inv \in Invoice, UpdateRead(r, i, inv) PROVE TypeOK'
  BY <1>1, LifecycleAssumption DEF TypeOK, UpdateRead, EditRead, Goto, table, RequestStates
<1>2. ASSUME NEW i \in Ids, DeleteRead(r, i) PROVE TypeOK'
  BY <1>2 DEF TypeOK, DeleteRead, EditRead, Goto, table, RequestStates
<1>3. ASSUME NEW i \in Ids \cup {0}, NEW inv \in Invoice, SubmitRead(r, i, inv) PROVE TypeOK'
  <2>1. (IF inv.valid THEN "draw" ELSE "refuse") \in RequestStates
    BY DEF RequestStates, OnLoop
  <2>2. (IF i = 0 THEN NoRow ELSE rows[i]) \in Rows \cup {NoRow} /\ inv \in Invoices
    BY LifecycleAssumption DEF TypeOK
  <2> QED
    BY <1>3, <2>1, <2>2 DEF TypeOK, SubmitRead, Goto, table
<1>4. ASSUME NEW C \in SUBSET Ids, \A i \in C : rows[i].ref # 0, InquireRead(r, C) PROVE TypeOK'
  <2>1. {Record(i) : i \in C} \in SUBSET Entries
    <3>1. ASSUME NEW i \in C PROVE rows[i] \in Rows
      BY <1>4 DEF TypeOK, NoRow
    <3> QED
      BY <3>1, RecordIs DEF TypeOK
  <2>2. "inquire" \in RequestStates
    BY DEF RequestStates
  <2> QED
    BY <1>4, <2>1, <2>2 DEF TypeOK, InquireRead, Goto, table
<1>5. CASE InquirePending(r)
  <2>1. Awaiting \in SUBSET Ids /\ \A i \in Awaiting : rows[i].ref # 0
    BY DEF Awaiting
  <2> QED
    BY <1>4, <1>5, <2>1 DEF InquirePending
<1>6. ASSUME NEW i \in Ids, InquireOne(r, i) PROVE TypeOK'
  BY <1>4, <1>6 DEF InquireOne
<1> QED
  BY <1>1, <1>2, <1>3, <1>5, <1>6 DEF Begin

\* The steps of a filing before its record is saved.
LEMMA TypesOfFiling ==
  ASSUME TypeOK, NEW r \in Request, SubmitDraw(r) \/ OrgAccepts(r) \/ OrgIgnores(r)
  PROVE  TypeOK'
<1>1. CASE SubmitDraw(r)
  <2>1. counter + 1 \in Serials
    BY <1>1, LifecycleAssumption DEF TypeOK, SubmitDraw, Serials
  <2> QED
    BY <1>1, <2>1, LifecycleAssumption DEF TypeOK, SubmitDraw, Goto, table, RequestStates, Serials
<1>2. CASE OrgAccepts(r)
  <2>1. [status |-> "in_progress", payload |-> WithIdentity(body[r], drawn[r])] \in Filings
    <3>1. body[r] \in Invoices /\ drawn[r] \in 0 .. MaxSerial
      BY LifecycleAssumption DEF TypeOK, Serials
    <3> QED
      BY <3>1, Identity DEF Filings
  <2>2. org' \in [Serials -> Filings \cup {Unknown}]
    BY <1>2, <2>1 DEF TypeOK, OrgAccepts
  <2> QED
    BY <1>2, <2>2 DEF TypeOK, OrgAccepts, Goto, table, mine, RequestStates
<1>3. CASE OrgIgnores(r)
  BY <1>3 DEF TypeOK, OrgIgnores, Goto, table, mine, RequestStates
<1> QED
  BY <1>1, <1>2, <1>3

\* The steps of an inquiry after its batch is read.
LEMMA TypesOfInquiry ==
  ASSUME TypeOK, NEW r \in Request,
         InquireAnswer(r) \/ ApplyVerdict(r) \/ CancelFind(r) \/ CancelWrite(r)
  PROVE  TypeOK'
<1>1. {"find", "apply", "cancel"} \subseteq RequestStates
  BY DEF RequestStates, OnLoop
<1>2. CASE InquireAnswer(r)
  <2>1. PICK answered \in SUBSET todo[r], found \in SUBSET todo[r] :
          /\ Goto(r, "inquire", "apply")
          /\ todo' = [todo EXCEPT ![r] =
               {IF e \in found THEN [e EXCEPT !.row.state = Verdict(@, org[e.row.ref].status)] ELSE e : e \in answered}]
    BY <1>2 DEF InquireAnswer
  <2>2. ASSUME NEW e \in answered
        PROVE (IF e \in found THEN [e EXCEPT !.row.state = Verdict(@, org[e.row.ref].status)] ELSE e) \in Entries
    BY Answered DEF TypeOK
  <2>3. todo' \in [Request -> SUBSET Entries]
    BY <2>1, <2>2 DEF TypeOK
  <2> QED
    BY <1>1, <1>2, <2>1, <2>3 DEF TypeOK, InquireAnswer, Goto, table
<1>3. CASE ApplyVerdict(r)
  <2>1. Oldest(r) \in Entries /\ Oldest(r) \in todo[r]
    BY <1>3, OldestIs DEF TypeOK, ApplyVerdict
  <2>2. Oldest(r).id \in Ids \cup {0} /\ Oldest(r).row \in Rows \cup {NoRow}
    BY <2>1 DEF Entries
  <2>3. rows' \in [Ids -> Rows \cup {NoRow}]
    BY <1>3, <2>2, Updated DEF TypeOK, ApplyVerdict
  <2>4. at' \in [Request -> RequestStates] /\ todo' \in [Request -> SUBSET Entries]
    BY <1>1, <1>3 DEF TypeOK, ApplyVerdict
  <2> QED
    BY <1>3, <2>3, <2>4 DEF TypeOK, ApplyVerdict
<1>4. CASE CancelFind(r)
  <2> DEFINE carriers == {i \in Ids : Exists(i) /\ rows[i].tax = Oldest(r).row.payload.voids}
             newest   == CHOOSE i \in carriers : \A j \in carriers : j <= i
  <2>1. carriers # {} => Record(newest) \in Entries
    <3>1. carriers \in SUBSET Ids /\ \A i \in carriers : rows[i] \in Rows
      BY DEF TypeOK, Exists
    <3> HIDE DEF carriers
    <3> QED
      BY <3>1, NewestIs, RecordIs DEF TypeOK
  <2>2. at' \in [Request -> RequestStates] /\ todo' \in [Request -> SUBSET Entries]
    BY <1>1, <1>4 DEF TypeOK, CancelFind
  <2>3. UNCHANGED voided \/ (carriers # {} /\ voided' = [voided EXCEPT ![r] = Record(newest)])
    BY <1>4 DEF CancelFind
  <2> HIDE DEF carriers, newest
  <2>4. voided' \in [Request -> Entries \cup {NoTarget}]
    BY <2>1, <2>3 DEF TypeOK, NoTarget
  <2> QED
    BY <1>4, <2>2, <2>4 DEF TypeOK, CancelFind, table, NoTarget
<1>5. CASE CancelWrite(r)
  <2>1. voided[r].id \in Ids \cup {0} /\ voided[r].row \in Rows \cup {NoRow}
    BY DEF TypeOK, Entries
  <2>2. [voided[r].row EXCEPT !.state = "cancelled"] \in Rows
    BY <2>1, Restated DEF States
  <2>3. rows' \in [Ids -> Rows \cup {NoRow}]
    <3> DEFINE row == [voided[r].row EXCEPT !.state = "cancelled"]
    <3>1. rows' = Update(voided[r].id, row)
      BY <1>5 DEF CancelWrite
    <3> HIDE DEF row
    <3>2. row \in Rows
      BY <2>2 DEF row
    <3> QED
      BY <2>1, <3>1, <3>2, Updated DEF TypeOK
  <2>4. at' \in [Request -> RequestStates]
    BY <1>1, <1>5 DEF TypeOK, CancelWrite, Goto
  <2>5. voided' \in [Request -> Entries \cup {NoTarget}]
    BY <1>5 DEF TypeOK, CancelWrite, NoTarget
  <2> QED
    BY <1>5, <2>3, <2>4, <2>5 DEF TypeOK, CancelWrite, NoTarget
<1> QED
  BY <1>2, <1>3, <1>4, <1>5

\* What an invoice is saved as.
LEMMA SavedRow ==
  ASSUME NEW inv \in Invoice
  PROVE  inv \in Invoices /\ [state |-> Verified(inv), payload |-> inv, tax |-> 0, ref |-> 0] \in Rows
<1>1. inv \in Invoices /\ 0 \in 0 .. MaxSerial /\ Verified(inv) \in States
  BY LifecycleAssumption DEF Verified, States
<1> QED
  BY <1>1, MakeRow

\* A step that is no request's, or ends requests.
LEMMA TypesOfOthers ==
  ASSUME TypeOK
  PROVE  /\ \A inv \in Invoice : SaveInvoice(inv) => TypeOK'
         /\ \A s \in Serials : OrgRules(s) => TypeOK'
         /\ \A w \in Worker : Crash(w) => TypeOK'
<1>1. ASSUME NEW inv \in Invoice, SaveInvoice(inv) PROVE TypeOK'
  <2> DEFINE row == [state |-> Verified(inv), payload |-> inv, tax |-> 0, ref |-> 0]
  <2>1. row \in Rows /\ Insert(row)
    BY <1>1, SavedRow DEF SaveInvoice
  <2> HIDE DEF row
  <2>2. rows' \in [Ids -> Rows \cup {NoRow}] /\ nextId' \in 1 .. MaxId + 1
    BY <2>1, Inserted DEF TypeOK
  <2> QED
    BY <1>1, <2>2 DEF TypeOK, SaveInvoice, mine
<1>2. ASSUME NEW s \in Serials, OrgRules(s) PROVE TypeOK'
  <2>1. PICK verdict \in {"success", "failed"} : org' = [org EXCEPT ![s].status = verdict]
    BY <1>2 DEF OrgRules
  <2>2. org[s] \in Filings
    BY <1>2 DEF TypeOK, OrgRules, Unknown
  <2>3. org' \in [Serials -> Filings \cup {Unknown}]
    BY <2>1, <2>2 DEF TypeOK, Filings
  <2> QED
    BY <1>2, <2>3 DEF TypeOK, OrgRules, table, mine
<1>3. ASSUME NEW w \in Worker, Crash(w) PROVE TypeOK'
  <2>1. {r \in Request : WorkerOf[r] = w} \in SUBSET Request
    OBVIOUS
  <2> QED
    BY <1>3, <2>1, TypesOfEnds DEF Crash
<1> QED
  BY <1>1, <1>2, <1>3

\* Every step keeps the types.
LEMMA TypeStep == TypeOK /\ [Next]_vars => TypeOK'
<1> SUFFICES ASSUME TypeOK, [Next]_vars PROVE TypeOK'
  OBVIOUS
<1>1. ASSUME NEW r \in Request, Continue(r) PROVE TypeOK'
  <2>1. CASE SubmitExhausted(r) \/ SubmitFails(r) \/ InquireFails(r) \/ InquireDone(r)
    <3>1. Finish({r}) /\ UNCHANGED <<table, counter, org, source>>
      BY <2>1 DEF SubmitExhausted, SubmitFails, InquireFails, InquireDone
    <3> QED
      BY <3>1, TypesOfEnds
  <2> QED
    BY <1>1, <2>1, TypesOfWrites, TypesOfFiling, TypesOfInquiry DEF Continue
<1>2. CASE UNCHANGED vars
  BY <1>2 DEF TypeOK, vars
<1> QED
  BY <1>1, <1>2, TypesOfBegins, TypesOfOthers DEF Next

\* The empty store has the types.
LEMMA TypeInit == Init => TypeOK
<1> SUFFICES ASSUME Init PROVE TypeOK
  OBVIOUS
<1>1. NoInvoice \in Invoices /\ 1 \in 1 .. MaxId + 1 /\ 0 \in 0 .. MaxSerial
  BY LifecycleAssumption DEF NoInvoice, Invoices
<1> QED
  BY <1>1 DEF Init, TypeOK, RequestStates

\* Whatever runs at the same time, is lost or crashes, the records, the filings
\* and what requests hold of them have their types.
THEOREM Typed == Spec => []TypeOK
BY TypeInit, TypeStep, PTL DEF Spec

(***************************************************************************)
(* What every step does to the rows held anywhere.                         *)
(***************************************************************************)
\* The organization forgets no filing and takes back no verdict.
Grows(o, p) ==
  \A s \in Serials :
    /\ o[s] # Unknown => p[s] # Unknown /\ p[s].payload = o[s].payload
    /\ o[s].status \in {"success", "failed"} => p[s].status = o[s].status

OrgStates == [Serials -> Filings \cup {Unknown}]

\* A cause for a voiding stays one.
LEMMA CauseStays ==
  ASSUME NEW o \in OrgStates, NEW p \in OrgStates, Grows(o, p), NEW tax, Cause(o, tax)
  PROVE  Cause(p, tax)
<1>1. PICK s \in Serials : o[s].status = "success" /\ o[s].payload.voids = tax
  BY DEF Cause
<1>2. o[s] # Unknown
  BY <1>1 DEF Unknown
<1> QED
  BY <1>1, <1>2 DEF Cause, Grows

\* A row that was truthful stays so.
LEMMA TruthStays ==
  ASSUME NEW o \in OrgStates, NEW p \in OrgStates, Grows(o, p),
         NEW row \in Rows \cup {NoRow}, Truthful(row, o)
  PROVE  Truthful(row, p)
<1>1. row.ref # 0 => row.ref \in Serials
  BY RowFields, LifecycleAssumption DEF Serials
<1>2. row.ref # 0 => /\ row.ref = row.tax /\ p[row.ref] # Unknown
                     /\ p[row.ref].payload = WithIdentity(row.payload, row.tax)
                     /\ o[row.ref].status \in {"success", "failed"} => p[row.ref].status = o[row.ref].status
  BY <1>1 DEF Truthful, Grows
<1>3. row.state = "cancelled" => Cause(p, row.tax)
  BY CauseStays DEF Truthful
<1> QED
  BY <1>2, <1>3 DEF Truthful

\* So does what a request holds, if its serial was not filed by another.
LEMMA LocalStays ==
  ASSUME NEW o \in OrgStates, NEW p \in OrgStates, Grows(o, p),
         NEW pc, NEW i, NEW cp, NEW b, NEW d, NEW td, NEW vd, Local(pc, i, cp, b, d, td, vd, o),
         pc = "post" => p[d] = Unknown, pc = "accepted" => d \in Serials
  PROVE  Local(pc, i, cp, b, d, td, vd, p)
<1>1. pc = "accepted" => p[d] # Unknown /\ p[d].payload = WithIdentity(b, d)
  BY DEF Local, Grows
<1>2. pc = "cancel" => vd.row # NoRow /\ Cause(p, vd.row.tax)
  BY CauseStays DEF Local
<1> QED
  BY <1>1, <1>2 DEF Local

\* Where a held row is held, before a step and after it.
LEMMA HeldIs ==
  /\ \A e : e \in Held <=> \/ \E i \in Ids : e = [id |-> i, row |-> rows[i]]
                           \/ \E r \in Request : e \in todo[r] \/ e = voided[r]
  /\ \A e : e \in Held' <=> \/ \E i \in Ids : e = [id |-> i, row |-> rows'[i]]
                            \/ \E r \in Request : e \in todo'[r] \/ e = voided'[r]
<1>1. ASSUME NEW e PROVE e \in Stored <=> \E i \in Ids : e = [id |-> i, row |-> rows[i]]
  BY DEF Stored, Record
<1>2. ASSUME NEW e PROVE e \in Batched <=> \E r \in Request : e \in todo[r]
  BY DEF Batched
<1>3. ASSUME NEW e PROVE e \in Targets <=> \E r \in Request : e = voided[r]
  BY DEF Targets
<1>4. ASSUME NEW e PROVE e \in Stored' <=> \E i \in Ids : e = [id |-> i, row |-> rows'[i]]
  BY DEF Stored, Record
<1>5. ASSUME NEW e PROVE e \in Batched' <=> \E r \in Request : e \in todo'[r]
  BY DEF Batched
<1>6. ASSUME NEW e PROVE e \in Targets' <=> \E r \in Request : e = voided'[r]
  BY DEF Targets
<1>7. ASSUME NEW e PROVE e \in Held <=> \/ \E i \in Ids : e = [id |-> i, row |-> rows[i]]
                                     \/ \E r \in Request : e \in todo[r] \/ e = voided[r]
  <2>1. e \in Held <=> e \in Stored \/ e \in Batched \/ e \in Targets
    BY DEF Held
  <2> QED
    BY <1>1, <1>2, <1>3, <2>1, Zenon
<1>8. ASSUME NEW e PROVE e \in Held' <=> \/ \E i \in Ids : e = [id |-> i, row |-> rows'[i]]
                                      \/ \E r \in Request : e \in todo'[r] \/ e = voided'[r]
  <2>1. e \in Held' <=> e \in Stored' \/ e \in Batched' \/ e \in Targets'
    BY DEF Held
  <2> QED
    BY <1>4, <1>5, <1>6, <2>1, Zenon
<1> QED
  BY <1>7, <1>8

\* Held rows have their type.
LEMMA HeldTypes ==
  /\ TypeOK => Held \in SUBSET Holdings
  /\ TypeOK' => Held' \in SUBSET Holdings
<1>1. Entries \cup {NoTarget} \subseteq Holdings
  BY DEF Entries, NoTarget, Holdings
<1>2. ASSUME TypeOK, NEW e \in Held PROVE e \in Holdings
  <2>1. CASE \E i \in Ids : e = [id |-> i, row |-> rows[i]]
    BY <1>2, <2>1 DEF TypeOK, Holdings
  <2>2. CASE \E r \in Request : e \in todo[r] \/ e = voided[r]
    BY <1>1, <1>2, <2>2 DEF TypeOK, NoTarget
  <2> QED
    BY <1>2, <2>1, <2>2, HeldIs
<1>3. ASSUME TypeOK', NEW e \in Held' PROVE e \in Holdings
  <2>1. CASE \E i \in Ids : e = [id |-> i, row |-> rows'[i]]
    BY <1>3, <2>1 DEF TypeOK, Holdings
  <2>2. CASE \E r \in Request : e \in todo'[r] \/ e = voided'[r]
    BY <1>1, <1>3, <2>2 DEF TypeOK, NoTarget
  <2> QED
    BY <1>3, <2>1, <2>2, HeldIs
<1> QED
  BY <1>2, <1>3

\* A request that is not there holds nothing.
LEMMA LocalIdle ==
  ASSUME NEW o PROVE Local("idle", 0, NoRow, NoInvoice, 0, {}, NoTarget, o)
BY DEF Local, NoRow

\* A row held after a step: one held before, one that keeps the tax id of its
\* record or has none, or the row of the serial t, which no other request has.
Passes(f, t, j) ==
  \/ f \in Held
  \/ /\ EntryOK(f, org', counter', nextId')
     /\ \/ f.row.tax = 0
        \/ \E e \in Held : e.id = f.id /\ e.row.tax = f.row.tax
        \/ f.row.tax = t /\ f.id = j

\* A step of the requests in G, for all that concerns the table and the others.
LEMMA StepKeeps ==
  ASSUME LifeInv, TypeOK', NEW G \in SUBSET Request,
         \A q \in Request \ G : Same(q) /\ (at[q] = "post" => org'[drawn[q]] = Unknown),
         Grows(org, org'), counter <= counter', nextId <= nextId',
         NEW t \in 0 .. MaxSerial, NEW j,
         t # 0 => /\ \A e \in Held : e.row.tax # t
                  /\ \A q \in Request \ G : at[q] \in Filing => drawn[q] # t,
         \A f \in Held' : Passes(f, t, j),
         \A r \in G :
           /\ Local(at'[r], id'[r], copy'[r], body'[r], drawn'[r], todo'[r], voided'[r], org')
           /\ at'[r] \in Filing =>
                /\ drawn'[r] \in 1 .. counter'
                /\ \A e \in Held' : e.row.tax # drawn'[r]
                /\ \A q \in Request \ {r} : at'[q] \in Filing => drawn'[q] # drawn'[r],
         Untouched'
  PROVE  LifeInv'
<1>1. org \in OrgStates /\ org' \in OrgStates /\ counter \in Nat /\ counter' \in Nat /\ nextId \in Nat /\ nextId' \in Nat
  BY LifecycleAssumption DEF LifeInv, TypeOK, OrgStates
<1>2. Held \in SUBSET Holdings /\ Held' \in SUBSET Holdings
  BY HeldTypes DEF LifeInv
<1>3. ASSUME NEW f \in Held' PROVE EntryOK(f, org', counter', nextId')
  <2>1. CASE f \in Held
    <3>1. EntryOK(f, org, counter, nextId) /\ f.row \in Rows \cup {NoRow}
      BY <2>1, <1>2 DEF LifeInv, HeldOK, Holdings
    <3>2. Truthful(f.row, org')
      BY <3>1, <1>1, TruthStays DEF EntryOK
    <3>3. f.row.tax \in 0 .. MaxSerial
      BY <3>1, RowFields
    <3> QED
      BY <3>1, <3>2, <3>3, <1>1 DEF EntryOK
  <2>2. CASE f \notin Held
    BY <2>2 DEF Passes
  <2> QED
    BY <2>1, <2>2
<1>4. SameRecord(Held')
  <2> SUFFICES ASSUME NEW e \in Held', NEW f \in Held', e.row.tax # 0, e.row.tax = f.row.tax PROVE e.id = f.id
    BY DEF SameRecord
  <2>1. \/ \E g \in Held : g.id = e.id /\ g.row.tax = e.row.tax
        \/ e.row.tax = t /\ e.id = j
    BY DEF Passes
  <2>2. \/ \E g \in Held : g.id = f.id /\ g.row.tax = f.row.tax
        \/ f.row.tax = t /\ f.id = j
    BY DEF Passes
  <2>3. SameRecord(Held)
    BY DEF LifeInv, HeldOK
  <2> QED
    BY <2>1, <2>2, <2>3 DEF SameRecord
<1>5. DrawnIsNew'
  <2> SUFFICES ASSUME NEW q \in Request, at'[q] \in Filing
               PROVE  /\ drawn'[q] \in 1 .. counter'
                      /\ \A e \in Held' : e.row.tax # drawn'[q]
                      /\ \A p \in Request \ {q} : at'[p] \in Filing => drawn'[p] # drawn'[q]
    BY DEF DrawnIsNew, Filing
  <2>1. CASE q \in G
    BY <2>1
  <2>2. CASE q \notin G
    <3>1. /\ drawn[q] \in 1 .. counter /\ drawn'[q] = drawn[q] /\ at[q] \in Filing
          /\ \A e \in Held : e.row.tax # drawn[q]
          /\ \A p \in Request \ {q} : at[p] \in Filing => drawn[p] # drawn[q]
      BY <2>2 DEF LifeInv, DrawnIsNew, Same
    <3>2. drawn'[q] \in 1 .. counter'
      BY <3>1, <1>1
    <3>3. ASSUME NEW e \in Held', e.row.tax = drawn[q] PROVE FALSE
      <4>1. e.row.tax # 0
        BY <3>1, <3>3, <1>1
      <4>2. e.row.tax = t
        BY <3>1, <3>3, <4>1 DEF Passes
      <4> QED
        BY <2>2, <3>1, <3>3, <4>1, <4>2
    <3>4. ASSUME NEW p \in Request \ {q}, at'[p] \in Filing PROVE drawn'[p] # drawn'[q]
      <4>1. CASE p \in G
        BY <4>1, <3>4, <2>2
      <4>2. CASE p \notin G
        BY <4>2, <3>4, <3>1 DEF Same
      <4> QED
        BY <4>1, <4>2
    <3> QED
      BY <3>1, <3>2, <3>3, <3>4
  <2> QED
    BY <2>1, <2>2
<1>6. Locals'
  <2> SUFFICES ASSUME NEW q \in Request
               PROVE  Local(at'[q], id'[q], copy'[q], body'[q], drawn'[q], todo'[q], voided'[q], org')
    BY DEF Locals
  <2>1. CASE q \in G
    BY <2>1
  <2>2. CASE q \notin G
    <3>1. Local(at[q], id[q], copy[q], body[q], drawn[q], todo[q], voided[q], org)
      BY DEF LifeInv, Locals
    <3>2. at[q] = "accepted" => drawn[q] \in Serials
      BY LifecycleAssumption DEF LifeInv, DrawnIsNew, Filing, TypeOK, Serials
    <3>3. Local(at[q], id[q], copy[q], body[q], drawn[q], todo[q], voided[q], org')
      BY <2>2, <3>1, <3>2, <1>1, LocalStays
    <3> QED
      BY <2>2, <3>3 DEF Same
  <2> QED
    BY <2>1, <2>2
<1>7. HeldOK'
  BY <1>3, <1>4 DEF HeldOK
<1> QED
  BY <1>5, <1>6, <1>7 DEF LifeInv

\* A step of one request.
LEMMA OneKeeps ==
  ASSUME LifeInv, TypeOK', NEW r \in Request,
         \A q \in Request \ {r} : Same(q) /\ (at[q] = "post" => org'[drawn[q]] = Unknown),
         Grows(org, org'), counter <= counter', nextId <= nextId',
         NEW t \in 0 .. MaxSerial, NEW j,
         t # 0 => /\ \A e \in Held : e.row.tax # t
                  /\ \A q \in Request \ {r} : at[q] \in Filing => drawn[q] # t,
         \A f \in Held' : Passes(f, t, j),
         Local(at'[r], id'[r], copy'[r], body'[r], drawn'[r], todo'[r], voided'[r], org'),
         at'[r] \in Filing =>
           /\ drawn'[r] \in 1 .. counter'
           /\ \A e \in Held' : e.row.tax # drawn'[r]
           /\ \A q \in Request \ {r} : at'[q] \in Filing => drawn'[q] # drawn'[r],
         Untouched'
  PROVE  LifeInv'
<1>1. PICK G \in SUBSET Request : G = {r}
  OBVIOUS
<1>2. \A q \in Request \ G : Same(q) /\ (at[q] = "post" => org'[drawn[q]] = Unknown)
  BY <1>1
<1>3. t # 0 => /\ \A e \in Held : e.row.tax # t
               /\ \A q \in Request \ G : at[q] \in Filing => drawn[q] # t
  BY <1>1
<1>4. ASSUME NEW x \in G
      PROVE  /\ Local(at'[x], id'[x], copy'[x], body'[x], drawn'[x], todo'[x], voided'[x], org')
             /\ at'[x] \in Filing =>
                  /\ drawn'[x] \in 1 .. counter'
                  /\ \A e \in Held' : e.row.tax # drawn'[x]
                  /\ \A q \in Request \ {x} : at'[q] \in Filing => drawn'[q] # drawn'[x]
  <2>1. x = r
    BY <1>1
  <2> QED
    BY <2>1
<1> HIDE <1>1
<1> QED
  BY <1>2, <1>3, <1>4, StepKeeps

\* The organization stands still.
LEMMA GrowsSame == ASSUME NEW o PROVE Grows(o, o)
BY DEF Grows

\* A request that posts has a serial the organization does not know.
LEMMA PostsUnknown ==
  ASSUME LifeInv, NEW q \in Request, at[q] = "post"
  PROVE  org[drawn[q]] = Unknown
BY DEF LifeInv, Locals, Local

\* Ending requests adds nothing to what the others hold.
LEMMA HeldAfterEnds ==
  ASSUME LifeInv, TypeOK', NEW G \in SUBSET Request, Ends(G), NEW t, NEW j,
         \A i \in Ids : Passes([id |-> i, row |-> rows'[i]], t, j)
  PROVE  \A f \in Held' : Passes(f, t, j)
<1> SUFFICES ASSUME NEW f \in Held', f \notin Held PROVE Passes(f, t, j)
  BY DEF Passes
<1>1. CASE \E i \in Ids : f = [id |-> i, row |-> rows'[i]]
  BY <1>1
<1>2. CASE \E r \in Request : f \in todo'[r] \/ f = voided'[r]
  <2>1. PICK r \in Request : f \in todo'[r] \/ f = voided'[r]
    BY <1>2
  <2>2. CASE r \in G
    <3>1. f = NoTarget
      BY <2>1, <2>2 DEF Ends, Over
    <3>2. f.row = NoRow /\ NoRow.tax = 0 /\ NoRow.ref = 0 /\ NoRow.state = "none"
      BY <3>1 DEF NoTarget, NoRow
    <3>3. 0 <= counter'
      BY LifecycleAssumption DEF TypeOK
    <3> QED
      BY <3>2, <3>3 DEF Passes, EntryOK, Truthful
  <2>3. CASE r \notin G
    <3>1. f \in todo[r] \/ f = voided[r]
      BY <2>1, <2>3 DEF Ends, Same
    <3> QED
      BY <3>1, HeldIs DEF Passes
  <2> QED
    BY <2>2, <2>3
<1> QED
  BY <1>1, <1>2, HeldIs

\* A row without a serial is as good anywhere.
LEMMA NoRowPasses ==
  ASSUME TypeOK', NEW i, NEW t, NEW j PROVE Passes([id |-> i, row |-> NoRow], t, j)
<1>1. NoRow.tax = 0 /\ NoRow.ref = 0 /\ NoRow.state = "none" /\ 0 <= counter'
  BY LifecycleAssumption DEF TypeOK, NoRow
<1> QED
  BY <1>1 DEF Passes, EntryOK, Truthful

\* Ends of requests, with a row saved: one that is truthful, and whose serial is
\* no other row's and no other request's.
LEMMA SaveKeeps ==
  ASSUME LifeInv, TypeOK', NEW G \in SUBSET Request, Ends(G), UNCHANGED <<counter, org>>,
         NEW i \in Ids \cup {0}, NEW row \in Rows, Save(i, row),
         Truthful(row, org), row.tax <= counter,
         row.tax # 0 => /\ \A e \in Held : e.row.tax # row.tax
                        /\ \A q \in Request \ G : at[q] \in Filing => drawn[q] # row.tax
  PROVE  LifeInv'
<1> DEFINE j == IF i = 0 THEN nextId ELSE i
<1>1. rows \in [Ids -> Rows \cup {NoRow}] /\ nextId \in 1 .. MaxId + 1 /\ Untouched
  BY DEF LifeInv, TypeOK
<1>2. /\ nextId' \in 1 .. MaxId + 1
      /\ i = 0 => nextId \in Ids /\ nextId' = nextId + 1
      /\ i # 0 => nextId' = nextId
      /\ \A k \in Ids : rows'[k] = IF k = j /\ (i = 0 \/ rows[i] # NoRow) THEN row ELSE rows[k]
  BY <1>1, Saved
<1>3. nextId <= nextId'
  BY <1>1, <1>2, LifecycleAssumption
<1>4. i # 0 /\ rows[i] # NoRow => i < nextId
  BY <1>1, LifecycleAssumption DEF Untouched, Ids
<1>5. ASSUME NEW k \in Ids PROVE Passes([id |-> k, row |-> rows'[k]], row.tax, j)
  <2>1. CASE k = j /\ (i = 0 \/ rows[i] # NoRow)
    <3>1. rows'[k] = row
      BY <1>2, <2>1
    <3>2. k \in 1 .. nextId' - 1
      <4>1. CASE i = 0
        <5>1. k = nextId /\ nextId' = nextId + 1 /\ nextId \in Nat /\ k \in Nat /\ k >= 1
          BY <1>1, <1>2, <2>1, <4>1, LifecycleAssumption DEF Ids
        <5> QED
          BY <5>1
      <4>2. CASE i # 0
        <5>1. k = i /\ nextId' = nextId /\ i < nextId /\ nextId \in Nat /\ k \in Nat /\ k >= 1
          BY <1>1, <1>2, <1>4, <2>1, <4>2, LifecycleAssumption DEF Ids
        <5> QED
          BY <5>1
      <4> QED
        BY <4>1, <4>2
    <3>3. Truthful(row, org') /\ row.tax <= counter' /\ k = j
      BY <2>1
    <3> HIDE DEF j
    <3>4. EntryOK([id |-> k, row |-> row], org', counter', nextId')
      BY <3>2, <3>3 DEF EntryOK
    <3> QED
      BY <3>1, <3>3, <3>4 DEF Passes
  <2>2. CASE ~ (k = j /\ (i = 0 \/ rows[i] # NoRow))
    <3>1. rows'[k] = rows[k]
      BY <1>2, <2>2
    <3> QED
      BY <3>1, HeldIs DEF Passes
  <2> QED
    BY <2>1, <2>2
<1>6. \A f \in Held' : Passes(f, row.tax, j)
  <2> HIDE DEF j
  <2> QED
    BY <1>5, HeldAfterEnds
<1>7. Untouched'
  <2>1. ASSUME NEW k \in Ids, k >= nextId' PROVE rows'[k] = NoRow
    <3>1. rows[k] = NoRow
      <4>1. k \in Nat /\ nextId \in Nat /\ nextId' \in Nat
        BY <1>1, <1>2, LifecycleAssumption DEF Ids
      <4>2. k >= nextId
        BY <1>3, <2>1, <4>1
      <4> QED
        BY <1>1, <4>2 DEF Untouched
    <3>2. i # 0 /\ k = j => rows[i] = NoRow
      BY <3>1
    <3>3. i = 0 => k # j
      BY <1>1, <1>2, <2>1, LifecycleAssumption DEF Ids
    <3> QED
      BY <1>2, <3>1, <3>2, <3>3
  <2> QED
    BY <1>1, <2>1 DEF Untouched
<1>8. \A q \in Request \ G : Same(q) /\ (at[q] = "post" => org'[drawn[q]] = Unknown)
  BY PostsUnknown DEF Ends
<1>9. ASSUME NEW r \in G
      PROVE  /\ Local(at'[r], id'[r], copy'[r], body'[r], drawn'[r], todo'[r], voided'[r], org')
             /\ at'[r] \notin Filing
  <2>1. Over(r)
    BY DEF Ends
  <2>2. Local("idle", 0, NoRow, NoInvoice, 0, {}, NoTarget, org')
    BY LocalIdle
  <2> QED
    BY <2>1, <2>2 DEF Over, Filing
<1>10. Grows(org, org') /\ counter <= counter' /\ row.tax \in 0 .. MaxSerial
  BY GrowsSame, LifecycleAssumption DEF Rows, LifeInv, TypeOK
<1> HIDE DEF j
<1> QED
  BY <1>3, <1>6, <1>7, <1>8, <1>9, <1>10, StepKeeps

\* Requests end and nothing else happens.
LEMMA EndKeeps ==
  ASSUME LifeInv, TypeOK', NEW G \in SUBSET Request, Finish(G), UNCHANGED <<table, counter, org>>
  PROVE  LifeInv'
<1>1. Ends(G)
  BY Finished DEF LifeInv
<1>2. rows' = rows /\ nextId' = nextId /\ counter' = counter /\ org' = org
  BY DEF table
<1>3. \A f \in Held' : Passes(f, 0, 0)
  <2>1. \A i \in Ids : Passes([id |-> i, row |-> rows'[i]], 0, 0)
    BY <1>2, HeldIs DEF Passes
  <2> QED
    BY <1>1, <2>1, HeldAfterEnds
<1>4. \A q \in Request \ G : Same(q) /\ (at[q] = "post" => org'[drawn[q]] = Unknown)
  BY <1>1, <1>2, PostsUnknown DEF Ends
<1>5. ASSUME NEW r \in G
      PROVE  /\ Local(at'[r], id'[r], copy'[r], body'[r], drawn'[r], todo'[r], voided'[r], org')
             /\ at'[r] \notin Filing
  BY <1>1, LocalIdle DEF Ends, Over, Filing
<1>6. Untouched'
  BY <1>2 DEF LifeInv, Untouched
<1>7. counter <= counter' /\ nextId <= nextId' /\ 0 \in 0 .. MaxSerial /\ Grows(org, org')
  BY <1>2, GrowsSame, LifecycleAssumption DEF LifeInv, TypeOK
<1> QED
  BY <1>3, <1>4, <1>5, <1>6, <1>7, StepKeeps

\* A request goes on, holding only rows that were held before.
LEMMA MoveKeeps ==
  ASSUME LifeInv, TypeOK', NEW r \in Request, \A q \in Request \ {r} : Same(q),
         UNCHANGED <<nextId, counter, org>>, Held' \in SUBSET Held,
         \A i \in Ids : rows[i] = NoRow => rows'[i] = NoRow,
         Local(at'[r], id'[r], copy'[r], body'[r], drawn'[r], todo'[r], voided'[r], org'),
         at'[r] \in Filing => at[r] \in Filing /\ drawn'[r] = drawn[r]
  PROVE  LifeInv'
<1>1. \A q \in Request \ {r} : Same(q) /\ (at[q] = "post" => org'[drawn[q]] = Unknown)
  BY PostsUnknown
<1>2. \A f \in Held' : Passes(f, 0, 0)
  BY DEF Passes
<1>3. at'[r] \in Filing =>
        /\ drawn'[r] \in 1 .. counter'
        /\ \A e \in Held' : e.row.tax # drawn'[r]
        /\ \A q \in Request \ {r} : at'[q] \in Filing => drawn'[q] # drawn'[r]
  <2> SUFFICES ASSUME at'[r] \in Filing
               PROVE  /\ drawn'[r] \in 1 .. counter'
                      /\ \A e \in Held' : e.row.tax # drawn'[r]
                      /\ \A q \in Request \ {r} : at'[q] \in Filing => drawn'[q] # drawn'[r]
    OBVIOUS
  <2>1. /\ drawn[r] \in 1 .. counter
        /\ \A e \in Held : e.row.tax # drawn[r]
        /\ \A q \in Request \ {r} : at[q] \in Filing => drawn[q] # drawn[r]
    BY DEF LifeInv, DrawnIsNew
  <2> QED
    BY <2>1 DEF Same
<1>4. Untouched'
  BY DEF LifeInv, Untouched
<1>5. counter <= counter' /\ nextId <= nextId' /\ 0 \in 0 .. MaxSerial /\ Grows(org, org')
  BY GrowsSame, LifecycleAssumption DEF LifeInv, TypeOK
<1> QED
  BY <1>1, <1>2, <1>3, <1>4, <1>5, OneKeeps

\* The writes of PUT, DELETE and of a refused or an answered submit.
LEMMA WritesKeep ==
  ASSUME LifeInv, TypeOK', NEW r \in Request,
         UpdateWrite(r) \/ DeleteWrite(r) \/ SubmitRefuse(r) \/ SubmitSave(r)
  PROVE  LifeInv'
<1>1. /\ rows \in [Ids -> Rows \cup {NoRow}] /\ nextId \in 1 .. MaxId + 1 /\ id[r] \in Ids \cup {0}
      /\ copy[r] \in Rows \cup {NoRow} /\ body[r] \in Invoices /\ drawn[r] \in 0 .. MaxSerial
      /\ counter \in 0 .. MaxSerial /\ 0 \in 0 .. MaxSerial
  BY LifecycleAssumption DEF LifeInv, TypeOK, Serials
<1>2. Local(at[r], id[r], copy[r], body[r], drawn[r], todo[r], voided[r], org)
  BY DEF LifeInv, Locals
<1>3. Finish({r}) /\ UNCHANGED <<counter, org>>
  BY DEF UpdateWrite, DeleteWrite, SubmitRefuse, SubmitSave
<1>4. Ends({r})
  BY <1>3, Finished DEF LifeInv
<1>5. ASSUME NEW row \in Rows, row.tax = 0, row.ref = 0, row.state \in Editable, Save(id[r], row)
      PROVE  LifeInv'
  <2>1. Truthful(row, org)
    BY <1>5 DEF Truthful, Editable
  <2>2. row.tax <= counter
    BY <1>1, <1>5
  <2> QED
    BY <1>1, <1>3, <1>4, <1>5, <2>1, <2>2, SaveKeeps
<1>6. CASE UpdateWrite(r)
  <2> DEFINE row == [state |-> Verified(body[r]), payload |-> body[r], tax |-> 0, ref |-> copy[r].ref]
  <2>1. id[r] # 0 /\ copy[r].ref = 0
    BY <1>2, <1>6 DEF UpdateWrite, Local
  <2>2. Verified(body[r]) \in Editable /\ Verified(body[r]) \in States
    BY DEF Verified, Editable, States
  <2>3. row \in Rows /\ row.tax = 0 /\ row.ref = 0 /\ row.state \in Editable
    BY <1>1, <2>1, <2>2 DEF Rows
  <2>4. rows' = Update(id[r], row) /\ nextId' = nextId
    BY <1>6 DEF UpdateWrite
  <2> HIDE DEF row
  <2>5. Save(id[r], row)
    BY <2>1, <2>4 DEF Save
  <2> QED
    BY <1>5, <2>3, <2>5
<1>7. CASE DeleteWrite(r)
  <2>1. id[r] \in Ids
    BY <1>1, <1>2, <1>7 DEF DeleteWrite, Local
  <2>2. rows' = [rows EXCEPT ![id[r]] = NoRow] /\ nextId' = nextId
    BY <1>7 DEF DeleteWrite
  <2>3. ASSUME NEW i \in Ids PROVE Passes([id |-> i, row |-> rows'[i]], 0, 0)
    <3>1. rows'[i] = rows[i] \/ rows'[i] = NoRow
      BY <1>1, <2>1, <2>2
    <3>2. [id |-> i, row |-> rows[i]] \in Held
      BY HeldIs
    <3>3. Passes([id |-> i, row |-> rows[i]], 0, 0)
      BY <3>2 DEF Passes
    <3> QED
      BY <3>1, <3>3, NoRowPasses
  <2>4. \A f \in Held' : Passes(f, 0, 0)
    BY <1>4, <2>3, HeldAfterEnds
  <2>5. \A q \in Request \ {r} : Same(q) /\ (at[q] = "post" => org'[drawn[q]] = Unknown)
    BY <1>3, <1>4, PostsUnknown DEF Ends
  <2>6. /\ Local(at'[r], id'[r], copy'[r], body'[r], drawn'[r], todo'[r], voided'[r], org')
        /\ at'[r] \notin Filing
    BY <1>4, LocalIdle DEF Ends, Over, Filing
  <2>7. Untouched'
    BY <1>1, <1>3, <2>1, <2>2 DEF LifeInv, Untouched
  <2>8. counter <= counter' /\ nextId <= nextId' /\ Grows(org, org')
    BY <1>1, <1>3, <2>2, GrowsSame
  <2> QED
    BY <1>1, <2>4, <2>5, <2>6, <2>7, <2>8, OneKeeps
<1>8. CASE SubmitRefuse(r)
  <2> DEFINE row == [state |-> "invalid", payload |-> body[r], tax |-> copy[r].tax, ref |-> copy[r].ref]
  <2>1. copy[r].tax = 0 /\ copy[r].ref = 0
    BY <1>2 DEF Local
  <2>2. row \in Rows /\ row.tax = 0 /\ row.ref = 0 /\ row.state \in Editable
    BY <1>1, <2>1 DEF Rows, States, Editable
  <2>3. Save(id[r], row)
    BY <1>8 DEF SubmitRefuse
  <2> HIDE DEF row
  <2> QED
    BY <1>5, <2>2, <2>3
<1>9. CASE SubmitSave(r)
  <2> DEFINE ref == IF at[r] = "accepted" THEN drawn[r] ELSE 0
             row == [state |-> "sent", payload |-> body[r], tax |-> drawn[r], ref |-> ref]
  <2>1. at[r] \in Filing
    BY <1>9 DEF SubmitSave, Filing
  <2>2. /\ drawn[r] \in 1 .. counter
        /\ \A e \in Held : e.row.tax # drawn[r]
        /\ \A q \in Request \ {r} : at[q] \in Filing => drawn[q] # drawn[r]
    BY <2>1 DEF LifeInv, DrawnIsNew
  <2>3. ref # 0 => ref = drawn[r] /\ org[ref] # Unknown /\ org[ref].payload = WithIdentity(body[r], drawn[r])
    BY <1>2 DEF Local
  <2>4. Save(id[r], row)
    BY <1>9 DEF SubmitSave
  <2>5. ref \in 0 .. MaxSerial
    BY <1>1
  <2> HIDE DEF ref
  <2>6. row \in Rows
    BY <1>1, <2>5 DEF Rows, States
  <2>7. Truthful(row, org)
    BY <2>3 DEF Truthful
  <2>8. row.tax = drawn[r] /\ row.tax <= counter
    BY <1>1, <2>2
  <2> HIDE DEF row
  <2>9. /\ {r} \in SUBSET Request
        /\ row.tax # 0 => /\ \A e \in Held : e.row.tax # row.tax
                          /\ \A q \in Request \ {r} : at[q] \in Filing => drawn[q] # row.tax
    BY <2>2, <2>8
  <2>10. id[r] \in Ids \cup {0} /\ LifeInv /\ TypeOK'
    BY <1>1
  <2> QED
    BY ONLY <1>3, <1>4, <2>4, <2>6, <2>7, <2>8, <2>9, <2>10, SaveKeeps
<1> QED
  BY <1>6, <1>7, <1>8, <1>9

\* Nothing is held that was not, if the table, the batches and targets are as before.
LEMMA HeldSame == UNCHANGED <<rows, todo, voided>> => Held' = Held
BY DEF Held, Stored, Batched, Targets, Record

\* What the invariant says of a row of the table.
LEMMA StoredRow ==
  ASSUME LifeInv, NEW i \in Ids
  PROVE  /\ rows[i] \in Rows \cup {NoRow} /\ Truthful(rows[i], org)
         /\ [id |-> i, row |-> rows[i]] \in Held
         /\ rows[i].state \in Editable => rows[i].tax = 0 /\ rows[i].ref = 0 /\ rows[i] # NoRow
         /\ rows[i].ref # 0 => rows[i] \in Rows
<1>1. rows[i] \in Rows \cup {NoRow}
  BY DEF LifeInv, TypeOK
<1>2. [id |-> i, row |-> rows[i]] \in Held
  BY HeldIs
<1>3. EntryOK([id |-> i, row |-> rows[i]], org, counter, nextId)
  BY <1>2 DEF LifeInv, HeldOK
<1>4. Truthful(rows[i], org)
  BY <1>3 DEF EntryOK
<1> QED
  BY <1>1, <1>2, <1>4 DEF Truthful, Editable, NoRow

\* The reads with which a request begins.
LEMMA BeginsKeep ==
  ASSUME LifeInv, TypeOK', NEW r \in Request, Begin(r)
  PROVE  LifeInv'
<1>1. /\ Local(at[r], id[r], copy[r], body[r], drawn[r], todo[r], voided[r], org)
      /\ at \in [Request -> RequestStates] /\ id \in [Request -> Ids \cup {0}]
      /\ copy \in [Request -> Rows \cup {NoRow}] /\ body \in [Request -> Invoices]
      /\ todo \in [Request -> SUBSET Entries] /\ NoRow.tax = 0 /\ NoRow.ref = 0
  BY DEF LifeInv, Locals, TypeOK, NoRow
<1>2. ASSUME UNCHANGED <<table, counter, org, drawn, todo, voided>>, \A q \in Request \ {r} : Same(q),
             NEW i \in Ids \cup {0}, id'[r] = i, copy'[r] = IF i = 0 THEN NoRow ELSE rows[i],
             i # 0 => rows[i].state \in Editable,
             at'[r] \in {"update", "delete"} => i # 0,
             at'[r] \in {"update", "delete", "draw", "refuse"}
      PROVE  LifeInv'
  <2>1. /\ copy'[r].tax = 0 /\ copy'[r].ref = 0
        /\ i = 0 <=> copy'[r] = NoRow
    BY <1>1, <1>2, StoredRow
  <2>2. Local(at'[r], id'[r], copy'[r], body'[r], drawn'[r], todo'[r], voided'[r], org')
    BY <1>1, <1>2, <2>1 DEF Local
  <2>3. at'[r] \notin Filing
    BY <1>2 DEF Filing
  <2>4. Held' \in SUBSET Held /\ UNCHANGED <<nextId, counter, org>> /\ rows' = rows
    BY <1>2, HeldSame DEF table
  <2> QED
    BY <1>2, <2>2, <2>3, <2>4, MoveKeeps
<1>3. ASSUME NEW i \in Ids, NEW inv \in Invoice, UpdateRead(r, i, inv) PROVE LifeInv'
  <2>1. /\ id'[r] = i /\ copy'[r] = rows[i] /\ i # 0 /\ rows[i].state \in Editable /\ at'[r] = "update"
        /\ UNCHANGED <<table, counter, org, drawn, todo, voided>>
    BY <1>1, <1>3, LifecycleAssumption DEF UpdateRead, EditRead, Goto, Ids
  <2>2. \A q \in Request \ {r} : Same(q)
    BY <1>1, <1>3 DEF UpdateRead, EditRead, Goto, Same
  <2> QED
    BY <1>2, <2>1, <2>2
<1>4. ASSUME NEW i \in Ids, DeleteRead(r, i) PROVE LifeInv'
  <2>1. /\ id'[r] = i /\ copy'[r] = rows[i] /\ i # 0 /\ rows[i].state \in Editable /\ at'[r] = "delete"
        /\ UNCHANGED <<table, counter, org, drawn, todo, voided>>
    BY <1>1, <1>4, LifecycleAssumption DEF DeleteRead, EditRead, Goto, Ids
  <2>2. \A q \in Request \ {r} : Same(q)
    BY <1>1, <1>4 DEF DeleteRead, EditRead, Goto, Same
  <2> QED
    BY <1>2, <2>1, <2>2
<1>5. ASSUME NEW i \in Ids \cup {0}, NEW inv \in Invoice, SubmitRead(r, i, inv) PROVE LifeInv'
  <2>1. /\ id'[r] = i /\ copy'[r] = IF i = 0 THEN NoRow ELSE rows[i]
        /\ at'[r] \in {"draw", "refuse"}
        /\ UNCHANGED <<table, counter, org, drawn, todo, voided>>
    BY <1>1, <1>5 DEF SubmitRead, Goto
  <2>2. \A q \in Request \ {r} : Same(q)
    BY <1>1, <1>5 DEF SubmitRead, Goto, Same
  <2>3. i # 0 => rows[i].state \in Editable
    BY <1>5 DEF SubmitRead
  <2> QED
    BY <1>2, <2>1, <2>2, <2>3
<1>6. ASSUME NEW C \in SUBSET Ids, \A i \in C : rows[i].ref # 0, InquireRead(r, C) PROVE LifeInv'
  <2>1. /\ at'[r] = "inquire" /\ todo'[r] = {Record(i) : i \in C}
        /\ UNCHANGED <<table, counter, org, id, copy, body, drawn, voided>>
    BY <1>1, <1>6 DEF InquireRead, Goto
  <2>2. \A q \in Request \ {r} : Same(q)
    BY <1>1, <1>6 DEF InquireRead, Goto, Same
  <2>3. ASSUME NEW e \in todo'[r]
        PROVE  e.row.ref # 0 /\ \E i \in Ids : e = [id |-> i, row |-> rows[i]]
    BY <1>6, <2>1 DEF Record
  <2>4. ASSUME NEW f \in Held' PROVE f \in Held
    <3>1. CASE \E i \in Ids : f = [id |-> i, row |-> rows'[i]]
      BY <2>1, <3>1, HeldIs DEF table
    <3>2. CASE \E q \in Request : f \in todo'[q] \/ f = voided'[q]
      <4>1. PICK q \in Request : f \in todo'[q] \/ f = voided'[q]
        BY <3>2
      <4>2. CASE q = r /\ f \in todo'[r]
        BY <2>3, <4>2, HeldIs
      <4>3. CASE q # r \/ f = voided'[q]
        <5>1. f \in todo[q] \/ f = voided[q]
          BY <2>1, <2>2, <4>1, <4>3 DEF Same
        <5> QED
          BY <5>1, HeldIs
      <4> QED
        BY <4>1, <4>2, <4>3
    <3> QED
      BY <3>1, <3>2, HeldIs
  <2>5. Local(at'[r], id'[r], copy'[r], body'[r], drawn'[r], todo'[r], voided'[r], org')
    BY <1>1, <2>1, <2>3 DEF Local
  <2>6. at'[r] \notin Filing
    BY <2>1 DEF Filing
  <2>7. rows' = rows /\ UNCHANGED <<nextId, counter, org>> /\ Held' \in SUBSET Held
    BY <2>1, <2>4 DEF table
  <2> QED
    BY <2>2, <2>5, <2>6, <2>7, MoveKeeps
<1>7. CASE InquirePending(r)
  <2>1. Awaiting \in SUBSET Ids /\ \A i \in Awaiting : rows[i].ref # 0
    BY DEF Awaiting
  <2> QED
    BY <1>6, <1>7, <2>1 DEF InquirePending
<1>8. ASSUME NEW i \in Ids, InquireOne(r, i) PROVE LifeInv'
  <2>1. {i} \in SUBSET Ids /\ \A k \in {i} : rows[k].ref # 0
    BY <1>8 DEF InquireOne
  <2> QED
    BY <1>6, <1>8, <2>1 DEF InquireOne
<1> QED
  BY <1>3, <1>4, <1>5, <1>7, <1>8 DEF Begin

\* Drawing a serial, and the organization's side of a filing.
LEMMA FilingKeeps ==
  ASSUME LifeInv, TypeOK', NEW r \in Request, SubmitDraw(r) \/ OrgAccepts(r) \/ OrgIgnores(r)
  PROVE  LifeInv'
<1>1. /\ Local(at[r], id[r], copy[r], body[r], drawn[r], todo[r], voided[r], org)
      /\ at \in [Request -> RequestStates] /\ drawn \in [Request -> Serials \cup {0}]
      /\ counter \in 0 .. MaxSerial /\ MaxSerial \in Nat /\ 0 \in 0 .. MaxSerial
      /\ org \in [Serials -> Filings \cup {Unknown}] /\ Untouched
  BY LifecycleAssumption DEF LifeInv, Locals, TypeOK
<1>2. UNCHANGED <<rows, nextId, id, copy, body, todo, voided>> /\ Held' = Held /\ nextId <= nextId'
  BY HeldSame, LifecycleAssumption DEF SubmitDraw, OrgAccepts, OrgIgnores, table, mine, LifeInv, TypeOK
<1>3. \A f \in Held' : Passes(f, 0, 0)
  BY <1>2 DEF Passes
<1>4. CASE SubmitDraw(r)
  <2>1. /\ counter' = counter + 1 /\ drawn' = [drawn EXCEPT ![r] = counter + 1] /\ at'[r] = "post"
        /\ counter < MaxSerial /\ org' = org
    BY <1>1, <1>4 DEF SubmitDraw, Goto
  <2>2. \A q \in Request \ {r} : Same(q) /\ (at[q] = "post" => org'[drawn[q]] = Unknown)
    BY <1>1, <1>2, <1>4, <2>1, PostsUnknown DEF SubmitDraw, Goto, Same
  <2>3. drawn'[r] = counter + 1 /\ counter + 1 \in Serials
    BY <1>1, <2>1 DEF Serials
  <2>4. org'[drawn'[r]] = Unknown
    BY <1>1, <2>1, <2>3 DEF Untouched
  <2>5. Local(at'[r], id'[r], copy'[r], body'[r], drawn'[r], todo'[r], voided'[r], org')
    BY <1>1, <1>2, <2>1, <2>4 DEF Local
  <2>6. \A e \in Held' : e.row.tax # drawn'[r]
    <3>1. ASSUME NEW e \in Held PROVE e.row.tax <= counter /\ e.row.tax \in Nat
      <4>1. e.row \in Rows \cup {NoRow}
        BY HeldTypes DEF LifeInv, Holdings
      <4>2. e.row.tax \in 0 .. MaxSerial
        BY <4>1, RowFields
      <4> QED
        BY <4>2 DEF LifeInv, HeldOK, EntryOK
    <3> QED
      BY <1>1, <1>2, <2>3, <3>1
  <2>7. ASSUME NEW q \in Request \ {r}, at'[q] \in Filing PROVE drawn'[q] # drawn'[r]
    <3>1. drawn[q] \in 1 .. counter
      BY <2>2, <2>7 DEF Same, LifeInv, DrawnIsNew
    <3> QED
      BY <1>1, <2>2, <2>3, <3>1 DEF Same
  <2>8. drawn'[r] \in 1 .. counter'
    BY <1>1, <2>1, <2>3
  <2>9. Untouched'
    <3>1. counter \in Nat /\ counter' = counter + 1 /\ org' = org /\ UNCHANGED <<rows, nextId>> /\ nextId' = nextId
      BY <1>1, <1>2, <2>1
    <3>2. \A s \in Serials : s > counter' => s > counter
      BY ONLY <3>1, LifecycleAssumption DEF Serials
    <3> QED
      BY <1>1, <3>1, <3>2 DEF Untouched
  <2>10. Grows(org, org') /\ counter <= counter'
    BY <1>1, <2>1, GrowsSame
  <2> QED
    BY <1>1, <1>2, <1>3, <2>2, <2>5, <2>6, <2>7, <2>8, <2>9, <2>10, OneKeeps
<1>5. CASE OrgAccepts(r)
  <2>1. /\ at[r] = "post" /\ at'[r] = "accepted" /\ drawn' = drawn /\ counter' = counter
        /\ org' = [org EXCEPT ![drawn[r]] = [status |-> "in_progress", payload |-> WithIdentity(body[r], drawn[r])]]
    BY <1>1, <1>5 DEF OrgAccepts, Goto, mine
  <2>2. /\ drawn[r] \in 1 .. counter /\ org[drawn[r]] = Unknown /\ drawn[r] \in Serials
        /\ \A e \in Held : e.row.tax # drawn[r]
        /\ \A q \in Request \ {r} : at[q] \in Filing => drawn[q] # drawn[r]
    <3>1. at[r] \in Filing
      BY <2>1 DEF Filing
    <3> QED
      BY <1>1, <2>1, <3>1, PostsUnknown DEF LifeInv, DrawnIsNew, Serials
  <2>3. \A q \in Request \ {r} : Same(q)
    BY <1>1, <1>2, <1>5, <2>1 DEF OrgAccepts, Goto, Same
  <2>4. ASSUME NEW q \in Request \ {r}, at[q] = "post" PROVE org'[drawn[q]] = Unknown
    <3>1. org[drawn[q]] = Unknown /\ drawn[q] # drawn[r] /\ drawn[q] \in Serials
      <4>1. at[q] \in Filing
        BY <2>4 DEF Filing
      <4>2. drawn[q] \in 1 .. counter
        BY <4>1 DEF LifeInv, DrawnIsNew
      <4> QED
        BY <1>1, <2>2, <2>4, <4>1, <4>2, PostsUnknown DEF Serials
    <3> QED
      BY <1>1, <2>1, <3>1
  <2>5. Grows(org, org')
    BY <1>1, <2>1, <2>2 DEF Grows, Unknown
  <2>6. org'[drawn[r]] # Unknown /\ org'[drawn[r]].payload = WithIdentity(body[r], drawn[r])
    BY <1>1, <2>1, <2>2 DEF Unknown
  <2>7. Local(at'[r], id'[r], copy'[r], body'[r], drawn'[r], todo'[r], voided'[r], org')
    BY <1>1, <1>2, <2>1, <2>6 DEF Local
  <2>8. Untouched'
    BY <1>1, <1>2, <2>1, <2>2 DEF Untouched, Serials
  <2>9. /\ drawn'[r] \in 1 .. counter'
        /\ \A e \in Held' : e.row.tax # drawn'[r]
        /\ \A q \in Request \ {r} : at'[q] \in Filing => drawn'[q] # drawn'[r]
    BY <1>2, <2>1, <2>2, <2>3 DEF Same
  <2>10. counter <= counter'
    BY <1>1, <2>1
  <2> QED
    BY <1>1, <1>2, <1>3, <2>3, <2>4, <2>5, <2>7, <2>8, <2>9, <2>10, OneKeeps
<1>6. CASE OrgIgnores(r)
  <2>1. /\ at[r] = "post" /\ at'[r] = "ignored" /\ drawn' = drawn /\ counter' = counter /\ org' = org
    BY <1>1, <1>6 DEF OrgIgnores, Goto, mine
  <2>2. \A q \in Request \ {r} : Same(q)
    BY <1>1, <1>2, <1>6, <2>1 DEF OrgIgnores, Goto, Same
  <2>3. Local(at'[r], id'[r], copy'[r], body'[r], drawn'[r], todo'[r], voided'[r], org')
    BY <1>1, <1>2, <2>1 DEF Local
  <2>4. at'[r] \in Filing => at[r] \in Filing /\ drawn'[r] = drawn[r]
    BY <2>1 DEF Filing
  <2> QED
    BY <1>2, <2>1, <2>2, <2>3, <2>4, MoveKeeps
<1> QED
  BY <1>4, <1>5, <1>6

\* The steps of an inquiry.
LEMMA AnswerKeeps ==
  ASSUME LifeInv, TypeOK', NEW r \in Request, InquireAnswer(r)
  PROVE  LifeInv'
<1>1. /\ Local(at[r], id[r], copy[r], body[r], drawn[r], todo[r], voided[r], org)
      /\ at \in [Request -> RequestStates] /\ todo \in [Request -> SUBSET Entries]
      /\ 0 \in 0 .. MaxSerial /\ org \in [Serials -> Filings \cup {Unknown}]
  BY LifecycleAssumption DEF LifeInv, Locals, TypeOK
<1>2. PICK answered \in SUBSET todo[r], found \in SUBSET todo[r] :
        /\ Goto(r, "inquire", "apply")
        /\ todo' = [todo EXCEPT ![r] =
             {IF e \in found THEN [e EXCEPT !.row.state = Verdict(@, org[e.row.ref].status)] ELSE e : e \in answered}]
  BY DEF InquireAnswer
<1>3. /\ at'[r] = "apply" /\ UNCHANGED <<rows, nextId, counter, org, id, copy, body, drawn, voided>>
      /\ \A q \in Request \ {r} : Same(q)
  BY <1>1, <1>2 DEF InquireAnswer, Goto, Same, table
<1>4. ASSUME NEW f \in todo'[r]
      PROVE  f.row.ref # 0 /\ Passes(f, 0, 0)
  <2>1. PICK e \in answered : f = IF e \in found THEN [e EXCEPT !.row.state = Verdict(@, org[e.row.ref].status)] ELSE e
    BY <1>1, <1>2, <1>4
  <2>2. e \in todo[r] /\ e \in Entries /\ e \in Held /\ e.row.ref # 0
    BY <1>1, <1>2, HeldIs DEF Local
  <2>3. CASE f = e
    BY <2>2, <2>3 DEF Passes
  <2>4. CASE e \in found
    <3> DEFINE v == Verdict(e.row.state, org[e.row.ref].status)
    <3>1. f = [id |-> e.id, row |-> [state |-> v, payload |-> e.row.payload, tax |-> e.row.tax, ref |-> e.row.ref]]
      BY <2>1, <2>2, <2>4, Answered
    <3>2. Truthful(e.row, org) /\ e.row.tax <= counter /\ e.id \in 1 .. nextId - 1
      <4>1. EntryOK(e, org, counter, nextId)
        BY <2>2 DEF LifeInv, HeldOK
      <4>2. e.row # NoRow
        BY <2>2 DEF NoRow
      <4> QED
        BY <4>1, <4>2 DEF EntryOK
    <3>3. \/ v = "confirmed" /\ org[e.row.ref].status = "success"
          \/ v = "rejected" /\ org[e.row.ref].status = "failed"
          \/ v = e.row.state
      BY DEF Verdict
    <3> HIDE DEF v
    <3>4. Truthful([state |-> v, payload |-> e.row.payload, tax |-> e.row.tax, ref |-> e.row.ref], org)
      <4>1. v \in {"none", "draft", "invalid"} => v = e.row.state
        BY <3>3
      <4>2. e.row.state \notin {"none", "draft", "invalid"}
        BY <2>2, <3>2 DEF Truthful
      <4>3. v \notin {"none", "draft", "invalid"}
        BY <4>1, <4>2
      <4>4. v = "confirmed" => org[e.row.ref].status = "success"
        BY <3>2, <3>3 DEF Truthful
      <4>5. v = "rejected" => org[e.row.ref].status = "failed"
        BY <3>2, <3>3 DEF Truthful
      <4>6. v = "cancelled" => Cause(org, e.row.tax)
        BY <3>2, <3>3 DEF Truthful
      <4> QED
        BY <2>2, <3>2, <4>3, <4>4, <4>5, <4>6 DEF Truthful
    <3>5. EntryOK(f, org', counter', nextId')
      BY <1>3, <3>1, <3>2, <3>4 DEF EntryOK
    <3>6. f.id = e.id /\ f.row.tax = e.row.tax /\ f.row.ref = e.row.ref
      BY <3>1
    <3> QED
      BY <2>2, <3>5, <3>6 DEF Passes
  <2> QED
    BY <2>1, <2>3, <2>4
<1>5. ASSUME NEW f \in Held' PROVE Passes(f, 0, 0)
  <2>1. CASE \E i \in Ids : f = [id |-> i, row |-> rows'[i]]
    BY <1>3, <2>1, HeldIs DEF Passes
  <2>2. CASE \E q \in Request : f \in todo'[q] \/ f = voided'[q]
    <3>1. PICK q \in Request : f \in todo'[q] \/ f = voided'[q]
      BY <2>2
    <3>2. CASE q = r /\ f \in todo'[r]
      BY <1>4, <3>2
    <3>3. CASE q # r \/ f = voided'[q]
      <4>1. f \in todo[q] \/ f = voided[q]
        BY <1>3, <3>1, <3>3 DEF Same
      <4> QED
        BY <4>1, HeldIs DEF Passes
    <3> QED
      BY <3>1, <3>2, <3>3
  <2> QED
    BY <2>1, <2>2, HeldIs
<1>6. Local(at'[r], id'[r], copy'[r], body'[r], drawn'[r], todo'[r], voided'[r], org')
  BY <1>1, <1>3, <1>4 DEF Local
<1>7. at'[r] \notin Filing
  BY <1>3 DEF Filing
<1>8. \A q \in Request \ {r} : Same(q) /\ (at[q] = "post" => org'[drawn[q]] = Unknown)
  BY <1>3, PostsUnknown
<1>9. Untouched' /\ counter <= counter' /\ nextId <= nextId' /\ Grows(org, org')
  BY <1>3, GrowsSame, LifecycleAssumption DEF LifeInv, Untouched, TypeOK
<1> QED
  BY <1>1, <1>5, <1>6, <1>7, <1>8, <1>9, OneKeeps

\* An entry is what it is made of.
LEMMA EntryIs == ASSUME NEW e \in Entries PROVE e = [id |-> e.id, row |-> e.row]
BY DEF Entries

\* A copy from the batch is written back.
LEMMA ApplyKeeps ==
  ASSUME LifeInv, TypeOK', NEW r \in Request, ApplyVerdict(r)
  PROVE  LifeInv'
<1>1. /\ Local(at[r], id[r], copy[r], body[r], drawn[r], todo[r], voided[r], org)
      /\ at \in [Request -> RequestStates] /\ todo \in [Request -> SUBSET Entries]
      /\ rows \in [Ids -> Rows \cup {NoRow}]
  BY DEF LifeInv, Locals, TypeOK
<1>2. PICK e \in Entries : e = Oldest(r) /\ e \in todo[r]
  BY <1>1, OldestIs DEF ApplyVerdict
<1>3. /\ rows' = Update(e.id, e.row)
      /\ UNCHANGED <<nextId, counter, org, id, copy, body, drawn, voided>>
      /\ \A q \in Request \ {r} : Same(q)
  BY <1>1, <1>2 DEF ApplyVerdict, Same
<1>4. \/ /\ at'[r] = "find" /\ todo'[r] = todo[r]
         /\ e.row.state = "confirmed" /\ e.row.payload.voids # 0
      \/ at'[r] = "apply" /\ todo'[r] \in SUBSET todo[r]
  BY <1>1, <1>2 DEF ApplyVerdict
<1>5. \A i \in Ids : rows'[i] = IF i = e.id /\ rows[e.id] # NoRow THEN e.row ELSE rows[i]
  <2>1. e.id \in Ids \cup {0} /\ e.row \in Rows \cup {NoRow}
    BY DEF Entries
  <2> QED
    BY <1>1, <1>3, <2>1, Updated
<1>6. ASSUME NEW f \in Held' PROVE f \in Held
  <2>1. ASSUME NEW i \in Ids, f = [id |-> i, row |-> rows'[i]] PROVE f \in Held
    <3>1. CASE rows'[i] = rows[i]
      BY <2>1, <3>1, HeldIs
    <3>2. CASE rows'[i] # rows[i]
      <4>1. f = e
        BY <1>5, <2>1, <3>2, EntryIs
      <4> QED
        BY <1>2, <4>1, HeldIs
    <3> QED
      BY <3>1, <3>2
  <2>2. ASSUME NEW q \in Request, f \in todo'[q] \/ f = voided'[q] PROVE f \in Held
    <3>1. f \in todo[q] \/ f = voided[q]
      BY <1>3, <1>4, <2>2 DEF Same
    <3> QED
      BY <3>1, HeldIs
  <2> QED
    BY <2>1, <2>2, HeldIs
<1>7. Local(at'[r], id'[r], copy'[r], body'[r], drawn'[r], todo'[r], voided'[r], org')
  <2>1. CASE at'[r] = "apply" /\ todo'[r] \in SUBSET todo[r]
    BY <1>1, <1>3, <2>1 DEF Local
  <2>2. CASE /\ at'[r] = "find" /\ todo'[r] = todo[r]
             /\ e.row.state = "confirmed" /\ e.row.payload.voids # 0
    BY <1>1, <1>2, <1>3, <2>2 DEF Local, Oldest
  <2> QED
    BY <1>4, <2>1, <2>2
<1>8. at'[r] \notin Filing
  BY <1>4 DEF Filing
<1>9. \A i \in Ids : rows[i] = NoRow => rows'[i] = NoRow
  BY <1>5
<1> QED
  BY <1>3, <1>6, <1>7, <1>8, <1>9, MoveKeeps

\* The target of a voiding is read.
LEMMA FindKeeps ==
  ASSUME LifeInv, TypeOK', NEW r \in Request, CancelFind(r)
  PROVE  LifeInv'
<1>1. /\ Local(at[r], id[r], copy[r], body[r], drawn[r], todo[r], voided[r], org)
      /\ at \in [Request -> RequestStates] /\ todo \in [Request -> SUBSET Entries]
      /\ voided \in [Request -> Entries \cup {NoTarget}] /\ at[r] = "find"
  BY DEF LifeInv, Locals, TypeOK, NoTarget, CancelFind
<1>2. PICK e \in Entries : e = Oldest(r) /\ e \in todo[r]
  BY <1>1, OldestIs DEF Local
<1> DEFINE carriers == {i \in Ids : Exists(i) /\ rows[i].tax = e.row.payload.voids}
           newest   == CHOOSE i \in carriers : \A j \in carriers : j <= i
<1>3. /\ UNCHANGED <<rows, nextId, counter, org, id, copy, body, drawn>>
      /\ todo'[r] \in SUBSET todo[r]
      /\ \A q \in Request \ {r} : Same(q)
      /\ \/ at'[r] = "apply" /\ UNCHANGED voided
         \/ at'[r] = "cancel" /\ carriers # {} /\ voided'[r] = Record(newest)
  BY <1>1, <1>2 DEF CancelFind, Same, table
<1>4. carriers # {} =>
        newest \in Ids /\ Record(newest) = [id |-> newest, row |-> rows[newest]]
        /\ rows[newest] # NoRow /\ rows[newest].tax = e.row.payload.voids
  <2>1. carriers \in SUBSET Ids
    OBVIOUS
  <2>2. carriers # {} => newest \in carriers
    <3> HIDE DEF carriers
    <3> QED
      BY <2>1, NewestIs
  <2> HIDE DEF newest
  <2> QED
    BY <2>2 DEF Record, Exists
<1> HIDE DEF carriers, newest
<1>5. ASSUME NEW f \in Held' PROVE f \in Held
  <2>1. ASSUME NEW i \in Ids, f = [id |-> i, row |-> rows'[i]] PROVE f \in Held
    BY <1>3, <2>1, HeldIs
  <2>2. ASSUME NEW q \in Request, f \in todo'[q] \/ f = voided'[q] PROVE f \in Held
    <3>1. CASE f \in todo[q] \/ f = voided[q]
      BY <3>1, HeldIs
    <3>2. CASE q = r /\ carriers # {} /\ f = Record(newest)
      BY <1>4, <3>2, HeldIs
    <3> QED
      BY <1>3, <2>2, <3>1, <3>2 DEF Same
  <2> QED
    BY <2>1, <2>2, HeldIs
<1>6. Cause(org, e.row.payload.voids)
  <2>1. EntryOK(e, org, counter, nextId)
    BY <1>2, HeldIs DEF LifeInv, HeldOK
  <2>2. e.row.state = "confirmed"
    BY <1>1, <1>2 DEF Local, Oldest
  <2>3. e.row.ref # 0 /\ org[e.row.ref].status = "success"
        /\ org[e.row.ref].payload = WithIdentity(e.row.payload, e.row.tax)
    BY <2>1, <2>2 DEF EntryOK, Truthful
  <2>4. e.row.ref \in Serials
    BY <2>3, LifecycleAssumption DEF Entries, Rows, Serials
  <2>5. e.row \in Rows \cup {NoRow}
    BY DEF Entries
  <2>6. WithIdentity(e.row.payload, e.row.tax).voids = e.row.payload.voids
    BY <2>5, RowFields, Identity
  <2> QED
    BY <2>3, <2>4, <2>6 DEF Cause
<1>7. Local(at'[r], id'[r], copy'[r], body'[r], drawn'[r], todo'[r], voided'[r], org')
  <2>1. CASE at'[r] = "apply" /\ UNCHANGED voided
    BY <1>1, <1>3, <2>1 DEF Local
  <2>2. CASE at'[r] = "cancel" /\ carriers # {} /\ voided'[r] = Record(newest)
    <3>1. voided'[r].row # NoRow /\ Cause(org, voided'[r].row.tax)
      BY <1>4, <1>6, <2>2
    <3> QED
      BY <1>1, <1>3, <2>2, <3>1 DEF Local
  <2> QED
    BY <1>3, <2>1, <2>2
<1>8. at'[r] \notin Filing
  BY <1>3 DEF Filing
<1> QED
  BY <1>3, <1>5, <1>7, <1>8, MoveKeeps

\* The target is marked.
LEMMA CancelKeeps ==
  ASSUME LifeInv, TypeOK', NEW r \in Request, CancelWrite(r)
  PROVE  LifeInv'
<1>1. /\ Local(at[r], id[r], copy[r], body[r], drawn[r], todo[r], voided[r], org)
      /\ at \in [Request -> RequestStates] /\ at[r] = "cancel" /\ 0 \in 0 .. MaxSerial
      /\ voided \in [Request -> Entries \cup {NoTarget}]
      /\ rows \in [Ids -> Rows \cup {NoRow}]
  BY LifecycleAssumption DEF LifeInv, Locals, TypeOK, NoTarget, CancelWrite, Goto
<1>2. PICK e \in Entries : e = voided[r] /\ e \in Held /\ Cause(org, e.row.tax)
  BY <1>1, HeldIs DEF Local, NoTarget
<1> DEFINE row == [voided[r].row EXCEPT !.state = "cancelled"]
<1>3. /\ rows' = Update(e.id, row) /\ at'[r] = "apply" /\ voided'[r] = NoTarget
      /\ UNCHANGED <<nextId, counter, org, id, copy, body, drawn, todo>>
      /\ \A q \in Request \ {r} : Same(q)
  BY <1>1, <1>2 DEF CancelWrite, Goto, Same, NoTarget
<1>4. /\ row = [state |-> "cancelled", payload |-> e.row.payload, tax |-> e.row.tax, ref |-> e.row.ref]
      /\ row \in Rows
  <2>1. e.row \in Rows \cup {NoRow} /\ "cancelled" \in States
    BY DEF Entries, States
  <2> QED
    BY <1>2, <2>1, Restated
<1> HIDE DEF row
<1>5. \A i \in Ids : rows'[i] = IF i = e.id /\ rows[e.id] # NoRow THEN row ELSE rows[i]
  <2>1. e.id \in Ids \cup {0} /\ row \in Rows \cup {NoRow}
    BY <1>4 DEF Entries
  <2>2. \A i \in Ids : Update(e.id, row)[i] = IF i = e.id /\ rows[e.id] # NoRow THEN row ELSE rows[i]
    BY <1>1, <2>1, Updated
  <2> QED
    BY <1>3, <2>2
<1>6. Passes([id |-> e.id, row |-> row], 0, 0)
  <2>1. EntryOK(e, org, counter, nextId) /\ e.row # NoRow
    BY <1>2 DEF LifeInv, HeldOK, Entries, Rows, NoRow, States
  <2>2. Truthful(row, org)
    BY <1>2, <1>4, <2>1 DEF EntryOK, Truthful
  <2>3. EntryOK([id |-> e.id, row |-> row], org', counter', nextId')
    BY <1>3, <1>4, <2>1, <2>2 DEF EntryOK
  <2> QED
    BY <1>2, <1>4, <2>3 DEF Passes
<1>7. ASSUME NEW f \in Held' PROVE Passes(f, 0, 0)
  <2>1. ASSUME NEW i \in Ids, f = [id |-> i, row |-> rows'[i]] PROVE Passes(f, 0, 0)
    <3>1. CASE rows'[i] = rows[i]
      BY <2>1, <3>1, HeldIs DEF Passes
    <3>2. CASE rows'[i] # rows[i]
      BY <1>5, <1>6, <2>1, <3>2
    <3> QED
      BY <3>1, <3>2
  <2>2. ASSUME NEW q \in Request, f \in todo'[q] \/ f = voided'[q] PROVE Passes(f, 0, 0)
    <3>1. CASE f \in todo[q] \/ f = voided[q]
      BY <3>1, HeldIs DEF Passes
    <3>2. CASE f = NoTarget
      BY <3>2, NoRowPasses DEF NoTarget
    <3> QED
      BY <1>3, <2>2, <3>1, <3>2 DEF Same
  <2> QED
    BY <2>1, <2>2, HeldIs
<1>8. Local(at'[r], id'[r], copy'[r], body'[r], drawn'[r], todo'[r], voided'[r], org')
  BY <1>1, <1>3 DEF Local
<1>9. at'[r] \notin Filing
  BY <1>3 DEF Filing
<1>10. \A q \in Request \ {r} : Same(q) /\ (at[q] = "post" => org'[drawn[q]] = Unknown)
  BY <1>3, PostsUnknown
<1>11. Untouched'
  BY <1>3, <1>5 DEF LifeInv, Untouched
<1>12. counter <= counter' /\ nextId <= nextId' /\ Grows(org, org')
  BY <1>3, GrowsSame, LifecycleAssumption DEF LifeInv, TypeOK
<1> QED
  BY <1>1, <1>7, <1>8, <1>9, <1>10, <1>11, <1>12, OneKeeps

\* An invoice is saved, the organization rules, a worker is killed.
LEMMA OthersKeep ==
  ASSUME LifeInv, TypeOK'
  PROVE  /\ \A inv \in Invoice : SaveInvoice(inv) => LifeInv'
         /\ \A s \in Serials : OrgRules(s) => LifeInv'
         /\ \A w \in Worker : Crash(w) => LifeInv'
<1>1. ASSUME NEW inv \in Invoice, SaveInvoice(inv) PROVE LifeInv'
  <2> DEFINE row == [state |-> Verified(inv), payload |-> inv, tax |-> 0, ref |-> 0]
  <2>1. row \in Rows /\ Insert(row) /\ row.tax = 0
    BY <1>1, SavedRow DEF SaveInvoice
  <2>2. Truthful(row, org)
    BY DEF Truthful, Verified
  <2> HIDE DEF row
  <2>3. Save(0, row)
    BY <2>1 DEF Save
  <2>4. PICK G \in SUBSET Request : G = {}
    OBVIOUS
  <2>5. Ends(G) /\ UNCHANGED <<counter, org>>
    BY <1>1, <2>4 DEF Ends, Same, SaveInvoice, mine
  <2>6. row.tax <= counter
    BY <2>1, LifecycleAssumption DEF LifeInv, TypeOK
  <2> QED
    BY <2>1, <2>2, <2>3, <2>5, <2>6, SaveKeeps
<1>2. ASSUME NEW s \in Serials, OrgRules(s) PROVE LifeInv'
  <2>1. PICK verdict \in {"success", "failed"} : org' = [org EXCEPT ![s].status = verdict]
    BY <1>2 DEF OrgRules
  <2>2. /\ org \in OrgStates /\ org[s] \in Filings /\ org[s].status = "in_progress" /\ org[s] # Unknown
        /\ UNCHANGED <<rows, nextId, counter, at, id, copy, body, drawn, todo, voided>>
    BY <1>2 DEF LifeInv, TypeOK, OrgRules, Unknown, table, mine, OrgStates
  <2>3. org'[s] = [status |-> verdict, payload |-> org[s].payload] /\ \A k \in Serials \ {s} : org'[k] = org[k]
    <3>1. PICK p, u : org[s] = [status |-> u, payload |-> p]
      BY <2>2 DEF Filings
    <3>2. org'[s] = [org[s] EXCEPT !.status = verdict]
      BY <2>1, <2>2 DEF OrgStates
    <3> QED
      BY <2>1, <2>2, <3>1, <3>2 DEF OrgStates
  <2>4. Grows(org, org')
    <3>1. org'[s] # Unknown
      BY <2>3 DEF Unknown
    <3> QED
      BY <2>2, <2>3, <3>1 DEF Grows
  <2>5. ASSUME NEW q \in Request, at[q] = "post" PROVE org'[drawn[q]] = Unknown
    <3>1. org[drawn[q]] = Unknown /\ drawn[q] \in Serials
      <4>1. drawn[q] \in 1 .. counter
        BY <2>5 DEF LifeInv, DrawnIsNew, Filing
      <4> QED
        BY <2>5, <4>1, PostsUnknown, LifecycleAssumption DEF LifeInv, TypeOK, Serials
    <3> QED
      BY <2>2, <2>3, <3>1
  <2>6. Held' = Held
    BY <2>2, HeldSame
  <2>7. \A f \in Held' : Passes(f, 0, 0)
    BY <2>6 DEF Passes
  <2>8. Untouched'
    BY <2>2, <2>3 DEF LifeInv, Untouched
  <2>9. PICK G \in SUBSET Request : G = {}
    OBVIOUS
  <2>10. \A q \in Request \ G : Same(q) /\ (at[q] = "post" => org'[drawn[q]] = Unknown)
    BY <2>2, <2>5 DEF Same
  <2>11. counter <= counter' /\ nextId <= nextId' /\ 0 \in 0 .. MaxSerial
    BY <2>2, LifecycleAssumption DEF LifeInv, TypeOK
  <2> QED
    BY <2>4, <2>7, <2>8, <2>9, <2>10, <2>11, StepKeeps
<1>3. ASSUME NEW w \in Worker, Crash(w) PROVE LifeInv'
  <2>1. {r \in Request : WorkerOf[r] = w} \in SUBSET Request
    OBVIOUS
  <2> QED
    BY <1>3, <2>1, EndKeeps DEF Crash
<1> QED
  BY <1>1, <1>2, <1>3

\* LifeInv is inductive.
LEMMA LifeStep == LifeInv /\ [Next]_vars => LifeInv'
<1> SUFFICES ASSUME LifeInv, [Next]_vars PROVE LifeInv'
  OBVIOUS
<1>1. TypeOK'
  BY TypeStep DEF LifeInv
<1>2. ASSUME NEW r \in Request, Continue(r) PROVE LifeInv'
  <2>1. CASE SubmitExhausted(r) \/ SubmitFails(r) \/ InquireFails(r) \/ InquireDone(r)
    <3>1. Finish({r}) /\ UNCHANGED <<table, counter, org>>
      BY <2>1 DEF SubmitExhausted, SubmitFails, InquireFails, InquireDone
    <3> QED
      BY <1>1, <3>1, EndKeeps
  <2> QED
    BY <1>1, <1>2, <2>1, WritesKeep, FilingKeeps, AnswerKeeps, ApplyKeeps, FindKeeps, CancelKeeps DEF Continue
<1>3. CASE UNCHANGED vars
  <2>1. UNCHANGED <<rows, nextId, counter, org, at, id, copy, body, drawn, todo, voided>>
    BY <1>3 DEF vars
  <2>2. Held' = Held
    BY <2>1, HeldSame
  <2> QED
    BY <1>1, <2>1, <2>2 DEF LifeInv, HeldOK, DrawnIsNew, Locals, Untouched
<1> QED
  BY <1>1, <1>2, <1>3, BeginsKeep, OthersKeep DEF Next

\* LifeInv holds at first.
LEMMA LifeInit == Init => LifeInv
<1> SUFFICES ASSUME Init PROVE LifeInv
  OBVIOUS
<1>1. TypeOK
  BY TypeInit
<1>2. ASSUME NEW e \in Held PROVE e.row = NoRow
  BY HeldIs DEF Init
<1>3. NoRow.tax = 0 /\ NoRow.ref = 0 /\ NoRow.state = "none"
  BY DEF NoRow
<1>4. HeldOK
  BY <1>2, <1>3 DEF Init, HeldOK, EntryOK, Truthful, SameRecord
<1>5. Locals
  BY LocalIdle DEF Init, Locals, NoTarget
<1>6. DrawnIsNew /\ Untouched
  BY DEF Init, DrawnIsNew, Filing, Untouched
<1> QED
  BY <1>1, <1>4, <1>5, <1>6 DEF LifeInv

\* The inductive invariant of the records.
THEOREM LifeInvariant == Spec => []LifeInv
BY LifeInit, LifeStep, PTL DEF Spec

(***************************************************************************)
(* What the invariant says of the records.                                 *)
(***************************************************************************)
\* A tax id is on one record at most, however stale the rows are that overlapping
\* requests write back.
THEOREM TaxIdsAreUnique == Spec => []TaxIdOnOneRecord
<1>1. LifeInv => TaxIdOnOneRecord
  <2> SUFFICES ASSUME LifeInv, NEW i \in Ids, NEW k \in Ids, i # k, rows[i].tax # 0, rows[i].tax = rows[k].tax
               PROVE  FALSE
    BY DEF TaxIdOnOneRecord
  <2>1. [id |-> i, row |-> rows[i]] \in Held /\ [id |-> k, row |-> rows[k]] \in Held
    BY StoredRow
  <2> QED
    BY <2>1 DEF LifeInv, HeldOK, SameRecord
<1> QED
  BY <1>1, LifeInvariant, PTL

\* A record says CONFIRMED or REJECTED only of a filing on which the organization
\* gave that verdict.
THEOREM VerdictsAreTrue == Spec => []VerdictsComeFromOrg
<1>1. LifeInv => VerdictsComeFromOrg
  BY StoredRow DEF VerdictsComeFromOrg, Truthful
<1> QED
  BY <1>1, LifeInvariant, PTL

\* A record with a reference holds the invoice the organization holds under it,
\* but for the tax id that is filled in for filing (_with_identity), although
\* records are edited, and written back from copies, all the while.
THEOREM RecordsTellFilings == Spec => []RecordTellsFiling
<1>1. LifeInv => RecordTellsFiling
  BY StoredRow DEF RecordTellsFiling, Truthful
<1> QED
  BY <1>1, LifeInvariant, PTL

\* A record is CANCELLED only when the organization confirmed an invoice that
\* voids its tax id.
THEOREM VoidingsHaveCause == Spec => []CancelledHasCause
<1>1. LifeInv => CancelledHasCause
  BY StoredRow DEF CancelledHasCause, Truthful, Cause
<1> QED
  BY <1>1, LifeInvariant, PTL

\* Of the rows that are gone, a save brings none back.
LEMMA SaveOfGone ==
  ASSUME TypeOK, NEW i \in Ids \cup {0}, NEW row \in Rows \cup {NoRow}, Save(i, row),
         NEW k \in Ids, k < nextId, rows[k] = NoRow
  PROVE  rows'[k] = NoRow
<1>1. rows \in [Ids -> Rows \cup {NoRow}] /\ nextId \in 1 .. MaxId + 1
  BY DEF TypeOK
<1>2. rows'[k] = IF k = (IF i = 0 THEN nextId ELSE i) /\ (i = 0 \/ rows[i] # NoRow) THEN row ELSE rows[k]
  BY <1>1, Saved
<1>3. k \in Nat /\ nextId \in Nat
  BY <1>1, LifecycleAssumption DEF Ids
<1>4. CASE i = 0
  <2>1. k # nextId
    BY <1>3
  <2> QED
    BY <1>2, <1>4, <2>1
<1>5. CASE i # 0
  BY <1>2, <1>5
<1> QED
  BY <1>4, <1>5

\* No step brings back a record that is gone.
LEMMA GoneStays ==
  ASSUME TypeOK, [Next]_vars, NEW k \in Ids, k < nextId, rows[k] = NoRow
  PROVE  rows'[k] = NoRow
<1>1. ASSUME NEW i \in Ids \cup {0}, NEW row \in Rows \cup {NoRow}, rows' = Update(i, row) PROVE rows'[k] = NoRow
  <2>1. rows'[k] = IF k = i /\ rows[i] # NoRow THEN row ELSE rows[k]
    BY <1>1, Updated DEF TypeOK
  <2> QED
    BY <2>1
<1>2. ASSUME NEW r \in Request, UpdateWrite(r) \/ DeleteWrite(r) \/ SubmitRefuse(r) \/ SubmitSave(r)
      PROVE  rows'[k] = NoRow
  <2>1. /\ id[r] \in Ids \cup {0} /\ copy[r] \in Rows \cup {NoRow} /\ body[r] \in Invoices
        /\ drawn[r] \in 0 .. MaxSerial /\ 0 \in 0 .. MaxSerial
    BY LifecycleAssumption DEF TypeOK, Serials
  <2>2. copy[r].tax \in 0 .. MaxSerial /\ copy[r].ref \in 0 .. MaxSerial
    BY <2>1, RowFields
  <2>3. CASE UpdateWrite(r)
    <3> DEFINE row == [state |-> Verified(body[r]), payload |-> body[r], tax |-> 0, ref |-> copy[r].ref]
    <3>1. row \in Rows
      BY <2>1, <2>2, MakeRow DEF Verified, States
    <3>2. rows' = Update(id[r], row)
      BY <2>3 DEF UpdateWrite
    <3> HIDE DEF row
    <3> QED
      BY <1>1, <2>1, <3>1, <3>2
  <2>4. CASE DeleteWrite(r)
    BY <2>4 DEF DeleteWrite, TypeOK
  <2>5. CASE SubmitRefuse(r)
    <3> DEFINE row == [state |-> "invalid", payload |-> body[r], tax |-> copy[r].tax, ref |-> copy[r].ref]
    <3>1. row \in Rows
      BY <2>1, <2>2, MakeRow DEF States
    <3>2. Save(id[r], row)
      BY <2>5 DEF SubmitRefuse
    <3> HIDE DEF row
    <3> QED
      BY <2>1, <3>1, <3>2, SaveOfGone
  <2>6. CASE SubmitSave(r)
    <3> DEFINE ref == IF at[r] = "accepted" THEN drawn[r] ELSE 0
               row == [state |-> "sent", payload |-> body[r], tax |-> drawn[r], ref |-> ref]
    <3>1. row \in Rows
      BY <2>1, <2>2, MakeRow DEF States
    <3>2. Save(id[r], row)
      BY <2>6 DEF SubmitSave
    <3> HIDE DEF row
    <3> QED
      BY <2>1, <3>1, <3>2, SaveOfGone
  <2> QED
    BY <1>2, <2>3, <2>4, <2>5, <2>6
<1>3. ASSUME NEW r \in Request, ApplyVerdict(r) PROVE rows'[k] = NoRow
  <2>1. Oldest(r) \in Entries
    BY <1>3, OldestIs DEF TypeOK, ApplyVerdict
  <2>2. Oldest(r).id \in Ids \cup {0} /\ Oldest(r).row \in Rows \cup {NoRow}
    BY <2>1 DEF Entries
  <2>3. rows' = Update(Oldest(r).id, Oldest(r).row)
    BY <1>3 DEF ApplyVerdict
  <2> QED
    BY <1>1, <2>2, <2>3
<1>4. ASSUME NEW r \in Request, CancelWrite(r) PROVE rows'[k] = NoRow
  <2> DEFINE row == [voided[r].row EXCEPT !.state = "cancelled"]
  <2>1. voided[r].id \in Ids \cup {0} /\ voided[r].row \in Rows \cup {NoRow}
    BY DEF TypeOK, Entries
  <2>2. row \in Rows /\ rows' = Update(voided[r].id, row)
    BY <1>4, <2>1, Restated DEF States, CancelWrite
  <2> HIDE DEF row
  <2> QED
    BY <1>1, <2>1, <2>2
<1>5. ASSUME NEW inv \in Invoice, SaveInvoice(inv) PROVE rows'[k] = NoRow
  <2> DEFINE row == [state |-> Verified(inv), payload |-> inv, tax |-> 0, ref |-> 0]
  <2>1. row \in Rows /\ Insert(row)
    BY <1>5, SavedRow DEF SaveInvoice
  <2> HIDE DEF row
  <2>2. Save(0, row)
    BY <2>1 DEF Save
  <2> QED
    BY <2>1, <2>2, SaveOfGone
<1>6. ASSUME NEW r \in Request, Begin(r) PROVE rows' = rows
  BY <1>6 DEF Begin, UpdateRead, DeleteRead, SubmitRead, InquirePending, InquireOne, InquireRead, table
<1>7. ASSUME NEW r \in Request, Continue(r) PROVE rows'[k] = NoRow
  <2>1. CASE \/ SubmitDraw(r) \/ SubmitExhausted(r) \/ OrgAccepts(r) \/ OrgIgnores(r) \/ SubmitFails(r)
             \/ InquireAnswer(r) \/ InquireFails(r) \/ CancelFind(r) \/ InquireDone(r)
    BY <2>1 DEF SubmitDraw, SubmitExhausted, OrgAccepts, OrgIgnores, SubmitFails,
                InquireAnswer, InquireFails, CancelFind, InquireDone, table
  <2> QED
    BY <1>2, <1>3, <1>4, <1>7, <2>1 DEF Continue
<1>8. CASE UNCHANGED vars
  BY <1>8 DEF vars
<1>9. ASSUME NEW s \in Serials, OrgRules(s) PROVE rows' = rows
  BY <1>9 DEF OrgRules, table
<1>10. ASSUME NEW w \in Worker, Crash(w) PROVE rows' = rows
  BY <1>10 DEF Crash, table
<1> QED
  BY <1>5, <1>6, <1>7, <1>8, <1>9, <1>10 DEF Next

\* A discarded record stays discarded, whatever a request that read it before
\* writes back.
THEOREM DiscardedIsGone == Spec => DiscardedStaysGone
<1>1. TypeOK /\ [Next]_vars => [\A i \in Ids : i < nextId /\ ~ Exists(i) => rows'[i] = NoRow]_vars
  BY GoneStays DEF Exists
<1> QED
  BY <1>1, Typed, PTL DEF Spec, DiscardedStaysGone

=============================================================================
