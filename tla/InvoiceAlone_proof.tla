------------------------- MODULE InvoiceAlone_proof -------------------------
(***************************************************************************)
(* Proofs about an operator who does one thing at a time, gets every       *)
(* answer, and whose worker is never killed: for any number of records,    *)
(* serials and invoices, no record is filed twice and no filing is lost    *)
(* from the records.  InvoiceLifecycle_double_submit shows that the first  *)
(* is not so when two requests overlap.                                    *)
(***************************************************************************)
EXTENDS InvoiceLifecycle_proof

\* Nothing overlaps, nothing is lost.
Alone(r) == Request = {r} /\ ~ MayLose /\ ~ MayCrash

Editing == {"update", "delete", "refuse", "draw", "post", "accepted", "ignored"}
Asking  == {"inquire", "apply", "find", "cancel"}

\* A filing is on the record it was made from, or about to be stored there.
Accounted(s, r) ==
  \/ at[r] = "accepted" /\ drawn[r] = s /\ source[s] = id[r]
  \/ \E i \in Ids : rows[i].ref = s /\ source[s] \in {0, i}

AllAccounted(r) == \A s \in Serials : Filed(s) => Accounted(s, r)

\* No other request changes the row that was read.
CopyIsRow(r) == at[r] \in Editing /\ id[r] # 0 => copy[r] # NoRow /\ rows[id[r]] = copy[r]

DrawnFor(r) == at[r] \in Filing => source[drawn[r]] = id[r]

\* What an inquiry read has the references of the rows it writes to.
BatchIsRows(r) ==
  /\ at[r] \in Asking => \A e \in todo[r] : rows[e.id].ref = e.row.ref
  /\ at[r] = "cancel" => rows[voided[r].id].ref = voided[r].row.ref

AloneInv(r) == AllAccounted(r) /\ CopyIsRow(r) /\ DrawnFor(r) /\ BatchIsRows(r)

RefsStay == \A i \in Ids : rows'[i].ref = rows[i].ref

\* Filings stay accounted for while no reference leaves its row.
LEMMA AccountsStay ==
  ASSUME NEW r \in Request, AllAccounted(r), RefsStay, source' = source,
         \A s \in Serials : Filed(s)' => Filed(s),
         at[r] = "accepted" => at'[r] = at[r] /\ drawn'[r] = drawn[r] /\ id'[r] = id[r]
  PROVE  AllAccounted(r)'
<1> SUFFICES ASSUME NEW s \in Serials, Filed(s)' PROVE Accounted(s, r)'
  BY DEF AllAccounted
<1>1. Accounted(s, r)
  BY DEF AllAccounted
<1> QED
  BY <1>1 DEF Accounted, RefsStay

\* A request that ends leaves nothing to say but the accounts.
LEMMA IdleInv ==
  ASSUME NEW r \in Request, AllAccounted(r)', at'[r] = "idle"
  PROVE  AloneInv(r)'
BY DEF AloneInv, CopyIsRow, DrawnFor, BatchIsRows, Editing, Filing, Asking

\* What a lone request may rely on.
LEMMA AloneFacts ==
  ASSUME NEW r \in Request, LifeInv, AloneInv(r)
  PROVE  /\ rows \in [Ids -> Rows \cup {NoRow}] /\ nextId \in 1 .. MaxId + 1 /\ id[r] \in Ids \cup {0}
         /\ copy[r] \in Rows \cup {NoRow} /\ copy[r].tax = 0 /\ copy[r].ref = 0
         /\ body[r] \in Invoices /\ drawn[r] \in 0 .. MaxSerial /\ 0 \in 0 .. MaxSerial
         /\ NoRow.ref = 0 /\ NoRow.tax = 0
         /\ at[r] \in Editing /\ id[r] # 0 => rows[id[r]] # NoRow /\ rows[id[r]].ref = 0
         /\ \A i \in Ids : i >= nextId => rows[i] = NoRow
<1>1. Local(at[r], id[r], copy[r], body[r], drawn[r], todo[r], voided[r], org)
  BY DEF LifeInv, Locals
<1>2. copy[r].tax = 0 /\ copy[r].ref = 0
  BY <1>1 DEF Local
<1> QED
  BY <1>2, LifecycleAssumption DEF LifeInv, TypeOK, Untouched, AloneInv, CopyIsRow, NoRow, Serials

\* A save by a request that is about to end: the row it writes had no reference,
\* or was not there.
LEMMA SaveOverBlank ==
  ASSUME NEW r \in Request, LifeInv, AloneInv(r), at[r] \in Editing, NEW row \in Rows, Save(id[r], row)
  PROVE  \E k \in Ids : /\ rows[k].ref = 0 /\ rows'[k] = row /\ id[r] \in {0, k}
                        /\ \A i \in Ids \ {k} : rows'[i] = rows[i]
<1> DEFINE k == IF id[r] = 0 THEN nextId ELSE id[r]
<1>1. /\ id[r] = 0 => nextId \in Ids
      /\ \A i \in Ids : rows'[i] = IF i = k /\ (id[r] = 0 \/ rows[id[r]] # NoRow) THEN row ELSE rows[i]
  BY AloneFacts, Saved
<1>2. k \in Ids /\ id[r] \in {0, k}
  BY <1>1, AloneFacts
<1>3. id[r] = 0 \/ rows[id[r]] # NoRow
  BY AloneFacts
<1>4. rows[k].ref = 0
  <2>1. CASE id[r] = 0
    <3>1. nextId \in Ids /\ nextId >= nextId
      BY <1>1, <2>1, LifecycleAssumption DEF Ids
    <3> QED
      BY <2>1, <3>1, AloneFacts
  <2>2. CASE id[r] # 0
    BY <2>2, AloneFacts
  <2> QED
    BY <2>1, <2>2
<1> HIDE DEF k
<1> QED
  BY <1>1, <1>2, <1>3, <1>4

\* PUT, DELETE and a submit the rule engine refused.
LEMMA EditsAlone ==
  ASSUME NEW r \in Request, LifeInv, AloneInv(r), UpdateWrite(r) \/ DeleteWrite(r) \/ SubmitRefuse(r)
  PROVE  AloneInv(r)'
<1>1. at[r] \in Editing /\ at[r] # "accepted" /\ at'[r] = "idle" /\ source' = source /\ org' = org
  BY DEF UpdateWrite, DeleteWrite, SubmitRefuse, Finish, Editing
<1>2. ASSUME NEW row \in Rows, row.ref = 0, Save(id[r], row) PROVE RefsStay
  BY <1>1, <1>2, SaveOverBlank DEF RefsStay
<1>3. RefsStay
  <2>1. CASE UpdateWrite(r)
    <3> DEFINE row == [state |-> Verified(body[r]), payload |-> body[r], tax |-> 0, ref |-> copy[r].ref]
    <3>1. row \in Rows /\ row.ref = 0
      BY AloneFacts DEF Rows, Verified, States
    <3>2. rows' = Update(id[r], row) /\ nextId' = nextId
      BY <2>1 DEF UpdateWrite
    <3>3. id[r] # 0
      BY <2>1 DEF LifeInv, Locals, Local, UpdateWrite
    <3> HIDE DEF row
    <3>4. Save(id[r], row)
      BY <3>2, <3>3 DEF Save
    <3> QED
      BY <1>2, <3>1, <3>4
  <2>2. CASE DeleteWrite(r)
    <3>1. id[r] # 0
      BY <2>2 DEF LifeInv, Locals, Local, DeleteWrite
    <3>2. rows' = [rows EXCEPT ![id[r]] = NoRow]
      BY <2>2 DEF DeleteWrite
    <3> QED
      BY <1>1, <3>1, <3>2, AloneFacts DEF RefsStay
  <2>3. CASE SubmitRefuse(r)
    <3> DEFINE row == [state |-> "invalid", payload |-> body[r], tax |-> copy[r].tax, ref |-> copy[r].ref]
    <3>1. row \in Rows /\ row.ref = 0
      BY AloneFacts DEF Rows, States
    <3>2. Save(id[r], row)
      BY <2>3 DEF SubmitRefuse
    <3> HIDE DEF row
    <3> QED
      BY <1>2, <3>1, <3>2
  <2> QED
    BY <2>1, <2>2, <2>3
<1>4. AllAccounted(r)'
  BY <1>1, <1>3, AccountsStay DEF AloneInv, Filed
<1> QED
  BY <1>1, <1>4, IdleInv

\* A submit's answer is stored: the filing is now on its record.
LEMMA SaveAlone ==
  ASSUME NEW r \in Request, LifeInv, AloneInv(r), SubmitSave(r)
  PROVE  AloneInv(r)'
<1> DEFINE ref == IF at[r] = "accepted" THEN drawn[r] ELSE 0
           row == [state |-> "sent", payload |-> body[r], tax |-> drawn[r], ref |-> ref]
<1>1. /\ at[r] \in Editing /\ at[r] \in Filing /\ at'[r] = "idle" /\ source' = source /\ org' = org
      /\ Save(id[r], row)
  BY DEF SubmitSave, Finish, Editing, Filing
<1>2. row \in Rows /\ row.ref = ref
  BY AloneFacts DEF Rows, States
<1> HIDE DEF row
<1>3. PICK k \in Ids : /\ rows[k].ref = 0 /\ rows'[k] = row /\ id[r] \in {0, k}
                       /\ \A i \in Ids \ {k} : rows'[i] = rows[i]
  BY <1>1, <1>2, SaveOverBlank
<1>4. ASSUME NEW s \in Serials, Filed(s)' PROVE Accounted(s, r)'
  <2>1. Accounted(s, r)
    BY <1>1, <1>4 DEF AloneInv, AllAccounted, Filed
  <2>2. CASE at[r] = "accepted" /\ drawn[r] = s /\ source[s] = id[r]
    <3>1. rows'[k].ref = s /\ source'[s] \in {0, k}
      BY <1>1, <1>2, <1>3, <2>2
    <3> QED
      BY <3>1 DEF Accounted
  <2>3. CASE \E i \in Ids : rows[i].ref = s /\ source[s] \in {0, i}
    <3>1. PICK i \in Ids : rows[i].ref = s /\ source[s] \in {0, i}
      BY <2>3
    <3>2. i # k
      BY <1>3, <3>1, LifecycleAssumption DEF Serials
    <3> QED
      BY <1>1, <1>3, <3>1, <3>2 DEF Accounted
  <2> QED
    BY <2>1, <2>2, <2>3 DEF Accounted
<1>5. AllAccounted(r)'
  BY <1>4 DEF AllAccounted
<1> QED
  BY <1>1, <1>5, IdleInv

\* The read with which a lone request begins.
LEMMA BeginAlone ==
  ASSUME NEW r \in Request, LifeInv, AloneInv(r), Begin(r)
  PROVE  AloneInv(r)'
<1>1. /\ at[r] = "idle" /\ rows' = rows /\ org' = org /\ source' = source
      /\ at \in [Request -> RequestStates] /\ id \in [Request -> Ids \cup {0}]
      /\ copy \in [Request -> Rows \cup {NoRow}] /\ todo \in [Request -> SUBSET Entries]
  BY DEF Begin, UpdateRead, DeleteRead, EditRead, SubmitRead, InquirePending, InquireOne, InquireRead, Goto,
         table, LifeInv, TypeOK
<1>2. AllAccounted(r)'
  BY <1>1, AccountsStay DEF AloneInv, Filed, RefsStay
<1>3. ASSUME NEW i \in Ids \cup {0}, id'[r] = i, i # 0 => copy'[r] = rows[i] /\ rows[i] # NoRow,
             at'[r] \in {"update", "delete", "draw", "refuse"}
      PROVE  AloneInv(r)'
  BY <1>1, <1>2, <1>3 DEF AloneInv, CopyIsRow, DrawnFor, BatchIsRows, Filing, Asking
<1>4. ASSUME NEW i \in Ids, NEW inv \in Invoice, UpdateRead(r, i, inv) PROVE AloneInv(r)'
  <2>1. id'[r] = i /\ copy'[r] = rows[i] /\ rows[i] # NoRow /\ at'[r] = "update"
    BY <1>1, <1>4 DEF UpdateRead, EditRead, Goto, Exists
  <2> QED
    BY <1>3, <2>1
<1>5. ASSUME NEW i \in Ids, DeleteRead(r, i) PROVE AloneInv(r)'
  <2>1. id'[r] = i /\ copy'[r] = rows[i] /\ rows[i] # NoRow /\ at'[r] = "delete"
    BY <1>1, <1>5 DEF DeleteRead, EditRead, Goto, Exists
  <2> QED
    BY <1>3, <2>1
<1>6. ASSUME NEW i \in Ids \cup {0}, NEW inv \in Invoice, SubmitRead(r, i, inv) PROVE AloneInv(r)'
  <2>1. id'[r] = i /\ (i # 0 => copy'[r] = rows[i] /\ rows[i] # NoRow) /\ at'[r] \in {"draw", "refuse"}
    BY <1>1, <1>6 DEF SubmitRead, Goto, Exists
  <2> QED
    BY <1>3, <2>1
<1>7. ASSUME NEW C \in SUBSET Ids, InquireRead(r, C) PROVE AloneInv(r)'
  <2>1. at'[r] = "inquire" /\ todo'[r] = {Record(i) : i \in C}
    BY <1>1, <1>7 DEF InquireRead, Goto
  <2>2. \A e \in todo'[r] : rows'[e.id].ref = e.row.ref
    BY <1>1, <2>1 DEF Record
  <2> QED
    BY <1>2, <2>1, <2>2 DEF AloneInv, CopyIsRow, DrawnFor, BatchIsRows, Editing, Filing
<1>8. CASE InquirePending(r)
  <2>1. Awaiting \in SUBSET Ids
    BY DEF Awaiting
  <2> QED
    BY <1>7, <1>8, <2>1 DEF InquirePending
<1>9. ASSUME NEW i \in Ids, InquireOne(r, i) PROVE AloneInv(r)'
  <2>1. {i} \in SUBSET Ids
    OBVIOUS
  <2> QED
    BY <1>7, <1>9, <2>1 DEF InquireOne
<1> QED
  BY <1>4, <1>5, <1>6, <1>8, <1>9 DEF Begin

\* A lone filing on its way.
LEMMA FilingAlone ==
  ASSUME NEW r \in Request, LifeInv, AloneInv(r), SubmitDraw(r) \/ OrgAccepts(r) \/ OrgIgnores(r)
  PROVE  AloneInv(r)'
<1>1. /\ at \in [Request -> RequestStates] /\ drawn \in [Request -> Serials \cup {0}]
      /\ source \in [Serials -> Ids \cup {0}] /\ org \in [Serials -> Filings \cup {Unknown}]
      /\ counter \in 0 .. MaxSerial /\ MaxSerial \in Nat
      /\ UNCHANGED <<rows, id, copy, todo, voided>>
      /\ at[r] \in Editing /\ at'[r] \in {"post", "accepted", "ignored"}
  BY LifecycleAssumption DEF LifeInv, TypeOK, SubmitDraw, OrgAccepts, OrgIgnores, Goto, table, mine, Editing
<1>2. CopyIsRow(r)' /\ BatchIsRows(r)'
  BY <1>1 DEF AloneInv, CopyIsRow, BatchIsRows, Editing, Asking
<1>3. ASSUME NEW s \in Serials, \E i \in Ids : rows[i].ref = s /\ source[s] \in {0, i}, source'[s] = source[s]
      PROVE  Accounted(s, r)'
  BY <1>1, <1>3 DEF Accounted
<1>4. CASE SubmitDraw(r)
  <2>1. /\ drawn'[r] = counter + 1 /\ counter + 1 \in Serials /\ org' = org /\ at[r] = "draw"
        /\ source' = [source EXCEPT ![counter + 1] = id[r]]
    BY <1>1, <1>4 DEF SubmitDraw, Goto, Serials
  <2>2. ~ Filed(counter + 1)
    BY <1>1, <2>1 DEF LifeInv, Untouched, Filed
  <2>3. ASSUME NEW s \in Serials, Filed(s)' PROVE Accounted(s, r)'
    <3>1. Filed(s) /\ s # counter + 1
      BY <2>1, <2>2, <2>3 DEF Filed
    <3>2. \E i \in Ids : rows[i].ref = s /\ source[s] \in {0, i}
      BY <2>1, <3>1 DEF AloneInv, AllAccounted, Accounted
    <3> QED
      BY <1>1, <1>3, <2>1, <3>1, <3>2
  <2>4. DrawnFor(r)'
    BY <1>1, <2>1 DEF DrawnFor
  <2> QED
    BY <1>2, <2>3, <2>4 DEF AloneInv, AllAccounted
<1>5. CASE OrgAccepts(r)
  <2>1. /\ at[r] = "post" /\ at'[r] = "accepted" /\ drawn' = drawn /\ source' = source
        /\ org' = [org EXCEPT ![drawn[r]] = [status |-> "in_progress", payload |-> WithIdentity(body[r], drawn[r])]]
    BY <1>1, <1>5 DEF OrgAccepts, Goto, mine
  <2>2. source[drawn[r]] = id[r]
    BY <2>1 DEF AloneInv, DrawnFor, Filing
  <2>3. ASSUME NEW s \in Serials, Filed(s)' PROVE Accounted(s, r)'
    <3>1. CASE s = drawn[r]
      BY <1>1, <2>1, <2>2, <3>1 DEF Accounted
    <3>2. CASE s # drawn[r]
      <4>1. Filed(s)
        BY <1>1, <2>1, <2>3, <3>2 DEF Filed
      <4>2. \E i \in Ids : rows[i].ref = s /\ source[s] \in {0, i}
        BY <2>1, <4>1 DEF AloneInv, AllAccounted, Accounted
      <4> QED
        BY <1>3, <2>1, <4>2
    <3> QED
      BY <3>1, <3>2
  <2>4. DrawnFor(r)'
    BY <1>1, <2>1, <2>2 DEF DrawnFor
  <2> QED
    BY <1>2, <2>3, <2>4 DEF AloneInv, AllAccounted
<1>6. CASE OrgIgnores(r)
  <2>1. at[r] = "post" /\ drawn' = drawn /\ source' = source /\ org' = org
    BY <1>6 DEF OrgIgnores, Goto, mine
  <2>2. AllAccounted(r)'
    BY <1>1, <2>1, AccountsStay DEF AloneInv, RefsStay, Filed
  <2>3. DrawnFor(r)'
    BY <1>1, <2>1 DEF AloneInv, DrawnFor, Filing
  <2> QED
    BY <1>2, <2>2, <2>3 DEF AloneInv
<1> QED
  BY <1>4, <1>5, <1>6

\* A lone inquiry.
LEMMA InquiryAlone ==
  ASSUME NEW r \in Request, LifeInv, AloneInv(r),
         InquireAnswer(r) \/ ApplyVerdict(r) \/ CancelFind(r) \/ CancelWrite(r)
  PROVE  AloneInv(r)'
<1>1. /\ at \in [Request -> RequestStates] /\ todo \in [Request -> SUBSET Entries]
      /\ voided \in [Request -> Entries \cup {NoTarget}]
      /\ rows \in [Ids -> Rows \cup {NoRow}]
      /\ UNCHANGED <<org, source, id, copy, drawn>>
      /\ at[r] \in Asking /\ at'[r] \in Asking
  BY DEF LifeInv, TypeOK, NoTarget, InquireAnswer, ApplyVerdict, CancelFind, CancelWrite, Goto, table, Asking
<1>2. ASSUME RefsStay, \A e \in todo'[r] : rows[e.id].ref = e.row.ref /\ e.id \in Ids,
             at'[r] = "cancel" => rows[voided'[r].id].ref = voided'[r].row.ref /\ voided'[r].id \in Ids
      PROVE  AloneInv(r)'
  <2>1. AllAccounted(r)'
    BY <1>1, <1>2, AccountsStay DEF AloneInv, Asking, Filed
  <2>2. CopyIsRow(r)' /\ DrawnFor(r)'
    BY <1>1 DEF CopyIsRow, DrawnFor, Asking, Editing, Filing
  <2>3. BatchIsRows(r)'
    BY <1>2 DEF BatchIsRows, RefsStay
  <2> QED
    BY <2>1, <2>2, <2>3 DEF AloneInv
<1>3. \A e \in todo[r] : rows[e.id].ref = e.row.ref /\ e.id \in Ids /\ e \in Entries
  BY <1>1 DEF AloneInv, BatchIsRows, Entries
<1>4. CASE InquireAnswer(r)
  <2>1. PICK answered \in SUBSET todo[r], found \in SUBSET todo[r] :
          /\ Goto(r, "inquire", "apply")
          /\ todo' = [todo EXCEPT ![r] =
               {IF e \in found THEN [e EXCEPT !.row.state = Verdict(@, org[e.row.ref].status)] ELSE e : e \in answered}]
    BY <1>4 DEF InquireAnswer
  <2>2. ASSUME NEW f \in todo'[r] PROVE rows[f.id].ref = f.row.ref /\ f.id \in Ids
    <3>1. PICK e \in answered : f = IF e \in found THEN [e EXCEPT !.row.state = Verdict(@, org[e.row.ref].status)] ELSE e
      BY <1>1, <2>1, <2>2
    <3>2. f.id = e.id /\ f.row.ref = e.row.ref
      <4>1. CASE e \in found
        <5>1. f = [id |-> e.id, row |-> [state |-> Verdict(e.row.state, org[e.row.ref].status),
                                         payload |-> e.row.payload, tax |-> e.row.tax, ref |-> e.row.ref]]
          BY <1>3, <2>1, <3>1, <4>1, Answered
        <5> QED
          BY <5>1
      <4>2. CASE e \notin found
        BY <3>1, <4>2
      <4> QED
        BY <4>1, <4>2
    <3> QED
      BY <1>3, <2>1, <3>2
  <2>3. RefsStay /\ at'[r] = "apply"
    BY <1>1, <1>4, <2>1 DEF InquireAnswer, RefsStay, table, Goto
  <2> QED
    BY <1>2, <2>2, <2>3
<1>5. CASE ApplyVerdict(r)
  <2>1. PICK e \in Entries : e = Oldest(r) /\ e \in todo[r]
    BY <1>1, <1>5, OldestIs DEF ApplyVerdict
  <2>2. rows' = Update(e.id, e.row) /\ todo'[r] \in SUBSET todo[r] /\ at'[r] # "cancel"
    BY <1>1, <1>5, <2>1 DEF ApplyVerdict
  <2>3. e.id \in Ids \cup {0} /\ e.row \in Rows \cup {NoRow}
    BY DEF Entries
  <2>4. RefsStay
    <3>1. \A i \in Ids : rows'[i] = IF i = e.id /\ rows[e.id] # NoRow THEN e.row ELSE rows[i]
      BY <1>1, <2>2, <2>3, Updated
    <3> QED
      BY <1>3, <2>1, <3>1 DEF RefsStay
  <2> QED
    BY <1>2, <1>3, <2>2, <2>4
<1>6. CASE CancelFind(r)
  <2> DEFINE carriers == {i \in Ids : Exists(i) /\ rows[i].tax = Oldest(r).row.payload.voids}
             newest   == CHOOSE i \in carriers : \A j \in carriers : j <= i
  <2>1. /\ rows' = rows /\ todo'[r] \in SUBSET todo[r]
        /\ at'[r] = "cancel" => carriers # {} /\ voided'[r] = Record(newest)
    BY <1>1, <1>6 DEF CancelFind, table
  <2>2. carriers # {} => newest \in Ids /\ Record(newest) = [id |-> newest, row |-> rows[newest]]
    <3>1. carriers \in SUBSET Ids
      OBVIOUS
    <3> HIDE DEF carriers
    <3>2. carriers # {} => newest \in carriers
      BY <3>1, NewestIs
    <3> HIDE DEF newest
    <3> QED
      BY <3>1, <3>2 DEF Record
  <2> HIDE DEF carriers, newest
  <2>3. at'[r] = "cancel" => rows[voided'[r].id].ref = voided'[r].row.ref /\ voided'[r].id \in Ids
    BY <2>1, <2>2
  <2> QED
    BY <1>2, <1>3, <2>1, <2>3 DEF RefsStay
<1>7. CASE CancelWrite(r)
  <2> DEFINE row == [voided[r].row EXCEPT !.state = "cancelled"]
  <2>1. /\ rows' = Update(voided[r].id, row) /\ todo'[r] = todo[r] /\ at'[r] # "cancel" /\ at[r] = "cancel"
    BY <1>1, <1>7 DEF CancelWrite, Goto
  <2>2. voided[r].id \in Ids \cup {0} /\ voided[r].row \in Rows \cup {NoRow}
    BY <1>1 DEF Entries, NoTarget
  <2>3. row \in Rows /\ row.ref = voided[r].row.ref
    <3>1. "cancelled" \in States
      BY DEF States
    <3>2. /\ row = [state |-> "cancelled", payload |-> voided[r].row.payload,
                    tax |-> voided[r].row.tax, ref |-> voided[r].row.ref]
          /\ row \in Rows
      BY <2>2, <3>1, Restated
    <3> HIDE DEF row
    <3> QED
      BY <3>2
  <2> HIDE DEF row
  <2>4. rows[voided[r].id].ref = voided[r].row.ref
    BY <2>1 DEF AloneInv, BatchIsRows
  <2>5. RefsStay
    <3>1. \A i \in Ids : Update(voided[r].id, row)[i] = IF i = voided[r].id /\ rows[voided[r].id] # NoRow THEN row ELSE rows[i]
      <4>1. row \in Rows \cup {NoRow}
        BY <2>3
      <4> QED
        BY <1>1, <2>2, <4>1, Updated
    <3> QED
      BY <2>1, <2>3, <2>4, <3>1 DEF RefsStay
  <2> QED
    BY <1>2, <1>3, <2>1, <2>5
<1> QED
  BY <1>4, <1>5, <1>6, <1>7

\* AloneInv is inductive while nothing overlaps and nothing is lost.
LEMMA AloneStep ==
  ASSUME NEW r \in Request, Alone(r), LifeInv, AloneInv(r), [Next]_vars
  PROVE  AloneInv(r)'
<1>1. rows \in [Ids -> Rows \cup {NoRow}] /\ nextId \in 1 .. MaxId + 1 /\ MaxId \in Nat /\ todo \in [Request -> SUBSET Entries]
  BY LifecycleAssumption DEF LifeInv, TypeOK
<1>2. ASSUME RefsStay, UNCHANGED <<at, id, copy, drawn, todo, voided, source>>,
             \A s \in Serials : Filed(s)' => Filed(s),
             at[r] \in Editing /\ id[r] # 0 => rows'[id[r]] = rows[id[r]]
      PROVE  AloneInv(r)'
  <2>1. AllAccounted(r)'
    BY <1>2, AccountsStay DEF AloneInv
  <2>2. BatchIsRows(r)'
    <3>1. \A e \in todo[r] : e.id \in Ids
      BY <1>1 DEF Entries
    <3>2. at[r] = "cancel" => voided[r].id \in Ids
      BY DEF LifeInv, Locals, Local, TypeOK, Entries
    <3> QED
      BY <1>2, <3>1, <3>2 DEF AloneInv, BatchIsRows, RefsStay, Asking
  <2>3. CopyIsRow(r)' /\ DrawnFor(r)'
    BY <1>2 DEF AloneInv, CopyIsRow, DrawnFor
  <2> QED
    BY <2>1, <2>2, <2>3 DEF AloneInv
<1>3. ASSUME NEW inv \in Invoice, SaveInvoice(inv) PROVE AloneInv(r)'
  <2> DEFINE row == [state |-> Verified(inv), payload |-> inv, tax |-> 0, ref |-> 0]
  <2>1. row \in Rows /\ Insert(row) /\ row.ref = 0
    BY <1>3, SavedRow DEF SaveInvoice
  <2> HIDE DEF row
  <2>2. nextId \in Ids /\ \A k \in Ids : rows'[k] = IF k = nextId THEN row ELSE rows[k]
    BY <1>1, <2>1, Inserted
  <2>3. rows[nextId] = NoRow
    BY <2>2, LifecycleAssumption DEF LifeInv, Untouched, Ids
  <2>4. RefsStay
    BY <2>1, <2>2, <2>3 DEF RefsStay, NoRow
  <2>5. at[r] \in Editing /\ id[r] # 0 => rows'[id[r]] = rows[id[r]]
    BY <2>2, <2>3, AloneFacts
  <2>6. UNCHANGED <<at, id, copy, drawn, todo, voided, source, org>>
    BY <1>3 DEF SaveInvoice, mine
  <2> QED
    BY <1>2, <2>4, <2>5, <2>6 DEF Filed
<1>4. ASSUME NEW s \in Serials, OrgRules(s) PROVE AloneInv(r)'
  <2>1. \A k \in Serials : Filed(k)' => Filed(k)
    BY <1>4 DEF OrgRules, Filed, Unknown, LifeInv, TypeOK
  <2>2. RefsStay /\ UNCHANGED <<rows, at, id, copy, drawn, todo, voided, source>>
    BY <1>4 DEF OrgRules, table, mine, RefsStay
  <2> QED
    BY <1>2, <2>1, <2>2
<1>5. ASSUME Continue(r) PROVE AloneInv(r)'
  <2>1. CASE SubmitExhausted(r) \/ InquireDone(r)
    <3>1. /\ at[r] # "accepted" /\ at'[r] = "idle" /\ UNCHANGED <<rows, org, source>>
      BY <2>1 DEF SubmitExhausted, InquireDone, Finish, table
    <3>2. AllAccounted(r)'
      BY <3>1, AccountsStay DEF AloneInv, RefsStay, Filed
    <3> QED
      BY <3>1, <3>2, IdleInv
  <2>2. ~ SubmitFails(r) /\ ~ InquireFails(r)
    BY DEF Alone, SubmitFails, InquireFails
  <2> QED
    BY <1>5, <2>1, <2>2, EditsAlone, SaveAlone, FilingAlone, InquiryAlone DEF Continue
<1>6. CASE UNCHANGED vars
  BY <1>2, <1>6 DEF vars, RefsStay, Filed
<1>7. \A q \in Request : q = r
  BY DEF Alone
<1>8. ASSUME NEW w \in Worker, Crash(w) PROVE FALSE
  BY <1>8 DEF Alone, Crash
<1> QED
  BY <1>3, <1>4, <1>5, <1>6, <1>7, <1>8, BeginAlone DEF Next

\* It holds at first.
LEMMA AloneInit ==
  ASSUME NEW r \in Request, Init
  PROVE  AloneInv(r)
BY DEF Init, AloneInv, AllAccounted, Filed, CopyIsRow, DrawnFor, BatchIsRows, Editing, Asking, Filing

\* The inductive invariant of a lone operator.
THEOREM AloneInvariant ==
  ASSUME NEW r \in Request, Alone(r)
  PROVE  Spec => [](LifeInv /\ AloneInv(r))
<1>1. Init => LifeInv /\ AloneInv(r)
  BY LifeInit, AloneInit
<1>2. LifeInv /\ AloneInv(r) /\ [Next]_vars => (LifeInv /\ AloneInv(r))'
  BY LifeStep, AloneStep
<1> QED
  BY <1>1, <1>2, PTL DEF Spec

\* The guard of submit is enough for an operator who does one thing at a time:
\* no record is the source of two filings the organization has.
THEOREM LoneFilingsAreOnce ==
  ASSUME NEW r \in Request, Alone(r)
  PROVE  Spec => []FiledOnce
<1>1. LifeInv /\ AloneInv(r) => FiledOnce
  <2> SUFFICES ASSUME LifeInv, AloneInv(r), NEW s \in Serials, NEW t \in Serials,
                      s # t, Filed(s), Filed(t), source[s] # 0, source[s] = source[t]
               PROVE  FALSE
    BY DEF FiledOnce
  <2>1. Accounted(s, r) /\ Accounted(t, r)
    BY DEF AloneInv, AllAccounted
  <2>2. at[r] = "accepted" /\ id[r] # 0 => rows[id[r]].ref = 0
    BY AloneFacts DEF Editing
  <2>3. s # 0 /\ t # 0
    BY LifecycleAssumption DEF Serials
  <2> QED
    BY <2>1, <2>2, <2>3 DEF Accounted
<1> QED
  BY <1>1, AloneInvariant, PTL

\* Between its requests every filing the organization accepted is on a record, so
\* that its verdict can be asked for.
THEOREM LoneFilingsAreRecorded ==
  ASSUME NEW r \in Request, Alone(r)
  PROVE  Spec => []EveryFilingIsRecorded
<1>1. AloneInv(r) => EveryFilingIsRecorded
  BY DEF AloneInv, AllAccounted, Accounted, EveryFilingIsRecorded
<1> QED
  BY <1>1, AloneInvariant, PTL

(***************************************************************************)
(* The records are a book (InvoiceBook).                                   *)
(***************************************************************************)
\* A row that will be written back has what the record has; its state is from
\* before a voiding or from an answer, never from before an answer.
Follows(row, now) ==
  /\ row.payload = now.payload /\ row.tax = now.tax /\ row.ref = now.ref
  /\ row.state = "sent" => now.state \in {"sent", "cancelled"}
  /\ row.state = "cancelled" => now.state = "cancelled"

\* What is filed passed the rule engine, over a record that was never filed.
BodyFits(r) ==
  /\ at[r] = "refuse" => ~ body[r].valid
  /\ at[r] \in Filing \cup {"draw"} => body[r].valid
  /\ at[r] \in Editing /\ id[r] # 0 => rows[id[r]].state \in Editable
  /\ at[r] = "ignored" => org[drawn[r]] = Unknown

BatchFollows(r) ==
  at[r] \in Asking =>
    /\ \A e \in todo[r] : Follows(e.row, rows[e.id])
    /\ \A e, f \in todo[r] : e.id = f.id => e = f

Voider(r, j) ==
  rows[j].state = "confirmed" /\ rows[j].payload.voids = voided[r].row.tax

\* A voiding follows a confirmation that is in the table already.
VoidingShown(r) ==
  /\ at[r] = "find" => rows[Oldest(r).id] = Oldest(r).row
  /\ at[r] = "cancel" =>
       /\ rows[voided[r].id] = voided[r].row /\ voided[r].row.state # "cancelled"
       /\ voided[r].row.tax # 0
       /\ \E j \in Ids \ {voided[r].id} : Voider(r, j)

BookInv(r) == BodyFits(r) /\ BatchFollows(r) /\ VoidingShown(r)

Shown == {"sent", "confirmed", "rejected", "cancelled"}

\* Every row that is held is truthful.
LEMMA HeldTruth ==
  ASSUME LifeInv, NEW e \in Held
  PROVE  Truthful(e.row, org)
<1>1. EntryOK(e, org, counter, nextId)
  BY DEF LifeInv, HeldOK
<1> QED
  BY <1>1 DEF EntryOK

\* A truthful row with a tax id is of a record that was filed.
LEMMA FiledStates ==
  ASSUME NEW row \in Rows, NEW o, Truthful(row, o), row.tax # 0 \/ row.ref # 0
  PROVE  row.state \in Shown
BY DEF Truthful, Rows, States, Shown

\* What a lone inquiry holds, and the rows it will write to.
LEMMA BatchFacts ==
  ASSUME NEW r \in Request, LifeInv, AloneInv(r), at[r] \in Asking, NEW e \in todo[r]
  PROVE  /\ e \in Entries /\ e.id \in Ids /\ e.row \in Rows /\ rows[e.id] \in Rows
         /\ e.row.ref \in Serials /\ rows[e.id].ref = e.row.ref
         /\ Truthful(e.row, org) /\ Truthful(rows[e.id], org)
         /\ e.row.state \in Shown /\ rows[e.id].state \in Shown
<1>1. e \in Entries /\ e.id \in Ids /\ e.row \in Rows
  BY DEF LifeInv, TypeOK, Entries
<1>2. e.row.ref # 0
  BY DEF LifeInv, Locals, Local
<1>3. rows[e.id].ref = e.row.ref
  BY DEF AloneInv, BatchIsRows
<1>4. rows[e.id] \in Rows /\ Truthful(rows[e.id], org)
  BY <1>1, <1>2, <1>3, StoredRow
<1>5. Truthful(e.row, org)
  BY HeldIs, HeldTruth
<1>6. e.row.ref \in Serials
  BY <1>1, <1>2, LifecycleAssumption DEF Rows, Serials
<1>7. e.row.state \in Shown /\ rows[e.id].state \in Shown
  BY <1>1, <1>2, <1>3, <1>4, <1>5, FiledStates
<1> QED
  BY <1>1, <1>3, <1>4, <1>5, <1>6, <1>7

\* A target is an entry.
LEMMA TargetIs ==
  ASSUME NEW r \in Request, LifeInv, at[r] = "cancel"
  PROVE  voided[r] \in Entries /\ voided[r].id \in Ids /\ voided[r].row \in Rows /\ voided[r].row # NoRow
<1>1. voided[r].row # NoRow
  BY DEF LifeInv, Locals, Local
<1>2. voided[r] \in Entries
  BY <1>1 DEF LifeInv, TypeOK
<1> QED
  BY <1>1, <1>2 DEF Entries

\* The invariant looks only at rows that are there.
LEMMA BookSame ==
  ASSUME NEW r \in Request, LifeInv, AloneInv(r), BookInv(r),
         UNCHANGED <<at, id, body, drawn, todo, voided>>,
         \A i \in Ids : rows[i] # NoRow => rows'[i] = rows[i],
         \A s \in Serials : org[s] = Unknown => org'[s] = Unknown
  PROVE  BookInv(r)'
<1>1. BodyFits(r)'
  <2>1. at[r] \in Editing /\ id[r] # 0 => id[r] \in Ids /\ rows[id[r]] # NoRow
    BY AloneFacts
  <2>2. at[r] = "ignored" => drawn[r] \in Serials
    BY LifecycleAssumption DEF LifeInv, TypeOK, DrawnIsNew, Filing, Serials
  <2> QED
    BY <2>1, <2>2 DEF BookInv, BodyFits
<1>2. NoRow \notin Rows
  BY DEF NoRow, Rows, States
<1>3. at[r] \in Asking => \A e \in todo[r] : rows'[e.id] = rows[e.id]
  BY <1>2, BatchFacts
<1>4. BatchFollows(r)'
  BY <1>3 DEF BookInv, BatchFollows
<1>5. at[r] = "find" => Oldest(r) \in todo[r] /\ Oldest(r)' = Oldest(r)
  <2>1. at[r] = "find" => todo[r] # {} /\ todo[r] \in SUBSET Entries
    BY DEF LifeInv, TypeOK, Locals, Local
  <2> QED
    BY <2>1, OldestIs DEF Oldest
<1>6. at[r] = "find" => rows'[Oldest(r)'.id] = Oldest(r)'.row
  BY <1>3, <1>5 DEF BookInv, VoidingShown, Asking
<1>7. ASSUME at[r] = "cancel"
      PROVE  /\ rows'[voided[r].id] = voided[r].row
             /\ \E j \in Ids \ {voided[r].id} : Voider(r, j)'
  <2>1. rows[voided[r].id] = voided[r].row
    BY <1>7 DEF BookInv, VoidingShown
  <2>2. voided[r].row # NoRow /\ voided[r].id \in Ids
    BY <1>7, TargetIs
  <2>3. PICK j \in Ids \ {voided[r].id} : Voider(r, j)
    BY <1>7 DEF BookInv, VoidingShown
  <2>4. rows[j] # NoRow
    BY <2>3 DEF Voider, NoRow
  <2> QED
    BY <2>1, <2>2, <2>3, <2>4 DEF Voider
<1>8. VoidingShown(r)'
  BY <1>6, <1>7 DEF BookInv, VoidingShown
<1> QED
  BY <1>1, <1>4, <1>8 DEF BookInv

\* Nothing is said of an idle request.
LEMMA BookIdle ==
  ASSUME NEW r \in Request, at'[r] = "idle"
  PROVE  BookInv(r)'
BY DEF BookInv, BodyFits, BatchFollows, VoidingShown, Filing, Editing, Asking

\* Nor of an editing one, but what it read and what it carries.
LEMMA BookEditing ==
  ASSUME NEW r \in Request, BodyFits(r)', at'[r] \in Editing
  PROVE  BookInv(r)'
BY DEF BookInv, BatchFollows, VoidingShown, Editing, Asking

\* The read with which a request begins: what it says of the row is still so.
LEMMA BookBegins ==
  ASSUME NEW r \in Request, LifeInv, Begin(r)
  PROVE  /\ BookInv(r)' /\ UNCHANGED <<rows, nextId, org, drawn>>
         /\ at[r] = "idle" /\ at'[r] # "accepted"
<1>1. /\ at[r] = "idle" /\ UNCHANGED <<rows, nextId, org, drawn>>
      /\ at \in [Request -> RequestStates] /\ id \in [Request -> Ids \cup {0}]
      /\ body \in [Request -> Invoices] /\ todo \in [Request -> SUBSET Entries]
  BY DEF Begin, UpdateRead, DeleteRead, EditRead, SubmitRead, InquirePending, InquireOne, InquireRead, Goto,
         table, LifeInv, TypeOK
<1>2. ASSUME NEW i \in Ids, EditRead(r, i, "update") \/ EditRead(r, i, "delete")
      PROVE  BookInv(r)' /\ at'[r] # "accepted"
  <2>1. at'[r] \in {"update", "delete"} /\ id'[r] = i /\ rows'[i].state \in Editable
    BY <1>1, <1>2 DEF EditRead, Goto
  <2>2. BodyFits(r)' /\ at'[r] \in Editing
    BY <2>1 DEF BodyFits, Filing, Editing
  <2> QED
    BY <2>1, <2>2, BookEditing
<1>3. ASSUME NEW i \in Ids \cup {0}, NEW inv \in Invoice, SubmitRead(r, i, inv)
      PROVE  BookInv(r)' /\ at'[r] # "accepted"
  <2>1. /\ at'[r] = (IF inv.valid THEN "draw" ELSE "refuse") /\ id'[r] = i /\ body'[r] = inv
        /\ i # 0 => rows'[i].state \in Editable
    BY <1>1, <1>3 DEF SubmitRead, Goto
  <2>2. BodyFits(r)' /\ at'[r] \in Editing
    BY <2>1 DEF BodyFits, Filing, Editing
  <2> QED
    BY <2>1, <2>2, BookEditing
<1>4. ASSUME NEW C \in SUBSET Ids, InquireRead(r, C) PROVE BookInv(r)' /\ at'[r] # "accepted"
  <2>1. at'[r] = "inquire" /\ todo'[r] = {Record(i) : i \in C}
    BY <1>1, <1>4 DEF InquireRead, Goto
  <2>2. \A e \in todo'[r] : e.row = rows'[e.id] /\ e = [id |-> e.id, row |-> rows[e.id]]
    BY <1>1, <2>1 DEF Record
  <2>3. BatchFollows(r)'
    BY <2>2 DEF BatchFollows, Follows
  <2>4. BodyFits(r)' /\ VoidingShown(r)'
    BY <2>1 DEF BodyFits, VoidingShown, Filing, Editing
  <2> QED
    BY <2>1, <2>3, <2>4 DEF BookInv
<1>5. CASE InquirePending(r)
  <2>1. Awaiting \in SUBSET Ids
    BY DEF Awaiting
  <2> QED
    BY <1>1, <1>4, <1>5, <2>1 DEF InquirePending
<1>6. ASSUME NEW i \in Ids, InquireOne(r, i) PROVE BookInv(r)' /\ at'[r] # "accepted"
  <2>1. {i} \in SUBSET Ids
    OBVIOUS
  <2> QED
    BY <1>4, <1>6, <2>1 DEF InquireOne
<1> QED
  BY <1>1, <1>2, <1>3, <1>5, <1>6 DEF Begin, UpdateRead, DeleteRead

\* A lone filing on its way, until the answer is stored.
LEMMA BookFiling ==
  ASSUME NEW r \in Request, LifeInv, BookInv(r), SubmitDraw(r) \/ OrgAccepts(r) \/ OrgIgnores(r)
  PROVE  BookInv(r)'
<1>1. /\ at \in [Request -> RequestStates] /\ drawn \in [Request -> Serials \cup {0}]
      /\ at[r] \in {"draw", "post"} /\ UNCHANGED <<rows, id, body>>
      /\ at'[r] \in {"post", "accepted", "ignored"}
  BY DEF LifeInv, TypeOK, SubmitDraw, OrgAccepts, OrgIgnores, Goto, table, mine
<1>2. at'[r] = "ignored" => org'[drawn'[r]] = Unknown
  <2>1. CASE OrgIgnores(r)
    <3>1. at[r] = "post" /\ drawn' = drawn /\ org' = org
      BY <2>1 DEF OrgIgnores, Goto, mine
    <3> QED
      BY <3>1 DEF LifeInv, Locals, Local
  <2>2. CASE SubmitDraw(r) \/ OrgAccepts(r)
    BY <1>1, <2>2 DEF SubmitDraw, OrgAccepts, Goto
  <2> QED
    BY <2>1, <2>2
<1>3. BodyFits(r)' /\ at'[r] \in Editing
  BY <1>1, <1>2 DEF BookInv, BodyFits, Filing, Editing
<1> QED
  BY <1>3, BookEditing

\* An answer changes the states of a batch, and leaves none of them unruled that
\* the table has ruled on.
LEMMA BookAnswers ==
  ASSUME NEW r \in Request, LifeInv, AloneInv(r), BookInv(r), InquireAnswer(r)
  PROVE  BookInv(r)'
<1>1. /\ todo \in [Request -> SUBSET Entries] /\ at \in [Request -> RequestStates]
      /\ UNCHANGED <<rows, org, drawn, id, body>>
  BY DEF LifeInv, TypeOK, InquireAnswer, table
<1>2. PICK answered \in SUBSET todo[r], found \in SUBSET todo[r] :
        /\ Goto(r, "inquire", "apply")
        /\ todo' = [todo EXCEPT ![r] =
             {IF e \in found THEN [e EXCEPT !.row.state = Verdict(@, org[e.row.ref].status)] ELSE e : e \in answered}]
  BY DEF InquireAnswer
<1>3. at[r] = "inquire" /\ at'[r] = "apply"
  BY <1>1, <1>2 DEF Goto
<1> DEFINE Kept(f, e) ==
             /\ f.id = e.id /\ f.row.payload = e.row.payload /\ f.row.tax = e.row.tax /\ f.row.ref = e.row.ref
             /\ f.row.state \in {"sent", "cancelled"} => f.row.state = e.row.state
           New(e) == IF e \in found THEN [e EXCEPT !.row.state = Verdict(@, org[e.row.ref].status)] ELSE e
<1>4. ASSUME NEW e \in todo[r] PROVE Kept(New(e), e)
  <2>1. CASE e \in found
    <3> DEFINE state == Verdict(e.row.state, org[e.row.ref].status)
    <3>1. e \in Entries
      BY <1>1
    <3>2. New(e) = [id |-> e.id, row |-> [state |-> state, payload |-> e.row.payload,
                                          tax |-> e.row.tax, ref |-> e.row.ref]]
      BY <2>1, <3>1, Answered
    <3>3. state \in {"sent", "cancelled"} => state = e.row.state
      BY DEF Verdict
    <3> HIDE DEF state, New
    <3> QED
      BY <3>2, <3>3
  <2>2. CASE e \notin found
    BY <2>2
  <2> QED
    BY <2>1, <2>2
<1>5. \A f \in todo'[r] : \E e \in todo[r] : f = New(e)
  BY <1>1, <1>2
<1> HIDE DEF New
<1>6. ASSUME NEW f \in todo'[r] PROVE Follows(f.row, rows[f.id])
  <2>1. PICK e \in todo[r] : f = New(e) /\ Kept(f, e)
    BY <1>4, <1>5
  <2>2. Follows(e.row, rows[e.id])
    BY <1>3 DEF BookInv, BatchFollows, Asking
  <2> QED
    BY <2>1, <2>2 DEF Follows
<1>7. ASSUME NEW f \in todo'[r], NEW g \in todo'[r], f.id = g.id PROVE f = g
  <2>1. PICK e \in todo[r] : f = New(e) /\ Kept(f, e)
    BY <1>4, <1>5
  <2>2. PICK h \in todo[r] : g = New(h) /\ Kept(g, h)
    BY <1>4, <1>5
  <2>3. e = h
    BY <1>3, <1>7, <2>1, <2>2 DEF BookInv, BatchFollows, Asking
  <2> QED
    BY <2>1, <2>2, <2>3
<1>8. BatchFollows(r)'
  BY <1>1, <1>6, <1>7 DEF BatchFollows
<1>9. BodyFits(r)' /\ VoidingShown(r)'
  BY <1>3 DEF BodyFits, VoidingShown, Filing, Editing
<1> QED
  BY <1>8, <1>9 DEF BookInv

\* The oldest record of the batch is written.
LEMMA BookApplies ==
  ASSUME NEW r \in Request, LifeInv, AloneInv(r), BookInv(r), ApplyVerdict(r)
  PROVE  /\ BookInv(r)'
         /\ \E e \in todo[r] : rows' = [rows EXCEPT ![e.id] = e.row]
<1>1. /\ todo \in [Request -> SUBSET Entries] /\ at \in [Request -> RequestStates]
      /\ UNCHANGED <<org, drawn, id, body, voided>> /\ at[r] = "apply" /\ todo[r] # {}
  BY DEF LifeInv, TypeOK, ApplyVerdict
<1>2. PICK e \in todo[r] : e = Oldest(r)
  BY <1>1, OldestIs
<1>3. /\ e.id \in Ids /\ e.row \in Rows /\ rows[e.id] \in Rows
  BY <1>1, BatchFacts DEF Asking
<1>4. /\ rows' = Update(e.id, e.row) /\ todo'[r] \in SUBSET todo[r] /\ at'[r] \in {"apply", "find"}
      /\ at'[r] = "find" => todo' = todo
  BY <1>1, <1>2 DEF ApplyVerdict
<1>5. rows' = [rows EXCEPT ![e.id] = e.row]
  BY <1>3, <1>4 DEF Update, Exists, NoRow, Rows, States
<1>6. rows'[e.id] = e.row /\ \A i \in Ids : i # e.id => rows'[i] = rows[i]
  BY <1>3, <1>5 DEF LifeInv, TypeOK
<1>7. ASSUME NEW f \in todo'[r] PROVE Follows(f.row, rows'[f.id])
  <2>1. f \in todo[r] /\ f.id \in Ids
    BY <1>1, <1>4, BatchFacts DEF Asking
  <2>2. CASE f.id = e.id
    <3>1. f = e
      BY <1>1, <2>1, <2>2 DEF BookInv, BatchFollows, Asking
    <3> QED
      BY <1>6, <3>1 DEF Follows
  <2>3. CASE f.id # e.id
    BY <1>1, <1>6, <2>1, <2>3 DEF BookInv, BatchFollows, Asking
  <2> QED
    BY <2>2, <2>3
<1>8. BatchFollows(r)'
  BY <1>1, <1>4, <1>7 DEF BookInv, BatchFollows, Asking
<1>9. at'[r] = "find" => Oldest(r)' = Oldest(r)
  BY <1>4 DEF Oldest
<1>10. BodyFits(r)' /\ VoidingShown(r)'
  BY <1>2, <1>4, <1>6, <1>9 DEF BodyFits, VoidingShown, Filing, Editing
<1> QED
  BY <1>5, <1>8, <1>10 DEF BookInv

\* The record to void is looked up while the record that voids it is in the table
\* as confirmed.
LEMMA BookFinds ==
  ASSUME NEW r \in Request, LifeInv, AloneInv(r), BookInv(r), CancelFind(r)
  PROVE  BookInv(r)'
<1>1. /\ todo \in [Request -> SUBSET Entries] /\ at \in [Request -> RequestStates]
      /\ voided \in [Request -> Entries \cup {NoTarget}]
      /\ UNCHANGED <<rows, org, drawn, id, body>> /\ at[r] = "find" /\ todo[r] # {}
  BY DEF LifeInv, TypeOK, Locals, Local, CancelFind, table, NoTarget
<1>2. PICK e \in todo[r] : e = Oldest(r)
  BY <1>1, OldestIs
<1>3. e.id \in Ids /\ rows[e.id] = e.row /\ e.row.state = "confirmed" /\ e.row.payload.voids # 0
  <2>1. e.id \in Ids
    BY <1>1, BatchFacts DEF Asking
  <2>2. e.row.state = "confirmed" /\ e.row.payload.voids # 0
    BY <1>1, <1>2 DEF LifeInv, Locals, Local, Oldest
  <2> QED
    BY <1>1, <1>2, <2>1, <2>2 DEF BookInv, VoidingShown
<1> DEFINE carriers == {i \in Ids : Exists(i) /\ rows[i].tax = e.row.payload.voids}
           newest   == CHOOSE i \in carriers : \A j \in carriers : j <= i
<1>4. /\ todo'[r] \in SUBSET todo[r] /\ at'[r] \in {"apply", "cancel"}
      /\ at'[r] = "cancel" => /\ carriers # {} /\ newest # e.id /\ rows[newest].state # "cancelled"
                              /\ voided'[r] = Record(newest)
  BY <1>1, <1>2 DEF CancelFind
<1>5. carriers # {} => newest \in Ids /\ rows[newest].tax = e.row.payload.voids
  <2>1. carriers \in SUBSET Ids
    OBVIOUS
  <2>2. carriers # {} => newest \in carriers
    <3> HIDE DEF carriers
    <3> QED
      BY <2>1, NewestIs
  <2> HIDE DEF newest
  <2> QED
    BY <2>2
<1> HIDE DEF carriers, newest
<1>6. at'[r] = "cancel" => voided'[r].id = newest /\ voided'[r].row = rows[newest]
  BY <1>4 DEF Record
<1>7. VoidingShown(r)'
  <2>1. ASSUME at'[r] = "cancel"
        PROVE  /\ rows'[voided'[r].id] = voided'[r].row /\ voided'[r].row.state # "cancelled"
               /\ voided'[r].row.tax # 0 /\ e.id \in Ids \ {voided'[r].id} /\ Voider(r, e.id)'
    BY <1>1, <1>3, <1>4, <1>5, <1>6, <2>1 DEF Voider
  <2> QED
    BY <1>4, <2>1 DEF VoidingShown
<1>8. BatchFollows(r)' /\ BodyFits(r)'
  BY <1>1, <1>4 DEF BookInv, BatchFollows, BodyFits, Asking, Filing, Editing
<1> QED
  BY <1>7, <1>8 DEF BookInv

\* The record is void.
LEMMA BookCancels ==
  ASSUME NEW r \in Request, LifeInv, AloneInv(r), BookInv(r), CancelWrite(r)
  PROVE  /\ BookInv(r)'
         /\ rows' = [rows EXCEPT ![voided[r].id].state = "cancelled"]
         /\ voided[r].id \in Ids /\ rows[voided[r].id].state \in Shown \ {"cancelled"}
         /\ \E j \in Ids \ {voided[r].id} : rows[j].state = "confirmed"
                                            /\ rows[j].payload.voids = rows[voided[r].id].tax
<1>1. /\ at \in [Request -> RequestStates] /\ rows \in [Ids -> Rows \cup {NoRow}]
      /\ UNCHANGED <<org, drawn, id, body, todo>> /\ at[r] = "cancel" /\ at'[r] = "apply"
  BY DEF LifeInv, TypeOK, CancelWrite, Goto
<1>2. voided[r].id \in Ids /\ voided[r].row \in Rows /\ voided[r].row # NoRow
  BY <1>1, TargetIs
<1>3. /\ rows[voided[r].id] = voided[r].row /\ voided[r].row.state # "cancelled" /\ voided[r].row.tax # 0
      /\ \E j \in Ids \ {voided[r].id} : Voider(r, j)
  BY <1>1 DEF BookInv, VoidingShown
<1> DEFINE row == [voided[r].row EXCEPT !.state = "cancelled"]
<1>4. row = [state |-> "cancelled", payload |-> voided[r].row.payload,
             tax |-> voided[r].row.tax, ref |-> voided[r].row.ref]
  BY <1>2, Restated DEF States
<1>5. rows' = [rows EXCEPT ![voided[r].id] = row]
  BY <1>2, <1>3 DEF CancelWrite, Update, Exists
<1>6. rows' = [rows EXCEPT ![voided[r].id].state = "cancelled"]
  BY <1>1, <1>2, <1>3, <1>5
<1> HIDE DEF row
<1>7. rows[voided[r].id].state \in Shown
  <2>1. Truthful(rows[voided[r].id], org)
    BY <1>2, StoredRow
  <2> QED
    BY <1>2, <1>3, <2>1, FiledStates
<1>8. rows'[voided[r].id] = row /\ \A i \in Ids : i # voided[r].id => rows'[i] = rows[i]
  BY <1>1, <1>2, <1>5
<1>9. ASSUME NEW e \in todo[r] PROVE Follows(e.row, rows'[e.id])
  <2>1. e.id \in Ids /\ Follows(e.row, rows[e.id])
    BY <1>1, BatchFacts DEF BookInv, BatchFollows, Asking
  <2>2. CASE e.id = voided[r].id
    <3>1. Follows(e.row, voided[r].row)
      BY <1>3, <2>1, <2>2
    <3> QED
      BY <1>4, <1>8, <2>2, <3>1 DEF Follows
  <2>3. CASE e.id # voided[r].id
    BY <1>8, <2>1, <2>3
  <2> QED
    BY <2>2, <2>3
<1>10. BatchFollows(r)'
  BY <1>1, <1>9 DEF BookInv, BatchFollows, Asking
<1>11. BodyFits(r)' /\ VoidingShown(r)'
  BY <1>1 DEF BodyFits, VoidingShown, Filing, Editing
<1> QED
  BY <1>2, <1>3, <1>6, <1>7, <1>10, <1>11 DEF BookInv, Voider

(***************************************************************************)
(* Every step is a step of the book, or shows in nothing it has.           *)
(***************************************************************************)
BookStep == Book!Next \/ UNCHANGED <<rows, nextId, FilingsSeen>>

\* What the records know of the organization, with one request.
LEMMA SeenAlone ==
  ASSUME NEW r \in Request, Alone(r)
  PROVE  /\ FilingsSeen = [s \in Serials |-> IF at[r] = "accepted" /\ drawn[r] = s THEN Unknown ELSE org[s]]
         /\ FilingsSeen' = [s \in Serials |-> IF at'[r] = "accepted" /\ drawn'[r] = s THEN Unknown ELSE org'[s]]
BY DEF Alone, FilingsSeen

\* Nothing is seen of a step that leaves the organization alone and stores no
\* answer.
LEMMA SeenSame ==
  ASSUME NEW r \in Request, Alone(r), org' = org, at[r] # "accepted", at'[r] # "accepted"
  PROVE  FilingsSeen' = FilingsSeen
BY SeenAlone

\* A save by a request is an entry over a draft or under the next id.
LEMMA PutAlone ==
  ASSUME NEW r \in Request, LifeInv, AloneInv(r), BookInv(r), at[r] \in Editing, NEW row, Save(id[r], row)
  PROVE  \E k \in Ids : Book!Put(k, row)
<1>1. /\ rows \in [Ids -> Rows \cup {NoRow}] /\ nextId \in 1 .. MaxId + 1 /\ id[r] \in Ids \cup {0}
      /\ MaxId \in Nat /\ \A i \in Ids : i >= nextId => rows[i] = NoRow
  BY LifecycleAssumption, AloneFacts
<1>2. CASE id[r] = 0
  <2>1. nextId \in Ids /\ rows' = [rows EXCEPT ![nextId] = row] /\ nextId' = nextId + 1
    BY <1>1, <1>2 DEF Save, Insert, Ids
  <2> QED
    BY <2>1 DEF Book!Put
<1>3. CASE id[r] # 0
  <2>1. rows[id[r]].state \in Editable
    BY <1>3 DEF BookInv, BodyFits
  <2>2. rows[id[r]] # NoRow /\ id[r] \in Ids
    BY <1>1, <1>3, AloneFacts
  <2>3. rows' = [rows EXCEPT ![id[r]] = row] /\ nextId' = nextId
    BY <1>3, <2>2 DEF Save, Update, Exists
  <2>4. id[r] # nextId
    BY <1>1, <2>2 DEF Ids
  <2> QED
    BY <2>1, <2>2, <2>3, <2>4 DEF Book!Put, Book!Draft, Editable
<1> QED
  BY <1>2, <1>3

\* PUT, DELETE and a submit the rule engine refused.
LEMMA EditsAreSteps ==
  ASSUME NEW r \in Request, Alone(r), LifeInv, AloneInv(r), BookInv(r),
         UpdateWrite(r) \/ DeleteWrite(r) \/ SubmitRefuse(r)
  PROVE  BookStep
<1>1. at[r] \in Editing /\ at[r] # "accepted" /\ at'[r] = "idle" /\ org' = org /\ body[r] \in Invoices
  BY AloneFacts DEF UpdateWrite, DeleteWrite, SubmitRefuse, Finish, Editing
<1>2. FilingsSeen' = FilingsSeen
  BY <1>1, SeenSame
<1>3. copy[r].tax = 0 /\ copy[r].ref = 0
  BY AloneFacts
<1>4. ASSUME NEW row, row = Book!Unfiled(body[r]), Save(id[r], row) PROVE BookStep
  <2>1. PICK k \in Ids : Book!Put(k, row)
    BY <1>1, <1>4, PutAlone
  <2>2. k \in Book!Ids /\ body[r] \in Book!Invoices /\ Book!Write(k, body[r])
    BY <1>1, <1>2, <1>4, <2>1 DEF Book!Write, Book!Ids, Ids, Book!Invoices, Invoices
  <2> QED
    BY <2>2 DEF BookStep, Book!Next
<1>5. CASE UpdateWrite(r)
  <2> DEFINE row == [state |-> Verified(body[r]), payload |-> body[r], tax |-> 0, ref |-> copy[r].ref]
  <2>1. id[r] # 0
    BY <1>5 DEF LifeInv, Locals, Local, UpdateWrite
  <2>2. rows' = Update(id[r], row) /\ nextId' = nextId
    BY <1>5 DEF UpdateWrite
  <2>3. row = Book!Unfiled(body[r])
    BY <1>3 DEF Verified, Book!Unfiled, Book!Entry
  <2> HIDE DEF row
  <2> QED
    BY <1>4, <2>1, <2>2, <2>3 DEF Save
<1>6. CASE DeleteWrite(r)
  <2>1. id[r] # 0 /\ at[r] = "delete"
    BY <1>6 DEF LifeInv, Locals, Local, DeleteWrite
  <2>2. id[r] \in Ids /\ rows[id[r]].state \in Editable
    BY <1>1, <2>1, AloneFacts DEF BookInv, BodyFits
  <2>3. rows' = [rows EXCEPT ![id[r]] = NoRow] /\ nextId' = nextId
    BY <1>6 DEF DeleteWrite
  <2>4. id[r] \in Book!Ids /\ Book!Discard(id[r])
    BY <1>2, <2>2, <2>3 DEF Book!Discard, Book!Draft, Book!Blank, Book!NoInvoice, NoRow, NoInvoice, Editable,
       Book!Ids, Ids
  <2> QED
    BY <2>4 DEF BookStep, Book!Next
<1>7. CASE SubmitRefuse(r)
  <2> DEFINE row == [state |-> "invalid", payload |-> body[r], tax |-> copy[r].tax, ref |-> copy[r].ref]
  <2>1. ~ body[r].valid
    BY <1>7 DEF SubmitRefuse, BookInv, BodyFits
  <2>2. Save(id[r], row)
    BY <1>7 DEF SubmitRefuse
  <2>3. row = Book!Unfiled(body[r])
    BY <1>3, <2>1 DEF Book!Unfiled, Book!Entry
  <2> HIDE DEF row
  <2> QED
    BY <1>4, <2>2, <2>3
<1> QED
  BY <1>5, <1>6, <1>7

\* The answer to a submit is stored: the record and the filing appear together.
LEMMA SaveIsStep ==
  ASSUME NEW r \in Request, Alone(r), LifeInv, AloneInv(r), BookInv(r), SubmitSave(r)
  PROVE  BookStep
<1> DEFINE s   == drawn[r]
           inv == body[r]
           ref == IF at[r] = "accepted" THEN s ELSE 0
           row == [state |-> "sent", payload |-> inv, tax |-> s, ref |-> ref]
<1>1. /\ at[r] \in {"accepted", "ignored"} /\ at'[r] = "idle" /\ org' = org /\ Save(id[r], row)
      /\ org \in [Serials -> Filings \cup {Unknown}]
  BY DEF SubmitSave, Finish, LifeInv, TypeOK
<1>2. /\ s \in Serials /\ inv \in Invoices /\ inv.valid
      /\ \A e \in Held : e.row.tax # s
  BY <1>1, LifecycleAssumption DEF LifeInv, TypeOK, DrawnIsNew, Filing, Serials, BookInv, BodyFits
<1>3. \A i \in Ids : rows[i].tax # s
  <2>1. ASSUME NEW i \in Ids PROVE rows[i].tax # s
    <3>1. [id |-> i, row |-> rows[i]] \in Held
      BY HeldIs
    <3>2. [id |-> i, row |-> rows[i]].row.tax # s
      BY ONLY <1>2, <3>1
    <3> QED
      BY <3>2
  <2> QED
    BY <2>1
<1>4. at[r] = "accepted" => org[s] \in Filings /\ org[s].payload = Book!Signed(inv, s)
  BY <1>1, <1>2 DEF LifeInv, Locals, Local, WithIdentity, Book!Signed
<1>5. at[r] = "ignored" => org[s] = Unknown
  BY DEF BookInv, BodyFits
<1>6. /\ FilingsSeen = [t \in Serials |-> IF at[r] = "accepted" /\ s = t THEN Unknown ELSE org[t]]
      /\ FilingsSeen' = org
  BY <1>1, SeenAlone
<1>7. PICK k \in Ids : Book!Put(k, row)
  <2> HIDE DEF row
  <2> QED
    BY <1>1, PutAlone DEF Editing
<1>8. k \in Book!Ids /\ inv \in Book!Invoices /\ s \in Book!Serials
  BY <1>2 DEF Book!Ids, Ids, Book!Invoices, Invoices, Book!Serials, Serials
<1> HIDE DEF s, inv
<1>9. FilingsSeen[s] = Unknown
  BY <1>1, <1>2, <1>5, <1>6
<1>10. Book!Fresh(s)
  BY <1>3, <1>9 DEF Book!Fresh, Book!Unknown, Book!NoInvoice, Unknown, NoInvoice, Book!Ids, Ids
<1>11. CASE at[r] = "accepted"
  <2>1. row = Book!Entry("sent", inv, s, s)
    BY <1>11 DEF Book!Entry
  <2>2. PICK status \in {"in_progress", "success", "failed"} :
          org[s] = [status |-> status, payload |-> Book!Signed(inv, s)]
    BY <1>4, <1>11 DEF Filings
  <2>3. FilingsSeen' = [FilingsSeen EXCEPT ![s] = org[s]]
    BY <1>1, <1>2, <1>6, <1>11
  <2> HIDE DEF row
  <2>4. Book!File(k, inv, s)
    BY <1>2, <1>7, <1>10, <2>1, <2>2, <2>3 DEF Book!File
  <2> QED
    BY <1>8, <2>4 DEF BookStep, Book!Next
<1>12. CASE at[r] = "ignored"
  <2>1. row = Book!Entry("sent", inv, s, 0)
    BY <1>12 DEF Book!Entry
  <2>2. FilingsSeen' = FilingsSeen
    BY <1>1, <1>6, <1>12
  <2> HIDE DEF row
  <2>3. Book!FileUnanswered(k, inv, s)
    BY <1>2, <1>7, <1>10, <2>1, <2>2 DEF Book!FileUnanswered
  <2> QED
    BY <1>8, <2>3 DEF BookStep, Book!Next
<1> QED
  BY <1>1, <1>11, <1>12

\* A filing shows in nothing before its answer is stored.
LEMMA FilingIsHidden ==
  ASSUME NEW r \in Request, Alone(r), LifeInv, SubmitDraw(r) \/ OrgAccepts(r) \/ OrgIgnores(r)
  PROVE  UNCHANGED <<rows, nextId, FilingsSeen>>
<1>1. UNCHANGED <<rows, nextId>> /\ at \in [Request -> RequestStates] /\ org \in [Serials -> Filings \cup {Unknown}]
  BY DEF SubmitDraw, OrgAccepts, OrgIgnores, table, LifeInv, TypeOK
<1>2. CASE SubmitDraw(r) \/ OrgIgnores(r)
  BY <1>1, <1>2, SeenSame DEF SubmitDraw, OrgIgnores, Goto
<1>3. CASE OrgAccepts(r)
  <2>1. /\ at[r] = "post" /\ at'[r] = "accepted" /\ drawn' = drawn
        /\ org' = [org EXCEPT ![drawn[r]] = [status |-> "in_progress", payload |-> WithIdentity(body[r], drawn[r])]]
    BY <1>1, <1>3 DEF OrgAccepts, Goto, mine
  <2>2. org[drawn[r]] = Unknown
    BY <2>1 DEF LifeInv, Locals, Local
  <2>3. FilingsSeen = [s \in Serials |-> org[s]]
    BY <2>1, SeenAlone
  <2>4. FilingsSeen' = [s \in Serials |-> IF drawn[r] = s THEN Unknown ELSE org'[s]]
    BY <2>1, SeenAlone
  <2>5. \A s \in Serials : org[s] = IF drawn[r] = s THEN Unknown ELSE org'[s]
    BY <1>1, <2>1, <2>2
  <2> QED
    BY <1>1, <2>3, <2>4, <2>5
<1> QED
  BY <1>2, <1>3

\* What the organization says of a record is what its filing shows.
LEMMA ToldIs ==
  ASSUME NEW r \in Request, Alone(r), at[r] # "accepted", NEW row \in Rows, NEW i \in Ids,
         row.ref \in Serials, rows[i].ref = row.ref, Truthful(row, org), row.state \in {"confirmed", "rejected"}
  PROVE  Book!Told(i) = row.state
<1>1. FilingsSeen[row.ref] = org[row.ref]
  BY SeenAlone
<1>2. row.state = "confirmed" => org[row.ref].status = "success"
  BY DEF Truthful
<1>3. row.state = "rejected" => org[row.ref].status = "failed"
  BY DEF Truthful
<1> QED
  BY <1>1, <1>2, <1>3 DEF Book!Told

\* A record written back is as it was, or learns its verdict, or loses its voiding.
LEMMA ApplyIsStep ==
  ASSUME NEW r \in Request, Alone(r), LifeInv, AloneInv(r), BookInv(r), ApplyVerdict(r)
  PROVE  BookStep
<1>1. /\ nextId' = nextId /\ org' = org /\ at[r] = "apply" /\ at'[r] # "accepted"
      /\ rows \in [Ids -> Rows \cup {NoRow}]
  BY DEF ApplyVerdict, LifeInv, TypeOK
<1>2. FilingsSeen' = FilingsSeen
  BY <1>1, SeenSame
<1>3. PICK e \in todo[r] : rows' = [rows EXCEPT ![e.id] = e.row]
  BY BookApplies
<1> DEFINE i == e.id
           row == e.row
<1>4. /\ i \in Ids /\ row \in Rows /\ rows[i] \in Rows /\ row.ref \in Serials /\ rows[i].ref = row.ref
      /\ Truthful(row, org) /\ Truthful(rows[i], org) /\ row.state \in Shown /\ rows[i].state \in Shown
  BY <1>1, BatchFacts DEF Asking
<1>5. Follows(row, rows[i])
  BY <1>1 DEF BookInv, BatchFollows, Asking
<1>6. rows' = [rows EXCEPT ![i] = row]
  BY <1>3
<1> HIDE DEF i, row
<1>7. rows' = [rows EXCEPT ![i].state = row.state]
  <2>1. row = [state |-> row.state, payload |-> rows[i].payload, tax |-> rows[i].tax, ref |-> rows[i].ref]
    BY <1>4, <1>5 DEF Rows, Follows
  <2>2. [rows[i] EXCEPT !.state = row.state] =
          [state |-> row.state, payload |-> rows[i].payload, tax |-> rows[i].tax, ref |-> rows[i].ref]
    BY <1>4, Restated DEF Rows
  <2> QED
    BY <1>4, <1>6, <2>1, <2>2
<1>8. i \in Book!Ids /\ row.ref # 0 /\ rows[i].ref # 0
  BY <1>4, LifecycleAssumption DEF Book!Ids, Ids, Serials
<1>9. row.state \in {"confirmed", "rejected"} => Book!Told(i) = row.state
  BY <1>1, <1>4, ToldIs
<1>10. CASE row.state = rows[i].state
  <2>1. row = rows[i]
    BY <1>4, <1>5, <1>10 DEF Rows, Follows
  <2>2. rows' = rows
    BY <1>1, <1>4, <1>6, <2>1
  <2> QED
    BY <1>1, <1>2, <2>2 DEF BookStep
<1>11. CASE rows[i].state = "cancelled" /\ row.state # "cancelled"
  <2>1. row.state \in {"sent", Book!Told(i)}
    BY <1>4, <1>9, <1>11 DEF Shown
  <2>2. Book!Restate(i, row.state)
    BY <1>1, <1>2, <1>7 DEF Book!Restate
  <2>3. Book!Unvoid(i)
    BY <1>8, <1>11, <2>1, <2>2 DEF Book!Unvoid
  <2> QED
    BY <1>8, <2>3 DEF BookStep, Book!Next
<1>12. CASE rows[i].state # "cancelled" /\ row.state # rows[i].state
  <2>1. row.state \in {"confirmed", "rejected"}
    BY <1>4, <1>5, <1>12 DEF Follows, Shown
  <2>2. rows[i].state = "sent"
    <3>1. row.state = "confirmed" => org[row.ref].status = "success"
      BY <1>4 DEF Truthful
    <3>2. row.state = "rejected" => org[row.ref].status = "failed"
      BY <1>4 DEF Truthful
    <3>3. rows[i].state = "confirmed" => org[row.ref].status = "success"
      BY <1>4 DEF Truthful
    <3>4. rows[i].state = "rejected" => org[row.ref].status = "failed"
      BY <1>4 DEF Truthful
    <3>5. rows[i].state \in Shown
      BY <1>4
    <3> QED
      BY ONLY <1>12, <2>1, <3>1, <3>2, <3>3, <3>4, <3>5 DEF Shown
  <2>3. Book!Restate(i, Book!Told(i))
    BY <1>1, <1>2, <1>7, <1>9, <2>1 DEF Book!Restate
  <2>4. Book!Learn(i)
    BY <1>8, <2>2, <2>3 DEF Book!Learn
  <2> QED
    BY <1>8, <2>4 DEF BookStep, Book!Next
<1> QED
  BY <1>10, <1>11, <1>12

\* The target of a voiding is void.
LEMMA CancelIsStep ==
  ASSUME NEW r \in Request, Alone(r), LifeInv, AloneInv(r), BookInv(r), CancelWrite(r)
  PROVE  BookStep
<1>1. nextId' = nextId /\ org' = org /\ at[r] = "cancel" /\ at'[r] # "accepted"
  BY DEF CancelWrite, Goto, LifeInv, TypeOK
<1>2. FilingsSeen' = FilingsSeen
  BY <1>1, SeenSame
<1>3. /\ rows' = [rows EXCEPT ![voided[r].id].state = "cancelled"]
      /\ voided[r].id \in Ids /\ rows[voided[r].id].state \in Shown \ {"cancelled"}
      /\ \E j \in Ids \ {voided[r].id} : rows[j].state = "confirmed"
                                         /\ rows[j].payload.voids = rows[voided[r].id].tax
  BY BookCancels
<1>4. voided[r].id \in Book!Ids /\ Book!Void(voided[r].id)
  BY <1>1, <1>2, <1>3 DEF Book!Void, Book!Restate, Book!Ids, Ids, Shown
<1> QED
  BY <1>4 DEF BookStep, Book!Next

\* The steps that are no request's: a draft is saved, the organization rules.
LEMMA OthersAreSteps ==
  ASSUME NEW r \in Request, Alone(r), LifeInv, AloneInv(r), BookInv(r)
  PROVE  /\ \A inv \in Invoice : SaveInvoice(inv) => BookInv(r)' /\ BookStep
         /\ \A s \in Serials : OrgRules(s) => BookInv(r)' /\ BookStep
<1>1. ASSUME NEW inv \in Invoice, SaveInvoice(inv) PROVE BookInv(r)' /\ BookStep
  <2> DEFINE row == [state |-> Verified(inv), payload |-> inv, tax |-> 0, ref |-> 0]
  <2>1. /\ Insert(row) /\ UNCHANGED <<org, at, id, body, drawn, todo, voided>>
        /\ rows \in [Ids -> Rows \cup {NoRow}]
        /\ nextId \in 1 .. MaxId + 1 /\ MaxId \in Nat /\ inv \in Invoices
    BY <1>1, LifecycleAssumption DEF SaveInvoice, mine, LifeInv, TypeOK
  <2>2. row = Book!Unfiled(inv)
    BY DEF Verified, Book!Unfiled, Book!Entry
  <2> HIDE DEF row
  <2>3. nextId \in Ids /\ rows' = [rows EXCEPT ![nextId] = row] /\ nextId' = nextId + 1
    BY <2>1 DEF Insert, Ids
  <2>4. rows[nextId] = NoRow
    BY <2>1, <2>3 DEF LifeInv, Untouched, Ids
  <2>5. \A i \in Ids : rows[i] # NoRow => rows'[i] = rows[i]
    BY <2>1, <2>3, <2>4
  <2>6. BookInv(r)'
    BY <2>1, <2>5, BookSame
  <2>7. FilingsSeen' = FilingsSeen
    BY <2>1, SeenAlone
  <2>8. nextId \in Book!Ids /\ inv \in Book!Invoices /\ Book!Write(nextId, inv)
    BY <2>1, <2>2, <2>3, <2>7 DEF Book!Write, Book!Put, Book!Ids, Ids, Book!Invoices, Invoices
  <2> QED
    BY <2>6, <2>8 DEF BookStep, Book!Next
<1>2. ASSUME NEW s \in Serials, OrgRules(s) PROVE BookInv(r)' /\ BookStep
  <2>1. PICK verdict \in {"success", "failed"} :
          org[s].status = "in_progress" /\ org' = [org EXCEPT ![s].status = verdict]
    BY <1>2 DEF OrgRules
  <2>2. /\ UNCHANGED <<rows, nextId, at, id, body, drawn, todo, voided>>
        /\ org \in [Serials -> Filings \cup {Unknown}]
    BY <1>2 DEF OrgRules, table, mine, LifeInv, TypeOK
  <2>3. \A t \in Serials : t # s => org'[t] = org[t]
    BY <2>1, <2>2
  <2>4. org[s] # Unknown
    BY <2>1 DEF Unknown
  <2>5. BookInv(r)'
    BY <2>2, <2>3, <2>4, BookSame
  <2>6. CASE at[r] = "accepted" /\ drawn[r] = s
    <3>1. FilingsSeen = [t \in Serials |-> IF s = t THEN Unknown ELSE org[t]]
      BY <2>6, SeenAlone
    <3>2. FilingsSeen' = [t \in Serials |-> IF s = t THEN Unknown ELSE org'[t]]
      BY <2>2, <2>6, SeenAlone
    <3>3. FilingsSeen' = FilingsSeen
      <4>1. \A t \in Serials : (IF s = t THEN Unknown ELSE org'[t]) = IF s = t THEN Unknown ELSE org[t]
        BY <2>3
      <4> QED
        BY <3>1, <3>2, <4>1
    <3> QED
      BY <2>2, <2>5, <3>3 DEF BookStep
  <2>7. CASE ~ (at[r] = "accepted" /\ drawn[r] = s)
    <3>1. FilingsSeen[s] = org[s]
      BY <2>7, SeenAlone
    <3>2. FilingsSeen' = [FilingsSeen EXCEPT ![s].status = verdict]
      <4>1. org'[s] = [org[s] EXCEPT !.status = verdict]
        BY <2>1, <2>2
      <4>2. FilingsSeen' = [FilingsSeen EXCEPT ![s] = org'[s]]
        <5> DEFINE hidden(t) == at[r] = "accepted" /\ drawn[r] = t
        <5>1. FilingsSeen = [t \in Serials |-> IF hidden(t) THEN Unknown ELSE org[t]]
          BY SeenAlone
        <5>2. FilingsSeen' = [t \in Serials |-> IF hidden(t) THEN Unknown ELSE org'[t]]
          BY <2>2, SeenAlone
        <5>3. ~ hidden(s)
          BY <2>7
        <5> HIDE DEF hidden
        <5> QED
          BY <2>3, <5>1, <5>2, <5>3
      <4>3. FilingsSeen' = [FilingsSeen EXCEPT ![s] = [FilingsSeen[s] EXCEPT !.status = verdict]]
        BY ONLY <3>1, <4>1, <4>2
      <4> QED
        BY <4>3
    <3>3. s \in Book!Serials /\ Book!Rule(s)
      BY <2>1, <2>2, <3>1, <3>2 DEF Book!Rule, Book!Serials, Serials
    <3> QED
      BY <2>5, <3>3 DEF BookStep, Book!Next
  <2> QED
    BY <2>6, <2>7
<1> QED
  BY <1>1, <1>2

\* Every step keeps the invariant and is a step of the book.
LEMMA BookSteps ==
  ASSUME NEW r \in Request, Alone(r), LifeInv, AloneInv(r), BookInv(r), [Next]_vars
  PROVE  BookInv(r)' /\ BookStep
<1>1. ASSUME Begin(r) PROVE BookInv(r)' /\ BookStep
  <2>1. BookInv(r)' /\ UNCHANGED <<rows, nextId, org>> /\ at[r] # "accepted" /\ at'[r] # "accepted"
    BY <1>1, BookBegins
  <2> QED
    BY <2>1, SeenSame DEF BookStep
<1>2. ASSUME UpdateWrite(r) \/ DeleteWrite(r) \/ SubmitRefuse(r) \/ SubmitSave(r) PROVE BookInv(r)' /\ BookStep
  <2>1. at'[r] = "idle"
    BY <1>2 DEF UpdateWrite, DeleteWrite, SubmitRefuse, SubmitSave, Finish
  <2> QED
    BY <1>2, <2>1, BookIdle, EditsAreSteps, SaveIsStep
<1>3. ASSUME SubmitDraw(r) \/ OrgAccepts(r) \/ OrgIgnores(r) PROVE BookInv(r)' /\ BookStep
  BY <1>3, BookFiling, FilingIsHidden DEF BookStep
<1>4. ASSUME SubmitExhausted(r) \/ InquireDone(r) PROVE BookInv(r)' /\ BookStep
  <2>1. UNCHANGED <<rows, nextId, org>> /\ at[r] # "accepted" /\ at'[r] = "idle"
    BY <1>4 DEF SubmitExhausted, InquireDone, Finish, table
  <2> QED
    BY <2>1, BookIdle, SeenSame DEF BookStep
<1>5. ASSUME InquireAnswer(r) \/ CancelFind(r) PROVE BookInv(r)' /\ BookStep
  <2>1. UNCHANGED <<rows, nextId, org>> /\ at[r] # "accepted" /\ at'[r] # "accepted"
    BY <1>5 DEF InquireAnswer, CancelFind, Goto, table, LifeInv, TypeOK
  <2> QED
    BY <1>5, <2>1, BookAnswers, BookFinds, SeenSame DEF BookStep
<1>6. ASSUME ApplyVerdict(r) \/ CancelWrite(r) PROVE BookInv(r)' /\ BookStep
  BY <1>6, BookApplies, BookCancels, ApplyIsStep, CancelIsStep
<1>7. ~ SubmitFails(r) /\ ~ InquireFails(r) /\ \A w \in Worker : ~ Crash(w)
  BY DEF Alone, SubmitFails, InquireFails, Crash
<1>8. CASE UNCHANGED vars
  <2>1. UNCHANGED <<rows, nextId, org, at, id, body, drawn, todo, voided>>
    BY <1>8 DEF vars
  <2> QED
    BY <2>1, BookSame, SeenAlone DEF BookStep
<1>9. \A q \in Request : q = r
  BY DEF Alone
<1> QED
  BY <1>1, <1>2, <1>3, <1>4, <1>5, <1>6, <1>7, <1>8, <1>9, OthersAreSteps DEF Next, Continue

\* At first the book is empty.
LEMMA BookBeginsEmpty ==
  ASSUME NEW r \in Request, Alone(r), Init
  PROVE  BookInv(r) /\ Book!Init
<1>1. BookInv(r)
  BY DEF Init, BookInv, BodyFits, BatchFollows, VoidingShown, Filing, Editing, Asking
<1>2. FilingsSeen = [s \in Serials |-> Unknown]
  BY SeenAlone DEF Init
<1>3. Book!Init
  BY <1>2 DEF Init, Book!Init, Book!Ids, Ids, Book!Serials, Serials, Book!Blank, Book!NoInvoice, NoRow, NoInvoice,
     Book!Unknown, Unknown
<1> QED
  BY <1>1, <1>3

\* The handlers of an operator who does one thing at a time and gets every answer
\* keep a book: filing is one step, and what is filed stays as it was filed.
THEOREM LoneRecordsAreABook ==
  ASSUME NEW r \in Request, Alone(r)
  PROVE  Spec => KeepsBook
<1>1. Init => LifeInv /\ AloneInv(r) /\ BookInv(r) /\ Book!Init
  BY LifeInit, AloneInit, BookBeginsEmpty
<1>2. LifeInv /\ AloneInv(r) /\ BookInv(r) /\ [Next]_vars
        => (LifeInv /\ AloneInv(r) /\ BookInv(r))' /\ [Book!Next]_(Book!vars)
  BY LifeStep, AloneStep, BookSteps DEF BookStep, Book!vars
<1> QED
  BY <1>1, <1>2, PTL DEF Spec, KeepsBook, Book!Spec

(***************************************************************************)
(* What a lone operator's inquiries leave as it was.                       *)
(***************************************************************************)
\* Of two requests, one may write back a state from before the other's verdict
\* (InvoiceLifecycle_inquire_race); a lone inquiry never takes a verdict away.
THEOREM LoneVerdictsStay ==
  ASSUME NEW me \in Request, Alone(me)
  PROVE  Spec => InquiryKeepsVerdicts
<1> DEFINE Inv == LifeInv /\ AloneInv(me) /\ BookInv(me)
<1>1. Init => Inv
  BY LifeInit, AloneInit, BookBeginsEmpty
<1>2. Inv /\ [Next]_vars => Inv'
  BY LifeStep, AloneStep, BookSteps
<1>3. Inv /\ [Next]_vars =>
        [\A r \in Request, i \in Ids :
            ApplyVerdict(r) /\ rows[i].state \in {"confirmed", "rejected"} =>
              rows'[i].state = rows[i].state]_vars
  <2> SUFFICES ASSUME Inv, NEW r \in Request, NEW i \in Ids, ApplyVerdict(r), rows[i].state \in {"confirmed", "rejected"}
               PROVE  rows'[i].state = rows[i].state
    OBVIOUS
  <2>1. r = me /\ at[me] = "apply" /\ rows \in [Ids -> Rows \cup {NoRow}]
    BY DEF Alone, ApplyVerdict, LifeInv, TypeOK
  <2>2. PICK e \in todo[me] : rows' = [rows EXCEPT ![e.id] = e.row]
    BY <2>1, BookApplies
  <2>3. CASE i = e.id
    <3>1. /\ rows[i].ref = e.row.ref /\ Truthful(e.row, org) /\ Truthful(rows[i], org)
          /\ e.row.state \in Shown
      BY <2>1, <2>3, BatchFacts DEF Asking
    <3>2. Follows(e.row, rows[i])
      BY <2>1, <2>3 DEF BookInv, BatchFollows, Asking
    <3>3. e.row.state \in {"confirmed", "rejected"}
      BY <3>1, <3>2 DEF Follows, Shown
    <3>4. e.row.state = rows[i].state
      <4>1. e.row.state = "confirmed" => org[rows[i].ref].status = "success"
        BY <3>1 DEF Truthful
      <4>2. e.row.state = "rejected" => org[rows[i].ref].status = "failed"
        BY <3>1 DEF Truthful
      <4>3. rows[i].state = "confirmed" => org[rows[i].ref].status = "success"
        BY <3>1 DEF Truthful
      <4>4. rows[i].state = "rejected" => org[rows[i].ref].status = "failed"
        BY <3>1 DEF Truthful
      <4> QED
        BY <3>3, <4>1, <4>2, <4>3, <4>4
    <3> QED
      BY <2>1, <2>2, <2>3, <3>4
  <2>4. CASE i # e.id
    BY <2>1, <2>2, <2>4
  <2> QED
    BY <2>3, <2>4
<1> QED
  BY <1>1, <1>2, <1>3, PTL DEF Spec, InquiryKeepsVerdicts

\* A record voids only records that were entered before it.
VoidsOlder ==
  \A i, j \in Ids :
    rows[i].ref # 0 /\ rows[i].payload.voids # 0 /\ rows[i].payload.voids = rows[j].tax => j < i

\* No record of a batch is void, and none will be: records are written back
\* oldest first, and a target is older than the record that voids it.
NoneVoid(r) ==
  /\ at[r] \in Asking => \A e \in todo[r] : rows[e.id].state # "cancelled"
  /\ at[r] = "cancel" => \A e \in todo[r] : voided[r].id < e.id

VoidsStay == \A i \in Ids : rows[i].state = "cancelled" => rows'[i].state = "cancelled"

\* The steps of an inquiry.
LEMMA InquiryVoids ==
  ASSUME NEW r \in Request, LifeInv, AloneInv(r), BookInv(r), NoneVoid(r), VoidsOlder,
         InquireAnswer(r) \/ ApplyVerdict(r) \/ CancelFind(r) \/ CancelWrite(r)
  PROVE  NoneVoid(r)' /\ VoidsStay
<1>1. /\ rows \in [Ids -> Rows \cup {NoRow}] /\ at[r] \in Asking /\ at'[r] \in Asking
      /\ todo \in [Request -> SUBSET Entries] /\ at \in [Request -> RequestStates]
      /\ voided \in [Request -> Entries \cup {NoTarget}]
  BY DEF LifeInv, TypeOK, NoTarget, InquireAnswer, ApplyVerdict, CancelFind, CancelWrite, Goto, Asking
<1>2. CASE InquireAnswer(r)
  <2>1. PICK answered \in SUBSET todo[r], found \in SUBSET todo[r] :
          /\ Goto(r, "inquire", "apply")
          /\ todo' = [todo EXCEPT ![r] =
               {IF e \in found THEN [e EXCEPT !.row.state = Verdict(@, org[e.row.ref].status)] ELSE e : e \in answered}]
    BY <1>2 DEF InquireAnswer
  <2> DEFINE New(e) == IF e \in found THEN [e EXCEPT !.row.state = Verdict(@, org[e.row.ref].status)] ELSE e
  <2>2. ASSUME NEW e \in todo[r] PROVE New(e).id = e.id
    <3>1. e \in Entries
      BY <1>1
    <3>2. [e EXCEPT !.row.state = Verdict(@, org[e.row.ref].status)] =
             [id |-> e.id, row |-> [state |-> Verdict(e.row.state, org[e.row.ref].status), payload |-> e.row.payload,
                                    tax |-> e.row.tax, ref |-> e.row.ref]]
      BY <3>1, Answered
    <3> QED
      BY <3>2
  <2>3. \A f \in todo'[r] : \E e \in todo[r] : f = New(e)
    BY <1>1, <2>1
  <2> HIDE DEF New
  <2>4. rows' = rows /\ at'[r] = "apply"
    BY <1>1, <1>2, <2>1 DEF InquireAnswer, table, Goto
  <2>5. \A f \in todo'[r] : \E e \in todo[r] : f.id = e.id
    BY <2>2, <2>3
  <2> QED
    BY <1>1, <2>4, <2>5 DEF NoneVoid, VoidsStay
<1>3. CASE ApplyVerdict(r)
  <2>1. PICK e \in todo[r] : rows' = [rows EXCEPT ![e.id] = e.row]
    BY <1>3, BookApplies
  <2>2. e.id \in Ids /\ rows[e.id].state # "cancelled" /\ e.row.state # "cancelled"
    BY <1>1, BatchFacts DEF NoneVoid, BookInv, BatchFollows, Follows
  <2>3. \A i \in Ids : rows'[i] = IF i = e.id THEN e.row ELSE rows[i]
    BY <1>1, <2>1
  <2>4. at'[r] # "cancel" /\ todo'[r] \in SUBSET todo[r]
    BY <1>1, <1>3 DEF ApplyVerdict
  <2>5. \A f \in todo'[r] : f.id \in Ids /\ rows[f.id].state # "cancelled"
    BY <1>1, <2>4, BatchFacts DEF NoneVoid
  <2> QED
    BY <2>2, <2>3, <2>4, <2>5 DEF NoneVoid, VoidsStay
<1>4. CASE CancelFind(r)
  <2>1. at[r] = "find" /\ rows' = rows /\ todo[r] # {} /\ todo' = [todo EXCEPT ![r] = @ \ {Oldest(r)}]
    BY <1>4 DEF CancelFind, table, LifeInv, Locals, Local
  <2>2. PICK e \in todo[r] : e = Oldest(r) /\ \A f \in todo[r] : e.id <= f.id
    BY <1>1, <2>1, OldestIs
  <2>3. e.id \in Ids /\ rows[e.id] = e.row /\ e.row.payload.voids # 0 /\ e.row.ref # 0
    <3>1. e.id \in Ids /\ e.row.ref \in Serials
      BY <1>1, <2>2, BatchFacts
    <3>2. e.row.payload.voids # 0 /\ e.row.ref # 0
      BY <2>1, <2>2 DEF LifeInv, Locals, Local, Oldest
    <3> QED
      BY <2>1, <2>2, <3>1, <3>2 DEF BookInv, VoidingShown
  <2> DEFINE carriers == {i \in Ids : Exists(i) /\ rows[i].tax = e.row.payload.voids}
             newest   == CHOOSE i \in carriers : \A j \in carriers : j <= i
  <2>4. at'[r] = "cancel" => carriers # {} /\ newest # e.id /\ voided'[r] = Record(newest)
    <3>1. e = Oldest(r)
      BY <2>2
    <3>2. at \in [Request -> RequestStates] /\ voided \in [Request -> Entries \cup {NoTarget}]
      BY <1>1
    <3>3. /\ at' = [at EXCEPT ![r] = "apply"] \/ at' = [at EXCEPT ![r] = "cancel"]
          /\ at' = [at EXCEPT ![r] = "apply"] \/ (carriers # {} /\ newest # e.id)
          /\ at' = [at EXCEPT ![r] = "apply"] \/ voided' = [voided EXCEPT ![r] = Record(newest)]
      BY <1>4, <3>1 DEF CancelFind
    <3> HIDE DEF carriers, newest
    <3> QED
      BY <3>2, <3>3
  <2>5. carriers # {} => newest \in Ids /\ rows[newest].tax = e.row.payload.voids
    <3>1. carriers \in SUBSET Ids
      OBVIOUS
    <3>2. carriers # {} => newest \in carriers
      <4> HIDE DEF carriers
      <4> QED
        BY <3>1, NewestIs
    <3> HIDE DEF newest
    <3> QED
      BY <3>2
  <2> HIDE DEF carriers, newest
  <2>6. at'[r] = "cancel" => voided'[r].id = newest /\ newest \in Ids /\ newest < e.id
    BY <2>3, <2>4, <2>5 DEF VoidsOlder, Record
  <2>7. \A f \in todo'[r] : f \in todo[r] /\ f.id \in Ids /\ e.id <= f.id
    BY <1>1, <2>1, <2>2, BatchFacts
  <2>8. at'[r] = "cancel" => \A f \in todo'[r] : voided'[r].id < f.id
    BY <2>3, <2>6, <2>7 DEF Ids
  <2>9. \A f \in todo'[r] : rows'[f.id].state # "cancelled"
    BY <1>1, <2>1, <2>7 DEF NoneVoid
  <2> QED
    BY <2>1, <2>8, <2>9 DEF NoneVoid, VoidsStay
<1>5. CASE CancelWrite(r)
  <2>1. /\ rows' = [rows EXCEPT ![voided[r].id].state = "cancelled"] /\ voided[r].id \in Ids
        /\ rows[voided[r].id].state \in Shown
    BY <1>5, BookCancels
  <2>2. at[r] = "cancel" /\ at'[r] = "apply" /\ todo' = todo
    BY <1>1, <1>5 DEF CancelWrite, Goto
  <2>3. \A i \in Ids : i # voided[r].id => rows'[i] = rows[i]
    BY <1>1, <2>1
  <2>4. \A e \in todo[r] : e.id \in Ids /\ e.id # voided[r].id
    BY <1>1, <2>1, <2>2, BatchFacts DEF NoneVoid, Ids
  <2>5. rows'[voided[r].id].state = "cancelled"
    <3>1. rows[voided[r].id] \in Rows
      BY <1>1, <2>1 DEF NoRow, Shown
    <3>2. rows'[voided[r].id] = [rows[voided[r].id] EXCEPT !.state = "cancelled"]
      BY <1>1, <2>1
    <3> QED
      BY <3>1, <3>2, Restated DEF States
  <2> QED
    BY <1>1, <2>2, <2>3, <2>4, <2>5 DEF NoneVoid, VoidsStay
<1> QED
  BY <1>2, <1>3, <1>4, <1>5

\* Saves and the other steps: a row that is replaced is a draft's, or was not there.
LEMMA OthersVoidNothing ==
  ASSUME NEW r \in Request, Alone(r), LifeInv, AloneInv(r), BookInv(r)
  PROVE  /\ UpdateWrite(r) \/ DeleteWrite(r) \/ SubmitRefuse(r) \/ SubmitSave(r) => VoidsStay
         /\ \A inv \in Invoice : NoneVoid(r) /\ SaveInvoice(inv) => NoneVoid(r)' /\ VoidsStay
<1>1. ASSUME NEW row, Save(id[r], row), at[r] \in Editing PROVE VoidsStay
  <2>1. PICK k \in Ids : Book!Put(k, row)
    BY <1>1, PutAlone
  <2>2. rows[k].state # "cancelled"
    <3>1. CASE k = nextId
      <4>1. rows[k] = NoRow
        BY <3>1, AloneFacts DEF Ids
      <4> QED
        BY <4>1 DEF NoRow
    <3>2. CASE Book!Draft(k)
      BY <3>2 DEF Book!Draft
    <3> QED
      BY <2>1, <3>1, <3>2 DEF Book!Put
  <2>3. \A i \in Ids : i # k => rows'[i] = rows[i]
    BY <2>1, AloneFacts DEF Book!Put
  <2> QED
    BY <2>2, <2>3 DEF VoidsStay
<1>2. ASSUME UpdateWrite(r) PROVE VoidsStay
  <2> DEFINE row == [state |-> Verified(body[r]), payload |-> body[r], tax |-> 0, ref |-> copy[r].ref]
  <2>1. id[r] # 0 /\ at[r] \in Editing
    BY <1>2 DEF LifeInv, Locals, Local, UpdateWrite, Editing
  <2>2. rows' = Update(id[r], row) /\ nextId' = nextId
    BY <1>2 DEF UpdateWrite
  <2> HIDE DEF row
  <2>3. Save(id[r], row)
    BY <2>1, <2>2 DEF Save
  <2> QED
    BY <1>1, <2>1, <2>3
<1>3. ASSUME DeleteWrite(r) PROVE VoidsStay
  <2>1. id[r] # 0 /\ at[r] \in Editing
    BY <1>3 DEF LifeInv, Locals, Local, DeleteWrite, Editing
  <2>2. rows[id[r]].state \in Editable /\ id[r] \in Ids
    BY <2>1, AloneFacts DEF BookInv, BodyFits
  <2>3. rows' = [rows EXCEPT ![id[r]] = NoRow]
    BY <1>3 DEF DeleteWrite
  <2>4. \A i \in Ids : i # id[r] => rows'[i] = rows[i]
    BY <2>2, <2>3, AloneFacts
  <2> QED
    BY <2>2, <2>4 DEF VoidsStay, Editable
<1>4. ASSUME SubmitRefuse(r) \/ SubmitSave(r) PROVE VoidsStay
  <2>1. at[r] \in Editing
    BY <1>4 DEF SubmitRefuse, SubmitSave, Editing
  <2>2. PICK row : Save(id[r], row)
    BY <1>4 DEF SubmitRefuse, SubmitSave
  <2> QED
    BY <1>1, <2>1, <2>2
<1>5. ASSUME NEW inv \in Invoice, NoneVoid(r), SaveInvoice(inv) PROVE NoneVoid(r)' /\ VoidsStay
  <2> DEFINE row == [state |-> Verified(inv), payload |-> inv, tax |-> 0, ref |-> 0]
  <2>1. Insert(row) /\ UNCHANGED <<at, todo, voided>> /\ row.state # "cancelled"
    BY <1>5 DEF SaveInvoice, mine, Verified
  <2> HIDE DEF row
  <2>2. nextId \in Ids /\ rows' = [rows EXCEPT ![nextId] = row]
    BY <2>1, AloneFacts, LifecycleAssumption DEF Insert, Ids
  <2>3. rows[nextId] = NoRow
    BY <2>2, AloneFacts DEF Ids
  <2>4. \A i \in Ids : rows[i].state # "cancelled" => rows'[i].state # "cancelled"
    BY <2>1, <2>2, AloneFacts
  <2>5. VoidsStay
    BY <2>2, <2>3, AloneFacts DEF VoidsStay, NoRow
  <2>6. at[r] \in Asking => \A e \in todo[r] : e.id \in Ids
    BY BatchFacts
  <2>7. at'[r] = at[r] /\ todo'[r] = todo[r] /\ voided'[r] = voided[r]
    BY <2>1
  <2>8. at'[r] \in Asking => \A e \in todo'[r] : rows'[e.id].state # "cancelled"
    BY <1>5, <2>4, <2>6, <2>7 DEF NoneVoid
  <2>9. at'[r] = "cancel" => \A e \in todo'[r] : voided'[r].id < e.id
    BY <1>5, <2>7 DEF NoneVoid
  <2> QED
    BY <2>5, <2>8, <2>9 DEF NoneVoid
<1> QED
  BY <1>2, <1>3, <1>4, <1>5

\* Begin reads only records that are SENT into a batch.
LEMMA VoidSteps ==
  ASSUME NEW r \in Request, Alone(r), ~ MayInquireOne, LifeInv, AloneInv(r), BookInv(r), NoneVoid(r), VoidsOlder,
         [Next]_vars
  PROVE  NoneVoid(r)' /\ VoidsStay
<1>1. ASSUME at'[r] \notin Asking, rows' = rows PROVE NoneVoid(r)' /\ VoidsStay
  BY <1>1 DEF NoneVoid, VoidsStay, Asking
<1>2. ASSUME Begin(r) PROVE NoneVoid(r)' /\ VoidsStay
  <2>1. rows' = rows /\ at \in [Request -> RequestStates] /\ todo \in [Request -> SUBSET Entries]
    BY <1>2, BookBegins DEF LifeInv, TypeOK
  <2>2. CASE InquirePending(r)
    <3>1. at'[r] = "inquire" /\ todo'[r] = {Record(i) : i \in Awaiting}
      BY <2>1, <2>2 DEF InquirePending, InquireRead, Goto
    <3>2. \A e \in todo'[r] : rows[e.id].state = "sent"
      BY <3>1 DEF Record, Awaiting
    <3> QED
      BY <2>1, <3>1, <3>2 DEF NoneVoid, VoidsStay
  <2>3. CASE ~ InquirePending(r)
    <3>1. at'[r] \in {"update", "delete", "draw", "refuse"}
      BY <1>2, <2>1, <2>3 DEF Begin, UpdateRead, DeleteRead, EditRead, SubmitRead, InquireOne, Goto
    <3> QED
      BY <1>1, <2>1, <3>1 DEF Asking
  <2> QED
    BY <2>2, <2>3
<1>3. ASSUME UpdateWrite(r) \/ DeleteWrite(r) \/ SubmitRefuse(r) \/ SubmitSave(r) PROVE NoneVoid(r)' /\ VoidsStay
  <2>1. at'[r] = "idle"
    BY <1>3 DEF UpdateWrite, DeleteWrite, SubmitRefuse, SubmitSave, Finish
  <2>2. NoneVoid(r)'
    BY <2>1 DEF NoneVoid, Asking
  <2> QED
    BY <1>3, <2>2, OthersVoidNothing
<1>4. ASSUME SubmitDraw(r) \/ OrgAccepts(r) \/ OrgIgnores(r) \/ SubmitExhausted(r) \/ InquireDone(r)
      PROVE  NoneVoid(r)' /\ VoidsStay
  <2>1. at \in [Request -> RequestStates]
    BY DEF LifeInv, TypeOK
  <2>2. at'[r] \in {"post", "accepted", "ignored", "idle"} /\ rows' = rows
    BY <1>4, <2>1 DEF SubmitDraw, OrgAccepts, OrgIgnores, SubmitExhausted, InquireDone, Goto, Finish, table
  <2> QED
    BY <1>1, <2>2 DEF Asking
<1>5. ASSUME UNCHANGED <<rows, at, todo, voided>> PROVE NoneVoid(r)' /\ VoidsStay
  BY <1>5 DEF NoneVoid, VoidsStay
<1>6. ~ SubmitFails(r) /\ ~ InquireFails(r) /\ \A w \in Worker : ~ Crash(w)
  BY DEF Alone, SubmitFails, InquireFails, Crash
<1>7. CASE UNCHANGED vars
  BY <1>5, <1>7 DEF vars
<1>8. ASSUME NEW s \in Serials, OrgRules(s) PROVE NoneVoid(r)' /\ VoidsStay
  BY <1>5, <1>8 DEF OrgRules, table, mine
<1>9. \A q \in Request : q = r
  BY DEF Alone
<1> QED
  BY <1>2, <1>3, <1>4, <1>6, <1>7, <1>8, <1>9, InquiryVoids, OthersVoidNothing DEF Next, Continue

\* What is void stays void for a lone operator, if a record voids only what was
\* entered before it: an older draft may void a newer record, and then the row
\* that is written back after the voiding is from before it
\* (InvoiceLifecycle_void_batch).
THEOREM LoneVoidsStay ==
  ASSUME NEW r \in Request, Alone(r), ~ MayInquireOne
  PROVE  Spec /\ []VoidsOlder => VoidStaysVoid
<1> DEFINE Inv == LifeInv /\ AloneInv(r) /\ BookInv(r) /\ NoneVoid(r)
<1>1. Init => Inv
  <2>1. Init => NoneVoid(r)
    BY DEF Init, NoneVoid, Asking
  <2> QED
    BY <2>1, LifeInit, AloneInit, BookBeginsEmpty
<1>2. Inv /\ VoidsOlder /\ [Next]_vars => Inv'
  BY LifeStep, AloneStep, BookSteps, VoidSteps
<1>3. Inv /\ VoidsOlder /\ [Next]_vars
        => [\A i \in Ids : rows[i].state = "cancelled" => rows'[i].state = "cancelled"]_vars
  BY VoidSteps DEF VoidsStay
<1> QED
  BY <1>1, <1>2, <1>3, PTL DEF Spec, VoidStaysVoid

=============================================================================
