-------------------------- MODULE InvoiceLifecycle --------------------------
(***************************************************************************)
(* The life of the invoice records of one profile: the handlers of         *)
(* api/app.py that enter, edit, discard, file and reconcile an invoice,    *)
(* the rows RecordStore keeps of them, and the organization that receives  *)
(* the filings (external).                                                 *)
(*                                                                         *)
(* A handler is split wherever another request, a crash or a lost answer   *)
(* can come between two of its steps: between two store calls (each holds  *)
(* the store's lock and is one transaction) and at every await.  What a    *)
(* handler read from the store it keeps as a copy, and it writes back the  *)
(* whole row.                                                              *)
(*                                                                         *)
(* Sync handlers run on FastAPI's threadpool and interleave anywhere.      *)
(* Async handlers share their worker's event loop and give it up only at   *)
(* an await.                                                               *)
(*                                                                         *)
(* Abstraction.  A filing's serial stands for its tax id, its uid and its  *)
(* reference number: the counter never repeats a serial (SerialCounter),   *)
(* the uid is a fresh uuid4 and the reference number is the organization's *)
(* own.  The invoices entered leave the tax id blank, as the entry form    *)
(* always does; inno is filled in with it, from the same serial, and is    *)
(* left out here.                                                          *)
(***************************************************************************)
EXTENDS Integers, FiniteSets

CONSTANTS
  Request,     \* HTTP requests in progress at the same time
  Worker,      \* uvicorn workers, one event loop each
  WorkerOf,    \* the worker that serves each request
  MaxId,       \* bound: records ever inserted
  MaxSerial,   \* bound: serials the counter can issue
  Invoice,     \* the invoices an operator may enter
  MayInquireOne, \* the one-record inquiry is used (the web page has no button for it)
  MayLose,     \* calls to the organization may fail and answers may be lost
  MayCrash     \* a worker may be killed

Ids     == 1 .. MaxId
Serials == 1 .. MaxSerial

\* An invoice: whether the rule engine accepts it, the tax id an ins=3 invoice
\* voids (0 for every other invoice), and its own (0 as long as it is blank).
Invoices == [valid : BOOLEAN, voids : 0 .. MaxSerial, taxid : 0 .. MaxSerial]

ASSUME LifecycleAssumption ==
  /\ MaxId \in Nat /\ MaxSerial \in Nat
  /\ Invoice \subseteq Invoices /\ \A inv \in Invoice : inv.taxid = 0
  /\ WorkerOf \in [Request -> Worker]
  /\ MayInquireOne \in BOOLEAN /\ MayLose \in BOOLEAN /\ MayCrash \in BOOLEAN

VARIABLES
  rows,      \* the invoices table: id -> row
  nextId,    \* AUTOINCREMENT: the next id, never reused
  counter,   \* the last serial the counter issued
  org,       \* the organization: serial -> what it knows of that filing
  at,        \* where each request is
  id,        \* the record_id a request works on, 0 for none
  copy,      \* the row it read
  body,      \* the invoice in its body
  drawn,     \* the serial drawn for it
  todo,      \* _reconcile: records still to be written back, oldest id first
  voided,    \* _apply_cancellation: the target row it read, with its id
  source     \* history: the record each filing was made from, 0 for none

vars == <<rows, nextId, counter, org, at, id, copy, body, drawn, todo, voided, source>>

table == <<rows, nextId>>
mine  == <<id, copy, body, drawn, todo, voided>>

(***************************************************************************)
(* Rows and filings.                                                       *)
(***************************************************************************)
States   == {"draft", "invalid", "sent", "confirmed", "rejected", "cancelled"}
Editable == {"draft", "invalid"}

Rows == [state : States, payload : Invoices, tax : 0 .. MaxSerial, ref : 0 .. MaxSerial]

NoInvoice == [valid |-> FALSE, voids |-> 0, taxid |-> 0]
NoRow     == [state |-> "none", payload |-> NoInvoice, tax |-> 0, ref |-> 0]

Filings  == [status : {"in_progress", "success", "failed"}, payload : Invoices]
Unknown  == [status |-> "unknown", payload |-> NoInvoice]

Exists(i) == rows[i] # NoRow

\* DRAFT if the rule engine is satisfied, INVALID if not.
Verified(inv) == IF inv.valid THEN "draft" ELSE "invalid"

\* Mutant: INSERT OR REPLACE instead of UPDATE.
Upsert(i, row) == [rows EXCEPT ![i] = row]

\* store.save_invoice of a record that has an id: UPDATE ... WHERE id = ?,
\* which changes nothing when the row has gone meanwhile.
Update(i, row) == IF Exists(i) THEN [rows EXCEPT ![i] = row] ELSE rows

\* store.save_invoice of a record without one: INSERT.
Insert(row) ==
  /\ nextId <= MaxId
  /\ rows' = [rows EXCEPT ![nextId] = row]
  /\ nextId' = nextId + 1

Save(i, row) == IF i = 0 THEN Insert(row) ELSE rows' = Update(i, row) /\ UNCHANGED nextId

Init ==
  /\ rows = [i \in Ids |-> NoRow]
  /\ nextId = 1
  /\ counter = 0
  /\ org = [s \in Serials |-> Unknown]
  /\ at = [r \in Request |-> "idle"]
  /\ id = [r \in Request |-> 0]
  /\ copy = [r \in Request |-> NoRow]
  /\ body = [r \in Request |-> NoInvoice]
  /\ drawn = [r \in Request |-> 0]
  /\ todo = [r \in Request |-> {}]
  /\ voided = [r \in Request |-> [id |-> 0, row |-> NoRow]]
  /\ source = [s \in Serials |-> 0]

\* The requests in gone are over and their locals forgotten.
Finish(gone) ==
  /\ at' = [r \in Request |-> IF r \in gone THEN "idle" ELSE at[r]]
  /\ id' = [r \in Request |-> IF r \in gone THEN 0 ELSE id[r]]
  /\ copy' = [r \in Request |-> IF r \in gone THEN NoRow ELSE copy[r]]
  /\ body' = [r \in Request |-> IF r \in gone THEN NoInvoice ELSE body[r]]
  /\ drawn' = [r \in Request |-> IF r \in gone THEN 0 ELSE drawn[r]]
  /\ todo' = [r \in Request |-> IF r \in gone THEN {} ELSE todo[r]]
  /\ voided' = [r \in Request |->
                  IF r \in gone THEN [id |-> 0, row |-> NoRow] ELSE voided[r]]

Goto(r, from, to) == at[r] = from /\ at' = [at EXCEPT ![r] = to]

\* Async handlers that are between two awaits hold their worker's event loop.
OnLoop == {"refuse", "apply", "find", "cancel"}
LoopFree(r) ==
  \A q \in Request \ {r} : at[q] \in OnLoop => WorkerOf[q] # WorkerOf[r]

\* Bound: no more inserts are begun than MaxId allows to finish.
Room ==
  nextId + Cardinality({q \in Request : id[q] = 0 /\
                          at[q] \in {"refuse", "draw", "post", "accepted", "ignored"}}) <= MaxId

(***************************************************************************)
(* POST /invoices: save what is being typed, valid or not.                 *)
(***************************************************************************)
SaveInvoice(inv) ==
  /\ Room
  /\ Insert([state |-> Verified(inv), payload |-> inv, tax |-> 0, ref |-> 0])
  /\ UNCHANGED <<counter, org, at, mine, source>>

(***************************************************************************)
(* PUT and DELETE /invoices/{id}: read, check the state, then write.       *)
(***************************************************************************)
\* Mutant: the state of the record is not looked at.
EditReadUnguarded(r, i, to) ==
  /\ Exists(i)
  /\ Goto(r, "idle", to)
  /\ id' = [id EXCEPT ![r] = i]
  /\ copy' = [copy EXCEPT ![r] = rows[i]]

EditRead(r, i, to) ==
  /\ Exists(i) /\ rows[i].state \in Editable
  /\ Goto(r, "idle", to)
  /\ id' = [id EXCEPT ![r] = i]
  /\ copy' = [copy EXCEPT ![r] = rows[i]]

UpdateRead(r, i, inv) ==
  /\ EditRead(r, i, "update")
  /\ body' = [body EXCEPT ![r] = inv]
  /\ UNCHANGED <<table, counter, org, drawn, todo, voided, source>>

UpdateWrite(r) ==
  /\ at[r] = "update"
  /\ rows' = Update(id[r], [state |-> Verified(body[r]), payload |-> body[r],
                            tax |-> 0, ref |-> copy[r].ref])
  /\ Finish({r})
  /\ UNCHANGED <<nextId, counter, org, source>>

DeleteRead(r, i) ==
  /\ EditRead(r, i, "delete")
  /\ UNCHANGED <<table, counter, org, body, drawn, todo, voided, source>>

\* A row that has gone meanwhile is an error, and still gone.
DeleteWrite(r) ==
  /\ at[r] = "delete"
  /\ rows' = [rows EXCEPT ![id[r]] = NoRow]
  /\ Finish({r})
  /\ UNCHANGED <<nextId, counter, org, source>>

(***************************************************************************)
(* POST /invoices/submit.                                                  *)
(***************************************************************************)
\* Mutant: the state of the record is not looked at.
SubmitReadUnguarded(r, i, inv) ==
  /\ LoopFree(r)
  /\ IF i = 0 THEN Room ELSE Exists(i)
  /\ Goto(r, "idle", IF inv.valid THEN "draw" ELSE "refuse")
  /\ id' = [id EXCEPT ![r] = i]
  /\ copy' = [copy EXCEPT ![r] = IF i = 0 THEN NoRow ELSE rows[i]]
  /\ body' = [body EXCEPT ![r] = inv]
  /\ UNCHANGED <<table, counter, org, drawn, todo, voided, source>>

\* i = 0 submits an invoice that was never saved.  The guard on the state is
\* only evaluated here, before the first await.
SubmitRead(r, i, inv) ==
  /\ LoopFree(r)
  /\ IF i = 0 THEN Room ELSE Exists(i) /\ rows[i].state \in Editable
  /\ Goto(r, "idle", IF inv.valid THEN "draw" ELSE "refuse")
  /\ id' = [id EXCEPT ![r] = i]
  /\ copy' = [copy EXCEPT ![r] = IF i = 0 THEN NoRow ELSE rows[i]]
  /\ body' = [body EXCEPT ![r] = inv]
  /\ UNCHANGED <<table, counter, org, drawn, todo, voided, source>>

\* 422: keep the invoice as INVALID; no serial is drawn.  The tax id and the
\* reference stay what they were in the copy.
SubmitRefuse(r) ==
  /\ at[r] = "refuse" /\ LoopFree(r)
  /\ Save(id[r], [state |-> "invalid", payload |-> body[r],
                  tax |-> copy[r].tax, ref |-> copy[r].ref])
  /\ Finish({r})
  /\ UNCHANGED <<counter, org, source>>

\* Mutant: the counter is read but not moved.
SubmitDrawStale(r) ==
  /\ counter < MaxSerial
  /\ Goto(r, "draw", "post")
  /\ drawn' = [drawn EXCEPT ![r] = counter + 1]
  /\ source' = [source EXCEPT ![counter + 1] = id[r]]
  /\ UNCHANGED <<table, counter, org, id, copy, body, todo, voided>>

\* Mutant: the counter runs past its end.
SubmitDrawUnchecked(r) ==
  /\ Goto(r, "draw", "post")
  /\ counter' = counter + 1
  /\ drawn' = [drawn EXCEPT ![r] = counter + 1]
  /\ UNCHANGED <<table, org, id, copy, body, todo, voided, source>>

\* _build_packets draws the serial on a worker thread.
SubmitDraw(r) ==
  /\ counter < MaxSerial
  /\ Goto(r, "draw", "post")
  /\ counter' = counter + 1
  /\ drawn' = [drawn EXCEPT ![r] = counter + 1]
  /\ source' = [source EXCEPT ![counter + 1] = id[r]]
  /\ UNCHANGED <<table, org, id, copy, body, todo, voided>>

\* An exhausted counter raises, and the invoice is not filed.
SubmitExhausted(r) ==
  /\ at[r] = "draw" /\ counter = MaxSerial
  /\ Finish({r})
  /\ UNCHANGED <<table, counter, org, source>>

\* _with_identity: what is signed and sent is a copy with the tax id filled in.
WithIdentity(inv, serial) == [inv EXCEPT !.taxid = serial]

\* POST /invoice reaches the organization, which takes the packet ...
OrgAccepts(r) ==
  /\ Goto(r, "post", "accepted")
  /\ org' = [org EXCEPT ![drawn[r]] = [status  |-> "in_progress",
                                       payload |-> WithIdentity(body[r], drawn[r])]]
  /\ UNCHANGED <<table, counter, mine, source>>

\* ... or answers without a result for its uid.
OrgIgnores(r) ==
  /\ Goto(r, "post", "ignored")
  /\ UNCHANGED <<table, counter, org, mine, source>>

\* Mutant: the reference number is not stored.
SubmitSaveNoReference(r) ==
  /\ at[r] \in {"accepted", "ignored"} /\ LoopFree(r)
  /\ Save(id[r], [state |-> "sent", payload |-> body[r], tax |-> drawn[r], ref |-> 0])
  /\ Finish({r})
  /\ UNCHANGED <<counter, org, source>>

\* The answer arrives: the record becomes SENT, whatever the row says by now.
\* What it keeps is the body of the request, not the copy that was signed.
SubmitSave(r) ==
  /\ at[r] \in {"accepted", "ignored"} /\ LoopFree(r)
  /\ Save(id[r], [state |-> "sent", payload |-> body[r], tax |-> drawn[r],
                  ref |-> IF at[r] = "accepted" THEN drawn[r] ELSE 0])
  /\ Finish({r})
  /\ UNCHANGED <<counter, org, source>>

\* TransportError or TaxApiError before, instead of or after the answer: the
\* record is left as it was, whatever the organization made of the packet.
SubmitFails(r) ==
  /\ MayLose
  /\ at[r] \in {"draw", "post", "accepted"}
  /\ Finish({r})
  /\ UNCHANGED <<table, counter, org, source>>

(***************************************************************************)
(* POST /invoices/inquire and /invoices/{id}/inquire: _reconcile.          *)
(***************************************************************************)
Record(i) == [id |-> i, row |-> rows[i]]

\* list_awaiting_inquiry: SENT records that have a reference number.
Awaiting == {i \in Ids : rows[i].state = "sent" /\ rows[i].ref # 0}

InquireRead(r, chosen) ==
  /\ LoopFree(r)
  /\ chosen # {}
  /\ Goto(r, "idle", "inquire")
  /\ todo' = [todo EXCEPT ![r] = {Record(i) : i \in chosen}]
  /\ UNCHANGED <<table, counter, org, id, copy, body, drawn, voided, source>>

InquirePending(r) == InquireRead(r, Awaiting)

\* Any record with a reference, whatever its state.
InquireOne(r, i) ==
  /\ MayInquireOne
  /\ rows[i].ref # 0
  /\ InquireRead(r, {i})

\* _VERDICTS: SUCCESS confirms, FAILED rejects, anything else changes nothing.
Verdict(state, status) ==
  CASE status = "success" -> "confirmed"
    [] status = "failed"  -> "rejected"
    [] OTHER              -> state

\* Mutant: answers are matched by their position in the response.
InquireAnswerByPosition(r) ==
  /\ LoopFree(r)
  /\ \E given \in [todo[r] -> todo[r]] :
       /\ Goto(r, "inquire", "apply")
       /\ todo' = [todo EXCEPT ![r] =
            {[e EXCEPT !.row.state = Verdict(@, org[given[e].row.ref].status)] : e \in todo[r]}]
  /\ UNCHANGED <<table, counter, org, id, copy, body, drawn, voided, source>>

\* GET /inquiry-by-reference-id.  The organization may not mention some
\* references and report others NOT_FOUND (it looks back one day); the first
\* are left alone, the second written back with the state they had, as are
\* those whose IN_PROGRESS was overtaken by a verdict on its way here.
InquireAnswer(r) ==
  /\ LoopFree(r)
  /\ \E answered \in SUBSET todo[r] : \E found \in SUBSET answered :
       /\ Goto(r, "inquire", "apply")
       /\ todo' = [todo EXCEPT ![r] =
            {IF e \in found
               THEN [e EXCEPT !.row.state = Verdict(@, org[e.row.ref].status)]
               ELSE e : e \in answered}]
  /\ UNCHANGED <<table, counter, org, id, copy, body, drawn, voided, source>>

InquireFails(r) ==
  /\ MayLose /\ at[r] = "inquire"
  /\ Finish({r})
  /\ UNCHANGED <<table, counter, org, source>>

\* ORDER BY id: the oldest record of the batch is written back first.
Oldest(r) == CHOOSE e \in todo[r] : \A f \in todo[r] : e.id <= f.id

\* Mutant: the target is voided without waiting for the verdict.
ApplyVerdictEagerly(r) ==
  /\ at[r] = "apply" /\ todo[r] # {}
  /\ LET e == Oldest(r) IN
       /\ rows' = Update(e.id, e.row)
       /\ IF e.row.payload.voids # 0
            THEN /\ at' = [at EXCEPT ![r] = "find"]
                 /\ UNCHANGED todo
            ELSE /\ todo' = [todo EXCEPT ![r] = @ \ {e}]
                 /\ UNCHANGED at
  /\ UNCHANGED <<nextId, counter, org, id, copy, body, drawn, voided, source>>

ApplyVerdict(r) ==
  /\ at[r] = "apply" /\ todo[r] # {}
  /\ LET e == Oldest(r) IN
       /\ rows' = Update(e.id, e.row)
       /\ IF e.row.state = "confirmed" /\ e.row.payload.voids # 0
            THEN /\ at' = [at EXCEPT ![r] = "find"]
                 /\ UNCHANGED todo
            ELSE /\ todo' = [todo EXCEPT ![r] = @ \ {e}]
                 /\ UNCHANGED at
  /\ UNCHANGED <<nextId, counter, org, id, copy, body, drawn, voided, source>>

\* _apply_cancellation: find_by_tax_id takes the newest record with that tax
\* id.  Nothing to do if there is none, it is this record, or it is void.
CancelFind(r) ==
  LET e        == Oldest(r)
      carriers == {i \in Ids : Exists(i) /\ rows[i].tax = e.row.payload.voids}
      newest   == CHOOSE i \in carriers : \A j \in carriers : j <= i
      next     == [todo EXCEPT ![r] = @ \ {e}]
  IN /\ at[r] = "find"
     /\ todo' = next
     /\ IF carriers = {} \/ newest = e.id \/ rows[newest].state = "cancelled"
          THEN at' = [at EXCEPT ![r] = "apply"] /\ UNCHANGED voided
          ELSE /\ at' = [at EXCEPT ![r] = "cancel"]
               /\ voided' = [voided EXCEPT ![r] = Record(newest)]
     /\ UNCHANGED <<table, counter, org, id, copy, body, drawn, source>>

CancelWrite(r) ==
  /\ Goto(r, "cancel", "apply")
  /\ rows' = Update(voided[r].id, [voided[r].row EXCEPT !.state = "cancelled"])
  /\ voided' = [voided EXCEPT ![r] = [id |-> 0, row |-> NoRow]]
  /\ UNCHANGED <<nextId, counter, org, id, copy, body, drawn, todo, source>>

InquireDone(r) ==
  /\ at[r] = "apply" /\ todo[r] = {}
  /\ Finish({r})
  /\ UNCHANGED <<table, counter, org, source>>

(***************************************************************************)
(* The organization validates in its own time, and lets an invoice void    *)
(* only one it has registered (external).  Workers may be killed.          *)
(***************************************************************************)
OrgRules(s) ==
  /\ org[s].status = "in_progress"
  /\ \E verdict \in {"success", "failed"} :
       /\ LET target == org[s].payload.voids
          IN verdict = "success" /\ target # 0 => org[target].status = "success"
       /\ org' = [org EXCEPT ![s].status = verdict]
  /\ UNCHANGED <<table, counter, at, mine, source>>

Crash(w) ==
  /\ MayCrash
  /\ Finish({r \in Request : WorkerOf[r] = w})
  /\ UNCHANGED <<table, counter, org, source>>

Begin(r) ==
  \/ \E i \in Ids, inv \in Invoice : UpdateRead(r, i, inv)
  \/ \E i \in Ids : DeleteRead(r, i)
  \/ \E i \in Ids \union {0}, inv \in Invoice : SubmitRead(r, i, inv)
  \/ InquirePending(r)
  \/ \E i \in Ids : InquireOne(r, i)

Continue(r) ==
  \/ UpdateWrite(r) \/ DeleteWrite(r)
  \/ SubmitRefuse(r) \/ SubmitDraw(r) \/ SubmitExhausted(r)
  \/ OrgAccepts(r) \/ OrgIgnores(r) \/ SubmitSave(r) \/ SubmitFails(r)
  \/ InquireAnswer(r) \/ InquireFails(r)
  \/ ApplyVerdict(r) \/ CancelFind(r) \/ CancelWrite(r) \/ InquireDone(r)

Next ==
  \/ \E inv \in Invoice : SaveInvoice(inv)
  \/ \E r \in Request : Begin(r) \/ Continue(r)
  \/ \E s \in Serials : OrgRules(s)
  \/ \E w \in Worker : Crash(w)

Spec == Init /\ [][Next]_vars

(***************************************************************************)
(* Properties that hold whatever runs concurrently, is lost or crashes.    *)
(***************************************************************************)
RequestStates == {"idle", "update", "delete", "draw", "post", "accepted",
                  "ignored", "inquire"} \union OnLoop

Entries == [id : Ids, row : Rows]

\* Every variable has its type.
TypeOK ==
  /\ rows \in [Ids -> Rows \union {NoRow}]
  /\ nextId \in 1 .. MaxId + 1
  /\ counter \in 0 .. MaxSerial
  /\ org \in [Serials -> Filings \union {Unknown}]
  /\ at \in [Request -> RequestStates]
  /\ id \in [Request -> Ids \union {0}]
  /\ copy \in [Request -> Rows \union {NoRow}]
  /\ body \in [Request -> Invoices]
  /\ drawn \in [Request -> Serials \union {0}]
  /\ todo \in [Request -> SUBSET Entries]
  /\ voided \in [Request -> Entries \union {[id |-> 0, row |-> NoRow]}]
  /\ source \in [Serials -> Ids \union {0}]

\* A tax id is on one record at most, however stale the rows are that requests
\* write back: find_by_tax_id can only ever mean one invoice.
TaxIdOnOneRecord ==
  \A i, j \in Ids : i # j /\ rows[i].tax # 0 => rows[i].tax # rows[j].tax

\* A record says CONFIRMED or REJECTED only of a filing the organization gave
\* that verdict on, under the reference the record holds.
VerdictsComeFromOrg ==
  \A i \in Ids :
    /\ rows[i].state = "confirmed" => rows[i].ref # 0 /\ org[rows[i].ref].status = "success"
    /\ rows[i].state = "rejected"  => rows[i].ref # 0 /\ org[rows[i].ref].status = "failed"

\* A record with a reference says what the organization holds under it, although
\* rows are edited, refused and written back from copies: its payload with its
\* tax id filled in (submit_invoice, _with_identity).
RecordTellsFiling ==
  \A i \in Ids : rows[i].ref # 0 =>
    /\ org[rows[i].ref] # Unknown
    /\ org[rows[i].ref].payload = WithIdentity(rows[i].payload, rows[i].tax)

\* A record is CANCELLED only when the organization confirmed an invoice that
\* voids its tax id (_apply_cancellation).
CancelledHasCause ==
  \A i \in Ids : rows[i].state = "cancelled" =>
    \E s \in Serials : org[s].status = "success" /\ org[s].payload.voids = rows[i].tax

\* A discarded record stays discarded: a request that read it before writes
\* back nothing (UPDATE ... WHERE id of no row).
DiscardedStaysGone ==
  [][\A i \in Ids : i < nextId /\ ~ Exists(i) => rows'[i] = NoRow]_vars

(***************************************************************************)
(* Properties of an operator who does one thing at a time.  Each fails     *)
(* once two requests overlap or an answer is lost, as the README explains. *)
(***************************************************************************)
Filed(s) == org[s] # Unknown

\* "Re-sending an already-filed invoice files it a second time": one record is
\* the source of at most one filing the organization has.
FiledOnce ==
  \A s, t \in Serials :
    s # t /\ Filed(s) /\ Filed(t) /\ source[s] # 0 => source[s] # source[t]

\* inquire_pending is "safe to call as often as the operator likes": writing an
\* answer back never takes away a verdict an earlier answer had stored.
InquiryKeepsVerdicts ==
  [][\A r \in Request, i \in Ids :
        ApplyVerdict(r) /\ rows[i].state \in {"confirmed", "rejected"} =>
          rows'[i].state = rows[i].state]_vars

\* "Only DRAFT and INVALID" may be rewritten or deleted (update_invoice,
\* delete_invoice): a record once filed neither goes nor becomes a draft again.
OnlyDraftsAreRewritten ==
  [][\A i \in Ids : rows[i].state \in States \ Editable => rows'[i].state \in States \ Editable]_vars

\* Between requests, every filing the organization accepted is on a record that
\* has its reference, so its verdict can be asked for.
EveryFilingIsRecorded ==
  (\A r \in Request : at[r] = "idle") =>
    \A s \in Serials : Filed(s) => \E i \in Ids : rows[i].ref = s

\* CANCELLED: "An ابطالی invoice was issued against it".  That cannot be undone,
\* so a record once void stays void.
VoidStaysVoid ==
  [][\A i \in Ids : rows[i].state = "cancelled" => rows'[i].state = "cancelled"]_vars

\* What the organization has, as the records can know it: a filing whose answer
\* is not stored yet is no filing yet.
FilingsSeen ==
  [s \in Serials |-> IF \E r \in Request : at[r] = "accepted" /\ drawn[r] = s THEN Unknown ELSE org[s]]

Book == INSTANCE InvoiceBook WITH book <- rows, next <- nextId, filings <- FilingsSeen

\* To an operator who does one thing at a time the records are such a book:
\* filing is one step for the record and the organization together, a filed
\* record is never filed again, amended or discarded, and it becomes CANCELLED
\* only after a record that voids it became CONFIRMED.
KeepsBook == Book!Spec

=============================================================================
