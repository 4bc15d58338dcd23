------------------------------ MODULE Pipeline ------------------------------
(***************************************************************************)
(* InvoicePipeline.submit and await_results (pipeline.py) over the client  *)
(* requests they make (client/api.py, client/auth.py).                     *)
(*                                                                         *)
(* A task is one coroutine that submits a batch and then, perhaps, waits   *)
(* for its results.  Tasks share one pipeline: its cached server key, the  *)
(* lock around it, and the serial source, which SerialCounter implements.  *)
(* Packets are built on a worker thread, one invoice at a time, so the     *)
(* builds of two tasks interleave.                                         *)
(*                                                                         *)
(* A request is sent and taken by the organization in one step, with the   *)
(* nonce it fetched, and answered in another; it may fail before, between  *)
(* and after them.  A packet's uid is a fresh uuid4: here, the task and    *)
(* the position of the invoice in its batch.  The reference number is the  *)
(* organization's own name for that packet: here, the uid again.           *)
(***************************************************************************)
EXTENDS Integers, FiniteSets, Sequences, SequencesExt

CONSTANTS
  Task,          \* coroutines that share the pipeline
  Batches,       \* the batches they may submit: sequences of invoices
  MaxSerial,     \* the largest serial there is
  MaxPackets,    \* packets one POST /invoice takes
  MaxInquiry,    \* references one inquiry takes
  MinWait,       \* await_results: min_wait, poll_interval and timeout, in ticks
  PollInterval,
  Timeout

\* An invoice: accepted by the rule engine or not; with a tax id of its own or not.
Invoices == [valid : BOOLEAN, given : BOOLEAN]

Nobody == "nobody"

ASSUME PipelineAssumption ==
  /\ Nobody \notin Task
  /\ \A b \in Batches : b \in Seq(Invoices) /\ b # <<>>
  /\ MaxSerial \in Nat
  /\ MaxPackets \in Nat \ {0} /\ MaxInquiry \in Nat \ {0}
  /\ MinWait \in Nat /\ PollInterval \in Nat \ {0} /\ Timeout \in Nat

VARIABLES
  task,      \* the locals of each coroutine
  keyKnown,  \* self._server_key is set
  keyLock,   \* holder of self._server_key_lock
  org,       \* what the organization has under each uid
  call,      \* the serial source: each task's request
  issued     \* and how often it delivered each serial

vars == <<task, keyKnown, keyLock, org, call, issued>>

key     == <<keyKnown, keyLock>>
serials == <<call, issued>>

Source == INSTANCE SerialSource WITH Caller <- Task

Uids    == Task \X UNION {DOMAIN b : b \in Batches}
Given   == 0                  \* the tax id an invoice brought with it
TaxIds  == 0 .. MaxSerial
NoRef   == <<>>
Unknown == [status |-> "unknown", tax |-> Given]
Untold  == [u \in Uids |-> "not asked"]
Least(m, n) == IF m < n THEN m ELSE n

\* packets: tax ids of the chunk in the making; done: InvoiceSubmissions so far;
\* answer: what a request brought back; start, results: of the running inquiry;
\* sleep, left: ticks until asyncio.sleep ends and until the deadline;
\* told: history, what the organization said of each uid in the last inquiry.
Fresh == [at |-> "idle", http |-> "none", batch |-> <<>>, packets |-> <<>>,
          done |-> <<>>, answer |-> <<>>, start |-> 0, results |-> <<>>,
          sleep |-> 0, left |-> 0, told |-> Untold]

Init ==
  /\ task = [t \in Task |-> Fresh]
  /\ keyKnown = FALSE /\ keyLock = Nobody
  /\ org = [u \in Uids |-> Unknown]
  /\ Source!Init

At(t, place) == task[t].at = place

\* An exception leaves the coroutine; its locals are gone.
Raised(t) == [Fresh EXCEPT !.at = "failed", !.batch = task[t].batch]

(***************************************************************************)
(* One request.                                                            *)
(***************************************************************************)
Requesting == {"key", "post", "poll"}

Serve(t, place, answer) ==
  /\ At(t, place) /\ task[t].http = "out"
  /\ task' = [task EXCEPT ![t].http = "back", ![t].answer = answer]
  /\ UNCHANGED <<key, serials>>

Answered(t, place) == At(t, place) /\ task[t].http = "back"

\* Mutant: the lock around the server key is not released on the raising path.
RequestFailsLocked(t) ==
  /\ task[t].at \in Requesting
  /\ task' = [task EXCEPT ![t] = Raised(t)]
  /\ UNCHANGED <<key, org, serials>>

\* TransportError, TaxApiError or an undecodable answer, of the nonce or of the
\* request; a nonce that expired on the way is refused.  `async with` lets go of
\* the lock.
RequestFails(t) ==
  /\ task[t].at \in Requesting
  /\ task' = [task EXCEPT ![t] = Raised(t)]
  /\ keyLock' = IF keyLock = t THEN Nobody ELSE keyLock
  /\ UNCHANGED <<keyKnown, org, serials>>

(***************************************************************************)
(* submit: the server key.                                                 *)
(***************************************************************************)
Submit(t, b) ==
  /\ At(t, "idle")
  /\ task' = [task EXCEPT ![t].at = "lock", ![t].batch = b]
  /\ UNCHANGED <<key, org, serials>>

\* Waiters find the key the first one fetched.
LockServerKey(t) ==
  /\ At(t, "lock") /\ keyLock = Nobody
  /\ IF keyKnown
       THEN /\ task' = [task EXCEPT ![t].at = "build"]
            /\ UNCHANGED keyLock
       ELSE /\ task' = [task EXCEPT ![t].at = "key", ![t].http = "out"]
            /\ keyLock' = t
  /\ UNCHANGED <<keyKnown, org, serials>>

SendServerKey(t) == Serve(t, "key", <<>>) /\ UNCHANGED org

GotServerKey(t) ==
  /\ Answered(t, "key")
  /\ task' = [task EXCEPT ![t].at = "build", ![t].http = "none"]
  /\ keyKnown' = TRUE /\ keyLock' = Nobody
  /\ UNCHANGED <<org, serials>>

(***************************************************************************)
(* _build_packets, for one chunk of at most MaxPackets invoices.           *)
(***************************************************************************)
Building(t) == At(t, "build") /\ call[t] = Source!Idle

\* The position in the batch of the invoice that is built next.
Current(t) == Len(task[t].done) + Len(task[t].packets) + 1

\* The position of the last invoice of the chunk.
ChunkEnd(t) == Least(Len(task[t].done) + MaxPackets, Len(task[t].batch))

Invoice(t) == task[t].batch[Current(t)]

Validating(t) == Building(t) /\ Current(t) <= ChunkEnd(t)

AddPacket(t, tax) == task' = [task EXCEPT ![t].packets = Append(@, tax)]

\* rules.validate raises before a serial is drawn for the invoice.
Refuse(t) ==
  /\ Validating(t) /\ ~ Invoice(t).valid
  /\ task' = [task EXCEPT ![t] = Raised(t)]
  /\ UNCHANGED <<key, org, serials>>

\* _with_identity: an invoice that brings a tax id keeps it.
KeepTaxId(t) ==
  /\ Validating(t) /\ Invoice(t).valid /\ Invoice(t).given
  /\ AddPacket(t, Given)
  /\ UNCHANGED <<key, org, serials>>

Draw(t) ==
  /\ Validating(t) /\ Invoice(t).valid /\ ~ Invoice(t).given
  /\ Source!Ask(t)
  /\ UNCHANGED <<task, key, org>>

DrawGranted(t) ==
  /\ Source!Grant(t)
  /\ UNCHANGED <<task, key, org>>

\* Mutant: one serial serves the whole chunk.
DrawDeliveredOnce(t) ==
  /\ Source!Deliver(t)
  /\ AddPacket(t, IF task[t].packets = <<>> THEN call[t].n ELSE task[t].packets[1])
  /\ UNCHANGED <<key, org>>

DrawDelivered(t) ==
  /\ Source!Deliver(t)
  /\ AddPacket(t, call[t].n)
  /\ UNCHANGED <<key, org>>

\* The counter is exhausted, unreadable or cannot be written.
DrawFails(t) ==
  /\ call[t] # Source!Idle
  /\ Source!GiveUp({t})
  /\ task' = [task EXCEPT ![t] = Raised(t)]
  /\ UNCHANGED <<key, org>>

\* Mutant: a refused invoice ends the chunk instead of the call.
BuiltEarly(t) ==
  /\ Building(t) /\ (Current(t) <= ChunkEnd(t) => ~ Invoice(t).valid)
  /\ task' = [task EXCEPT ![t].at = "post", ![t].http = "out"]
  /\ UNCHANGED <<key, org, serials>>

Built(t) ==
  /\ Building(t) /\ Current(t) > ChunkEnd(t)
  /\ task' = [task EXCEPT ![t].at = "post", ![t].http = "out"]
  /\ UNCHANGED <<key, org, serials>>

(***************************************************************************)
(* POST /invoice.  The organization takes some of the packets and answers  *)
(* with those, in an order of its own.                                     *)
(***************************************************************************)
InFlight(t) == {<<t, i>> : i \in Len(task[t].done) + 1 .. Current(t) - 1}

TaxOf(u) == task[u[1]].packets[u[2] - Len(task[u[1]].done)]

SendPackets(t) ==
  \E taken \in SUBSET InFlight(t) :
    /\ \E answer \in SetToSeqs(taken) : Serve(t, "post", answer)
    /\ org' = [u \in Uids |->
                 IF u \in taken THEN [status |-> "in_progress", tax |-> TaxOf(u)] ELSE org[u]]

\* Mutant: results are matched by their position in the answer.
MatchedByPosition(t) ==
  [i \in DOMAIN task[t].packets |->
     [tax |-> task[t].packets[i],
      ref |-> IF i \in DOMAIN task[t].answer THEN task[t].answer[i] ELSE NoRef]]

\* One submission per packet, matched by uid; without a result, no reference.
Matched(t) ==
  [i \in DOMAIN task[t].packets |->
     LET uid == <<t, Len(task[t].done) + i>>
     IN [tax |-> task[t].packets[i],
         ref |-> IF Contains(task[t].answer, uid) THEN uid ELSE NoRef]]

\* The next chunk is built, or submit returns.
PostAnswered(t) ==
  /\ Answered(t, "post")
  /\ LET done == task[t].done \o Matched(t)
         more == Len(done) < Len(task[t].batch)
     IN task' = [task EXCEPT ![t].at = IF more THEN "build" ELSE "submitted",
                             ![t].http = "none", ![t].done = done,
                             ![t].packets = <<>>, ![t].answer = <<>>]
  /\ UNCHANGED <<key, org, serials>>

\* The organization rules on a packet it took.
OrgRules(u) ==
  /\ org[u].status = "in_progress"
  /\ org' = [org EXCEPT ![u].status = "ruled"]
  /\ UNCHANGED <<task, key, serials>>

(***************************************************************************)
(* await_results.                                                          *)
(***************************************************************************)
\* The references it asks for, in order.
References(t) ==
  LET done == task[t].done
      refs[n \in 0 .. Len(done)] ==
        IF n = 0 THEN <<>>
        ELSE IF done[n].ref = NoRef THEN refs[n - 1] ELSE Append(refs[n - 1], done[n].ref)
  IN refs[Len(done)]

\* With nothing to ask for it returns at once; otherwise it sets the deadline and
\* waits.
BeginAwait(t) ==
  /\ At(t, "submitted")
  /\ task' = [task EXCEPT ![t].at = IF References(t) = <<>> THEN "done" ELSE "sleep",
                          ![t].sleep = MinWait, ![t].left = Timeout]
  /\ UNCHANGED <<key, org, serials>>

\* asyncio.sleep ends, no earlier than it was asked to; an inquiry begins.
Wake(t) ==
  /\ At(t, "sleep") /\ task[t].sleep = 0
  /\ task' = [task EXCEPT ![t].at = "poll", ![t].http = "out", ![t].start = 0,
                          ![t].results = <<>>, ![t].told = Untold]
  /\ UNCHANGED <<key, org, serials>>

\* The references of the next request of the inquiry.
Asked(t) ==
  SubSeq(References(t), task[t].start + 1,
         Least(task[t].start + MaxInquiry, Len(References(t))))

\* The organization lists some of the references, in an order of its own: each with
\* its status now, or as outside the inquiry's window.
SendPoll(t) ==
  \E listed \in SUBSET ToSet(Asked(t)) : \E missed \in SUBSET listed, order \in SetToSeqs(listed) :
    LET Status(u) == IF u \in missed THEN "not_found" ELSE org[u].status
        told == [u \in Uids |-> CASE u \in listed          -> Status(u)
                                  [] u \in ToSet(Asked(t)) \ listed -> "left out"
                                  [] OTHER                 -> task[t].told[u]]
    IN /\ At(t, "poll") /\ task[t].http = "out"
       /\ task' = [task EXCEPT ![t].http = "back", ![t].told = told,
            ![t].answer = [i \in DOMAIN order |-> [ref |-> order[i], status |-> Status(order[i])]]]
       /\ UNCHANGED <<key, org, serials>>

Pending(results) == \E i \in DOMAIN results : results[i].status = "in_progress"

\* What the loop does with the results of a finished inquiry: return them, or
\* sleep until the next one or the deadline.
Looped(t, results) ==
  LET ends == ~ Pending(results) \/ task[t].left = 0
  IN [task[t] EXCEPT !.at = IF ends THEN "done" ELSE "sleep", !.http = "none",
                     !.answer = <<>>, !.start = 0, !.results = results,
                     !.sleep = IF ends THEN 0 ELSE Least(PollInterval, task[t].left)]

\* More references are to be asked for than those up to the end of this request.
More(t) == task[t].start + MaxInquiry < Len(References(t))

NextPoll(t, results) ==
  [task[t] EXCEPT !.http = "out", !.answer = <<>>, !.start = @ + MaxInquiry, !.results = results]

\* Mutant: the results of each request replace those of the one before.
PollAnsweredLast(t) ==
  /\ Answered(t, "poll")
  /\ LET results == task[t].answer
     IN task' = [task EXCEPT ![t] = IF More(t) THEN NextPoll(t, results) ELSE Looped(t, results)]
  /\ UNCHANGED <<key, org, serials>>

\* Mutant: the loop looks at the results of the last request only.
PollAnsweredPartly(t) ==
  /\ Answered(t, "poll")
  /\ LET results == task[t].results \o task[t].answer
     IN task' = [task EXCEPT ![t] =
          IF More(t) THEN NextPoll(t, results)
                     ELSE [Looped(t, task[t].answer) EXCEPT !.results = results]]
  /\ UNCHANGED <<key, org, serials>>

\* The next request of the inquiry, or its end.
PollAnswered(t) ==
  /\ Answered(t, "poll")
  /\ LET results == task[t].results \o task[t].answer
     IN task' = [task EXCEPT ![t] = IF More(t) THEN NextPoll(t, results) ELSE Looped(t, results)]
  /\ UNCHANGED <<key, org, serials>>

\* Time passes, for every task whose timers run.
Tick ==
  LET Less(n) == IF n = 0 THEN 0 ELSE n - 1
      Later(r) ==
        IF r.at \in {"submitted", "sleep", "poll"}
          THEN [r EXCEPT !.sleep = Less(@), !.left = Less(@)]
          ELSE r
  IN /\ task' = [t \in Task |-> Later(task[t])]
     /\ task' # task
     /\ UNCHANGED <<key, org, serials>>

\* Everything a task does once it was called.
Step(t) ==
  \/ LockServerKey(t) \/ SendServerKey(t) \/ GotServerKey(t)
  \/ Refuse(t) \/ KeepTaxId(t) \/ Draw(t) \/ DrawGranted(t) \/ DrawDelivered(t) \/ DrawFails(t)
  \/ Built(t) \/ SendPackets(t) \/ PostAnswered(t)
  \/ Wake(t) \/ SendPoll(t) \/ PollAnswered(t)
  \/ RequestFails(t)

Next ==
  \/ \E t \in Task : Step(t) \/ BeginAwait(t) \/ \E b \in Batches : Submit(t, b)
  \/ \E u \in Uids : OrgRules(u)
  \/ Tick

Spec == Init /\ [][Next]_vars

\* The event loop runs every ready coroutine, HTTP requests time out, the worker
\* thread gets its locks, and time passes.
Fairness == (\A t \in Task : WF_vars(Step(t))) /\ WF_vars(Tick)

FairSpec == Spec /\ Fairness

(***************************************************************************)
(* Properties.                                                             *)
(***************************************************************************)
Places   == {"idle", "lock", "key", "build", "post", "submitted", "sleep", "poll", "done", "failed"}
Statuses == {"in_progress", "ruled", "not_found"}
Said     == Statuses \cup {"not asked", "left out"}
Refs     == Uids \cup {NoRef}

TypeOK ==
  /\ \A t \in Task :
       LET r == task[t]
       IN /\ r.at \in Places /\ r.http \in {"none", "out", "back"}
          /\ r.batch \in Batches \cup {<<>>}
          /\ r.packets \in Seq(TaxIds) /\ r.done \in Seq([tax : TaxIds, ref : Refs])
          /\ r.answer \in Seq(IF r.at = "poll" THEN [ref : Uids, status : Statuses] ELSE Uids)
          /\ r.start \in Nat /\ r.results \in Seq([ref : Uids, status : Statuses])
          /\ r.sleep \in 0 .. MinWait + PollInterval
          /\ r.left \in 0 .. Timeout /\ r.told \in [Uids -> Said]
          /\ (keyLock = t) <=> (r.at = "key")
  /\ keyKnown \in BOOLEAN /\ keyLock \in Task \cup {Nobody}
  /\ org \in [Uids -> [status : {"unknown", "in_progress", "ruled"}, tax : TaxIds]]

\* The submission handed back for an invoice carries the reference of that invoice's
\* packet and the tax id the organization has under it: pipeline.py matches the flat,
\* unordered answer by uid.
OwnResults ==
  \A t \in Task : \A i \in DOMAIN task[t].done :
    LET s == task[t].done[i]
    IN s.ref # NoRef => /\ s.ref = <<t, i>>
                        /\ org[s.ref].status # "unknown" /\ org[s.ref].tax = s.tax

\* An invoice the rule engine refuses never reaches the organization, and neither does any
\* other invoice of the request it was to go out with.
OnlyWholeChunksGoOut ==
  \A t \in Task : \A i \in DOMAIN task[t].batch :
    org[<<t, i>>].status # "unknown" =>
      LET first == ((i - 1) \div MaxPackets) * MaxPackets + 1
      IN \A j \in first .. Least(first + MaxPackets - 1, Len(task[t].batch)) :
           task[t].batch[j].valid

\* The organization never has one generated tax id under two packets, whichever tasks
\* built them and however their builds interleaved.
DistinctTaxIds ==
  \A u, v \in Uids :
    u # v /\ org[u].tax # Given => org[u].tax # org[v].tax

Settled(t) == At(t, "done") /\ References(t) # <<>>

\* await_results asked for every reference it was given and hands back what it was told of
\* them in its last inquiry: all of it, however many requests that took and whatever their
\* answers left out or in which order they came, once, and nothing of an earlier inquiry;
\* and a ruling it reports was made.
HandsBackAllItHeard ==
  \A t \in Task : Settled(t) =>
    LET results == task[t].results
        told    == task[t].told
    IN /\ \A u \in ToSet(References(t)) :
            /\ told[u] # "not asked"
            /\ told[u] # "left out" => [ref |-> u, status |-> told[u]] \in ToSet(results)
       /\ \A i \in DOMAIN results :
            /\ results[i].ref \in ToSet(References(t)) /\ results[i].status = told[results[i].ref]
            /\ results[i].status = "ruled" => org[results[i].ref].status = "ruled"
            /\ \A j \in DOMAIN results : results[j].ref = results[i].ref => j = i

\* It gives up on an invoice that is still IN_PROGRESS only once the timeout has run out.
GivesUpAtDeadline ==
  \A t \in Task : Settled(t) /\ Pending(task[t].results) => task[t].left = 0

\* A call of submit returns or raises, and so does a call of await_results: nobody waits
\* for a key lock that is never released, and polling ends though the organization never
\* rules.
EveryCallEnds ==
  \A t \in Task :
    /\ At(t, "lock") ~> task[t].at \in {"submitted", "sleep", "done", "failed"}
    /\ At(t, "sleep") ~> task[t].at \in {"done", "failed"}

=============================================================================
