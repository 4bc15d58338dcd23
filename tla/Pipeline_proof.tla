--------------------------- MODULE Pipeline_proof ---------------------------
(***************************************************************************)
(* Proofs about the invoice pipeline, for any tasks, batches, limits and   *)
(* timers.  The inductive invariant says what a task holds at each of its  *)
(* places, what the organization has under its uids, and who carries a     *)
(* serial.                                                                 *)
(***************************************************************************)
EXTENDS Pipeline, LeastNumber_proof, FiniteSetTheorems, TLAPS

Subs    == [tax : TaxIds, ref : Refs]
Results == [ref : Uids, status : Statuses]
Tasks   == [at : Places, http : {"none", "out", "back"}, batch : Batches \cup {<<>>},
            packets : Seq(TaxIds), done : Seq(Subs), answer : Seq(Uids) \cup Seq(Results),
            start : Nat, results : Seq(Results), sleep : 0 .. MinWait + PollInterval,
            left : 0 .. Timeout, told : [Uids -> Said]]

(***************************************************************************)
(* The references of a list of submissions.                                *)
(***************************************************************************)
\* References(t), of the submissions rather than of the task that has them.
RefsOf(done) ==
  LET refs[n \in 0 .. Len(done)] ==
        IF n = 0 THEN <<>>
        ELSE IF done[n].ref = NoRef THEN refs[n - 1] ELSE Append(refs[n - 1], done[n].ref)
  IN refs[Len(done)]

\* The absence of a reference is not a uid.
LEMMA NoRefIsNone == NoRef \notin Uids
<1>1. ASSUME NEW t, NEW i PROVE <<t, i>> # <<>>
  <2>1. Len(<<t, i>>) = 2 /\ Len(<<>>) = 0
    OBVIOUS
  <2> QED
    BY <2>1
<1> QED
  BY <1>1 DEF NoRef, Uids

\* A uid is a task and a number.
LEMMA UidForm ==
  ASSUME NEW u \in Uids
  PROVE  u[1] \in Task /\ u[2] \in Nat \ {0} /\ u = <<u[1], u[2]>>
<1>1. u[1] \in Task /\ u[2] \in UNION {DOMAIN b : b \in Batches} /\ u = <<u[1], u[2]>>
  BY DEF Uids
<1>2. PICK b \in Batches : u[2] \in DOMAIN b
  BY <1>1
<1>3. b \in Seq(Invoices)
  BY PipelineAssumption
<1>4. DOMAIN b \subseteq Nat \ {0}
  BY <1>3
<1> QED
  BY <1>1, <1>2, <1>4

\* The loop over the submissions, unfolded: f has the references of the first i of them.
RunsOver(f, done) ==
  /\ f[0] = <<>> /\ f[Len(done)] = RefsOf(done)
  /\ \A i \in 1 .. Len(done) :
       f[i] = IF done[i].ref = NoRef THEN f[i - 1] ELSE Append(f[i - 1], done[i].ref)

\* RefsOf is such a loop.
LEMMA RefsUnfold ==
  ASSUME NEW done \in Seq(Subs)
  PROVE  \E f : RunsOver(f, done)
<1> DEFINE n == Len(done)
           S == Seq(Uids)
           Round(i, r) == IF done[i].ref = NoRef THEN r ELSE Append(r, done[i].ref)
           Body(f) == [k \in 0 .. n |-> IF k = 0 THEN <<>> ELSE
                          IF done[k].ref = NoRef THEN f[k - 1] ELSE Append(f[k - 1], done[k].ref)]
           refs == CHOOSE f : f = Body(f)
           round == [i \in 1 .. n |-> [r \in S |-> Round(i, r)]]
<1>1. n \in Nat /\ \A i \in 1 .. n : done[i].ref \in Uids \cup {NoRef}
  <2>1. n \in Nat /\ \A i \in 1 .. n : done[i] \in Subs
    OBVIOUS
  <2> QED
    BY <2>1 DEF Subs, Refs
<1>2. \A i \in 1 .. n, r \in S : Round(i, r) \in S
  BY <1>1
<1>3. round \in [1 .. n -> [S -> S]] /\ <<>> \in S
  BY <1>2
<1>4. PICK f \in [0 .. n -> S] : f[0] = <<>> /\ \A i \in 1 .. n : f[i] = round[i][f[i - 1]]
  <2>1. PICK empty \in S : empty = <<>>
    BY <1>3
  <2>2. round \in [1 .. n -> [S -> S]] /\ n \in Nat
    BY <1>1, <1>3
  <2> HIDE DEF round, S, n
  <2>3. PICK f : LoopRuns(f, n, S, empty, round)
    BY <2>2, Loop
  <2> QED
    BY <2>1, <2>3 DEF LoopRuns
<1> HIDE DEF n, S
<1>5. f = Body(f)
  <2>1. ASSUME NEW i \in 1 .. n PROVE f[i] = Round(i, f[i - 1])
    <3>1. i - 1 \in 0 .. n
      BY <1>1
    <3>2. f[i - 1] \in S
      BY <1>4, <3>1
    <3> HIDE DEF Round
    <3> QED
      BY <1>4, <3>2
  <2>2. \A k \in 0 .. n : k = 0 \/ k \in 1 .. n
    BY <1>1
  <2>3. \A k \in 0 .. n : f[k] = IF k = 0 THEN <<>> ELSE Round(k, f[k - 1])
    <3> HIDE DEF Round
    <3> QED
      BY <1>4, <2>1, <2>2
  <2> QED
    BY <1>4, <2>3
<1>6. refs = Body(refs)
  <2> HIDE DEF Body
  <2> QED
    BY <1>5
<1> HIDE DEF refs
<1>7. refs[0] = <<>>
  <2>1. 0 \in 0 .. n
    BY <1>1
  <2> QED
    BY <1>6, <2>1
<1>8. \A i \in 1 .. n : refs[i] = Round(i, refs[i - 1])
  <2>1. \A i \in 1 .. n : i \in 0 .. n /\ i # 0
    BY <1>1
  <2> QED
    BY <1>6, <2>1
<1>9. RefsOf(done) = refs[n]
  BY DEF RefsOf, refs, n
<1>10. RunsOver(refs, done)
  BY <1>7, <1>8, <1>9 DEF RunsOver, n
<1> QED
  BY <1>10

\* The references are those that the submissions have.
LEMMA RefsFrom ==
  ASSUME NEW done \in Seq(Subs), NEW K \in SUBSET Uids,
         \A i \in DOMAIN done : done[i].ref \in K \cup {NoRef}
  PROVE  RefsOf(done) \in Seq(K)
<1> DEFINE n == Len(done)
<1>1. n \in Nat /\ \A i \in 1 .. n : done[i].ref \in K \cup {NoRef}
  OBVIOUS
<1> HIDE DEF n
<1>2. PICK refs : RunsOver(refs, done)
  BY RefsUnfold
<1> DEFINE T == {k \in 0 .. n : refs[k] \in Seq(K)}
<1>3. 0 \in T
  <2>1. refs[0] = <<>> /\ <<>> \in Seq(K) /\ 0 \in 0 .. n
    BY <1>1, <1>2 DEF RunsOver
  <2> QED
    BY <2>1
<1>4. ASSUME NEW i \in 1 .. n, i - 1 \in T PROVE i \in T
  <2>1. refs[i - 1] \in Seq(K) /\ i \in 0 .. n
    BY <1>1, <1>4
  <2>2. refs[i] = IF done[i].ref = NoRef THEN refs[i - 1] ELSE Append(refs[i - 1], done[i].ref)
    BY <1>2 DEF RunsOver, n
  <2>3. CASE done[i].ref = NoRef
    BY <2>1, <2>2, <2>3
  <2>4. CASE done[i].ref # NoRef
    <3>1. done[i].ref \in K
      BY <1>1, <2>4
    <3>2. Append(refs[i - 1], done[i].ref) \in Seq(K)
      BY <2>1, <3>1
    <3> QED
      BY <2>1, <2>2, <2>4, <3>2
  <2> QED
    BY <2>3, <2>4
<1>5. \A k \in 0 .. n : k \in T
  <2> HIDE DEF T
  <2> QED
    BY <1>1, <1>3, <1>4, SetInduction
<1>6. refs[n] \in Seq(K)
  BY <1>1, <1>5
<1> QED
  BY <1>2, <1>6 DEF RunsOver, n

\* The uids of s are of invoices up to the n-th of a batch, and are on it once.
Below(s, n) ==
  \A i \in DOMAIN s : s[i][2] <= n /\ \A j \in DOMAIN s : s[j] = s[i] => j = i

\* One more invoice.
LEMMA AppendBelow ==
  ASSUME NEW s \in Seq(Uids), NEW n \in Nat, Below(s, n - 1), NEW u \in Uids, u[2] = n
  PROVE  Below(Append(s, u), n)
<1> DEFINE a == Append(s, u)
           m == Len(s)
<1>1. m \in Nat /\ DOMAIN s = 1 .. m
  OBVIOUS
<1>2. DOMAIN a = 1 .. m + 1 /\ a[m + 1] = u /\ \A i \in 1 .. m : a[i] = s[i]
  OBVIOUS
<1> HIDE DEF a, m
<1>3. \A i \in 1 .. m : s[i][2] \in Nat /\ s[i][2] <= n - 1 /\ s[i] # u
  <2>1. \A i \in 1 .. m : s[i][2] \in Nat
    BY <1>1, UidForm
  <2>2. \A i \in 1 .. m : s[i][2] <= n - 1
    BY <1>1 DEF Below
  <2> QED
    BY <2>1, <2>2
<1>4. \A i \in DOMAIN a : i \in 1 .. m \/ i = m + 1
  BY <1>1, <1>2
<1>5. ASSUME NEW i \in DOMAIN a PROVE a[i][2] <= n /\ \A j \in DOMAIN a : a[j] = a[i] => j = i
  <2>1. CASE i \in 1 .. m
    <3>1. a[i][2] <= n
      BY <1>2, <1>3, <2>1
    <3>2. ASSUME NEW j \in DOMAIN a, a[j] = a[i] PROVE j = i
      BY <1>1, <1>2, <1>3, <1>4, <2>1, <3>2 DEF Below
    <3> QED
      BY <3>1, <3>2
  <2>2. CASE i = m + 1
    BY <1>2, <1>3, <1>4, <2>2
  <2> QED
    BY <1>4, <2>1, <2>2
<1> QED
  BY <1>5 DEF Below, a

\* Submissions with the references of their own invoices have no reference twice.
LEMMA RefsOnce ==
  ASSUME NEW done \in Seq(Subs), NEW t,
         \A i \in DOMAIN done : done[i].ref # NoRef => done[i].ref = <<t, i>>
  PROVE  \A i, j \in DOMAIN RefsOf(done) : RefsOf(done)[j] = RefsOf(done)[i] => j = i
<1> DEFINE n == Len(done)
<1>1. /\ n \in Nat
      /\ \A i \in 1 .. n : done[i].ref \in Uids \cup {NoRef}
      /\ \A i \in 1 .. n : done[i].ref # NoRef => done[i].ref = <<t, i>>
  <2>1. n \in Nat /\ \A i \in 1 .. n : done[i] \in Subs /\ i \in DOMAIN done
    OBVIOUS
  <2> QED
    BY <2>1 DEF Subs, Refs
<1> HIDE DEF n
<1>2. PICK refs : RunsOver(refs, done)
  BY RefsUnfold
<1> DEFINE T == {k \in 0 .. n : refs[k] \in Seq(Uids) /\ Below(refs[k], k)}
<1>3. 0 \in T
  <2>1. Below(<<>>, 0) /\ <<>> \in Seq(Uids)
    <3>1. DOMAIN <<>> = {}
      OBVIOUS
    <3> QED
      BY <3>1 DEF Below
  <2>2. refs[0] = <<>> /\ 0 \in 0 .. n
    BY <1>1, <1>2 DEF RunsOver
  <2> QED
    BY <2>1, <2>2
<1>4. ASSUME NEW i \in 1 .. n, i - 1 \in T PROVE i \in T
  <2>1. refs[i - 1] \in Seq(Uids) /\ Below(refs[i - 1], i - 1) /\ i \in 0 .. n /\ i \in Nat
    BY <1>1, <1>4
  <2>2. refs[i] = IF done[i].ref = NoRef THEN refs[i - 1] ELSE Append(refs[i - 1], done[i].ref)
    BY <1>2 DEF RunsOver, n
  <2>3. CASE done[i].ref = NoRef
    <3>1. \A k \in DOMAIN refs[i - 1] : refs[i - 1][k][2] \in Nat
      BY <2>1, UidForm
    <3>2. Below(refs[i - 1], i)
      BY <2>1, <3>1 DEF Below
    <3> QED
      BY <2>1, <2>2, <2>3, <3>2
  <2>4. CASE done[i].ref # NoRef
    <3>1. done[i].ref \in Uids /\ done[i].ref[2] = i
      <4>1. done[i].ref \in Uids /\ done[i].ref = <<t, i>>
        BY <1>1, <2>4
      <4>2. <<t, i>>[2] = i
        OBVIOUS
      <4> QED
        BY <4>1, <4>2
    <3>2. Below(Append(refs[i - 1], done[i].ref), i)
      BY <2>1, <3>1, AppendBelow
    <3>3. Append(refs[i - 1], done[i].ref) \in Seq(Uids)
      BY <2>1, <3>1
    <3> QED
      BY <2>1, <2>2, <2>4, <3>2, <3>3
  <2> QED
    BY <2>3, <2>4
<1>5. \A k \in 0 .. n : k \in T
  <2> HIDE DEF T
  <2> QED
    BY <1>1, <1>3, <1>4, SetInduction
<1>6. Below(refs[n], n)
  BY <1>1, <1>5
<1> QED
  BY <1>2, <1>6 DEF RunsOver, n, Below

\* The references of a task are those of its submissions.
LEMMA RefsAre ==
  ASSUME NEW t
  PROVE  References(t) = RefsOf(task[t].done) /\ References(t)' = RefsOf(task'[t].done)
BY DEF References, RefsOf

(***************************************************************************)
(* The inductive invariant.                                                *)
(***************************************************************************)
Entries == [status : {"unknown", "in_progress", "ruled"}, tax : TaxIds]
Calls   == [at : {"idle", "asked", "granted"}, n : TaxIds]

\* The variables hold values of their types.
Typed ==
  /\ task \in [Task -> Tasks]
  /\ keyKnown \in BOOLEAN /\ keyLock \in Task \cup {Nobody}
  /\ org \in [Uids -> Entries]
  /\ call \in [Task -> Calls] /\ issued \in [1 .. MaxSerial -> Nat]

\* The key lock is held by the task that fetches the key.
KeyOK == \A t \in Task : (keyLock = t) <=> (task[t].at = "key")

\* The position of the last invoice that a task built, and that of the last one of its chunk.
BuiltTo(q) == Len(q.done) + Len(q.packets)
ChunkTo(q) == Least(Len(q.done) + MaxPackets, Len(q.batch))

Making == {"build", "post"}

\* What a task holds at each place.
Form(q) ==
  /\ q.at = "idle" => q = Fresh
  /\ q.at # "idle" => q.batch \in Batches
  /\ q.at \notin Making => q.packets = <<>>
  /\ q.at \in {"idle", "lock", "key", "failed"} => q.done = <<>>
  /\ q.answer \in Seq(IF q.at = "poll" THEN Results ELSE Uids)
  /\ q.answer # <<>> => q.at \in {"post", "poll"} /\ q.http = "back"

\* The chunk in the making begins at a multiple of MaxPackets, and its invoices were validated.
ChunkOK(q) ==
  q.at \in Making =>
    /\ \E k \in 0 .. Len(q.done) : Len(q.done) = k * MaxPackets
    /\ Len(q.done) < Len(q.batch)
    /\ BuiltTo(q) <= ChunkTo(q)
    /\ q.at = "post" => BuiltTo(q) = ChunkTo(q)
    /\ \A j \in Len(q.done) + 1 .. BuiltTo(q) : q.batch[j].valid

\* How far the organization can know the packets of a task.
KnownTo(q) == IF q.at = "post" /\ q.http = "back" THEN BuiltTo(q) ELSE Len(q.done)

\* A chunk is sent whole, and once.
KnownOK(t, q, o) ==
  /\ q.at \in {"idle", "lock", "key", "build", "post"} =>
       \A u \in Uids : u[1] = t /\ o[u].status # "unknown" => u[2] <= KnownTo(q)
  /\ \A i \in DOMAIN q.batch :
       o[<<t, i>>].status # "unknown" =>
         LET first == ((i - 1) \div MaxPackets) * MaxPackets + 1
         IN \A j \in first .. Least(first + MaxPackets - 1, Len(q.batch)) : q.batch[j].valid

\* The submissions so far are the task's own, and so is what an answer names.
OwnOK(t, q, o) ==
  /\ \A i \in DOMAIN q.done :
       LET s == q.done[i]
       IN s.ref # NoRef => s.ref = <<t, i>> /\ o[s.ref].status # "unknown" /\ o[s.ref].tax = s.tax
  /\ q.at = "post" => \A j \in DOMAIN q.answer :
       LET u == q.answer[j]
       IN /\ u[1] = t /\ u[2] \in Len(q.done) + 1 .. BuiltTo(q)
          /\ o[u].status # "unknown" /\ o[u].tax = q.packets[u[2] - Len(q.done)]

\* The list r has, once each, what was told of the uids S, and nothing else.
Reports(r, S, told, o) ==
  /\ \A i \in DOMAIN r :
       /\ r[i].ref \in S /\ r[i].status = told[r[i].ref]
       /\ \A j \in DOMAIN r : r[j].ref = r[i].ref => j = i
  /\ \A u \in S :
       /\ told[u] # "not asked"
       /\ told[u] # "left out" => \E i \in DOMAIN r : r[i].ref = u
       /\ told[u] = "ruled" => o[u].status = "ruled"

\* The references from position m to position n.
Named(refs, m, n) == {refs[i] : i \in m .. n}

\* The inquiry goes through the references in order, and the loop ends with all of them.
PollOK(q, o) ==
  LET refs == RefsOf(q.done)
      upto == Least(q.start + MaxInquiry, Len(refs))
  IN /\ q.at \in {"sleep", "poll"} => refs # <<>>
     /\ q.at = "poll" =>
          q.start < Len(refs) /\ Reports(q.results, Named(refs, 1, q.start), q.told, o)
     /\ q.at = "poll" /\ q.http = "back" =>
          Reports(q.answer, Named(refs, q.start + 1, upto), q.told, o)
     /\ q.at = "done" /\ refs # <<>> =>
          /\ Reports(q.results, Named(refs, 1, Len(refs)), q.told, o)
          /\ Pending(q.results) => q.left = 0

\* A serial is drawn for the next invoice of the chunk, which was validated.
CallOK(q, c) ==
  c # Source!Idle =>
    q.at = "build" /\ BuiltTo(q) + 1 <= ChunkTo(q) /\ q.batch[BuiltTo(q) + 1].valid

\* A task and what the organization has of its packets.
TaskOK(t, q, o) == Form(q) /\ ChunkOK(q) /\ KnownOK(t, q, o) /\ OwnOK(t, q, o) /\ PollOK(q, o)

\* The packet in the making at u carries the serial n; or the organization has it there.
Makes(q, u, n) ==
  u[2] \in Len(q.done) + 1 .. BuiltTo(q) /\ q.packets[u[2] - Len(q.done)] = n
Carries(u, n) == org[u].tax = n \/ Makes(task[u[1]], u, n)

\* A serial is on one packet only, and was delivered; a granted one was not, and is one task's.
SerialsOK ==
  /\ \A u, v \in Uids, n \in 1 .. MaxSerial : Carries(u, n) /\ Carries(v, n) => u = v
  /\ \A u \in Uids, n \in 1 .. MaxSerial : Carries(u, n) => issued[n] > 0
  /\ \A t \in Task : call[t].at = "granted" =>
       /\ call[t].n \in 1 .. MaxSerial /\ issued[call[t].n] = 0
       /\ \A d \in Task : call[d].at = "granted" /\ call[d].n = call[t].n => d = t

PipelineInv ==
  /\ Typed /\ KeyOK /\ SerialsOK
  /\ \A t \in Task : TaskOK(t, task[t], org) /\ CallOK(task[t], call[t])

\* The references of any submissions are uids.
LEMMA RefsType ==
  ASSUME NEW done \in Seq(Subs)
  PROVE  RefsOf(done) \in Seq(Uids)
<1>1. \A i \in DOMAIN done : done[i] \in Subs
  OBVIOUS
<1>2. \A i \in DOMAIN done : done[i].ref \in Uids \cup {NoRef}
  BY <1>1 DEF Subs, Refs
<1>3. Uids \in SUBSET Uids
  OBVIOUS
<1> QED
  BY <1>2, <1>3, RefsFrom

\* A position in a batch is a uid of the task that submits it.
LEMMA OwnUids ==
  ASSUME NEW t \in Task, NEW b \in Batches, NEW i \in DOMAIN b
  PROVE  <<t, i>> \in Uids
<1>1. i \in UNION {DOMAIN c : c \in Batches}
  OBVIOUS
<1> QED
  BY <1>1 DEF Uids

(***************************************************************************)
(* Another task's packets, and rulings, disturb nothing.                   *)
(***************************************************************************)
\* The organization took or ruled on nothing of task t's that it had not taken before.
OrgLater(t, o, o2) ==
  \A u \in Uids : u[1] = t =>
    /\ o2[u].tax = o[u].tax
    /\ o2[u].status = "unknown" <=> o[u].status = "unknown"
    /\ o[u].status = "ruled" => o2[u].status = "ruled"

\* What a task knows stays true as long as its packets are only ruled on.
LEMMA OrgMoves ==
  ASSUME NEW t \in Task, NEW q \in Tasks, NEW o, NEW o2, TaskOK(t, q, o), OrgLater(t, o, o2)
  PROVE  TaskOK(t, q, o2)
<1>1. q.done \in Seq(Subs) /\ q.batch \in Batches \cup {<<>>}
      /\ q.answer \in Seq(Uids) \cup Seq(Results) /\ q.results \in Seq(Results)
  BY DEF Tasks
<1>2. \A i \in DOMAIN q.done : q.done[i] \in Subs
  BY <1>1
<1>3. \A i \in DOMAIN q.done : q.done[i].ref \in Uids \cup {NoRef}
  BY <1>2 DEF Subs, Refs
<1>4. KnownOK(t, q, o2)
  <2>1. ASSUME q.at \in {"idle", "lock", "key", "build", "post"},
               NEW u \in Uids, u[1] = t, o2[u].status # "unknown"
        PROVE  u[2] <= KnownTo(q)
    <3>1. o[u].status # "unknown"
      BY <2>1 DEF OrgLater
    <3> QED
      BY <2>1, <3>1 DEF TaskOK, KnownOK
  <2>2. \A i \in DOMAIN q.batch : <<t, i>> \in Uids
    BY <1>1, OwnUids
  <2>3. \A i \in DOMAIN q.batch : o2[<<t, i>>].status # "unknown" => o[<<t, i>>].status # "unknown"
    BY <2>2 DEF OrgLater
  <2> QED
    BY <2>1, <2>3 DEF TaskOK, KnownOK
<1>5. OwnOK(t, q, o2)
  <2>1. ASSUME NEW i \in DOMAIN q.done, q.done[i].ref # NoRef
        PROVE  /\ q.done[i].ref = <<t, i>>
               /\ o2[q.done[i].ref].status # "unknown" /\ o2[q.done[i].ref].tax = q.done[i].tax
    <3> DEFINE u == q.done[i].ref
    <3>1. u = <<t, i>> /\ o[u].status # "unknown" /\ o[u].tax = q.done[i].tax
      BY <2>1 DEF TaskOK, OwnOK
    <3>2. u \in Uids /\ u[1] = t
      BY <1>3, <2>1, <3>1
    <3> HIDE DEF u
    <3>3. o2[u].status # "unknown" /\ o2[u].tax = o[u].tax
      BY <3>1, <3>2 DEF OrgLater
    <3> QED
      BY <3>1, <3>3 DEF u
  <2>2. ASSUME q.at = "post", NEW j \in DOMAIN q.answer
        PROVE  LET u == q.answer[j]
               IN /\ u[1] = t /\ u[2] \in Len(q.done) + 1 .. BuiltTo(q)
                  /\ o2[u].status # "unknown" /\ o2[u].tax = q.packets[u[2] - Len(q.done)]
    <3> DEFINE u == q.answer[j]
    <3>1. /\ u[1] = t /\ u[2] \in Len(q.done) + 1 .. BuiltTo(q)
          /\ o[u].status # "unknown" /\ o[u].tax = q.packets[u[2] - Len(q.done)]
      BY <2>2 DEF TaskOK, OwnOK
    <3>2. q.answer \in Seq(Uids)
      BY <2>2 DEF TaskOK, Form
    <3>3. u \in Uids
      BY <2>2, <3>2
    <3> HIDE DEF u
    <3>4. o2[u].status # "unknown" /\ o2[u].tax = o[u].tax
      BY <3>1, <3>3 DEF OrgLater
    <3>5. /\ u[1] = t /\ u[2] \in Len(q.done) + 1 .. BuiltTo(q)
          /\ o2[u].status # "unknown" /\ o2[u].tax = q.packets[u[2] - Len(q.done)]
      BY <3>1, <3>4
    <3> QED
      BY <3>5 DEF u
  <2> QED
    BY <2>1, <2>2 DEF OwnOK
<1>6. PollOK(q, o2)
  <2> DEFINE refs == RefsOf(q.done)
             K == {u \in Uids : u[1] = t}
  <2>1. refs \in Seq(K)
    <3>1. ASSUME NEW i \in DOMAIN q.done PROVE q.done[i].ref \in K \cup {NoRef}
      <4>1. q.done[i].ref # NoRef => q.done[i].ref = <<t, i>>
        BY DEF TaskOK, OwnOK
      <4> QED
        BY <1>3, <4>1
    <3>2. K \in SUBSET Uids
      OBVIOUS
    <3> HIDE DEF K
    <3> QED
      BY <1>1, <3>1, <3>2, RefsFrom
  <2>2. \A i \in 1 .. Len(refs) : o[refs[i]].status = "ruled" => o2[refs[i]].status = "ruled"
    <3>1. \A i \in 1 .. Len(refs) : refs[i] \in K
      BY <2>1
    <3> HIDE DEF refs
    <3> QED
      BY <3>1 DEF OrgLater
  <2>3. Len(refs) \in Nat /\ q.start \in Nat
    <3>1. Len(refs) \in Nat
      BY <2>1
    <3> QED
      BY <3>1 DEF Tasks
  <2> HIDE DEF refs
  <2> DEFINE upto == Least(q.start + MaxInquiry, Len(refs))
  <2>4. ASSUME NEW r, NEW m \in Nat \ {0}, NEW n \in Int, n <= Len(refs),
               Reports(r, Named(refs, m, n), q.told, o)
        PROVE  Reports(r, Named(refs, m, n), q.told, o2)
    <3>1. \A u \in Named(refs, m, n) : o[u].status = "ruled" => o2[u].status = "ruled"
      BY <2>2, <2>3, <2>4 DEF Named
    <3> QED
      BY <2>4, <3>1 DEF Reports
  <2>5. /\ upto \in Int /\ upto <= Len(refs) /\ q.start + 1 \in Nat \ {0} /\ 1 \in Nat \ {0}
        /\ q.start \in Int /\ Len(refs) \in Int /\ Len(refs) <= Len(refs)
    BY <2>3, PipelineAssumption DEF Least
  <2> HIDE DEF upto
  <2>6. /\ q.at \in {"sleep", "poll"} => refs # <<>>
        /\ q.at = "poll" =>
             q.start < Len(refs) /\ Reports(q.results, Named(refs, 1, q.start), q.told, o)
        /\ q.at = "poll" /\ q.http = "back" =>
             Reports(q.answer, Named(refs, q.start + 1, upto), q.told, o)
        /\ q.at = "done" /\ refs # <<>> =>
             /\ Reports(q.results, Named(refs, 1, Len(refs)), q.told, o)
             /\ Pending(q.results) => q.left = 0
    BY DEF TaskOK, PollOK, refs, upto
  <2>7. q.at = "poll" => Reports(q.results, Named(refs, 1, q.start), q.told, o2)
    <3>1. q.start < Len(refs) => q.start <= Len(refs)
      BY <2>3
    <3> QED
      BY <2>4, <2>5, <2>6, <3>1
  <2>8. q.at = "poll" /\ q.http = "back" => Reports(q.answer, Named(refs, q.start + 1, upto), q.told, o2)
    BY <2>4, <2>5, <2>6
  <2>9. q.at = "done" /\ refs # <<>> => Reports(q.results, Named(refs, 1, Len(refs)), q.told, o2)
    BY <2>4, <2>5, <2>6
  <2> QED
    BY <2>6, <2>7, <2>8, <2>9 DEF PollOK, refs, upto
<1> QED
  BY <1>4, <1>5, <1>6 DEF TaskOK

(***************************************************************************)
(* What a step must show.                                                  *)
(***************************************************************************)
\* Serials stay where they are when no packet gains one.
LEMMA SerialsKept ==
  ASSUME SerialsOK, issued' = issued,
         \A u \in Uids, n \in 1 .. MaxSerial :
           org'[u].tax = n \/ Makes(task'[u[1]], u, n) => Carries(u, n),
         \A s \in Task : call'[s].at = "granted" => call[s].at = "granted" /\ call'[s].n = call[s].n
  PROVE  SerialsOK'
<1>1. \A u \in Uids, n \in 1 .. MaxSerial : Carries(u, n)' => Carries(u, n)
  BY DEF Carries
<1>2. \A u, v \in Uids, n \in 1 .. MaxSerial : Carries(u, n)' /\ Carries(v, n)' => u = v
  <2>1. \A u, v \in Uids, n \in 1 .. MaxSerial : Carries(u, n) /\ Carries(v, n) => u = v
    BY DEF SerialsOK
  <2> QED
    BY <1>1, <2>1
<1>3. \A u \in Uids, n \in 1 .. MaxSerial : Carries(u, n)' => issued'[n] > 0
  <2>1. \A u \in Uids, n \in 1 .. MaxSerial : Carries(u, n) => issued[n] > 0
    BY DEF SerialsOK
  <2> QED
    BY <1>1, <2>1
<1>4. \A t \in Task : call'[t].at = "granted" =>
        /\ call'[t].n \in 1 .. MaxSerial /\ issued'[call'[t].n] = 0
        /\ \A d \in Task : call'[d].at = "granted" /\ call'[d].n = call'[t].n => d = t
  BY DEF SerialsOK
<1> QED
  BY <1>2, <1>3, <1>4 DEF SerialsOK

\* A step of task t that leaves it with q.
LEMMA TaskStep ==
  ASSUME PipelineInv, NEW t \in Task, NEW q \in Tasks,
         task' = [task EXCEPT ![t] = q],
         org' \in [Uids -> Entries], \A u \in Uids : u[1] # t => org'[u] = org[u],
         keyKnown' \in BOOLEAN, keyLock' \in Task \cup {Nobody},
         \A s \in Task : s # t => ((keyLock' = s) <=> (keyLock = s)),
         (keyLock' = t) <=> (q.at = "key"),
         call' \in [Task -> Calls], issued' \in [1 .. MaxSerial -> Nat],
         \A s \in Task : s # t => call'[s] = call[s],
         TaskOK(t, q, org'), CallOK(q, call'[t]), SerialsOK'
  PROVE  PipelineInv'
<1>1. task \in [Task -> Tasks]
  BY DEF PipelineInv, Typed
<1>2. task' \in [Task -> Tasks] /\ task'[t] = q /\ \A s \in Task : s # t => task'[s] = task[s]
  BY <1>1
<1>3. Typed'
  BY <1>2 DEF Typed
<1>4. KeyOK'
  <2>1. \A s \in Task : (keyLock = s) <=> (task[s].at = "key")
    BY DEF PipelineInv, KeyOK
  <2>2. \A s \in Task : (keyLock' = s) <=> (task'[s].at = "key")
    BY <1>2, <2>1
  <2> QED
    BY <2>2 DEF KeyOK
<1>5. ASSUME NEW s \in Task PROVE TaskOK(s, task'[s], org') /\ CallOK(task'[s], call'[s])
  <2>1. CASE s = t
    BY <1>2, <2>1
  <2>2. CASE s # t
    <3>1. TaskOK(s, task[s], org) /\ CallOK(task[s], call[s])
      BY DEF PipelineInv
    <3>2. \A u \in Uids : u[1] = s => org'[u] = org[u]
      BY <2>2
    <3>3. OrgLater(s, org, org')
      BY <3>2 DEF OrgLater
    <3>4. task[s] \in Tasks
      BY <1>1
    <3>5. TaskOK(s, task[s], org')
      BY <3>1, <3>3, <3>4, OrgMoves
    <3>6. CallOK(task[s], call'[s])
      BY <2>2, <3>1
    <3> QED
      BY <1>2, <2>2, <3>5, <3>6
  <2> QED
    BY <2>1, <2>2
<1> QED
  BY <1>3, <1>4, <1>5 DEF PipelineInv

\* A step of a task that draws no serial, sends nothing and adds no packet.
LEMMA QuietStep ==
  ASSUME PipelineInv, NEW t \in Task, NEW q \in Tasks,
         task' = [task EXCEPT ![t] = q], UNCHANGED <<org, serials>>,
         q.packets = <<>> \/ (q.packets = task[t].packets /\ q.done = task[t].done),
         keyKnown' \in BOOLEAN, keyLock' \in Task \cup {Nobody},
         \A s \in Task : s # t => ((keyLock' = s) <=> (keyLock = s)),
         (keyLock' = t) <=> (q.at = "key"),
         TaskOK(t, q, org), CallOK(q, call[t])
  PROVE  PipelineInv'
<1>1. task \in [Task -> Tasks] /\ org \in [Uids -> Entries]
      /\ call \in [Task -> Calls] /\ issued \in [1 .. MaxSerial -> Nat]
  BY DEF PipelineInv, Typed
<1>2. org' = org /\ call' = call /\ issued' = issued
  BY DEF serials
<1>3. task'[t] = q /\ \A s \in Task : s # t => task'[s] = task[s]
  BY <1>1
<1>4. ASSUME NEW u \in Uids, NEW n \in 1 .. MaxSerial, Makes(task'[u[1]], u, n)
      PROVE  Makes(task[u[1]], u, n)
  <2>1. u[1] \in Task
    BY UidForm
  <2>2. CASE u[1] # t
    BY <1>3, <1>4, <2>1, <2>2
  <2>3. CASE u[1] = t /\ q.packets = <<>>
    <3>1. Makes(q, u, n)
      BY <1>3, <1>4, <2>3
    <3>2. q.done \in Seq(Subs)
      BY DEF Tasks
    <3>3. Len(q.packets) = 0 /\ Len(q.done) \in Nat
      BY <2>3, <3>2
    <3>4. BuiltTo(q) = Len(q.done)
      BY <3>3 DEF BuiltTo
    <3> QED
      BY <3>1, <3>3, <3>4 DEF Makes
  <2>4. CASE u[1] = t /\ q.packets = task[t].packets /\ q.done = task[t].done
    <3>1. Makes(q, u, n)
      BY <1>3, <1>4, <2>4
    <3> QED
      BY <2>4, <3>1 DEF Makes, BuiltTo
  <2> QED
    BY <2>2, <2>3, <2>4
<1>5. SerialsOK'
  <2>1. \A u \in Uids, n \in 1 .. MaxSerial :
          org'[u].tax = n \/ Makes(task'[u[1]], u, n) => Carries(u, n)
    BY <1>2, <1>4 DEF Carries
  <2>2. SerialsOK
    BY DEF PipelineInv
  <2> QED
    BY <1>2, <2>1, <2>2, SerialsKept
<1>6. org' \in [Uids -> Entries] /\ call' \in [Task -> Calls] /\ issued' \in [1 .. MaxSerial -> Nat]
      /\ (\A u \in Uids : u[1] # t => org'[u] = org[u])
      /\ (\A s \in Task : s # t => call'[s] = call[s])
  BY <1>1, <1>2
<1>7. TaskOK(t, q, org') /\ CallOK(q, call'[t])
  BY <1>2
<1> QED
  BY <1>5, <1>6, <1>7, TaskStep

\* The variables, and the locals of one task.
LEMMA Locals ==
  ASSUME PipelineInv, NEW t \in Task
  PROVE  /\ task \in [Task -> Tasks] /\ org \in [Uids -> Entries]
         /\ call \in [Task -> Calls] /\ issued \in [1 .. MaxSerial -> Nat]
         /\ keyKnown \in BOOLEAN /\ keyLock \in Task \cup {Nobody}
         /\ task[t] \in Tasks /\ TaskOK(t, task[t], org) /\ CallOK(task[t], call[t])
         /\ (keyLock = t) <=> (task[t].at = "key")
BY DEF PipelineInv, Typed, KeyOK

\* The fields of a task's record.
LEMMA Fields ==
  ASSUME NEW q \in Tasks
  PROVE  /\ q.at \in Places /\ q.http \in {"none", "out", "back"} /\ q.batch \in Batches \cup {<<>>}
         /\ q.packets \in Seq(TaxIds) /\ q.done \in Seq(Subs)
         /\ q.answer \in Seq(Uids) \cup Seq(Results) /\ q.results \in Seq(Results)
         /\ q.sleep \in 0 .. MinWait + PollInterval /\ q.left \in 0 .. Timeout
         /\ q.start \in Nat /\ q.told \in [Uids -> Said]
         /\ Len(q.packets) \in Nat /\ Len(q.done) \in Nat /\ Len(q.results) \in Nat
         /\ q.batch \in Seq(Invoices) /\ Len(q.batch) \in Nat
<1>1. /\ q.at \in Places /\ q.http \in {"none", "out", "back"} /\ q.batch \in Batches \cup {<<>>}
      /\ q.packets \in Seq(TaxIds) /\ q.done \in Seq(Subs)
      /\ q.answer \in Seq(Uids) \cup Seq(Results) /\ q.results \in Seq(Results)
      /\ q.sleep \in 0 .. MinWait + PollInterval /\ q.left \in 0 .. Timeout
      /\ q.start \in Nat /\ q.told \in [Uids -> Said]
  BY DEF Tasks
<1>2. q.batch \in Seq(Invoices)
  <2>1. CASE q.batch \in Batches
    BY <2>1, PipelineAssumption
  <2>2. CASE q.batch = <<>>
    BY <2>2
  <2> QED
    BY <1>1, <2>1, <2>2
<1> QED
  BY <1>1, <1>2

\* A fresh task has nothing, and the organization nothing of it.
LEMMA FreshOK ==
  /\ Fresh \in Tasks
  /\ \A t \in Task : \A o : (\A u \in Uids : u[1] = t => o[u].status = "unknown") => TaskOK(t, Fresh, o)
<1>1. Fresh \in Tasks
  <2>1. 0 \in 0 .. MinWait + PollInterval /\ 0 \in 0 .. Timeout
    BY PipelineAssumption
  <2>2. <<>> \in Seq(TaxIds) /\ <<>> \in Seq(Subs) /\ <<>> \in Seq(Uids) /\ <<>> \in Seq(Results)
    OBVIOUS
  <2>3. Untold \in [Uids -> Said] /\ 0 \in Nat
    BY DEF Untold, Said
  <2> QED
    BY <2>1, <2>2, <2>3 DEF Fresh, Tasks, Places
<1>2. /\ Fresh.at = "idle" /\ Fresh.batch = <<>> /\ Fresh.packets = <<>> /\ Fresh.done = <<>>
      /\ Fresh.answer = <<>>
  BY DEF Fresh
<1>3. ASSUME NEW t \in Task, NEW o, \A u \in Uids : u[1] = t => o[u].status = "unknown"
      PROVE  TaskOK(t, Fresh, o)
  <2>1. Form(Fresh)
    BY <1>2 DEF Form
  <2>2. ChunkOK(Fresh)
    BY <1>2 DEF ChunkOK, Making
  <2>3. KnownOK(t, Fresh, o)
    <3>1. DOMAIN Fresh.batch = {}
      BY <1>2
    <3> QED
      BY <1>2, <1>3, <3>1 DEF KnownOK
  <2>4. OwnOK(t, Fresh, o)
    <3>1. DOMAIN Fresh.done = {}
      BY <1>2
    <3> QED
      BY <1>2, <3>1 DEF OwnOK
  <2>5. PollOK(Fresh, o)
    BY <1>2 DEF PollOK
  <2> QED
    BY <2>1, <2>2, <2>3, <2>4, <2>5 DEF TaskOK
<1> QED
  BY <1>1, <1>3

\* The source of serials in the pipeline's own words.
LEMMA SourceWords ==
  /\ Source!Idle = [at |-> "idle", n |-> 0] /\ Source!Asked = [at |-> "asked", n |-> 0]
  /\ \A s : Source!Granted(s) = [at |-> "granted", n |-> s]
  /\ Source!Serials = 1 .. MaxSerial
BY DEF Source!Idle, Source!Asked, Source!Granted, Source!Serials

\* The invariant holds before any task has called submit.
LEMMA InitInv == Init => PipelineInv
<1> SUFFICES ASSUME Init PROVE PipelineInv
  OBVIOUS
<1>1. task = [t \in Task |-> Fresh] /\ keyKnown = FALSE /\ keyLock = Nobody
      /\ org = [u \in Uids |-> Unknown] /\ call = [t \in Task |-> Source!Idle]
      /\ issued = [s \in 1 .. MaxSerial |-> 0]
  BY SourceWords DEF Init, Source!Init
<1>2. Typed
  <2>1. MaxSerial \in Nat /\ Unknown \in Entries /\ Source!Idle \in Calls
    BY PipelineAssumption, SourceWords DEF Unknown, Entries, Calls, TaxIds, Given
  <2> QED
    BY <1>1, <2>1, FreshOK DEF Typed
<1>3. KeyOK
  <2>1. Fresh.at # "key"
    BY DEF Fresh
  <2> QED
    BY <1>1, <2>1, PipelineAssumption DEF KeyOK
<1>4. SerialsOK
  <2>1. ASSUME NEW u \in Uids, NEW n \in 1 .. MaxSerial, Carries(u, n) PROVE FALSE
    <3>1. org[u].tax = 0
      BY <1>1 DEF Unknown, Given
    <3>2. task[u[1]] = Fresh
      BY <1>1, UidForm
    <3>3. Len(Fresh.done) = 0 /\ Len(Fresh.packets) = 0
      BY DEF Fresh
    <3>4. n # 0
      BY PipelineAssumption
    <3> QED
      BY <2>1, <3>1, <3>2, <3>3, <3>4 DEF Carries, Makes, BuiltTo
  <2>2. \A t \in Task : call[t].at # "granted"
    BY <1>1, SourceWords
  <2> QED
    BY <2>1, <2>2 DEF SerialsOK
<1>5. ASSUME NEW t \in Task PROVE TaskOK(t, task[t], org) /\ CallOK(task[t], call[t])
  <2>1. \A u \in Uids : org[u].status = "unknown"
    BY <1>1 DEF Unknown
  <2>2. TaskOK(t, Fresh, org)
    BY <2>1, FreshOK
  <2>3. task[t] = Fresh /\ call[t] = Source!Idle
    BY <1>1
  <2> QED
    BY <2>2, <2>3 DEF CallOK
<1> QED
  BY <1>2, <1>3, <1>4, <1>5 DEF PipelineInv

\* What a raising coroutine leaves behind: its batch, and what it sent.
LEMMA RaisedOK ==
  ASSUME PipelineInv, NEW t \in Task, task[t].at # "idle"
  PROVE  /\ Raised(t) \in Tasks /\ Raised(t).at = "failed" /\ Raised(t).packets = <<>>
         /\ TaskOK(t, Raised(t), org)
<1> DEFINE p == task[t]
           q == Raised(t)
<1>1. p \in Tasks /\ TaskOK(t, p, org)
  BY Locals
<1>2. p.batch \in Batches
  BY <1>1 DEF TaskOK, Form
<1>3. /\ q \in Tasks /\ q.at = "failed" /\ q.batch = p.batch /\ q.packets = <<>> /\ q.done = <<>>
      /\ q.answer = <<>>
  <2>1. q = [Fresh EXCEPT !.at = "failed", !.batch = p.batch]
    BY DEF Raised
  <2>2. Fresh \in Tasks /\ Fresh.packets = <<>> /\ Fresh.done = <<>> /\ Fresh.answer = <<>>
    BY FreshOK DEF Fresh
  <2> HIDE DEF q, p
  <2> QED
    BY <1>2, <2>1, <2>2 DEF Tasks, Places
<1> HIDE DEF q, p
<1>4. Form(q)
  BY <1>2, <1>3 DEF Form
<1>5. ChunkOK(q)
  BY <1>3 DEF ChunkOK, Making
<1>6. KnownOK(t, q, org)
  BY <1>1, <1>3 DEF TaskOK, KnownOK
<1>7. OwnOK(t, q, org)
  <2>1. DOMAIN q.done = {}
    BY <1>3
  <2> QED
    BY <1>3, <2>1 DEF OwnOK
<1>8. PollOK(q, org)
  BY <1>3 DEF PollOK
<1> QED
  BY <1>3, <1>4, <1>5, <1>6, <1>7, <1>8 DEF TaskOK, q

(***************************************************************************)
(* The steps up to the first chunk.                                        *)
(***************************************************************************)
Early == {"lock", "key", "build"}

\* Before its first chunk is built, the organization has nothing of a task.
LEMMA NothingKnown ==
  ASSUME PipelineInv, NEW t \in Task, task[t].at \in {"idle", "lock", "key"}
  PROVE  \A u \in Uids : u[1] = t => org[u].status = "unknown"
<1>1. TaskOK(t, task[t], org)
  BY Locals
<1>2. task[t].done = <<>>
  BY <1>1 DEF TaskOK, Form
<1>3. KnownTo(task[t]) = 0
  BY <1>2 DEF KnownTo
<1>4. \A u \in Uids : u[1] = t /\ org[u].status # "unknown" => u[2] <= 0
  BY <1>1, <1>3 DEF TaskOK, KnownOK
<1>5. \A u \in Uids : u[2] \in Nat \ {0}
  BY UidForm
<1> QED
  BY <1>4, <1>5

\* A task that called submit and has built nothing.
LEMMA StartOK ==
  ASSUME NEW t \in Task, NEW q \in Tasks, NEW o,
         q.at \in Early, q.batch \in Batches, q.packets = <<>>, q.done = <<>>, q.answer = <<>>,
         \A u \in Uids : u[1] = t => o[u].status = "unknown"
  PROVE  TaskOK(t, q, o)
<1>1. Form(q)
  BY DEF Form, Early, Making
<1>2. ChunkOK(q)
  <2>1. Len(q.done) = 0 /\ Len(q.packets) = 0 /\ BuiltTo(q) = 0
    BY DEF BuiltTo
  <2>2. q.batch \in Seq(Invoices) /\ q.batch # <<>> /\ MaxPackets \in Nat \ {0}
    BY PipelineAssumption
  <2>3. Len(q.batch) \in Nat /\ Len(q.batch) > 0
    BY <2>2
  <2>4. BuiltTo(q) <= ChunkTo(q)
    BY <2>1, <2>2, <2>3 DEF ChunkTo, Least
  <2>5. 0 \in 0 .. Len(q.done) /\ Len(q.done) = 0 * MaxPackets
    BY <2>1, <2>2
  <2>6. q.at # "post"
    BY DEF Early
  <2>7. \A j \in Len(q.done) + 1 .. BuiltTo(q) : q.batch[j].valid
    BY <2>1
  <2> QED
    BY <2>1, <2>3, <2>4, <2>5, <2>6, <2>7 DEF ChunkOK
<1>3. KnownOK(t, q, o)
  <2>1. \A i \in DOMAIN q.batch : <<t, i>> \in Uids
    BY OwnUids
  <2>2. \A i \in DOMAIN q.batch : o[<<t, i>>].status = "unknown"
    BY <2>1
  <2> QED
    BY <2>2 DEF KnownOK
<1>4. OwnOK(t, q, o)
  <2>1. DOMAIN q.done = {} /\ q.at # "post"
    BY DEF Early
  <2> QED
    BY <2>1 DEF OwnOK
<1>5. PollOK(q, o)
  BY DEF PollOK, Early
<1> QED
  BY <1>1, <1>2, <1>3, <1>4, <1>5 DEF TaskOK

\* No serial is being drawn but while a chunk is built.
LEMMA NoCall ==
  ASSUME PipelineInv, NEW t \in Task, task[t].at # "build", NEW q
  PROVE  CallOK(q, call[t])
<1>1. CallOK(task[t], call[t])
  BY Locals
<1> QED
  BY <1>1 DEF CallOK

\* A request that raises leaves the coroutine, and the key lock if it held it.
LEMMA KeepsRequestFails ==
  ASSUME PipelineInv, NEW t \in Task, RequestFails(t)
  PROVE  PipelineInv'
<1> DEFINE q == Raised(t)
<1>1. task[t].at \in {"key", "post", "poll"} /\ task' = [task EXCEPT ![t] = q]
      /\ keyLock' = (IF keyLock = t THEN Nobody ELSE keyLock)
      /\ keyKnown' = keyKnown /\ UNCHANGED <<org, serials>>
  BY DEF RequestFails, Requesting
<1>2. q \in Tasks /\ q.at = "failed" /\ q.packets = <<>> /\ TaskOK(t, q, org)
  BY <1>1, RaisedOK
<1>3. CallOK(q, call[t])
  BY <1>1, NoCall
<1>4. keyKnown \in BOOLEAN /\ keyLock \in Task \cup {Nobody} /\ Nobody \notin Task
  BY Locals, PipelineAssumption
<1> HIDE DEF q
<1>5. /\ keyKnown' \in BOOLEAN /\ keyLock' \in Task \cup {Nobody}
      /\ \A s \in Task : s # t => ((keyLock' = s) <=> (keyLock = s))
      /\ (keyLock' = t) <=> (q.at = "key")
  BY <1>1, <1>2, <1>4
<1> QED
  BY <1>1, <1>2, <1>3, <1>5, QuietStep

\* submit is called.
LEMMA KeepsSubmit ==
  ASSUME PipelineInv, NEW t \in Task, NEW b \in Batches, Submit(t, b)
  PROVE  PipelineInv'
<1> DEFINE p == task[t]
           q == [p EXCEPT !.at = "lock", !.batch = b]
<1>1. p \in Tasks /\ task \in [Task -> Tasks] /\ TaskOK(t, p, org)
  BY Locals
<1>2. p.at = "idle" /\ task' = [task EXCEPT ![t] = q]
      /\ keyLock' = keyLock /\ keyKnown' = keyKnown /\ UNCHANGED <<org, serials>>
  BY <1>1 DEF Submit, At, key
<1>3. q \in Tasks /\ q.at = "lock" /\ q.batch = b
      /\ q.packets = p.packets /\ q.done = p.done /\ q.answer = p.answer
  BY <1>1 DEF Tasks, Places
<1>4. p.packets = <<>> /\ p.done = <<>> /\ p.answer = <<>>
  BY <1>1, <1>2 DEF TaskOK, Form, Fresh
<1>5. \A u \in Uids : u[1] = t => org[u].status = "unknown"
  BY <1>2, NothingKnown
<1>6. TaskOK(t, q, org)
  <2> HIDE DEF q
  <2> QED
    BY <1>3, <1>4, <1>5, StartOK DEF Early
<1>7. CallOK(q, call[t])
  BY <1>2, NoCall
<1>8. keyKnown' \in BOOLEAN /\ keyLock' \in Task \cup {Nobody}
      /\ (\A s \in Task : s # t => ((keyLock' = s) <=> (keyLock = s)))
      /\ ((keyLock' = t) <=> (q.at = "key"))
  BY <1>2, <1>3, Locals
<1> HIDE DEF q
<1> QED
  BY <1>2, <1>3, <1>4, <1>6, <1>7, <1>8, QuietStep

\* _get_server_key: the key is there, or the task takes the lock to fetch it.
LEMMA KeepsLockServerKey ==
  ASSUME PipelineInv, NEW t \in Task, LockServerKey(t)
  PROVE  PipelineInv'
<1> DEFINE p == task[t]
<1>1. p \in Tasks /\ task \in [Task -> Tasks] /\ TaskOK(t, p, org)
  BY Locals
<1>2. p.at = "lock" /\ keyLock = Nobody /\ keyKnown' = keyKnown /\ UNCHANGED <<org, serials>>
  BY DEF LockServerKey, At
<1>3. p.batch \in Batches /\ p.packets = <<>> /\ p.done = <<>> /\ p.answer = <<>>
  BY <1>1, <1>2 DEF TaskOK, Form, Making
<1>4. \A u \in Uids : u[1] = t => org[u].status = "unknown"
  BY <1>2, NothingKnown
<1>5. \A r : CallOK(r, call[t])
  BY <1>2, NoCall
<1>6. keyKnown \in BOOLEAN /\ Nobody \notin Task
  BY Locals, PipelineAssumption
<1>7. CASE keyKnown
  <2> DEFINE q == [p EXCEPT !.at = "build"]
  <2>1. task' = [task EXCEPT ![t] = q] /\ keyLock' = keyLock
    BY <1>1, <1>7 DEF LockServerKey
  <2>2. q \in Tasks /\ q.at = "build" /\ q.batch = p.batch
        /\ q.packets = p.packets /\ q.done = p.done /\ q.answer = p.answer
    BY <1>1 DEF Tasks, Places
  <2>3. TaskOK(t, q, org)
    <3> HIDE DEF q
    <3> QED
      BY <1>3, <1>4, <2>2, StartOK DEF Early
  <2>4. keyKnown' \in BOOLEAN /\ keyLock' \in Task \cup {Nobody}
        /\ (\A s \in Task : s # t => ((keyLock' = s) <=> (keyLock = s)))
        /\ ((keyLock' = t) <=> (q.at = "key"))
    BY <1>2, <1>6, <2>1, <2>2
  <2> HIDE DEF q
  <2> QED
    BY <1>2, <1>3, <1>5, <2>1, <2>2, <2>3, <2>4, QuietStep
<1>8. CASE ~ keyKnown
  <2> DEFINE q == [p EXCEPT !.at = "key", !.http = "out"]
  <2>1. task' = [task EXCEPT ![t] = q] /\ keyLock' = t
    BY <1>1, <1>8 DEF LockServerKey
  <2>2. q \in Tasks /\ q.at = "key" /\ q.batch = p.batch
        /\ q.packets = p.packets /\ q.done = p.done /\ q.answer = p.answer
    BY <1>1 DEF Tasks, Places
  <2>3. TaskOK(t, q, org)
    <3> HIDE DEF q
    <3> QED
      BY <1>3, <1>4, <2>2, StartOK DEF Early
  <2>4. keyKnown' \in BOOLEAN /\ keyLock' \in Task \cup {Nobody}
        /\ (\A s \in Task : s # t => ((keyLock' = s) <=> (keyLock = s)))
        /\ ((keyLock' = t) <=> (q.at = "key"))
    BY <1>2, <1>6, <2>1, <2>2
  <2> HIDE DEF q
  <2> QED
    BY <1>2, <1>3, <1>5, <2>1, <2>2, <2>3, <2>4, QuietStep
<1> QED
  BY <1>7, <1>8

\* The request for the server key is answered.
LEMMA KeepsSendServerKey ==
  ASSUME PipelineInv, NEW t \in Task, SendServerKey(t)
  PROVE  PipelineInv'
<1> DEFINE p == task[t]
           q == [p EXCEPT !.http = "back", !.answer = <<>>]
<1>1. p \in Tasks /\ task \in [Task -> Tasks] /\ TaskOK(t, p, org)
  BY Locals
<1>2. p.at = "key" /\ task' = [task EXCEPT ![t] = q]
      /\ keyLock' = keyLock /\ keyKnown' = keyKnown /\ UNCHANGED <<org, serials>>
  BY <1>1 DEF SendServerKey, Serve, At, key
<1>3. q \in Tasks /\ q.at = p.at /\ q.batch = p.batch
      /\ q.packets = p.packets /\ q.done = p.done /\ q.answer = <<>>
  <2>1. <<>> \in Seq(Uids) \cup Seq(Results)
    OBVIOUS
  <2> QED
    BY <1>1, <2>1 DEF Tasks, Places
<1>4. p.packets = <<>> /\ p.done = <<>> /\ p.batch \in Batches
  BY <1>1, <1>2 DEF TaskOK, Form, Making
<1>5. \A u \in Uids : u[1] = t => org[u].status = "unknown"
  BY <1>2, NothingKnown
<1>6. TaskOK(t, q, org)
  <2> HIDE DEF q
  <2> QED
    BY <1>2, <1>3, <1>4, <1>5, StartOK DEF Early
<1>7. CallOK(q, call[t])
  BY <1>2, NoCall
<1>8. keyKnown' \in BOOLEAN /\ keyLock' \in Task \cup {Nobody}
      /\ (\A s \in Task : s # t => ((keyLock' = s) <=> (keyLock = s)))
      /\ ((keyLock' = t) <=> (q.at = "key"))
  BY <1>2, <1>3, Locals
<1> HIDE DEF q
<1> QED
  BY <1>2, <1>3, <1>4, <1>6, <1>7, <1>8, QuietStep

\* The key is cached and the lock released.
LEMMA KeepsGotServerKey ==
  ASSUME PipelineInv, NEW t \in Task, GotServerKey(t)
  PROVE  PipelineInv'
<1> DEFINE p == task[t]
           q == [p EXCEPT !.at = "build", !.http = "none"]
<1>1. p \in Tasks /\ task \in [Task -> Tasks] /\ TaskOK(t, p, org)
  BY Locals
<1>2. p.at = "key" /\ task' = [task EXCEPT ![t] = q]
      /\ keyLock' = Nobody /\ keyKnown' = TRUE /\ UNCHANGED <<org, serials>>
  BY <1>1 DEF GotServerKey, Answered, At
<1>3. q \in Tasks /\ q.at = "build" /\ q.batch = p.batch
      /\ q.packets = p.packets /\ q.done = p.done /\ q.answer = p.answer
  BY <1>1 DEF Tasks, Places
<1>4. p.packets = <<>> /\ p.done = <<>> /\ p.answer = <<>> /\ p.batch \in Batches
  BY <1>1, <1>2 DEF TaskOK, Form, Making
<1>5. \A u \in Uids : u[1] = t => org[u].status = "unknown"
  BY <1>2, NothingKnown
<1>6. TaskOK(t, q, org)
  <2> HIDE DEF q
  <2> QED
    BY <1>3, <1>4, <1>5, StartOK DEF Early
<1>7. CallOK(q, call[t])
  BY <1>2, NoCall
<1>8. keyKnown' \in BOOLEAN /\ keyLock' \in Task \cup {Nobody}
      /\ (\A s \in Task : s # t => ((keyLock' = s) <=> (keyLock = s)))
      /\ ((keyLock' = t) <=> (q.at = "key"))
  <2>1. keyLock = t /\ Nobody \notin Task
    BY <1>2, Locals, PipelineAssumption
  <2> QED
    BY <1>2, <1>3, <2>1
<1> HIDE DEF q
<1> QED
  BY <1>2, <1>3, <1>4, <1>6, <1>7, <1>8, QuietStep

(***************************************************************************)
(* Building a chunk.                                                       *)
(***************************************************************************)
\* The invoice a task builds next, in terms of its record.
LEMMA BuildWords ==
  ASSUME PipelineInv, NEW t \in Task
  PROVE  /\ Current(t) = BuiltTo(task[t]) + 1 /\ ChunkEnd(t) = ChunkTo(task[t])
         /\ Invoice(t) = task[t].batch[BuiltTo(task[t]) + 1]
BY DEF Current, ChunkEnd, Invoice, BuiltTo, ChunkTo

\* rules.validate raises.
LEMMA KeepsRefuse ==
  ASSUME PipelineInv, NEW t \in Task, Refuse(t)
  PROVE  PipelineInv'
<1> DEFINE q == Raised(t)
<1>1. task[t].at = "build" /\ call[t] = Source!Idle /\ task' = [task EXCEPT ![t] = q]
      /\ keyLock' = keyLock /\ keyKnown' = keyKnown /\ UNCHANGED <<org, serials>>
  BY DEF Refuse, Validating, Building, At, key
<1>2. q \in Tasks /\ q.at = "failed" /\ q.packets = <<>> /\ TaskOK(t, q, org)
  BY <1>1, RaisedOK
<1>3. CallOK(q, call[t])
  BY <1>1 DEF CallOK
<1> HIDE DEF q
<1>4. keyKnown' \in BOOLEAN /\ keyLock' \in Task \cup {Nobody}
      /\ (\A s \in Task : s # t => ((keyLock' = s) <=> (keyLock = s)))
      /\ ((keyLock' = t) <=> (q.at = "key"))
  BY <1>1, <1>2, Locals
<1> QED
  BY <1>1, <1>2, <1>3, <1>4, QuietStep

\* A packet is added for the next invoice of the chunk.
LEMMA AppendOK ==
  ASSUME NEW t \in Task, NEW p \in Tasks, NEW tax \in TaxIds, NEW o, TaskOK(t, p, o),
         p.at = "build", BuiltTo(p) + 1 <= ChunkTo(p), p.batch[BuiltTo(p) + 1].valid,
         NEW q, q = [p EXCEPT !.packets = Append(p.packets, tax)]
  PROVE  /\ q \in Tasks /\ q.at = "build" /\ TaskOK(t, q, o)
         /\ \A u, n : Makes(q, u, n) => Makes(p, u, n) \/ (u[2] = BuiltTo(p) + 1 /\ n = tax)
<1>1. /\ Append(p.packets, tax) \in Seq(TaxIds)
      /\ Len(Append(p.packets, tax)) = Len(p.packets) + 1
      /\ \A i \in 1 .. Len(p.packets) : Append(p.packets, tax)[i] = p.packets[i]
      /\ Append(p.packets, tax)[Len(p.packets) + 1] = tax
  BY Fields
<1> DEFINE d == Len(p.done)
           m == Len(p.packets)
<1>10. d \in Nat /\ m \in Nat
  BY Fields
<1>11. BuiltTo(p) = d + m
  BY DEF BuiltTo
<1>2. /\ q \in Tasks /\ q.packets = Append(p.packets, tax) /\ q.at = p.at /\ q.http = p.http
      /\ q.batch = p.batch /\ q.done = p.done /\ q.answer = p.answer
  BY <1>1 DEF Tasks
<1>3. BuiltTo(q) = BuiltTo(p) + 1 /\ ChunkTo(q) = ChunkTo(p) /\ KnownTo(q) = KnownTo(p)
  <2>1. BuiltTo(p) = d + m /\ Len(q.done) = d /\ Len(q.packets) = m + 1
    BY <1>1, <1>2 DEF BuiltTo
  <2>2. BuiltTo(q) = d + (m + 1)
    BY <2>1 DEF BuiltTo
  <2>3. ChunkTo(q) = ChunkTo(p) /\ KnownTo(q) = KnownTo(p)
    BY <1>2 DEF ChunkTo, KnownTo
  <2> HIDE DEF d, m
  <2> QED
    BY <1>10, <2>1, <2>2, <2>3
<1>4. Form(q)
  BY <1>2 DEF TaskOK, Form, Making
<1>5. ChunkOK(q)
  <2>1. \A j \in Len(q.done) + 1 .. BuiltTo(q) : q.batch[j].valid
    <3>0. Len(q.done) = d
      BY <1>2
    <3>1. BuiltTo(p) \in Nat
      <4> HIDE DEF d, m
      <4> QED
        BY <1>10, <1>11
    <3>2. \A j \in Len(q.done) + 1 .. BuiltTo(q) : j \in d + 1 .. BuiltTo(p) \/ j = BuiltTo(p) + 1
      <4> HIDE DEF d, m
      <4> QED
        BY <1>3, <1>10, <3>0, <3>1
    <3>3. \A j \in d + 1 .. BuiltTo(p) : p.batch[j].valid
      BY DEF TaskOK, ChunkOK, Making
    <3> QED
      BY <1>2, <3>2, <3>3
  <2>2. /\ \E k \in 0 .. Len(p.done) : Len(p.done) = k * MaxPackets
        /\ Len(p.done) < Len(p.batch)
    BY DEF TaskOK, ChunkOK, Making
  <2>3. BuiltTo(q) <= ChunkTo(q) /\ q.at # "post"
    BY <1>2, <1>3
  <2> QED
    BY <1>2, <2>1, <2>2, <2>3 DEF ChunkOK
<1>6. KnownOK(t, q, o)
  BY <1>2, <1>3 DEF TaskOK, KnownOK
<1>7. OwnOK(t, q, o)
  BY <1>2 DEF TaskOK, OwnOK
<1>8. PollOK(q, o)
  BY <1>2 DEF PollOK
<1>9. ASSUME NEW u, NEW n, Makes(q, u, n)
      PROVE  Makes(p, u, n) \/ (u[2] = BuiltTo(p) + 1 /\ n = tax)
  <2> DEFINE i == u[2]
  <2>1. i \in d + 1 .. BuiltTo(p) + 1 /\ Append(p.packets, tax)[i - d] = n
    BY <1>2, <1>3, <1>9 DEF Makes
  <2>3. CASE i = BuiltTo(p) + 1
    <3>1. i - d = m + 1
      <4> HIDE DEF d, m, i
      <4> QED
        BY <1>10, <1>11, <2>3
    <3> QED
      BY <1>1, <2>1, <2>3, <3>1
  <2>4. CASE i # BuiltTo(p) + 1
    <3>1. i \in d + 1 .. BuiltTo(p) /\ i - d \in 1 .. m
      <4> HIDE DEF d, m, i
      <4> QED
        BY <1>10, <1>11, <2>1, <2>4
    <3> QED
      BY <1>1, <2>1, <3>1 DEF Makes
  <2> QED
    BY <2>3, <2>4
<1> QED
  BY <1>2, <1>4, <1>5, <1>6, <1>7, <1>8, <1>9 DEF TaskOK

\* _with_identity: an invoice with a tax id of its own gets no serial.
LEMMA KeepsKeepTaxId ==
  ASSUME PipelineInv, NEW t \in Task, KeepTaxId(t)
  PROVE  PipelineInv'
<1> DEFINE p == task[t]
           q == [p EXCEPT !.packets = Append(p.packets, Given)]
<1>1. p \in Tasks /\ task \in [Task -> Tasks] /\ TaskOK(t, p, org) /\ call \in [Task -> Calls]
      /\ org \in [Uids -> Entries] /\ issued \in [1 .. MaxSerial -> Nat]
  BY Locals
<1>2. task' = [task EXCEPT ![t] = q]
      /\ keyLock' = keyLock /\ keyKnown' = keyKnown
      /\ org' = org /\ call' = call /\ issued' = issued
  BY <1>1 DEF KeepTaxId, AddPacket, key, serials
<1>3. p.at = "build" /\ call[t] = Source!Idle
      /\ BuiltTo(p) + 1 <= ChunkTo(p) /\ p.batch[BuiltTo(p) + 1].valid
  BY BuildWords DEF KeepTaxId, Validating, Building, At
<1>4. Given \in TaxIds
  BY PipelineAssumption DEF Given, TaxIds
<1>5. /\ q \in Tasks /\ q.at = "build" /\ TaskOK(t, q, org)
      /\ \A u, n : Makes(q, u, n) => Makes(p, u, n) \/ (u[2] = BuiltTo(p) + 1 /\ n = Given)
  <2> HIDE DEF p
  <2> QED
    BY <1>1, <1>3, <1>4, AppendOK
<1> HIDE DEF q
<1>6. SerialsOK'
  <2>1. ASSUME NEW u \in Uids, NEW n \in 1 .. MaxSerial, Makes(task'[u[1]], u, n)
        PROVE  Makes(task[u[1]], u, n)
    <3>1. n # Given
      BY PipelineAssumption DEF Given
    <3>2. u[1] \in Task
      BY UidForm
    <3>3. CASE u[1] = t
      BY <1>1, <1>2, <1>5, <2>1, <3>1, <3>3
    <3>4. CASE u[1] # t
      BY <1>1, <1>2, <2>1, <3>2, <3>4
    <3> QED
      BY <3>3, <3>4
  <2>2. \A u \in Uids, n \in 1 .. MaxSerial :
          org'[u].tax = n \/ Makes(task'[u[1]], u, n) => Carries(u, n)
    BY <1>2, <2>1 DEF Carries
  <2>3. SerialsOK
    BY DEF PipelineInv
  <2> QED
    BY <1>2, <2>2, <2>3, SerialsKept
<1>7. CallOK(q, call'[t]) /\ TaskOK(t, q, org')
  BY <1>2, <1>3, <1>5 DEF CallOK
<1>8. keyKnown' \in BOOLEAN /\ keyLock' \in Task \cup {Nobody}
      /\ (\A s \in Task : s # t => ((keyLock' = s) <=> (keyLock = s)))
      /\ ((keyLock' = t) <=> (q.at = "key"))
  BY <1>2, <1>3, <1>5, Locals
<1>9. org' \in [Uids -> Entries] /\ call' \in [Task -> Calls] /\ issued' \in [1 .. MaxSerial -> Nat]
      /\ (\A u \in Uids : u[1] # t => org'[u] = org[u])
      /\ (\A s \in Task : s # t => call'[s] = call[s])
  BY <1>1, <1>2
<1> QED
  BY <1>2, <1>5, <1>6, <1>7, <1>8, <1>9, TaskStep

\* A step of the serial source that adds no packet.
LEMMA SourceStep ==
  ASSUME PipelineInv, NEW t \in Task, NEW c \in Calls,
         call' = [call EXCEPT ![t] = c], UNCHANGED <<task, key, org, issued>>,
         CallOK(task[t], c),
         c.at = "granted" =>
           /\ c.n \in 1 .. MaxSerial /\ issued[c.n] = 0
           /\ \A d \in Task : call[d].at = "granted" => call[d].n # c.n
  PROVE  PipelineInv'
<1> DEFINE p == task[t]
<1>1. p \in Tasks /\ task \in [Task -> Tasks] /\ TaskOK(t, p, org) /\ call \in [Task -> Calls]
      /\ org \in [Uids -> Entries] /\ issued \in [1 .. MaxSerial -> Nat]
      /\ keyKnown \in BOOLEAN /\ keyLock \in Task \cup {Nobody}
      /\ ((keyLock = t) <=> (p.at = "key"))
  BY Locals
<1>2. task' = task /\ org' = org /\ issued' = issued /\ keyKnown' = keyKnown /\ keyLock' = keyLock
  BY DEF key
<1>3. call'[t] = c /\ (\A s \in Task : s # t => call'[s] = call[s]) /\ call' \in [Task -> Calls]
  BY <1>1
<1>4. SerialsOK'
  <2>1. /\ \A u, v \in Uids, n \in 1 .. MaxSerial : Carries(u, n)' /\ Carries(v, n)' => u = v
        /\ \A u \in Uids, n \in 1 .. MaxSerial : Carries(u, n)' => issued'[n] > 0
    BY <1>2 DEF PipelineInv, SerialsOK, Carries
  <2>2. ASSUME NEW s \in Task, call'[s].at = "granted"
        PROVE  /\ call'[s].n \in 1 .. MaxSerial /\ issued'[call'[s].n] = 0
               /\ \A d \in Task : call'[d].at = "granted" /\ call'[d].n = call'[s].n => d = s
    <3>1. \A d \in Task : call[d].at = "granted" =>
            /\ call[d].n \in 1 .. MaxSerial /\ issued[call[d].n] = 0
            /\ \A e \in Task : call[e].at = "granted" /\ call[e].n = call[d].n => e = d
      BY DEF PipelineInv, SerialsOK
    <3>2. CASE s = t
      BY <1>2, <1>3, <2>2, <3>2
    <3>3. CASE s # t
      BY <1>2, <1>3, <2>2, <3>1, <3>3
    <3> QED
      BY <3>2, <3>3
  <2> QED
    BY <2>1, <2>2 DEF SerialsOK
<1>5. task' = [task EXCEPT ![t] = p]
  BY <1>1, <1>2
<1>6. TaskOK(t, p, org') /\ CallOK(p, call'[t])
  BY <1>1, <1>2, <1>3
<1>7. org' \in [Uids -> Entries] /\ issued' \in [1 .. MaxSerial -> Nat]
      /\ keyKnown' \in BOOLEAN /\ keyLock' \in Task \cup {Nobody}
      /\ (\A s \in Task : s # t => ((keyLock' = s) <=> (keyLock = s)))
      /\ ((keyLock' = t) <=> (p.at = "key"))
      /\ (\A u \in Uids : u[1] # t => org'[u] = org[u])
  BY <1>1, <1>2
<1> HIDE DEF p
<1> QED
  BY <1>1, <1>3, <1>4, <1>5, <1>6, <1>7, TaskStep

\* _with_identity: the source is asked for a serial.
LEMMA KeepsDraw ==
  ASSUME PipelineInv, NEW t \in Task, Draw(t)
  PROVE  PipelineInv'
<1> DEFINE c == Source!Asked
<1>1. call' = [call EXCEPT ![t] = c] /\ UNCHANGED <<task, key, org, issued>>
  BY DEF Draw, Source!Ask
<1>2. c \in Calls /\ c.at # "granted"
  BY SourceWords, PipelineAssumption DEF Calls, TaxIds
<1>3. CallOK(task[t], c)
  BY BuildWords DEF Draw, Validating, Building, At, CallOK
<1> HIDE DEF c
<1> QED
  BY <1>1, <1>2, <1>3, SourceStep

\* The source commits a serial: none of those on a packet.
LEMMA KeepsDrawGranted ==
  ASSUME PipelineInv, NEW t \in Task, DrawGranted(t)
  PROVE  PipelineInv'
<1>1. call \in [Task -> Calls] /\ issued \in [1 .. MaxSerial -> Nat] /\ CallOK(task[t], call[t])
  BY Locals
<1>2. PICK s \in 1 .. MaxSerial :
        /\ \A n \in 1 .. MaxSerial : issued[n] > 0 => n < s
        /\ \A d \in Task : call[d].at = "granted" => call[d].n < s
        /\ call' = [call EXCEPT ![t] = Source!Granted(s)]
  BY SourceWords DEF DrawGranted, Source!Grant
<1>3. call[t] = Source!Asked /\ UNCHANGED <<task, key, org, issued>>
  BY DEF DrawGranted, Source!Grant
<1> DEFINE c == Source!Granted(s)
<1>4. c = [at |-> "granted", n |-> s]
  BY SourceWords
<1>5. c \in Calls /\ c.n = s
  BY <1>4, PipelineAssumption DEF Calls, TaxIds
<1>6. CallOK(task[t], c)
  <2>1. call[t] # Source!Idle
    BY <1>3, SourceWords
  <2> QED
    BY <1>1, <2>1 DEF CallOK
<1>7. issued[s] = 0 /\ \A d \in Task : call[d].at = "granted" => call[d].n # s
  <2>1. issued[s] \in Nat /\ ~ (issued[s] > 0)
    BY <1>1, <1>2, PipelineAssumption
  <2> QED
    BY <1>2, <2>1, PipelineAssumption
<1> HIDE DEF c
<1> QED
  BY <1>2, <1>3, <1>5, <1>6, <1>7, SourceStep DEF c

\* The serial is delivered and goes onto the packet of the invoice it was drawn for.
LEMMA KeepsDrawDelivered ==
  ASSUME PipelineInv, NEW t \in Task, DrawDelivered(t)
  PROVE  PipelineInv'
<1> DEFINE p == task[t]
           n0 == call[t].n
           q == [p EXCEPT !.packets = Append(p.packets, n0)]
           last == BuiltTo(p) + 1
<1>1. p \in Tasks /\ task \in [Task -> Tasks] /\ TaskOK(t, p, org) /\ call \in [Task -> Calls]
      /\ org \in [Uids -> Entries] /\ issued \in [1 .. MaxSerial -> Nat] /\ CallOK(p, call[t])
  BY Locals
<1>2. /\ task' = [task EXCEPT ![t] = q] /\ keyLock' = keyLock /\ keyKnown' = keyKnown
      /\ org' = org /\ call' = [call EXCEPT ![t] = Source!Idle]
      /\ issued' = [issued EXCEPT ![n0] = @ + 1] /\ call[t].at = "granted"
  BY <1>1 DEF DrawDelivered, AddPacket, Source!Deliver, key
<1>3. p.at = "build" /\ last <= ChunkTo(p) /\ p.batch[last].valid
  <2>1. call[t] # Source!Idle
    BY <1>2, SourceWords
  <2> QED
    BY <1>1, <2>1 DEF CallOK
<1>4. n0 \in 1 .. MaxSerial /\ issued[n0] = 0
      /\ \A d \in Task : call[d].at = "granted" /\ call[d].n = n0 => d = t
  BY <1>2 DEF PipelineInv, SerialsOK
<1>5. n0 \in TaxIds
  BY <1>4, PipelineAssumption DEF TaxIds
<1>6. /\ q \in Tasks /\ q.at = "build" /\ TaskOK(t, q, org)
      /\ \A u, n : Makes(q, u, n) => Makes(p, u, n) \/ (u[2] = last /\ n = n0)
  <2> HIDE DEF p, n0
  <2> QED
    BY <1>1, <1>3, <1>5, AppendOK
<1> HIDE DEF q, n0, last
<1>7. issued' \in [1 .. MaxSerial -> Nat] /\ issued'[n0] = 1
      /\ \A n \in 1 .. MaxSerial : n # n0 => issued'[n] = issued[n]
  BY <1>1, <1>2, <1>4
<1>8. call'[t] = Source!Idle /\ (\A s \in Task : s # t => call'[s] = call[s])
      /\ call' \in [Task -> Calls]
  <2>1. Source!Idle \in Calls
    BY SourceWords, PipelineAssumption DEF Calls, TaxIds
  <2> QED
    BY <1>1, <1>2, <2>1
<1>9. SerialsOK'
  <2>1. ASSUME NEW u \in Uids, NEW n \in 1 .. MaxSerial, Carries(u, n)'
        PROVE  Carries(u, n) \/ (u = <<t, last>> /\ n = n0)
    <3>1. org'[u].tax = n \/ Makes(task'[u[1]], u, n)
      BY <2>1 DEF Carries
    <3>2. CASE org'[u].tax = n
      BY <1>2, <3>2 DEF Carries
    <3>3. CASE Makes(task'[u[1]], u, n) /\ u[1] # t
      <4>1. task'[u[1]] = task[u[1]]
        BY <1>1, <1>2, <3>3, UidForm
      <4> QED
        BY <3>3, <4>1 DEF Carries
    <3>4. CASE Makes(task'[u[1]], u, n) /\ u[1] = t
      <4>1. Makes(q, u, n)
        BY <1>1, <1>2, <3>4
      <4>2. CASE Makes(p, u, n)
        BY <3>4, <4>2 DEF Carries
      <4>3. CASE u[2] = last /\ n = n0
        BY <3>4, <4>3, UidForm
      <4> QED
        BY <1>6, <4>1, <4>2, <4>3
    <3> QED
      BY <3>1, <3>2, <3>3, <3>4
  <2>2. /\ \A u, v \in Uids, n \in 1 .. MaxSerial : Carries(u, n) /\ Carries(v, n) => u = v
        /\ \A u \in Uids, n \in 1 .. MaxSerial : Carries(u, n) => issued[n] > 0
    BY DEF PipelineInv, SerialsOK
  <2>3. \A u \in Uids : ~ Carries(u, n0)
    BY <1>4, <2>2
  <2>4. \A u, v \in Uids, n \in 1 .. MaxSerial : Carries(u, n)' /\ Carries(v, n)' => u = v
    <3> SUFFICES ASSUME NEW u \in Uids, NEW v \in Uids, NEW n \in 1 .. MaxSerial,
                        Carries(u, n)', Carries(v, n)'
                 PROVE  u = v
      OBVIOUS
    <3>1. /\ Carries(u, n) \/ (u = <<t, last>> /\ n = n0)
          /\ Carries(v, n) \/ (v = <<t, last>> /\ n = n0)
      BY <2>1
    <3> HIDE DEF Carries
    <3> QED
      BY <2>2, <2>3, <3>1
  <2>5. ASSUME NEW u \in Uids, NEW n \in 1 .. MaxSerial, Carries(u, n)' PROVE issued'[n] > 0
    <3>1. CASE n = n0
      BY <1>7, <3>1
    <3>2. CASE n # n0
      <4>1. Carries(u, n)
        BY <2>1, <2>5, <3>2
      <4>2. issued[n] > 0
        BY <2>2, <4>1
      <4> QED
        BY <1>7, <3>2, <4>2
    <3> QED
      BY <3>1, <3>2
  <2>6. ASSUME NEW s \in Task, call'[s].at = "granted"
        PROVE  /\ call'[s].n \in 1 .. MaxSerial /\ issued'[call'[s].n] = 0
               /\ \A d \in Task : call'[d].at = "granted" /\ call'[d].n = call'[s].n => d = s
    <3>1. Source!Idle.at # "granted"
      BY SourceWords
    <3>2. s # t /\ call'[s] = call[s]
      BY <1>8, <2>6, <3>1
    <3>3. call[s].n \in 1 .. MaxSerial /\ issued[call[s].n] = 0
          /\ \A d \in Task : call[d].at = "granted" /\ call[d].n = call[s].n => d = s
      BY <2>6, <3>2 DEF PipelineInv, SerialsOK
    <3>4. call[s].n # n0
      BY <1>4, <2>6, <3>2
    <3>5. \A d \in Task : call'[d].at = "granted" => d # t /\ call'[d] = call[d]
      BY <1>8, <3>1
    <3>6. issued'[call[s].n] = 0
      BY <1>7, <3>3, <3>4
    <3> QED
      BY <3>2, <3>3, <3>5, <3>6
  <2> QED
    BY <2>4, <2>5, <2>6 DEF SerialsOK
<1>10. CallOK(q, call'[t]) /\ TaskOK(t, q, org')
  BY <1>2, <1>6, <1>8 DEF CallOK
<1>11. keyKnown' \in BOOLEAN /\ keyLock' \in Task \cup {Nobody}
      /\ (\A s \in Task : s # t => ((keyLock' = s) <=> (keyLock = s)))
      /\ ((keyLock' = t) <=> (q.at = "key"))
  BY <1>2, <1>3, <1>6, Locals
<1>12. org' \in [Uids -> Entries] /\ (\A u \in Uids : u[1] # t => org'[u] = org[u])
  BY <1>1, <1>2
<1> QED
  BY <1>2, <1>6, <1>7, <1>8, <1>9, <1>10, <1>11, <1>12, TaskStep

\* The source raises.
LEMMA KeepsDrawFails ==
  ASSUME PipelineInv, NEW t \in Task, DrawFails(t)
  PROVE  PipelineInv'
<1> DEFINE q == Raised(t)
<1>1. task \in [Task -> Tasks] /\ call \in [Task -> Calls]
      /\ org \in [Uids -> Entries] /\ issued \in [1 .. MaxSerial -> Nat] /\ CallOK(task[t], call[t])
  BY Locals
<1>2. /\ call[t] # Source!Idle /\ task' = [task EXCEPT ![t] = q]
      /\ call' = [c \in Task |-> IF c \in {t} THEN Source!Idle ELSE call[c]]
      /\ keyLock' = keyLock /\ keyKnown' = keyKnown /\ org' = org /\ issued' = issued
  BY DEF DrawFails, Source!GiveUp, key
<1>3. task[t].at = "build"
  BY <1>1, <1>2 DEF CallOK
<1>4. q \in Tasks /\ q.at = "failed" /\ q.packets = <<>> /\ TaskOK(t, q, org)
  BY <1>3, RaisedOK
<1> HIDE DEF q
<1>5. call'[t] = Source!Idle /\ (\A s \in Task : s # t => call'[s] = call[s])
      /\ call' \in [Task -> Calls] /\ Source!Idle.at # "granted"
  <2>1. Source!Idle \in Calls /\ Source!Idle.at = "idle"
    BY SourceWords, PipelineAssumption DEF Calls, TaxIds
  <2> QED
    BY <1>1, <1>2, <2>1
<1>6. SerialsOK'
  <2>1. ASSUME NEW u \in Uids, NEW n \in 1 .. MaxSerial, Makes(task'[u[1]], u, n)
        PROVE  Makes(task[u[1]], u, n)
    <3>1. u[1] \in Task
      BY UidForm
    <3>2. u[1] # t
      <4>1. Len(q.packets) = 0 /\ Len(q.done) \in Nat
        BY <1>4, Fields
      <4>2. BuiltTo(q) = Len(q.done)
        BY <4>1 DEF BuiltTo
      <4>3. ~ Makes(q, u, n)
        BY <4>1, <4>2 DEF Makes
      <4> QED
        BY <1>1, <1>2, <2>1, <4>3
    <3> QED
      BY <1>1, <1>2, <2>1, <3>1, <3>2
  <2>2. \A u \in Uids, n \in 1 .. MaxSerial :
          org'[u].tax = n \/ Makes(task'[u[1]], u, n) => Carries(u, n)
    BY <1>2, <2>1 DEF Carries
  <2>3. SerialsOK
    BY DEF PipelineInv
  <2>4. \A s \in Task : call'[s].at = "granted" => call[s].at = "granted" /\ call'[s].n = call[s].n
    BY <1>5
  <2> QED
    BY <1>2, <2>2, <2>3, <2>4, SerialsKept
<1>7. CallOK(q, call'[t]) /\ TaskOK(t, q, org')
  BY <1>2, <1>4, <1>5 DEF CallOK
<1>8. keyKnown' \in BOOLEAN /\ keyLock' \in Task \cup {Nobody}
      /\ (\A s \in Task : s # t => ((keyLock' = s) <=> (keyLock = s)))
      /\ ((keyLock' = t) <=> (q.at = "key"))
  BY <1>2, <1>3, <1>4, Locals
<1>9. org' \in [Uids -> Entries] /\ issued' \in [1 .. MaxSerial -> Nat]
      /\ (\A u \in Uids : u[1] # t => org'[u] = org[u])
  BY <1>1, <1>2
<1> QED
  BY <1>2, <1>4, <1>5, <1>6, <1>7, <1>8, <1>9, TaskStep

\* The chunk is complete and goes out.
LEMMA KeepsBuilt ==
  ASSUME PipelineInv, NEW t \in Task, Built(t)
  PROVE  PipelineInv'
<1> DEFINE p == task[t]
           q == [p EXCEPT !.at = "post", !.http = "out"]
<1>1. p \in Tasks /\ task \in [Task -> Tasks] /\ TaskOK(t, p, org)
  BY Locals
<1>2. p.at = "build" /\ task' = [task EXCEPT ![t] = q] /\ call[t] = Source!Idle
      /\ BuiltTo(p) + 1 > ChunkTo(p)
      /\ keyLock' = keyLock /\ keyKnown' = keyKnown /\ UNCHANGED <<org, serials>>
  BY <1>1, BuildWords DEF Built, Building, At, key
<1>3. q \in Tasks /\ q.at = "post" /\ q.http = "out" /\ q.batch = p.batch
      /\ q.packets = p.packets /\ q.done = p.done /\ q.answer = p.answer
  BY <1>1 DEF Tasks, Places
<1> HIDE DEF q
<1>4. BuiltTo(q) = BuiltTo(p) /\ ChunkTo(q) = ChunkTo(p) /\ KnownTo(q) = Len(p.done)
      /\ KnownTo(p) = Len(p.done)
  BY <1>2, <1>3 DEF BuiltTo, ChunkTo, KnownTo
<1>5. p.answer = <<>> /\ p.batch \in Batches
  BY <1>1, <1>2 DEF TaskOK, Form
<1>6. Form(q)
  <2>1. <<>> \in Seq(Uids)
    OBVIOUS
  <2> QED
    BY <1>3, <1>5, <2>1 DEF Form, Making
<1>7. ChunkOK(q)
  <2>1. BuiltTo(p) <= ChunkTo(p)
    BY <1>1, <1>2 DEF TaskOK, ChunkOK, Making
  <2>2. BuiltTo(p) \in Int /\ ChunkTo(p) \in Int
    <3>1. Len(p.done) \in Nat /\ Len(p.packets) \in Nat /\ Len(p.batch) \in Nat
      BY <1>1, Fields
    <3> QED
      BY <3>1, PipelineAssumption DEF BuiltTo, ChunkTo, Least
  <2>3. BuiltTo(p) = ChunkTo(p)
    BY <1>2, <2>1, <2>2
  <2> QED
    BY <1>1, <1>2, <1>3, <1>4, <2>1, <2>3 DEF TaskOK, ChunkOK, Making
<1>8. KnownOK(t, q, org)
  BY <1>1, <1>2, <1>3, <1>4 DEF TaskOK, KnownOK
<1>9. OwnOK(t, q, org)
  <2>1. DOMAIN q.answer = {}
    BY <1>3, <1>5
  <2> QED
    BY <1>1, <1>3, <2>1 DEF TaskOK, OwnOK
<1>10. PollOK(q, org)
  BY <1>3 DEF PollOK
<1>11. TaskOK(t, q, org) /\ CallOK(q, call[t])
  BY <1>2, <1>6, <1>7, <1>8, <1>9, <1>10 DEF TaskOK, CallOK
<1>12. keyKnown' \in BOOLEAN /\ keyLock' \in Task \cup {Nobody}
      /\ (\A s \in Task : s # t => ((keyLock' = s) <=> (keyLock = s)))
      /\ ((keyLock' = t) <=> (q.at = "key"))
  BY <1>2, <1>3, Locals
<1> QED
  BY <1>2, <1>3, <1>11, <1>12, QuietStep

(***************************************************************************)
(* Sending a chunk.                                                        *)
(***************************************************************************)
\* The chunk of an invoice begins after the largest multiple of MaxPackets below its position.
LEMMA ChunkStart ==
  ASSUME NEW M \in Nat \ {0}, NEW k \in Nat, NEW i \in k * M + 1 .. k * M + M
  PROVE  ((i - 1) \div M) * M = k * M
<1> DEFINE x == (i - 1) \div M
           d == k * M
<1>1. d \in Nat /\ i - 1 \in Nat /\ d <= i - 1 /\ i - 1 < d + M
  OBVIOUS
<1>2. x \in Int /\ M * x <= i - 1 /\ i - 1 < M * x + M
  BY <1>1
<1>3. x = k
  <2>1. x < k + 1
    <3>1. ~ (x >= k + 1)
      <4>1. ASSUME x >= k + 1 PROVE M * x >= d + M
        BY <1>2, <4>1
      <4> QED
        BY <1>1, <1>2, <4>1
    <3> QED
      BY <1>2, <3>1
  <2>2. x > k - 1
    <3>1. ~ (x <= k - 1)
      <4>1. ASSUME x <= k - 1 PROVE M * x <= d - M
        BY <1>2, <4>1
      <4> QED
        BY <1>1, <1>2, <4>1
    <3> QED
      BY <1>2, <3>1
  <2> QED
    BY <1>2, <2>1, <2>2
<1> QED
  BY <1>3

\* The packets in flight are finitely many, at uids of the task, and were validated.
LEMMA InFlightIs ==
  ASSUME PipelineInv, NEW t \in Task, task[t].at = "post"
  PROVE  /\ IsFiniteSet(InFlight(t)) /\ InFlight(t) \subseteq Uids
         /\ \A u \in InFlight(t) :
              /\ u[1] = t /\ u[2] \in Len(task[t].done) + 1 .. BuiltTo(task[t])
              /\ u[2] \in DOMAIN task[t].batch
              /\ TaxOf(u) = task[t].packets[u[2] - Len(task[t].done)] /\ TaxOf(u) \in TaxIds
<1> DEFINE p == task[t]
           d == Len(p.done)
           m == Len(p.packets)
           b == Len(p.batch)
           top == BuiltTo(p)
<1>1. p \in Tasks /\ TaskOK(t, p, org)
  BY Locals
<1>2. d \in Nat /\ m \in Nat /\ b \in Nat /\ p.packets \in Seq(TaxIds) /\ p.batch \in Seq(Invoices)
  BY <1>1, Fields
<1>3. top = d + m /\ Current(t) = top + 1
  BY BuildWords DEF BuiltTo
<1>4. p.batch \in Batches
  BY <1>1 DEF TaskOK, Form
<1>5. top = ChunkTo(p)
  BY <1>1 DEF TaskOK, ChunkOK, Making
<1>6. top <= b
  <2>1. top = Least(d + MaxPackets, b)
    BY <1>5 DEF ChunkTo
  <2> HIDE DEF top, d, b
  <2> QED
    BY <1>2, <2>1, PipelineAssumption DEF Least
<1>7. Current(t) - 1 = top /\ top \in Nat
  <2> HIDE DEF top, d, m
  <2> QED
    BY <1>2, <1>3
<1>8. InFlight(t) = {<<t, i>> : i \in d + 1 .. top}
  BY <1>7 DEF InFlight
<1> HIDE DEF top, d, m
<1>9. \A i \in d + 1 .. top : i \in DOMAIN p.batch
  BY <1>2, <1>6, <1>7
<1>10. IsFiniteSet(InFlight(t))
  <2>1. IsFiniteSet({t}) /\ IsFiniteSet(d + 1 .. top)
    <3>1. d + 1 \in Int /\ top \in Int
      BY <1>2, <1>7
    <3> QED
      BY <3>1, FS_Singleton, FS_Interval
  <2>2. IsFiniteSet({t} \X (d + 1 .. top))
    BY <2>1, FS_Product
  <2>3. InFlight(t) \subseteq {t} \X (d + 1 .. top)
    BY <1>8
  <2> QED
    BY <2>2, <2>3, FS_Subset
<1>11. InFlight(t) \subseteq Uids
  BY <1>4, <1>8, <1>9, OwnUids
<1>12. ASSUME NEW u \in InFlight(t)
       PROVE  /\ u[1] = t /\ u[2] \in d + 1 .. top /\ u[2] \in DOMAIN p.batch
              /\ TaxOf(u) = p.packets[u[2] - d] /\ TaxOf(u) \in TaxIds
  <2>1. u[1] = t /\ u[2] \in d + 1 .. top
    BY <1>8
  <2>2. TaxOf(u) = p.packets[u[2] - d]
    BY <2>1 DEF TaxOf, d
  <2>3. u[2] - d \in 1 .. m
    BY <1>2, <1>3, <2>1
  <2>4. p.packets[u[2] - d] \in TaxIds
    BY <1>2, <2>3 DEF m
  <2> QED
    BY <1>9, <2>1, <2>2, <2>4
<1> QED
  BY <1>10, <1>11, <1>12 DEF d, top

\* The organization's answer names packets it took, in an order of its own.
LEMMA AnswerIs ==
  ASSUME NEW S, IsFiniteSet(S), NEW taken \in SUBSET S, NEW a \in SetToSeqs(taken)
  PROVE  a \in Seq(taken)
<1>1. IsFiniteSet(taken)
  BY FS_Subset
<1>2. Cardinality(taken) \in Nat
  BY <1>1, FS_CardinalityType
<1>3. a \in [1 .. Cardinality(taken) -> taken]
  BY DEF SetToSeqs
<1> QED
  BY <1>2, <1>3

\* The organization takes some packets of the chunk and names them in its answer.
LEMMA KeepsSendPackets ==
  ASSUME PipelineInv, NEW t \in Task, SendPackets(t)
  PROVE  PipelineInv'
<1> DEFINE p == task[t]
<1>1. p \in Tasks /\ task \in [Task -> Tasks] /\ TaskOK(t, p, org) /\ org \in [Uids -> Entries]
      /\ call \in [Task -> Calls] /\ issued \in [1 .. MaxSerial -> Nat]
  BY Locals
<1>2. PICK taken \in SUBSET InFlight(t) :
        /\ \E a \in SetToSeqs(taken) : Serve(t, "post", a)
        /\ org' = [u \in Uids |->
             IF u \in taken THEN [status |-> "in_progress", tax |-> TaxOf(u)] ELSE org[u]]
  BY DEF SendPackets
<1>3. PICK a \in SetToSeqs(taken) : Serve(t, "post", a)
  BY <1>2
<1> DEFINE q == [p EXCEPT !.http = "back", !.answer = a]
           d == Len(p.done)
           top == BuiltTo(p)
<1>4. /\ p.at = "post" /\ p.http = "out" /\ task' = [task EXCEPT ![t] = q]
      /\ keyLock' = keyLock /\ keyKnown' = keyKnown /\ call' = call /\ issued' = issued
  BY <1>1, <1>3 DEF Serve, At, key, serials
<1>5. /\ IsFiniteSet(InFlight(t)) /\ InFlight(t) \subseteq Uids
      /\ \A u \in InFlight(t) :
           /\ u[1] = t /\ u[2] \in d + 1 .. top /\ u[2] \in DOMAIN p.batch
           /\ TaxOf(u) = p.packets[u[2] - d] /\ TaxOf(u) \in TaxIds
  BY <1>4, InFlightIs
<1>6. a \in Seq(taken) /\ a \in Seq(Uids) /\ \A j \in DOMAIN a : a[j] \in taken
  <2>1. a \in Seq(taken)
    BY <1>5, AnswerIs
  <2> QED
    BY <1>5, <2>1
<1>7. q \in Tasks /\ q.at = "post" /\ q.http = "back" /\ q.answer = a /\ q.batch = p.batch
      /\ q.packets = p.packets /\ q.done = p.done
  BY <1>1, <1>4, <1>6 DEF Tasks, Places
<1> HIDE DEF q
<1>8. BuiltTo(q) = top /\ ChunkTo(q) = ChunkTo(p) /\ KnownTo(q) = top /\ KnownTo(p) = d
  BY <1>4, <1>7 DEF BuiltTo, ChunkTo, KnownTo
<1>9. d \in Nat /\ Len(p.packets) \in Nat /\ Len(p.batch) \in Nat /\ top = d + Len(p.packets)
      /\ p.packets \in Seq(TaxIds)
  BY <1>1, Fields DEF BuiltTo
<1>10. d <= top /\ top \in Nat
  <2> HIDE DEF d, top
  <2> QED
    BY <1>9
<1>11. /\ \A u \in taken : org'[u].status = "in_progress" /\ org'[u].tax = TaxOf(u)
       /\ \A u \in Uids : u \notin taken => org'[u] = org[u]
       /\ org' \in [Uids -> Entries]
  <2>1. \A u \in taken : [status |-> "in_progress", tax |-> TaxOf(u)] \in Entries
    BY <1>5 DEF Entries
  <2> QED
    BY <1>1, <1>2, <1>5, <2>1
<1>12. Form(q)
  BY <1>1, <1>4, <1>6, <1>7 DEF TaskOK, Form, Making
<1>13. ChunkOK(q)
  BY <1>1, <1>4, <1>7, <1>8 DEF TaskOK, ChunkOK, Making
<1> HIDE DEF d, top
<1>14. KnownOK(t, q, org')
  <2>1. ASSUME NEW u \in Uids, u[1] = t, org'[u].status # "unknown" PROVE u[2] <= top
    <3>1. CASE u \in taken
      BY <1>5, <1>10, <3>1
    <3>2. CASE u \notin taken
      <4>1. org[u].status # "unknown"
        BY <1>11, <2>1, <3>2
      <4>2. u[2] <= d
        BY <1>1, <1>4, <1>8, <2>1, <4>1 DEF TaskOK, KnownOK
      <4> QED
        BY <1>9, <1>10, <4>2, UidForm
    <3> QED
      BY <3>1, <3>2
  <2>2. ASSUME NEW i \in DOMAIN p.batch, org'[<<t, i>>].status # "unknown",
               NEW first, first = ((i - 1) \div MaxPackets) * MaxPackets + 1,
               NEW j \in first .. Least(first + MaxPackets - 1, Len(p.batch))
        PROVE  p.batch[j].valid
    <3> DEFINE u == <<t, i>>
    <3>1. p.batch \in Batches
      BY <1>1, <1>4 DEF TaskOK, Form
    <3>2. u \in Uids /\ u[1] = t /\ u[2] = i
      BY <3>1, OwnUids
    <3> HIDE DEF u
    <3>3. CASE u \in taken
      <4>1. PICK k \in 0 .. d : d = k * MaxPackets
        BY <1>1, <1>4 DEF TaskOK, ChunkOK, Making, d
      <4>2. i \in d + 1 .. top
        BY <1>5, <3>2, <3>3
      <4>3. top = Least(d + MaxPackets, Len(p.batch))
        BY <1>1, <1>4 DEF TaskOK, ChunkOK, Making, ChunkTo, d, top
      <4>4. top <= d + MaxPackets
        BY <1>9, <4>3, PipelineAssumption DEF Least
      <4>5. i \in k * MaxPackets + 1 .. k * MaxPackets + MaxPackets
        <5>1. i \in d + 1 .. d + MaxPackets
          BY <1>9, <1>10, <4>2, <4>4, PipelineAssumption
        <5> QED
          BY <4>1, <5>1
      <4>6. k \in Nat /\ MaxPackets \in Nat \ {0}
        BY <1>9, PipelineAssumption
      <4>7. first = d + 1
        BY <2>2, <4>1, <4>5, <4>6, ChunkStart
      <4>8. j \in d + 1 .. top
        <5>1. first + MaxPackets - 1 = d + MaxPackets
          BY <1>9, <4>6, <4>7
        <5> QED
          BY <2>2, <4>3, <4>7, <5>1
      <4> QED
        BY <1>1, <1>4, <4>8 DEF TaskOK, ChunkOK, Making, d, top
    <3>4. CASE u \notin taken
      <4>1. org[<<t, i>>].status # "unknown"
        BY <1>11, <2>2, <3>2, <3>4 DEF u
      <4> QED
        BY <1>1, <2>2, <4>1 DEF TaskOK, KnownOK
    <3> QED
      BY <3>3, <3>4
  <2>3. \A u \in Uids : u[1] = t /\ org'[u].status # "unknown" => u[2] <= KnownTo(q)
    BY <1>8, <2>1
  <2>4. \A i \in DOMAIN q.batch :
          org'[<<t, i>>].status # "unknown" =>
            LET first == ((i - 1) \div MaxPackets) * MaxPackets + 1
            IN \A j \in first .. Least(first + MaxPackets - 1, Len(q.batch)) : q.batch[j].valid
    BY <1>7, <2>2
  <2> QED
    BY <2>3, <2>4 DEF KnownOK
<1>15. OwnOK(t, q, org')
  <2>1. ASSUME NEW i \in DOMAIN q.done, q.done[i].ref # NoRef
        PROVE  /\ q.done[i].ref = <<t, i>>
               /\ org'[q.done[i].ref].status # "unknown" /\ org'[q.done[i].ref].tax = q.done[i].tax
    <3> DEFINE u == q.done[i].ref
    <3>1. u = <<t, i>> /\ org[u].status # "unknown" /\ org[u].tax = q.done[i].tax
      BY <1>1, <1>7, <2>1 DEF TaskOK, OwnOK
    <3>2. q.done \in Seq(Subs)
      BY <1>7, Fields
    <3>3. u \in Uids /\ i \in 1 .. d
      <4>1. q.done[i] \in Subs /\ i \in 1 .. Len(q.done)
        BY <3>2
      <4> QED
        BY <1>7, <2>1, <4>1 DEF Subs, Refs, d
    <3> HIDE DEF u
    <3>4. u \notin taken
      <4>1. u[2] = i
        BY <3>1
      <4> QED
        BY <1>5, <1>9, <1>10, <3>3, <4>1
    <3>5. org'[u] = org[u]
      BY <1>11, <3>3, <3>4
    <3> QED
      BY <3>1, <3>5 DEF u
  <2>2. ASSUME NEW j \in DOMAIN q.answer
        PROVE  LET u == q.answer[j]
               IN /\ u[1] = t /\ u[2] \in Len(q.done) + 1 .. BuiltTo(q)
                  /\ org'[u].status # "unknown" /\ org'[u].tax = q.packets[u[2] - Len(q.done)]
    <3> DEFINE u == q.answer[j]
    <3>1. u \in taken
      BY <1>6, <1>7
    <3> HIDE DEF u
    <3>2. u \in InFlight(t)
      BY <3>1
    <3>3. u[1] = t /\ u[2] \in d + 1 .. top /\ TaxOf(u) = p.packets[u[2] - d]
      BY <1>5, <3>2
    <3>4. org'[u].status # "unknown" /\ org'[u].tax = p.packets[u[2] - d]
      BY <1>11, <3>1, <3>3
    <3>5. /\ u[1] = t /\ u[2] \in Len(q.done) + 1 .. BuiltTo(q)
          /\ org'[u].status # "unknown" /\ org'[u].tax = q.packets[u[2] - Len(q.done)]
      BY <1>7, <1>8, <3>3, <3>4 DEF d
    <3> QED
      BY <3>5 DEF u
  <2> QED
    BY <2>1, <2>2 DEF OwnOK
<1>16. PollOK(q, org')
  BY <1>7 DEF PollOK
<1>17. SerialsOK'
  <2>1. task'[t] = q /\ \A s \in Task : s # t => task'[s] = task[s]
    BY <1>1, <1>4
  <2>2. ASSUME NEW u \in Uids, NEW n \in 1 .. MaxSerial, Makes(task'[u[1]], u, n)
        PROVE  Makes(task[u[1]], u, n)
    <3>1. CASE u[1] = t
      <4>1. Makes(q, u, n)
        BY <2>1, <2>2, <3>1
      <4>2. Makes(p, u, n)
        BY <1>7, <1>8, <4>1 DEF Makes, top
      <4> QED
        BY <3>1, <4>2
    <3>2. CASE u[1] # t
      BY <2>1, <2>2, <3>2, UidForm
    <3> QED
      BY <3>1, <3>2
  <2>3. ASSUME NEW u \in Uids, NEW n \in 1 .. MaxSerial, org'[u].tax = n PROVE Carries(u, n)
    <3>1. CASE u \in taken
      <4>1. u[1] = t /\ u[2] \in d + 1 .. top /\ p.packets[u[2] - d] = n
        BY <1>5, <1>11, <2>3, <3>1
      <4>2. Makes(p, u, n)
        BY <4>1 DEF Makes, d, top
      <4> QED
        BY <4>1, <4>2 DEF Carries
    <3>2. CASE u \notin taken
      BY <1>11, <2>3, <3>2 DEF Carries
    <3> QED
      BY <3>1, <3>2
  <2>4. \A u \in Uids, n \in 1 .. MaxSerial :
          org'[u].tax = n \/ Makes(task'[u[1]], u, n) => Carries(u, n)
    BY <2>2, <2>3 DEF Carries
  <2>5. SerialsOK
    BY DEF PipelineInv
  <2> QED
    BY <1>4, <2>4, <2>5, SerialsKept
<1>18. TaskOK(t, q, org') /\ CallOK(q, call'[t])
  <2>1. CallOK(q, call[t])
    BY <1>4, NoCall
  <2> QED
    BY <1>4, <1>12, <1>13, <1>14, <1>15, <1>16, <2>1 DEF TaskOK
<1>19. keyKnown' \in BOOLEAN /\ keyLock' \in Task \cup {Nobody}
      /\ (\A s \in Task : s # t => ((keyLock' = s) <=> (keyLock = s)))
      /\ ((keyLock' = t) <=> (q.at = "key"))
  BY <1>4, <1>7, Locals
<1>20. /\ \A u \in Uids : u[1] # t => org'[u] = org[u]
       /\ call' \in [Task -> Calls] /\ issued' \in [1 .. MaxSerial -> Nat]
       /\ \A s \in Task : s # t => call'[s] = call[s]
  <2>1. \A u \in Uids : u[1] # t => u \notin taken
    BY <1>5
  <2> QED
    BY <1>1, <1>4, <1>11, <2>1
<1> QED
  BY <1>4, <1>7, <1>11, <1>17, <1>18, <1>19, <1>20, TaskStep

(***************************************************************************)
(* The answer to a chunk.                                                  *)
(***************************************************************************)
\* One submission per packet, with the packet's own uid and tax id, or without a reference.
LEMMA MatchedIs ==
  ASSUME PipelineInv, NEW t \in Task, task[t].at = "post"
  PROVE  /\ Matched(t) \in Seq(Subs) /\ Len(Matched(t)) = Len(task[t].packets)
         /\ \A i \in 1 .. Len(task[t].packets) :
              LET s == Matched(t)[i]
                  uid == <<t, Len(task[t].done) + i>>
              IN s.ref # NoRef => s.ref = uid /\ org[uid].status # "unknown" /\ org[uid].tax = s.tax
<1> DEFINE p == task[t]
           d == Len(p.done)
           m == Len(p.packets)
           ref(i) == IF Contains(p.answer, <<t, d + i>>) THEN <<t, d + i>> ELSE NoRef
<1>1. p \in Tasks /\ TaskOK(t, p, org)
  BY Locals
<1>2. p.packets \in Seq(TaxIds) /\ m \in Nat /\ d \in Nat
  BY <1>1, Fields
<1>3. DOMAIN p.packets = 1 .. m
  BY <1>2
<1>4. p.answer \in Seq(Uids)
  BY <1>1 DEF TaskOK, Form
<1>5. Matched(t) = [i \in 1 .. m |-> [tax |-> p.packets[i], ref |-> ref(i)]]
  BY <1>3 DEF Matched
<1>6. ASSUME NEW i \in 1 .. m, ref(i) # NoRef
      PROVE  /\ ref(i) = <<t, d + i>> /\ ref(i) \in Uids
             /\ org[ref(i)].status # "unknown" /\ org[ref(i)].tax = p.packets[i]
  <2> DEFINE uid == <<t, d + i>>
  <2>1. ref(i) = uid /\ Contains(p.answer, uid)
    BY <1>6
  <2>2. PICK j \in 1 .. Len(p.answer) : p.answer[j] = uid
    BY <2>1 DEF Contains
  <2>3. j \in DOMAIN p.answer /\ uid \in Uids
    BY <1>4, <2>2
  <2>4. org[uid].status # "unknown" /\ org[uid].tax = p.packets[uid[2] - d]
    BY <1>1, <2>2, <2>3 DEF TaskOK, OwnOK
  <2>5. uid[2] - d = i
    <3>1. uid[2] = d + i
      OBVIOUS
    <3> HIDE DEF uid, d
    <3> QED
      BY <1>2, <3>1
  <2> HIDE DEF uid, ref
  <2>6. org[uid].tax = p.packets[i]
    BY <2>4, <2>5
  <2>7. /\ ref(i) = uid /\ ref(i) \in Uids
        /\ org[ref(i)].status # "unknown" /\ org[ref(i)].tax = p.packets[i]
    BY <2>1, <2>3, <2>4, <2>6
  <2> QED
    BY <2>7 DEF uid
<1>7. \A i \in 1 .. m : [tax |-> p.packets[i], ref |-> ref(i)] \in Subs
  <2>1. \A i \in 1 .. m : p.packets[i] \in TaxIds
    BY <1>2
  <2>2. \A i \in 1 .. m : ref(i) \in Refs
    BY <1>6 DEF Refs
  <2> HIDE DEF ref
  <2> QED
    BY <2>1, <2>2 DEF Subs
<1> HIDE DEF ref, m
<1>8. Matched(t) \in [1 .. m -> Subs]
  BY <1>5, <1>7
<1>9. Matched(t) \in Seq(Subs) /\ Len(Matched(t)) = m
  BY <1>2, <1>8
<1>10. ASSUME NEW i \in 1 .. m
       PROVE  LET s == Matched(t)[i]
                  uid == <<t, d + i>>
              IN s.ref # NoRef => s.ref = uid /\ org[uid].status # "unknown" /\ org[uid].tax = s.tax
  <2>1. Matched(t)[i].ref = ref(i) /\ Matched(t)[i].tax = p.packets[i]
    BY <1>5
  <2> QED
    BY <1>6, <2>1
<1> QED
  BY <1>9, <1>10 DEF m

\* s is the list a followed by the list c.
Joins(s, a, c) ==
  /\ Len(s) = Len(a) + Len(c) /\ DOMAIN s = 1 .. Len(a) + Len(c)
  /\ \A i \in 1 .. Len(a) : s[i] = a[i]
  /\ \A i \in 1 .. Len(c) : s[Len(a) + i] = c[i]

\* Two lists, one after the other.
LEMMA Concat ==
  ASSUME NEW S, NEW a \in Seq(S), NEW c \in Seq(S)
  PROVE  a \o c \in Seq(S) /\ Joins(a \o c, a, c)
<1>1. a \o c \in Seq(S)
  OBVIOUS
<1>2. Len(a \o c) = Len(a) + Len(c)
  OBVIOUS
<1>3. DOMAIN (a \o c) = 1 .. Len(a) + Len(c)
  BY <1>1, <1>2
<1>4. \A i \in 1 .. Len(a) : (a \o c)[i] = a[i]
  OBVIOUS
<1>5. ASSUME NEW i \in 1 .. Len(c) PROVE (a \o c)[Len(a) + i] = c[i]
  OBVIOUS
<1> QED
  BY <1>1, <1>2, <1>3, <1>4, <1>5 DEF Joins

\* submit matches the answer to the packets and goes on to the next chunk, or returns.
LEMMA KeepsPostAnswered ==
  ASSUME PipelineInv, NEW t \in Task, PostAnswered(t)
  PROVE  PipelineInv'
<1> DEFINE p == task[t]
           match == Matched(t)
           done == p.done \o match
           b == Len(p.batch)
           place == IF Len(done) < b THEN "build" ELSE "submitted"
           q == [p EXCEPT !.at = place, !.http = "none", !.done = done,
                          !.packets = <<>>, !.answer = <<>>]
           d == Len(p.done)
           m == Len(p.packets)
           top == BuiltTo(p)
<1>1. p \in Tasks /\ task \in [Task -> Tasks] /\ TaskOK(t, p, org)
  BY Locals
<1>2. /\ p.at = "post" /\ p.http = "back" /\ task' = [task EXCEPT ![t] = q]
      /\ keyLock' = keyLock /\ keyKnown' = keyKnown /\ UNCHANGED <<org, serials>>
  BY <1>1 DEF PostAnswered, Answered, At, key
<1>3. /\ match \in Seq(Subs) /\ Len(match) = m
      /\ \A i \in 1 .. m :
           LET s == match[i]
               uid == <<t, d + i>>
           IN s.ref # NoRef => s.ref = uid /\ org[uid].status # "unknown" /\ org[uid].tax = s.tax
  BY <1>2, MatchedIs
<1>4. d \in Nat /\ m \in Nat /\ b \in Nat /\ p.done \in Seq(Subs) /\ top = d + m
  BY <1>1, Fields DEF BuiltTo
<1> HIDE DEF match
<1>5. /\ done \in Seq(Subs) /\ Len(done) = d + m /\ DOMAIN done = 1 .. d + m
      /\ \A i \in 1 .. d : done[i] = p.done[i]
      /\ \A i \in 1 .. m : done[d + i] = match[i]
  <2>1. done \in Seq(Subs) /\ Joins(done, p.done, match)
    BY <1>3, <1>4, Concat
  <2>2. Len(match) = m
    BY <1>3
  <2> HIDE DEF done
  <2> QED
    BY <2>1, <2>2 DEF Joins
<1>6. Len(done) = top
  BY <1>4, <1>5
<1> HIDE DEF done
<1>7. place \in {"build", "submitted"} /\ (place = "build" => top < b)
  BY <1>6
<1> HIDE DEF place
<1>8. q \in Tasks /\ q.at = place /\ q.http = "none" /\ q.batch = p.batch /\ q.packets = <<>>
      /\ q.done = done /\ q.answer = <<>>
  <2>1. <<>> \in Seq(TaxIds) /\ <<>> \in Seq(Uids)
    OBVIOUS
  <2> QED
    BY <1>1, <1>5, <1>7, <2>1 DEF Tasks, Places
<1> HIDE DEF q
<1>9. p.batch \in Batches
  BY <1>1, <1>2 DEF TaskOK, Form
<1>10. Form(q)
  <2>1. <<>> \in Seq(Uids)
    OBVIOUS
  <2> QED
    BY <1>7, <1>8, <1>9, <2>1 DEF Form, Making
<1>11. BuiltTo(q) = top /\ KnownTo(q) = top /\ KnownTo(p) = top
  <2>1. KnownTo(q) = Len(done) /\ KnownTo(p) = top
    BY <1>2, <1>7, <1>8 DEF KnownTo
  <2>2. BuiltTo(q) = Len(done) + 0
    BY <1>8 DEF BuiltTo
  <2> HIDE DEF top, d, m
  <2> QED
    BY <1>4, <1>6, <2>1, <2>2
<1>12. ChunkOK(q)
  <2> SUFFICES ASSUME q.at = "build" PROVE ChunkOK(q)
    BY <1>7, <1>8 DEF ChunkOK, Making
  <2>1. top < b
    BY <1>7, <1>8
  <2>2. PICK k \in 0 .. d : d = k * MaxPackets
    BY <1>1, <1>2 DEF TaskOK, ChunkOK, Making
  <2>3. top = Least(d + MaxPackets, b)
    BY <1>1, <1>2 DEF TaskOK, ChunkOK, Making, ChunkTo
  <2>4. ChunkTo(q) = Least(top + MaxPackets, b)
    BY <1>6, <1>8 DEF ChunkTo
  <2> HIDE DEF top, d, m, b
  <2>5. top = d + MaxPackets
    BY <1>4, <2>1, <2>3, PipelineAssumption DEF Least
  <2>6. top = (k + 1) * MaxPackets /\ k + 1 \in 0 .. top
    <3>1. k \in Nat /\ MaxPackets \in Nat \ {0}
      BY <1>4, PipelineAssumption
    <3>2. (k + 1) * MaxPackets = k * MaxPackets + MaxPackets
      BY <3>1
    <3>3. k <= d /\ MaxPackets >= 1 /\ d \in Nat
      BY <1>4, <3>1
    <3>4. k + 1 \in 0 .. top
      BY <2>5, <3>1, <3>3
    <3> QED
      BY <2>2, <2>5, <3>2, <3>4
  <2>7. top <= Least(top + MaxPackets, b)
    BY <1>4, <2>1, PipelineAssumption DEF Least
  <2>8. \A j \in Len(q.done) + 1 .. BuiltTo(q) : q.batch[j].valid
    BY <1>4, <1>6, <1>8, <1>11
  <2>9. \E n \in 0 .. Len(q.done) : Len(q.done) = n * MaxPackets
    BY <1>6, <1>8, <2>6
  <2>10. Len(q.done) < Len(q.batch)
    BY <1>6, <1>8, <2>1 DEF b
  <2>11. BuiltTo(q) <= ChunkTo(q) /\ q.at # "post"
    BY <1>11, <2>4, <2>7
  <2> QED
    BY <2>8, <2>9, <2>10, <2>11 DEF ChunkOK
<1>13. KnownOK(t, q, org)
  BY <1>1, <1>2, <1>8, <1>11 DEF TaskOK, KnownOK
<1>14. OwnOK(t, q, org)
  <2>1. ASSUME NEW i \in DOMAIN done, done[i].ref # NoRef
        PROVE  /\ done[i].ref = <<t, i>>
               /\ org[done[i].ref].status # "unknown" /\ org[done[i].ref].tax = done[i].tax
    <3>1. i \in 1 .. d + m
      BY <1>5
    <3>2. CASE i \in 1 .. d
      <4>1. DOMAIN p.done = 1 .. d
        BY <1>4
      <4>2. done[i] = p.done[i]
        BY <1>5, <3>2
      <4> QED
        BY <1>1, <2>1, <3>2, <4>1, <4>2 DEF TaskOK, OwnOK
    <3>3. CASE i \notin 1 .. d
      <4>1. i - d \in 1 .. m /\ d + (i - d) = i
        <5> HIDE DEF d, m
        <5> QED
          BY <1>4, <3>1, <3>3
      <4>2. done[d + (i - d)] = match[i - d]
        BY <1>5, <4>1
      <4>3. done[i] = match[i - d]
        BY <4>1, <4>2
      <4>4. match[i - d].ref = <<t, d + (i - d)>> /\ org[<<t, d + (i - d)>>].status # "unknown"
            /\ org[<<t, d + (i - d)>>].tax = match[i - d].tax
        BY <1>3, <2>1, <4>1, <4>3
      <4> QED
        BY <4>1, <4>3, <4>4
    <3> QED
      BY <3>2, <3>3
  <2>2. q.at # "post"
    BY <1>7, <1>8
  <2>3. \A i \in DOMAIN q.done :
          LET s == q.done[i]
          IN s.ref # NoRef => s.ref = <<t, i>> /\ org[s.ref].status # "unknown" /\ org[s.ref].tax = s.tax
    BY <1>8, <2>1
  <2> QED
    BY <2>2, <2>3 DEF OwnOK
<1>15. PollOK(q, org)
  BY <1>7, <1>8 DEF PollOK
<1>16. TaskOK(t, q, org) /\ CallOK(q, call[t])
  BY <1>2, <1>10, <1>12, <1>13, <1>14, <1>15, NoCall DEF TaskOK
<1>17. keyKnown' \in BOOLEAN /\ keyLock' \in Task \cup {Nobody}
      /\ (\A s \in Task : s # t => ((keyLock' = s) <=> (keyLock = s)))
      /\ ((keyLock' = t) <=> (q.at = "key"))
  <2>1. q.at # "key" /\ p.at # "key"
    BY <1>2, <1>7, <1>8
  <2> QED
    BY <1>2, <2>1, Locals
<1> QED
  BY <1>2, <1>8, <1>16, <1>17, QuietStep

(***************************************************************************)
(* Rulings and time.                                                       *)
(***************************************************************************)
\* The organization rules on a packet.
LEMMA KeepsOrgRules ==
  ASSUME PipelineInv, NEW u \in Uids, OrgRules(u)
  PROVE  PipelineInv'
<1>1. Typed /\ KeyOK /\ SerialsOK
  BY DEF PipelineInv
<1>2. org \in [Uids -> Entries] /\ task \in [Task -> Tasks]
  BY <1>1 DEF Typed
<1>3. org[u].status = "in_progress" /\ org' = [org EXCEPT ![u].status = "ruled"]
      /\ task' = task /\ keyKnown' = keyKnown /\ keyLock' = keyLock
      /\ call' = call /\ issued' = issued
  BY DEF OrgRules, key, serials
<1>4. org' \in [Uids -> Entries] /\ org'[u].status = "ruled" /\ org'[u].tax = org[u].tax
      /\ \A v \in Uids : v # u => org'[v] = org[v]
  BY <1>2, <1>3 DEF Entries
<1>5. Typed' /\ KeyOK'
  BY <1>1, <1>3, <1>4 DEF Typed, KeyOK
<1>6. SerialsOK'
  <2>1. \A v \in Uids : org'[v].tax = org[v].tax
    BY <1>4
  <2>2. \A v \in Uids, n \in 1 .. MaxSerial :
          org'[v].tax = n \/ Makes(task'[v[1]], v, n) => Carries(v, n)
    BY <1>3, <2>1 DEF Carries
  <2> QED
    BY <1>1, <1>3, <2>2, SerialsKept
<1>7. ASSUME NEW t \in Task PROVE TaskOK(t, task'[t], org') /\ CallOK(task'[t], call'[t])
  <2>1. TaskOK(t, task[t], org) /\ CallOK(task[t], call[t]) /\ task[t] \in Tasks
    BY Locals
  <2>2. OrgLater(t, org, org')
    BY <1>3, <1>4 DEF OrgLater
  <2>3. TaskOK(t, task[t], org')
    BY <2>1, <2>2, OrgMoves
  <2> QED
    BY <1>3, <2>1, <2>3
<1> QED
  BY <1>5, <1>6, <1>7 DEF PipelineInv

\* The timers of a task run where nothing of its record depends on them.
LEMMA TimeOK ==
  ASSUME NEW t \in Task, NEW p \in Tasks, NEW q \in Tasks, NEW o, TaskOK(t, p, o),
         p.at \in {"submitted", "sleep", "poll"}, q.at = p.at, q.http = p.http,
         q.batch = p.batch, q.packets = p.packets, q.done = p.done, q.answer = p.answer,
         q.start = p.start, q.results = p.results, q.told = p.told
  PROVE  TaskOK(t, q, o)
<1>1. Form(q)
  BY DEF TaskOK, Form
<1>2. ChunkOK(q)
  BY DEF ChunkOK, Making
<1>3. KnownOK(t, q, o)
  BY DEF TaskOK, KnownOK
<1>4. OwnOK(t, q, o)
  BY DEF TaskOK, OwnOK
<1>5. PollOK(q, o)
  BY DEF TaskOK, PollOK
<1> QED
  BY <1>1, <1>2, <1>3, <1>4, <1>5 DEF TaskOK

\* Time passes.
LEMMA KeepsTick ==
  ASSUME PipelineInv, Tick
  PROVE  PipelineInv'
<1> DEFINE Less(n) == IF n = 0 THEN 0 ELSE n - 1
           Runs(p) == p.at \in {"submitted", "sleep", "poll"}
           Later(p) == IF p.at \in {"submitted", "sleep", "poll"}
                         THEN [p EXCEPT !.sleep = Less(@), !.left = Less(@)] ELSE p
<1>1. Typed /\ KeyOK /\ SerialsOK
  BY DEF PipelineInv
<1>2. org \in [Uids -> Entries] /\ task \in [Task -> Tasks]
  BY <1>1 DEF Typed
<1>3. task' = [t \in Task |-> Later(task[t])] /\ org' = org
      /\ keyKnown' = keyKnown /\ keyLock' = keyLock /\ call' = call /\ issued' = issued
  BY DEF Tick, key, serials
<1>4. ASSUME NEW p \in Tasks
      PROVE  /\ Later(p) \in Tasks /\ Later(p).at = p.at /\ Later(p).http = p.http
             /\ Later(p).batch = p.batch /\ Later(p).packets = p.packets /\ Later(p).done = p.done
             /\ Later(p).answer = p.answer /\ Later(p).results = p.results
             /\ Later(p).start = p.start /\ Later(p).told = p.told
             /\ ~ Runs(p) => Later(p) = p
  <2>1. CASE Runs(p)
    <3>1. Less(p.sleep) \in 0 .. MinWait + PollInterval /\ Less(p.left) \in 0 .. Timeout
      BY Fields, PipelineAssumption
    <3> HIDE DEF Less
    <3> DEFINE q == [p EXCEPT !.sleep = Less(p.sleep), !.left = Less(p.left)]
    <3>2. q \in Tasks /\ q.at = p.at /\ q.http = p.http /\ q.batch = p.batch /\ q.packets = p.packets
          /\ q.done = p.done /\ q.answer = p.answer /\ q.results = p.results
          /\ q.start = p.start /\ q.told = p.told
      BY <3>1 DEF Tasks
    <3>3. Later(p) = q
      BY <2>1
    <3> HIDE DEF q, Later
    <3> QED
      BY <2>1, <3>2, <3>3
  <2>2. CASE ~ Runs(p)
    BY <2>2
  <2> QED
    BY <2>1, <2>2
<1> HIDE DEF Later
<1>5. task' \in [Task -> Tasks] /\ \A t \in Task : task'[t] = Later(task[t])
  BY <1>2, <1>3, <1>4
<1>6. Typed' /\ KeyOK'
  <2>1. \A t \in Task : task'[t].at = task[t].at
    BY <1>2, <1>4, <1>5
  <2> QED
    BY <1>1, <1>3, <1>5, <2>1 DEF Typed, KeyOK
<1>7. SerialsOK'
  <2>1. ASSUME NEW u \in Uids, NEW n \in 1 .. MaxSerial
        PROVE  org'[u].tax = n \/ Makes(task'[u[1]], u, n) => Carries(u, n)
    <3>1. u[1] \in Task
      BY UidForm
    <3>2. task'[u[1]].packets = task[u[1]].packets /\ task'[u[1]].done = task[u[1]].done
      BY <1>2, <1>4, <1>5, <3>1
    <3> QED
      BY <1>3, <3>2 DEF Carries, Makes, BuiltTo
  <2> QED
    BY <1>1, <1>3, <2>1, SerialsKept
<1>8. ASSUME NEW t \in Task PROVE TaskOK(t, task'[t], org') /\ CallOK(task'[t], call'[t])
  <2> DEFINE p == task[t]
             q == task'[t]
  <2>1. TaskOK(t, p, org) /\ CallOK(p, call[t]) /\ p \in Tasks
    BY Locals
  <2>2. q = Later(p)
    BY <1>5
  <2> HIDE DEF p, q
  <2>3. CASE Runs(p)
    <3>1. TaskOK(t, q, org)
      BY <1>4, <2>1, <2>2, <2>3, TimeOK
    <3>2. CallOK(q, call[t])
      BY <2>1, <2>3 DEF CallOK
    <3> QED
      BY <1>3, <3>1, <3>2 DEF q
  <2>4. CASE ~ Runs(p)
    <3>1. q = p
      BY <1>4, <2>1, <2>2, <2>4
    <3> QED
      BY <1>3, <2>1, <3>1 DEF q
  <2> QED
    BY <2>3, <2>4
<1> QED
  BY <1>6, <1>7, <1>8 DEF PipelineInv

(***************************************************************************)
(* Waiting for results.                                                    *)
(***************************************************************************)
\* While a task waits, only the results and the answer it holds are in question.
LEMMA AwaitOK ==
  ASSUME NEW t \in Task, NEW p \in Tasks, NEW q \in Tasks, NEW o, TaskOK(t, p, o),
         p.at \in {"submitted", "sleep", "poll"}, q.at \in {"sleep", "poll", "done"},
         q.batch = p.batch, q.packets = p.packets, q.done = p.done,
         q.answer \in Seq(IF q.at = "poll" THEN Results ELSE Uids),
         q.answer # <<>> => q.at = "poll" /\ q.http = "back",
         PollOK(q, o)
  PROVE  TaskOK(t, q, o) /\ q.packets = <<>>
<1>1. Form(q) /\ q.packets = <<>>
  BY DEF TaskOK, Form, Making
<1>2. ChunkOK(q)
  BY DEF ChunkOK, Making
<1>3. KnownOK(t, q, o)
  BY DEF TaskOK, KnownOK
<1>4. OwnOK(t, q, o)
  BY DEF TaskOK, OwnOK
<1> QED
  BY <1>1, <1>2, <1>3, <1>4 DEF TaskOK

\* await_results is called.
LEMMA KeepsBeginAwait ==
  ASSUME PipelineInv, NEW t \in Task, BeginAwait(t)
  PROVE  PipelineInv'
<1> DEFINE p == task[t]
           refs == RefsOf(p.done)
           place == IF refs = <<>> THEN "done" ELSE "sleep"
           q == [p EXCEPT !.at = place, !.sleep = MinWait, !.left = Timeout]
<1>1. p \in Tasks /\ task \in [Task -> Tasks] /\ TaskOK(t, p, org)
  BY Locals
<1>2. p.at = "submitted" /\ task' = [task EXCEPT ![t] = q]
      /\ keyLock' = keyLock /\ keyKnown' = keyKnown /\ UNCHANGED <<org, serials>>
  BY <1>1, RefsAre DEF BeginAwait, At, key
<1>3. place \in {"done", "sleep"} /\ (place = "sleep" <=> refs # <<>>)
  OBVIOUS
<1> HIDE DEF refs, place
<1>4. q \in Tasks /\ q.at = place /\ q.batch = p.batch
      /\ q.packets = p.packets /\ q.done = p.done /\ q.answer = p.answer
  <2>1. MinWait \in 0 .. MinWait + PollInterval /\ Timeout \in 0 .. Timeout
    BY PipelineAssumption
  <2> QED
    BY <1>1, <1>3, <2>1 DEF Tasks, Places
<1> HIDE DEF q
<1>5. q.answer = <<>> /\ <<>> \in Seq(Uids)
  BY <1>1, <1>2, <1>4 DEF TaskOK, Form
<1>6. PollOK(q, org)
  BY <1>3, <1>4 DEF PollOK, refs
<1>7. TaskOK(t, q, org) /\ q.packets = <<>>
  <2>1. p.at \in {"submitted", "sleep", "poll"} /\ q.at \in {"sleep", "poll", "done"} /\ q.at # "poll"
    BY <1>2, <1>3, <1>4
  <2>2. q.answer \in Seq(IF q.at = "poll" THEN Results ELSE Uids) /\ ~ (q.answer # <<>>)
    BY <1>5, <2>1
  <2> QED
    BY <1>1, <1>4, <1>6, <2>1, <2>2, AwaitOK
<1>8. CallOK(q, call[t])
  BY <1>2, NoCall
<1>9. keyKnown' \in BOOLEAN /\ keyLock' \in Task \cup {Nobody}
      /\ (\A s \in Task : s # t => ((keyLock' = s) <=> (keyLock = s)))
      /\ ((keyLock' = t) <=> (q.at = "key"))
  <2>1. q.at # "key" /\ p.at # "key"
    BY <1>2, <1>3, <1>4
  <2> QED
    BY <1>2, <2>1, Locals
<1> QED
  BY <1>2, <1>4, <1>7, <1>8, <1>9, QuietStep

\* An inquiry begins.
LEMMA KeepsWake ==
  ASSUME PipelineInv, NEW t \in Task, Wake(t)
  PROVE  PipelineInv'
<1> DEFINE p == task[t]
           q == [p EXCEPT !.at = "poll", !.http = "out", !.start = 0, !.results = <<>>,
                          !.told = Untold]
<1>1. p \in Tasks /\ task \in [Task -> Tasks] /\ TaskOK(t, p, org)
  BY Locals
<1>2. p.at = "sleep" /\ task' = [task EXCEPT ![t] = q]
      /\ keyLock' = keyLock /\ keyKnown' = keyKnown /\ UNCHANGED <<org, serials>>
  BY <1>1 DEF Wake, At, key
<1>3. q \in Tasks /\ q.at = "poll" /\ q.http = "out" /\ q.batch = p.batch
      /\ q.packets = p.packets /\ q.done = p.done /\ q.answer = p.answer /\ q.results = <<>>
      /\ q.start = 0
  <2>1. <<>> \in Seq(Results) /\ 0 \in Nat /\ Untold \in [Uids -> Said]
    BY DEF Untold, Said
  <2> QED
    BY <1>1, <2>1 DEF Tasks, Places
<1> HIDE DEF q
<1>4. q.answer = <<>> /\ <<>> \in Seq(Results)
  BY <1>1, <1>2, <1>3 DEF TaskOK, Form
<1>5. PollOK(q, org)
  <2> DEFINE refs == RefsOf(p.done)
  <2>1. Reports(<<>>, Named(refs, 1, 0), q.told, org)
    <3>1. DOMAIN <<>> = {} /\ Named(refs, 1, 0) = {}
      BY DEF Named
    <3> QED
      BY <3>1 DEF Reports
  <2>2. refs # <<>>
    BY <1>1, <1>2 DEF TaskOK, PollOK
  <2>3. refs \in Seq(Uids)
    BY <1>1, Fields, RefsType
  <2>4. 0 < Len(refs)
    <3> HIDE DEF refs
    <3> QED
      BY <2>2, <2>3
  <2> QED
    BY <1>3, <1>4, <2>1, <2>2, <2>4 DEF PollOK
<1>6. TaskOK(t, q, org) /\ q.packets = <<>>
  <2>1. p.at \in {"submitted", "sleep", "poll"} /\ q.at \in {"sleep", "poll", "done"}
    BY <1>2, <1>3
  <2>2. q.answer \in Seq(IF q.at = "poll" THEN Results ELSE Uids) /\ ~ (q.answer # <<>>)
    BY <1>3, <1>4
  <2> QED
    BY <1>1, <1>3, <1>5, <2>1, <2>2, AwaitOK
<1>7. CallOK(q, call[t])
  BY <1>2, NoCall
<1>8. keyKnown' \in BOOLEAN /\ keyLock' \in Task \cup {Nobody}
      /\ (\A s \in Task : s # t => ((keyLock' = s) <=> (keyLock = s)))
      /\ ((keyLock' = t) <=> (q.at = "key"))
  <2>1. q.at # "key" /\ p.at # "key"
    BY <1>2, <1>3
  <2> QED
    BY <1>2, <2>1, Locals
<1> QED
  BY <1>2, <1>3, <1>6, <1>7, <1>8, QuietStep

\* The references a task asks for are packets the organization has.
LEMMA RefsKnown ==
  ASSUME PipelineInv, NEW t \in Task
  PROVE  /\ RefsOf(task[t].done) \in Seq(Uids)
         /\ \A i \in DOMAIN RefsOf(task[t].done) : org[RefsOf(task[t].done)[i]].status # "unknown"
<1> DEFINE p == task[t]
           K == {u \in Uids : org[u].status # "unknown"}
           refs == RefsOf(p.done)
<1>1. p \in Tasks /\ TaskOK(t, p, org)
  BY Locals
<1>2. p.done \in Seq(Subs)
  BY <1>1, Fields
<1>3. ASSUME NEW i \in DOMAIN p.done PROVE p.done[i].ref \in K \cup {NoRef}
  <2>1. p.done[i] \in Subs
    BY <1>2
  <2>2. p.done[i].ref \in Uids \cup {NoRef}
    BY <2>1 DEF Subs, Refs
  <2>3. p.done[i].ref # NoRef => org[p.done[i].ref].status # "unknown"
    BY <1>1 DEF TaskOK, OwnOK
  <2> QED
    BY <2>2, <2>3
<1>4. refs \in Seq(K)
  <2>1. K \in SUBSET Uids
    OBVIOUS
  <2> HIDE DEF K
  <2> QED
    BY <1>2, <1>3, <2>1, RefsFrom
<1> HIDE DEF refs
<1>5. refs \in Seq(Uids) /\ \A i \in DOMAIN refs : refs[i] \in K
  BY <1>4
<1>6. \A i \in DOMAIN refs : org[refs[i]].status # "unknown"
  BY <1>5
<1> QED
  BY <1>5, <1>6 DEF refs

\* No packet is asked about twice.
LEMMA RefsDistinct ==
  ASSUME PipelineInv, NEW t \in Task
  PROVE  \A i, j \in DOMAIN RefsOf(task[t].done) :
           RefsOf(task[t].done)[j] = RefsOf(task[t].done)[i] => j = i
<1>1. task[t].done \in Seq(Subs) /\ TaskOK(t, task[t], org)
  BY Locals, Fields
<1>2. \A i \in DOMAIN task[t].done : task[t].done[i].ref # NoRef => task[t].done[i].ref = <<t, i>>
  BY <1>1 DEF TaskOK, OwnOK
<1> QED
  BY <1>1, <1>2, RefsOnce

\* The next request of an inquiry asks for the references from the next position on.
LEMMA AskedIs ==
  ASSUME PipelineInv, NEW t \in Task, task[t].at = "poll"
  PROVE  LET refs == RefsOf(task[t].done)
             n == task[t].start
             last == Least(n + MaxInquiry, Len(refs))
         IN /\ n \in Nat /\ last \in Nat /\ n <= last /\ last <= Len(refs)
            /\ ToSet(Asked(t)) = Named(refs, n + 1, last)
            /\ IsFiniteSet(ToSet(Asked(t)))
<1> DEFINE p == task[t]
           refs == RefsOf(p.done)
           n == p.start
           L == Len(refs)
           last == Least(n + MaxInquiry, L)
<1>1. p \in Tasks /\ TaskOK(t, p, org)
  BY Locals
<1>2. n \in Nat /\ n < L
  BY <1>1, Fields DEF TaskOK, PollOK
<1>3. refs \in Seq(Uids)
  BY RefsKnown
<1>4. L \in Nat /\ DOMAIN refs = 1 .. L
  <2> HIDE DEF refs
  <2> QED
    BY <1>3
<1>5. Asked(t) = SubSeq(refs, n + 1, last)
  BY RefsAre DEF Asked
<1> HIDE DEF n, L, refs
<1>6. last \in Nat /\ n <= last /\ last <= L
  BY <1>2, <1>4, PipelineAssumption DEF Least
<1> HIDE DEF last
<1>7. Asked(t) = [i \in 1 .. last - n |-> refs[n + i]]
  BY <1>2, <1>3, <1>4, <1>5, <1>6
<1>8. ToSet(Asked(t)) = Named(refs, n + 1, last)
  <2>1. ASSUME NEW u \in ToSet(Asked(t)) PROVE u \in Named(refs, n + 1, last)
    <3>1. PICK i \in 1 .. last - n : u = refs[n + i]
      BY <1>7, <2>1 DEF ToSet
    <3>2. n + i \in n + 1 .. last
      BY <1>2, <1>6
    <3> QED
      BY <3>1, <3>2 DEF Named
  <2>2. ASSUME NEW u \in Named(refs, n + 1, last) PROVE u \in ToSet(Asked(t))
    <3>1. PICK k \in n + 1 .. last : u = refs[k]
      BY <2>2 DEF Named
    <3>2. k - n \in 1 .. last - n /\ n + (k - n) = k
      BY <1>2, <1>6
    <3>3. Asked(t)[k - n] = u /\ k - n \in DOMAIN Asked(t)
      BY <1>7, <3>1, <3>2
    <3> QED
      BY <3>3 DEF ToSet
  <2> QED
    BY <2>1, <2>2
<1>9. IsFiniteSet(ToSet(Asked(t)))
  <2>1. IsFiniteSet(n + 1 .. last)
    BY <1>2, <1>6, FS_Interval
  <2>2. IsFiniteSet({refs[k] : k \in n + 1 .. last})
    <3> DEFINE f == [k \in n + 1 .. last |-> refs[k]]
    <3>1. f \in Surjection(n + 1 .. last, {refs[k] : k \in n + 1 .. last})
      BY DEF Surjection
    <3> QED
      BY <2>1, <3>1, FS_Surjection
  <2> QED
    BY <1>8, <2>2 DEF Named
<1> QED
  BY <1>2, <1>6, <1>8, <1>9 DEF n, L, refs, last

\* An order of a finite set has each of its elements in one place.
LEMMA OrderIs ==
  ASSUME NEW S, IsFiniteSet(S), NEW a \in SetToSeqs(S)
  PROVE  /\ a \in Seq(S)
         /\ \A i, j \in DOMAIN a : a[j] = a[i] => j = i
         /\ \A u \in S : \E i \in DOMAIN a : a[i] = u
<1> DEFINE n == Cardinality(S)
<1>1. n \in Nat
  BY FS_CardinalityType
<1>2. a \in [1 .. n -> S] /\ \A i, j \in 1 .. n : i # j => a[i] # a[j]
  BY DEF SetToSeqs
<1>3. ASSUME NEW u \in S, \A i \in 1 .. n : a[i] # u PROVE FALSE
  <2> DEFINE rest == S \ {u}
  <2>1. IsFiniteSet(rest) /\ Cardinality(rest) = n - 1
    BY FS_RemoveElement
  <2>2. a \in [1 .. n -> rest]
    BY <1>2, <1>3
  <2>3. IsFiniteSet(1 .. n) /\ Cardinality(1 .. n) = n
    <3> HIDE DEF n
    <3>1. 1 \in Int /\ n \in Int
      BY <1>1
    <3>2. IsFiniteSet(1 .. n) /\ Cardinality(1 .. n) = IF 1 > n THEN 0 ELSE n - 1 + 1
      BY <3>1, FS_Interval
    <3> QED
      BY <1>1, <3>2
  <2>4. Cardinality(rest) < Cardinality(1 .. n)
    <3> HIDE DEF n, rest
    <3> QED
      BY <1>1, <2>1, <2>3
  <2> HIDE DEF n, rest
  <2>5. \E x, y \in 1 .. n : x # y /\ a[x] = a[y]
    BY <2>1, <2>2, <2>3, <2>4, FS_PigeonHole
  <2> QED
    BY <1>2, <2>5
<1> HIDE DEF n
<1>4. DOMAIN a = 1 .. n
  BY <1>2
<1> QED
  BY <1>1, <1>2, <1>3, <1>4

\* A request of the inquiry is answered.
LEMMA KeepsSendPoll ==
  ASSUME PipelineInv, NEW t \in Task, SendPoll(t)
  PROVE  PipelineInv'
<1> DEFINE p == task[t]
           refs == RefsOf(p.done)
           n == p.start
           last == Least(n + MaxInquiry, Len(refs))
           asked == ToSet(Asked(t))
           Status(missed, u) == IF u \in missed THEN "not_found" ELSE org[u].status
           Told(listed, missed) ==
             [u \in Uids |-> CASE u \in listed         -> Status(missed, u)
                               [] u \in asked \ listed -> "left out"
                               [] OTHER                -> p.told[u]]
           List(order, missed) ==
             [i \in DOMAIN order |-> [ref |-> order[i], status |-> Status(missed, order[i])]]
<1>1. p \in Tasks /\ task \in [Task -> Tasks] /\ TaskOK(t, p, org) /\ org \in [Uids -> Entries]
  BY Locals
<1>2. PICK listed \in SUBSET asked : \E missed \in SUBSET listed, order \in SetToSeqs(listed) :
        /\ At(t, "poll") /\ task[t].http = "out"
        /\ task' = [task EXCEPT ![t].http = "back", ![t].told = Told(listed, missed),
                                ![t].answer = List(order, missed)]
        /\ UNCHANGED <<key, org, serials>>
  BY DEF SendPoll
<1>3. PICK missed \in SUBSET listed, order \in SetToSeqs(listed) :
        /\ At(t, "poll") /\ task[t].http = "out"
        /\ task' = [task EXCEPT ![t].http = "back", ![t].told = Told(listed, missed),
                                ![t].answer = List(order, missed)]
        /\ UNCHANGED <<key, org, serials>>
  BY <1>2
<1> DEFINE a == List(order, missed)
           told == Told(listed, missed)
           q == [p EXCEPT !.http = "back", !.told = told, !.answer = a]
<1>4. p.at = "poll" /\ task' = [task EXCEPT ![t] = q]
      /\ keyLock' = keyLock /\ keyKnown' = keyKnown /\ UNCHANGED <<org, serials>>
  BY <1>1, <1>3 DEF At, key
<1>5. /\ n \in Nat /\ last \in Nat /\ n <= last /\ last <= Len(refs)
      /\ asked = Named(refs, n + 1, last) /\ IsFiniteSet(asked)
  BY <1>4, AskedIs
<1>6. refs \in Seq(Uids) /\ \A i \in 1 .. Len(refs) : org[refs[i]].status # "unknown"
  BY RefsKnown
<1>7. \A i, j \in 1 .. Len(refs) : refs[j] = refs[i] => j = i
  <2>1. \A i, j \in DOMAIN refs : refs[j] = refs[i] => j = i
    BY RefsDistinct
  <2> HIDE DEF refs
  <2>2. DOMAIN refs = 1 .. Len(refs)
    BY <1>6
  <2> QED
    BY <2>1, <2>2
<1>8. p.told \in [Uids -> Said]
  BY <1>1, Fields
<1> HIDE DEF refs, n, last, asked
<1>9. /\ order \in Seq(listed) /\ \A i, j \in DOMAIN order : order[j] = order[i] => j = i
      /\ \A u \in listed : \E i \in DOMAIN order : order[i] = u
  <2>1. IsFiniteSet(listed)
    BY <1>5, FS_Subset
  <2> QED
    BY <2>1, OrderIs
<1>10. asked \subseteq Uids /\ \A u \in asked : org[u].status \in {"in_progress", "ruled"}
  <2>1. ASSUME NEW u \in asked PROVE u \in Uids /\ org[u].status \in {"in_progress", "ruled"}
    <3>1. PICK k \in n + 1 .. last : u = refs[k]
      BY <1>5 DEF Named
    <3>2. Len(refs) \in Nat
      BY <1>6
    <3>3. k \in 1 .. Len(refs)
      BY <1>5, <3>2
    <3>4. u \in Uids /\ org[u].status # "unknown"
      BY <1>6, <3>1, <3>3
    <3> QED
      BY <1>1, <3>4 DEF Entries
  <2> QED
    BY <2>1
<1>11. \A u \in listed : /\ Status(missed, u) \in Statuses
                         /\ Status(missed, u) = "ruled" => org[u].status = "ruled"
  BY <1>10 DEF Statuses
<1> HIDE DEF Status
<1>12. /\ a \in Seq(Results) /\ DOMAIN a = DOMAIN order
       /\ \A i \in DOMAIN a : a[i].ref = order[i] /\ a[i].status = Status(missed, order[i])
  <2>1. Len(order) \in Nat /\ DOMAIN order = 1 .. Len(order)
    BY <1>9
  <2>2. \A i \in DOMAIN order : [ref |-> order[i], status |-> Status(missed, order[i])] \in Results
    <3>1. \A i \in DOMAIN order : order[i] \in listed
      BY <1>9
    <3> QED
      BY <1>10, <1>11, <3>1 DEF Results
  <2>3. a \in [1 .. Len(order) -> Results]
    BY <2>1, <2>2
  <2> QED
    BY <2>1, <2>3
<1>13. \A u \in Uids : told[u] = IF u \in listed THEN Status(missed, u)
                                 ELSE IF u \in asked THEN "left out" ELSE p.told[u]
  OBVIOUS
<1>14. told \in [Uids -> Said]
  <2>1. \A u \in Uids : told[u] \in Said
    <3> HIDE DEF told
    <3> QED
      BY <1>8, <1>11, <1>13 DEF Said
  <2> QED
    BY <2>1
<1> HIDE DEF a, told
<1>15. q \in Tasks /\ q.at = "poll" /\ q.http = "back" /\ q.batch = p.batch
       /\ q.packets = p.packets /\ q.done = p.done /\ q.answer = a /\ q.results = p.results
       /\ q.start = n /\ q.told = told
  BY <1>1, <1>4, <1>12, <1>14 DEF Tasks, Places, n
<1> HIDE DEF q
<1>16. PollOK(q, org)
  <2>1. Reports(a, asked, told, org)
    <3>1. ASSUME NEW i \in DOMAIN a
          PROVE  /\ a[i].ref \in asked /\ a[i].status = told[a[i].ref]
                 /\ \A j \in DOMAIN a : a[j].ref = a[i].ref => j = i
      <4>1. order[i] \in listed /\ order[i] \in Uids
        BY <1>9, <1>10, <1>12
      <4>2. told[order[i]] = Status(missed, order[i])
        BY <1>13, <4>1
      <4> QED
        BY <1>9, <1>12, <4>1, <4>2
    <3>2. ASSUME NEW u \in asked
          PROVE  /\ told[u] # "not asked"
                 /\ told[u] # "left out" => \E i \in DOMAIN a : a[i].ref = u
                 /\ told[u] = "ruled" => org[u].status = "ruled"
      <4>1. u \in Uids
        BY <1>10
      <4>2. CASE u \in listed
        <5>1. told[u] = Status(missed, u)
          BY <1>13, <4>1, <4>2
        <5>2. \E i \in DOMAIN a : a[i].ref = u
          BY <1>9, <1>12, <4>2
        <5> QED
          BY <1>11, <4>2, <5>1, <5>2 DEF Statuses
      <4>3. CASE u \notin listed
        <5>1. told[u] = "left out"
          BY <1>13, <4>1, <4>3
        <5> QED
          BY <5>1
      <4> QED
        BY <4>2, <4>3
    <3> QED
      BY <3>1, <3>2 DEF Reports
  <2>2. Reports(p.results, Named(refs, 1, n), p.told, org) /\ refs # <<>> /\ n < Len(refs)
    BY <1>1, <1>4 DEF TaskOK, PollOK, refs, n
  <2>3. \A u \in Named(refs, 1, n) : told[u] = p.told[u]
    <3> SUFFICES ASSUME NEW i \in 1 .. n PROVE told[refs[i]] = p.told[refs[i]]
      BY DEF Named
    <3>1. Len(refs) \in Nat
      BY <1>6
    <3>2. i \in 1 .. Len(refs) /\ \A k \in n + 1 .. last : k \in 1 .. Len(refs) /\ k # i
      BY <1>5, <3>1
    <3>3. \A k \in n + 1 .. last : refs[k] # refs[i]
      BY <1>7, <3>2
    <3>4. refs[i] \notin asked
      BY <1>5, <3>3 DEF Named
    <3>5. refs[i] \in Uids
      BY <1>6, <3>2
    <3> QED
      BY <1>13, <3>4, <3>5
  <2>4. Reports(p.results, Named(refs, 1, n), told, org)
    BY <2>2, <2>3 DEF Reports
  <2> QED
    BY <1>5, <1>15, <2>1, <2>2, <2>4 DEF PollOK, refs, n, last
<1>17. TaskOK(t, q, org) /\ q.packets = <<>>
  BY <1>1, <1>4, <1>12, <1>15, <1>16, AwaitOK
<1>18. CallOK(q, call[t])
  BY <1>4, NoCall
<1>19. keyKnown' \in BOOLEAN /\ keyLock' \in Task \cup {Nobody}
      /\ (\A s \in Task : s # t => ((keyLock' = s) <=> (keyLock = s)))
      /\ ((keyLock' = t) <=> (q.at = "key"))
  <2>1. q.at # "key" /\ p.at # "key"
    BY <1>4, <1>15
  <2> QED
    BY <1>4, <2>1, Locals
<1> QED
  BY <1>4, <1>15, <1>17, <1>18, <1>19, QuietStep

\* Two lists that report on different uids make one that reports on all of them.
LEMMA ReportsJoin ==
  ASSUME NEW a \in Seq(Results), NEW c \in Seq(Results), NEW s, Joins(s, a, c),
         NEW A, NEW C, A \cap C = {}, NEW told, NEW o,
         Reports(a, A, told, o), Reports(c, C, told, o)
  PROVE  Reports(s, A \cup C, told, o)
<1> DEFINE n == Len(a)
           m == Len(c)
<1>1. n \in Nat /\ m \in Nat /\ DOMAIN a = 1 .. n /\ DOMAIN c = 1 .. m
  OBVIOUS
<1>2. /\ DOMAIN s = 1 .. n + m
      /\ \A i \in 1 .. n : s[i] = a[i]
      /\ \A i \in 1 .. m : s[n + i] = c[i]
  BY DEF Joins
<1> HIDE DEF n, m
<1>3. \A i \in DOMAIN s : i \in 1 .. n \/ \E k \in 1 .. m : i = n + k
  <2> SUFFICES ASSUME NEW i \in DOMAIN s, i \notin 1 .. n PROVE \E k \in 1 .. m : i = n + k
    OBVIOUS
  <2>1. i - n \in 1 .. m /\ i = n + (i - n)
    BY <1>1, <1>2
  <2> QED
    BY <2>1
<1>4. /\ \A i \in 1 .. n : /\ a[i].ref \in A /\ a[i].status = told[a[i].ref]
                           /\ \A j \in 1 .. n : a[j].ref = a[i].ref => j = i
      /\ \A i \in 1 .. m : /\ c[i].ref \in C /\ c[i].status = told[c[i].ref]
                           /\ \A j \in 1 .. m : c[j].ref = c[i].ref => j = i
  BY <1>1 DEF Reports
<1>5. ASSUME NEW i \in DOMAIN s
      PROVE  /\ s[i].ref \in A \cup C /\ s[i].status = told[s[i].ref]
             /\ \A j \in DOMAIN s : s[j].ref = s[i].ref => j = i
  <2>1. CASE i \in 1 .. n
    <3>1. s[i].ref \in A /\ s[i].status = told[s[i].ref]
      BY <1>2, <1>4, <2>1
    <3>2. ASSUME NEW j \in DOMAIN s, s[j].ref = s[i].ref PROVE j = i
      <4>1. j \in 1 .. n
        <5> SUFFICES ASSUME NEW k \in 1 .. m, j = n + k PROVE FALSE
          BY <1>3
        <5>1. s[j].ref \in C
          BY <1>2, <1>4
        <5> QED
          BY <3>1, <3>2, <5>1
      <4> QED
        BY <1>2, <1>4, <2>1, <3>2, <4>1
    <3> QED
      BY <3>1, <3>2
  <2>2. ASSUME NEW k \in 1 .. m, i = n + k
        PROVE  /\ s[i].ref \in A \cup C /\ s[i].status = told[s[i].ref]
               /\ \A j \in DOMAIN s : s[j].ref = s[i].ref => j = i
    <3>1. s[i].ref \in C /\ s[i].status = told[s[i].ref] /\ s[i] = c[k]
      BY <1>2, <1>4, <2>2
    <3>2. ASSUME NEW j \in DOMAIN s, s[j].ref = s[i].ref PROVE j = i
      <4>1. j \notin 1 .. n
        <5> SUFFICES ASSUME j \in 1 .. n PROVE FALSE
          OBVIOUS
        <5>1. s[j].ref \in A
          BY <1>2, <1>4
        <5> QED
          BY <3>1, <3>2, <5>1
      <4>2. PICK l \in 1 .. m : j = n + l
        BY <1>3, <4>1
      <4>3. s[j] = c[l]
        BY <1>2, <4>2
      <4>4. l = k
        BY <1>4, <3>1, <3>2, <4>3
      <4> QED
        BY <2>2, <4>2, <4>4
    <3> QED
      BY <3>1, <3>2
  <2> QED
    BY <1>3, <2>1, <2>2
<1>6. ASSUME NEW u \in A \cup C
      PROVE  /\ told[u] # "not asked"
             /\ told[u] # "left out" => \E i \in DOMAIN s : s[i].ref = u
             /\ told[u] = "ruled" => o[u].status = "ruled"
  <2>1. told[u] # "not asked" /\ (told[u] = "ruled" => o[u].status = "ruled")
    BY DEF Reports
  <2>2. ASSUME told[u] # "left out" PROVE \E i \in DOMAIN s : s[i].ref = u
    <3>1. CASE u \in A
      <4>1. PICK i \in 1 .. n : a[i].ref = u
        BY <1>1, <2>2, <3>1 DEF Reports
      <4>2. i \in DOMAIN s /\ s[i].ref = u
        BY <1>1, <1>2, <4>1
      <4> QED
        BY <4>2
    <3>2. CASE u \in C
      <4>1. PICK i \in 1 .. m : c[i].ref = u
        BY <1>1, <2>2, <3>2 DEF Reports
      <4>2. n + i \in DOMAIN s /\ s[n + i].ref = u
        BY <1>1, <1>2, <4>1
      <4> QED
        BY <4>2
    <3> QED
      BY <3>1, <3>2
  <2> QED
    BY <2>1, <2>2
<1> QED
  BY <1>5, <1>6 DEF Reports

\* The inquiry goes on, or ends; and with it, perhaps, the wait.
LEMMA KeepsPollAnswered ==
  ASSUME PipelineInv, NEW t \in Task, PollAnswered(t)
  PROVE  PipelineInv'
<1> DEFINE p == task[t]
           refs == RefsOf(p.done)
           results == p.results \o p.answer
           n == p.start
           L == Len(refs)
           upto == Least(n + MaxInquiry, L)
           more == n + MaxInquiry < L
           ends == ~ Pending(results) \/ p.left = 0
           place == IF ends THEN "done" ELSE "sleep"
           sleep == IF ends THEN 0 ELSE Least(PollInterval, p.left)
           next == [p EXCEPT !.http = "out", !.answer = <<>>, !.start = n + MaxInquiry,
                             !.results = results]
           last == [p EXCEPT !.at = place, !.http = "none", !.answer = <<>>, !.start = 0,
                             !.results = results, !.sleep = sleep]
           q == IF more THEN next ELSE last
<1>1. p \in Tasks /\ task \in [Task -> Tasks] /\ TaskOK(t, p, org)
  BY Locals
<1>2. p.at = "poll" /\ p.http = "back"
      /\ keyLock' = keyLock /\ keyKnown' = keyKnown /\ UNCHANGED <<org, serials>>
  BY DEF PollAnswered, Answered, At, key
<1>3. task' = [task EXCEPT ![t] = q]
  <2>1. References(t) = refs
    BY RefsAre
  <2>2. Looped(t, results) = last /\ NextPoll(t, results) = next /\ (More(t) <=> more)
    BY <2>1 DEF Looped, NextPoll, More
  <2>3. task' = [task EXCEPT ![t] = IF More(t) THEN NextPoll(t, results) ELSE Looped(t, results)]
    BY <1>1 DEF PollAnswered
  <2> QED
    BY <2>2, <2>3
<1>4. refs \in Seq(Uids) /\ refs # <<>> /\ L \in Nat
  <2>1. refs \in Seq(Uids)
    BY RefsKnown
  <2>2. refs # <<>>
    BY <1>1, <1>2 DEF TaskOK, PollOK
  <2> HIDE DEF refs
  <2> QED
    BY <2>1, <2>2
<1>5. p.results \in Seq(Results) /\ p.answer \in Seq(Results) /\ n \in Nat
  <2>1. p.answer \in Seq(Results)
    BY <1>1, <1>2 DEF TaskOK, Form
  <2> QED
    BY <1>1, <2>1, Fields
<1>6. /\ n < L
      /\ Reports(p.results, Named(refs, 1, n), p.told, org)
      /\ Reports(p.answer, Named(refs, n + 1, upto), p.told, org)
  BY <1>1, <1>2 DEF TaskOK, PollOK
<1>7. results \in Seq(Results) /\ Joins(results, p.results, p.answer)
  BY <1>5, Concat
<1>8. \A i, j \in 1 .. L : refs[j] = refs[i] => j = i
  <2>1. \A i, j \in DOMAIN refs : refs[j] = refs[i] => j = i
    BY RefsDistinct
  <2> HIDE DEF refs
  <2>2. DOMAIN refs = 1 .. Len(refs)
    BY <1>4
  <2> QED
    BY <2>1, <2>2
<1> HIDE DEF results, refs, L, n
<1>9. /\ upto \in Nat /\ n <= upto /\ upto <= L
      /\ more => upto = n + MaxInquiry /\ n + MaxInquiry \in Nat
      /\ ~ more => upto = L
  BY <1>4, <1>5, <1>6, PipelineAssumption DEF Least
<1> HIDE DEF upto
<1>10. Reports(results, Named(refs, 1, upto), p.told, org)
  <2>1. Named(refs, 1, n) \cap Named(refs, n + 1, upto) = {}
    <3>1. \A i \in 1 .. n, k \in n + 1 .. upto : i \in 1 .. L /\ k \in 1 .. L /\ i # k
      BY <1>4, <1>5, <1>9
    <3>2. \A i \in 1 .. n, k \in n + 1 .. upto : refs[i] # refs[k]
      BY <1>8, <3>1
    <3> QED
      BY <3>2 DEF Named
  <2>2. Named(refs, 1, n) \cup Named(refs, n + 1, upto) = Named(refs, 1, upto)
    <3>1. \A i : i \in 1 .. upto <=> i \in 1 .. n \/ i \in n + 1 .. upto
      BY <1>5, <1>9
    <3> QED
      BY <3>1 DEF Named
  <2> QED
    BY <1>5, <1>6, <1>7, <2>1, <2>2, ReportsJoin
<1>11. /\ place \in {"done", "sleep"} /\ sleep \in 0 .. MinWait + PollInterval
       /\ place = "done" => ~ Pending(results) \/ p.left = 0
  <2>1. p.left \in Nat
    BY <1>1, Fields, PipelineAssumption
  <2>2. Least(PollInterval, p.left) \in 0 .. MinWait + PollInterval
    BY <2>1, PipelineAssumption DEF Least
  <2>3. 0 \in 0 .. MinWait + PollInterval
    BY PipelineAssumption
  <2> QED
    BY <2>2, <2>3
<1> HIDE DEF place, sleep
<1>12. more => /\ next \in Tasks /\ next.at = "poll" /\ next.http = "out" /\ next.batch = p.batch
               /\ next.packets = p.packets /\ next.done = p.done /\ next.answer = <<>>
               /\ next.results = results /\ next.start = upto /\ next.told = p.told
  <2>1. <<>> \in Seq(Results)
    OBVIOUS
  <2> HIDE DEF more
  <2> QED
    BY <1>1, <1>2, <1>7, <1>9, <2>1 DEF Tasks, Places
<1>13. /\ last \in Tasks /\ last.at = place /\ last.batch = p.batch /\ last.http = "none"
       /\ last.packets = p.packets /\ last.done = p.done /\ last.answer = <<>>
       /\ last.results = results /\ last.left = p.left /\ last.told = p.told
  <2>1. <<>> \in Seq(Results) /\ 0 \in Nat
    OBVIOUS
  <2> QED
    BY <1>1, <1>2, <1>7, <1>11, <2>1 DEF Tasks, Places
<1> HIDE DEF next, last
<1>14. PollOK(q, org)
  <2>1. CASE more
    <3>1. q = next /\ upto < L
      BY <1>9, <2>1
    <3> HIDE DEF q, more
    <3> QED
      BY <1>4, <1>10, <1>12, <2>1, <3>1 DEF PollOK, refs, L
  <2>2. CASE ~ more
    <3>1. q = last /\ upto = L
      BY <1>9, <2>2
    <3> HIDE DEF q, more
    <3> QED
      BY <1>4, <1>10, <1>11, <1>13, <3>1 DEF PollOK, refs, L
  <2> QED
    BY <2>1, <2>2
<1>15. q \in Tasks /\ q.at \in {"sleep", "poll", "done"} /\ q.batch = p.batch
       /\ q.packets = p.packets /\ q.done = p.done /\ q.answer = <<>>
  BY <1>11, <1>12, <1>13
<1> HIDE DEF q
<1>16. q.answer \in Seq(IF q.at = "poll" THEN Results ELSE Uids)
  <2>1. <<>> \in Seq(Results) /\ <<>> \in Seq(Uids)
    OBVIOUS
  <2> QED
    BY <1>15, <2>1
<1>17. TaskOK(t, q, org) /\ q.packets = <<>>
  BY <1>1, <1>2, <1>14, <1>15, <1>16, AwaitOK
<1>18. CallOK(q, call[t])
  BY <1>2, NoCall
<1>19. keyKnown' \in BOOLEAN /\ keyLock' \in Task \cup {Nobody}
      /\ (\A s \in Task : s # t => ((keyLock' = s) <=> (keyLock = s)))
      /\ ((keyLock' = t) <=> (q.at = "key"))
  <2>1. q.at # "key" /\ p.at # "key"
    BY <1>2, <1>15
  <2> QED
    BY <1>2, <2>1, Locals
<1> QED
  BY <1>2, <1>3, <1>15, <1>17, <1>18, <1>19, QuietStep

(***************************************************************************)
(* Every step keeps the invariant.                                         *)
(***************************************************************************)
\* The actions of Next, one by one.
LEMMA NextInv == PipelineInv /\ [Next]_vars => PipelineInv'
<1> SUFFICES ASSUME PipelineInv, [Next]_vars PROVE PipelineInv'
  OBVIOUS
<1>1. ASSUME NEW t \in Task, Step(t) PROVE PipelineInv'
  <2>1. CASE LockServerKey(t) \/ SendServerKey(t) \/ GotServerKey(t)
    BY <2>1, KeepsLockServerKey, KeepsSendServerKey, KeepsGotServerKey
  <2>2. CASE Refuse(t) \/ KeepTaxId(t)
    BY <2>2, KeepsRefuse, KeepsKeepTaxId
  <2>3. CASE Draw(t) \/ DrawGranted(t) \/ DrawDelivered(t) \/ DrawFails(t)
    BY <2>3, KeepsDraw, KeepsDrawGranted, KeepsDrawDelivered, KeepsDrawFails
  <2>4. CASE Built(t) \/ SendPackets(t) \/ PostAnswered(t)
    BY <2>4, KeepsBuilt, KeepsSendPackets, KeepsPostAnswered
  <2>5. CASE Wake(t) \/ SendPoll(t) \/ PollAnswered(t)
    BY <2>5, KeepsWake, KeepsSendPoll, KeepsPollAnswered
  <2>6. CASE RequestFails(t)
    BY <2>6, KeepsRequestFails
  <2> QED
    BY <1>1, <2>1, <2>2, <2>3, <2>4, <2>5, <2>6 DEF Step
<1>2. ASSUME NEW t \in Task, BeginAwait(t) PROVE PipelineInv'
  BY <1>2, KeepsBeginAwait
<1>3. ASSUME NEW t \in Task, NEW b \in Batches, Submit(t, b) PROVE PipelineInv'
  BY <1>3, KeepsSubmit
<1>4. ASSUME NEW u \in Uids, OrgRules(u) PROVE PipelineInv'
  BY <1>4, KeepsOrgRules
<1>5. CASE Tick
  BY <1>5, KeepsTick
<1>6. CASE UNCHANGED vars
  <2>1. task' = task /\ keyKnown' = keyKnown /\ keyLock' = keyLock /\ org' = org
        /\ call' = call /\ issued' = issued
    BY <1>6 DEF vars
  <2>2. \A u, n : Carries(u, n)' <=> Carries(u, n)
    BY <2>1 DEF Carries
  <2>3. Typed' /\ KeyOK'
    BY <2>1 DEF PipelineInv, Typed, KeyOK
  <2>4. SerialsOK'
    BY <2>1, <2>2 DEF PipelineInv, SerialsOK
  <2>5. \A t \in Task : TaskOK(t, task'[t], org') /\ CallOK(task'[t], call'[t])
    BY <2>1 DEF PipelineInv
  <2> QED
    BY <2>3, <2>4, <2>5 DEF PipelineInv
<1> QED
  BY <1>1, <1>2, <1>3, <1>4, <1>5, <1>6 DEF Next

\* What every task holds, what the organization has of it and who carries a serial, in every
\* state of submit and await_results: the inductive invariant.
THEOREM PipelineInvariant == Spec => []PipelineInv
BY InitInv, NextInv, PTL DEF Spec

\* The locals of every coroutine, the cached key and its lock, and the organization's records
\* have their types; and the lock is held exactly by the task that fetches the key.
THEOREM WellTyped == Spec => []TypeOK
<1>1. PipelineInv => TypeOK
  <2> SUFFICES ASSUME PipelineInv PROVE TypeOK
    OBVIOUS
  <2>1. ASSUME NEW t \in Task
        PROVE  LET r == task[t]
               IN /\ r.at \in Places /\ r.http \in {"none", "out", "back"}
                  /\ r.batch \in Batches \cup {<<>>}
                  /\ r.packets \in Seq(TaxIds) /\ r.done \in Seq([tax : TaxIds, ref : Refs])
                  /\ r.answer \in Seq(IF r.at = "poll" THEN [ref : Uids, status : Statuses] ELSE Uids)
                  /\ r.start \in Nat /\ r.results \in Seq([ref : Uids, status : Statuses])
                  /\ r.sleep \in 0 .. MinWait + PollInterval
                  /\ r.left \in 0 .. Timeout /\ r.told \in [Uids -> Said]
                  /\ (keyLock = t) <=> (r.at = "key")
    <3> DEFINE r == task[t]
    <3>1. r \in Tasks /\ TaskOK(t, r, org) /\ ((keyLock = t) <=> (r.at = "key"))
      BY Locals
    <3>2. r.answer \in Seq(IF r.at = "poll" THEN Results ELSE Uids)
      BY <3>1 DEF TaskOK, Form
    <3> HIDE DEF r
    <3>3. /\ r.at \in Places /\ r.http \in {"none", "out", "back"}
          /\ r.batch \in Batches \cup {<<>>}
          /\ r.packets \in Seq(TaxIds) /\ r.done \in Seq(Subs) /\ r.results \in Seq(Results)
          /\ r.sleep \in 0 .. MinWait + PollInterval /\ r.left \in 0 .. Timeout
          /\ r.start \in Nat /\ r.told \in [Uids -> Said]
      BY <3>1, Fields
    <3> QED
      BY <3>1, <3>2, <3>3 DEF r, Subs, Results
  <2>2. /\ keyKnown \in BOOLEAN /\ keyLock \in Task \cup {Nobody}
        /\ org \in [Uids -> [status : {"unknown", "in_progress", "ruled"}, tax : TaxIds]]
    BY DEF PipelineInv, Typed, Entries
  <2> QED
    BY <2>1, <2>2 DEF TypeOK
<1> QED
  BY <1>1, PipelineInvariant, PTL

\* submit matches the organization's answer to the invoices by uid: no submission carries the
\* reference of another invoice's packet, or a tax id other than the organization's.
THEOREM ResultsAreOwn == Spec => []OwnResults
<1>1. PipelineInv => OwnResults
  <2> SUFFICES ASSUME PipelineInv, NEW t \in Task PROVE OwnOK(t, task[t], org)
    BY DEF OwnResults, OwnOK
  <2> QED
    BY Locals DEF TaskOK
<1> QED
  BY <1>1, PipelineInvariant, PTL

\* submit sends a chunk only after rules.validate accepted all its invoices, whatever the size
\* of the batch and of a chunk.
THEOREM ChunksGoOutWhole == Spec => []OnlyWholeChunksGoOut
<1>1. PipelineInv => OnlyWholeChunksGoOut
  <2> SUFFICES ASSUME PipelineInv, NEW t \in Task PROVE KnownOK(t, task[t], org)
    BY DEF OnlyWholeChunksGoOut, KnownOK
  <2> QED
    BY Locals DEF TaskOK
<1> QED
  BY <1>1, PipelineInvariant, PTL

\* Tasks that build at the same time send no generated tax id twice: a serial of the source
\* reaches one packet.
THEOREM TaxIdsAreDistinct == Spec => []DistinctTaxIds
<1>1. PipelineInv => DistinctTaxIds
  <2> SUFFICES ASSUME PipelineInv, NEW u \in Uids, NEW v \in Uids,
                      org[u].tax # Given, org[u].tax = org[v].tax
               PROVE  u = v
    BY DEF DistinctTaxIds
  <2>1. org[u] \in Entries
    BY DEF PipelineInv, Typed
  <2>2. org[u].tax \in 1 .. MaxSerial
    BY <2>1, PipelineAssumption DEF Entries, TaxIds, Given
  <2>3. Carries(u, org[u].tax) /\ Carries(v, org[u].tax)
    BY DEF Carries
  <2> QED
    BY <2>2, <2>3 DEF PipelineInv, SerialsOK
<1> QED
  BY <1>1, PipelineInvariant, PTL

\* await_results hands back, once each, everything its last inquiry was told of the references,
\* whatever the answers left out and however many requests took them; it left none unasked and
\* invents no ruling.
THEOREM InquiriesAreWhole == Spec => []HandsBackAllItHeard
<1>1. PipelineInv => HandsBackAllItHeard
  <2> SUFFICES ASSUME PipelineInv, NEW t \in Task, Settled(t)
               PROVE  /\ \A u \in ToSet(References(t)) :
                           /\ task[t].told[u] # "not asked"
                           /\ task[t].told[u] # "left out" =>
                                [ref |-> u, status |-> task[t].told[u]] \in ToSet(task[t].results)
                      /\ \A i \in DOMAIN task[t].results :
                           /\ task[t].results[i].ref \in ToSet(References(t))
                           /\ task[t].results[i].status = task[t].told[task[t].results[i].ref]
                           /\ task[t].results[i].status = "ruled" =>
                                org[task[t].results[i].ref].status = "ruled"
                           /\ \A j \in DOMAIN task[t].results :
                                task[t].results[j].ref = task[t].results[i].ref => j = i
    BY DEF HandsBackAllItHeard
  <2> DEFINE r == task[t].results
             told == task[t].told
             refs == RefsOf(task[t].done)
             S == Named(refs, 1, Len(refs))
  <2>1. task[t].at = "done" /\ refs # <<>> /\ References(t) = refs
    BY RefsAre DEF Settled, At
  <2>2. Reports(r, S, told, org) /\ r \in Seq(Results) /\ refs \in Seq(Uids)
    BY <2>1, Locals, Fields, RefsKnown DEF TaskOK, PollOK
  <2>3. ToSet(References(t)) = S
    <3> HIDE DEF refs
    <3>1. DOMAIN refs = 1 .. Len(refs)
      BY <2>2
    <3> QED
      BY <2>1, <3>1 DEF ToSet, Named
  <2> HIDE DEF S, refs
  <2>4. ASSUME NEW u \in S
        PROVE  told[u] # "not asked" /\ (told[u] # "left out" => [ref |-> u, status |-> told[u]] \in ToSet(r))
    <3>1. told[u] # "not asked"
      BY <2>2 DEF Reports
    <3>2. ASSUME told[u] # "left out" PROVE [ref |-> u, status |-> told[u]] \in ToSet(r)
      <4>1. PICK i \in DOMAIN r : r[i].ref = u
        BY <2>2, <3>2 DEF Reports
      <4>2. r[i].status = told[u]
        BY <2>2, <4>1 DEF Reports
      <4>3. r[i] \in Results
        <5> HIDE DEF r
        <5> QED
          BY <2>2, <4>1
      <4>4. r[i] = [ref |-> u, status |-> told[u]]
        BY <4>1, <4>2, <4>3 DEF Results
      <4> QED
        BY <4>4 DEF ToSet
    <3> QED
      BY <3>1, <3>2
  <2>5. ASSUME NEW i \in DOMAIN r
        PROVE  /\ r[i].ref \in S /\ r[i].status = told[r[i].ref]
               /\ r[i].status = "ruled" => org[r[i].ref].status = "ruled"
               /\ \A j \in DOMAIN r : r[j].ref = r[i].ref => j = i
    BY <2>2 DEF Reports
  <2> QED
    BY <2>3, <2>4, <2>5
<1> QED
  BY <1>1, PipelineInvariant, PTL

\* await_results returns with an invoice still IN_PROGRESS only when its timeout has run out.
THEOREM WaitsUntilDeadline == Spec => []GivesUpAtDeadline
<1>1. PipelineInv => GivesUpAtDeadline
  <2> SUFFICES ASSUME PipelineInv, NEW t \in Task, Settled(t), Pending(task[t].results)
               PROVE  task[t].left = 0
    BY DEF GivesUpAtDeadline
  <2>1. task[t].at = "done" /\ RefsOf(task[t].done) # <<>>
    BY RefsAre DEF Settled, At
  <2> QED
    BY <2>1, Locals DEF TaskOK, PollOK
<1> QED
  BY <1>1, PipelineInvariant, PTL

=============================================================================
