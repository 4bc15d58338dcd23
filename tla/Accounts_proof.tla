--------------------------- MODULE Accounts_proof ---------------------------
(***************************************************************************)
(* Proofs about accounts and sessions, for any number of requests at the   *)
(* same time.  The inductive invariant says what a request holds at each   *)
(* of its places, what is still true of a row it read, and what a token    *)
(* can no longer do.                                                       *)
(***************************************************************************)
EXTENDS Accounts, TLAPS

Places == {"idle", "get", "epoch", "answer", "mint", "lookup", "hash", "verify", "change", "refresh", "byname",
           "insert", "target", "reset", "role", "activity", "write", "guard", "purge", "delete", "revoke",
           "sweep", "sweepWrite"}
Ops    == {"-", "login", "me", "revoke_all", "password", "create", "update", "delete", "purge", "revoke_one"}
Tokens == [sub : Nat, iat : Nat, key : Nat, pw : Passwords, late : BOOLEAN]
Bodies == Login \cup NewName \cup Patch \cup {None}
Reqs   == [pc : Places, op : Ops, tok : Tokens \cup {None}, body : Bodies, id : Nat, me : Rows \cup {None},
           tgt : Rows \cup {None}, clock : Nat, barred : BOOLEAN]

Targeted == {"update", "delete", "purge", "revoke_one"}

\* What a request holds at each place.
Form(q, toks, next, time) ==
  /\ q.pc = "idle" => q.me = None /\ q.tgt = None /\ ~ q.barred
  /\ q.pc # "idle" => q.op # "-" /\ (q.op # "login" => q.tok \in toks)
  /\ q.op = "login" => q.body \in Login /\ ~ q.barred /\ q.tgt = None
  /\ q.op = "password" => q.body \in Login
  /\ q.op = "create" => q.body \in NewName
  /\ q.op = "update" => q.body \in Patch
  /\ q.op \in Targeted \/ q.pc \in {"hash", "refresh", "mint"} => q.id \in 1 .. next - 1
  /\ q.pc \in {"lookup", "hash"} => q.op = "login"
  /\ q.pc \in {"get", "epoch"} => q.op # "login" /\ q.me = None
  /\ q.pc \in {"get", "target"} => q.tgt = None
  /\ q.pc = "epoch" => q.tgt # None
  /\ q.pc \in {"verify", "change"} => q.op = "password"
  /\ q.pc \in {"byname", "insert"} => q.op = "create"
  /\ q.pc = "target" => q.op \in Targeted /\ q.me # None
  /\ q.pc \in {"reset", "role", "activity", "write"} => q.op = "update" /\ q.me # None /\ q.tgt # None
  /\ q.pc \in {"activity", "write"} => q.body.role \in Roles \cup {"-"}
  /\ q.pc = "guard" => q.op \in {"delete", "purge"} /\ q.me # None /\ q.tgt # None
  /\ q.pc = "delete" => q.op = "delete" /\ q.me # None /\ q.tgt # None
  /\ q.pc = "purge" => q.op = "purge" /\ q.me # None /\ q.tgt # None
  /\ q.pc = "revoke" => q.op \in Targeted
  /\ q.pc \in {"sweep", "sweepWrite"} => q.op = "revoke_all"
  /\ q.clock <= time

\* A row it read is as old as its cutoff: a token refused before is refused by it,
\* and one let in by it was made for its password.
Seen(q, cut, gone, swept) ==
  /\ q.barred => q.tok.iat \in gone
  /\ q.barred /\ ~ swept => q.me = None
  /\ q.barred /\ ~ swept /\ q.pc = "epoch" => q.tok.iat < cut \/ q.tok.iat < q.tgt.cutoff
  /\ q.pc = "epoch" /\ ~ q.tok.late /\ q.tok.iat >= q.tgt.cutoff => q.tok.pw = q.tgt.pw
  /\ q.me # None /\ q.op # "login" /\ ~ q.tok.late => q.tok.pw = q.me.pw

Holds(q) == q.op \in {"update", "delete", "purge"} /\ q.me # None /\ q.tgt # None

IsAdmin(row) == row # None /\ row.role = "admin" /\ row.active

AnotherAdmin(rows, i) == \E j \in Ids \ {i} : IsAdmin(rows[j])

\* A request about to change an account knows its role and activity, and once it
\* has passed a guard there is another administrator.
Faithful(q, rows, race) ==
  ~ race /\ Holds(q) /\ q.pc \in {"reset", "role", "activity", "write", "guard", "delete", "purge"} =>
    /\ rows[q.id] # None /\ rows[q.id].role = q.tgt.role /\ rows[q.id].active = q.tgt.active
    /\ q.tgt.role = "admin" /\ q.tgt.active =>
         /\ q.pc \in {"activity", "write"} /\ q.body.role \notin {"-", "admin"} => AnotherAdmin(rows, q.id)
         /\ q.pc = "write" /\ q.body.active = "off" => AnotherAdmin(rows, q.id)
         /\ q.pc \in {"delete", "purge"} => AnotherAdmin(rows, q.id)

\* The table, its ids and its cutoffs.
Table(rows, next, time) ==
  /\ rows \in [Ids -> Rows \cup {None}]
  /\ \A i \in Ids : rows[i] # None => i < next /\ rows[i].cutoff <= time
  /\ \A i, j \in Ids : rows[i] # None /\ rows[j] # None /\ rows[i].name = rows[j].name => i = j

\* A token refused for good stays so; one that is not late has its account's password.
Sound(t, rows, cut, gone, swept) ==
  /\ t.iat \in gone /\ ~ swept => rows[t.sub] = None \/ t.iat < cut \/ t.iat < rows[t.sub].cutoff
  /\ ~ t.late /\ rows[t.sub] # None /\ t.iat >= rows[t.sub].cutoff => t.pw = rows[t.sub].pw

Issued(toks, next, time, boots) ==
  /\ \A t \in toks : t \in Tokens /\ t.sub \in 1 .. next - 1 /\ t.iat \in 1 .. time /\ t.key \in 1 .. boots
  /\ \A t, u \in toks : t.iat = u.iat => t = u

Scalars ==
  /\ nextId \in 3 .. MaxId + 1 /\ now \in Nat /\ epoch \in 0 .. now
  /\ starts \in Nat /\ secret \in 1 .. starts
  /\ raced \in BOOLEAN /\ sweepRaced \in BOOLEAN
  /\ out \subseteq 1 .. now

Inv ==
  /\ Scalars
  /\ Table(users, nextId, now)
  /\ Issued(tokens, nextId, now, starts)
  /\ \A t \in tokens : Sound(t, users, epoch, out, sweepRaced)
  /\ req \in [Request -> Reqs]
  /\ \A r \in Request : /\ Form(req[r], tokens, nextId, now)
                        /\ Seen(req[r], epoch, out, sweepRaced)
                        /\ Faithful(req[r], users, raced)
  /\ ~ raced => \E i \in Ids : IsAdmin(users[i])

\* The rows of ids given before, as a step may change them: a row that is gone
\* stays away, a cutoff never falls, a new password comes with a new cutoff.
Later(old, new, time) ==
  new # None => /\ old # None
                /\ old.cutoff <= new.cutoff
                /\ new.pw = old.pw \/ time < new.cutoff

\* The history of refused tokens.
Refused == out' = out \cup {t.iat : t \in {t \in tokens : Dead(t)'}}

\* What a step may do to the rows of the tokens: one that is refused stays so.
LEMMA TokensKeep ==
  ASSUME Inv, Refused, Scalars', nextId <= nextId', now <= now',
         epoch <= epoch' \/ sweepRaced', sweepRaced => sweepRaced',
         Table(users', nextId', now'), \A i \in 1 .. nextId - 1 : Later(users[i], users'[i], now),
         \A t \in tokens' \ tokens : now < t.iat /\ Sound(t, users', epoch', {}, sweepRaced')
  PROVE  \A t \in tokens' : Sound(t, users', epoch', out', sweepRaced')
<1>1. ASSUME NEW t \in tokens PROVE Sound(t, users', epoch', out', sweepRaced')
  <2>1. t.sub \in 1 .. nextId - 1 /\ t.sub \in Ids /\ t.iat \in 1 .. now /\ t.sub \in 1 .. nextId' - 1
    BY AccountsAssumption DEF Inv, Issued, Scalars, Ids
  <2>2. t.iat \in out' => t.iat \in out \/ Dead(t)'
    BY DEF Refused, Inv, Issued
  <2>3. Dead(t)' => users'[t.sub] = None \/ t.iat < epoch' \/ t.iat < users'[t.sub].cutoff
    BY <2>1 DEF Dead, InTime, Scalars, Table, Rows
  <2>4. Later(users[t.sub], users'[t.sub], now) /\ Sound(t, users, epoch, out, sweepRaced)
    BY <2>1 DEF Inv
  <2>5. users[t.sub] \in Rows \cup {None} /\ users'[t.sub] \in Rows \cup {None}
    BY <2>1 DEF Inv, Table
  <2> QED
    BY <2>1, <2>2, <2>3, <2>4, <2>5 DEF Sound, Later, Rows, Scalars, Inv
<1>2. ASSUME NEW t \in tokens' \ tokens PROVE Sound(t, users', epoch', out', sweepRaced')
  <2>1. t.iat \notin out'
    BY <1>2 DEF Refused, Inv, Scalars, Issued
  <2> QED
    BY <1>2, <2>1 DEF Sound
<1> QED
  BY <1>1, <1>2

\* A step of a request, for all that concerns the others.
LEMMA StepKeeps ==
  ASSUME Inv, Refused,
         NEW r \in Request, NEW q \in Reqs, req' = [req EXCEPT ![r] = q],
         Scalars', nextId <= nextId', now <= now', starts <= starts',
         epoch <= epoch' \/ sweepRaced', sweepRaced => sweepRaced', raced => raced',
         Table(users', nextId', now'), \A i \in 1 .. nextId - 1 : Later(users[i], users'[i], now),
         tokens \subseteq tokens', Issued(tokens', nextId', now', starts'),
         \A t \in tokens' \ tokens : now < t.iat /\ Sound(t, users', epoch', {}, sweepRaced'),
         Form(q, tokens', nextId', now'), Seen(q, epoch', out', sweepRaced'),
         \A s \in Request : Faithful(req'[s], users', raced'),
         ~ raced' => \E i \in Ids : IsAdmin(users'[i])
  PROVE  Inv'
<1>1. \A t \in tokens' : Sound(t, users', epoch', out', sweepRaced')
  BY TokensKeep
<1>2. ASSUME NEW s \in Request PROVE Form(req'[s], tokens', nextId', now') /\ Seen(req'[s], epoch', out', sweepRaced')
  <2>1. CASE s = r
    BY <2>1 DEF Inv
  <2>2. CASE s # r
    <3>1. req'[s] = req[s] /\ req[s] \in Reqs
      BY <2>2 DEF Inv
    <3>2. Form(req[s], tokens', nextId', now')
      BY <3>1 DEF Inv, Form, Reqs, Scalars
    <3>3. Seen(req[s], epoch', out', sweepRaced')
      <4>1. req[s].pc = "epoch" => req[s].tok.iat \in Nat
        BY <3>1 DEF Inv, Form, Issued, Tokens
      <4>2. Seen(req[s], epoch, out, sweepRaced) /\ out \subseteq out'
        BY DEF Inv, Refused
      <4>3. epoch <= epoch' \/ sweepRaced'
        OBVIOUS
      <4>4. epoch \in Nat /\ epoch' \in Nat /\ (sweepRaced => sweepRaced')
        BY DEF Inv, Scalars
      <4>5. req[s].barred /\ ~ sweepRaced' /\ req[s].pc = "epoch"
              => req[s].tok.iat < epoch' \/ req[s].tok.iat < req[s].tgt.cutoff
        BY <4>1, <4>2, <4>3, <4>4 DEF Seen
      <4>6. req[s].barred => req[s].tok.iat \in out'
        BY <4>2 DEF Seen
      <4>7. req[s].barred /\ ~ sweepRaced' => req[s].me = None
        BY <4>2, <4>4 DEF Seen
      <4> QED
        BY <4>2, <4>5, <4>6, <4>7 DEF Seen
    <3> QED
      BY <3>1, <3>2, <3>3
  <2> QED
    BY <2>1, <2>2
<1>3. req' \in [Request -> Reqs]
  BY DEF Inv
<1> QED
  BY <1>1, <1>2, <1>3 DEF Inv

\* A request that is not in progress holds nothing.
LEMMA IdleRequest ==
  /\ Idle \in Reqs
  /\ \A toks, next : \A time \in Nat : Form(Idle, toks, next, time)
  /\ \A cut, gone, swept : Seen(Idle, cut, gone, swept)
  /\ \A rows, race : Faithful(Idle, rows, race)
<1>1. Idle \in Reqs
  BY DEF Idle, Reqs, Places, Ops, Bodies
<1>2. Idle.pc = "idle" /\ Idle.op = "-" /\ Idle.me = None /\ Idle.tgt = None /\ Idle.clock = 0 /\ ~ Idle.barred
  BY DEF Idle
<1> QED
  BY <1>1, <1>2 DEF Form, Seen, Faithful, Holds, Targeted

\* The two administrators of the initial state.
LEMMA Start == Init => Inv
<1> SUFFICES ASSUME Init PROVE Inv
  OBVIOUS
<1> USE AccountsAssumption
<1>1. Scalars
  <2>1. nextId = 3 /\ epoch = 0 /\ now = 2 /\ secret = 1 /\ starts = 1 /\ out = {} /\ raced = FALSE /\ sweepRaced = FALSE
    BY DEF Init
  <2>2. nextId \in 3 .. MaxId + 1 /\ secret \in 1 .. starts /\ epoch \in 0 .. now
    BY <2>1
  <2> QED
    BY <2>1, <2>2 DEF Scalars
<1>2. \A row \in {Seed, Other} : row \in Rows /\ row # None /\ IsAdmin(row) /\ row.cutoff = 0 /\ row.pw \in Passwords
  <2> SUFFICES ASSUME NEW row \in {Seed, Other}
               PROVE  row \in Rows /\ row # None /\ IsAdmin(row) /\ row.cutoff = 0 /\ row.pw \in Passwords
    OBVIOUS
  <2>1. row \in [name : Usernames, pw : Passwords, role : {"admin"}, active : {TRUE}, cutoff : {0}]
    OBVIOUS
  <2>2. row.role = "admin" /\ row.cutoff = 0 /\ row.pw \in Passwords
    BY <2>1
  <2>3. row.active \in {TRUE}
    BY <2>1
  <2>4. row \in Rows
    <3>1. {"admin"} \subseteq Roles /\ {TRUE} \subseteq BOOLEAN /\ {0} \subseteq Nat
      BY DEF Roles
    <3> QED
      BY <2>1, <3>1 DEF Rows
  <2> QED
    BY <2>2, <2>3, <2>4 DEF IsAdmin
<1>3. 1 \in Ids /\ 2 \in Ids /\ users[1] = Seed /\ users[2] = Other /\ \A i \in Ids \ {1, 2} : users[i] = None
      /\ users \in [Ids -> Rows \cup {None}]
  BY <1>2 DEF Init, Ids
<1>4. Table(users, nextId, now)
  BY <1>2, <1>3 DEF Init, Table, Ids
<1>5. tokens = {[sub |-> 1, iat |-> 1, key |-> 1, pw |-> Seed.pw, late |-> FALSE],
                [sub |-> 2, iat |-> 2, key |-> 1, pw |-> Other.pw, late |-> FALSE]}
  BY DEF Init, Token
<1>6. Issued(tokens, nextId, now, starts)
  <2>1. nextId = 3 /\ now = 2 /\ starts = 1
    BY DEF Init
  <2>2. ASSUME NEW i \in 1 .. 2, NEW pw \in Passwords, NEW t, t = [sub |-> i, iat |-> i, key |-> 1, pw |-> pw, late |-> FALSE]
        PROVE  t \in Tokens /\ t.sub \in 1 .. 2 /\ t.iat \in 1 .. 2 /\ t.key \in 1 .. 1 /\ t.iat = i
    BY <2>2 DEF Tokens
  <2>3. PICK t1, t2 : /\ t1 = [sub |-> 1, iat |-> 1, key |-> 1, pw |-> Seed.pw, late |-> FALSE]
                      /\ t2 = [sub |-> 2, iat |-> 2, key |-> 1, pw |-> Other.pw, late |-> FALSE]
    OBVIOUS
  <2>4. t1 \in Tokens /\ t2 \in Tokens /\ t1.sub \in 1 .. 2 /\ t1.iat = 1 /\ t1.key \in 1 .. 1
        /\ t2.sub \in 1 .. 2 /\ t2.iat = 2 /\ t2.key \in 1 .. 1
    BY <1>2, <2>2, <2>3
  <2>5. tokens = {t1, t2}
    BY <1>5, <2>3
  <2> QED
    BY <2>1, <2>4, <2>5 DEF Issued
<1>7. \A t \in tokens : Sound(t, users, epoch, out, sweepRaced)
  <2>1. \A t \in tokens : t.pw = users[t.sub].pw
    BY <1>3, <1>5
  <2> QED
    BY <2>1 DEF Init, Sound
<1>8. \A r \in Request : req[r] = Idle
  BY DEF Init
<1> QED
  BY <1>1, <1>2, <1>3, <1>4, <1>6, <1>7, <1>8, IdleRequest DEF Init, Inv

\* A refused token is no younger than the clock.
LEMMA RefusedIsPast ==
  ASSUME Inv, Refused, now' \in Nat, now <= now'
  PROVE  out' \subseteq 1 .. now' /\ out \subseteq out'
<1>1. out \subseteq 1 .. now /\ now \in Nat /\ \A t \in tokens : t.iat \in 1 .. now
  BY DEF Inv, Scalars, Issued
<1>2. 1 .. now \subseteq 1 .. now'
  BY <1>1
<1> QED
  BY <1>1, <1>2 DEF Refused

\* A step that changes nothing but the request.
LEMMA QuietKeeps ==
  ASSUME Inv, Refused, NEW r \in Request, NEW q \in Reqs, req' = [req EXCEPT ![r] = q],
         UNCHANGED <<users, nextId, epoch, now, secret, starts, tokens, raced, sweepRaced>>,
         Form(q, tokens, nextId, now), Seen(q, epoch, out, sweepRaced), Faithful(q, users, raced)
  PROVE  Inv'
<1>1. Scalars'
  BY RefusedIsPast DEF Inv, Scalars
<1>2. Table(users', nextId', now') /\ Issued(tokens', nextId', now', starts') /\ Form(q, tokens', nextId', now')
      /\ tokens' \ tokens = {} /\ tokens \subseteq tokens'
  BY DEF Inv
<1>3. \A i \in 1 .. nextId - 1 : Later(users[i], users'[i], now)
  BY AccountsAssumption DEF Inv, Scalars, Table, Later, Ids, Rows
<1>4. Seen(q, epoch', out', sweepRaced')
  <2>1. out \subseteq out' /\ UNCHANGED <<epoch, sweepRaced>>
    BY DEF Refused
  <2> QED
    BY <2>1 DEF Seen
<1>5. \A s \in Request : Faithful(req'[s], users', raced')
  BY DEF Inv
<1>6. nextId <= nextId' /\ now <= now' /\ starts <= starts' /\ epoch <= epoch'
      /\ (sweepRaced => sweepRaced') /\ (raced => raced')
  BY DEF Inv, Scalars
<1>7. ~ raced' => \E i \in Ids : IsAdmin(users'[i])
  BY DEF Inv
<1> QED
  BY <1>1, <1>2, <1>3, <1>4, <1>5, <1>6, <1>7, StepKeeps

\* What the invariant says of one request.
LEMMA Ask ==
  ASSUME Inv, NEW r \in Request
  PROVE  /\ req[r] \in Reqs /\ Form(req[r], tokens, nextId, now)
         /\ Seen(req[r], epoch, out, sweepRaced) /\ Faithful(req[r], users, raced)
BY DEF Inv

\* An answered request has no part in anything.
LEMMA AnswerKeeps ==
  ASSUME Inv, Refused, NEW r \in Request, Answer(r),
         UNCHANGED <<users, nextId, epoch, now, secret, starts, tokens, raced, sweepRaced>>
  PROVE  Inv'
<1>1. req' = [req EXCEPT ![r] = Idle]
  BY DEF Answer
<1>2. Form(Idle, tokens, nextId, now) /\ Seen(Idle, epoch, out, sweepRaced) /\ Faithful(Idle, users, raced)
  BY IdleRequest DEF Inv, Scalars
<1> QED
  BY <1>1, <1>2, IdleRequest, QuietKeeps

\* A request that moves keeps what it holds.
LEMMA Moved ==
  ASSUME NEW p \in Reqs, NEW at \in Places, NEW q, q = [p EXCEPT !.pc = at]
  PROVE  /\ q \in Reqs /\ q.pc = at /\ q.op = p.op /\ q.tok = p.tok /\ q.body = p.body /\ q.id = p.id
         /\ q.me = p.me /\ q.tgt = p.tgt /\ q.clock = p.clock /\ q.barred = p.barred
BY DEF Reqs

\* A request that moves from one place to another with what it holds.
LEMMA GotoKeeps ==
  ASSUME Inv, Refused, NEW r \in Request, NEW at \in Places, Goto(r, at),
         UNCHANGED <<users, nextId, epoch, now, secret, starts, tokens, raced, sweepRaced>>,
         NEW q, q = [req[r] EXCEPT !.pc = at],
         Form(q, tokens, nextId, now), Seen(q, epoch, out, sweepRaced), Faithful(q, users, raced)
  PROVE  Inv'
<1>1. req' = [req EXCEPT ![r] = q]
  BY DEF Goto
<1>2. q \in Reqs
  BY Ask, Moved
<1> QED
  BY <1>1, <1>2, QuietKeeps

\* A login, or a request with any token ever issued.
LEMMA Arriving ==
  ASSUME Inv, Refused, NEW r \in Request, Arrive(r)
  PROVE  Inv'
<1>1. UNCHANGED <<users, nextId, epoch, now, secret, starts, tokens, raced, sweepRaced>>
  BY DEF Arrive
<1>2. ASSUME NEW l \in Login,
             req' = [req EXCEPT ![r] = [Idle EXCEPT !.pc = "lookup", !.op = "login", !.body = l]]
      PROVE  Inv'
  <2>1. PICK q : q = [Idle EXCEPT !.pc = "lookup", !.op = "login", !.body = l]
    OBVIOUS
  <2>2. /\ q.pc = "lookup" /\ q.op = "login" /\ q.body = l /\ q.me = None /\ q.tgt = None
        /\ q.clock = 0 /\ ~ q.barred
    BY <2>1 DEF Idle
  <2>3. q \in Reqs
    BY <2>1 DEF Idle, Reqs, Places, Ops, Bodies
  <2>4. Form(q, tokens, nextId, now)
    BY <2>2 DEF Form, Targeted, Inv, Scalars
  <2>5. Seen(q, epoch, out, sweepRaced) /\ Faithful(q, users, raced)
    BY <2>2 DEF Seen, Faithful, Holds
  <2> QED
    BY <1>1, <1>2, <2>1, <2>3, <2>4, <2>5, QuietKeeps
<1>3. ASSUME NEW t \in tokens, NEW op \in Ops \ {"-", "login"}, NEW body \in Bodies, NEW i \in Nat,
             op = "password" => body \in Login, op = "create" => body \in NewName,
             op = "update" => body \in Patch, op \in Targeted => i \in 1 .. nextId - 1,
             req' = [req EXCEPT ![r] = [Idle EXCEPT !.pc = "get", !.op = op, !.tok = t, !.body = body,
                                                 !.id = i, !.barred = t.iat \in out]]
      PROVE  Inv'
  <2>1. PICK q : q = [Idle EXCEPT !.pc = "get", !.op = op, !.tok = t, !.body = body,
                                                 !.id = i, !.barred = t.iat \in out]
    OBVIOUS
  <2>2. /\ q.pc = "get" /\ q.op = op /\ q.tok = t /\ q.body = body /\ q.id = i /\ q.me = None /\ q.tgt = None
        /\ q.clock = 0 /\ q.barred = (t.iat \in out)
    BY <2>1 DEF Idle
  <2>3. q \in Reqs
    <3>1. t \in Tokens /\ (t.iat \in out) \in BOOLEAN
      BY DEF Inv, Issued
    <3>2. "get" \in Places
      BY DEF Places
    <3>3. [Idle EXCEPT !.pc = "get", !.op = op, !.tok = t, !.body = body, !.id = i] \in Reqs
      BY <3>1, <3>2, IdleRequest DEF Reqs
    <3>4. q = [[Idle EXCEPT !.pc = "get", !.op = op, !.tok = t, !.body = body, !.id = i] EXCEPT !.barred = t.iat \in out]
      BY <2>1, IdleRequest DEF Reqs
    <3> QED
      BY <3>1, <3>3, <3>4 DEF Reqs
  <2>4. Form(q, tokens, nextId, now)
    BY <1>3, <2>2 DEF Form, Targeted, Inv, Scalars
  <2>5. Seen(q, epoch, out, sweepRaced) /\ Faithful(q, users, raced)
    BY <2>2 DEF Seen, Faithful, Holds
  <2> QED
    BY <1>1, <1>3, <2>1, <2>3, <2>4, <2>5, QuietKeeps
<1>4. \A i \in 1 .. nextId - 1 : i \in Nat
  BY DEF Inv, Scalars
<1>5. ASSUME NEW t \in tokens,
           NEW c \in   [op : {"me", "revoke_all"}, body : {None}, id : {0}]
             \cup [op : {"password"}, body : Login, id : {0}]
             \cup [op : {"create"}, body : NewName, id : {0}]
             \cup [op : {"update"}, body : Patch, id : 1 .. nextId - 1]
             \cup [op : {"delete", "purge", "revoke_one"}, body : {None}, id : 1 .. nextId - 1],
          req' = [req EXCEPT ![r] = [Idle EXCEPT !.pc = "get", !.op = c.op, !.tok = t, !.body = c.body,
                                                 !.id = c.id, !.barred = t.iat \in out]]
      PROVE Inv'
  <2>1. /\ c.op \in Ops \ {"-", "login"} /\ c.body \in Bodies /\ c.id \in Nat
        /\ (c.op = "password" => c.body \in Login) /\ (c.op = "create" => c.body \in NewName)
        /\ (c.op = "update" => c.body \in Patch) /\ (c.op \in Targeted => c.id \in 1 .. nextId - 1)
    BY <1>4 DEF Ops, Bodies, Targeted
  <2> QED
    BY <1>3, <1>5, <2>1
<1> QED
  BY <1>2, <1>5 DEF Arrive

\* current_user reads the row: it refuses what was refused before.
LEMMA GettingCaller ==
  ASSUME Inv, Refused, NEW r \in Request, GetCaller(r)
  PROVE  Inv'
<1>1. UNCHANGED <<users, nextId, epoch, now, secret, starts, tokens, raced, sweepRaced>>
  BY DEF GetCaller
<1>2. CASE Answer(r)
  BY <1>1, <1>2, AnswerKeeps
<1>3. ASSUME NEW row, row = users[req[r].tok.sub], row # None,
             req' = [req EXCEPT ![r].pc = "epoch", ![r].tgt = row]
      PROVE  Inv'
  <2>1. PICK p : p = req[r] /\ p \in Reqs /\ p.pc = "get" /\ Form(p, tokens, nextId, now)
                 /\ Seen(p, epoch, out, sweepRaced)
    BY Ask DEF GetCaller, At
  <2>2. p.op \notin {"-", "login"} /\ p.tok \in tokens /\ p.me = None /\ p.tgt = None
    BY <2>1 DEF Form
  <2>3. p.tok.sub \in Ids /\ p.tok \in Tokens
    BY <2>2, AccountsAssumption DEF Inv, Issued, Scalars, Ids
  <2>4. row \in Rows
    BY <1>3, <2>1, <2>3 DEF Inv, Table
  <2>5. PICK q : q = [p EXCEPT !.pc = "epoch", !.tgt = row]
    OBVIOUS
  <2>6. q \in Reqs
    BY <2>1, <2>4, <2>5 DEF Reqs, Places
  <2>7. /\ q.pc = "epoch" /\ q.op = p.op /\ q.tok = p.tok /\ q.body = p.body /\ q.id = p.id /\ q.me = p.me
        /\ q.tgt = row /\ q.clock = p.clock /\ q.barred = p.barred
    BY <2>1, <2>5 DEF Reqs
  <2>8. Form(q, tokens, nextId, now)
    BY <1>3, <2>1, <2>2, <2>7 DEF Form
  <2>9. Sound(p.tok, users, epoch, out, sweepRaced)
    BY <2>2 DEF Inv
  <2>10. Seen(q, epoch, out, sweepRaced)
    BY <1>3, <2>1, <2>2, <2>7, <2>9 DEF Seen, Sound
  <2>11. Faithful(q, users, raced)
    BY <2>2, <2>7 DEF Faithful, Holds
  <2>12. req' = [req EXCEPT ![r] = q]
    BY <1>3, <2>1, <2>5
  <2> QED
    BY <1>1, <2>6, <2>8, <2>10, <2>11, <2>12, QuietKeeps
<1> QED
  BY <1>2, <1>3 DEF GetCaller

\* It then compares the token with the cutoff of that row and the epoch as it is now.
LEMMA CheckingCutoffs ==
  ASSUME Inv, Refused, NEW r \in Request, CheckCutoffs(r)
  PROVE  Inv'
<1>1. UNCHANGED <<users, nextId, epoch, now, secret, starts, tokens, raced, sweepRaced>>
  BY DEF CheckCutoffs
<1>2. CASE Answer(r)
  BY <1>1, <1>2, AnswerKeeps
<1>3. CASE /\ InTime(req[r].tok, req[r].tgt)
           /\ req' = [req EXCEPT ![r].pc = First(req[r].op), ![r].me = req[r].tgt, ![r].tgt = None]
  <2>1. PICK p : p = req[r] /\ p \in Reqs /\ p.pc = "epoch" /\ Form(p, tokens, nextId, now)
                 /\ Seen(p, epoch, out, sweepRaced)
    BY Ask DEF CheckCutoffs, At
  <2>2. p.op \in Ops \ {"-", "login"} /\ p.tok \in tokens /\ p.me = None /\ p.tgt \in Rows /\ p.tgt # None
    BY <2>1 DEF Form, Reqs
  <2>3. PICK at : at = First(p.op)
    OBVIOUS
  <2>4. /\ at \in {"answer", "sweep", "verify", "byname", "target"}
        /\ (at = "sweep" => p.op = "revoke_all") /\ (at = "verify" => p.op = "password")
        /\ (at = "byname" => p.op = "create") /\ (at = "target" => p.op \in Targeted)
    BY <2>2, <2>3 DEF First, Ops, Targeted
  <2>5. PICK q : q = [p EXCEPT !.pc = at, !.me = p.tgt, !.tgt = None]
    OBVIOUS
  <2>6. q \in Reqs
    <3>1. at \in Places
      BY <2>4 DEF Places
    <3> QED
      BY <2>1, <2>2, <2>5, <3>1 DEF Reqs
  <2>7. /\ q.pc = at /\ q.op = p.op /\ q.tok = p.tok /\ q.body = p.body /\ q.id = p.id /\ q.me = p.tgt
        /\ q.tgt = None /\ q.clock = p.clock /\ q.barred = p.barred
    BY <2>1, <2>5 DEF Reqs
  <2>8. Form(q, tokens, nextId, now)
    BY <2>1, <2>2, <2>4, <2>7 DEF Form
  <2>9. p.tok.iat >= epoch /\ p.tok.iat >= p.tgt.cutoff /\ p.tok.iat \in Nat /\ p.tgt.cutoff \in Nat /\ epoch \in Nat
    BY <1>3, <2>1, <2>2 DEF InTime, Inv, Issued, Tokens, Rows, Scalars
  <2>10. Seen(q, epoch, out, sweepRaced)
    BY <2>1, <2>2, <2>4, <2>7, <2>9 DEF Seen
  <2>11. Faithful(q, users, raced)
    BY <2>7 DEF Faithful, Holds
  <2>12. req' = [req EXCEPT ![r] = q]
    BY <1>3, <2>1, <2>3, <2>5
  <2> QED
    BY <1>1, <2>6, <2>8, <2>10, <2>11, <2>12, QuietKeeps
<1> QED
  BY <1>2, <1>3 DEF CheckCutoffs

\* A login finds its row by name.
LEMMA LookingUp ==
  ASSUME Inv, Refused, NEW r \in Request, Lookup(r)
  PROVE  Inv'
<1>1. UNCHANGED <<users, nextId, epoch, now, secret, starts, tokens, raced, sweepRaced>>
  BY DEF Lookup
<1>2. CASE Answer(r)
  BY <1>1, <1>2, AnswerKeeps
<1>3. ASSUME NEW i \in Ids, users[i] # None, req' = [req EXCEPT ![r].pc = "hash", ![r].id = i, ![r].me = users[i]]
      PROVE  Inv'
  <2>1. PICK p : p = req[r] /\ p \in Reqs /\ p.pc = "lookup" /\ Form(p, tokens, nextId, now)
    BY Ask DEF Lookup, At
  <2>2. p.op = "login" /\ ~ p.barred /\ p.tgt = None
    BY <2>1 DEF Form
  <2>3. users[i] \in Rows /\ i \in 1 .. nextId - 1 /\ i \in Nat
    BY <1>3, AccountsAssumption DEF Inv, Table, Ids, Scalars
  <2>4. PICK q : q = [p EXCEPT !.pc = "hash", !.id = i, !.me = users[i]]
    OBVIOUS
  <2>5. q \in Reqs
    BY <2>1, <2>3, <2>4 DEF Reqs, Places
  <2>6. /\ q.pc = "hash" /\ q.op = p.op /\ q.body = p.body /\ q.id = i
        /\ q.tgt = p.tgt /\ q.clock = p.clock /\ q.barred = p.barred
    BY <2>1, <2>4 DEF Reqs
  <2>7. Form(q, tokens, nextId, now)
    BY <2>1, <2>2, <2>3, <2>6 DEF Form, Targeted
  <2>8. Seen(q, epoch, out, sweepRaced) /\ Faithful(q, users, raced)
    BY <2>2, <2>6 DEF Seen, Faithful, Holds
  <2>9. req' = [req EXCEPT ![r] = q]
    BY <1>3, <2>1, <2>4
  <2> QED
    BY <1>1, <2>5, <2>7, <2>8, <2>9, QuietKeeps
<1> QED
  BY <1>2, <1>3 DEF Lookup, ByUsername

\* Places a request may go to with what it holds.
LEMMA Proceeding ==
  ASSUME Inv, Refused, NEW r \in Request, NEW at \in Places, Goto(r, at),
         UNCHANGED <<users, nextId, epoch, now, secret, starts, tokens, raced, sweepRaced>>,
         \/ req[r].pc = "hash" /\ at = "mint"
         \/ req[r].pc = "verify" /\ at = "change"
         \/ req[r].pc = "refresh" /\ at = "mint"
         \/ req[r].pc = "byname" /\ at = "insert"
  PROVE  Inv'
<1>1. PICK p : p = req[r] /\ p \in Reqs /\ Form(p, tokens, nextId, now) /\ Seen(p, epoch, out, sweepRaced)
  BY Ask
<1>2. PICK q : q = [p EXCEPT !.pc = at]
  OBVIOUS
<1>3. /\ q.pc = at /\ q.op = p.op /\ q.tok = p.tok /\ q.body = p.body /\ q.id = p.id
      /\ q.me = p.me /\ q.tgt = p.tgt /\ q.clock = p.clock /\ q.barred = p.barred
  BY <1>1, <1>2, Moved
<1>4. p.pc \in {"hash", "verify", "refresh", "byname"} /\ at \in {"mint", "change", "insert"}
  BY <1>1
<1>5. Form(q, tokens, nextId, now)
  BY <1>1, <1>3 DEF Form
<1>6. Seen(q, epoch, out, sweepRaced) /\ Faithful(q, users, raced)
  BY <1>1, <1>3, <1>4 DEF Seen, Faithful
<1> QED
  BY <1>1, <1>2, <1>5, <1>6, GotoKeeps

\* Checks that pass or end the request.
LEMMA CheckingPassword ==
  ASSUME Inv, Refused, NEW r \in Request, VerifyLogin(r) \/ VerifyCurrent(r) \/ Refresh(r) \/ LookupName(r) \/ Me(r)
  PROVE  Inv'
<1>1. UNCHANGED <<users, nextId, epoch, now, secret, starts, tokens, raced, sweepRaced>>
  BY DEF VerifyLogin, VerifyCurrent, Refresh, LookupName, Me
<1>2. CASE Answer(r)
  BY <1>1, <1>2, AnswerKeeps
<1>3. CASE ~ Answer(r)
  <2>1. \/ req[r].pc = "hash" /\ Goto(r, "mint")
        \/ req[r].pc = "verify" /\ Goto(r, "change")
        \/ req[r].pc = "refresh" /\ Goto(r, "mint")
        \/ req[r].pc = "byname" /\ Goto(r, "insert")
    BY <1>3 DEF VerifyLogin, VerifyCurrent, Refresh, LookupName, Me, At
  <2> QED
    BY <1>1, <2>1, Proceeding DEF Places
<1> QED
  BY <1>2, <1>3

\* The target of an update, a deletion or a revocation is read.
LEMMA ReadingTarget ==
  ASSUME Inv, Refused, NEW r \in Request, ReadTarget(r)
  PROVE  Inv'
<1>1. UNCHANGED <<users, nextId, epoch, now, secret, starts, tokens, raced, sweepRaced>>
  BY DEF ReadTarget
<1>2. CASE Answer(r)
  BY <1>1, <1>2, AnswerKeeps
<1>3. ASSUME NEW at, users[req[r].id] # None, req' = [req EXCEPT ![r].tgt = users[req[r].id], ![r].pc = at],
             at = CASE req[r].op = "revoke_one" -> "revoke"
                    [] req[r].op = "update"     -> IF req[r].body.pw = "-" THEN "role" ELSE "reset"
                    [] OTHER               -> IF Self(r) THEN "answer" ELSE "guard"
      PROVE  Inv'
  <2>1. PICK p : p = req[r] /\ p \in Reqs /\ p.pc = "target" /\ Form(p, tokens, nextId, now)
                 /\ Seen(p, epoch, out, sweepRaced)
    BY Ask DEF ReadTarget, At
  <2>2. p.op \in Targeted /\ p.me # None /\ p.id \in 1 .. nextId - 1 /\ p.tgt = None
    BY <2>1 DEF Form
  <2>3. PICK row : row = users[p.id]
    OBVIOUS
  <2>4. row \in Rows /\ row # None
    BY <1>3, <2>1, <2>2, <2>3, AccountsAssumption DEF Inv, Table, Ids, Scalars
  <2>5. /\ at \in {"revoke", "role", "reset", "answer", "guard"}
        /\ (at = "revoke" => p.op = "revoke_one") /\ (at \in {"role", "reset"} => p.op = "update")
        /\ (at = "guard" => p.op \in {"delete", "purge"})
    BY <1>3, <2>1, <2>2 DEF Targeted
  <2>6. PICK q : q = [p EXCEPT !.tgt = row, !.pc = at]
    OBVIOUS
  <2>7. q \in Reqs
    <3>1. at \in Places
      BY <2>5 DEF Places
    <3> QED
      BY <2>1, <2>4, <2>6, <3>1 DEF Reqs
  <2>8. /\ q.pc = at /\ q.op = p.op /\ q.tok = p.tok /\ q.body = p.body /\ q.id = p.id /\ q.me = p.me
        /\ q.tgt = row /\ q.clock = p.clock /\ q.barred = p.barred
    BY <2>1, <2>6 DEF Reqs
  <2>9. Form(q, tokens, nextId, now)
    BY <2>1, <2>2, <2>4, <2>5, <2>8 DEF Form, Targeted
  <2>10. Seen(q, epoch, out, sweepRaced)
    BY <2>1, <2>5, <2>8 DEF Seen
  <2>11. Faithful(q, users, raced)
    BY <2>3, <2>4, <2>5, <2>8 DEF Faithful
  <2>12. req' = [req EXCEPT ![r] = q]
    BY <1>3, <2>1, <2>3, <2>6
  <2> QED
    BY <1>1, <2>7, <2>9, <2>10, <2>11, <2>12, QuietKeeps
<1> QED
  BY <1>2, <1>3 DEF ReadTarget

\* _guard_last_admin lets a change through: the target was no active administrator
\* when it was read, or another one is left.
LEMMA GuardPassed ==
  ASSUME NEW r, GuardLastAdmin(r), req[r].tgt.role = "admin", req[r].tgt.active
  PROVE  AnotherAdmin(users, req[r].id)
BY DEF GuardLastAdmin, ActiveAdmins, AnotherAdmin, IsAdmin

\* update_user and delete_user check what they are about to write.
LEMMA Guarding ==
  ASSUME Inv, Refused, NEW r \in Request, CheckRole(r) \/ CheckActivity(r) \/ GuardDelete(r)
  PROVE  Inv'
<1>1. UNCHANGED <<users, nextId, epoch, now, secret, starts, tokens, raced, sweepRaced>>
  BY DEF CheckRole, CheckActivity, GuardDelete
<1>2. CASE Answer(r)
  BY <1>1, <1>2, AnswerKeeps
<1>3. PICK p : p = req[r] /\ p \in Reqs /\ Form(p, tokens, nextId, now)
               /\ Seen(p, epoch, out, sweepRaced) /\ Faithful(p, users, raced)
  BY Ask
<1>4. ASSUME NEW at \in Places, Goto(r, at),
             \/ p.pc = "role" /\ at = "activity"
             \/ p.pc = "activity" /\ at = "write"
             \/ p.pc = "guard" /\ at = p.op,
             at = "activity" => p.body.role \in Roles \cup {"-"},
             p.tgt.role = "admin" /\ p.tgt.active /\ ~ raced =>
               /\ at \in {"activity", "write"} /\ p.body.role \notin {"-", "admin"} => AnotherAdmin(users, p.id)
               /\ at = "write" /\ p.body.active = "off" => AnotherAdmin(users, p.id)
               /\ at \in {"delete", "purge"} => AnotherAdmin(users, p.id)
      PROVE  Inv'
  <2>1. PICK q : q = [p EXCEPT !.pc = at]
    OBVIOUS
  <2>2. /\ q.pc = at /\ q.op = p.op /\ q.tok = p.tok /\ q.body = p.body /\ q.id = p.id
        /\ q.me = p.me /\ q.tgt = p.tgt /\ q.clock = p.clock /\ q.barred = p.barred
    BY <1>3, <2>1, Moved
  <2>3. Form(q, tokens, nextId, now)
    BY <1>3, <1>4, <2>2 DEF Form, Targeted
  <2>4. Seen(q, epoch, out, sweepRaced)
    BY <1>3, <1>4, <2>2 DEF Seen, Form
  <2>5. Faithful(q, users, raced)
    BY <1>3, <1>4, <2>2 DEF Faithful, Holds
  <2> QED
    BY <1>1, <1>3, <1>4, <2>1, <2>3, <2>4, <2>5, GotoKeeps
<1>5. CASE CheckRole(r) /\ ~ Answer(r)
  <2>1. p.pc = "role" /\ Goto(r, "activity") /\ "activity" \in Places
    BY <1>3, <1>5 DEF CheckRole, At, Places
  <2>2. p.body.role \notin {"-", p.tgt.role} => (p.tgt.role = "admin" => GuardLastAdmin(r))
    BY <1>3, <1>5 DEF CheckRole
  <2>3. p.tgt.role = "admin" /\ p.tgt.active /\ p.body.role \notin {"-", "admin"} => AnotherAdmin(users, p.id)
    BY <1>3, <2>2, GuardPassed
  <2>4. p.body.role \in Roles \cup {"-"}
    <3>1. p.tgt \in Rows
      BY <1>3, <2>1 DEF Form, Reqs
    <3> QED
      BY <1>3, <1>5, <3>1 DEF CheckRole, Rows
  <2> QED
    BY <1>4, <2>1, <2>3, <2>4
<1>6. CASE CheckActivity(r) /\ ~ Answer(r)
  <2>1. p.pc = "activity" /\ Goto(r, "write") /\ "write" \in Places
    BY <1>3, <1>6 DEF CheckActivity, At, Places
  <2>2. p.op = "update" /\ p.me # None /\ p.tgt # None /\ p.tgt \in Rows
    BY <1>3, <2>1 DEF Form, Reqs
  <2>3. p.body.active = "off" /\ p.tgt.active => GuardLastAdmin(r)
    BY <1>3, <1>6, <2>2 DEF CheckActivity, Rows
  <2>4. p.tgt.role = "admin" /\ p.tgt.active /\ p.body.active = "off" => AnotherAdmin(users, p.id)
    BY <1>3, <2>3, GuardPassed
  <2>5. ~ raced /\ p.tgt.role = "admin" /\ p.tgt.active /\ p.body.role \notin {"-", "admin"} => AnotherAdmin(users, p.id)
    BY <1>3, <2>1, <2>2 DEF Faithful, Holds
  <2> QED
    BY <1>4, <2>1, <2>4, <2>5
<1>7. CASE GuardDelete(r) /\ ~ Answer(r)
  <2>1. p.pc = "guard" /\ Goto(r, p.op) /\ GuardLastAdmin(r)
    BY <1>3, <1>7 DEF GuardDelete, At
  <2>2. p.op \in {"delete", "purge"} /\ p.op \in Places
    BY <1>3, <2>1 DEF Form, Places
  <2>3. p.tgt.role = "admin" /\ p.tgt.active => AnotherAdmin(users, p.id)
    BY <1>3, <2>1, GuardPassed
  <2> QED
    BY <1>4, <2>1, <2>2, <2>3
<1> QED
  BY <1>2, <1>5, <1>6, <1>7

\* The history only grows, so what a request has seen stays seen.
LEMMA SeenGrows ==
  ASSUME NEW q, NEW cut, NEW gone, NEW more, gone \subseteq more, NEW swept, Seen(q, cut, gone, swept)
  PROVE  Seen(q, cut, more, swept)
BY DEF Seen

\* One row is written: nobody else's changes.
LEMMA RowWritten ==
  ASSUME Inv, NEW i \in 1 .. nextId - 1, NEW row, UpdateRow(i, row), NEW time \in Nat, now <= time,
         users[i] # None => row \in Rows /\ row.name = users[i].name /\ row.cutoff <= time /\ Later(users[i], row, now)
  PROVE  /\ Table(users', nextId, time) /\ i \in Ids
         /\ \A j \in Ids : users'[j] = IF j = i /\ users[i] # None THEN row ELSE users[j]
         /\ \A j \in 1 .. nextId - 1 : Later(users[j], users'[j], now)
<1>1. 1 .. nextId - 1 \subseteq Ids /\ nextId \in Nat /\ now \in Nat
  BY AccountsAssumption DEF Inv, Scalars, Ids
<1>2. users \in [Ids -> Rows \cup {None}] /\ \A j \in Ids : users[j] # None => j < nextId /\ users[j].cutoff <= now
  BY DEF Inv, Table
<1>3. \A j \in Ids : users'[j] = IF j = i /\ users[i] # None THEN row ELSE users[j]
  BY <1>1, <1>2 DEF UpdateRow
<1>4. users' \in [Ids -> Rows \cup {None}]
  BY <1>1, <1>2 DEF UpdateRow
<1>5. \A j \in Ids : users'[j] # None => j < nextId /\ users'[j].cutoff <= time
  BY <1>1, <1>2, <1>3 DEF Rows
<1>6. \A j, k \in Ids : users'[j] # None /\ users'[k] # None /\ users'[j].name = users'[k].name => j = k
  <2>1. \A j, k \in Ids : users[j] # None /\ users[k] # None /\ users[j].name = users[k].name => j = k
    BY DEF Inv, Table
  <2>2. \A j \in Ids : users'[j] # None => users[j] # None /\ users'[j].name = users[j].name
    BY <1>3
  <2> QED
    BY <2>1, <2>2
<1>7. \A j \in 1 .. nextId - 1 : Later(users[j], users'[j], now)
  BY <1>1, <1>2, <1>3 DEF Later, Rows
<1> QED
  BY <1>1, <1>3, <1>4, <1>5, <1>6, <1>7 DEF Table

\* A write that leaves roles and activity alone.
LEMMA SameAuthority ==
  ASSUME Inv, NEW rows, \A j \in Ids : /\ rows[j] = None <=> users[j] = None
                                       /\ users[j] # None => rows[j].role = users[j].role /\ rows[j].active = users[j].active
  PROVE  /\ \A x : (Holds(x) => x.id \in Ids) /\ Faithful(x, users, raced) => Faithful(x, rows, raced)
         /\ \A s \in Request : Faithful(req[s], rows, raced)
         /\ ~ raced => \E i \in Ids : IsAdmin(rows[i])
<1>1. \A j \in Ids : IsAdmin(rows[j]) <=> IsAdmin(users[j])
  BY DEF IsAdmin
<1>2. \A i : AnotherAdmin(rows, i) <=> AnotherAdmin(users, i)
  BY <1>1 DEF AnotherAdmin
<1>3. ASSUME NEW x, Holds(x) => x.id \in Ids, Faithful(x, users, raced) PROVE Faithful(x, rows, raced)
  BY <1>2, <1>3 DEF Faithful
<1>4. ASSUME NEW s \in Request PROVE Faithful(req[s], rows, raced)
  <2>1. Holds(req[s]) => req[s].id \in Ids
    BY AccountsAssumption DEF Inv, Form, Holds, Targeted, Ids, Scalars
  <2> QED
    BY <1>3, <2>1 DEF Inv
<1> QED
  BY <1>1, <1>3, <1>4 DEF Inv

\* A password or a cutoff is written, with the clock read under the lock.
LEMMA CutoffKeeps ==
  ASSUME Inv, Refused, NEW r \in Request, NEW q \in Reqs, req' = [req EXCEPT ![r] = q],
         NEW i \in 1 .. nextId - 1, NEW row, UpdateRow(i, row), now' = now + 1,
         UNCHANGED <<nextId, epoch, secret, starts, tokens, raced, sweepRaced>>,
         users[i] # None => row \in Rows /\ row.name = users[i].name /\ row.cutoff = now'
                              /\ row.role = users[i].role /\ row.active = users[i].active,
         Form(q, tokens, nextId, now'), Seen(q, epoch, out, sweepRaced), Faithful(q, users, raced)
  PROVE  Inv'
<1>1. now \in Nat /\ now' \in Nat /\ now <= now' /\ now < now'
  BY DEF Inv, Scalars
<1>2. users[i] # None => Later(users[i], row, now) /\ row.cutoff <= now'
  <2>1. i \in Ids
    BY AccountsAssumption DEF Inv, Scalars, Ids
  <2> QED
    BY <1>1, <2>1 DEF Later, Inv, Table, Rows
<1>3. /\ Table(users', nextId, now') /\ i \in Ids
      /\ \A j \in Ids : users'[j] = IF j = i /\ users[i] # None THEN row ELSE users[j]
      /\ \A j \in 1 .. nextId - 1 : Later(users[j], users'[j], now)
  BY <1>1, <1>2, RowWritten
<1>4. /\ \A s \in Request : Faithful(req[s], users', raced)
      /\ ~ raced => \E j \in Ids : IsAdmin(users'[j])
      /\ Faithful(q, users', raced)
  <2>1. \A j \in Ids : /\ users'[j] = None <=> users[j] = None
                       /\ users[j] # None => users'[j].role = users[j].role /\ users'[j].active = users[j].active
    BY <1>3, AccountsAssumption
  <2>2. Holds(q) => q.id \in Ids
    BY AccountsAssumption DEF Inv, Form, Holds, Targeted, Ids, Scalars
  <2> QED
    BY <2>1, <2>2, SameAuthority
<1>5. out' \subseteq 1 .. now' /\ out \subseteq out'
  BY <1>1, RefusedIsPast
<1>6. Scalars'
  BY <1>1, <1>5 DEF Inv, Scalars
<1>7. Issued(tokens', nextId', now', starts') /\ tokens \subseteq tokens' /\ tokens' \ tokens = {}
  <2>1. \A t \in tokens : t.iat \in 1 .. now'
    BY <1>1 DEF Inv, Issued
  <2> QED
    BY <2>1 DEF Inv, Issued
<1>8. Seen(q, epoch', out', sweepRaced') /\ Form(q, tokens', nextId', now') /\ Table(users', nextId', now')
  BY <1>3, <1>5, SeenGrows
<1>9. \A s \in Request : Faithful(req'[s], users', raced')
  <2>1. \A s \in Request : req'[s] = IF s = r THEN q ELSE req[s]
    BY DEF Inv
  <2> QED
    BY <1>4, <2>1
<1>10. nextId <= nextId' /\ starts <= starts' /\ epoch <= epoch' /\ (sweepRaced => sweepRaced') /\ (raced => raced')
  BY DEF Inv, Scalars
<1>11. ~ raced' => \E j \in Ids : IsAdmin(users'[j])
  BY <1>4
<1> QED
  BY <1>1, <1>3, <1>6, <1>7, <1>8, <1>9, <1>10, <1>11, StepKeeps

\* A role, an activity or the whole row is written.  Whoever has read the row of its
\* own target is overtaken.
LEMMA AuthorityKeeps ==
  ASSUME Inv, Refused, NEW r \in Request, NEW q \in Reqs, req' = [req EXCEPT ![r] = q],
         UNCHANGED <<nextId, epoch, now, secret, starts, tokens, sweepRaced>>, raced' = (raced \/ Overtaken(r)),
         Table(users', nextId, now), \A i \in 1 .. nextId - 1 : Later(users[i], users'[i], now),
         Form(q, tokens, nextId, now), Seen(q, epoch, out, sweepRaced), q.pc \in {"idle", "revoke"},
         ~ raced => \E i \in Ids : IsAdmin(users'[i])
  PROVE  Inv'
<1>1. Scalars'
  BY RefusedIsPast DEF Inv, Scalars
<1>2. Table(users', nextId', now') /\ Issued(tokens', nextId', now', starts') /\ Form(q, tokens', nextId', now')
      /\ tokens' \ tokens = {} /\ tokens \subseteq tokens'
  BY DEF Inv
<1>3. Seen(q, epoch', out', sweepRaced')
  BY SeenGrows DEF Refused
<1>4. \A s \in Request : Faithful(req'[s], users', raced')
  <2>1. \A s \in Request : req'[s] = IF s = r THEN q ELSE req[s]
    BY DEF Inv
  <2>2. Faithful(q, users', raced')
    BY DEF Faithful
  <2>3. ASSUME NEW s \in Request \ {r} PROVE Faithful(req[s], users', raced')
    BY <2>3 DEF Faithful, Holds, Overtaken
  <2> QED
    BY <2>1, <2>2, <2>3
<1>5. nextId <= nextId' /\ now <= now' /\ starts <= starts' /\ epoch <= epoch'
      /\ (sweepRaced => sweepRaced') /\ (raced => raced')
  BY DEF Inv, Scalars
<1>6. ~ raced' => \E i \in Ids : IsAdmin(users'[i])
  OBVIOUS
<1> QED
  BY <1>1, <1>2, <1>3, <1>4, <1>5, <1>6, StepKeeps

\* The ids a request names were given to an account once.
LEMMA Named ==
  ASSUME Inv
  PROVE  /\ 1 .. nextId - 1 \subseteq Ids /\ now \in Nat /\ now + 1 \in Nat /\ now <= now + 1
         /\ \A i \in Ids : users[i] \in Rows \cup {None}
         /\ \A t \in tokens : t \in Tokens /\ t.sub \in 1 .. nextId - 1
BY AccountsAssumption DEF Inv, Scalars, Ids, Table, Issued

\* What a later clock leaves true of a request.
LEMMA FormLater ==
  ASSUME NEW q, NEW toks, NEW next, NEW time \in Nat, Form(q, toks, next, time), q.clock \in Nat
  PROVE  Form(q, toks, next, time + 1)
BY DEF Form

\* change_password writes the new password.
LEMMA Changing ==
  ASSUME Inv, Refused, NEW r \in Request, Change(r)
  PROVE  Inv'
<1>1. PICK p : p = req[r] /\ p \in Reqs /\ p.pc = "change" /\ Form(p, tokens, nextId, now)
               /\ Seen(p, epoch, out, sweepRaced)
  BY Ask DEF Change, At
<1>2. PICK i : i = p.tok.sub
  OBVIOUS
<1>3. p.op = "password" /\ p.tok \in tokens /\ p.body \in Login
  BY <1>1 DEF Form
<1>4. i \in 1 .. nextId - 1 /\ i \in Ids /\ i \in Nat
  BY <1>2, <1>3, Named, AccountsAssumption DEF Ids
<1>5. p.body.pw \in Passwords
  BY <1>3 DEF Passwords
<1>6. now' = now + 1 /\ UNCHANGED <<nextId, epoch, secret, starts, tokens, raced, sweepRaced>>
  BY DEF Change, SetPassword
<1>7. PICK row : row = [users[i] EXCEPT !.pw = p.body.pw, !.cutoff = now']
  OBVIOUS
<1>8. UpdateRow(i, row)
  BY <1>1, <1>2, <1>7 DEF Change, SetPassword
<1>9. users[i] # None => row \in Rows /\ row.name = users[i].name /\ row.cutoff = now'
                           /\ row.role = users[i].role /\ row.active = users[i].active
  <2>1. users[i] # None => users[i] \in Rows /\ now' \in Nat
    BY <1>4, <1>6, Named
  <2>2. PICK old : old = users[i]
    OBVIOUS
  <2> QED
    BY <1>5, <1>7, <2>1, <2>2 DEF Rows
<1>10. PICK q : q = [p EXCEPT !.pc = "refresh", !.id = i]
  OBVIOUS
<1>11. q \in Reqs
  BY <1>1, <1>4, <1>10 DEF Reqs, Places
<1>12. /\ q.pc = "refresh" /\ q.op = p.op /\ q.tok = p.tok /\ q.body = p.body /\ q.id = i /\ q.me = p.me
       /\ q.tgt = p.tgt /\ q.clock = p.clock /\ q.barred = p.barred /\ q.clock \in Nat
  BY <1>1, <1>10 DEF Reqs
<1>13. Form(q, tokens, nextId, now)
  BY <1>1, <1>3, <1>4, <1>12 DEF Form, Targeted
<1>14. Form(q, tokens, nextId, now')
  BY <1>6, <1>12, <1>13, Named, FormLater
<1>15. Seen(q, epoch, out, sweepRaced) /\ Faithful(q, users, raced)
  BY <1>1, <1>3, <1>12 DEF Seen, Faithful, Holds
<1>16. req' = [req EXCEPT ![r] = q]
  BY <1>1, <1>2, <1>10 DEF Change
<1> QED
  BY <1>4, <1>6, <1>8, <1>9, <1>11, <1>14, <1>15, <1>16, CutoffKeeps

\* update_user sets the password of its target first.
LEMMA Resetting ==
  ASSUME Inv, Refused, NEW r \in Request, Reset(r)
  PROVE  Inv'
<1>1. PICK p : p = req[r] /\ p \in Reqs /\ p.pc = "reset" /\ Form(p, tokens, nextId, now)
               /\ Seen(p, epoch, out, sweepRaced) /\ Faithful(p, users, raced)
  BY Ask DEF Reset, At
<1>2. PICK i : i = p.id
  OBVIOUS
<1>3. p.op = "update" /\ p.body \in Patch /\ i \in 1 .. nextId - 1 /\ i \in Ids
  BY <1>1, <1>2, Named DEF Form, Targeted
<1>4. p.body.pw \in Passwords
  BY <1>3 DEF Passwords
<1>5. now' = now + 1 /\ UNCHANGED <<nextId, epoch, secret, starts, tokens, raced, sweepRaced>>
  BY DEF Reset, SetPassword
<1>6. PICK row : row = [users[i] EXCEPT !.pw = p.body.pw, !.cutoff = now']
  OBVIOUS
<1>7. UpdateRow(i, row)
  BY <1>1, <1>2, <1>6 DEF Reset, SetPassword
<1>8. users[i] # None => row \in Rows /\ row.name = users[i].name /\ row.cutoff = now'
                           /\ row.role = users[i].role /\ row.active = users[i].active
  <2>1. users[i] # None => users[i] \in Rows /\ now' \in Nat
    BY <1>3, <1>5, Named
  <2>2. PICK old : old = users[i]
    OBVIOUS
  <2> QED
    BY <1>4, <1>6, <2>1, <2>2 DEF Rows
<1>9. PICK q : q = [p EXCEPT !.pc = "role"]
  OBVIOUS
<1>10. "role" \in Places
  BY DEF Places
<1>11. /\ q \in Reqs /\ q.pc = "role" /\ q.op = p.op /\ q.tok = p.tok /\ q.body = p.body /\ q.id = p.id /\ q.me = p.me
       /\ q.tgt = p.tgt /\ q.clock = p.clock /\ q.barred = p.barred
  BY <1>1, <1>9, <1>10, Moved
<1>12. Form(q, tokens, nextId, now) /\ q.clock \in Nat
  BY <1>1, <1>3, <1>11 DEF Form, Reqs
<1>13. Form(q, tokens, nextId, now')
  BY <1>5, <1>12, Named, FormLater
<1>14. Seen(q, epoch, out, sweepRaced)
  BY <1>1, <1>11 DEF Seen
<1>15. Faithful(q, users, raced)
  BY <1>1, <1>11 DEF Faithful, Holds
<1>16. req' = [req EXCEPT ![r] = q]
  BY <1>1, <1>9 DEF Reset, Goto
<1> QED
  BY <1>3, <1>5, <1>7, <1>8, <1>11, <1>13, <1>14, <1>15, <1>16, CutoffKeeps

\* The sessions of one account end.
LEMMA Revoking ==
  ASSUME Inv, Refused, NEW r \in Request, Revoke(r)
  PROVE  Inv'
<1>1. PICK p : p = req[r] /\ p \in Reqs /\ p.pc = "revoke" /\ Form(p, tokens, nextId, now)
               /\ Seen(p, epoch, out, sweepRaced)
  BY Ask DEF Revoke, At
<1>2. PICK i : i = p.id
  OBVIOUS
<1>3. p.op \in Targeted /\ i \in 1 .. nextId - 1 /\ i \in Ids
  BY <1>1, <1>2, Named DEF Form
<1>5. now' = now + 1 /\ UNCHANGED <<nextId, epoch, secret, starts, tokens, raced, sweepRaced>>
  BY DEF Revoke, RevokeUserSessions
<1>6. PICK row : row = [users[i] EXCEPT !.cutoff = now']
  OBVIOUS
<1>7. UpdateRow(i, row)
  BY <1>1, <1>2, <1>6 DEF Revoke, RevokeUserSessions
<1>8. users[i] # None => row \in Rows /\ row.name = users[i].name /\ row.cutoff = now'
                           /\ row.role = users[i].role /\ row.active = users[i].active
  <2>1. users[i] # None => users[i] \in Rows /\ users[i].pw \in Passwords /\ now' \in Nat
    BY <1>3, <1>5, Named DEF Rows
  <2>2. PICK old : old = users[i]
    OBVIOUS
  <2> QED
    BY <1>6, <2>1, <2>2 DEF Rows
<1>9. CASE Answer(r)
  <2>1. Form(Idle, tokens, nextId, now') /\ Seen(Idle, epoch, out, sweepRaced) /\ Faithful(Idle, users, raced)
    BY <1>5, IdleRequest, Named
  <2>2. req' = [req EXCEPT ![r] = Idle]
    BY <1>9 DEF Answer
  <2> QED
    BY <1>3, <1>5, <1>7, <1>8, <2>1, <2>2, IdleRequest, CutoffKeeps
<1>10. CASE Goto(r, "mint")
  <2>1. PICK q : q = [p EXCEPT !.pc = "mint"]
    OBVIOUS
  <2>2. "mint" \in Places
    BY DEF Places
  <2>3. /\ q \in Reqs /\ q.pc = "mint" /\ q.op = p.op /\ q.tok = p.tok /\ q.body = p.body /\ q.id = p.id /\ q.me = p.me
        /\ q.tgt = p.tgt /\ q.clock = p.clock /\ q.barred = p.barred
    BY <1>1, <2>1, <2>2, Moved
  <2>4. Form(q, tokens, nextId, now) /\ q.clock \in Nat
    BY <1>1, <1>3, <2>3 DEF Form, Reqs
  <2>5. Form(q, tokens, nextId, now')
    BY <1>5, <2>4, Named, FormLater
  <2>6. Seen(q, epoch, out, sweepRaced) /\ Faithful(q, users, raced)
    BY <1>1, <2>3 DEF Seen, Faithful
  <2>7. req' = [req EXCEPT ![r] = q]
    BY <1>1, <1>10, <2>1 DEF Goto
  <2> QED
    BY <1>3, <1>5, <1>7, <1>8, <2>3, <2>5, <2>6, <2>7, CutoffKeeps
<1> QED
  BY <1>9, <1>10 DEF Revoke

\* Update writes a row whose name, password and cutoff stay.
LEMMA Updating ==
  ASSUME Inv, NEW i \in 1 .. nextId - 1, NEW role \in Roles \cup {"-"}, NEW active \in {"-", "on", "off"},
         Update(i, role, active)
  PROVE  /\ Table(users', nextId, now) /\ \A j \in 1 .. nextId - 1 : Later(users[j], users'[j], now)
         /\ \A j \in Ids \ {i} : users'[j] = users[j]
         /\ IsAdmin(users[i]) /\ role \in {"-", "admin"} /\ active # "off" => IsAdmin(users'[i])
<1>1. PICK row : /\ UpdateRow(i, row)
                 /\ row = [users[i] EXCEPT !.role   = IF role = "-" THEN @ ELSE role,
                                           !.active = IF active = "-" THEN @ ELSE active = "on"]
  BY DEF Update
<1>2. i \in Ids /\ now \in Nat /\ now <= now /\ UpdateRow(i, row)
  BY <1>1, Named
<1>3. ASSUME users[i] # None
      PROVE  /\ row \in Rows /\ row.name = users[i].name /\ row.cutoff = users[i].cutoff /\ row.pw = users[i].pw
             /\ IsAdmin(users[i]) /\ role \in {"-", "admin"} /\ active # "off" => IsAdmin(row)
  <2>1. users[i] \in Rows
    BY <1>2, <1>3, Named
  <2>2. PICK old : old = users[i]
    OBVIOUS
  <2>3. PICK r2 : r2 = (IF role = "-" THEN old.role ELSE role)
    OBVIOUS
  <2>4. PICK a2 : a2 = (IF active = "-" THEN old.active ELSE active = "on")
    OBVIOUS
  <2>5. row = [old EXCEPT !.role = r2, !.active = a2]
    <3>1. row = [old EXCEPT !.role = IF role = "-" THEN old.role ELSE role,
                            !.active = IF active = "-" THEN old.active ELSE active = "on"]
      BY <1>1, <2>1, <2>2 DEF Rows
    <3> QED
      BY <2>3, <2>4, <3>1, Zenon
  <2>6. old \in Rows
    BY <2>1, <2>2
  <2>7. r2 \in Roles /\ a2 \in BOOLEAN
    BY <2>3, <2>4, <2>6 DEF Rows
  <2>8. /\ row \in Rows /\ row.name = old.name /\ row.cutoff = old.cutoff /\ row.pw = old.pw
        /\ row.role = r2 /\ row.active = a2
    <3>1. row = [name |-> old.name, pw |-> old.pw, role |-> r2, active |-> a2, cutoff |-> old.cutoff]
      BY <2>5, <2>6 DEF Rows
    <3> QED
      BY <2>6, <2>7, <3>1 DEF Rows
  <2>9. IsAdmin(old) /\ role \in {"-", "admin"} /\ active # "off" => IsAdmin(row)
    <3>1. role \in {"-", "admin"} /\ old.role = "admin" => r2 = "admin"
      BY <2>3
    <3>2. active # "off" /\ old.active => a2
      BY <2>4
    <3>3. row # None
      BY <2>8, AccountsAssumption
    <3> QED
      BY <2>8, <3>1, <3>2, <3>3 DEF IsAdmin
  <2> QED
    BY <2>2, <2>8, <2>9
<1>4. users[i] # None => row \in Rows /\ row.name = users[i].name /\ row.cutoff <= now /\ Later(users[i], row, now)
  <2>1. users[i] # None => users[i].cutoff <= now /\ users[i].cutoff \in Nat
    BY <1>2 DEF Inv, Table, Rows
  <2> QED
    BY <1>3, <2>1 DEF Later
<1>5. /\ Table(users', nextId, now)
      /\ \A j \in Ids : users'[j] = IF j = i /\ users[i] # None THEN row ELSE users[j]
      /\ \A j \in 1 .. nextId - 1 : Later(users[j], users'[j], now)
  BY <1>2, <1>4, RowWritten
<1>6. IsAdmin(users[i]) /\ role \in {"-", "admin"} /\ active # "off" => IsAdmin(users'[i])
  BY <1>2, <1>3, <1>5 DEF IsAdmin
<1> QED
  BY <1>5, <1>6

\* An answered request after a write.
LEMMA AnsweredAfterWrite ==
  ASSUME Inv, Refused, NEW r \in Request, Answer(r),
         UNCHANGED <<nextId, epoch, now, secret, starts, tokens, sweepRaced>>, raced' = (raced \/ Overtaken(r)),
         Table(users', nextId, now), \A i \in 1 .. nextId - 1 : Later(users[i], users'[i], now),
         ~ raced => \E i \in Ids : IsAdmin(users'[i])
  PROVE  Inv'
<1>1. Form(Idle, tokens, nextId, now) /\ Seen(Idle, epoch, out, sweepRaced) /\ Idle.pc = "idle"
  BY IdleRequest, Named DEF Idle
<1>2. req' = [req EXCEPT ![r] = Idle]
  BY DEF Answer
<1> QED
  BY <1>1, <1>2, IdleRequest, AuthorityKeeps

\* update_user writes the role and the activity.
LEMMA WritingUpdate ==
  ASSUME Inv, Refused, NEW r \in Request, UpdateWrite(r)
  PROVE  Inv'
<1>1. PICK p : p = req[r] /\ p \in Reqs /\ p.pc = "write" /\ Form(p, tokens, nextId, now) /\ Faithful(p, users, raced)
  BY Ask DEF UpdateWrite, At
<1>2. p.op = "update" /\ p.me # None /\ p.tgt # None /\ p.id \in 1 .. nextId - 1 /\ p.id \in Ids
      /\ p.body.role \in Roles \cup {"-"} /\ p.body.active \in {"-", "on", "off"}
  BY <1>1, Named, AccountsAssumption DEF Form, Targeted
<1>3. PICK i, role, active : i = p.id /\ role = p.body.role /\ active = p.body.active
  OBVIOUS
<1>4. Update(i, role, active)
  BY <1>1, <1>3 DEF UpdateWrite
<1>5. /\ Table(users', nextId, now) /\ \A j \in 1 .. nextId - 1 : Later(users[j], users'[j], now)
      /\ \A j \in Ids \ {i} : users'[j] = users[j]
      /\ IsAdmin(users[i]) /\ role \in {"-", "admin"} /\ active # "off" => IsAdmin(users'[i])
  BY <1>2, <1>3, <1>4, Updating
<1>6. ASSUME ~ raced PROVE \E j \in Ids : IsAdmin(users'[j])
  <2>1. users[i] # None /\ users[i].role = p.tgt.role /\ users[i].active = p.tgt.active
        /\ (p.tgt.role = "admin" /\ p.tgt.active =>
              /\ role \notin {"-", "admin"} => AnotherAdmin(users, i)
              /\ active = "off" => AnotherAdmin(users, i))
    BY <1>1, <1>2, <1>3, <1>6 DEF Faithful, Holds
  <2>2. CASE ~ IsAdmin(users[i]) \/ AnotherAdmin(users, i)
    BY <1>5, <1>6, <2>2 DEF Inv, AnotherAdmin
  <2>3. CASE IsAdmin(users[i]) /\ ~ AnotherAdmin(users, i)
    <3>1. role \in {"-", "admin"} /\ active # "off"
      BY <2>1, <2>3 DEF IsAdmin
    <3> QED
      BY <1>2, <1>3, <1>5, <2>3, <3>1
  <2> QED
    BY <2>2, <2>3
<1> QED
  BY <1>5, <1>6, AnsweredAfterWrite DEF UpdateWrite

\* delete_user marks the row and goes on to end its sessions.
LEMMA Deactivating ==
  ASSUME Inv, Refused, NEW r \in Request, Deactivate(r)
  PROVE  Inv'
<1>1. PICK p : p = req[r] /\ p \in Reqs /\ p.pc = "delete" /\ Form(p, tokens, nextId, now)
               /\ Seen(p, epoch, out, sweepRaced) /\ Faithful(p, users, raced)
  BY Ask DEF Deactivate, At
<1>2. p.op = "delete" /\ p.me # None /\ p.tgt # None /\ p.id \in 1 .. nextId - 1 /\ p.id \in Ids
  BY <1>1, Named DEF Form, Targeted
<1>3. Update(p.id, "-", "off")
  BY <1>1 DEF Deactivate
<1>4. /\ Table(users', nextId, now) /\ \A j \in 1 .. nextId - 1 : Later(users[j], users'[j], now)
      /\ \A j \in Ids \ {p.id} : users'[j] = users[j]
  BY <1>2, <1>3, Updating
<1>5. ASSUME ~ raced PROVE \E j \in Ids : IsAdmin(users'[j])
  <2>1. IsAdmin(users[p.id]) => AnotherAdmin(users, p.id)
    BY <1>1, <1>2, <1>5 DEF Faithful, Holds, IsAdmin
  <2> QED
    BY <1>4, <1>5, <2>1 DEF Inv, AnotherAdmin
<1>6. PICK q : q = [p EXCEPT !.pc = "revoke"]
  OBVIOUS
<1>7. "revoke" \in Places
  BY DEF Places
<1>8. /\ q \in Reqs /\ q.pc = "revoke" /\ q.op = p.op /\ q.tok = p.tok /\ q.body = p.body /\ q.id = p.id /\ q.me = p.me
      /\ q.tgt = p.tgt /\ q.clock = p.clock /\ q.barred = p.barred
  BY <1>1, <1>6, <1>7, Moved
<1>9. Form(q, tokens, nextId, now) /\ Seen(q, epoch, out, sweepRaced)
  BY <1>1, <1>2, <1>8 DEF Form, Seen, Targeted
<1>10. req' = [req EXCEPT ![r] = q] /\ raced' = (raced \/ Overtaken(r))
       /\ UNCHANGED <<nextId, epoch, now, secret, starts, tokens, sweepRaced>>
  BY <1>1, <1>6 DEF Deactivate, Goto
<1> QED
  BY <1>4, <1>5, <1>8, <1>9, <1>10, AuthorityKeeps

\* purge_user deletes the row.
LEMMA Purging ==
  ASSUME Inv, Refused, NEW r \in Request, Purge(r)
  PROVE  Inv'
<1>1. PICK p : p = req[r] /\ p \in Reqs /\ p.pc = "purge" /\ Form(p, tokens, nextId, now) /\ Faithful(p, users, raced)
  BY Ask DEF Purge, At
<1>2. p.op = "purge" /\ p.me # None /\ p.tgt # None /\ p.id \in Ids
  BY <1>1, Named DEF Form, Targeted
<1>3. users' = [users EXCEPT ![p.id] = None] /\ users \in [Ids -> Rows \cup {None}]
  BY <1>1 DEF Purge, Delete, Inv, Table
<1>4. \A j \in Ids : users'[j] = IF j = p.id THEN None ELSE users[j]
  BY <1>2, <1>3
<1>5. Table(users', nextId, now)
  BY <1>2, <1>3, <1>4 DEF Inv, Table
<1>6. \A j \in 1 .. nextId - 1 : Later(users[j], users'[j], now)
  <2>1. \A j \in Ids : users[j] # None => users[j].cutoff \in Nat
    BY <1>3 DEF Rows
  <2> QED
    BY <1>4, <2>1, Named DEF Later
<1>7. ASSUME ~ raced PROVE \E j \in Ids : IsAdmin(users'[j])
  <2>1. IsAdmin(users[p.id]) => AnotherAdmin(users, p.id)
    BY <1>1, <1>2, <1>7 DEF Faithful, Holds, IsAdmin
  <2> QED
    BY <1>4, <1>7, <2>1 DEF Inv, AnotherAdmin
<1> QED
  BY <1>5, <1>6, <1>7, AnsweredAfterWrite DEF Purge

\* A new token: nobody was ever refused with it, and unless it is late it was made
\* for the password its account has.
LEMMA Minting ==
  ASSUME Inv, Refused, NEW r \in Request, Mint(r)
  PROVE  Inv'
<1>1. PICK p : p = req[r] /\ p \in Reqs /\ p.pc = "mint" /\ Form(p, tokens, nextId, now)
  BY Ask DEF Mint, At
<1>2. now' = now + 1 /\ UNCHANGED <<users, nextId, epoch, secret, starts, raced, sweepRaced>> /\ Answer(r)
  BY DEF Mint
<1>3. p.id \in 1 .. nextId - 1 /\ p.id \in Ids /\ p.id \in Nat /\ p.op # "-"
  BY <1>1, Named DEF Form, Ids
<1>4. PICK pw : pw = IF p.op \in {"login", "password"} THEN p.body.pw ELSE p.tok.pw
  OBVIOUS
<1>5. pw \in Passwords
  <2>1. p.op \in {"login", "password"} => p.body \in Login
    BY <1>1 DEF Form
  <2>2. p.op \notin {"login", "password"} => p.tok \in Tokens
    BY <1>1, <1>3, Named DEF Form
  <2> QED
    BY <1>4, <2>1, <2>2 DEF Passwords, Tokens
<1>6. PICK late : late = (\/ users[p.id] = None \/ users[p.id].pw # pw
                          \/ p.op \in {"revoke_all", "revoke_one"} /\ p.tok.late)
  OBVIOUS
<1>7. late \in BOOLEAN /\ (~ late => users[p.id] = None \/ users[p.id].pw = pw)
  BY <1>6
<1>8. PICK t : t = [sub |-> p.id, iat |-> now', key |-> secret, pw |-> pw, late |-> late]
  OBVIOUS
<1>9. tokens' = tokens \cup {t}
  BY <1>1, <1>4, <1>6, <1>8 DEF Mint, Token
<1>10. t \in Tokens /\ t.sub = p.id /\ t.iat = now' /\ t.key = secret /\ t.pw = pw /\ t.late = late
  BY <1>2, <1>3, <1>5, <1>7, <1>8, Named DEF Tokens, Inv, Scalars
<1>11. now \in Nat /\ now' \in Nat /\ now <= now' /\ now < now'
  BY <1>2, Named
<1>12. Scalars'
  BY <1>2, <1>11, RefusedIsPast DEF Inv, Scalars
<1>13. Table(users', nextId', now')
  <2>1. \A i \in Ids : users[i] # None => users[i].cutoff <= now'
    BY <1>11, Named DEF Inv, Table, Rows
  <2> QED
    BY <1>2, <2>1 DEF Inv, Table
<1>14. Issued(tokens', nextId', now', starts')
  <2>1. t \in Tokens /\ t.sub \in 1 .. nextId - 1 /\ t.iat \in 1 .. now' /\ t.key \in 1 .. starts
    BY <1>2, <1>3, <1>10, <1>11 DEF Inv, Scalars
  <2>2. \A u \in tokens : u \in Tokens /\ u.sub \in 1 .. nextId - 1 /\ u.iat \in 1 .. now' /\ u.key \in 1 .. starts /\ u.iat # t.iat
    BY <1>10, <1>11 DEF Inv, Issued
  <2>3. \A u, v \in tokens : u.iat = v.iat => u = v
    BY DEF Inv, Issued
  <2> QED
    BY <1>2, <1>9, <2>1, <2>2, <2>3 DEF Issued
<1>15. \A u \in tokens' \ tokens : now < u.iat /\ Sound(u, users', epoch', {}, sweepRaced')
  <2>1. Sound(t, users', epoch', {}, sweepRaced')
    BY <1>2, <1>7, <1>10 DEF Sound
  <2> QED
    BY <1>9, <1>10, <1>11, <2>1
<1>16. \A i \in 1 .. nextId - 1 : Later(users[i], users'[i], now)
  BY <1>2, Named DEF Later, Rows
<1>17. Form(Idle, tokens', nextId', now') /\ Seen(Idle, epoch', out', sweepRaced')
  BY <1>11, IdleRequest
<1>18. \A s \in Request : Faithful(req'[s], users', raced')
  <2>1. \A s \in Request : req'[s] = IF s = r THEN Idle ELSE req[s]
    BY <1>2 DEF Answer, Inv
  <2> QED
    BY <1>2, <2>1, IdleRequest DEF Inv
<1>19. nextId <= nextId' /\ starts <= starts' /\ epoch <= epoch' /\ (sweepRaced => sweepRaced') /\ (raced => raced')
       /\ (~ raced' => \E i \in Ids : IsAdmin(users'[i])) /\ tokens \subseteq tokens'
  BY <1>2, <1>9 DEF Inv, Scalars
<1>20. req' = [req EXCEPT ![r] = Idle] /\ Idle \in Reqs
  BY <1>2, IdleRequest DEF Answer
<1> QED
  BY <1>11, <1>12, <1>13, <1>14, <1>15, <1>16, <1>17, <1>18, <1>19, <1>20, StepKeeps

\* revoke_all reads the clock before it takes the lock.
LEMMA SweepingClock ==
  ASSUME Inv, Refused, NEW r \in Request, SweepClock(r)
  PROVE  Inv'
<1>1. PICK p : p = req[r] /\ p \in Reqs /\ p.pc = "sweep" /\ Form(p, tokens, nextId, now)
               /\ Seen(p, epoch, out, sweepRaced)
  BY Ask DEF SweepClock, At
<1>2. now' = now + 1 /\ UNCHANGED <<users, nextId, epoch, secret, starts, tokens, raced, sweepRaced>>
  BY DEF SweepClock
<1>3. now \in Nat /\ now' \in Nat /\ now <= now' /\ now < now'
  BY <1>2, Named
<1>4. PICK q : q = [p EXCEPT !.pc = "sweepWrite", !.clock = now']
  OBVIOUS
<1>5. q \in Reqs
  BY <1>1, <1>3, <1>4 DEF Reqs, Places
<1>6. /\ q.pc = "sweepWrite" /\ q.op = p.op /\ q.tok = p.tok /\ q.body = p.body /\ q.id = p.id /\ q.me = p.me
      /\ q.tgt = p.tgt /\ q.clock = now' /\ q.barred = p.barred
  BY <1>1, <1>4 DEF Reqs
<1>7. p.op = "revoke_all"
  BY <1>1 DEF Form
<1>8. Form(q, tokens, nextId, now')
  BY <1>1, <1>3, <1>6, <1>7 DEF Form
<1>9. Seen(q, epoch, out, sweepRaced)
  BY <1>1, <1>6 DEF Seen
<1>10. Scalars'
  BY <1>2, <1>3, RefusedIsPast DEF Inv, Scalars
<1>11. Table(users', nextId', now')
  <2>1. \A i \in Ids : users[i] # None => users[i].cutoff <= now'
    BY <1>3, Named DEF Inv, Table, Rows
  <2> QED
    BY <1>2, <2>1 DEF Inv, Table
<1>12. Issued(tokens', nextId', now', starts') /\ tokens' \ tokens = {}
  <2>1. \A u \in tokens : u.iat \in 1 .. now'
    BY <1>3 DEF Inv, Issued
  <2> QED
    BY <1>2, <2>1 DEF Inv, Issued
<1>13. \A i \in 1 .. nextId - 1 : Later(users[i], users'[i], now)
  BY <1>2, Named DEF Later, Rows
<1>14. Form(q, tokens', nextId', now') /\ Seen(q, epoch', out', sweepRaced')
  BY <1>2, <1>3, <1>8, <1>9, RefusedIsPast, SeenGrows
<1>15. req' = [req EXCEPT ![r] = q]
  BY <1>1, <1>4 DEF SweepClock
<1>16. \A s \in Request : Faithful(req'[s], users', raced')
  <2>1. \A s \in Request : req'[s] = IF s = r THEN q ELSE req[s]
    BY <1>15 DEF Inv
  <2>2. Faithful(q, users, raced)
    BY <1>6 DEF Faithful
  <2> QED
    BY <1>2, <2>1, <2>2 DEF Inv
<1>17. nextId <= nextId' /\ starts <= starts' /\ epoch <= epoch' /\ (sweepRaced => sweepRaced') /\ (raced => raced')
       /\ (~ raced' => \E i \in Ids : IsAdmin(users'[i])) /\ tokens \subseteq tokens'
  BY <1>2 DEF Inv, Scalars
<1> QED
  BY <1>3, <1>5, <1>10, <1>11, <1>12, <1>13, <1>14, <1>15, <1>16, <1>17, StepKeeps

\* It then writes the epoch: a lower one than before is what sweepRaced records.
LEMMA SweepingWrite ==
  ASSUME Inv, Refused, NEW r \in Request, SweepWrite(r)
  PROVE  Inv'
<1>1. PICK p : p = req[r] /\ p \in Reqs /\ p.pc = "sweepWrite" /\ Form(p, tokens, nextId, now)
               /\ Seen(p, epoch, out, sweepRaced)
  BY Ask DEF SweepWrite, At
<1>2. epoch' = p.clock /\ sweepRaced' = (sweepRaced \/ epoch > epoch')
      /\ UNCHANGED <<users, nextId, now, secret, starts, tokens, raced>>
  BY <1>1 DEF SweepWrite
<1>3. p.op = "revoke_all" /\ p.tok \in tokens /\ p.clock \in 0 .. now /\ now \in Nat
  BY <1>1, Named DEF Form, Reqs
<1>4. PICK i : i = p.tok.sub
  OBVIOUS
<1>5. i \in 1 .. nextId - 1 /\ i \in Nat
  BY <1>3, <1>4, Named
<1>6. PICK q : q = [p EXCEPT !.pc = "mint", !.id = i]
  OBVIOUS
<1>7. q \in Reqs
  BY <1>1, <1>5, <1>6 DEF Reqs, Places
<1>8. /\ q.pc = "mint" /\ q.op = p.op /\ q.tok = p.tok /\ q.body = p.body /\ q.id = i /\ q.me = p.me
      /\ q.tgt = p.tgt /\ q.clock = p.clock /\ q.barred = p.barred
  BY <1>1, <1>6 DEF Reqs
<1>9. Form(q, tokens, nextId, now)
  BY <1>1, <1>3, <1>5, <1>8 DEF Form, Targeted
<1>10. epoch \in Nat /\ epoch' \in Nat /\ sweepRaced' \in BOOLEAN /\ (sweepRaced => sweepRaced')
       /\ (epoch <= epoch' \/ sweepRaced')
  <2>1. epoch \in Nat /\ epoch' \in Nat /\ (epoch <= epoch' \/ epoch > epoch')
    BY <1>2, <1>3 DEF Inv, Scalars
  <2>2. sweepRaced' \in BOOLEAN
    BY <1>2
  <2>3. (sweepRaced => sweepRaced') /\ (epoch > epoch' => sweepRaced')
    BY <1>2
  <2> QED
    BY <2>1, <2>2, <2>3
<1>11. out \subseteq out'
  BY DEF Refused
<1>12. Seen(q, epoch', out', sweepRaced')
  BY <1>1, <1>8, <1>10, <1>11 DEF Seen
<1>13. Scalars'
  BY <1>2, <1>3, <1>10, RefusedIsPast DEF Inv, Scalars
<1>14. Table(users', nextId', now') /\ Issued(tokens', nextId', now', starts') /\ Form(q, tokens', nextId', now')
       /\ tokens' \ tokens = {} /\ tokens \subseteq tokens'
  BY <1>2, <1>9 DEF Inv
<1>15. \A j \in 1 .. nextId - 1 : Later(users[j], users'[j], now)
  BY <1>2, Named DEF Later, Rows
<1>16. req' = [req EXCEPT ![r] = q]
  BY <1>1, <1>4, <1>6 DEF SweepWrite
<1>17. \A s \in Request : Faithful(req'[s], users', raced')
  <2>1. \A s \in Request : req'[s] = IF s = r THEN q ELSE req[s]
    BY <1>16 DEF Inv
  <2>2. Faithful(q, users, raced)
    BY <1>8 DEF Faithful
  <2> QED
    BY <1>2, <2>1, <2>2 DEF Inv
<1>18. nextId <= nextId' /\ now <= now' /\ starts <= starts' /\ (raced => raced')
       /\ (~ raced' => \E j \in Ids : IsAdmin(users'[j]))
  BY <1>2 DEF Inv, Scalars
<1> QED
  BY <1>7, <1>10, <1>12, <1>13, <1>14, <1>15, <1>16, <1>17, <1>18, StepKeeps

\* A row at the next id: the table, and what others know of other rows, stay.
LEMMA Creating ==
  ASSUME Inv, NEW name \in Usernames, NEW pw \in Passwords, NEW role \in Roles,
         ByUsername(name) = {}, Create(name, pw, role)
  PROVE  /\ Table(users', nextId', now) /\ nextId' = nextId + 1 /\ nextId' \in 3 .. MaxId + 1
         /\ \A j \in 1 .. nextId - 1 : j \in Ids /\ users'[j] = users[j]
         /\ \A j \in Ids : IsAdmin(users[j]) => IsAdmin(users'[j])
<1>1. PICK row : row = [name |-> name, pw |-> pw, role |-> role, active |-> TRUE, cutoff |-> 0]
  OBVIOUS
<1>2. row \in Rows /\ row.name = name /\ row.cutoff = 0
  BY <1>1 DEF Rows
<1>3. nextId \in Ids /\ users' = [users EXCEPT ![nextId] = row] /\ nextId' = nextId + 1
  BY <1>1 DEF Create, FreshId, NewRow
<1>4. nextId \in Nat /\ now \in Nat /\ nextId' \in 3 .. MaxId + 1 /\ 1 .. nextId - 1 \subseteq Ids
  BY <1>3, Named, AccountsAssumption DEF Inv, Scalars, Ids
<1>5. users \in [Ids -> Rows \cup {None}] /\ \A j \in Ids : users[j] # None => j < nextId /\ users[j].cutoff <= now
  BY DEF Inv, Table
<1>6. \A j \in Ids : users'[j] = IF j = nextId THEN row ELSE users[j]
  BY <1>3, <1>5
<1>7. users[nextId] = None
  BY <1>3, <1>4, <1>5
<1>8. users' \in [Ids -> Rows \cup {None}]
  BY <1>2, <1>3, <1>5
<1>9. \A j \in Ids : users'[j] # None => j < nextId' /\ users'[j].cutoff <= now
  BY <1>2, <1>3, <1>4, <1>5, <1>6 DEF Ids
<1>10. \A j, k \in Ids : users'[j] # None /\ users'[k] # None /\ users'[j].name = users'[k].name => j = k
  <2>1. \A j \in Ids : users[j] # None => users[j].name # name
    BY DEF ByUsername
  <2>2. \A j, k \in Ids : users[j] # None /\ users[k] # None /\ users[j].name = users[k].name => j = k
    BY DEF Inv, Table
  <2> QED
    BY <1>2, <1>6, <2>1, <2>2
<1>11. \A j \in Ids : IsAdmin(users[j]) => IsAdmin(users'[j])
  BY <1>6, <1>7 DEF IsAdmin
<1>12. \A j \in 1 .. nextId - 1 : j \in Ids /\ users'[j] = users[j]
  BY <1>4, <1>6
<1> QED
  BY <1>3, <1>4, <1>8, <1>9, <1>10, <1>11, <1>12 DEF Table

\* What holds of the rows others know holds still, when one is added.
LEMMA AddedRow ==
  ASSUME Inv, NEW s \in Request, NEW rows,
         \A j \in 1 .. nextId - 1 : j \in Ids /\ rows[j] = users[j],
         \A j \in Ids : IsAdmin(users[j]) => IsAdmin(rows[j])
  PROVE  Faithful(req[s], rows, raced)
<1>1. PICK p : p = req[s] /\ Form(p, tokens, nextId, now) /\ Faithful(p, users, raced)
  BY Ask
<1>2. Holds(p) => rows[p.id] = users[p.id]
  BY <1>1 DEF Holds, Form, Targeted
<1>3. \A i : AnotherAdmin(users, i) => AnotherAdmin(rows, i)
  BY DEF AnotherAdmin
<1> QED
  BY <1>1, <1>2, <1>3 DEF Faithful

\* create_user inserts its row, unless the name was taken meanwhile.
LEMMA Inserting ==
  ASSUME Inv, Refused, NEW r \in Request, Insert(r)
  PROVE  Inv'
<1>1. PICK p : p = req[r] /\ p.pc = "insert" /\ Form(p, tokens, nextId, now)
  BY Ask DEF Insert, At
<1>2. p.op = "create" /\ p.body \in NewName
  BY <1>1 DEF Form
<1>3. UNCHANGED <<epoch, now, secret, starts, tokens, raced, sweepRaced>> /\ Answer(r)
  BY DEF Insert
<1>4. CASE UNCHANGED <<users, nextId>>
  BY <1>3, <1>4, AnswerKeeps
<1>5. CASE ByUsername(p.body.name) = {} /\ Create(p.body.name, p.body.pw, p.body.role)
  <2>1. PICK name, pw, role : name = p.body.name /\ pw = p.body.pw /\ role = p.body.role
    OBVIOUS
  <2>2. name \in Usernames /\ pw \in Passwords /\ role \in Roles
    BY <1>2, <2>1, AccountsAssumption DEF Usernames, Passwords
  <2>3. /\ Table(users', nextId', now) /\ nextId' = nextId + 1 /\ nextId' \in 3 .. MaxId + 1
        /\ \A j \in 1 .. nextId - 1 : j \in Ids /\ users'[j] = users[j]
        /\ \A j \in Ids : IsAdmin(users[j]) => IsAdmin(users'[j])
    BY <1>5, <2>1, <2>2, Creating
  <2>4. nextId \in Nat /\ now \in Nat /\ nextId <= nextId' /\ now <= now' /\ starts <= starts' /\ epoch <= epoch'
        /\ (sweepRaced => sweepRaced') /\ (raced => raced') /\ tokens \subseteq tokens' /\ tokens' \ tokens = {}
    BY <1>3, <2>3 DEF Inv, Scalars
  <2>5. Scalars'
    BY <1>3, <2>3, RefusedIsPast DEF Inv, Scalars
  <2>6. \A j \in 1 .. nextId - 1 : Later(users[j], users'[j], now)
    BY <2>3, Named DEF Later, Rows
  <2>7. Issued(tokens', nextId', now', starts')
    BY <1>3, <2>3, <2>4 DEF Inv, Issued
  <2>8. Form(Idle, tokens', nextId', now') /\ Seen(Idle, epoch', out', sweepRaced') /\ Idle \in Reqs
    BY <1>3, <2>4, IdleRequest
  <2>9. req' = [req EXCEPT ![r] = Idle]
    BY <1>3 DEF Answer
  <2>10. \A s \in Request : Faithful(req'[s], users', raced')
    <3>1. \A s \in Request : req'[s] = IF s = r THEN Idle ELSE req[s]
      BY <2>9 DEF Inv
    <3>2. \A s \in Request : Faithful(req[s], users', raced)
      BY <2>3, AddedRow
    <3> QED
      BY <1>3, <3>1, <3>2, IdleRequest
  <2>11. ~ raced' => \E j \in Ids : IsAdmin(users'[j])
    BY <1>3, <2>3 DEF Inv
  <2> QED
    BY <1>3, <2>3, <2>4, <2>5, <2>6, <2>7, <2>8, <2>9, <2>10, <2>11, StepKeeps
<1> QED
  BY <1>1, <1>4, <1>5 DEF Insert

\* A restart ends the requests and may bring the seed account back under a new id.
LEMMA Restarting ==
  ASSUME Inv, Refused, Restart
  PROVE  Inv'
<1>1. UNCHANGED <<epoch, now, tokens, raced, sweepRaced>> /\ starts' = starts + 1 /\ secret' \in {secret, starts'}
      /\ req' = [r \in Request |-> Idle]
  BY DEF Restart
<1>2. /\ Table(users', nextId', now) /\ nextId <= nextId' /\ nextId' \in 3 .. MaxId + 1
      /\ \A j \in 1 .. nextId - 1 : j \in Ids /\ users'[j] = users[j]
      /\ \A j \in Ids : IsAdmin(users[j]) => IsAdmin(users'[j])
  <2>1. CASE UNCHANGED <<users, nextId>>
    BY <2>1, Named DEF Inv, Scalars
  <2>2. CASE ByUsername(Seed.name) = {} /\ Create(Seed.name, Seed.pw, Seed.role)
    <3>1. PICK name, pw, role : name = Seed.name /\ pw = Seed.pw /\ role = Seed.role
      OBVIOUS
    <3>2. name \in Usernames /\ pw \in Passwords /\ role \in Roles
      <4>1. Seed.role = "admin"
        BY AccountsAssumption
      <4> QED
        BY <3>1, <4>1 DEF Usernames, Passwords, Roles
    <3>3. nextId \in Nat
      BY DEF Inv, Scalars
    <3> QED
      BY <2>2, <3>1, <3>2, <3>3, Creating
  <2> QED
    BY <2>1, <2>2 DEF Restart
<1>3. nextId \in Nat /\ now \in Nat /\ starts \in Nat /\ secret \in 1 .. starts
  BY DEF Inv, Scalars
<1>4. Scalars'
  <2>1. starts' \in Nat /\ secret' \in 1 .. starts'
    BY <1>1, <1>3
  <2> QED
    BY <1>1, <1>2, <2>1, RefusedIsPast DEF Inv, Scalars
<1>5. \A j \in 1 .. nextId - 1 : Later(users[j], users'[j], now)
  BY <1>2, Named DEF Later, Rows
<1>6. Issued(tokens', nextId', now', starts')
  <2>1. ASSUME NEW t \in tokens
        PROVE  t \in Tokens /\ t.sub \in 1 .. nextId' - 1 /\ t.iat \in 1 .. now /\ t.key \in 1 .. starts'
    <3>1. t \in Tokens /\ t.sub \in 1 .. nextId - 1 /\ t.iat \in 1 .. now /\ t.key \in 1 .. starts
      BY DEF Inv, Issued
    <3> QED
      BY <1>1, <1>2, <1>3, <3>1
  <2> QED
    BY <1>1, <2>1 DEF Inv, Issued
<1>7. \A t \in tokens' : Sound(t, users', epoch', out', sweepRaced')
  <2>1. now <= now' /\ epoch <= epoch' /\ (sweepRaced => sweepRaced') /\ tokens' \ tokens = {}
    BY <1>1, <1>3 DEF Inv, Scalars
  <2> QED
    BY <1>1, <1>2, <1>4, <1>5, <2>1, TokensKeep
<1>8. req' \in [Request -> Reqs] /\ \A r \in Request : /\ Form(req'[r], tokens', nextId', now')
                                                       /\ Seen(req'[r], epoch', out', sweepRaced')
                                                       /\ Faithful(req'[r], users', raced')
  BY <1>1, <1>3, IdleRequest
<1>9. ~ raced' => \E j \in Ids : IsAdmin(users'[j])
  BY <1>1, <1>2 DEF Inv
<1> QED
  BY <1>1, <1>2, <1>4, <1>6, <1>7, <1>8, <1>9 DEF Inv

\* Every step.
LEMMA Step == Inv /\ [Next]_vars => Inv'
<1> SUFFICES ASSUME Inv, [Next]_vars PROVE Inv'
  OBVIOUS
<1>1. CASE UNCHANGED vars
  <2>1. UNCHANGED <<users, nextId, epoch, now, secret, starts, tokens, req, out, raced, sweepRaced>>
    BY <1>1 DEF vars
  <2> QED
    BY <2>1 DEF Inv, Scalars
<1>2. CASE Next
  <2>1. Refused
    BY <1>2 DEF Next, Refused
  <2>2. CASE Restart
    BY <2>1, <2>2, Restarting
  <2>3. ASSUME NEW r \in Request, Session(r) PROVE Inv'
    BY <2>1, <2>3, Arriving, GettingCaller, CheckingCutoffs, CheckingPassword, Minting, LookingUp, Changing,
       SweepingClock, SweepingWrite, Revoking DEF Session
  <2>4. ASSUME NEW r \in Request, Admin(r) PROVE Inv'
    BY <2>1, <2>4, CheckingPassword, Inserting, ReadingTarget, Resetting, Guarding, WritingUpdate, Purging,
       Deactivating DEF Admin
  <2> QED
    BY <1>2, <2>2, <2>3, <2>4 DEF Next
<1> QED
  BY <1>1, <1>2

\* What the invariant says in the terms of the checked properties.
LEMMA Meaning == Inv => TypeOK /\ RevokedStaysOut /\ AdminRemains /\ OldPasswordIsOut
<1> SUFFICES ASSUME Inv PROVE TypeOK /\ RevokedStaysOut /\ AdminRemains /\ OldPasswordIsOut
  OBVIOUS
<1>1. TypeOK
  <2>1. \A i \in Ids : users[i] # None => users[i].role \in Roles /\ users[i].cutoff \in 0 .. now /\ i < nextId
    <3>1. ASSUME NEW i \in Ids, users[i] # None
          PROVE  users[i].role \in Roles /\ users[i].cutoff \in Nat /\ users[i].cutoff <= now /\ i < nextId
      BY <3>1 DEF Inv, Table, Rows
    <3> QED
      BY <3>1, Named
  <2>2. nextId \in 1 .. MaxId + 1 /\ nextId \in Nat
    BY AccountsAssumption DEF Inv, Scalars
  <2>3. \A i \in Ids : i >= nextId => users[i] = None
    BY <2>1, <2>2 DEF Ids
  <2>4. \A t \in tokens : t.sub \in Ids /\ t.iat \in 1 .. now /\ t.key \in 1 .. starts
    BY Named DEF Inv, Issued
  <2>5. epoch \in 0 .. now /\ out \subseteq 1 .. now
    BY DEF Inv, Scalars
  <2>6. \A i, j \in Ids : users[i] # None /\ users[j] # None /\ users[i].name = users[j].name => i = j
    BY DEF Inv, Table
  <2> QED
    BY <2>1, <2>2, <2>3, <2>4, <2>5, <2>6 DEF TypeOK
<1>2. RevokedStaysOut
  BY DEF Inv, Seen, RevokedStaysOut
<1>3. AdminRemains
  BY DEF Inv, IsAdmin, ActiveAdmins, AdminRemains
<1>4. OldPasswordIsOut
  BY DEF Inv, Seen, OldPasswordIsOut
<1> QED
  BY <1>1, <1>2, <1>3, <1>4

\* The inductive invariant.
THEOREM AccountsInvariant == Spec => []Inv
BY Start, Step, PTL DEF Spec

\* Usernames are unique, an id is given once, and no cutoff, epoch or token is from
\* the future.
THEOREM AccountsTypes == Spec => []TypeOK
BY AccountsInvariant, Meaning, PTL

\* A token current_user would refuse for good is never let in again, unless two
\* sweeps of revoke_all wrote their epochs in the wrong order.
THEOREM Revocation == Spec => []RevokedStaysOut
BY AccountsInvariant, Meaning, PTL

\* _guard_last_admin keeps an administrator, however many requests overlap, as long
\* as no role or activity is written between another request's read and its write.
THEOREM LastAdmin == Spec => []AdminRemains
BY AccountsInvariant, Meaning, PTL

\* set_password's cutoff ends the sessions opened with the old password.
THEOREM PasswordReset == Spec => []OldPasswordIsOut
BY AccountsInvariant, Meaning, PTL

=============================================================================
