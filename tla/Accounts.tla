------------------------------ MODULE Accounts ------------------------------
(***************************************************************************)
(* Accounts and sessions: the users table of auth/store.py, the tokens and *)
(* the cutoffs of auth/security.py, and the handlers of auth/routes.py.    *)
(*                                                                         *)
(* Every statement of UserStore takes the store's lock, so one store call  *)
(* is one step.  The handlers are sync and run on a threadpool: between    *)
(* two of their calls any step of another request may come.  A row they    *)
(* read they keep as a copy.                                               *)
(*                                                                         *)
(* Abstraction.  `now` counts the clock reads that end up in a cutoff or   *)
(* in a token: fractional seconds tell any two of them apart.  A password  *)
(* stands for its hash.  An expired or forged token is like no token at    *)
(* all and is refused before anything is read, so it is never sent.  A     *)
(* display name changes nothing here and is left out.                      *)
(***************************************************************************)
EXTENDS Integers, FiniteSets

CONSTANTS
  Request,      \* requests in progress at the same time
  None,         \* no row, no token
  Seed,         \* the account MOADIAN_SEED_USERS names
  Other,        \* a second administrator, created by the first
  NewName,      \* the usernames an administrator may create
  Login,        \* what the login form may send: [name, pw]
  Patch,        \* what PATCH may carry: [pw, role, active], "-" for a field left out
  MaxId,        \* bound: rows ever inserted
  MaxRequests,  \* bound: requests ever sent
  MaxStarts     \* bound: starts of the process

Ids   == 1 .. MaxId
Roles == {"user", "admin"}

VARIABLES
  users,     \* the users table: id -> row, None where there is none
  nextId,    \* AUTOINCREMENT: the next id, never reused
  epoch,     \* auth_settings.auth_epoch, 0 when it was never written
  now,       \* the clock
  secret,    \* the secret tokens are signed with
  starts,    \* how often the process was started
  tokens,    \* every token issued
  req,       \* the requests in progress
  sent,      \* how many were sent
  out,       \* history: the tokens (by iat) that were refusable at some time
  raced,     \* history: a role or activity write fell between another request's
             \*          reading of its target and its own write
  sweepRaced \* history: a sweep wrote an epoch older than the one it replaced

vars == <<users, nextId, epoch, now, secret, starts, tokens, req, sent, out, raced, sweepRaced>>

\* What the table may hold.
Usernames == {Seed.name, Other.name} \cup {b.name : b \in NewName}
Passwords == {Seed.pw, Other.pw} \cup {b.pw : b \in NewName \cup Patch \cup Login}
Rows == [name : Usernames, pw : Passwords, role : Roles, active : BOOLEAN, cutoff : Nat]

\* Both accounts are administrators; a PATCH is validated before its handler runs.
ASSUME AccountsAssumption ==
  /\ MaxId \in Nat /\ MaxId >= 2
  /\ {Seed, Other} \subseteq [name : Usernames, pw : Passwords, role : {"admin"}, active : {TRUE}, cutoff : {0}]
  /\ Seed.name # Other.name /\ None \notin Rows
  /\ \A b \in NewName : b.role \in Roles
  /\ \A p \in Patch : p.active \in {"-", "on", "off"}

NewRow(name, pw, role) == [name |-> name, pw |-> pw, role |-> role, active |-> TRUE, cutoff |-> 0]

\* A token: its sub and iat, the secret that signed it, and as history the
\* password its session was opened with, and whether that one was out of date
\* already when the token was made.
Token(id, at, key, pw, late) == [sub |-> id, iat |-> at, key |-> key, pw |-> pw, late |-> late]

Idle == [pc |-> "idle", op |-> "-", tok |-> None, body |-> None, id |-> 0,
         me |-> None, tgt |-> None, clock |-> 0, barred |-> FALSE]

\* The seed account has created a second administrator, and both logged in.
Init ==
  /\ users = [i \in Ids |-> CASE i = 1 -> Seed [] i = 2 -> Other [] OTHER -> None]
  /\ nextId = 3 /\ epoch = 0 /\ now = 2 /\ secret = 1 /\ starts = 1
  /\ tokens = {Token(1, 1, 1, Seed.pw, FALSE), Token(2, 2, 1, Other.pw, FALSE)}
  /\ req = [r \in Request |-> Idle]
  /\ sent = 0 /\ out = {} /\ raced = FALSE /\ sweepRaced = FALSE

-----------------------------------------------------------------------------
(* The store. *)

ByUsername(name) == {i \in Ids : users[i] # None /\ users[i].name = name}

ActiveAdmins == {i \in Ids : users[i] # None /\ users[i].role = "admin" /\ users[i].active}

\* An UPDATE of a row that is gone changes nothing.
UpdateRow(i, row) == users' = IF users[i] = None THEN users ELSE [users EXCEPT ![i] = row]

\* A faulty version for a mutant: the reset leaves the old sessions alive.
SetPasswordOnly(i, pw) ==
  /\ now' = now + 1
  /\ UpdateRow(i, [users[i] EXCEPT !.pw = pw])

\* The cutoff is read while the lock is held: it never falls behind another one.
SetPassword(i, pw) ==
  /\ now' = now + 1
  /\ UpdateRow(i, [users[i] EXCEPT !.pw = pw, !.cutoff = now'])

RevokeUserSessions(i) ==
  /\ now' = now + 1
  /\ UpdateRow(i, [users[i] EXCEPT !.cutoff = now'])

\* Activity and role, each only when given.
Update(i, role, active) ==
  UpdateRow(i, [users[i] EXCEPT !.role   = IF role = "-" THEN @ ELSE role,
                                !.active = IF active = "-" THEN @ ELSE active = "on"])

\* A faulty version for a mutant: without AUTOINCREMENT the highest id is reused.
RowidPlusOne == CHOOSE i \in 1 .. MaxId + 1 :
                  /\ \A j \in Ids : users[j] # None => j < i
                  /\ i = 1 \/ users[i - 1] # None

\* AUTOINCREMENT: the id of a deleted row is never given again.
FreshId == nextId

\* A faulty version for a mutant: the counter of the ids is not saved.
CreateUncounted(name, pw, role) ==
  /\ FreshId \in Ids
  /\ users' = [users EXCEPT ![FreshId] = NewRow(name, pw, role)]
  /\ nextId' = FreshId

Create(name, pw, role) ==
  /\ FreshId \in Ids
  /\ users' = [users EXCEPT ![FreshId] = NewRow(name, pw, role)]
  /\ nextId' = FreshId + 1

Delete(i) == users' = [users EXCEPT ![i] = None]

-----------------------------------------------------------------------------
(* A request. *)

At(r, pc) == req[r].pc = pc
Goto(r, pc) == req' = [req EXCEPT ![r].pc = pc]
Answer(r)   == req' = [req EXCEPT ![r] = Idle]

\* A request about an account names one that exists or was purged.
Arrive(r) ==
  /\ At(r, "idle") /\ sent < MaxRequests
  /\ sent' = sent + 1
  /\ \/ \E l \in Login :
          req' = [req EXCEPT ![r] = [Idle EXCEPT !.pc = "lookup", !.op = "login", !.body = l]]
     \/ \E t \in tokens,
           c \in   [op : {"me", "revoke_all"}, body : {None}, id : {0}]
             \cup [op : {"password"}, body : Login, id : {0}]
             \cup [op : {"create"}, body : NewName, id : {0}]
             \cup [op : {"update"}, body : Patch, id : 1 .. nextId - 1]
             \cup [op : {"delete", "purge", "revoke_one"}, body : {None}, id : 1 .. nextId - 1] :
          req' = [req EXCEPT ![r] = [Idle EXCEPT !.pc = "get", !.op = c.op, !.tok = t, !.body = c.body,
                                                 !.id = c.id, !.barred = t.iat \in out]]
  /\ UNCHANGED <<users, nextId, epoch, now, secret, starts, tokens, raced, sweepRaced>>

\* What a handler does once current_user let the caller in.
First(op) == CASE op = "me" -> "answer" [] op = "revoke_all" -> "sweep" [] op = "password" -> "verify"
               [] op = "create" -> "byname" [] OTHER -> "target"

\* current_user, first half: the signature, then the caller's row as it is now.
GetCaller(r) ==
  /\ At(r, "get")
  /\ LET t == req[r].tok row == users[t.sub]
     IN IF t.key = secret /\ row # None /\ row.active
        THEN req' = [req EXCEPT ![r].pc = "epoch", ![r].tgt = row]
        ELSE Answer(r)
  /\ UNCHANGED <<users, nextId, epoch, now, secret, starts, tokens, sent, raced, sweepRaced>>

\* A token no older than either cutoff is let in.
InTime(t, row) == t.iat >= epoch /\ t.iat >= row.cutoff

\* Second half: the epoch, and admin_user's look at the role the row has.
CheckCutoffs(r) ==
  /\ At(r, "epoch")
  /\ LET q == req[r]
     IN IF InTime(q.tok, q.tgt) /\ (q.op \notin {"me", "password"} => q.tgt.role = "admin")
        THEN req' = [req EXCEPT ![r].pc = First(q.op), ![r].me = q.tgt, ![r].tgt = None]
        ELSE Answer(r)
  /\ UNCHANGED <<users, nextId, epoch, now, secret, starts, tokens, sent, raced, sweepRaced>>

Me(r) == /\ At(r, "answer") /\ Answer(r)
         /\ UNCHANGED <<users, nextId, epoch, now, secret, starts, tokens, sent, raced, sweepRaced>>

\* Every token handed out: make_token reads the clock and signs.
Mint(r) ==
  /\ At(r, "mint")
  /\ now' = now + 1
  /\ LET q == req[r]
         pw == IF q.op \in {"login", "password"} THEN q.body.pw ELSE q.tok.pw
         late == \/ users[q.id] = None \/ users[q.id].pw # pw
                 \/ q.op \in {"revoke_all", "revoke_one"} /\ q.tok.late
     IN tokens' = tokens \cup {Token(q.id, now', secret, pw, late)}
  /\ Answer(r)
  /\ UNCHANGED <<users, nextId, epoch, secret, starts, sent, raced, sweepRaced>>

\* login: the row, then its hash; the activity checked is the copy's.
Lookup(r) ==
  /\ At(r, "lookup")
  /\ IF ByUsername(req[r].body.name) = {} THEN Answer(r)
     ELSE \E i \in ByUsername(req[r].body.name) :
            req' = [req EXCEPT ![r].pc = "hash", ![r].id = i, ![r].me = users[i]]
  /\ UNCHANGED <<users, nextId, epoch, now, secret, starts, tokens, sent, raced, sweepRaced>>

VerifyLogin(r) ==
  /\ At(r, "hash")
  /\ LET q == req[r]
     IN IF users[q.id] # None /\ users[q.id].pw = q.body.pw /\ q.me.active
        THEN Goto(r, "mint") ELSE Answer(r)
  /\ UNCHANGED <<users, nextId, epoch, now, secret, starts, tokens, sent, raced, sweepRaced>>

\* change_password: body.old is the current password, body.pw the new one.
VerifyCurrent(r) ==
  /\ At(r, "verify")
  /\ LET q == req[r] row == users[q.tok.sub]
     IN IF row # None /\ row.pw = q.body.old THEN Goto(r, "change") ELSE Answer(r)
  /\ UNCHANGED <<users, nextId, epoch, now, secret, starts, tokens, sent, raced, sweepRaced>>

Change(r) ==
  /\ At(r, "change")
  /\ SetPassword(req[r].tok.sub, req[r].body.pw)
  /\ req' = [req EXCEPT ![r].pc = "refresh", ![r].id = req[r].tok.sub]
  /\ UNCHANGED <<nextId, epoch, secret, starts, tokens, sent, raced, sweepRaced>>

\* The row is read again for the new token; it may be gone by now.
Refresh(r) ==
  /\ At(r, "refresh")
  /\ IF users[req[r].id] = None THEN Answer(r) ELSE Goto(r, "mint")
  /\ UNCHANGED <<users, nextId, epoch, now, secret, starts, tokens, sent, raced, sweepRaced>>

\* create_user: looked up first, and the UNIQUE column has the last word.
LookupName(r) ==
  /\ At(r, "byname")
  /\ IF ByUsername(req[r].body.name) = {} THEN Goto(r, "insert") ELSE Answer(r)
  /\ UNCHANGED <<users, nextId, epoch, now, secret, starts, tokens, sent, raced, sweepRaced>>

Insert(r) ==
  /\ At(r, "insert")
  /\ LET b == req[r].body
     IN IF ByUsername(b.name) = {} THEN Create(b.name, b.pw, b.role) ELSE UNCHANGED <<users, nextId>>
  /\ Answer(r)
  /\ UNCHANGED <<epoch, now, secret, starts, tokens, sent, raced, sweepRaced>>

Self(r) == req[r].id = req[r].tok.sub

\* update_user, delete_user and revoke_one read their target first.
ReadTarget(r) ==
  /\ At(r, "target")
  /\ LET q == req[r] row == users[q.id]
     IN IF row = None THEN Answer(r)
        ELSE req' = [req EXCEPT ![r].tgt = row,
                       ![r].pc = CASE q.op = "revoke_one" -> "revoke"
                                   [] q.op = "update"     -> IF q.body.pw = "-" THEN "role" ELSE "reset"
                                   [] OTHER               -> IF Self(r) THEN "answer" ELSE "guard"]
  /\ UNCHANGED <<users, nextId, epoch, now, secret, starts, tokens, sent, raced, sweepRaced>>

\* update_user sets the password before it looks at the rest of the request.
Reset(r) ==
  /\ At(r, "reset")
  /\ SetPassword(req[r].id, req[r].body.pw)
  /\ Goto(r, "role")
  /\ UNCHANGED <<nextId, epoch, secret, starts, tokens, sent, raced, sweepRaced>>

\* A faulty version for a mutant: the guard counts the target itself.
GuardCountsTarget(r) ==
  LET t == req[r].tgt
  IN t.role = "admin" /\ t.active => ActiveAdmins # {}

\* _guard_last_admin lets the change through.
GuardLastAdmin(r) ==
  LET t == req[r].tgt
  IN t.role = "admin" /\ t.active => ActiveAdmins \ {req[r].id} # {}

CheckRole(r) ==
  /\ At(r, "role")
  /\ LET q == req[r] changes == q.body.role \notin {"-", q.tgt.role}
     IN IF changes => q.body.role \in Roles /\ ~ Self(r) /\ (q.tgt.role = "admin" => GuardLastAdmin(r))
        THEN Goto(r, "activity") ELSE Answer(r)
  /\ UNCHANGED <<users, nextId, epoch, now, secret, starts, tokens, sent, raced, sweepRaced>>

CheckActivity(r) ==
  /\ At(r, "activity")
  /\ LET q == req[r] changes == q.body.active # "-" /\ (q.body.active = "on") # q.tgt.active
     IN IF changes => ~ Self(r) /\ (q.body.active = "off" => GuardLastAdmin(r))
        THEN Goto(r, "write") ELSE Answer(r)
  /\ UNCHANGED <<users, nextId, epoch, now, secret, starts, tokens, sent, raced, sweepRaced>>

\* Another request has read the target it is about to change.
Overtaken(r) == \E s \in Request \ {r} : req[s].op \in {"update", "delete", "purge"} /\ req[s].me # None
                                           /\ req[s].tgt # None

UpdateWrite(r) ==
  /\ At(r, "write")
  /\ Update(req[r].id, req[r].body.role, req[r].body.active)
  /\ Answer(r)
  /\ raced' = (raced \/ Overtaken(r))
  /\ UNCHANGED <<nextId, epoch, now, secret, starts, tokens, sent, sweepRaced>>

GuardDelete(r) ==
  /\ At(r, "guard")
  /\ IF GuardLastAdmin(r) THEN Goto(r, req[r].op) ELSE Answer(r)
  /\ UNCHANGED <<users, nextId, epoch, now, secret, starts, tokens, sent, raced, sweepRaced>>

Purge(r) ==
  /\ At(r, "purge")
  /\ Delete(req[r].id)
  /\ Answer(r)
  /\ raced' = (raced \/ Overtaken(r))
  /\ UNCHANGED <<nextId, epoch, now, secret, starts, tokens, sent, sweepRaced>>

Deactivate(r) ==
  /\ At(r, "delete")
  /\ Update(req[r].id, "-", "off")
  /\ Goto(r, "revoke")
  /\ raced' = (raced \/ Overtaken(r))
  /\ UNCHANGED <<nextId, epoch, now, secret, starts, tokens, sent, sweepRaced>>

\* The second write of delete_user, and revoke_one: who revokes its own
\* sessions is handed a new token.
Revoke(r) ==
  /\ At(r, "revoke")
  /\ RevokeUserSessions(req[r].id)
  /\ IF req[r].op = "revoke_one" /\ Self(r) THEN Goto(r, "mint") ELSE Answer(r)
  /\ UNCHANGED <<nextId, epoch, secret, starts, tokens, sent, raced, sweepRaced>>

\* revoke_all: the clock is read before the lock is taken ...
SweepClock(r) ==
  /\ At(r, "sweep")
  /\ now' = now + 1
  /\ req' = [req EXCEPT ![r].pc = "sweepWrite", ![r].clock = now']
  /\ UNCHANGED <<users, nextId, epoch, secret, starts, tokens, sent, raced, sweepRaced>>

\* ... and written under it, over whatever epoch is there.
SweepWrite(r) ==
  /\ At(r, "sweepWrite")
  /\ epoch' = req[r].clock
  /\ sweepRaced' = (sweepRaced \/ epoch > epoch')
  /\ req' = [req EXCEPT ![r].pc = "mint", ![r].id = req[r].tok.sub]
  /\ UNCHANGED <<users, nextId, now, secret, starts, tokens, sent, raced>>

\* The process dies and starts again.  Its secret is the configured one or a
\* new one, and seed_users creates the seed account if no row has its name.
Restart ==
  /\ starts < MaxStarts
  /\ starts' = starts + 1
  /\ secret' \in {secret, starts'}
  /\ req' = [r \in Request |-> Idle]
  /\ IF ByUsername(Seed.name) = {} THEN Create(Seed.name, Seed.pw, Seed.role) ELSE UNCHANGED <<users, nextId>>
  /\ UNCHANGED <<epoch, now, tokens, sent, raced, sweepRaced>>

-----------------------------------------------------------------------------

Session(r) == Arrive(r) \/ GetCaller(r) \/ CheckCutoffs(r) \/ Me(r) \/ Mint(r) \/ Lookup(r) \/ VerifyLogin(r)
                \/ VerifyCurrent(r) \/ Change(r) \/ Refresh(r) \/ SweepClock(r) \/ SweepWrite(r) \/ Revoke(r)

Admin(r) == LookupName(r) \/ Insert(r) \/ ReadTarget(r) \/ Reset(r) \/ CheckRole(r) \/ CheckActivity(r)
              \/ UpdateWrite(r) \/ GuardDelete(r) \/ Purge(r) \/ Deactivate(r)

\* What current_user would refuse, for good, about token t.
Dead(t) == \/ users[t.sub] = None
           \/ ~ InTime(t, users[t.sub])

Next == /\ Restart \/ \E r \in Request : Session(r) \/ Admin(r)
        /\ out' = out \cup {t.iat : t \in {t \in tokens : Dead(t)'}}

Spec == Init /\ [][Next]_vars

-----------------------------------------------------------------------------

\* Type invariant; a username is the column's UNIQUE key.
TypeOK ==
  /\ \A i \in Ids : users[i] # None => users[i].role \in Roles /\ users[i].cutoff \in 0 .. now
  /\ nextId \in 1 .. MaxId + 1 /\ epoch \in 0 .. now /\ out \subseteq 1 .. now
  /\ \A t \in tokens : t.sub \in Ids /\ t.iat \in 1 .. now /\ t.key \in 1 .. starts
  /\ \A i \in Ids : i >= nextId => users[i] = None
  /\ \A i, j \in Ids : users[i] # None /\ users[j] # None /\ users[i].name = users[j].name => i = j

\* A token that was once refused for good (its account purged, or older than
\* its account's cutoff or the epoch) is never let in again: not after a later
\* reset, update or reactivation, not through a row that got the id of a purged
\* one, and not after a restart.  Two overlapping sweeps can write their epochs
\* in the wrong order, which revives tokens; nothing else does.
RevokedStaysOut == ~ sweepRaced => \A r \in Request : req[r].barred => req[r].me = None

\* A way in: some administrator stays active, whatever requests overlap, as
\* long as no role or activity is written between the moment another request
\* reads the account it is about to change and its own write.
AdminRemains == ~ raced => ActiveAdmins # {}

\* "A reset that leaves the old sessions alive is not a reset": who is let in
\* opened the session with the password the account has now, unless the token
\* was made after that password had been replaced.
OldPasswordIsOut ==
  \A r \in Request : req[r].me # None /\ req[r].op # "login" /\ ~ req[r].tok.late
                       => req[r].tok.pw = req[r].me.pw

=============================================================================
