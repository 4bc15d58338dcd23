# A TLA+ model of Moadian

Moadian files invoices with the Iranian tax organization. An operator enters an
invoice in a browser; the Python service verifies it, gives it a serial and a
tax id, signs and encrypts it, posts it, and later asks for the verdict. What
can go wrong is expensive: a serial used twice, an invoice filed twice, a filed
invoice that looks like a draft, a verdict that is lost.

This directory holds the specifications, the TLC configurations that check them
on small instances, and the proofs that hold for all instances. Everything is
translated from `backend/src/moadian` (abbreviated `moadian/` below) and
`backend/tools`; `PROJECT.json` maps every definition to its lines.

## 1. Inventory

| component | state | operations | who calls it |
|---|---|---|---|
| serial counter, `moadian/pipeline.py:84` | a file per fiscal memory, a thread lock per object, an advisory lock on a sidecar file | `counter()`, `counter.current` | the pipeline (a new object per request, `api/app.py:337`), `tools/serial.py` |
| invoice pipeline, `moadian/pipeline.py:169` | cached server key | `submit`, `await_results` | `submit_invoice` |
| HTTP API, `moadian/api/app.py` | none of its own; requests in progress | invoices, profiles, goods, catalogue, referring invoices, payment registration | the web front end |
| record store, `moadian/store/records.py` | SQLite: invoices, buyers, goods, one lock per process | insert, update, delete, queries, migration | the API |
| catalogue, `moadian/store/catalogue.py` | SQLite with full text search | `replace_all`, `search` | the API, `tools/import_catalogue.py` |
| client, `moadian/client` | an HTTP session | nonce, bearer token, POST and GET calls, no retry | the pipeline, the API |
| accounts and sessions, `moadian/auth` | SQLite: users, session cut-offs; signed tokens at the users | login, password change, administration, revocation | every request |
| profile store, `moadian/config/profiles.py` | one encrypted file | list, save, load, delete | the API |
| key ring, `moadian/config/keyring.py` | a passphrase; certificate and key files | `load`, `verify` | filing, the administrator's panel |
| settings, `moadian/config/settings.py` | the environment, read once | paths, addresses | everything |
| rule engine, `moadian/rules` | tables read at start | `validate`, `recompute` | save, update, verify, submit |
| tax id, `moadian/taxid` | none | `generate_tax_id`, check digit | the pipeline, the serial tool |
| wire models, `moadian/models` | none | `to_wire_dict`, field conversions | the pipeline, the API |
| cryptography, `moadian/crypto` | none | sign, encrypt, canonical JSON | the pipeline, the client |
| serial tool, `tools/serial.py` | none of its own | show, set, set from tax ids | an operator |
| other tools, `tools/` | none | connectivity and preflight checks, table extraction | an operator |
| organization (`moadian/mock/server.py` stands in for it) | filings, nonces | accept, rule, answer inquiries | the client |
| web front end, deployment, vendored .NET SDK | | | |

What makes each correct:

- serial counter: no serial twice, none lost to a power failure once returned,
  later calls get larger ones, no restart from an unreadable file;
- serial tool: it never puts the counter behind what was filed without force,
  and puts it right again from the filed tax ids;
- invoice pipeline: every invoice gets the answer to its own packet, a refused
  one costs nothing outside its request, every call ends;
- invoice handlers and records: a draft is filed at most once, a filed record is
  not edited or removed, a verdict is the organization's and stays, a voided
  original stays void;
- buyers and goods: an upgrade loses no row, one item at most is the default;
- catalogue: a search sees the goods of one import whole, by number and by words
  alike;
- client: one nonce per request, at most the allowed packets and references;
- accounts: an active administrator is always left, no token outlives the
  password or the session cut-off it was issued under, an id is never reused;
- profile store: a save touches its own profile only and survives a crash whole,
  old or new; a wrong passphrase destroys nothing;
- key ring: what the administrator is told about a key pair is what filing meets;
- rule engine: what `recompute` produces, `check_arithmetic` accepts; what the
  engine accepts carries what the obligation table asks for;
- tax id: the check digit catches one wrong or two swapped digits.

Interaction. A submit request reads the record, verifies the invoice, awaits the
server key, draws a serial on a thread, awaits the POST, and writes the record.
An inquiry reads the records that wait for a verdict, awaits the organization,
and writes each record back whole, voiding originals on the way. Nothing is
locked across these steps. Async handlers share one event loop per worker, sync
handlers run on a threadpool, and `deploy/moadian.service` allows several
workers, which share only the files. The tools are processes of their own beside
the workers.

What is hard, and therefore modelled:

- the counter under threads, processes, I/O errors, crashes and power failures;
- the handlers of one record overlapping between a read and the write back;
- lost answers and killed workers between the organization and the record;
- one batch of answers that touches a record twice (a voiding and its original);
- sessions: a check and the write it allows, with another administrator between;
- a schema upgrade whose statements commit on their own, in several workers;
- a file replaced whole, without a lock, by handlers that read it before;
- an import and its index replaced in one transaction that a bad file may end;
- rounding: a sum of rounded lines against a tolerance of one rial.

`PROJECT.json` lists every hazard at its line under `hazards`.

## 2. Modules

| module | what it is |
|---|---|
| `SerialSource` | the contract: a call gives up or delivers a serial that is new and above everything granted before |
| `SerialCounter` | `MonotonicSerialCounter`, one action per system call |
| `MCSerialCounter` | its model values |
| `SerialCounter_proof` | its theorems |
| `InvoiceBook` | what the records promise a lone operator: a book in which a filing is one entry, made once |
| `InvoiceLifecycle` | the invoice handlers, the record rows and the organization; with one request, an `InvoiceBook` |
| `MCInvoiceLifecycle` | its model values |
| `InvoiceLifecycle_proof` | its theorems, for any overlap, loss and crashes |
| `InvoiceAlone_proof` | its theorems for one request at a time |
| `Pipeline` | `submit` and `await_results` of coroutines that share a pipeline, over `SerialSource` |
| `MCPipeline` | its model values |
| `Pipeline_proof` | its theorems |
| `Accounts` | users, tokens, cut-offs and the handlers of `auth/routes.py` |
| `MCAccounts` | its model values |
| `Accounts_proof` | its theorems |
| `ProfileStore` | the encrypted profile file |
| `ReferenceData` | buyers, goods, the default item, the schema upgrade |
| `Catalogue` | the goods catalogue, its index and its import |
| `KeyRing` | `load` and `verify` of a key pair, as functions |
| `TaxId` | tax ids and their check digit, as functions |
| `SerialTool` | `tools/serial.py` beside draws and backups, over `TaxId` |
| `InvoiceMoney` | `recompute` and `check_arithmetic`, as functions, and the form between them |
| `InvoiceFields` | obligations, enumerations, lengths and the wire, over `InvoiceMoney` |
| `Service` | the composition of the eight parts above it (`ProfileStore` to `InvoiceFields`), which share no state |
| `MCService` | its model values |
| `Parts_proof` | the import of a catalogue and the check digit, for `Service_proof` |
| `Service_proof` | its theorems |
| `LeastNumber_proof` | least numbers, induction and loops over `1 .. n`, for the other proofs |

### SerialCounter

A caller is a thread in `counter()` or `counter.current`. `pc` walks through
`__call__`: `lock` (thread lock), `flock` (`_exclusive`), `read` (`_read` and the
check against `MAX_SERIAL`), `write`, `fsync`, `replace`, `fsyncdir` (`_write`),
`unflock`, `return`. `IOError` unwinds from any of them as the `with` statements
do. `CounterOf` and `ProcessOf` say who shares an object and who dies together.

`file` is what the path shows. `survivors` is what it may show after a power
failure: a rename adds an entry, a flush of the directory leaves only the
current one. Data renamed before `os.fsync` may survive as garbage. `Corrupt`
(external) overwrites the file with garbage or a negative number, which
`_read` must refuse. It never puts back a smaller number: that is what a restored
backup or `tools/serial.py` may do, and is the subject of `SerialTool`.

`issued` and `before` are history, read by properties only.

### InvoiceLifecycle

One profile. `rows` is the invoices table and `org` what the organization knows
of each serial. Each request has a place `at` and the copies it holds across its
awaits (`copy`, `body`, `drawn`, `todo`, `voided`), because those copies are
where the code can go wrong. A handler is one action per store call and per
await; `LoopFree` keeps the async handlers of one worker from interleaving
anywhere else.

Abstractions. The serial of a filing stands for its tax id, uid and reference
number, which are all fresh per packet; `SerialCounter` is the reason the serial
is. The verdict of the rule engine is an attribute of the invoice, so editing an
invoice may change it. An invoice has a tax id (0 is blank): what is filed is a
copy with the serial filled in (`WithIdentity`), what the record keeps is the body
as it was submitted. Invoices are entered with a blank tax id, because the
entry form shows that field read-only. The queue of an inquiry is written back
in id order, the order of `list_awaiting_inquiry`; the 100-reference chunks of
one inquiry are one call. The organization (external) may answer, ignore, or
rule at any time, and lets an invoice void only a registered one.

`InvoiceBook` is the abstract specification of the records, with a step for what
the operator takes for one step: write, discard, file, learn a verdict, void.
`KeepsBook` instantiates it with the rows, the next id and `FilingsSeen`: the
organization's filings, except the one whose answer the request still holds. So
the four steps of a submit (guard, serial, POST, save) become one `File`, at the
save, and the organization may have ruled by then. `Unvoid` is there because the
code needs it: an answer from before a voiding may be written over it
(`void_batch`, and the one-record inquiry).

An answer `NOT_FOUND`, `TIMEOUT` or `IN_PROGRESS` writes the row back with its
old state; the model allows it at any time, since the organization looks back one
day only and an answer may be overtaken by the next one.

### Pipeline

A task is a coroutine: `lock` and `key` (`server_key`), `build`
(`_build_packets` on its worker thread, one invoice at a time), `post`
(`submit_invoices`), back to `build` while the batch lasts, `submitted`, then
`await_results`: `sleep`, `poll`. `task` holds its locals, `keyKnown` and
`keyLock` what it shares with the others, `org` what the organization has.
Serials come from `SerialSource`, instantiated with the tasks as callers:
`SerialCounter` is proved to implement it, so what holds here holds over the
counter.

A request fails (`RequestFails`) before, between or after the organization's
taking it and its answer: no nonce, an expired one, a lost answer, an error or
an unreadable body. All raise through the coroutine, which is why one action is
enough and the nonce is not a variable. The organization takes any part of a
request, answers it in any order, and rules at any time or never. To an inquiry it
lists any part of the references asked for, in any order, each with its status or
as not found (`SendPoll`); `told` is history and says what it answered for each.
Time is a `Tick` that advances all running timers; a coroutine may
wake late, never early.

`MCPipeline` uses batches of two requests: one whose second request is a single
invoice that brings its own tax id, one whose second request has an invoice the
rules refuse after another got its serial. That other serial is lost: validation
comes before the draw of each invoice, not of the request.

### Accounts

A request is a thread of the threadpool in one handler. Every `UserStore` method
takes the store's lock, so a call is a step, and another request may come between
any two. `req[r]` has the place `pc`, the token, the body, the caller's row `me`
once `current_user` let it in, the target's row `tgt` as it was read, and the
clock read for a sweep. `GetCaller` and `CheckCutoffs` are the two store calls of
`current_user`; `Mint` is `make_token`. `Restart` ends all requests, may change
the signing secret and runs `seed_users`.

`now` counts only clock reads that end up in a token or a cut-off: fractional
seconds tell any two apart. `out`, `raced` and `sweepRaced`, and in a token the
password its session began with, are history.

### ProfileStore

A request reads the file and changes its copy (`ReadAll`), then writes a temporary
file (`WriteTemporary`), flushes it (`Flush`) and renames it onto the path
(`Replace`), each a step that may fail (`WriteFails`); no lock covers any two.
`survivors` is as in `SerialCounter`: a file that is renamed before it was flushed
may be garbage after a power failure. Here the directory is never flushed:
`DirectorySettles` is the operating system's doing. `disturbed` marks where the code makes no promise: two changes that
overlapped, a power failure that undid a rename.

### ReferenceData

`tables` is what is committed, `txn` the open transaction with its image. The
upgrade of version 1 is one action per statement, because `ALTER` and `CREATE`
commit on their own in Python's `sqlite3` unless a transaction is open, and
whoever opens the store may die or meet another one's lock or rows. Operations of
an open store are one transaction each. The SQL error that ends an upgrade (`t_v1`
exists, a key is taken, a table is gone) is `Fail`.

SQLite's UNIQUE takes two NULLs for distinct; keys here are never NULL.

### Catalogue

`entries` and `index` are what searches see, `work` the import's transaction.
`InsertPart` reads a file while it inserts it, so a file that is no export ends
the import half-way; `INSERT OR IGNORE` keeps the first row of a key (`Firsts`).
Rows without a rate or a date are not among the `ExportRow`s: SQLite takes their
NULLs for distinct and keeps every one of them, even of equal rows.

### KeyRing, TaxId, InvoiceMoney, InvoiceFields

Translations of pure code as operators. Each has a variable or two that pick an
input (`shown`, `number`, `form`, `described`), so that TLC walks through all
inputs of a bounded set and the property is an invariant.

`KeyRing`: a file is how it is written, its algorithm, its pair, its dates or its
passphrase. `Load` is what filing does, `Verify` what the administrator sees: a
report, or the exception that leaves it (`Raises`).

`TaxId`: characters are code points, numbers are their digits. A serial has 3 hex
digits in the runs instead of 10, TLC's integers being 32 bits wide; the theorems are
for every width. `SerialOf` refuses what is no hex digit; Python's `int(x, 16)` also
takes a sign, a prefix `0x`, an underscore or a space, of which a tax id has none
unless it is mistyped.

`InvoiceMoney`: an amount is an integer, 10000 to a rial. The entries are chosen
so that products are exact and quotients meet halves, where `ROUND_HALF_EVEN`
matters. A form goes from `Enter` through `Calculate` to `Correct` and back.

`InvoiceFields`: a text is unset, blank or given; numbers that the rules read keep
their value. The obligation table is a constant, cut to fields that differ in how
they are obliged. `ValidateInvoice` leaves amounts to `InvoiceMoney` and drops
the warning about a pattern whose coverage is partial: it accepts more invoices than
the engine, so a property of all accepted ones says more than the engine needs.

### SerialTool

The tool reads the counter and decides (`Decide`), and writes in a later step
(`WriteTarget`), without the lock: a draw may come between. `filed` is the tax ids
the operator has in hand, by `GenerateTaxId`; `SerialOf` reads them back.
`doubtful` marks a counter that may be behind: restored from a backup, lowered by
force, or overtaken while the tool ran.

### Service

Profiles, buyers and goods, catalogue, key ring, serial tool, check digits,
money and fields share no variable, and no operation of one touches another
(deleting a profile keeps its records, `api/app.py`). Every behaviour of the whole
is a shuffle of one behaviour of each part, and every property is about one part,
so `moving` picks a part and lets it move alone.

## 3. Runs

| run | asks | bounds |
|---|---|---|
| `serial_counter` | is the counter safe, does it implement `SerialSource`, is the file lock given back | 3 callers: 2 threads on one object in one process, 1 in another; 2 serials, so that exhaustion is reached |
| `lifecycle_concurrent` | what do the records never say wrongly under concurrency, loss and crashes | 2 requests on 2 workers, 2 records, 2 serials: enough for one invoice and the one that voids it |
| `lifecycle_alone` | do the handlers implement `InvoiceBook` for an operator who does one thing at a time | 1 request, 3 records, 3 serials, the one-record inquiry too, no loss |
| `pipeline` | do two overlapping calls get their own results and all that was answered, and is what goes wrong confined to one request | 2 tasks, batches of 3 and 4, 2 packets or references a request, 3 serials: the fourth draw fails; timers 2, 1 and 3 ticks give a first wait longer than a poll and an expiring deadline |
| `pipeline_ends` | does every call return or raise | 2 tasks, batches of 1 and 2, 1 packet or reference a request, 1 serial, timers 1, 1 and 2 |
| `accounts` | who is let in, and is there always an administrator | 2 threads, 3 requests, 2 administrators, 4 rows ever, 1 restart, 2 passwords |
| `service` | what the other parts promise | 2 requests, 2 workers, 3 imports of up to 2 files, 2 fiscal memories, 2 serials each, forms of up to 2 lines, 5 patterns |
| `double_submit` | (violation) can one draft be filed twice | 2 requests on one worker |
| `inquire_race` | (violation) can an inquiry take a verdict back | 2 requests on one worker |
| `edit_race` | (violation) are only drafts rewritten and deleted | 2 requests on 2 workers, 1 record, invalid invoices too |
| `void_batch` | (violation) can a void invoice become valid again | 1 request |
| `service_interrupted` | (violation) does an interrupted upgrade leave version 1 intact | 1 worker that may die |

Why the bounds are enough. `MaxId`, `MaxSerial` bound the records and serials of
the lifecycle, `MaxSerial` the counter file; three of each in `lifecycle_alone` are
an original, the record that voids it, and one beside them in the same batch; the counter run needs two so that one
value is old, one new, and the next is refused. Three account requests are two
administrators at once and a third request that meets the outcome, or a login, a
reset and a use of the late token; four rows are the seed, the other administrator, one created and
one created after a purge. In `service`, `MaxRow` 4 is the three old row ids and one
new one; `MaxAsked` 3 profile requests are one save and two that overlap; three
imports are a good one, a bad one, and one after it; `MaxEntry` leaves room for
all their rows; the check digit's permutations repeat after eight places and the
numbers cover them all. `MaxDrawn` 2 gives an old serial and a new one.

`Mirror` swaps the requests, in `lifecycle_concurrent` together with their
workers, in `service` the workers too; nothing else distinguishes them and no run
with symmetry checks liveness.

Deadlock is not checked in the lifecycle, pipeline, account and service runs: the
bounds let a behaviour end, and a pipeline task makes its two calls and stops.
`MayInquireOne` is off where a counterexample is to be one that an operator can
meet with the web page, which has no button for the one-record inquiry, and on
where any client of the API is meant.

### What the passing runs show

`serial_counter`: no serial is returned twice (`IssuedOnce`); it is on disk for
good before it is returned (`DurableBeforeReturned`); calls are linearizable
(`LaterCallsGetLargerSerials`, `CurrentIsNotBehind`); garbage is not left behind
(`WritesLeaveNoGarbage`); the callers see a `SerialSource` (`Implements`); the
file lock is always given back (`FlockIsReleased`).

`lifecycle_concurrent`: whatever overlaps, a tax id is on one record, a verdict
on a record is the organization's verdict on that record's own filing, what was
filed under a record's reference is its payload with its tax id filled in
(`RecordTellsFiling`), a cancelled record has a confirmed voiding, and what was
discarded does not come back (`DiscardedStaysGone`). Invoices the rules refuse are
left to the other runs and to the proofs. `lifecycle_alone`: with one request at a time and no lost answer, the
records are a book (`KeepsBook`): record and filing appear together, what is filed
is never amended, discarded or filed again, no draft becomes CONFIRMED, and a
record becomes CANCELLED only when the table shows the confirmed record that voids
it. So a record is filed once (`FiledOnce`) and no filing is lost.

`pipeline`: the reference handed back for an invoice is that of its own packet
with its own tax id (`OwnResults`); generated tax ids are distinct at the
organization (`DistinctTaxIds`); a refused invoice keeps its whole request back
(`OnlyWholeChunksGoOut`); an inquiry asks for every reference and hands back exactly
what the organization listed, in whatever order and with whatever left out
(`HandsBackAllItHeard`); and a wait for an invoice that is listed as in progress ends
at the deadline only (`GivesUpAtDeadline`). A reference that is not listed at all does
not keep `await_results` waiting; the code promises nothing else.
`pipeline_ends`: a failure does not strand the tasks that wait for the key, and
polling ends. It is a run of its own because liveness needs the smaller instance.

`accounts`: a token refused once for good is never let in again
(`RevokedStaysOut`); whoever is let in opened the session with the password the
account has now (`OldPasswordIsOut`); an active administrator remains
(`AdminRemains`); usernames stay unique although they are looked up before the
insert (`TypeOK`). Each property says where the code makes no promise: two sweeps
that write in the wrong order, a write between another request's read and write,
a token minted after its password was replaced.

`service`: saved profiles stay and deleted ones go, through failed writes,
restarts and wrong passphrases (`ProfilesAreKept`), and no power failure, wherever it
falls among the steps of overlapping writes, leaves half a file
(`PowerFailureLeavesWholeFile`); an upgrade loses no key, though it
may leave it in the renamed table (`NothingIsLost`), and never shows two defaults
(`AtMostOneDefault`); a search sees one import, whole (`CatalogueIsWhole`), by
number as by words (`BothPathsAgree`); what `verify` reports is what `load` does, and
where it raises instead `load` refuses too (`VerifyAgreesWithLoad`); after any use of the serial tool without force the next
serial is new (`NextSerialIsNew`); the check digit catches what it is meant to
(`CheckDigitCatchesErrors`); an invoice fresh from the calculate button breaks no
rule about an amount the button fills in (`CalculatedIsAccepted`); an accepted
invoice carries what the table asks for (`AcceptedIsComplete`).

### What fails, and where the code says otherwise

- `double_submit`. `submit_invoice` checks the state once, before its first
  await. Two overlapping submits of one draft file it twice. The same happens
  one after the other when the answer to the first is lost: the record stays a
  draft and the operator submits it again.
- `inquire_race`. `_reconcile` writes back rows it read before the call. The
  slower of two inquiries, with an answer that is no verdict, returns a
  confirmed record to SENT.
- `void_batch`. When a voiding record has a smaller id than its original and one
  inquiry answers for both, the original is marked CANCELLED and then
  overwritten as CONFIRMED. An older draft becomes a voiding invoice when it is
  edited after the newer record was filed. `LoneVoidsStay` proves that this order
  is the whole cause (section 5).
- `edit_race`. `api/app.py:823` and `862` say that only DRAFT and INVALID may be
  rewritten or deleted. Both handlers check that in one store call and write in
  another; a submit may save the record as SENT between them. An edit then makes it a
  draft again and takes the reference away, a deletion removes it. A submit that
  is refused does the same from another worker.
- `service_interrupted`. `store/records.py:233-234` promises that the whole upgrade
  runs in one transaction and that an interrupted one leaves version 1 intact.
  The first rename commits on its own: a worker that dies after it leaves the rows
  in `buyers_v1`, the next start creates an empty `buyers`, and nothing ever copies
  the rows. They are not lost (`NothingIsLost`), but the service does not see them.

### Known, without a run of their own

Each is visible in a model, or written down where a model leaves it out.

Invoices:

- `store/records.py:81-82` and `api/app.py:823-824` say that a sent record keeps the
  exact payload that was signed. It keeps the body of the request; `taxid` and `inno`
  were filled into a copy of it (`pipeline.py:359-362`, `WithIdentity`). The tax id has
  a column of its own and `inno` is the serial within it, so both can be told from
  the record (`RecordTellsFiling`), but they are not in its payload;
- a packet answered without a result leaves a SENT record without reference that
  no inquiry asks about;
- a crash between a confirmed voiding and `_apply_cancellation` leaves the
  original valid for good;
- a required field that is blank passes the engine and is dropped from the wire
  (the exception in `AcceptedIsComplete`);
- the comment at `rules/spec.py:224-226` says that an excluded field that is
  filled in is reported; in a line it never is;
- the draft built for a voiding invoice has no lines, which the engine refuses
  before it can be filed as it is.

Accounts:

- `update_user` sets the password before it looks at the rest of the request,
  and keeps it when the rest is refused;
- two administrators who demote or remove each other at once leave none
  (`raced`), since `_guard_last_admin` counts before the write;
- a login that verified the old password mints its token after the reset
  (`late`), and the token is good;
- two overlapping sweeps can move the epoch backwards (`sweepRaced`);
- PATCH that only deactivates an account does not revoke its tokens: they are
  good again after reactivation;
- a purged seed account comes back at the next start, with the seed password.

Stores and tools:

- `config/keyring.py:150-153` says that `verify` never raises. A readable certificate
  with an Ed25519 key makes `_certificate_summary` raise `AttributeError` (`:274`),
  which ends the panel's check of all environments and, by way of
  `_report_signing_material`, the start of the service. `Verify` returns nothing there,
  and `VerifyAgreesWithLoad` claims no report, only that filing is refused too;
- of two overlapping profile saves the later one undoes the earlier one; after a
  power failure the last save may be missing (`disturbed`);
- `list_profiles` fails when a profile is deleted between the names and the load;
- workers that open an old database at the same time may fail, and may strand
  rows in the renamed table;
- an import whose rows are all skipped empties the catalogue although the tool
  says that nothing was imported; `status` is two statements and may mix two
  imports;
- a draw between the check of the serial tool and its write is overwritten
  (`doubtful`); about one wrong hex digit of a serial in ten passes the check
  digit, which is taken over decimal digits.

## 4. Fairness

`SerialCounter` assumes weak fairness of each thread's own steps and nothing of
locks: a thread that stays able to run, runs. No order of lock waiters is
assumed, so only the release of the lock is claimed, not that each call returns.
I/O errors and crashes are never forced and never excluded.

`Pipeline` assumes weak fairness of each task's own steps, failing ones included,
and of time: the event loop runs ready coroutines, HTTP requests have a timeout,
worker threads finish. Nothing is assumed of the organization's rulings.

`InvoiceLifecycle`, `Accounts` and the parts of `Service` are checked for safety
only: their handlers are straight lines of store calls and of calls with a
timeout, and none waits for another.

## 5. Proofs

| module | theorems | about |
|---|---|---|
| `SerialCounter_proof` | `TypeCorrect`, `NeverRepeats`, `Durable`, `Linearizable`, `CurrentKeepsUp`, `GarbageIsNotZero`, `GarbageIsNotWritten`, `Refinement` | the counter, for any callers, objects, processes and `MaxSerial` |
| `InvoiceLifecycle_proof` | `Typed`, `LifeInvariant`, `TaxIdsAreUnique`, `VerdictsAreTrue`, `RecordsTellFilings`, `VoidingsHaveCause`, `DiscardedIsGone` | the invoice records, for any requests, workers, records, serials and invoices |
| `InvoiceAlone_proof` | `AloneInvariant`, `LoneFilingsAreOnce`, `LoneFilingsAreRecorded`, `LoneRecordsAreABook`, `LoneVerdictsStay`, `LoneVoidsStay` | the same with one request at a time, nothing lost and no crash |
| `Pipeline_proof` | `PipelineInvariant`, `WellTyped`, `ResultsAreOwn`, `ChunksGoOutWhole`, `TaxIdsAreDistinct`, `InquiriesAreWhole`, `WaitsUntilDeadline` | `submit` and `await_results`, for any tasks, batches, limits and timers |
| `Accounts_proof` | `AccountsTypes`, `Revocation`, `LastAdmin`, `PasswordReset` | accounts and sessions, for any requests, forms, patches and bounds |
| `Service_proof` | `StoresAreTyped`, `Profiles`, `WholeFile`, `Upgrade`, `Defaults`, `WholeCatalogue`, `SearchesAgree`, `SigningFiles`, `CalculatedInvoices`, `AcceptedInvoices`, `CheckDigits`, `SerialsReadBack`, `SerialsAreNew` | the other parts, for any requests, workers, rows, files, entries, matrices and memories |
| `Parts_proof` | `CheckDigitWorks`, and lemmas | the check digit, for numbers of every length; numbers written in a base and read back; an import, file by file |
| `LeastNumber_proof` | (lemmas) | a set of numbers has a least one; induction, for a property given as the set of numbers that have it; a loop over `1 .. n` computes something |

The assumptions on constants are named (`ASSUME ...Assumption`), stand in the
module that declares the constants, and are evaluated by TLC in the runs. A
theorem that needs more than the types of its constants has the rest as a
hypothesis of its own: `Exclusion`, `Alone`.

`LeastNumber_proof` is there because the provers cannot instantiate the library's
induction theorems, whose hypotheses are operators. A property given as a set is
no operator: `SetInduction` is proved from the well-foundedness of `<`,
`StrongInduction` and `Loop` from it. With them the loops of the code (references collected one by one,
amounts added one by one) are reasoned about for every length.

### The counter

Assumptions: `CallerAssumption` and `SerialAssumption` (types of the constants,
an object is memory of one process) and, where mutual exclusion is needed,
`Exclusion`: there is a file lock, or all callers share one object. Without it
the theorems are false: on a platform without `fcntl` two requests, each with its
own counter object, have no common lock.

Argument. `IssuedOnce` is not inductive: that a serial is new must be known from
the moment it is computed until it is returned. The invariant has three parts.

1. `Locking`: who is past an acquisition holds that lock. With `Exclusion` it
   gives `OneHolder`: at most one caller is between the read and the release.
2. `TakenIsNew`: a serial being written is above everything returned and
   everything granted, and is what the file says once it was renamed.
   `GrantedIsMine`: a granted serial was not returned and belongs to one caller.
3. The durability of what was returned or granted: every number a power failure
   can bring back is at least as large. That is what makes the next read safe,
   after a crash too.

Most steps touch none of this: `QuietStep` covers them once (callers restart or
take nothing new, and the disk gains no number), and `ReadStep`, `ReplaceStep`,
`FsyncDirStep`, `ReturnStep` cover the rest.

### Invoice records

Assumption: `LifecycleAssumption`, types only.

Argument. What the properties say of the table is not inductive, because a row
that was read lives on in the request that read it and is written back after an
await, whatever became of the record meanwhile. `LifeInv` therefore speaks of
every row held anywhere (`Held`): in the table, in the batch of an inquiry, or as
the original that a voiding is about to cancel.

1. `HeldOK`: a held row is `Truthful`. Its reference names a filing of its own
   payload with its tax id filled in, its verdict is one the organization gave, and CANCELLED has a confirmed
   cause. Two held rows with one tax id are of one record. All of it is stable,
   since the organization never takes back a verdict or forgets a filing; that is
   why a stale row that is written back is still true, though it may be old.
2. `DrawnIsNew`: a serial drawn for a submit is no held row's and no other
   request's. It makes the save at the end of a submit keep `HeldOK`.
3. `Locals`: what a request holds at each place, such as that a row that is about
   to be cancelled has a cause already.
4. `Untouched`: ids and serials not given out yet are unknown everywhere.

The theorems hold with overlapping requests, several workers, lost answers and
crashes. `DiscardedIsGone` is about steps and needs the types only: no action
inserts under an id that was given before.

`InvoiceAlone_proof` adds what only a lone request may rely on: `CopyIsRow` (nobody
changed the row it read), `DrawnFor`, `BatchIsRows` (an inquiry's rows have the
references of the rows they overwrite) and `AllAccounted` (each accepted filing is
on its record, or in the hands of the request that is about to save it). The
hypothesis `Alone(r)` is that `r` is the only request and that nothing is lost or
killed; it is what the code needs, since without each part `double_submit`, a lost
answer or a killed worker breaks the property.

`LoneRecordsAreABook` is the refinement of `InvoiceBook`, step by step: each step
of a handler is a step of the book or shows in nothing it has. It needs `BookInv`:

1. `BodyFits`: what is about to be filed passed the rule engine, and the row it
   replaces is still a draft, so the save at the end is `File` and not a change of
   something filed.
2. `BatchFollows`: a row of a batch has the payload, tax id and reference of the
   row it will overwrite, and is behind it at most by a voiding. So the write is
   `Learn`, a stutter or `Unvoid`, never a step back from a verdict; that is also
   the argument of `LoneVerdictsStay`, which `inquire_race` refutes for two requests.
3. `VoidingShown`: while an original is looked up and written, the record that
   voids it is in the table as CONFIRMED. So that write is `Void`.

`LoneVoidsStay` says how far the defect of `void_batch` goes. Its hypothesis
`[]VoidsOlder`, that a record voids only records entered before it, is nothing the
code enforces. Under it, and without the one-record inquiry, no record of a batch
is void or will be (`NoneVoid`): records are written back oldest first, and the
original comes before the record that voids it. TLC checked `NoneVoid` and the
three properties with `VoidsOlder` as a constraint, and finds a counterexample
without it.

### Pipeline

Assumption: `PipelineAssumption`, types only; batches are not empty.

`PipelineInv` has, of each task, its form (`Form`), where its chunk begins and that
its invoices were validated (`ChunkOK`: at a multiple of `MaxPackets`), what the
organization can know of it (`KnownOK`: no packet beyond the chunk that is out),
that its submissions and the answer in its hands name its own uids (`OwnOK`), how far
the inquiry has come (`PollOK`: the results so far are what was said of the first
references, each once; `Reports`), and that a draw is for the next invoice of the chunk (`CallOK`). `SerialsOK`
ties them together: a serial is carried by one packet only, in the making or at
the organization, and then was delivered; a granted serial was not delivered and
is one task's. `DistinctTaxIds` follows, and its only link to the counter is the
contract `SerialSource`, which `Refinement` proves of `SerialCounter`.

What the loop over the submissions collects (`References`) is computed by a
recursive function. `RefsFrom` shows by `SetInduction` that it yields references
that the submissions have, which is what keeps an inquiry among its own, and
`RefsOnce` that it yields none twice; so the answers of two requests of one inquiry
have no reference in common and can be joined (`ReportsJoin`).

### Accounts

Assumption: `AccountsAssumption` (the two first accounts are administrators under
different names; a PATCH was validated before its handler runs).

Argument. What is promised of a request that was let in depends on a row it read
some steps ago, so `Inv` says what is still true of such a row:

1. `Form`: what a request holds at each place.
2. `Sound`, of every token: one that was refusable once is refusable now, and one
   that is not late and not behind its account's cutoff has the account's
   password. It rests on `Later`: a step may change a row only so that its cutoff
   does not fall, that a new password comes with a cutoff above every token made
   before, and that an id given once is not given to another account.
3. `Seen`: a token that was refusable when it was sent is behind the epoch or the
   cutoff of the row its request has read, although the epoch is read later. With
   `Sound` this gives `Revocation` and `PasswordReset`.
4. `Faithful`: a request about to change an account still knows its role and
   activity, and once it has passed a guard that would matter there is another
   administrator. It holds until somebody else's write (`raced`), and gives
   `LastAdmin`.

`StepKeeps` says once what a step of one request must leave to the others; each
action has a lemma over it.

### The parts of the service

Assumptions: `ProfileAssumption` and `RecordAssumption` (the values that stand
for nothing are no names or rows); `CatalogueAssumption` and `MoneyAssumption`
(types; the absence of a field is no number); `TaxIdAssumption`,
`SerialToolAssumption` and `MatrixAssumption`, below.

The parts share no variable, so `Shuffle` makes a step of the service a step or a
stutter of each part, and each part has its own invariant.

- Profiles: `CopyIsCurrent` adds that a copy about to be written differs from
  what is saved by its own change only; without it `ProfilesAreKept` does not
  survive the write. `RenamesFlushed` adds that a request about to rename has
  flushed; without it `PowerFailureLeavesWholeFile` does not survive the rename.
- Upgrade: at each statement of `_migrate`, where the rows of each table are: in
  the table, in its renamed version, or in both, in what is committed and in the
  image of the open transaction. `NothingIsLost` and `AtMostOneDefault` follow;
  that the copy keeps a row of every key needs the least row id of each.
- Catalogue: what is committed is the image of one completed import, and the image
  of an import under way that of the first `k` files it was given, the ones already
  read (`InTable`): every row comes from a usable row of those files, every key
  they have is there once, and the index is empty or that of the table. So no step
  before the commit shows, and the commit shows everything.
- Money: a calculated form is `Fresh`, each amount the rounding of what the formula
  makes of the amounts calculated before it. Rounding is off by half a rial at most
  (`Rounding`), the check tolerates one, and each formula reads only amounts that
  are final by then, so the check recomputes the very number that was rounded. A
  total is the rounding of the sum the check takes again, over the same lines. The
  number of lines does not matter, since `SumIsInt` is proved by induction.
- Fields: no invariant beyond the invoice having been typed. `MatrixAssumption`
  says what is true of all patterns in `rules/patterns.yaml`: no pattern both
  has a rule for a field and excludes it; `irtaxid` is conditional on a correction
  and `cap` on a split settlement, whatever the type, unless the type has no
  settlement method; lines oblige every type alike. A pattern without these facts
  could make `AcceptedIsComplete` false, so they are what a change to that file has
  to keep.
- Serial tool: `ToolInv` adds that a tool about to write has a number no smaller
  than every tax id it was given (`WritesHighest`), and no smaller than the counter
  unless it was forced or overtaken (`WritesUp`). It needs `SerialsReadBack`.
- Tax id: `Digits` divides by the base until nothing is left and pads with zeros,
  `NumberOf` multiplies back. That the one undoes the other is shown by induction on
  the number (`WrittenReads`, `ZerosRead`), and so is that a number up to
  `Largest(width)` needs no more than `width` digits (`WrittenFits`). So the four
  parts of a tax id have their widths and `serial_of` cuts them where they were
  joined (`Parting`); it computes the same control text, so the check digit agrees
  (`SerialBack`). `TaxIdAssumption` says only that a serial has at least one digit;
  `SerialToolAssumption` that the memories are ids a profile may have, six of A-Z and
  0-9 (config/profiles.py), and that days and serials fit their widths.
- Check digit: `_D` is the product of the ten symmetries of a pentagon
  (`TableIsGroup`), so products can be regrouped (`Associates`) and either factor is
  told by the other (`Cancels`); each row of `_P` makes of a digit what the second row
  makes of it in the row before, and the first follows the last (`ShiftsOn`). `validate`
  multiplies one factor per digit. Factors that differ in one place give different
  products (`OneApart`), and so do two neighbours swapped, because the second row
  was chosen so that the products of two digits in either order differ
  (`ShiftTells`, `TwoApart`). `CheckDigitWorks` follows by induction over the
  length, where TLC tries numbers of up to ten digits.
- Signing files: no invariant is needed; the two functions agree on every input,
  the exception included, which the proof shows case by case (`ReportIsLoad`).

TLC checked the larger invariants (of the counter, the records, the pipeline, the
accounts, the upgrade and the catalogue) on an instance before they were proved.

### Only model-checked

- Liveness (`FlockIsReleased`, `EveryCallEnds`): out of the
  prover's reach.
- The violations, which are counterexamples.

## 6. Plan

What is left, the most important first.

1. `Pipeline`: that a refused invoice costs nothing outside its chunk, as a
   refinement of a specification in which each chunk is one step.
2. The counter without a common lock, and the tool as one more caller of
   `SerialCounter` at the level of its system calls.

## 7. Not modelled, and why

- Cryptography and canonical JSON: functions over bytes without state. What they
  must give, that a signature is over what is sent, is not a matter of states.
- The web front end, apart from which requests can overlap and which fields the
  forms leave blank. Deployment files give a number of workers.
- `preflight`, `check_connectivity` and `extract_table1`: they read, or make a
  data file offline.
- The vendored .NET SDK: the program does not run it.
- Payment registration and the direct inquiries (by uid, by time, taxpayer
  information): each passes one call on and keeps nothing.
- Referring invoices: the handler builds a draft and returns it.
- Settings other than the signing files: read once at start.
- The calendar in `_day_range`: a day is a number of days here.
- Lists, counts and search ranking: they only read. The texts of messages.
- Persian digits and the models of requests and responses: conversions without
  state, beyond what of an invoice travels (`InvoiceFields`).
