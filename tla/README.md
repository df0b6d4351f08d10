# Verification of the FTP user manager

TLA+ models of the system in `src/`: the log tailer that feeds the download
statistics; the web backend with its accounts and the password file of ProFTPd, the
credentials of its admin, the retention of downloads, the pages of downloads and the
pool of connections to the logs database; and the accounts part of the admin page.
TLC checks the models on small instances. TLAPS proves every safety property, every
action property and both refinements for every value of the constants; liveness is
only model-checked.

    tlc -workers 2 -config LogTailer.cfg MCLogTailer      # a run, see the table below
    tlapm LogTailerProofs.tla                             # the proofs of a module

## 1. The system

| Part | Code | State | Operations |
|---|---|---|---|
| Log line parser | `logtailer/tailer.py` 37-70, 169-194 | none | `parse_line`, `parse_timestamp` |
| Log tailer | `logtailer/tailer.py` | position file, open handle, position in memory, batch, connection; tables `user_downloads`, `anon_downloads`, `tailer_config` | start, settings poll, open / reopen, read, insert, commit, `save_pos`, reconnect |
| Account handlers | `backend/main.py` 152-313 | table `users` | register, create, toggle, password, email, notes, delete, sync |
| `ftpd.passwd` regeneration | `backend/ftpfile.py` | `ftpd.passwd`, `ftpd.passwd.tmp` | query, write, rename |
| Audit log | `backend/main.py` 121-124 | table `audit_log` | `audit` |
| Import and export | `backend/main.py` 330-413 | `users`, `ftpd.passwd` | import, export |
| Admin credentials | `backend/auth.py`, `main.py` 60-75, 421-461 | table `admin_config`, tokens | seed, login, change of name and password |
| Log settings, retention | `backend/logs.py` 61-146, `main.py` 51-59, 464-482 | `tailer_config`, download tables | settings, daily pruning |
| Connection pools | `backend/logs.py` 21-53, `backend/database.py` | pools | get and put a connection |
| Download queries | `backend/logs.py` 149-455 | none | pages, statistics, CSV |
| Admin page | `frontend/index.html` | what it last fetched | buttons, pages, filters |
| Request limits | `nginx/nginx.conf`, `slowapi` in `main.py` | counters | accept or refuse a request |
| Validators | `backend/schemas.py` | none | refuse strings; lower and strip user names, normalise addresses (`EmailStr`) |
| Containers | `docker-compose.yml` | volumes | start, restart |

How they interact. ProFTPd appends lines to a log; log rotation renames it; the
tailer reads it by name and writes rows to the logs database. The backend writes
the settings of the tailer (`tailer_config`) to the same database and the tailer
polls them; this is their only connection. The backend keeps accounts in the users
database and writes `ftpd.passwd`, which ProFTPd reads. Handlers that are plain
functions run in threads of one process, so that two requests meet at every
statement; `import_users` is a coroutine and runs on the event loop.

What is hard here, and what makes each part right:

* **Tailer.** It has three memories of how far it got (the handle, `pos`, the
  position file) and a database that can fail at each statement. Right means: a
  download is stored; it is not stored again and again; a crash costs nothing but a
  bounded number of repetitions; the tailer follows a changed setting.
* **Accounts and `ftpd.passwd`.** Read the table, write a temporary file with one
  fixed name, rename it, without a lock, once per request. Right means: ProFTPd
  never meets a partial file; when all is quiet the file lists exactly the enabled
  accounts; no request undoes another's change of a password; the audit log says
  what happened.
* **Import.** One transaction for many accounts, then the same regeneration.
* **Credentials.** Two rows for one pair (name, hash), tokens that outlive both.
  Right means: a login is judged as by one look at the pair; a change replaces what
  its request knew; the environment counts once.
* **Retention and settings.** Several settings in several transactions, read by the
  pruning in two more. Right means: what is pruned is what the settings call for; the
  pruning keeps up with the days; the summary compares like with like.
* **Pools.** Lazily made without a lock; limits below the number of threads; a
  library class that says it is not for threads. Right means: no two requests use
  one connection; no place in the pool is lost; a request fails only when it must.
* **Admin page.** Nothing waits: buttons are pressed while answers are on their
  way, and an answer is applied to whatever the page shows by then. Right means:
  once all is quiet the page shows what the backend has; a button does what it says.
* **Pages of downloads.** A count and a page in two statements; late answers; rows
  that come and go between the pages. Right means: who walks to the last page has seen
  every row that was there all the while.

`PROJECT.json` lists these hazards with the lines where they bite and the properties
that are about them, and maps every definition to its lines.

## 2. Modules

| Module | Models | Kind |
|---|---|---|
| `LogLine` | `parse_line`, `parse_timestamp` on texts split at their separators | operators |
| `TornRead` | a line that is read while ProFTPd writes it, with `LogLine` | state machine |
| `LogTailer` | `tail_loop`, its database, its files, its faults | state machine |
| `Ledger` | what the tailer promises of the rows it stores | abstract specification |
| `PasswdFile` | what the regeneration promises of `ftpd.passwd` | abstract specification |
| `Accounts` | the account handlers, the import, `ftpd.passwd`, the audit log | state machine |
| `AdminAuth` | the two rows of the admin: seed, login, the two changes | state machine |
| `Retention` | settings, daily pruning, the periods of the summary | state machine |
| `DownloadPages` | count and page of the downloads, and the table that shows them | state machine |
| `LogsPool` | `_get_pool`, `_Ctx` and psycopg2's `SimpleConnectionPool` | state machine |
| `AdminPage` | the accounts part of `index.html`, the calls it makes | state machine |
| `MC...` | symmetry sets for TLC; `MCBackend` runs `AdminAuth`, `Retention` and `DownloadPages` | instances |
| `...Proofs` | proofs about the module of that name | proofs |

**LogTailer.** `pc` is the place in the loop. `Start` is what comes before the loop;
`Poll...` the look at the settings (`PollSkip` when its interval has not passed);
`OpenFile`, `NoLogFile`, `KeepOpen` the opening; `ReadBatch`, `ReadNothing` the reads;
`Insert...`, `Commit...` the database, each with its failures: `InsertLost` is an
`OperationalError`, after which the code reconnects, `InsertClosed` the
`InterfaceError` of a connection that is already closed, after which it does not.
`SavePos` is the second half of `save_pos`; the first, the truncation by `open("w")`,
belongs to `Commit`. The position counts lines where the code counts bytes. A row is
counted under its place in the log, which is what says whether it was stored before.

**Ledger** knows only how many rows there are of each download and how often the
tailer was made to begin a log again. `LogTailer` implements it (`ImplementsLedger`,
an `INSTANCE` with `copies` and `restarts` as they are counted there): a commit is a
batch that is stored as a whole, a reset of the position is a restart, all else
stutters.

**Accounts.** A request is a process, and a step is one statement on the database or
one operation on a file, because that is where threads meet. Names and files are
kept apart (`tmp`, `passwd`, `data`, `fd`): `open("w")` truncates the file that has the
name, a write goes to the file that was opened, whatever its name is by then. `seen`
is the row in the session of a request, which SQLAlchemy does not read again until
the commit expires it; the UPDATE then writes only the changed column. `Load` to
`AuditEntry` are the handler in its order; the exceptions that are caught (`SyncFails`)
and those that are not (`Refuse`, `InsertRefused`, `UpdateLost`, `AuditFails`) are
actions. The import adds rows to its session without flushing and commits them all;
it is a coroutine without an await after the body is read, so nothing else begins
while it runs, but threads that have begun go on.

The query of a sync reads every row afresh but one: a request that has created an account
has its row since `db.refresh`, and SQLAlchemy does not overwrite what a session has
loaded (`Kept`, `InSession`). A file that is to hold no line is whole when it is empty;
one that is emptied on the way to some lines is not (`Emptied`).

**PasswdFile** knows the accounts, which of them are enabled (`table`), what each writer
has read of it and not yet published, and what ProFTPd finds under the name
`ftpd.passwd`. `Read` and `Publish` are the two steps a reader of the file could tell apart;
an error or a crash is `GiveUp`, which changes nothing; the temporary file is not part of
it. A writer may have the line of one account in its `memory` (`Remember`), and what it
reads is then the table of that moment with this line in the place of the account's.
`Break` is the way out that the code needs, open only to two writers at once: after it
the file holds anything (`Garble`). `Accounts` implements it (`ImplementsPasswdFile`):
`Refresh` is a `Remember`, the query a `Read`, the rename a `Publish`, `SyncFails` and
`Crash` a `GiveUp`, the open and the write of a single request stutter, and the open that
meets another one is the `Break`. That a published table may be older than one published
before is allowed, as the code allows it (`accounts_stale`).

**AdminAuth.** A step is one statement and its commit. `verify_admin` reads the name
and then the hash, the two changes read what they need before they write, and the
login of `main.py` writes an audit entry either way. `seed_admin_config` runs at each
start with whatever the environment says by then. A hash is the password it was made
of, a name stands for all its spellings. `inForce` remembers which pairs were stored
while a request decided.

**Retention.** `BeginSave`, `SetDays`, `SetEnabled` are `update_log_settings` in its
transactions; `PruneBegins`, `get_retention_enabled`, `get_retention_days`, `Delete` the
daily task, which sleeps a day first and after each attempt. The task is a coroutine
without an await while it prunes: no request begins meanwhile, but threads that have
begun go on. Time is a number of days. A row is stored with the day in its line, which
may be any day up to tomorrow: a tailer that was down, or that reads a log from its
start, stores old ones, and the zone of the stamp is dropped. `StartDay` is the day on
which the backend starts, after the first lines. `ever` is the table as it would be
without pruning, `storedOn` the day on which a row was stored; `get_summary` is
evaluated on `downloads` and `ever`.

**DownloadPages.** `Count` and `Select` are the two statements of
`get_user_downloads`; the order of rows of one time is free and may differ between two
queries (`First`, `Page`). `page`, `pages` and the two buttons are what `index.html` keeps.
Answers arrive in any order and are applied to the page of the moment.

**LogsPool.** A client is a worker thread or the event loop (pruning). `GetIdle`,
`Book`, `Exhausted`, `Connect`, `Connected` are `getconn`; `PutClosed`, `Keep`, `PutIdle`,
`RollbackFails`, `Forget` are `putconn`, as psycopg2 2.9 does it. It pops a connection
from the idle list and then writes it into its books, and a thread can be switched
between the two; on the way back it appends the connection to the idle list and then
removes its key, and a second client can take it in between. `used` is the size of
`_used`, `keyed` the connections of `_rused`. A statement fails on a lost connection
(`WorkFails`), and on a live one if it is a query with a value that the database refuses
(`StatementFails`: the dates of the log pages are not validated, `main.py` 492); the
values of the settings are validated, and the pruning has none.

**AdminPage.** `allUsers`, `rows` (the drawn tables), `detail`, `panel` are the page;
`sent` and `answers` the network, in which calls overtake each other. A handler that
changes an account loads its row (`Look`) and commits what it makes of it (`Accept`), with
others in between; it writes the opposite of the state it loaded, and no address that
is the loaded one. The regeneration and the audit entry come after the commit and are
the matter of `Accounts`. The backend stores an address as `EmailStr` normalises it
(`Normal`), the page keeps it as it was typed. Each `...(i)` action of `Arrive` is the code
after an `await`.

**LogLine** and **TornRead.** A text is the list of its parts, `line.split("|")`. Nothing
keeps the separator out of the name of a file, so that a path is one part or more
(`Paths`), any of which may look like another field. For every line and every place
where it can be cut, `TornRead` has the reads of the tailer, one or two, and the rows
they give.

The modules share no variables. They meet at few operations: `SetFilename` of
`LogTailer` is a change of the settings by the backend (a block of `LogsPool`), a line
of `TornRead` is a line of `LogTailer`, a commit of `LogTailer` stores a row of `Retention`
and of `DownloadPages`, `Delete` of `Retention` is the pruning of `DownloadPages`, and the
calls of `AdminPage` are the requests of `Accounts`.

## 3. Runs

| Run | Bounds | Shows |
|---|---|---|
| `torn_read` | 8 paths of 1 to 7 parts, every line and cut | `AtMostOneRow`: two pieces of a line never both become rows, unless the line has 13 parts; `NeverMisattributed`: a piece of a line whose path has no separator never becomes a row of another user, address or table (the time and the size may be wrong) |
| `tailer` | 2 names, 2 files, 2 lines each; 1 crash, 1 database failure, 1 rotation, 1 change of the setting | `DuplicatesBounded`: a download is stored at most once more than crashes and changes of the setting; `CrashSafe`: a crash alone skips nothing; `ShownStored`: the position on the settings page is not ahead of the rows; `ImplementsLedger`: the tailer implements `Ledger`; the inductive invariants |
| `tailer_live` | 1 crash, 1 change, 2 lines | `EventuallyStored`, `FollowsSetting` |
| `accounts` | 2 requests of 9 kinds, 2 accounts, names, addresses, files; 1 fault | `SyncedWhenQuiet`: the file lists the enabled users when all is quiet; `NeverPartial`: it is whole at every moment; `AuditTruthful`: the log says what was done; `HashKept`: only a change of a password changes it; `ImplementsPasswdFile`: `Accounts` implements `PasswdFile`, a file left behind by a failure or a crash and a row that is not read again included |
| `backend`, part `auth` | 3 requests, 2 names, 2 passwords, 1 crash | `VerdictTrue`: what `verify_admin` accepts was the stored pair at some moment of the request; `ReplacesKnown`: a change replaces what its request knew; `EnvIgnored`: the environment counts once |
| `backend`, part `retention` | 2 rows of any day, settings of 1 and 2 days, days 1 to 5, 1 change of the settings, 1 fault | `PrunedAsSet`: only what the settings of the moment call for is pruned; `AgeBounded`: the pruning keeps up, with old rows too; `SummaryFair`: the summary loses nothing to it |
| `backend`, part `pages` | 3 rows, 3 times, pages of 1 row, 3 calls | `NothingMissed`: a walk to the last page has shown every row that stayed |
| `admin_page` | 2 accounts, 2 addresses and a second spelling of one, 2 presses of buttons, 1 fault | `ListRight`, `DetailRight`, `RowsRight`: the list, the panel and the drawn table are what the backend has, up to the spelling of addresses; `ButtonHonest`: a button does what it says |
| `logs_pool` | 3 clients, pools of 2 of 3 connections, 3 events: requests, prunings and faults in any mixture; settings of up to 2 blocks, any statement of a query refused | `Exclusive`: no connection is shared; `NoLeak`: no place is lost; `LimitKept`: no pool is beyond its limit; `FailuresExplained`: no request fails without one of the named reasons |

The three parts of `backend` are one run: they share no variable and each property
is about one of them, so that interleaving them would multiply the states and show
nothing. `part` says which one moves, and the states are the sum of theirs.

Five runs refute what the repository says of itself; each is a finding in
`PROJECT.json` with the line it contradicts.

| Run | What happens |
|---|---|
| `tailer_outage` | the database refuses a batch: it is dropped, and the next read that finds nothing saves the position of the handle, which is past its lines |
| `tailer_rotation` | a new log is as long as the old one was read by the time it is opened: it is read from there, past its first downloads |
| `tailer_deadconn` | a settings poll meets a dead connection first, and the tailer never follows the setting again |
| `accounts_partial` | one request renames the temporary file that another has just emptied, and ProFTPd finds no account where there is one |
| `accounts_stale` | the sync that read the table first renames last, and the old list stays |

Other differences between text and code, visible without a run:

* `README.md` 269 says that a first start begins at the end of the log; `load_pos`
  gives 0 (`tailer.py` 158), so that it begins at the beginning.
* `tailer.py` 5 says that the tailer writes the successful downloads to the database. The
  line of a file with a separator in its name has more than seven parts and is dropped,
  although it is read whole (`tailer.py` 174); and a line that is met half written is
  dropped if neither piece has seven parts, as nothing puts them together (262).
* The position file does not say which log its position is in. If the setting changes
  while the tailer is down it opens the new file at the position of the old one
  (`tailer.py` 208), as it does after a rotation (`tailer_rotation`).
* The page asks "Disable account ...?" (`index.html` 819) for a call that inverts what it
  finds (`main.py` 255): two presses before the first answer, or two admins, undo each
  other (the condition `fresh` in `ButtonHonest`).
* The tailer stores downloads again after a crash between the commit and the end of
  `save_pos`, although `CHANGELOG.md` 37 and `tailer.py` 16 say restarts do not reprocess
  (the exact bound is `DuplicatesBounded`).
* A line with user `-` is stored as an anonymous download, although `README.md` 245
  says it is ignored.
* A change of notes leaves no audit entry (`main.py` 300), although `README.md` 14
  promises all of them; the audit entry of one of two overlapping toggles can carry
  the word of the other (the condition `alone` in `AuditTruthful`).
* Without the logs database the fallback of `get_settings` (`main.py` 423) lacks
  `log_retention_enabled`, which its response model (`schemas.py` 224) requires: the
  answer is a 500.
* A wrong current password is answered with 401 (`main.py` 443), and the page takes
  every 401 for an expired session and logs the admin out (`index.html` 676).

**Conditions.** Several properties say "unless". Each condition was kept only after TLC
refuted the property without it: both rows changed (`VerdictTrue`), no other change in
between (`ReplacesKnown`), no change of the settings under way (`PrunedAsSet`), the one
day more (`AgeBounded`), twice the period (`SummaryFair`), answers awaited, times
distinct, nothing stored between count and page (`NothingMissed`); two pools made at
once, two clients taking connections at once, a connection taken before its return is
over, a restart of the database in a transaction, a request whose own statement was
refused (`LogsPool`); no separator in the path (`NeverMisattributed`), not 13 parts
(`AtMostOneRow`); no answer lost, overtaken or misapplied, nobody else at work, no commit
of a row that had changed since it was loaded (`AdminPage`). They are the races of the
code, named; `PROJECT.json` says with each hazard which property leaves it to its
condition.

**Bounds.** Each fault once, in every order with each other and with everything else, is
where the properties of the tailer could break; a second crash repeats the first from a
state already reached, and the theorems hold for any number. Two files and two names are
what a rotation and a change of the setting need, two lines make a batch that differs
from a single line. Two requests are enough for every race over one row or one file; the
theorems hold for any number. Three requests about the credentials let a login meet a
change of each row. Five days with settings of one and two let the pruning take rows, be
disabled, be late once and catch up. Three pages of one row let a walk have a first, a
middle and a last page while rows move between them. The eight paths of `TornRead` have
no separator, one, the fields of a download between separators, and enough of them that
both pieces have seven parts. Two presses let a change meet a change and a load, and
`AdminPage` with three and no fault (4 670 356 states) passes too; the theorems hold for
any number. In `LogsPool` two connections stand for six: one below the limit, one at it,
one client over it; there are three of them so that a pool can go beyond its limit.
`MaxKeys` = 2 lets a change of settings take one block or two, while the pruning takes
three. The three events are three clients at once without a fault, or two clients and a
fault, or one and two; with four events and `MaxKeys` = 1, three clients meeting a fault
among them, it passes too (4 839 936 states), and the theorems hold for any number.

**Deadlock.** `CHECK_DEADLOCK FALSE` is said where the number of requests, days or
presses is bounded, so that the model stops when they are used up. The tailer never
stops and `TornRead` steps on for ever; there it is checked.

**Fairness** (`tailer_live`, `tailer_deadconn`). The loop goes on
and is restarted (`restart: unless-stopped`), hence weak fairness of `Start`,
`Iteration` and `DbStart`. The settings are looked at, and the file reopened, when a
number of seconds has passed since the last time: while the loop runs this comes again
and again although a single pass may find it too early, hence strong fairness of `Poll`
and `OpenFile`. ProFTPd, the rotation, the admin and the faults have none. The other
runs are about safety and need none.

## 4. Proofs

All theorems hold for every value of the constants that satisfies the assumption of
the module, so for any number of files, lines, requests, accounts, threads,
connections, rows, days, calls and faults. The assumptions say that the values which
stand for nothing (`None`, `NoUser`, ...) are none of the others, that the bounds are
numbers, that there are finitely many threads and connections, that a path has a part,
and that an address which was normalised stays as it is.

| Theorem | Statement | Inductive invariant |
|---|---|---|
| `TornReadProofs!TornTypesHold`, `OneRowPerLine`, `NothingIsMisattributed` | `[]TypeOK`, `[]AtMostOneRow`, `[]NeverMisattributed` | `TornInv` |
| `LogTailerProofs!TypeCorrect` | `[]TypeOK` | itself |
| `LogTailerProofs!DuplicatesAreBounded`, `DuplicatesAreBehind` | `[]DuplicatesBounded`, `[]DuplicatesInv` | `TypeOK`, `ProcessInv`, `DuplicatesInv` |
| `LogTailerProofs!CrashesLoseNothing`, `CrashInvHolds` | `[]CrashSafe`, `[]CrashInv` | `TypeOK`, `ProcessInv`, `CrashInv` |
| `LogTailerProofs!ShownIsStored` | `[]ShownStored` | the same and `ShownInv` |
| `LogTailerProofs!TailerImplementsLedger` | `Spec => ImplementsLedger` | `TypeOK`, `ProcessInv`, `DuplicatesInv` |
| `AccountsProofs!TypeCorrect` | `[]TypeOK` | itself |
| `AccountsProofs!PasswdNeverPartial` | `[]NeverPartial` | `TypeOK`, `FileInv` |
| `AccountsProofs!PasswdSynced` | `[]SyncedWhenQuiet` | `TypeOK`, `SessionInv`, `SyncInv` |
| `AccountsProofs!AuditIsTruthful` | `[]AuditTruthful` | `TypeOK`, `AuditInv` |
| `AccountsProofs!HashIsKept` | `HashKept` | `TypeOK`, `UsedInv` |
| `AccountsProofs!RegenerationIsOneStep` | `Spec => ImplementsPasswdFile` | `TypeOK`, `SessionInv`, `FileInv` |
| `AdminAuthProofs!AuthTypesHold`, `VerdictIsTrue`, `ReplacesWhatIsKnown`, `EnvIsIgnored` | `[]AuthTypeOK`, `[]VerdictTrue`, `ReplacesKnown`, `EnvIgnored` | `AuthInv`, `RequestInv` |
| `RetentionProofs!RetentionTypesHold`, `PruningIsAsSet`, `AgeIsBounded`, `SummaryIsFair` | `[]RetentionTypeOK`, `PrunedAsSet`, `[]AgeBounded`, `[]SummaryFair` | `PruningInv`, `HistoryInv`, `AgeInv` |
| `DownloadPagesProofs!PagesTypesHold`, `NothingIsMissed` | `[]PagesTypeOK`, `[]NothingMissed` | `CallInv`, `WalkInv` |
| `LogsPoolProofs!PoolTypesHold`, `ConnectionsAreExclusive`, `NoPlaceIsLost`, `LimitIsKept`, `FailuresHaveReasons` | `[]TypeOK`, `[]Exclusive`, `[]NoLeak`, `[]LimitKept`, `[]FailuresExplained` | `PoolInv` |
| `AdminPageProofs!PageTypesHold`, `ListIsRight`, `DetailIsRight`, `RowsAreRight`, `ButtonsAreHonest` | `[]TypeOK`, `[]ListRight`, `[]DetailRight`, `[]RowsRight`, `ButtonHonest` | `PageInv` |

* `TornInv`: the two pieces of a line have one part more than the line between them,
  because one part of it is cut. Both have the seven that `parse_line` asks for only if
  the line has 13 (`PiecesInv`). If the path has no separator the line has seven, and a
  piece of seven has the fields two to six of the line (`BeginsRight`, `EndsRight`);
  everything but the time and the size of a row is made of those. `RowsInv` says which of
  the texts a row came from.
* `DuplicatesBounded` counts rows but nothing in it says which lines will be read
  again. `DuplicatesInv` adds that: a line stored more often than the tailer was made to
  start again is behind the position of the open file, or in a file nothing can open
  any more, and not in the batch. `Restarts` counts a change of the setting only once
  the tailer has seen it.
* `CrashSafe` is about the saved position only; `CrashInv` says the same of the position
  in memory and of the handle, whose lines are stored or in the batch.
* The refinement is a step simulation. A commit maps to `Ledger!Store` of the batch:
  its guard, that no download of the batch was stored too often, is what
  `DuplicatesInv` says of the batch. `Start` after a crash and a switch of the file
  map to `Ledger!Restart`, every other step to a stutter.
* `NeverPartial` needs `FileInv`: the one request that has a file open holds the
  temporary file, it is what that request has made of it so far, and it is never the
  file named `ftpd.passwd`.
* The refinement of `PasswdFile` is a step simulation from the same invariant and from
  `SessionInv`, that what a session holds of an account has the name of its row: so the
  list that a query gives is the table with at most one line from the memory of the
  request. The rename publishes what its request read because the file is
  `Whole(snap[r])`; the write is not seen because the file it goes to has another name.
  Once two requests have had the file open nothing is known of it, and each write and
  rename is a `Garble`.
* `SyncedWhenQuiet` needs `SyncInv`: a clean sync is the only one, and what it is
  going to write is the table as it is, the row that its session kept included (`Fresh`).
* `AuditTruthful` needs `AuditInv`: past its commit, a request that was alone still
  finds the row as it left it, and its change is among the committed ones.
* `HashKept` needs that rows have ids that were given out, so that a new account does
  not change the hash of an old one.
* `VerdictTrue` needs that the name a request has read was in force while it decided,
  and so was what it compares now: two reads that each saw a pair in force saw one
  pair together unless both rows changed. That the two rows come together (`AuthInv`)
  keeps the seed from running twice.
* `PrunedAsSet` needs `PruningInv`: if nothing was under way when the pruning began,
  nothing is under way now, and what it has read is what is set. `AgeBounded` needs
  `AgeInv`, which measures how long the next pruning may still take by what the task has
  slept and the faults so far, from the day a row passed its age or, if it was older
  than that when it was stored, from the day of its storing; `SummaryFair` needs
  `HistoryInv`, that a row that is gone was older than one of the settings so far.
* `NothingMissed` needs `WalkInv`: the rows the walk still owes come, in the order of
  the query, after the pages it has shown (`Deep`, `Owed`). New rows move others only
  to later pages, and the pruning takes them from the end, so that a step forward
  meets all of what is owed next.
* `PoolInv` has three layers. `Lists`: the types. `Ownership`: a connection has one
  client that works on it, or one place in one idle list (`Owners`), and one pool
  (`Home`); until a client takes a connection too early, the books are right about all
  that are being returned (`Apart`). `Counts`: the load of a pool, used connections
  and the one being taken and the idle ones not on the books, is at most `MaxConn`
  (`Limit`); the books count the clients that hold connections of the pool (`Counted`),
  which are some of those that run (`FewRun`); and they have a place for each client
  that is going to strike its own out (`Books`), so that `used` stays a natural number
  even while they are wrong. `Exclusive` alone needs only `Owners`.
* `PageInv` follows the answers on their way to the page. Each carries the users as the
  backend had them when it answered, and the change that it answers leads from there to
  the next (`ChainInv`); the first in line was made where `allUsers` is now, or the list
  is going to be loaded (`ListInv`), and once no change is left all of them say what the
  backend has (`SettledInv`). That is local: each answer is related to its neighbour
  only, so that no induction over the sequence is needed, and taking the first answer
  away makes the second the first. `DetailInv` and `RowsInv` say the same of the panel
  and of the table on the screen; they need `PanelInv`, that the changes under way were
  sent from the panel that is open. `ButtonHonest` is about the moment a call is
  handled, long after it was pressed: `FreshChangeInv` says that a change sent in quiet
  is still the only one and that its button says the opposite of what the backend has. A
  commit is the change of the row as it is if that is the row the handler loaded, and
  puts the list in doubt otherwise; what `Look` loads is not looked at by the page, so
  that it disturbs none of this. All is said of addresses in the backend's spelling.
  `ButtonHonest` holds at the press because the page shows what the backend has. Where
  that was in doubt, a load sent in quiet ends the doubt, because it brings the list
  there is (`FreshLoadInv`).

Only model-checked: liveness (`EventuallyStored`, `FollowsSetting`), since fairness and
ENABLED are out of TLAPS's reach here, and the five violations.

## 5. Not modelled

* Statistics other than the summary, CSV exports and charts are single queries and
  change no state.
* The validators of `schemas.py` refuse strings by their length, characters and reserved
  names, and change some: user names are lower-cased and stripped, `EmailStr` normalises
  an address. What comes out of them is the input of `Accounts` and `AdminAuth`;
  `AdminPage` has the typed address too. An address that is refused changes nothing.
* A token is a signature over a constant and the time: it depends on no state and
  changes none. That it outlives the credentials it was given for, and the 401 that
  ends a session, are read off the code.
* Request limits (nginx, slowapi) refuse a request before any state is touched, by
  counters of those programs.
* The pool of the users database is SQLAlchemy's: it waits, with a timeout, and no
  request holds one connection while it waits for another.
* Times of login, creation and of audit entries are left out, as are the texts of
  messages. The status texts that the tailer writes for the settings page are left
  out but for the position.
* Notes are stored as the address is; the page of anonymous downloads is the page of
  user downloads with other columns.

## 6. What could come next

1. An abstract specification of the pool (a bag of places, given to one client each),
   implemented by `LogsPool` but for the races it names.
2. `LogTailer` with bytes instead of lines, so that a line cut by a read and a saved
   position meet in one model.
