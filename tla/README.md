# Memo server: a TLA+ model

The Memo server keeps memos and tags in an SQLite file and serves them over
gRPC.  This directory holds TLA+ modules of its database layer, its service
handlers, its request loop and its log, configurations that check them with TLC
on small instances, and theorems about them that TLAPS proves for every
instance.

Paths below are relative to the repository's root; `src/db` and so on are the
directories of the C++ code (`src/src/db` in PROJECT.json, which counts from the
directory above the repository).

## 1. The system

| Part | State | Operations | Talks to |
|---|---|---|---|
| `Server` (src/server/Server.cpp) | completion queue, the two services by id | `initialize`, `run`, `executeProcess`, destructor | gRPC; `BaseService` |
| `BaseService` (src/server/service/BaseService.cpp) | `processes_`: the processes it owns | `enable`, `executeProcess`, `registerProcess`, `disable` (never called) | processes, gRPC |
| the eight `...Process` classes (src/server/process) | `state_`, the call's context, request and response | `init` (Request), `execute` (handler, Finish, `state_ = FINISHED`), `duplicate` | gRPC, their service |
| `MemoService`, `TagService` | none of their own | List, Add, Update, Remove | `IDatabase`, model classes |
| `IDatabase` / `Sqlite3Database` (src/db) | the connection, its transaction | constructor, insert, update, delete of memos and tags, two lists | `Sqlite3Wrapper` |
| `Sqlite3Functions` | none | one function per SQL statement, two query builders | `Sqlite3Wrapper` |
| `Sqlite3Schema` | none (the tables' declarations) | `Create`, `Drop` | |
| `Sqlite3Wrapper` | the SQLite handle, the callback | `open`, `close`, `isOpen`, `exec` | SQLite |
| model classes (src/model) | a memo, a tag, a color | setters, comparisons | |
| `Tools` | none | colors and ints, quotes | |
| logger (src/logger) | loggers, their configurations, streams of files | `Logger::Init`, LOG statements | files, standard output |
| `Resources`, `main` | the database and its users | wiring | |

One thread runs everything: `Server::run` takes a tag off gRPC's completion
queue, finds the process whose address the tag is, lets it run its handler to the
end, and goes back to the queue.  So database operations never interleave with
each other.  What does interleave with the thread is gRPC's core (it accepts
calls and completes replies), the clients (they call, cancel, retry), other
connections to the database file (they make statements and COMMITs fail), the
disk that fills up under the log, and `docker stop`, which is how the server is
stopped and may hit between any two statements.  That is where the hard
behaviour is:

- **atomicity and failure**: an operation is up to seven SQL statements, each of
  which may fail; results of BEGIN, COMMIT and ROLLBACK are ignored;
- **crash and restart**: the process dies between two statements, and another one
  opens the file;
- **stale or ambiguous lookups**: ids are looked up by title with LIKE, ids are
  reused, repeated tag ids collapse in a set;
- **object lifetimes across the completion queue**: a tag is an address, means
  "call" the first time and "reply" the second, and the address is reused;
- **ordering in the thread**: duplicate before execute, `state_` after Finish;
- **the end by an exception**: it leaves the handler, `execute` and `run`, and the
  destructor shuts down a server some of whose calls nobody will answer;
- **handlers of several database calls**: a new row is looked up after its
  insertion, in a call of its own; a removal is a sequence of transactions, each of
  which may fail or be the last before a kill;
- **retries**: a client whose attempt was lost does not know whether it took effect;
- **filters with parts left out**: an empty text, list or bound means "no condition",
  in some places on purpose and in some not;
- **conversions at their limits**: 64-bit timestamps in columns of signed integers,
  colors packed in ints, C strings that end at a zero character;
- **the log**: formats filled in by a chain of replacements, files that cannot be
  opened, buffers and flushes on a disk that is full.

What makes each part correct:

- database: every operation is atomic and durable when it returns true, leaves
  no trace and no transaction when it returns false; the constraints of the
  schema hold;
- request loop: each method always has exactly one listening process, no process
  is destroyed while gRPC holds its address or leaked afterwards, each call's own
  handler runs once, each call ends;
- services: what the reply says is what happened to the database, for the memo or
  tag the request named;
- the whole: what an answered call did is kept, and a retry does nothing twice;
- queries: the rows selected are those the filter describes;
- conversions: what is listed is what was given;
- log: what is in the file is what was logged, without a gap.

## 2. Modules

| Module | Models | Used by |
|---|---|---|
| `Sqlite3Schema` | the tables, UNIQUE, FOREIGN KEY | everything of the database |
| `Sqlite3Functions` | each SQL statement: what it reads or makes of the tables, and when SQLite accepts it | `Sqlite3Database` |
| `MemoStore` | what `IDatabase` promises: an atomic store (abstract specification) | refined by `Sqlite3Database`; used by `MemoServices` |
| `Sqlite3Database` | the constructor and the six operations that change the database, one statement per step | `MC_Sqlite3Database` |
| `MemoServices` | the handlers AddMemo/Tag, UpdateMemo/Tag, RemoveMemo/Tag, as steps over `MemoStore` | `MC_MemoServices`, `System` |
| `Sqlite3Queries` | `BuildMemoQuery`, `BuildTagQuery`, what SQLite makes of the query, and what a filter describes (reference) | `ListOperations` |
| `ListOperations` | the handlers ListMemos and ListTags with `listMemos` and `listTags`, one SELECT per step | `MC_ListOperations` |
| `Tools` | color packing | `Records` |
| `Sqlite3Wrapper` | open, close, exec with its callback; quote escaping, a text on its way into a statement and through SQLite's tokenizer | (its own instance) |
| `Records` | the fields of memos and tags from request to row to reply | `MC_Records` |
| `Processes` | the eight process classes: what each requests, executes, duplicates | `Server` |
| `RpcService` | what the request loop promises (abstract specification) | refined by `Server`; used by `System` |
| `Server` | the request loop, the processes, the destructor, gRPC's core and clients | `MC_Server` |
| `System` | `RpcService` and `MemoServices` composed, with clients that retry | `MC_System` |
| `LogText`, `LogHost`, `LogFormat`, `LogConfigurations` | the parts of easylogging++: numbers, dates and names; environment, directories and files; formats; configurations | `Logging` |
| `Logging` | a life of the log: static initialisation, `Logger::Init`, LOG statements, exit | `MC_Logging` |
| `..._proofs` | the proofs about `Sqlite3Functions` and `Sqlite3Database`, `Sqlite3Queries` and `ListOperations`, `MemoServices`, `Server`, `System`, `Sqlite3Wrapper`, `Tools` and `Records`, `Logging` and the modules under it | |
| `MC_...` | the instances TLC checks | |

How they are stacked: `Sqlite3Database` implements `MemoStore`, `MemoServices`
calls `MemoStore`; `Server` implements `RpcService`, and `System` puts the handlers
of `MemoServices` in `RpcService`.  So `System` has each part through what it was
shown to promise.

### Sqlite3Schema and Sqlite3Functions

`Tables` is a record of three tables.  Of a row of Memo or Tag only the UNIQUE
text (title, name) is kept: of description, color and timestamp, which the same
statements write, no operation but the listings reads anything; `Sqlite3Queries`
has rows with all columns for those, and `Records` follows the columns' values.
Tagged has no key, so it is a bag: how often each (memoId, tagId) occurs.  Ids are
handed out as SQLite does for an INTEGER PRIMARY KEY without AUTOINCREMENT: largest
id plus one, so that the id of the newest row is used again after its deletion.
LIKE is a constant relation on titles that contains at least the equal pairs:
letter case and wildcards differ from instance to instance.

### Sqlite3Database

`disk` is what is in the file, `work` what the connection sees, `inTx` whether a
transaction is open, `conn` and `enforced` the outcome of `open()` and of
`PRAGMA foreign_keys = ON`.  `pc` is the statement the thread is about to issue,
`call` the operation with its arguments, `oldTagIds`, `memoId` and `inserted` the
local variables that outlive a statement, `ret` the result.

`Call` starts an operation and `Begin` is its `beginTransaction()`.  Each `Step...`
action is one `exec`, with the code between it and the next one: for
instance `StepDeleteMemoTagIds` computes `tagIdsToDelete`, skips the statement if
that is empty, as `DeleteMemoTagIds` does, and goes to `rollback` if the statement
fails.  A statement fails when its constraints do, when the connection is closed,
or by a fault (`FaultKinds`: opening the file, the PRAGMA, a read, a write, a
COMMIT), after which SQLite has kept the transaction or rolled it back, either
being possible.

`SelectRows` does not look at the result of its `exec`, so a SELECT may break off
behind its first row and what it has delivered counts (`SelectBreaksOff`).  For
updateMemo this makes no difference, since `SelectMemoTagIds` looks at the result
itself.  insertMemo goes on with the id it has got.  If the transaction was kept, that
does no harm; if SQLite rolled it back, the memo is gone and insertMemo does not
know (section 4, observations).  That case is a fault kind of its own, "undo": without
it insertMemo is the atomic operation that `MemoStore` describes, with it not.

`Commit` and `Rollback` ignore results as the code does.  BEGIN is
deferred: it takes no lock and does no I/O, so it has no fault; inside an open
transaction it fails and the operation goes on in that transaction.  `Crash` takes
the process away at any point, `Open` is the next process.

Bounds, all in guards: `MaxFaults` (faults in a behaviour), `MaxCopies` (Tagged
rows per memo and tag, in `HasRoom`), and the finite sets of ids, where a full
table is a failing INSERT.

A failing CREATE TABLE is not modelled: the tables of an existing file are there,
and in a new one the first process is assumed to have created them.

### MemoStore

Receive, Apply or Refuse, Finish.  Apply does the whole operation at once;
Refuse needs a reason, an impossible request or a fault (`degraded`).  The tags of a
new memo go to a memo that a lookup by its title finds, as finding 2 says: `AddMemo`
takes any one that LIKE admits.
`Sqlite3Database` implements it under the mapping `Store`: the store's contents
are what is on the disk, the phase is read off `pc` and `ret`.  It is a statement
about crashes too: whatever the moment of a kill, the disk holds the outcome of
whole operations.

### MemoServices

A handler runs in the server's one thread and calls the database several times.
The model keeps where it is (`step`), the response being filled in (`reply`) and,
for a removal, the rows still to delete (`todo`).  A call that changes the
database is a Receive of `MemoStore`, its Apply or Refuse, and the handler's next
step with the result (`Returned`); a listing reads the store's contents at once
and, after a fault, may come back short (`Listings`), since `listMemos` reports no
failure.  `WithText` and `WithIds` are the only filters these handlers use: an
exact text, which is a LIKE and no condition when it is empty, and a set of ids.
`Kill` takes the process away between any two calls.

The module relies on what `MemoStore` promises of `IDatabase`, which `Sqlite3Database`
implements while COMMIT works and no SELECT loses the transaction; finding 1 and the
observation on `SelectRows` (section 4) say what happens otherwise, and are kept out
of this module.  Finding 2 is in it: what `SuccessIsStored` says of a new memo's tags
is that the new memo has them when no other title is LIKE its own, and in any case
that some memo has them whose title is.  The request's uuid,
description, color and timestamp are copied and left out here; success and failure
of `operation_status` are `reply.ok`.

### Sqlite3Queries and ListOperations

A query is a record: whether it joins Tagged, its conditions, its limit.  A
condition is a column, a test and a set of values joined by OR; the conditions are
joined by AND, so that a set of them is enough.  `Holds`, `MatchingMemos` and
`Limited` say what SQLite does with it: rows, or rows joined with Tagged, grouped by
id and cut off.  LIKE is a constant relation again, one for each place of the `%`.
`DescribesMemo` and `DescribesTag` are the reference: what a filter means, without
the detour through a query.

`ListOperations` walks through `listMemos` (the rows, then each row's tags), what
ListMemos does with them (it looks up the rows of the tags), and `listTags`.
A SELECT may fail; the code goes on with the rows it has got, and so does the
model, remembering in `failed` that it happened.  The tables do not change during
a listing because nothing else runs in the thread.  `MemoFilterOf` and `TagFilterOf`
translate the requests: ListMemos takes a request without `creation_time` for one
with the range 0..0, since `IsInitialized()` is always true (MemoService.cpp:33),
where ListTags asks `has_creation_time()`.  `MemosAsAskedFor` is about requests with
a `creation_time` for this reason.  An empty string in a filter's list of keywords
is removed by `ConstructContainsKeysCondition`, and that is what `Mentions` says.

### Sqlite3Wrapper and Tools

`open` is idempotent and may fail; `close` is the destructor's too.  `Exec` stores the
callback of its call, cuts the statement at its first zero character (`c_str()`) and
hands it to SQLite; `Read...` is SQLite's tokenizer, a character per step, two quotes
being one; `RowReturned` is `onRowReturned`, which calls whatever `callback_` holds.
SQLite may give up after any row.  A text has three kinds of characters: the quote,
the zero character and any other.  `Escaped` is the loop of `EscapeSingleQuotes`, by
its number of turns, as a recursive function, which TLAPS can reason about.  Shifts and
masks of colors are written with `\div` and `%`, which agree with them for negative ints
too.

ISqlite3Wrapper.hpp:37-38 says that a callback is called once for a statement that is
no query; the code and TestSqlite3Wrapper.inl:93 say never, and so does the model.
The program passes no callback with such statements.

### Records

A handler is one step, and the module is about its fields: from a request to an
object of `src/model` (`AddMemoModel` and so on, over the values that its constructor
leaves), to the columns (`InsertMemo`, `UpdateTagTable`, ...), to the text that a
SELECT reads back, to a response.  `Stored` is SQLite's type affinity: a number above
2^63 - 1 becomes a REAL, whose text `std::stoul` reads up to the decimal point.
The bounds are to scale, with 922 for 2^63 - 1: what matters of 9.22...e+18 is its
first digit, after rounding to 15 digits (`HalfUnit`: 9.999...e+18 is read as 1).
`given` remembers what clients gave last, `rq.again` which rows the request takes from
the response before it.

The reply to an addition has the id of the first row that a lookup by the text finds
(`MemosFound`, `TagsFound`): all rows for an empty text, and those that LIKE takes for
the same (`Alike`).  `ReportedAsGiven` says so: the reply tells of one of the rows found,
with the id of one of them, not always the same one (finding 3).  A new memo's own tags
are with it here; where they go otherwise is `MemoServices`'s subject.

### Processes and Server

`Processes` has a record per process class with the four names that are all a class
consists of.  In `Server` the thread's `pc` walks through `enable`, the two halves of
`registerProcess`, `completionQueue_->Next`, `executeProcess`, and `execute` (the handler
is entered and returns, Finish, `state_ = FINISHED`).  gRPC's core moves beside it:
`Accept` matches a pending call with an outstanding Request of its method, `Reply`
completes a Finish; both put the process's address in the queue with `isOk`, which
`run` does not read.  Clients send and cancel.  `Crash` kills the server, `Start` starts
it again.  A process object is created at any free address, with `state_` holding
garbage, as its constructor leaves it.  A tag that is not registered would be deleted
although a shared_ptr may own it (Server.cpp, 95): the model then stops in
`pc = "undefined"`, which `TypeOK` excludes.

`Throw` is an exception of the handler: it leaves `run`, and `~Server` begins.
`server_->Shutdown()` closes the port and refuses calls that no process has accepted;
the outstanding Requests come back unsuccessful.  It has no deadline and waits for the
calls that were accepted (`ShutdownReturns`); then the queue is emptied (`Drain`), its
tags ignored, and the members are destroyed (`Exit`).

### RpcService and System

`RpcService` is the loop as handlers and clients see it: every method has a seat for the
one call that is its next, one call is served at a time, its handler is entered once,
and it is answered afterwards.  `Server!Rpc` is the mapping: the seat of a method is the
call of its process in the queue, the call served is the one of `cur`.

`System` has the actions of `RpcService` as conjuncts, with those of `MemoServices`:
`Enter` starts the handler of the call that is served, `Proceed` and `StoreWorks` are its
steps, `Reply` its return.  Clients make another attempt when one was lost or when they
gave it up.  A cancellation reaches the server before the client's next attempt: gRPC
sends both over one connection.  `effects` is the history of what has changed in the
store, by which call and on which row.

A tag that is deleted leaves the memos that had it (`deleteTag`), so a row may change
without its own operation.  `RetryActsOnce` and `AnsweredIsKept` say so: a retried update
of a memo takes effect twice when another client has deleted one of its tags in between
(`Undoes`), and of the tags an answered update has written those stand that were not
deleted since (`Stands`).  `effects` has one row per effect (`Subject`), so the promises
about it are stated and proved where LIKE finds equal texts only; where it finds more, a
new memo's tags change a second row, as finding 2 says.

### The log

`LogHost`, `LogText`, `LogFormat` and `LogConfigurations` are functions: what
easylogging++ asks of its environment, how it writes numbers, dates and file names into
buffers of fixed size, how a format is taken apart when it is configured and filled in
when a line is built, and how the configurations of a logger are set over each other and
become maps by level.  Texts are sequences of tokens, a `%` with the letters behind it
being one.  `Logging` is the process: `StaticInit` makes the default logger before main
(and opens its file, myeasylog.log), `LoggerInit` is `Logger::Init`, `Dispatch` a LOG
statement up to the built line; `Write`, `Flush`, `ValidateFileRolling` and `PrintLine` are
the rest of the dispatch, `Exit` and `Kill` the two ends.  The disk may fill up and empty
at any time; a write that fails leaves nothing or a part of a line, and the stream then
refuses everything.  The file is a sequence of what was written; where a write was torn,
the piece and the whole line behind it are two entries here and one line for a reader
of the file.  A threshold of 0 makes `isFlushNeeded` true after every write, with or
without ImmediateFlush.

What the source says and the model follows: `ELPP_THREAD_SAFE`, the library's own error
messages and its crash handler are not compiled in; `LOG(FATAL)`, which would abort, is
not used; the month of `%B` is "Apri" in April (the server's format has `%M`); a maximal
file size of 0 never rolls; and when the default file cannot be opened, the levels, whose
ToFile is Global's, do not log to memo.log either (`AllLevelsOrNone`).

## 3. Runs

| Run | Instance | Checks | Shows |
|---|---|---|---|
| `db_tx` | 2 memo ids, 2 tag ids, 2 titles, 2 names, requests with any set of tags; one fault of kind open, read or write; kills at any time | `TypeOK`, `IntegrityKept`, `NoTransactionLeftOpen`, `TrueMeansDurable`, `NoRepeatedTag`, `ImplementsMemoStore` | while COMMIT and PRAGMA work and no SELECT loses the transaction, operations are atomic and durable |
| `db_faults` | 2 memo ids, 1 tag id, all kinds of fault, two of them, also a SELECT that breaks off and loses its transaction; LIKE matches across letter case | `WritesInTransaction`, `DependentsDeletedFirst`, `OnlyWholeOperationsOnDisk` | what survives when COMMIT, PRAGMA and open fail too, or a transaction is lost unseen |
| `server` | the eight process classes, 10 addresses, 2 calls for one method, whichever it is, or for AddMemo and AddTag; cancellation, exceptions, kills | `TypeOK`, `OneListener`, `TagsAlive`, `RegisteredAreHeld`, `StateTellsOperation`, `HandledOnce`, `CallsEnd`, `DestructorEnds`, `ImplementsRpc` | the request loop loses neither calls nor objects, and serves calls as `RpcService` says |
| `services` | 3 memo ids, 2 tag ids, titles "", "a", "A" and names "", "x", "X" of which LIKE takes the last two for equal, listings of at most 2; any call may fail once the store has had a fault; kills | `TypeOK`, `SuccessIsStored`, `AddedIdIsNew`, `FailureHasReason`, `RemovalIsReported`, `OnlyNamedAreRemoved`, `RemovalIsComplete` | what a reply says is what happened |
| `system` | 2 memo ids, 1 tag id; 2 clients with 2 attempts each; one adds a memo or tag, the other adds, rewrites or removes one, or adds a memo with the tag; kills, exceptions, cancellations, failing calls | `RetryActsOnce`, `AnsweredIsKept`, `AnsweredIsFinal` | what a client may conclude from an answer, and what retries do |
| `lists` | 37 contents of 3 memos and 2 tags, 180 ListMemos requests, 90 ListTags requests, 7 filters of other handlers, listings of at most 2; any SELECT may fail | `MemosAsAskedFor`, `TagsAsAskedFor`, `OnlyRealMemos`, `TagsResolve` | filters, queries and the listing loop neither lose nor add rows |
| `wrapper` | 2 calls of exec, texts of up to 4 of the 3 kinds of characters, results of up to 2 rows; the connection opened, closed, or not to be opened | `ReadsBack`, `RowsReachTheirCaller`, `TrueMeansAllRows` | a statement runs with the text put in, and its rows reach its own caller |
| `records` | 2 memos, 1 tag, titles "", "a" and "A", which LIKE does not tell apart, names of which one has a zero character, timestamps at 2^63 - 1 and above it, where a REAL is rounded up, a color of 2^24 + 1 | `ReportedAsGiven`, `RewritingChangesNothing` | what is listed is what was given, up to what the columns cannot hold, and the reply to an addition is so up to its id |
| `logger` | 2 starts of the server with up to 3 messages each, of 2 levels, one text full of format specifiers; a terminal with colors and one without; a log directory that is there or not; any file or directory refused; a disk that fills up and empties | `FileTellsWhatWasLogged`, `WrittenWhenReturned`, `AllLevelsOrNone` | the log is a prefix of what was logged, and all of it while no write fails |
| `db_commit_fails` | one COMMIT fails | `UpdateMemoDone` (violated) | finding 1 |
| `db_title_case` | titles that differ in case, no fault | `InsertMemoDone` (violated) | finding 2 |
| `services_added_id` | 2 memos, no fault needed | `AddedIdIsNewlyInserted` (violated) | finding 3 |

Why the bounds are enough.  Two ids of a kind let one row stay while another
goes, let titles collide, and let an id be handed out again; two tags let an
update keep one, drop one and add one.  One fault hits any statement of any
operation, and a second one (`db_faults`) meets the state that the first left: an
open transaction that a later operation joins.

Eight classes need eight listeners; the process at work and a finished one whose
reply is under way make ten addresses, and with two calls each is used again.
Two calls for one method compete for its listener; two of different services show
that neither waits for the other.

Three rows of a kind and listings of two let a removal take several rows, leave one
out by its limit, and fail at the first, the second or both.  In `lists` the requests
combine every part of their filters, present, absent and empty, with rows whose texts
begin with, contain, or equal up to letter case what is asked for, with memos that
have no tag, one or several, and with timestamps below, at and above the bounds.

In `system` an attempt that took effect and was lost, its retry, and a removal between
the two need two attempts and two clients at one row.  Four characters are enough for
quotes at both ends of a text and in pairs, with a zero character before or behind
them; two calls of exec are enough for a callback to be left over from the first.
Three messages in two lives are enough for a line that is buffered, one that does not
fit, and a torn one in the file that the next life appends to.

Each property of a passing run is violated when one definition is replaced by a
mutated form of it (PROJECT.json, "mutants"), for instance when rollback is
forgotten or a process executes before it is duplicated.

### Fairness

Only `Server` has a liveness property.  `FairSpec` (and `MCSpec`, which adds that
addresses never used before are handed out in turn, since they are alike) has weak
fairness of the thread's steps and of gRPC's core.  The thread is blocked only in
`Next` on an empty queue, and in `Shutdown`; its steps are a sequence of calls that
return.  gRPC delivers what it has accepted.  Clients, exceptions and kills are not
fair, and nobody has to start a killed server again: `CallsEnd` says that a call is
answered unless its client gives up, the server is killed, or a handler has thrown.

`DestructorEnds` says when `Shutdown`, which has no deadline, may wait for ever: when a
call was accepted and is neither answered nor cancelled, because the thread that would
have handled it is the one that waits.  `docker stop` kills the process then.

That handlers and database operations end is not among the properties: each is a
sequence of calls that return, with no loop but those over rows that become fewer, and
nothing in it waits for anything else.

## 4. Findings

1. **A failed COMMIT is reported as success** (src/db/Sqlite3Database.cpp:150, and
   165, 192, 232, 257).  `commitTransaction()`'s result is ignored.  If COMMIT
   fails, for instance with SQLITE_BUSY while another connection reads, the
   operation returns true with nothing in the file; the transaction stays open,
   the next operation joins it, and its rollback undoes both.  The tests look
   the result up through a second connection (TestSqlite3Database.inl:147-157).
   `OnlyWholeOperationsOnDisk` shows what remains true: still no half operation
   reaches the disk.
2. **A new memo's tags may go to another memo** (src/db/Sqlite3Functions.cpp:31).
   `insertMemo` looks its own row up with LIKE, which ignores case and reads `%` and
   `_` as wildcards; Sqlite3Functions.hpp:20-21 says the title "exactly matches".
3. **The id of an added memo or tag may be another one's**
   (src/server/service/MemoService.cpp:94, TagService.cpp:77).  After the insertion
   AddMemo asks for memos with the `exactTitleMatch`, which is a LIKE, and no
   condition at all for an empty title, and answers with the first one's id.  The
   log calls it "Newly inserted memo id".  A client that updates or removes what it
   has just added then changes another memo.  `AddedIdIsNew` shows what remains
   true: the id is right whenever no other title matches.

Observations, which contradict no line of the repository:

- ListMemos without `creation_time` lists only memos with timestamp 0 (section 2,
  ListOperations).
- A request that repeats a tag id leaves two Tagged rows, which collapse in
  `oldTagIds`: a later update that names the tag once leaves both
  (Sqlite3Database.cpp:129-135).  `NoRepeatedTag` is about requests that do not.
- **insertMemo may return true for a memo that is not there**
  (Sqlite3Functions.cpp:23, Sqlite3Database.cpp:175-193).  When the SELECT of
  `SelectMemoId` fails behind its first row and SQLite rolls the transaction back by
  itself (SQLITE_IOERR, SQLITE_NOMEM), `SelectRows` keeps the row and insertMemo goes
  on.  Without tags, the COMMIT fails unseen, the log says "Memo inserted." and nothing
  is stored.  With tags, `InsertMemoTagIds` runs outside a transaction; foreign keys
  refuse it for an id that is gone, but an id of another memo (finding 2) gets the tags
  for good, though its own memo was never stored.  One such fault in the instance of
  `db_title_case` (FaultKinds = {"undo"}, MaxFaults = 1, MixedCase = FALSE) violates
  `InsertMemoDone`.  `WritesInTransaction` and `OnlyWholeOperationsOnDisk` name this one
  exception and say that it is the only one.
- A timestamp of 2^63 or more comes back as the first decimal digit of its rounded text
  (Sqlite3Database.cpp:59 and 103); a client that sends back what it was told loses
  the timestamp (`Records`).
- A retried removal may take a row that another client has added in between, when it
  was given the id of the one removed (`RetryActsOnce` names the exception).

## 5. Proofs

TLAPS proves, for every value of the constants that satisfies the named assumptions
of their modules:

| Theorem | States | Assuming |
|---|---|---|
| **Sqlite3Database_proofs** | | |
| `TypeCorrect` | `Spec => []TypeOK` | |
| `TransactionDiscipline` | `Spec => []WritesInTransaction` | (the property names a lost transaction as its exception) |
| `WholeOperations` | `Spec => OnlyWholeOperationsOnDisk` | (likewise) |
| `DependentsFirst` | `Spec => []DependentsDeletedFirst` | |
| `TransactionsEnd` | `Spec => []NoTransactionLeftOpen` | COMMIT never fails |
| `IntegrityHolds` | `Spec => []IntegrityKept` | the PRAGMA never fails |
| `ActsAsMemoStore` | `Spec => ImplementsMemoStore` | `Dependable` |
| `TrueIsDurable` | `Spec => []TrueMeansDurable` | `Dependable`; LIKE is exact |
| `TagsNotRepeated` | `Spec => []NoRepeatedTag` | `Dependable`; LIKE is exact; no request repeats a tag |
| **Server_proofs** | | |
| `TypeCorrect` | `Spec => []TypeOK` | |
| `OneListenerEach` | `Spec => []OneListener` | |
| `TagsStayAlive` | `Spec => []TagsAlive` | |
| `RegisteredAreTags` | `Spec => []RegisteredAreHeld` | |
| `StateTells` | `Spec => []StateTellsOperation` | |
| `EachHandledOnce` | `Spec => []HandledOnce` | |
| `LoopImplementsRpc` | `Spec => ImplementsRpc` | |
| **MemoServices_proofs** | | |
| `TypeCorrect` | `Spec => []TypeOK` | |
| `SuccessMeansStored` | `Spec => []SuccessIsStored` | |
| `AddedIdCorrect` | `Spec => []AddedIdIsNew` | |
| `FailureJustified` | `Spec => []FailureHasReason` | |
| `RemovalReported` | `Spec => []RemovalIsReported` | |
| `OnlyNamedGo` | `Spec => []OnlyNamedAreRemoved` | |
| `RemovalCompletes` | `Spec => []RemovalIsComplete` | finite `MemoIds`, `TagIds` |
| **System_proofs** | | |
| `SystemRunsHandlers` | `SystemSpec => Spec` of `MemoServices` | |
| `SystemRunsLoop` | `SystemSpec => Rpc!Spec` | |
| `RepliesAreTrue` | `SystemSpec => [](SuccessIsStored /\ FailureHasReason /\ RemovalIsReported /\ OnlyNamedAreRemoved)` | |
| `AnswersAreFinal` | `SystemSpec => AnsweredIsFinal` | |
| `RetriesActOnce` | `SystemSpec => []RetryActsOnce` | LIKE is exact |
| `AnswersAreKept` | `SystemSpec => []AnsweredIsKept` | LIKE is exact |
| **ListOperations_proofs** | | |
| `MemoQueryIsFilter`, `TagQueryIsFilter` | `MatchingMemos(d, BuildMemoQuery(f)) = {m \in Rows(d.memo) : DescribesMemo(f, d, m)}`, and the same for tags | |
| `MemosListedAsAskedFor` | `Spec => []MemosAsAskedFor` | |
| `TagsListedAsAskedFor` | `Spec => []TagsAsAskedFor` | |
| `ListedTagsResolve` | `Spec => []TagsResolve` | finite `TagIds`; foreign keys hold in `Databases` |
| `OthersListRealMemos` | `Spec => []OnlyRealMemos` | |
| **Sqlite3Wrapper_proofs** | | |
| `LiteralsReadBack` | `Spec => []ReadsBack` | |
| `CallbacksAreOfTheirCall` | `Spec => []RowsReachTheirCaller` | |
| `TrueIsComplete` | `Spec => []TrueMeansAllRows` | |
| **Records_proofs** | | |
| `ColorSurvives` | `IntToColor(ColorToInt(c)) = c` for colors of bytes | |
| `ColorIsLow24Bits` | `ColorToInt(IntToColor(n)) = n % 2^24` for every integer | |
| `ResponsesAreAsGiven` | `Spec => []ReportedAsGiven` | |
| `SendingBackIsHarmless` | `Spec => RewritingChangesNothing` | |
| **Logging_proofs** | | |
| `LineIsBuilt` | `Build(f, message, p) = LineOf(m)` for the format `f` that `Logger::Init` configures | `IsLogMessage(m)` |
| `LogInvHolds` | `Spec => []LogInv` | |
| `LogTellsWhatWasLogged` | `Spec => []FileTellsWhatWasLogged` | |
| `LogIsWritten` | `Spec => []WrittenWhenReturned` | |
| `LogsAllLevelsOrNone` | `Spec => []AllLevelsOrNone` | |

The assumptions of the modules (`SchemaAssumption`, `DatabaseAssumption`,
`ServicesAssumption`, `QueriesAssumption`, `ListAssumption`, `ServerAssumption`,
`SystemAssumption`, `WrapperAssumption`, `RecordsAssumption`, `LoggingAssumption`) say
no more than what kind of thing a constant is: sets of ids without 0, tag lists with
counts in Nat, texts other than `NoRow`, LIKE at least equality, attempts numbered by
client, three kinds of characters; finite or infinite sets, any fault kinds and bounds.
Of the other assumptions two are about the code: the other handlers leave `maxCount` at
its default, which nothing in src sets (`ListAssumption`), and the low 24 bits of a
color fit an INTEGER column (`RecordsAssumption`).
`LoggingAssumption` describes what the server logs and where: no Fatal and no Verbose
messages, from places whose files have names without `%line` and `%msg`, lie in some
directory other than the root and have fewer than 1000 lines, at times up to the year
9999; to a path without a date in it, from a working directory that exists, as the root
does. Of what a message says nothing is assumed.

`Dependable` is: COMMIT and the PRAGMA take effect, no SELECT breaks off and loses its
transaction, and the sets of ids have no gap, so that a full table is one whose last id is
taken.  The first two are finding 1 and the observation on `SelectRows`: without them the
store is not what `IDatabase` promises.  "LIKE is exact" (`LikeIsExact`) is that it relates
equal texts only: without it a new memo's tags may be found with another memo (finding 2),
which `MemoStore` allows and the promises to clients do not.

The argument for **Sqlite3Database**:

- `TypeOK` includes `PcMatchesCall`: the statement at hand belongs to the operation
  called.  Without it the record fields a statement uses (`call.id`, `call.tags`)
  would have no type.  Its proof splits a state into the store, the local variables
  and the control (`StoreOK`, `LocalOK`, `ControlOK`), with a step per action and
  under it one per group.
- `WritesInTransaction` is inductive next to `TypeOK`: outside a transaction `work`
  equals `disk`; on an open connection, the statements of a multi-statement
  operation find a transaction.  The second half is not obvious: SQLite may roll
  the transaction back by itself when a statement fails, and it is the jump to
  `rollback` (and, in `insertMemo`, `inserted = FALSE`) that keeps later statements
  from running outside it.  The one statement it does not keep from it is that of
  `InsertMemoTagIds`, after the fault "undo" (`MayBeUndone`).  Then a statement writes to
  `work` alone, and only COMMIT or insertTag's statement changes `disk`, or in that case
  the new memo's tags do, which leave the rows of memos and tags as they are:
  `WholeOperations`.
- `NoTransactionLeftOpen` needs `OutsideTransaction`: no transaction is open between
  operations, before BEGIN and at insertTag's statement either.
- `IntegrityKept` is inductive together with "an open connection enforces foreign
  keys" (`Guarded`), which is where the assumption on the PRAGMA comes in.  The
  first lemmas of the module show of each statement that it keeps the
  integrity of the tables if SQLite accepts it.
- For the refinement the invariant says at each statement what has been done so far:
  `UpdateSoFar`, `InsertSoFar`, `DeleteSoFar` relate `work` to `disk` and the local
  variables, `ReadyToCommit` says that at COMMIT `work` is what the operation makes of
  `disk` (`Done`), `NothingDoneYet` that before the first write it is `disk` itself, and
  `RefusedForAReason` that `rollback` is reached by a fault or because the request
  cannot be done (`CanDo`).  Then COMMIT, and insertTag's one statement, map to Apply,
  what makes an operation return false to Refuse, and every other statement to a
  stutter.

**Server**: one inductive invariant, whose parts say, for every position of the thread,
which objects gRPC holds and which the thread has in hand (`HeldInv`, `OwnedInv`), that
the registered processes are the living ones but for the one being registered
(`RegisteredInv`), what `state_` says of each (`StateInv`), which methods have no listener
at the moment (`Deaf`, `ListenInv`, `FreshInv`), and which call belongs to which process
(`BoundInv`, `CallInv`).  Reuse of an address is sound because an object dies only when
no tag of it is left.  The six properties follow, three of them as what the invariant
says at `pc = "next"`.

For the refinement, `Server!Rpc` maps a method's seat to the call of the process that is
in the queue with it, chosen with CHOOSE, and the call served to that of `cur`.  The
invariant says that there is one such process at most (`OneWaits`, from `ListenInv`: two
processes of a class never listen at once), so that a step which touches another
process leaves the seat alone (`SeatKept`).  Then each step of gRPC or of the thread moves
one call, as an action of `RpcService` does, or none.  `ClosedInv` adds that no process
waits for a call once the port is closed.

**MemoServices**: `IInv` has a control part (the store works on what the running handler
asked for) and a part of progress per method, which relates the store to `before`: for
an addition that exactly one row is new and which, and to which memo its tags went, for
a removal that the rows gone are
those of `reply`, all of them selected, with those in `todo` still there, and, while
there was no fault, that a failure has its reason (`Refusing`).  `RemovalCompletes` adds
that while there was no fault every row the request names is gone or in `todo`.

**System**: the first invariant says that a call is in one place (waiting in a seat, being
served, or handled: `PlaceInv`), that the handler which runs is that of the call served
(`RunInv`), and that a client's attempts are served in the order they were made
(`OrderInv`).  With it the composition is a behaviour of both its parts, so that the
theorems of `MemoServices_proofs` hold in the whole server, and an answer is final.
`RetryActsOnce` and `AnsweredIsKept` relate the history to the store, and need more
(`PromiseInv`): each effect is one that its call's request asks for (`EffectsInv`); what
the last effect on a row has written is in the store, up to tags deleted since, or the
row is gone if it was deleted (`StandingInv`); memos have tags that exist (`RefsInv`); and
an addition that was carried out, or was answered with SUCCESS, is among the effects
(`AddedInv`).  Where LIKE is exact, an operation changes the row of its subject alone.  An update that takes effect finds the row other than it wants it, and a
second insertion would meet UNIQUE: if the first effect still stood there would be no
second, so something undid it in between.  The attempt to prove `RetryActsOnce` as it was
first stated showed that it was false for an update with tags, as a retry finds the memo
without a tag that another client has deleted; it names that case now.

**Queries and listings**:

- The query theorems split a query's conditions by the part of the filter they come
  from; a lemma per kind of condition (`InDemands`, `LikeDemands`, `KeysDemand`,
  `DatesDemand`) says what it demands of a row, and the join is matched with the
  reference's quantifier over tags or memos at the end.
- `MemosAsAskedFor` and `TagsAsAskedFor` speak of the end of a listing.  The invariant
  `IInv` of `ListOperations_proofs` says what has been selected so far at every
  step: while the tags are being read, the memos listed and the rows left are
  together those the query selects (`MemosSoFar`), which needs that a listing starts
  without leftovers (`Fresh`), and that a row taken next is one of the rows
  (`FirstIsMember`, from the well-foundedness of < on Nat).  `TagsResolve` adds that the
  tags collected are those of the memos, and that a filter with these ids finds all
  of them when they are at most maxCount.

- `OnlyRealMemos` holds whatever failed: what is selected or listed at any time is among
  what the query selects (`OthersSoFar`).  That a limit is kept (`LimitedIsLimited`)
  follows without induction: the number of smaller ids is an injection from the first n
  ids into 0..n - 1, and `memo.id` one from what is listed into these.

**Sqlite3Wrapper**: the text is built by a loop, one character a turn, and read by
another one, so the proof is about a position in between.  `Escaped` satisfies its
equation, as a least number for which it did not would have a predecessor for which it
did (`EscapedIs`); the library's induction theorems are out of reach, but the
well-foundedness of < on Nat does.  Then `Place` says at which character of the literal
each character of the text is found, and `LiteralInv` that the tokenizer, when it has
read the first i characters of the text, is at the place of the next one. `CallInv` and
`RowsInv` say which callback the wrapper holds while rows come, and which rows it has
handed over.

**Records**: the rows are what `InsertMemo` or `InsertTag` makes of what was given last
(`MemosInv`, `TagsInv`), with the tags that were given and not removed since, which exist
(`TaggedInv`); the items of a response are what a reader makes of such rows (`ToldInv`),
and what has just been listed is still there (`ListedInv`).  The new row is among those a
lookup by its text finds, so that there is a first one (`FirstIsFound`).  What is read from a column is
what was given if it fits, which for a color is always so.

**The log**: a line is a text that is cut, replaced and put together by loops, so most of the
proof is about functions.  A lemma says of each of these recursive functions that it satisfies
its equation, or what it is after n turns, from the least n for which that would fail
(`FirstIs`, from the well-foundedness of < on Nat).

- *The format.*  `ReplaceIn` and `ReplaceNone` say what `ReplaceFirstWithEscape` makes of a text in
  which the specifier is found at a known place, or nowhere, and `ConfiguredFormat` what is left
  of the server's format when its date and its level have been taken out: a date format of
  its own, three flags, and a text with four specifiers.
- *The line.*  `DateIs` and `DecimalIs` say what dates and numbers look like in the buffers
  of fixed size they are written to, and `BaseFilenameIs` what is left of a file's name.
  `LineIsBuilt` then follows the chain of replacements.  It is sound because nothing that is
  filled in before the message contains a specifier that comes later, and the message
  comes last: that is what `IsPlace` asks of the names of source files, and why nothing is asked of
  a message.
- *The configuration.*  `InitConfigured` says what each level has in the maps by level after
  `Logger::Init` (`ConfiguredLevel`).  That toFile is the same for all levels comes from
  Global, to whose value they fall back.
- *The directories.*  `AllLevelsOrNone` says that the streams are open when nothing was refused,
  so the path to the log has to be there by then: `DirectoriesMade` follows `createPath` from
  directory to directory, and `DirectoryIsMade` says that the last one is the one
  `newFileStream` needs.
- *The steps.*  `LogInv` says what is configured in each part of a life (`ConfigurationOK`), that
  the line being dispatched is that of the message logged last (`LineOK`), that the log has
  got the lines of the first n messages, in pieces that failed writes may have left torn, with
  at most the next one in the buffer (`ContentOK`), and that no line is missing while no
  write has failed (`NoneMissing`).  A stream that is bad once takes nothing more,
  so n does not move again until the end of the process, when its buffer may still land.

The proofs found a weakness of the model that no run could show: the color of a line was a CASE
whose guards overlapped, of which TLC takes the first true one and TLA+ any.

Only model-checked: liveness (`CallsEnd`, `DestructorEnds`), which is out of the provers'
reach.

## 6. Not modelled

- `BaseService::disable`, which would empty `processes_` while gRPC holds the addresses in
  it, and the schema's `Drop`: nothing calls them.
- `getId`'s truncation of an address to int (BaseService.cpp:51): the ids of the two
  services are assumed to differ.  Whether they do is up to the allocator.
- A port that is taken: `BuildAndStart` returns null, and what gRPC then does with a
  queue whose server was never built is not told by the code.
- A failing CREATE TABLE (section 2, Sqlite3Database).
- The uuid of a request, which is copied to its response, and the address and port in
  `Resources`.
- Of easylogging++: verbose levels, hit counters, loggers other than the default one,
  asynchronous dispatch, the crash handler, performance tracking, command lines,
  configuration files, custom specifiers, syslog.  The server calls none of it, or it is
  not compiled in.
- Generated protocol code, tests, build and run scripts.

## 7. What could follow

`MemoServices` over the statements of `Sqlite3Database` instead of `MemoStore`, where
findings 1, 2 and 3 and a lost transaction meet in one behaviour; the message of a failed operation, which the log
gets and the client does not.
