-------------------------- MODULE Sqlite3Database --------------------------
(***************************************************************************)
(* src/db/Sqlite3Database.cpp: the operations of IDatabase that change the *)
(* database, one SQL statement per step.                                   *)
(*                                                                         *)
(* The server's only thread calls one operation at a time.  Between any    *)
(* two statements the process may be killed (it is stopped with `docker    *)
(* stop`), and a statement may fail (the file is locked by another         *)
(* connection, the disk is full, ...).  `work` is what the connection      *)
(* sees, `disk` what a new connection would see; they differ only while a  *)
(* transaction is open.                                                    *)
(*                                                                         *)
(* listMemos and listTags only read and are not part of this module.       *)
(***************************************************************************)
EXTENDS Sqlite3Functions

CONSTANTS
    TagLists,     \* tag_ids fields of requests: how often each tag id occurs
    MaxCopies,    \* bound: Tagged rows per (memoId, tagId)
    FaultKinds,   \* which kinds of statement may fail without a constraint's fault
    MaxFaults     \* bound: such failures in a behaviour

ASSUME DatabaseAssumption ==
    /\ TagLists \subseteq [TagIds -> Nat]
    /\ FaultKinds \subseteq {"open", "pragma", "read", "undo", "write", "commit"}
    /\ MaxCopies \in Nat
    /\ MaxFaults \in Nat

VARIABLES
    disk,       \* the committed tables
    work,       \* the tables as this connection sees them
    inTx,       \* the connection has an open transaction
    conn,       \* "down": no process; "open" or "failed": sqlite3_->open()'s outcome
    enforced,   \* PRAGMA foreign_keys = ON took effect on this connection
    pc,         \* the next statement of the operation
    call,       \* the operation being executed, with its arguments
    oldTagIds,  \* updateMemo: the ids SelectMemoTagIds found
    memoId,     \* insertMemo: newId
    inserted,   \* insertMemo: insertSuccess
    ret,        \* what the operation returns
    faults      \* failures so far

store == <<disk, work, inTx>>
link  == <<conn, enforced>>
local == <<oldTagIds, memoId, inserted>>
vars  == <<store, link, pc, call, local, ret, faults>>

-----------------------------------------------------------------------------

UpdateMemoCalls == [op : {"updateMemo"}, id : MemoIds, text : Titles, tags : TagLists]
UpdateTagCalls  == [op : {"updateTag"}, id : TagIds, text : Names]
InsertMemoCalls == [op : {"insertMemo"}, text : Titles, tags : TagLists]
InsertTagCalls  == [op : {"insertTag"}, text : Names]
DeleteMemoCalls == [op : {"deleteMemo"}, id : MemoIds]
DeleteTagCalls  == [op : {"deleteTag"}, id : TagIds]

Calls == UpdateMemoCalls \cup UpdateTagCalls \cup InsertMemoCalls
            \cup InsertTagCalls \cup DeleteMemoCalls \cup DeleteTagCalls
NoCall == [op |-> "none"]

\* Mutant: deleteMemo and deleteTag delete the row before the rows that refer to it.
FirstStatementRowFirst(op) ==
    CASE op = "updateMemo" -> "SelectMemoTagIds"
      [] op = "updateTag"  -> "UpdateTagTable"
      [] op = "insertMemo" -> "InsertMemo"
      [] op = "deleteMemo" -> "DeleteMemo"
      [] op = "deleteTag"  -> "DeleteTag"

\* The statement an operation starts with, once its transaction has begun.
FirstStatement(op) ==
    CASE op = "updateMemo" -> "SelectMemoTagIds"
      [] op = "updateTag"  -> "UpdateTagTable"
      [] op = "insertMemo" -> "InsertMemo"
      [] op = "deleteMemo" -> "DeleteTaggedOfMemo"
      [] op = "deleteTag"  -> "DeleteTaggedOfTag"

\* The statements, by operation.
UpdateMemoPcs == {"SelectMemoTagIds", "DeleteMemoTagIds", "AddMemoTagIds", "UpdateMemoTable"}
InsertMemoPcs == {"InsertMemo", "SelectMemoId", "InsertMemoTagIds"}
DeleteMemoPcs == {"DeleteTaggedOfMemo", "DeleteMemo"}
DeleteTagPcs  == {"DeleteTaggedOfTag", "DeleteTag"}

Pcs == UpdateMemoPcs \cup InsertMemoPcs \cup DeleteMemoPcs \cup DeleteTagPcs
          \cup {"UpdateTagTable", "InsertTag"}
          \cup {"idle", "begin", "commit", "rollback", "return"}

-----------------------------------------------------------------------------

Init ==
    /\ disk = EmptyTables
    /\ work = EmptyTables
    /\ inTx = FALSE
    /\ conn = "down"
    /\ enforced = FALSE
    /\ pc = "idle"
    /\ call = NoCall
    /\ oldTagIds = {}
    /\ memoId = NoMemoId
    /\ inserted = FALSE
    /\ ret = FALSE
    /\ faults = 0

\* A statement of this kind fails although nothing is wrong with it.
Fault(kind) == kind \in FaultKinds /\ faults < MaxFaults /\ faults' = faults + 1

\* SQLite ends the transaction on its own (SQLITE_FULL, SQLITE_IOERR, ...).
RolledBack == inTx /\ inTx' = FALSE /\ work' = disk /\ UNCHANGED disk

\* What a failing statement does to its transaction: it stays open, or it is gone.
Undone == UNCHANGED store \/ RolledBack

\* A statement that changes the tables to db: in the transaction, or, without
\* one, committed on its own.
Write(db) == work' = db /\ disk' = (IF inTx THEN disk ELSE db) /\ UNCHANGED inTx

\* Mutant: the PRAGMA is left out; SQLite does not enforce foreign keys by default.
OpenWithoutPragma ==
    /\ conn = "down"
    /\ conn' = "open" /\ enforced' = FALSE
    /\ UNCHANGED <<store, pc, call, local, ret, faults>>

\* The constructor.  The CREATE TABLE IF NOT EXISTS statements change nothing in
\* the model (EmptyTables stands for their outcome); the process serves requests
\* whether or not the file could be opened and the PRAGMA succeeded.
Open ==
    /\ conn = "down"
    /\ \/ conn' = "open" /\ enforced' = TRUE /\ UNCHANGED faults
       \/ Fault("pragma") /\ conn' = "open" /\ enforced' = FALSE
       \/ Fault("open") /\ conn' = "failed" /\ enforced' = FALSE
    /\ UNCHANGED <<store, pc, call, local, ret>>

\* The process is killed: SQLite drops the open transaction.
Crash ==
    /\ conn # "down"
    /\ conn' = "down"
    /\ enforced' = FALSE
    /\ work' = disk
    /\ inTx' = FALSE
    /\ pc' = "idle"
    /\ call' = NoCall
    /\ oldTagIds' = {} /\ memoId' = NoMemoId /\ inserted' = FALSE
    /\ ret' = FALSE
    /\ UNCHANGED <<disk, faults>>

\* Bound on the calls that add Tagged rows.
HasRoom(c) ==
    c.op \in {"updateMemo", "insertMemo"} =>
        \A m \in MemoIds, t \in TagIds :
            c.tags[t] > 0 => work.tagged[m][t] + c.tags[t] =< MaxCopies

\* A service calls an operation of the database.  insertTag is a single statement
\* outside a transaction.
Call ==
    /\ conn # "down"
    /\ pc = "idle"
    /\ \E c \in Calls :
          /\ HasRoom(c)
          /\ call' = c
          /\ pc' = IF c.op = "insertTag" THEN "InsertTag" ELSE "begin"
    /\ UNCHANGED <<store, link, local, ret, faults>>

\* Mutant: the operation forgets beginTransaction().
BeginForgotten ==
    /\ pc = "begin"
    /\ pc' = FirstStatement(call.op)
    /\ UNCHANGED <<store, link, call, local, ret, faults>>

\* beginTransaction(); its result is ignored.  BEGIN takes no lock and does no I/O:
\* on an open connection it fails only inside a transaction, which then goes on.
Begin ==
    /\ pc = "begin"
    /\ inTx' = (conn = "open")
    /\ pc' = FirstStatement(call.op)
    /\ UNCHANGED <<disk, work, link, call, local, ret, faults>>

\* Mutant: the operation returns true without commitTransaction().
CommitForgotten ==
    /\ pc = "commit"
    /\ pc' = "return"
    /\ ret' = TRUE
    /\ UNCHANGED <<store, link, call, local, faults>>

\* commitTransaction(); its result is ignored, and the operation returns true.
Commit ==
    /\ pc = "commit"
    /\ \/ /\ conn = "open" /\ inTx
          /\ disk' = work
          /\ inTx' = FALSE
          /\ UNCHANGED <<work, faults>>
       \/ /\ conn # "open" \/ ~inTx
          /\ UNCHANGED <<store, faults>>
       \/ conn = "open" /\ inTx /\ Fault("commit") /\ Undone
    /\ pc' = "return"
    /\ ret' = TRUE
    /\ UNCHANGED <<link, call, local>>

\* Mutant: the operation returns false without rollback().
RollbackForgotten ==
    /\ pc = "rollback"
    /\ pc' = "return"
    /\ ret' = FALSE
    /\ UNCHANGED <<store, link, call, local, faults>>

\* rollback(); the operation returns false.
Rollback ==
    /\ pc = "rollback"
    /\ work' = disk
    /\ inTx' = FALSE
    /\ pc' = "return"
    /\ ret' = FALSE
    /\ UNCHANGED <<disk, link, call, local, faults>>

\* The operation's result reaches the service.
Return ==
    /\ pc = "return"
    /\ pc' = "idle"
    /\ call' = NoCall
    /\ oldTagIds' = {} /\ memoId' = NoMemoId /\ inserted' = FALSE
    /\ ret' = FALSE
    /\ UNCHANGED <<store, link, faults>>

-----------------------------------------------------------------------------

\* exec of a statement that turns the tables into db if its constraints accept it.
Succeeds(accepted, db) == conn = "open" /\ accepted /\ Write(db) /\ UNCHANGED faults

Fails(accepted) ==
    \/ (conn # "open" \/ ~accepted) /\ UNCHANGED <<store, faults>>
    \/ conn = "open" /\ Fault("write") /\ Undone

Exec(accepted, db, next, onFailure) ==
    \/ Succeeds(accepted, db) /\ pc' = next
    \/ Fails(accepted) /\ pc' = onFailure

\* exec of a SELECT that fails before its first row.
SelectFails ==
    \/ conn # "open" /\ UNCHANGED <<store, faults>>
    \/ conn = "open" /\ Fault("read") /\ Undone

\* exec of a SELECT that fails behind its first row.  That its transaction is gone
\* then is a kind of fault of its own.
SelectBreaksOff ==
    /\ conn = "open"
    /\ \/ Fault("read") /\ UNCHANGED store
       \/ Fault("undo") /\ RolledBack

(* ----- updateMemo ----- *)

StepSelectMemoTagIds ==
    /\ pc = "SelectMemoTagIds"
    /\ \/ /\ conn = "open"
          /\ oldTagIds' = SelectMemoTagIds(work, call.id)
          /\ pc' = "DeleteMemoTagIds"
          /\ UNCHANGED <<store, faults>>
       \/ /\ SelectFails
          /\ pc' = "rollback"
          /\ UNCHANGED oldTagIds
    /\ UNCHANGED <<link, call, memoId, inserted, ret>>

\* Mutant: all the tags of the request are added.
TagIdsToAddAll(old, tags) == tags

\* Mutant: one copy of every old tag is taken off, named in the request or not.
TagIdsToAddUnguarded(old, tags) ==
    [t \in TagIds |-> IF t \in old THEN tags[t] - 1 ELSE tags[t]]

\* The lambda erases an old id when it meets it, so that a second copy of the same
\* id in the request counts as a new tag.
TagIdsToAdd(old, tags) ==
    [t \in TagIds |-> IF t \in old /\ tags[t] > 0 THEN tags[t] - 1 ELSE tags[t]]

\* Mutant: no tag is ever taken from a memo.
TagIdsToDeleteNone(old, tags) == {}


TagIdsToDelete(old, tags) == {t \in old : tags[t] = 0}

\* DeleteMemoTagIds issues no statement for an empty list.
StepDeleteMemoTagIds ==
    /\ pc = "DeleteMemoTagIds"
    /\ LET tagIds == TagIdsToDelete(oldTagIds, call.tags)
       IN  IF tagIds = {}
           THEN pc' = "AddMemoTagIds" /\ UNCHANGED <<store, faults>>
           ELSE Exec(TRUE, DeleteMemoTagIds(work, call.id, tagIds), "AddMemoTagIds", "rollback")
    /\ UNCHANGED <<link, call, local, ret>>

\* InsertMemoTagIds(memoId, copies), which issues no statement for an empty list.
ExecInsertMemoTagIds(id, copies, next) ==
    IF \A t \in TagIds : copies[t] = 0
    THEN pc' = next /\ UNCHANGED <<store, faults>>
    ELSE Exec(CanInsertMemoTagIds(work, id, copies, enforced),
              InsertMemoTagIds(work, id, copies), next, "rollback")

StepAddMemoTagIds ==
    /\ pc = "AddMemoTagIds"
    /\ ExecInsertMemoTagIds(call.id, TagIdsToAdd(oldTagIds, call.tags), "UpdateMemoTable")
    /\ UNCHANGED <<link, call, local, ret>>

StepUpdateMemoTable ==
    /\ pc = "UpdateMemoTable"
    /\ Exec(CanUpdateRow(work.memo, call.text, call.id),
            UpdateMemoTable(work, call.text, call.id), "commit", "rollback")
    /\ UNCHANGED <<link, call, local, ret>>

(* ----- updateTag ----- *)

StepUpdateTagTable ==
    /\ pc = "UpdateTagTable"
    /\ Exec(CanUpdateRow(work.tag, call.text, call.id),
            UpdateTagTable(work, call.text, call.id), "commit", "rollback")
    /\ UNCHANGED <<link, call, local, ret>>

(* ----- insertMemo ----- *)

\* The new row gets the next id; without one left in the model the statement fails.
\* Either way the id is then looked up by the title.
StepInsertMemo ==
    /\ pc = "InsertMemo"
    /\ \/ /\ \E id \in MemoIds :
                Succeeds(CanInsertRow(work.memo, call.text, id), InsertMemo(work, call.text, id))
          /\ inserted' = TRUE
       \/ /\ Fails(\E id \in MemoIds : CanInsertRow(work.memo, call.text, id))
          /\ inserted' = FALSE
    /\ pc' = "SelectMemoId"
    /\ UNCHANGED <<link, call, oldTagIds, memoId, ret>>

\* SelectRows ignores the failure of its SELECT: what was read before it counts,
\* also when the transaction of that row is gone.
StepSelectMemoId ==
    /\ pc = "SelectMemoId"
    /\ \/ /\ conn = "open"
          /\ \E id \in MemoIds \cup {NoMemoId} :
                /\ IsSelectedMemoId(work, call.text, id)
                /\ memoId' = id
          /\ UNCHANGED <<store, faults>>
       \/ /\ SelectFails
          /\ memoId' = NoMemoId
       \/ /\ SelectBreaksOff
          /\ memoId' \in MatchingMemoIds(work, call.text)
    /\ pc' = IF ~inserted \/ memoId' = NoMemoId THEN "rollback" ELSE "InsertMemoTagIds"
    /\ UNCHANGED <<link, call, oldTagIds, inserted, ret>>

StepInsertMemoTagIds ==
    /\ pc = "InsertMemoTagIds"
    /\ ExecInsertMemoTagIds(memoId, call.tags, "commit")
    /\ UNCHANGED <<link, call, local, ret>>

(* ----- insertTag ----- *)

StepInsertTag ==
    /\ pc = "InsertTag"
    /\ \/ /\ \E id \in TagIds :
                Succeeds(CanInsertRow(work.tag, call.text, id), InsertTag(work, call.text, id))
          /\ ret' = TRUE
       \/ /\ Fails(\E id \in TagIds : CanInsertRow(work.tag, call.text, id))
          /\ ret' = FALSE
    /\ pc' = "return"
    /\ UNCHANGED <<link, call, local>>

(* ----- deleteMemo, deleteTag ----- *)

StepDeleteTaggedOfMemo ==
    /\ pc = "DeleteTaggedOfMemo"
    /\ Exec(TRUE, DeleteTaggedOfMemo(work, call.id), "DeleteMemo", "rollback")
    /\ UNCHANGED <<link, call, local, ret>>

StepDeleteMemo ==
    /\ pc = "DeleteMemo"
    /\ Exec(CanDeleteMemo(work, call.id, enforced),
            DeleteMemo(work, call.id), "commit", "rollback")
    /\ UNCHANGED <<link, call, local, ret>>

StepDeleteTaggedOfTag ==
    /\ pc = "DeleteTaggedOfTag"
    /\ Exec(TRUE, DeleteTaggedOfTag(work, call.id), "DeleteTag", "rollback")
    /\ UNCHANGED <<link, call, local, ret>>

StepDeleteTag ==
    /\ pc = "DeleteTag"
    /\ Exec(CanDeleteTag(work, call.id, enforced),
            DeleteTag(work, call.id), "commit", "rollback")
    /\ UNCHANGED <<link, call, local, ret>>

-----------------------------------------------------------------------------

UpdateMemo == \/ StepSelectMemoTagIds \/ StepDeleteMemoTagIds
              \/ StepAddMemoTagIds \/ StepUpdateMemoTable

InsertMemoSteps == StepInsertMemo \/ StepSelectMemoId \/ StepInsertMemoTagIds

DeleteSteps == \/ StepDeleteTaggedOfMemo \/ StepDeleteMemo
               \/ StepDeleteTaggedOfTag \/ StepDeleteTag

\* The thread's progress through the operation it is in.
Advance ==
    \/ Begin \/ Commit \/ Rollback \/ Return
    \/ UpdateMemo
    \/ StepUpdateTagTable
    \/ InsertMemoSteps
    \/ StepInsertTag
    \/ DeleteSteps

Next == Open \/ Crash \/ Call \/ Advance

Spec == Init /\ [][Next]_vars

-----------------------------------------------------------------------------
(* Properties *)

\* The thread is at a statement of the operation it was asked for, in a process that
\* runs, and it tags the new memo only once its id is known.
PcMatchesCall ==
    /\ conn = "down" => pc = "idle"
    /\ pc \in UpdateMemoPcs => call \in UpdateMemoCalls
    /\ pc \in InsertMemoPcs => call \in InsertMemoCalls
    /\ pc \in DeleteMemoPcs => call \in DeleteMemoCalls
    /\ pc \in DeleteTagPcs => call \in DeleteTagCalls
    /\ pc = "UpdateTagTable" => call \in UpdateTagCalls
    /\ pc = "InsertTag" => call \in InsertTagCalls
    /\ pc = "begin" => call \in Calls \ InsertTagCalls
    /\ pc = "InsertMemoTagIds" => memoId \in MemoIds

\* The variables have their types, and the statement fits the operation.
TypeOK ==
    /\ disk \in Tables /\ work \in Tables
    /\ inTx \in BOOLEAN
    /\ conn \in {"down", "open", "failed"}
    /\ enforced \in BOOLEAN
    /\ pc \in Pcs
    /\ call \in Calls \cup {NoCall}
    /\ oldTagIds \subseteq TagIds
    /\ memoId \in MemoIds \cup {NoMemoId}
    /\ inserted \in BOOLEAN
    /\ ret \in BOOLEAN
    /\ faults \in Nat
    /\ PcMatchesCall

\* An insertMemo may have lost its transaction to a SELECT that broke off.
MayBeUndone == "undo" \in FaultKinds /\ faults > 0

\* The transaction discipline that keeps half an operation off the disk: outside a
\* transaction the connection sees the disk, and an operation other than insertTag
\* changes the tables through an open connection only within a transaction, even
\* after an earlier COMMIT or a statement in the middle failed.  The one way out of
\* it: insertMemo goes on with its tags when SelectMemoId (line 175) found the row
\* and lost the transaction.
WritesInTransaction ==
    /\ ~inTx => work = disk
    /\ inTx => conn = "open"
    /\ pc \in UpdateMemoPcs \cup DeleteMemoPcs \cup DeleteTagPcs
                \cup {"UpdateTagTable", "InsertMemo"}
          => (conn = "open" => inTx)
    /\ pc = "SelectMemoId" /\ inserted => (conn = "open" => inTx)
    /\ pc = "InsertMemoTagIds" => (conn = "open" => inTx \/ MayBeUndone)

\* The committed tables, and those of an unfinished transaction, keep unique
\* titles and names and every Tagged row points to a memo and a tag, whichever
\* statements fail: the foreign keys have to be switched on in every process
\* (line 28) before the first write.
IntegrityKept == Integrity(disk) /\ Integrity(work)

\* However an operation ends, it leaves no transaction behind for the next one to
\* run in: all paths through the functions end in COMMIT or ROLLBACK.
NoTransactionLeftOpen == pc \in {"idle", "return"} => ~inTx /\ work = disk

\* When deleteMemo or deleteTag comes to delete the row itself, no Tagged row
\* refers to it any more, so that the foreign keys cannot refuse the statement.
DependentsDeletedFirst ==
    /\ pc = "DeleteMemo" => TagsOf(work, call.id) = {}
    /\ pc = "DeleteTag" => \A m \in MemoIds : call.id \notin TagsOf(work, m)

Named(tags) == {t \in TagIds : tags[t] > 0}

\* Once insertMemo is to return true, a new connection finds the memo, with the
\* tags of the request.
InsertMemoDone ==
    pc = "return" /\ ret /\ call.op = "insertMemo" =>
        \E m \in MemoIds : disk.memo[m] = call.text /\ TagsOf(disk, m) = Named(call.tags)

\* Once updateMemo is to return true, a new connection finds the memo, if there
\* is one with that id, with the title and exactly the tags of the request.
UpdateMemoDone ==
    pc = "return" /\ ret /\ call.op = "updateMemo" /\ call.id \in Rows(disk.memo) =>
        disk.memo[call.id] = call.text /\ TagsOf(disk, call.id) = Named(call.tags)

\* Once updateTag or insertTag is to return true, a new connection finds the name.
TagDone ==
    pc = "return" /\ ret =>
        /\ call.op = "insertTag" => \E t \in TagIds : disk.tag[t] = call.text
        /\ call.op = "updateTag" => disk.tag[call.id] \in {call.text, NoRow}

\* Once a delete operation is to return true, a new connection finds neither the
\* row nor a Tagged row that refers to it.
DeleteDone ==
    pc = "return" /\ ret =>
        /\ call.op = "deleteMemo" => disk.memo[call.id] = NoRow /\ TagsOf(disk, call.id) = {}
        /\ call.op = "deleteTag" => /\ disk.tag[call.id] = NoRow
                                    /\ \A m \in MemoIds : call.id \notin TagsOf(disk, m)

\* An operation that returns true has done its work, and it is on the disk: a
\* crash after the reply cannot lose it.
TrueMeansDurable == InsertMemoDone /\ UpdateMemoDone /\ TagDone /\ DeleteDone

\* No statement in the middle of an operation reaches the disk, even when an
\* earlier COMMIT failed and left its transaction open (lines 150, 165, 192, 232,
\* 257 ignore the result): what a crash leaves is always the outcome of whole
\* operations.  Of an insertMemo that lost its transaction, the tags alone may get
\* there.
OnlyWholeOperationsOnDisk ==
    [][disk' # disk =>
          \/ pc \in {"commit", "InsertTag"}
          \/ /\ pc = "InsertMemoTagIds" /\ ~inTx /\ MayBeUndone
             /\ disk'.memo = disk.memo /\ disk'.tag = disk.tag]_vars

\* A memo carries a tag at most once, as long as no request repeats one: updateMemo
\* adds only the tags that are not there yet (lines 129-135).
NoRepeatedTag == \A m \in MemoIds, t \in TagIds : disk.tagged[m][t] =< 1

\* How far the operation is, for its caller.
Phase ==
    IF pc = "idle" THEN "idle"
    ELSE IF pc # "return" THEN "pending"
    ELSE IF ret THEN "applied" ELSE "refused"

\* The statements of an operation act as one: it takes effect at its COMMIT, at
\* once and completely, or never; see module MemoStore.
Store == INSTANCE MemoStore WITH
    Requests   <- Calls,
    NoRequest  <- NoCall,
    memos      <- disk.memo,
    tags       <- disk.tag,
    tagged     <- [m \in MemoIds |-> TagsOf(disk, m)],
    request    <- call,
    phase      <- Phase,
    degraded   <- faults > 0

ImplementsMemoStore == Store!Spec

=============================================================================
