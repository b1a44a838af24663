-------------------------- MODULE Sqlite3Functions --------------------------
(***************************************************************************)
(* The SQL statements the database layer issues (src/db/Sqlite3Functions   *)
(* and the DELETEs of Sqlite3Database.cpp), each as what it reads or what  *)
(* it makes of the tables.  "Can..." is when SQLite accepts a statement:   *)
(* its constraints hold after it (UNIQUE always, FOREIGN KEY only on a     *)
(* connection that switched the enforcement on).  A refused statement      *)
(* changes nothing and leaves its transaction open.                        *)
(***************************************************************************)
EXTENDS Sqlite3Schema

CONSTANT Like   \* the <<pattern, title>> pairs for which "title LIKE 'pattern'" holds

\* LIKE ignores the case of ASCII letters and reads % and _ in the pattern as
\* wildcards; whatever it matches besides, a title always matches itself.
ASSUME LikeAssumption ==
    /\ Like \subseteq Titles \X Titles
    /\ \A title \in Titles : <<title, title>> \in Like

\* SelectMemoId's -1ul: an id no row has.
NoMemoId == 0

\* The id SQLite gives a new row of a table with an INTEGER PRIMARY KEY (and no
\* AUTOINCREMENT): one more than the largest id in the table, 1 when it is empty.
IsNextId(table, id) ==
    /\ \A i \in Rows(table) : i < id
    /\ id - 1 \in Rows(table) \cup {0}

-----------------------------------------------------------------------------

\* The ids whose title matches the title LIKE-wise.
MatchingMemoIds(db, title) ==
    {m \in Rows(db.memo) : <<title, db.memo[m]>> \in Like}

\* SelectMemoId: the id in the first row of the result.  The SELECT has no ORDER
\* BY, so any matching row may come first.
IsSelectedMemoId(db, title, id) ==
    \/ id \in MatchingMemoIds(db, title)
    \/ id = NoMemoId /\ MatchingMemoIds(db, title) = {}

\* SelectMemoTagIds, after the caller has put the rows in a std::set.
SelectMemoTagIds(db, memoId) == TagsOf(db, memoId)

-----------------------------------------------------------------------------

\* No other row of the table has the text.
IsFree(table, text, id) == \A i \in Rows(table) : table[i] = text => i = id

CanInsertRow(table, text, id) == IsNextId(table, id) /\ \A i \in Rows(table) : table[i] # text

\* UPDATE ... WHERE id = id: no row, no effect and no constraint to break.
CanUpdateRow(table, text, id) == id \in Rows(table) => IsFree(table, text, id)

UpdateRow(table, text, id) ==
    IF id \in Rows(table) THEN [table EXCEPT ![id] = text] ELSE table

InsertMemo(db, title, id) == [db EXCEPT !.memo[id] = title]

InsertTag(db, name, id) == [db EXCEPT !.tag[id] = name]

UpdateMemoTable(db, title, id) == [db EXCEPT !.memo = UpdateRow(@, title, id)]

UpdateTagTable(db, name, id) == [db EXCEPT !.tag = UpdateRow(@, name, id)]

\* InsertMemoTagIds: one INSERT with a row for every copy of a tag id.
CanInsertMemoTagIds(db, memoId, copies, enforced) ==
    enforced => \A t \in TagIds :
        copies[t] > 0 => memoId \in Rows(db.memo) /\ t \in Rows(db.tag)

InsertMemoTagIds(db, memoId, copies) ==
    [db EXCEPT !.tagged[memoId] = [t \in TagIds |-> @[t] + copies[t]]]

\* DeleteMemoTagIds: all copies of the tags go.
DeleteMemoTagIds(db, memoId, tagIds) ==
    [db EXCEPT !.tagged[memoId] = [t \in TagIds |-> IF t \in tagIds THEN 0 ELSE @[t]]]

\* deleteMemo's and deleteTag's statements.
DeleteTaggedOfMemo(db, memoId) ==
    [db EXCEPT !.tagged[memoId] = [t \in TagIds |-> 0]]

DeleteTaggedOfTag(db, tagId) ==
    [db EXCEPT !.tagged = [m \in MemoIds |-> [@[m] EXCEPT ![tagId] = 0]]]

CanDeleteMemo(db, memoId, enforced) == enforced => TagsOf(db, memoId) = {}

CanDeleteTag(db, tagId, enforced) == enforced => \A m \in MemoIds : tagId \notin TagsOf(db, m)

DeleteMemo(db, memoId) == [db EXCEPT !.memo[memoId] = NoRow]

DeleteTag(db, tagId) == [db EXCEPT !.tag[tagId] = NoRow]

=============================================================================
