--------------------------- MODULE Sqlite3Schema ---------------------------
(***************************************************************************)
(* The three tables of the memo database (src/db/Sqlite3Schema.cpp) and    *)
(* the integrity rules their CREATE TABLE statements declare.              *)
(*                                                                         *)
(* A row of Memo or Tag keeps the one attribute that constraints and       *)
(* lookups depend on, its UNIQUE text (title, name).  Description, color   *)
(* and timestamp are written by the same statements as the text and read   *)
(* by the list operations alone, whose rows (module Sqlite3Queries) have   *)
(* all the columns.                                                        *)
(***************************************************************************)
EXTENDS Naturals

CONSTANTS
    MemoIds,   \* values of Memo.id the instance can hand out (model bound)
    TagIds,    \* values of Tag.id the instance can hand out (model bound)
    Titles,    \* values of Memo.title
    Names,     \* values of Tag.name
    NoRow      \* "there is no row with this id"

ASSUME SchemaAssumption ==
    /\ MemoIds \subseteq Nat \ {0}
    /\ TagIds \subseteq Nat \ {0}
    /\ NoRow \notin Titles \cup Names

-----------------------------------------------------------------------------

\* MemoTable: id INTEGER PRIMARY KEY, title TEXT NOT NULL UNIQUE.
MemoTable == [MemoIds -> Titles \cup {NoRow}]

\* TagTable: id INTEGER PRIMARY KEY, name TEXT NOT NULL UNIQUE.
TagTable == [TagIds -> Names \cup {NoRow}]

\* TaggedTable: (memoId, tagId) rows without a key: how often each row occurs.
TaggedTable == [MemoIds -> [TagIds -> Nat]]

Tables == [memo : MemoTable, tag : TagTable, tagged : TaggedTable]

\* What Create() leaves in a new database file.
EmptyTables ==
    [memo   |-> [m \in MemoIds |-> NoRow],
     tag    |-> [t \in TagIds |-> NoRow],
     tagged |-> [m \in MemoIds |-> [t \in TagIds |-> 0]]]

\* The ids of the rows of a Memo or Tag table.
Rows(table) == {i \in DOMAIN table : table[i] # NoRow}

\* The tags of a memo, each counted once.
TagsOf(db, memoId) == {t \in TagIds : db.tagged[memoId][t] > 0}

-----------------------------------------------------------------------------

\* UNIQUE: no two rows of a table share their text.
Unique(table) == \A i, j \in Rows(table) : table[i] = table[j] => i = j

\* FOREIGN KEY: a Tagged row names a row of Memo and a row of Tag.
ForeignKeys(db) ==
    \A m \in MemoIds, t \in TagIds :
        db.tagged[m][t] > 0 => m \in Rows(db.memo) /\ t \in Rows(db.tag)

Integrity(db) == Unique(db.memo) /\ Unique(db.tag) /\ ForeignKeys(db)

=============================================================================
