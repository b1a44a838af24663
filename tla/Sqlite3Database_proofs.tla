----------------------- MODULE Sqlite3Database_proofs -----------------------
(***************************************************************************)
(* What TLAPS proves of modules Sqlite3Functions and Sqlite3Database, for  *)
(* every choice of their constants: the statements yield well-typed tables *)
(* and those SQLite accepts keep the integrity the schema declares; so     *)
(* does every step of the database's operations.  As long as Dependable    *)
(* holds, the operations act as the atomic store of module MemoStore, and  *)
(* what they report is on the disk, for any ids, texts, requests, failing  *)
(* reads and writes, and kills.                                            *)
(***************************************************************************)
EXTENDS Sqlite3Database, WellFoundedInduction, TLAPS

-----------------------------------------------------------------------------
(* The statements keep the tables well typed. *)

LEMMA EmptyTablesType == EmptyTables \in Tables
  BY DEF EmptyTables, Tables, MemoTable, TagTable, TaggedTable

\* InsertMemo and InsertTag (Sqlite3Functions.cpp, 89-114) yield tables.
LEMMA InsertType ==
  ASSUME NEW db \in Tables
  PROVE  /\ \A text \in Titles, id \in MemoIds : InsertMemo(db, text, id) \in Tables
         /\ \A text \in Names, id \in TagIds : InsertTag(db, text, id) \in Tables
  BY DEF Tables, MemoTable, TagTable, TaggedTable, InsertMemo, InsertTag

\* UpdateMemoTable and UpdateTagTable (46-73) yield tables.
LEMMA UpdateType ==
  ASSUME NEW db \in Tables
  PROVE  /\ \A text \in Titles, id \in MemoIds : UpdateMemoTable(db, text, id) \in Tables
         /\ \A text \in Names, id \in TagIds : UpdateTagTable(db, text, id) \in Tables
  BY DEF Tables, MemoTable, TagTable, TaggedTable, UpdateMemoTable, UpdateTagTable, UpdateRow

\* InsertMemoTagIds and DeleteMemoTagIds (116-145) yield tables.
LEMMA TaggedType ==
  ASSUME NEW db \in Tables, NEW id \in MemoIds
  PROVE  /\ \A copies \in [TagIds -> Nat] : InsertMemoTagIds(db, id, copies) \in Tables
         /\ \A tagIds \in SUBSET TagIds : DeleteMemoTagIds(db, id, tagIds) \in Tables
  <1>1. ASSUME NEW copies \in [TagIds -> Nat]
        PROVE  InsertMemoTagIds(db, id, copies) \in Tables
    <2> DEFINE row == [t \in TagIds |-> db.tagged[id][t] + copies[t]]
    <2>1. row \in [TagIds -> Nat]
      BY DEF Tables, TaggedTable
    <2>2. InsertMemoTagIds(db, id, copies) = [db EXCEPT !.tagged = [@ EXCEPT ![id] = row]]
      BY DEF InsertMemoTagIds
    <2>3. [db.tagged EXCEPT ![id] = row] \in TaggedTable
      BY <2>1 DEF Tables, TaggedTable
    <2> QED BY <2>2, <2>3 DEF Tables
  <1>2. ASSUME NEW tagIds \in SUBSET TagIds
        PROVE  DeleteMemoTagIds(db, id, tagIds) \in Tables
    <2> DEFINE row == [t \in TagIds |-> IF t \in tagIds THEN 0 ELSE db.tagged[id][t]]
    <2>1. row \in [TagIds -> Nat]
      BY DEF Tables, TaggedTable
    <2>2. DeleteMemoTagIds(db, id, tagIds) = [db EXCEPT !.tagged = [@ EXCEPT ![id] = row]]
      BY DEF DeleteMemoTagIds
    <2>3. [db.tagged EXCEPT ![id] = row] \in TaggedTable
      BY <2>1 DEF Tables, TaggedTable
    <2> QED BY <2>2, <2>3 DEF Tables
  <1> QED BY <1>1, <1>2

\* The statements of deleteMemo and deleteTag yield tables.
LEMMA DeleteType ==
  ASSUME NEW db \in Tables
  PROVE  /\ \A id \in MemoIds : DeleteTaggedOfMemo(db, id) \in Tables
         /\ \A id \in TagIds : DeleteTaggedOfTag(db, id) \in Tables
         /\ \A id \in MemoIds : DeleteMemo(db, id) \in Tables
         /\ \A id \in TagIds : DeleteTag(db, id) \in Tables
  <1> USE DEF Tables, MemoTable, TagTable, TaggedTable
  <1>1. \A id \in MemoIds : DeleteTaggedOfMemo(db, id) \in Tables
    BY DEF DeleteTaggedOfMemo
  <1>2. \A id \in TagIds : DeleteTaggedOfTag(db, id) \in Tables
    BY DEF DeleteTaggedOfTag
  <1>3. \A id \in MemoIds : DeleteMemo(db, id) \in Tables
    BY DEF DeleteMemo
  <1>4. \A id \in TagIds : DeleteTag(db, id) \in Tables
    BY DEF DeleteTag
  <1> QED BY <1>1, <1>2, <1>3, <1>4

-----------------------------------------------------------------------------
(* The statements SQLite accepts keep unique texts unique. *)

LEMMA EmptyTablesIntegrity == Integrity(EmptyTables)
  BY DEF EmptyTables, Integrity, Unique, ForeignKeys, Rows

\* A row inserted under a new id with a text of its own.
LEMMA InsertUnique ==
  ASSUME NEW table, NEW id \in DOMAIN table, NEW text, text # NoRow,
         Unique(table), CanInsertRow(table, text, id)
  PROVE  /\ Unique([table EXCEPT ![id] = text])
         /\ Rows([table EXCEPT ![id] = text]) = Rows(table) \cup {id}
  BY DEF Unique, Rows, CanInsertRow

\* UPDATE keeps the set of rows, and its text is free.
LEMMA UpdateUnique ==
  ASSUME NEW table, NEW id, NEW text, text # NoRow, Unique(table), CanUpdateRow(table, text, id)
  PROVE  /\ Unique(UpdateRow(table, text, id))
         /\ Rows(UpdateRow(table, text, id)) = Rows(table)
  <1>1. CASE id \in Rows(table)
    BY <1>1 DEF Unique, Rows, CanUpdateRow, UpdateRow, IsFree
  <1>2. CASE id \notin Rows(table)
    BY <1>2 DEF UpdateRow
  <1> QED BY <1>1, <1>2

LEMMA DeleteUnique ==
  ASSUME NEW table, NEW id \in DOMAIN table, Unique(table)
  PROVE  /\ Unique([table EXCEPT ![id] = NoRow])
         /\ Rows([table EXCEPT ![id] = NoRow]) = Rows(table) \ {id}
  BY DEF Unique, Rows

-----------------------------------------------------------------------------
(* The statements SQLite accepts keep the tables' integrity, those that     *)
(* touch the Tagged table or delete a row as long as foreign keys are       *)
(* enforced.                                                                *)

LEMMA InsertMemoIntegrity ==
  ASSUME NEW db \in Tables, NEW text \in Titles, NEW id \in MemoIds,
         Integrity(db), CanInsertRow(db.memo, text, id)
  PROVE  Integrity(InsertMemo(db, text, id))
  <1> DEFINE table == [db.memo EXCEPT ![id] = text]
  <1>1. Unique(table) /\ Rows(table) = Rows(db.memo) \cup {id}
    <2>1. DOMAIN db.memo = MemoIds /\ Unique(db.memo)
      BY DEF Tables, MemoTable, Integrity
    <2>2. text # NoRow
      BY SchemaAssumption
    <2> QED BY <2>1, <2>2, InsertUnique
  <1>2. InsertMemo(db, text, id) = [db EXCEPT !.memo = table]
    BY DEF InsertMemo, Tables
  <1> HIDE DEF table
  <1> QED BY <1>1, <1>2 DEF Integrity, ForeignKeys, Tables

LEMMA InsertTagIntegrity ==
  ASSUME NEW db \in Tables, NEW text \in Names, NEW id \in TagIds,
         Integrity(db), CanInsertRow(db.tag, text, id)
  PROVE  Integrity(InsertTag(db, text, id))
  <1> DEFINE table == [db.tag EXCEPT ![id] = text]
  <1>1. Unique(table) /\ Rows(table) = Rows(db.tag) \cup {id}
    <2>1. DOMAIN db.tag = TagIds /\ Unique(db.tag)
      BY DEF Tables, TagTable, Integrity
    <2>2. text # NoRow
      BY SchemaAssumption
    <2> QED BY <2>1, <2>2, InsertUnique
  <1>2. InsertTag(db, text, id) = [db EXCEPT !.tag = table]
    BY DEF InsertTag, Tables
  <1> HIDE DEF table
  <1> QED BY <1>1, <1>2 DEF Integrity, ForeignKeys, Tables

LEMMA UpdateMemoTableIntegrity ==
  ASSUME NEW db \in Tables, NEW text \in Titles, NEW id \in MemoIds,
         Integrity(db), CanUpdateRow(db.memo, text, id)
  PROVE  Integrity(UpdateMemoTable(db, text, id))
  <1>1. /\ Unique(UpdateRow(db.memo, text, id))
        /\ Rows(UpdateRow(db.memo, text, id)) = Rows(db.memo)
    BY UpdateUnique, SchemaAssumption DEF Integrity
  <1> QED BY <1>1 DEF UpdateMemoTable, Integrity, ForeignKeys, Tables

LEMMA UpdateTagTableIntegrity ==
  ASSUME NEW db \in Tables, NEW text \in Names, NEW id \in TagIds,
         Integrity(db), CanUpdateRow(db.tag, text, id)
  PROVE  Integrity(UpdateTagTable(db, text, id))
  <1>1. /\ Unique(UpdateRow(db.tag, text, id))
        /\ Rows(UpdateRow(db.tag, text, id)) = Rows(db.tag)
    BY UpdateUnique, SchemaAssumption DEF Integrity
  <1> QED BY <1>1 DEF UpdateTagTable, Integrity, ForeignKeys, Tables

LEMMA InsertMemoTagIdsIntegrity ==
  ASSUME NEW db \in Tables, NEW id \in MemoIds, NEW copies \in [TagIds -> Nat],
         Integrity(db), CanInsertMemoTagIds(db, id, copies, TRUE)
  PROVE  Integrity(InsertMemoTagIds(db, id, copies))
  <1> DEFINE new == InsertMemoTagIds(db, id, copies)
  <1>1. new.memo = db.memo /\ new.tag = db.tag
    BY DEF InsertMemoTagIds, Tables
  <1>2. \A m \in MemoIds, t \in TagIds :
           new.tagged[m][t] = db.tagged[m][t] + (IF m = id THEN copies[t] ELSE 0)
    BY DEF InsertMemoTagIds, Tables, TaggedTable
  <1>3. \A m \in MemoIds, t \in TagIds :
           new.tagged[m][t] > 0 => db.tagged[m][t] > 0 \/ (m = id /\ copies[t] > 0)
    BY <1>2 DEF Tables, TaggedTable
  <1> HIDE DEF new
  <1>4. ForeignKeys(new)
    BY <1>1, <1>3 DEF Integrity, ForeignKeys, CanInsertMemoTagIds
  <1> QED BY <1>1, <1>4 DEF Integrity, new

\* A statement that only takes rows from the Tagged table.
LEMMA FewerTaggedIntegrity ==
  ASSUME NEW db \in Tables, Integrity(db), NEW new,
         new.memo = db.memo, new.tag = db.tag,
         \A m \in MemoIds, t \in TagIds : new.tagged[m][t] \in {db.tagged[m][t], 0}
  PROVE  Integrity(new)
  BY DEF Integrity, ForeignKeys

LEMMA DeleteTaggedIntegrity ==
  ASSUME NEW db \in Tables, Integrity(db)
  PROVE  /\ \A id \in MemoIds, tagIds \in SUBSET TagIds :
                Integrity(DeleteMemoTagIds(db, id, tagIds))
         /\ \A id \in MemoIds : Integrity(DeleteTaggedOfMemo(db, id))
         /\ \A id \in TagIds : Integrity(DeleteTaggedOfTag(db, id))
  <1>1. ASSUME NEW id \in MemoIds, NEW tagIds \in SUBSET TagIds
        PROVE  Integrity(DeleteMemoTagIds(db, id, tagIds))
    BY FewerTaggedIntegrity DEF DeleteMemoTagIds, Tables, TaggedTable
  <1>2. ASSUME NEW id \in MemoIds
        PROVE  Integrity(DeleteTaggedOfMemo(db, id))
    BY FewerTaggedIntegrity DEF DeleteTaggedOfMemo, Tables, TaggedTable
  <1>3. ASSUME NEW id \in TagIds
        PROVE  Integrity(DeleteTaggedOfTag(db, id))
    BY FewerTaggedIntegrity DEF DeleteTaggedOfTag, Tables, TaggedTable
  <1> QED BY <1>1, <1>2, <1>3

LEMMA DeleteMemoIntegrity ==
  ASSUME NEW db \in Tables, NEW id \in MemoIds, Integrity(db), CanDeleteMemo(db, id, TRUE)
  PROVE  Integrity(DeleteMemo(db, id))
  <1> DEFINE table == [db.memo EXCEPT ![id] = NoRow]
  <1>1. Unique(table) /\ Rows(table) = Rows(db.memo) \ {id}
    <2>1. DOMAIN db.memo = MemoIds /\ Unique(db.memo)
      BY DEF Tables, MemoTable, Integrity
    <2> QED BY <2>1, DeleteUnique
  <1>2. DeleteMemo(db, id) = [db EXCEPT !.memo = table]
    BY DEF DeleteMemo, Tables
  <1> HIDE DEF table
  <1> QED BY <1>1, <1>2 DEF Integrity, ForeignKeys, Tables, CanDeleteMemo, TagsOf

LEMMA DeleteTagIntegrity ==
  ASSUME NEW db \in Tables, NEW id \in TagIds, Integrity(db), CanDeleteTag(db, id, TRUE)
  PROVE  Integrity(DeleteTag(db, id))
  <1> DEFINE table == [db.tag EXCEPT ![id] = NoRow]
  <1>1. Unique(table) /\ Rows(table) = Rows(db.tag) \ {id}
    <2>1. DOMAIN db.tag = TagIds /\ Unique(db.tag)
      BY DEF Tables, TagTable, Integrity
    <2> QED BY <2>1, DeleteUnique
  <1>2. DeleteTag(db, id) = [db EXCEPT !.tag = table]
    BY DEF DeleteTag, Tables
  <1> HIDE DEF table
  <1> QED BY <1>1, <1>2 DEF Integrity, ForeignKeys, Tables, CanDeleteTag, TagsOf

-----------------------------------------------------------------------------
\* What updateMemo's lambda selects is a list of tag ids again.
LEMMA TagIdsToAddType ==
  ASSUME NEW old \in SUBSET TagIds, NEW tags \in TagLists
  PROVE  TagIdsToAdd(old, tags) \in [TagIds -> Nat]
  BY DatabaseAssumption DEF TagIdsToAdd

(* Type correctness. *)

\* The three groups of variables a step can disturb.
StoreOK == disk \in Tables /\ work \in Tables /\ inTx \in BOOLEAN /\ faults \in Nat

LocalOK ==
    /\ conn \in {"down", "open", "failed"} /\ enforced \in BOOLEAN
    /\ oldTagIds \subseteq TagIds
    /\ memoId \in MemoIds \cup {NoMemoId}
    /\ inserted \in BOOLEAN
    /\ ret \in BOOLEAN
    /\ call \in Calls \cup {NoCall}

ControlOK == pc \in Pcs /\ PcMatchesCall

LEMMA TypeOKParts == TypeOK <=> StoreOK /\ LocalOK /\ ControlOK
  BY DEF TypeOK, StoreOK, LocalOK, ControlOK

LEMMA FaultType ==
  ASSUME faults \in Nat, NEW kind, Fault(kind)
  PROVE  faults' \in Nat
  BY DEF Fault

LEMMA UndoneType ==
  ASSUME StoreOK, Undone
  PROVE  (disk \in Tables /\ work \in Tables /\ inTx \in BOOLEAN)'
  BY DEF StoreOK, Undone, RolledBack, store

\* A statement that yields tables keeps the store well typed, whatever its outcome.
LEMMA OutcomeType ==
  ASSUME StoreOK, NEW db \in Tables,
         \/ Write(db) /\ UNCHANGED faults
         \/ UNCHANGED <<store, faults>>
         \/ Fault("write") /\ Undone
  PROVE  StoreOK'
  <1>1. CASE Write(db) /\ UNCHANGED faults
    BY <1>1 DEF Write, StoreOK
  <1>2. CASE UNCHANGED <<store, faults>>
    BY <1>2 DEF StoreOK, store
  <1>3. CASE Fault("write") /\ Undone
    BY <1>3, FaultType, UndoneType DEF StoreOK
  <1> QED BY <1>1, <1>2, <1>3

LEMMA ExecType ==
  ASSUME StoreOK, NEW db \in Tables, NEW accepted, Succeeds(accepted, db) \/ Fails(accepted)
  PROVE  StoreOK'
  BY OutcomeType DEF Succeeds, Fails

LEMMA SelectFailsType ==
  ASSUME StoreOK, SelectFails
  PROVE  StoreOK'
  BY FaultType, UndoneType DEF SelectFails, StoreOK, store

\* What a broken-off SELECT has read is the id of a memo.
LEMMA SelectBreaksOffType ==
  ASSUME StoreOK, SelectBreaksOff
  PROVE  StoreOK' /\ \A title : MatchingMemoIds(work, title) \subseteq MemoIds
  <1>1. Undone /\ faults' \in Nat
    BY FaultType DEF SelectBreaksOff, Undone, StoreOK
  <1>2. StoreOK'
    BY <1>1, UndoneType DEF StoreOK
  <1>3. \A title : MatchingMemoIds(work, title) \subseteq MemoIds
    BY DEF StoreOK, MatchingMemoIds, Rows, Tables, MemoTable
  <1> QED BY <1>2, <1>3

\* The type invariant and the match of statement and operation (PcMatchesCall) are
\* kept by every step.
LEMMA TypeStep == TypeOK /\ [Next]_vars => TypeOK'
<1> SUFFICES ASSUME StoreOK, LocalOK, ControlOK, [Next]_vars
             PROVE  StoreOK' /\ LocalOK' /\ ControlOK'
  BY DEF TypeOK, StoreOK, LocalOK, ControlOK
<1> USE DEF ControlOK, PcMatchesCall, local, link
<1> USE DEF Pcs, UpdateMemoPcs, InsertMemoPcs, DeleteMemoPcs, DeleteTagPcs
<1>1. CASE Open
  <2>1. StoreOK'
    BY <1>1, FaultType DEF Open, StoreOK, store
  <2>2. LocalOK'
    BY <1>1 DEF Open, LocalOK
  <2>3. ControlOK'
    BY <1>1 DEF Open
  <2> QED BY <2>1, <2>2, <2>3
<1>2. CASE Crash
  <2>1. StoreOK'
    BY <1>2 DEF Crash, StoreOK
  <2>2. LocalOK'
    BY <1>2 DEF Crash, LocalOK
  <2>3. ControlOK'
    BY <1>2 DEF Crash
  <2> QED BY <2>1, <2>2, <2>3
<1>3. CASE Call
  <2>1. \A c \in Calls : c.op = "insertTag" <=> c \in InsertTagCalls
    BY DEF Calls, UpdateMemoCalls, UpdateTagCalls, InsertMemoCalls, InsertTagCalls,
           DeleteMemoCalls, DeleteTagCalls
  <2>2. StoreOK'
    BY <1>3 DEF Call, StoreOK, store
  <2>3. LocalOK'
    BY <1>3 DEF Call, LocalOK
  <2>4. ControlOK'
    BY <1>3, <2>1 DEF Call
  <2> QED BY <2>2, <2>3, <2>4
<1>4. CASE Begin
  <2>1. pc' = FirstStatement(call.op) /\ call \in Calls \ InsertTagCalls
    BY <1>4 DEF Begin
  <2>2. \/ pc' = "SelectMemoTagIds" /\ call \in UpdateMemoCalls
        \/ pc' = "UpdateTagTable" /\ call \in UpdateTagCalls
        \/ pc' = "InsertMemo" /\ call \in InsertMemoCalls
        \/ pc' = "DeleteTaggedOfMemo" /\ call \in DeleteMemoCalls
        \/ pc' = "DeleteTaggedOfTag" /\ call \in DeleteTagCalls
    BY <2>1 DEF FirstStatement, Calls, UpdateMemoCalls, UpdateTagCalls, InsertMemoCalls,
       DeleteMemoCalls, DeleteTagCalls
  <2>3. StoreOK'
    BY <1>4 DEF Begin, StoreOK
  <2>4. LocalOK'
    BY <1>4 DEF Begin, LocalOK
  <2>5. ControlOK'
    BY <1>4, <2>2 DEF Begin
  <2> QED BY <2>3, <2>4, <2>5
<1>5. CASE Commit
  <2>1. StoreOK'
    BY <1>5, FaultType, UndoneType DEF Commit, StoreOK, store
  <2>2. LocalOK'
    BY <1>5 DEF Commit, LocalOK
  <2>3. ControlOK'
    BY <1>5 DEF Commit
  <2> QED BY <2>1, <2>2, <2>3
<1>6. CASE Rollback
  <2>1. StoreOK'
    BY <1>6 DEF Rollback, StoreOK
  <2>2. LocalOK'
    BY <1>6 DEF Rollback, LocalOK
  <2>3. ControlOK'
    BY <1>6 DEF Rollback
  <2> QED BY <2>1, <2>2, <2>3
<1>7. CASE Return
  <2>1. StoreOK'
    BY <1>7 DEF Return, StoreOK, store
  <2>2. LocalOK'
    BY <1>7 DEF Return, LocalOK
  <2>3. ControlOK'
    BY <1>7 DEF Return
  <2> QED BY <2>1, <2>2, <2>3
<1>8. CASE StepSelectMemoTagIds
  <2>1. StoreOK'
    BY <1>8, SelectFailsType DEF StepSelectMemoTagIds, StoreOK, store
  <2>2. LocalOK'
    BY <1>8 DEF StepSelectMemoTagIds, SelectMemoTagIds, TagsOf, LocalOK
  <2>3. ControlOK'
    BY <1>8 DEF StepSelectMemoTagIds
  <2> QED BY <2>1, <2>2, <2>3
<1>9. CASE StepDeleteMemoTagIds
  <2>1. DeleteMemoTagIds(work, call.id, TagIdsToDelete(oldTagIds, call.tags)) \in Tables
    BY <1>9, TaggedType DEF StepDeleteMemoTagIds, TagIdsToDelete, UpdateMemoCalls, LocalOK, StoreOK
  <2>2. StoreOK'
    BY <1>9, <2>1, ExecType DEF StepDeleteMemoTagIds, Exec, StoreOK, store
  <2>3. LocalOK'
    BY <1>9 DEF StepDeleteMemoTagIds, LocalOK
  <2>4. ControlOK'
    BY <1>9 DEF StepDeleteMemoTagIds, Exec
  <2> QED BY <2>2, <2>3, <2>4
<1>10. CASE StepAddMemoTagIds
  <2>1. InsertMemoTagIds(work, call.id, TagIdsToAdd(oldTagIds, call.tags)) \in Tables
    BY <1>10, TaggedType, TagIdsToAddType DEF StepAddMemoTagIds, UpdateMemoCalls, LocalOK, StoreOK
  <2>2. StoreOK'
    BY <1>10, <2>1, ExecType DEF StepAddMemoTagIds, ExecInsertMemoTagIds, Exec, StoreOK, store
  <2>3. LocalOK'
    BY <1>10 DEF StepAddMemoTagIds, LocalOK
  <2>4. ControlOK'
    BY <1>10 DEF StepAddMemoTagIds, ExecInsertMemoTagIds, Exec
  <2> QED BY <2>2, <2>3, <2>4
<1>11. CASE StepUpdateMemoTable
  <2>1. UpdateMemoTable(work, call.text, call.id) \in Tables
    BY <1>11, UpdateType DEF StepUpdateMemoTable, UpdateMemoCalls, StoreOK
  <2>2. StoreOK'
    BY <1>11, <2>1, ExecType DEF StepUpdateMemoTable, Exec, StoreOK, store
  <2>3. LocalOK'
    BY <1>11 DEF StepUpdateMemoTable, LocalOK
  <2>4. ControlOK'
    BY <1>11 DEF StepUpdateMemoTable, Exec
  <2> QED BY <2>2, <2>3, <2>4
<1>12. CASE StepUpdateTagTable
  <2>1. UpdateTagTable(work, call.text, call.id) \in Tables
    BY <1>12, UpdateType DEF StepUpdateTagTable, UpdateTagCalls, StoreOK
  <2>2. StoreOK'
    BY <1>12, <2>1, ExecType DEF StepUpdateTagTable, Exec, StoreOK, store
  <2>3. LocalOK'
    BY <1>12 DEF StepUpdateTagTable, LocalOK
  <2>4. ControlOK'
    BY <1>12 DEF StepUpdateTagTable, Exec
  <2> QED BY <2>2, <2>3, <2>4
<1>13. CASE StepInsertMemo
  <2>1. \A id \in MemoIds : InsertMemo(work, call.text, id) \in Tables
    BY <1>13, InsertType DEF StepInsertMemo, InsertMemoCalls, StoreOK
  <2>2. \/ \E id \in MemoIds : Write(InsertMemo(work, call.text, id)) /\ UNCHANGED faults
        \/ UNCHANGED <<store, faults>> \/ (Fault("write") /\ Undone)
    BY <1>13 DEF StepInsertMemo, Succeeds, Fails
  <2>3. (\E db \in Tables : Write(db) /\ UNCHANGED faults)
        \/ UNCHANGED <<store, faults>> \/ (Fault("write") /\ Undone)
    BY <2>1, <2>2
  <2>4. StoreOK'
    BY <2>3, EmptyTablesType, OutcomeType
  <2>5. LocalOK'
    BY <1>13 DEF StepInsertMemo, LocalOK
  <2>6. ControlOK'
    BY <1>13 DEF StepInsertMemo
  <2> QED BY <2>4, <2>5, <2>6
<1>14. CASE StepSelectMemoId
  <2>1. StoreOK'
    BY <1>14, SelectFailsType, SelectBreaksOffType DEF StepSelectMemoId, StoreOK, store
  <2>2. memoId' \in MemoIds \cup {NoMemoId}
    BY <1>14, SelectBreaksOffType DEF StepSelectMemoId
  <2>3. LocalOK' /\ ControlOK'
    BY <1>14, <2>2 DEF StepSelectMemoId, LocalOK
  <2> QED BY <2>1, <2>2, <2>3
<1>15. CASE StepInsertMemoTagIds
  <2>1. InsertMemoTagIds(work, memoId, call.tags) \in Tables
    BY <1>15, TaggedType, DatabaseAssumption DEF StepInsertMemoTagIds, InsertMemoCalls, StoreOK
  <2>2. StoreOK'
    BY <1>15, <2>1, ExecType DEF StepInsertMemoTagIds, ExecInsertMemoTagIds, Exec, StoreOK, store
  <2>3. LocalOK'
    BY <1>15 DEF StepInsertMemoTagIds, LocalOK
  <2>4. ControlOK'
    BY <1>15 DEF StepInsertMemoTagIds, ExecInsertMemoTagIds, Exec
  <2> QED BY <2>2, <2>3, <2>4
<1>16. CASE StepInsertTag
  <2>1. \A id \in TagIds : InsertTag(work, call.text, id) \in Tables
    BY <1>16, InsertType DEF StepInsertTag, InsertTagCalls, StoreOK
  <2>2. \/ \E id \in TagIds : Write(InsertTag(work, call.text, id)) /\ UNCHANGED faults
        \/ UNCHANGED <<store, faults>> \/ (Fault("write") /\ Undone)
    BY <1>16 DEF StepInsertTag, Succeeds, Fails
  <2>3. (\E db \in Tables : Write(db) /\ UNCHANGED faults)
        \/ UNCHANGED <<store, faults>> \/ (Fault("write") /\ Undone)
    BY <2>1, <2>2
  <2>4. StoreOK'
    BY <2>3, EmptyTablesType, OutcomeType
  <2>5. LocalOK'
    BY <1>16 DEF StepInsertTag, LocalOK
  <2>6. ControlOK'
    BY <1>16 DEF StepInsertTag
  <2> QED BY <2>4, <2>5, <2>6
<1>17. CASE StepDeleteTaggedOfMemo
  <2>1. DeleteTaggedOfMemo(work, call.id) \in Tables
    BY <1>17, DeleteType DEF StepDeleteTaggedOfMemo, DeleteMemoCalls, StoreOK
  <2>2. StoreOK'
    BY <1>17, <2>1, ExecType DEF StepDeleteTaggedOfMemo, Exec, StoreOK, store
  <2>3. LocalOK'
    BY <1>17 DEF StepDeleteTaggedOfMemo, LocalOK
  <2>4. ControlOK'
    BY <1>17 DEF StepDeleteTaggedOfMemo, Exec
  <2> QED BY <2>2, <2>3, <2>4
<1>18. CASE StepDeleteMemo
  <2>1. DeleteMemo(work, call.id) \in Tables
    BY <1>18, DeleteType DEF StepDeleteMemo, DeleteMemoCalls, StoreOK
  <2>2. StoreOK'
    BY <1>18, <2>1, ExecType DEF StepDeleteMemo, Exec, StoreOK, store
  <2>3. LocalOK'
    BY <1>18 DEF StepDeleteMemo, LocalOK
  <2>4. ControlOK'
    BY <1>18 DEF StepDeleteMemo, Exec
  <2> QED BY <2>2, <2>3, <2>4
<1>19. CASE StepDeleteTaggedOfTag
  <2>1. DeleteTaggedOfTag(work, call.id) \in Tables
    BY <1>19, DeleteType DEF StepDeleteTaggedOfTag, DeleteTagCalls, StoreOK
  <2>2. StoreOK'
    BY <1>19, <2>1, ExecType DEF StepDeleteTaggedOfTag, Exec, StoreOK, store
  <2>3. LocalOK'
    BY <1>19 DEF StepDeleteTaggedOfTag, LocalOK
  <2>4. ControlOK'
    BY <1>19 DEF StepDeleteTaggedOfTag, Exec
  <2> QED BY <2>2, <2>3, <2>4
<1>20. CASE StepDeleteTag
  <2>1. DeleteTag(work, call.id) \in Tables
    BY <1>20, DeleteType DEF StepDeleteTag, DeleteTagCalls, StoreOK
  <2>2. StoreOK'
    BY <1>20, <2>1, ExecType DEF StepDeleteTag, Exec, StoreOK, store
  <2>3. LocalOK'
    BY <1>20 DEF StepDeleteTag, LocalOK
  <2>4. ControlOK'
    BY <1>20 DEF StepDeleteTag, Exec
  <2> QED BY <2>2, <2>3, <2>4
<1>21. CASE UNCHANGED vars
  BY <1>21 DEF vars, store, StoreOK, LocalOK
<1> QED
  BY <1>1, <1>2, <1>3, <1>4, <1>5, <1>6, <1>7, <1>8, <1>9, <1>10, <1>11, <1>12,
     <1>13, <1>14, <1>15, <1>16, <1>17, <1>18, <1>19, <1>20, <1>21
     DEF Next, Advance, UpdateMemo, InsertMemoSteps, DeleteSteps

\* Every variable keeps its type, and the thread is always at a statement of the
\* operation it was asked for.
THEOREM TypeCorrect == Spec => []TypeOK
<1>1. Init => TypeOK
  <2>1. Init => StoreOK
    <3>1. Init => inTx \in BOOLEAN
      BY DEF Init
    <3>2. Init => faults \in Nat
      BY DEF Init
    <3>3. Init => disk = EmptyTables /\ work = EmptyTables
      BY DEF Init
    <3> QED BY <3>1, <3>2, <3>3, EmptyTablesType DEF StoreOK
  <2>2. Init => LocalOK /\ ControlOK
    BY DEF Init, LocalOK, ControlOK, PcMatchesCall, Pcs, UpdateMemoPcs, InsertMemoPcs,
       DeleteMemoPcs, DeleteTagPcs
  <2> QED BY <2>1, <2>2, TypeOKParts
<1>2. TypeOK /\ [Next]_vars => TypeOK'
  BY TypeStep
<1> QED
  BY <1>1, <1>2, PTL DEF Spec

-----------------------------------------------------------------------------
(* No statement in the middle of an operation reaches the disk, but for the  *)
(* tags of an insertMemo that lost its transaction.                         *)

\* Inside a transaction, or on a closed connection, a statement leaves the disk
\* alone, and a connection outside a transaction goes on seeing the disk.
TxKept ==
    /\ disk' = disk
    /\ ~inTx' => work' = disk'
    /\ inTx' => inTx

LEMMA ExecTx ==
  ASSUME ~inTx => work = disk, conn = "open" => inTx,
         NEW db, NEW accepted, Succeeds(accepted, db) \/ Fails(accepted)
  PROVE  TxKept
  BY DEF Succeeds, Fails, Write, Fault, Undone, RolledBack, store, TxKept

\* The tags of an insertMemo that goes on without its transaction.
TagsAlone ==
    /\ pc = "InsertMemoTagIds" /\ ~inTx /\ MayBeUndone
    /\ disk'.memo = disk.memo /\ disk'.tag = disk.tag

\* A broken-off SELECT leaves the transaction open, or it leaves a reason.
LEMMA BreakOffTx ==
  ASSUME SelectBreaksOff, faults \in Nat, ~inTx => work = disk
  PROVE  /\ disk' = disk
         /\ ~inTx' => work' = disk'
         /\ inTx' => inTx
         /\ inTx' = inTx \/ MayBeUndone'
  BY DEF SelectBreaksOff, Fault, RolledBack, MayBeUndone, store

\* A step keeps WritesInTransaction, and unless it is a COMMIT or insertTag's only
\* statement it leaves the disk alone, or has but tags to add to it.
LEMMA TxStep ==
  TypeOK /\ WritesInTransaction /\ [Next]_vars =>
    /\ WritesInTransaction'
    /\ disk' # disk => pc \in {"commit", "InsertTag"} \/ TagsAlone
<1> SUFFICES ASSUME TypeOK, WritesInTransaction, [Next]_vars
             PROVE  /\ WritesInTransaction'
                    /\ disk' # disk => pc \in {"commit", "InsertTag"} \/ TagsAlone
  OBVIOUS
<1> USE DEF WritesInTransaction, local, link
<1> USE DEF UpdateMemoPcs, InsertMemoPcs, DeleteMemoPcs, DeleteTagPcs
<1>1. CASE Open
  <2>1. conn = "down" /\ pc = "idle" /\ ~inTx /\ UNCHANGED <<disk, work, inTx, pc>>
    BY <1>1 DEF Open, store, TypeOK, PcMatchesCall
  <2> QED BY <2>1
<1>2. CASE Crash
  BY <1>2 DEF Crash
<1>3. CASE Call
  <2>1. pc' \in {"begin", "InsertTag"} /\ UNCHANGED <<disk, work, inTx, conn>>
    BY <1>3 DEF Call, store
  <2> QED BY <2>1
<1>4. CASE Begin
  <2>1. pc' \in {"SelectMemoTagIds", "UpdateTagTable", "InsertMemo",
                 "DeleteTaggedOfMemo", "DeleteTaggedOfTag"}
    BY <1>4 DEF Begin, FirstStatement, TypeOK, PcMatchesCall, Calls, UpdateMemoCalls,
       UpdateTagCalls, InsertMemoCalls, InsertTagCalls, DeleteMemoCalls, DeleteTagCalls
  <2> QED BY <1>4, <2>1 DEF Begin
<1>5. CASE Commit
  BY <1>5 DEF Commit, Fault, Undone, RolledBack, store
<1>6. CASE Rollback
  BY <1>6 DEF Rollback
<1>7. CASE Return
  BY <1>7 DEF Return, store
<1>8. CASE StepSelectMemoTagIds
  BY <1>8 DEF StepSelectMemoTagIds, SelectFails, Fault, Undone, RolledBack, store
<1>9. CASE StepDeleteMemoTagIds
  <2>1. TxKept
    BY <1>9, ExecTx DEF StepDeleteMemoTagIds, Exec, TxKept, store
  <2>2. pc' = "rollback" \/ (pc' = "AddMemoTagIds" /\ (conn = "open" => inTx'))
    BY <1>9 DEF StepDeleteMemoTagIds, Exec, Succeeds, Fails, Write, store
  <2> QED BY <1>9, <2>1, <2>2 DEF StepDeleteMemoTagIds, TxKept
<1>10. CASE StepAddMemoTagIds
  <2>1. TxKept
    BY <1>10, ExecTx DEF StepAddMemoTagIds, ExecInsertMemoTagIds, Exec, TxKept, store
  <2>2. pc' = "rollback" \/ (pc' = "UpdateMemoTable" /\ (conn = "open" => inTx'))
    BY <1>10 DEF StepAddMemoTagIds, ExecInsertMemoTagIds, Exec, Succeeds, Fails, Write, store
  <2> QED BY <1>10, <2>1, <2>2 DEF StepAddMemoTagIds, TxKept
<1>11. CASE StepUpdateMemoTable
  <2>1. TxKept
    BY <1>11, ExecTx DEF StepUpdateMemoTable, Exec, TxKept, store
  <2>2. pc' = "rollback" \/ (pc' = "commit" /\ (conn = "open" => inTx'))
    BY <1>11 DEF StepUpdateMemoTable, Exec, Succeeds, Fails, Write, store
  <2> QED BY <1>11, <2>1, <2>2 DEF StepUpdateMemoTable, TxKept
<1>12. CASE StepUpdateTagTable
  <2>1. TxKept
    BY <1>12, ExecTx DEF StepUpdateTagTable, Exec, TxKept, store
  <2>2. pc' = "rollback" \/ (pc' = "commit" /\ (conn = "open" => inTx'))
    BY <1>12 DEF StepUpdateTagTable, Exec, Succeeds, Fails, Write, store
  <2> QED BY <1>12, <2>1, <2>2 DEF StepUpdateTagTable, TxKept
<1>13. CASE StepInsertMemo
  BY <1>13 DEF StepInsertMemo, Succeeds, Fails, Write, Fault, Undone, RolledBack, store
<1>14. CASE StepSelectMemoId
  <2>1. /\ pc = "SelectMemoId" /\ UNCHANGED <<conn, inserted>>
        /\ pc' = IF ~inserted \/ memoId' = NoMemoId THEN "rollback" ELSE "InsertMemoTagIds"
    BY <1>14 DEF StepSelectMemoId
  <2>2. CASE UNCHANGED <<store, faults>>
    BY <2>1, <2>2 DEF store
  <2>3. CASE SelectFails /\ memoId' = NoMemoId
    BY <2>1, <2>3 DEF SelectFails, Fault, Undone, RolledBack, store
  <2>4. CASE SelectBreaksOff
    <3>1. /\ disk' = disk
          /\ ~inTx' => work' = disk'
          /\ inTx' => inTx
          /\ inTx' = inTx \/ MayBeUndone'
      BY <2>4, BreakOffTx DEF TypeOK
    <3> QED BY <2>1, <3>1
  <2> QED BY <1>14, <2>2, <2>3, <2>4 DEF StepSelectMemoId
<1>15. CASE StepInsertMemoTagIds
  <2>1. pc = "InsertMemoTagIds" /\ pc' \in {"rollback", "commit"} /\ UNCHANGED conn
    BY <1>15 DEF StepInsertMemoTagIds, ExecInsertMemoTagIds, Exec
  <2>2. CASE conn = "open" => inTx
    <3>1. TxKept
      BY <1>15, <2>2, ExecTx DEF StepInsertMemoTagIds, ExecInsertMemoTagIds, Exec, TxKept, store
    <3> QED BY <2>1, <3>1 DEF TxKept
  <2>3. CASE conn = "open" /\ ~inTx
    <3> DEFINE new == InsertMemoTagIds(work, memoId, call.tags)
    <3>1. new.memo = disk.memo /\ new.tag = disk.tag
      BY <2>3 DEF InsertMemoTagIds, TypeOK, Tables
    <3>2. /\ work' = disk' /\ ~inTx'
          /\ disk' = disk \/ disk' = new
      <4> HIDE DEF new
      <4> QED BY <1>15, <2>3 DEF StepInsertMemoTagIds, ExecInsertMemoTagIds, Exec, Succeeds,
                  Fails, Write, Undone, RolledBack, store, new
    <3> QED BY <2>1, <2>3, <3>1, <3>2 DEF TagsAlone
  <2> QED BY <2>2, <2>3
<1>16. CASE StepInsertTag
  BY <1>16 DEF StepInsertTag, Succeeds, Fails, Write, Fault, Undone, RolledBack, store
<1>17. CASE StepDeleteTaggedOfMemo
  <2>1. TxKept
    BY <1>17, ExecTx DEF StepDeleteTaggedOfMemo, Exec, TxKept, store
  <2>2. pc' = "rollback" \/ (pc' = "DeleteMemo" /\ (conn = "open" => inTx'))
    BY <1>17 DEF StepDeleteTaggedOfMemo, Exec, Succeeds, Fails, Write, store
  <2> QED BY <1>17, <2>1, <2>2 DEF StepDeleteTaggedOfMemo, TxKept
<1>18. CASE StepDeleteMemo
  <2>1. TxKept
    BY <1>18, ExecTx DEF StepDeleteMemo, Exec, TxKept, store
  <2>2. pc' = "rollback" \/ (pc' = "commit" /\ (conn = "open" => inTx'))
    BY <1>18 DEF StepDeleteMemo, Exec, Succeeds, Fails, Write, store
  <2> QED BY <1>18, <2>1, <2>2 DEF StepDeleteMemo, TxKept
<1>19. CASE StepDeleteTaggedOfTag
  <2>1. TxKept
    BY <1>19, ExecTx DEF StepDeleteTaggedOfTag, Exec, TxKept, store
  <2>2. pc' = "rollback" \/ (pc' = "DeleteTag" /\ (conn = "open" => inTx'))
    BY <1>19 DEF StepDeleteTaggedOfTag, Exec, Succeeds, Fails, Write, store
  <2> QED BY <1>19, <2>1, <2>2 DEF StepDeleteTaggedOfTag, TxKept
<1>20. CASE StepDeleteTag
  <2>1. TxKept
    BY <1>20, ExecTx DEF StepDeleteTag, Exec, TxKept, store
  <2>2. pc' = "rollback" \/ (pc' = "commit" /\ (conn = "open" => inTx'))
    BY <1>20 DEF StepDeleteTag, Exec, Succeeds, Fails, Write, store
  <2> QED BY <1>20, <2>1, <2>2 DEF StepDeleteTag, TxKept
<1>21. CASE UNCHANGED vars
  BY <1>21 DEF vars, store, MayBeUndone
<1> QED
  BY <1>1, <1>2, <1>3, <1>4, <1>5, <1>6, <1>7, <1>8, <1>9, <1>10, <1>11, <1>12,
     <1>13, <1>14, <1>15, <1>16, <1>17, <1>18, <1>19, <1>20, <1>21
     DEF Next, Advance, UpdateMemo, InsertMemoSteps, DeleteSteps

THEOREM TransactionDiscipline == Spec => []WritesInTransaction
<1>1. Init => WritesInTransaction
  BY DEF Init, WritesInTransaction, UpdateMemoPcs, DeleteMemoPcs, DeleteTagPcs
<1>2. TypeOK /\ WritesInTransaction /\ [Next]_vars => WritesInTransaction'
  BY TxStep
<1> QED
  BY <1>1, <1>2, TypeCorrect, PTL DEF Spec

\* However statements fail and whenever the process is killed, the disk changes only
\* at a COMMIT or at insertTag's single statement; only the tags of an insertMemo whose
\* transaction SQLite undid behind its back get there on their own.
THEOREM WholeOperations == Spec => OnlyWholeOperationsOnDisk
<1>1. TypeOK /\ WritesInTransaction /\ [Next]_vars =>
         [disk' # disk =>
             \/ pc \in {"commit", "InsertTag"}
             \/ /\ pc = "InsertMemoTagIds" /\ ~inTx /\ MayBeUndone
                /\ disk'.memo = disk.memo /\ disk'.tag = disk.tag]_vars
  BY TxStep DEF TagsAlone
<1> QED
  BY <1>1, TypeCorrect, TransactionDiscipline, PTL DEF Spec, OnlyWholeOperationsOnDisk

-----------------------------------------------------------------------------
(* The rows that refer to a memo or tag go before the memo or tag itself. *)

\* Only the deletion of its Tagged rows leads to the deletion of a memo or a tag.
LEMMA DependentsStep == TypeOK /\ DependentsDeletedFirst /\ [Next]_vars => DependentsDeletedFirst'
<1> SUFFICES ASSUME TypeOK, DependentsDeletedFirst, [Next]_vars
             PROVE  DependentsDeletedFirst'
  OBVIOUS
<1> USE DEF DependentsDeletedFirst
<1>1. CASE StepDeleteTaggedOfMemo
  <2>1. pc' = "rollback" \/ (pc' = "DeleteMemo" /\ work' = DeleteTaggedOfMemo(work, call.id))
    BY <1>1 DEF StepDeleteTaggedOfMemo, Exec, Succeeds, Fails, Write
  <2>2. work \in Tables /\ call.id \in MemoIds /\ call' = call
    BY <1>1 DEF StepDeleteTaggedOfMemo, TypeOK, PcMatchesCall, DeleteMemoPcs, DeleteMemoCalls
  <2>3. TagsOf(DeleteTaggedOfMemo(work, call.id), call.id) = {}
    BY <2>2 DEF TagsOf, DeleteTaggedOfMemo, Tables, TaggedTable
  <2> QED BY <2>1, <2>2, <2>3 DEF TagsOf
<1>2. CASE StepDeleteTaggedOfTag
  <2>1. pc' = "rollback" \/ (pc' = "DeleteTag" /\ work' = DeleteTaggedOfTag(work, call.id))
    BY <1>2 DEF StepDeleteTaggedOfTag, Exec, Succeeds, Fails, Write
  <2>2. work \in Tables /\ call.id \in TagIds /\ call' = call
    BY <1>2 DEF StepDeleteTaggedOfTag, TypeOK, PcMatchesCall, DeleteTagPcs, DeleteTagCalls
  <2>3. \A m \in MemoIds : call.id \notin TagsOf(DeleteTaggedOfTag(work, call.id), m)
    BY <2>2 DEF TagsOf, DeleteTaggedOfTag, Tables, TaggedTable
  <2> QED BY <2>1, <2>2, <2>3 DEF TagsOf
<1>3. CASE Open \/ UNCHANGED vars
  BY <1>3 DEF Open, vars, store, TagsOf
<1>4. CASE Crash \/ Call \/ Begin \/ Commit \/ Rollback \/ Return
  <2>1. pc' \notin {"DeleteMemo", "DeleteTag"}
    BY <1>4 DEF Crash, Call, Begin, FirstStatement, Commit, Rollback, Return, TypeOK,
       PcMatchesCall, Calls, UpdateMemoCalls, UpdateTagCalls, InsertMemoCalls,
       InsertTagCalls, DeleteMemoCalls, DeleteTagCalls
  <2> QED BY <2>1
<1>5. CASE UpdateMemo \/ StepUpdateTagTable \/ InsertMemoSteps \/ StepInsertTag
           \/ StepDeleteMemo \/ StepDeleteTag
  <2>1. pc' \notin {"DeleteMemo", "DeleteTag"}
    BY <1>5 DEF UpdateMemo, StepSelectMemoTagIds, StepDeleteMemoTagIds, StepAddMemoTagIds,
       StepUpdateMemoTable, StepUpdateTagTable, InsertMemoSteps, StepInsertMemo,
       StepSelectMemoId, StepInsertMemoTagIds, StepInsertTag, StepDeleteMemo,
       StepDeleteTag, ExecInsertMemoTagIds, Exec
  <2> QED BY <2>1
<1> QED
  BY <1>1, <1>2, <1>3, <1>4, <1>5 DEF Next, Advance, DeleteSteps

\* The foreign keys never stop deleteMemo or deleteTag, whatever happened before.
THEOREM DependentsFirst == Spec => []DependentsDeletedFirst
<1>1. Init => DependentsDeletedFirst
  BY DEF Init, DependentsDeletedFirst
<1> QED
  BY <1>1, TypeCorrect, DependentsStep, PTL DEF Spec

-----------------------------------------------------------------------------
(* As long as every COMMIT takes effect, no operation leaves a transaction  *)
(* behind.                                                                  *)

\* Between operations, before BEGIN and at insertTag's statement there is no
\* transaction: what NoTransactionLeftOpen needs to be inductive.
OutsideTransaction ==
    /\ pc \in {"idle", "begin", "InsertTag", "return"} => ~inTx
    /\ ~inTx => work = disk

LEMMA OutsideStep ==
  ASSUME "commit" \notin FaultKinds
  PROVE  TypeOK /\ WritesInTransaction /\ OutsideTransaction /\ [Next]_vars => OutsideTransaction'
<1> SUFFICES ASSUME TypeOK, WritesInTransaction, WritesInTransaction', OutsideTransaction, [Next]_vars
             PROVE  (pc \in {"idle", "begin", "InsertTag", "return"} => ~inTx)'
  BY TxStep DEF OutsideTransaction, WritesInTransaction
<1> USE DEF OutsideTransaction
<1>1. CASE Open \/ Call \/ Return \/ UNCHANGED vars
  BY <1>1 DEF Open, Call, Return, vars, store
<1>2. CASE Crash \/ Rollback
  BY <1>2 DEF Crash, Rollback
<1>3. CASE Commit
  <2>1. ~Fault("commit")
    BY DEF Fault
  <2>2. conn # "open" => ~inTx
    BY DEF WritesInTransaction
  <2> QED BY <1>3, <2>1, <2>2 DEF Commit, store
<1>4. CASE StepInsertTag
  BY <1>4 DEF StepInsertTag, Succeeds, Fails, Write, Undone, RolledBack, store
<1>5. CASE Begin
  <2>1. pc' \notin {"idle", "begin", "InsertTag", "return"}
    BY <1>5 DEF Begin, FirstStatement, TypeOK, PcMatchesCall, Calls, UpdateMemoCalls,
       UpdateTagCalls, InsertMemoCalls, InsertTagCalls, DeleteMemoCalls, DeleteTagCalls
  <2> QED BY <2>1
<1>6. CASE UpdateMemo \/ StepUpdateTagTable \/ InsertMemoSteps \/ DeleteSteps
  <2>1. pc' \notin {"idle", "begin", "InsertTag", "return"}
    BY <1>6 DEF UpdateMemo, StepSelectMemoTagIds, StepDeleteMemoTagIds, StepAddMemoTagIds,
       StepUpdateMemoTable, StepUpdateTagTable, InsertMemoSteps, StepInsertMemo,
       StepSelectMemoId, StepInsertMemoTagIds, DeleteSteps, StepDeleteTaggedOfMemo,
       StepDeleteMemo, StepDeleteTaggedOfTag, StepDeleteTag, ExecInsertMemoTagIds, Exec
  <2> QED BY <2>1
<1> QED
  BY <1>1, <1>2, <1>3, <1>4, <1>5, <1>6 DEF Next, Advance

\* If COMMIT never fails, every path through every operation ends its transaction.
THEOREM TransactionsEnd ==
  ASSUME "commit" \notin FaultKinds
  PROVE  Spec => []NoTransactionLeftOpen
<1>1. Init => OutsideTransaction
  BY DEF Init, OutsideTransaction
<1>2. TypeOK /\ WritesInTransaction /\ OutsideTransaction /\ [Next]_vars => OutsideTransaction'
  BY OutsideStep
<1>3. OutsideTransaction => NoTransactionLeftOpen
  BY DEF OutsideTransaction, NoTransactionLeftOpen
<1> QED
  BY <1>1, <1>2, <1>3, TypeCorrect, TransactionDiscipline, PTL DEF Spec

-----------------------------------------------------------------------------
(* As long as the PRAGMA takes effect in every process, the tables keep     *)
(* their integrity.                                                         *)

\* A connection that can write enforces the foreign keys.
Guarded == IntegrityKept /\ (conn = "open" => enforced)

LEMMA IntegrityAfterFailure ==
  ASSUME IntegrityKept, UNCHANGED store \/ Undone
  PROVE  IntegrityKept'
  BY DEF IntegrityKept, Undone, RolledBack, store

LEMMA IntegrityAfterExec ==
  ASSUME IntegrityKept, NEW db, NEW accepted, Succeeds(accepted, db) \/ Fails(accepted),
         conn = "open" /\ accepted => Integrity(db)
  PROVE  IntegrityKept'
  BY IntegrityAfterFailure DEF IntegrityKept, Succeeds, Fails, Write, store

LEMMA IntegrityStep ==
  ASSUME "pragma" \notin FaultKinds
  PROVE  TypeOK /\ Guarded /\ [Next]_vars => Guarded'
<1> SUFFICES ASSUME TypeOK, Guarded, [Next]_vars
             PROVE  Guarded'
  OBVIOUS
<1> USE DEF Guarded
<1>1. (conn = "open" => enforced)'
  <2>1. ~Fault("pragma")
    BY DEF Fault
  <2>2. CASE Open
    BY <2>1, <2>2 DEF Open
  <2>3. CASE Crash
    BY <2>3 DEF Crash
  <2>4. CASE UNCHANGED link
    BY <2>4 DEF link
  <2> QED
    BY <2>2, <2>3, <2>4 DEF Next, Advance, Call, Begin, Commit, Rollback, Return, UpdateMemo,
       StepSelectMemoTagIds, StepDeleteMemoTagIds, StepAddMemoTagIds, StepUpdateMemoTable,
       StepUpdateTagTable, InsertMemoSteps, StepInsertMemo, StepSelectMemoId,
       StepInsertMemoTagIds, StepInsertTag, DeleteSteps, StepDeleteTaggedOfMemo,
       StepDeleteMemo, StepDeleteTaggedOfTag, StepDeleteTag, vars
<1>2. work \in Tables /\ Integrity(work) /\ Integrity(disk)
  BY DEF TypeOK, IntegrityKept
<1> USE DEF PcMatchesCall, UpdateMemoPcs, InsertMemoPcs, DeleteMemoPcs, DeleteTagPcs
<1>3. ASSUME Open \/ Call \/ Begin \/ Return \/ UNCHANGED vars
      PROVE  IntegrityKept'
  BY <1>3 DEF Open, Call, Begin, Return, vars, store, IntegrityKept
<1>4. ASSUME Crash \/ Rollback
      PROVE  IntegrityKept'
  BY <1>4 DEF Crash, Rollback, IntegrityKept
<1>5. ASSUME Commit
      PROVE  IntegrityKept'
  BY <1>5, IntegrityAfterFailure DEF Commit, IntegrityKept, store
<1>6. ASSUME StepSelectMemoTagIds \/ StepSelectMemoId
      PROVE  IntegrityKept'
  BY <1>6, IntegrityAfterFailure
     DEF StepSelectMemoTagIds, StepSelectMemoId, SelectFails, SelectBreaksOff, Undone, store
<1>7. ASSUME StepDeleteMemoTagIds
      PROVE  IntegrityKept'
  <2>1. Integrity(DeleteMemoTagIds(work, call.id, TagIdsToDelete(oldTagIds, call.tags)))
    BY <1>2, <1>7, DeleteTaggedIntegrity
       DEF StepDeleteMemoTagIds, TypeOK, UpdateMemoCalls, TagIdsToDelete
  <2> QED BY <1>7, <2>1, IntegrityAfterExec, IntegrityAfterFailure
          DEF StepDeleteMemoTagIds, Exec, store
<1>8. ASSUME StepAddMemoTagIds
      PROVE  IntegrityKept'
  <2> DEFINE copies == TagIdsToAdd(oldTagIds, call.tags)
  <2>1. call.id \in MemoIds /\ copies \in [TagIds -> Nat]
    BY <1>8, TagIdsToAddType DEF StepAddMemoTagIds, TypeOK, UpdateMemoCalls
  <2>2. conn = "open" /\ CanInsertMemoTagIds(work, call.id, copies, enforced)
           => Integrity(InsertMemoTagIds(work, call.id, copies))
    BY <1>2, <2>1, InsertMemoTagIdsIntegrity DEF CanInsertMemoTagIds
  <2> HIDE DEF copies
  <2> QED BY <1>8, <2>2, IntegrityAfterExec, IntegrityAfterFailure
          DEF StepAddMemoTagIds, ExecInsertMemoTagIds, Exec, store, copies
<1>9. ASSUME StepInsertMemoTagIds
      PROVE  IntegrityKept'
  <2>1. memoId \in MemoIds /\ call.tags \in [TagIds -> Nat]
    BY <1>9, DatabaseAssumption DEF StepInsertMemoTagIds, TypeOK, InsertMemoCalls
  <2>2. conn = "open" /\ CanInsertMemoTagIds(work, memoId, call.tags, enforced)
           => Integrity(InsertMemoTagIds(work, memoId, call.tags))
    BY <1>2, <2>1, InsertMemoTagIdsIntegrity DEF CanInsertMemoTagIds
  <2> QED BY <1>9, <2>2, IntegrityAfterExec, IntegrityAfterFailure
          DEF StepInsertMemoTagIds, ExecInsertMemoTagIds, Exec, store
<1>10. ASSUME StepUpdateMemoTable
       PROVE  IntegrityKept'
  <2>1. CanUpdateRow(work.memo, call.text, call.id)
           => Integrity(UpdateMemoTable(work, call.text, call.id))
    BY <1>2, <1>10, UpdateMemoTableIntegrity DEF StepUpdateMemoTable, TypeOK, UpdateMemoCalls
  <2> QED BY <1>10, <2>1, IntegrityAfterExec DEF StepUpdateMemoTable, Exec
<1>11. ASSUME StepUpdateTagTable
       PROVE  IntegrityKept'
  <2>1. CanUpdateRow(work.tag, call.text, call.id)
           => Integrity(UpdateTagTable(work, call.text, call.id))
    BY <1>2, <1>11, UpdateTagTableIntegrity DEF StepUpdateTagTable, TypeOK, UpdateTagCalls
  <2> QED BY <1>11, <2>1, IntegrityAfterExec DEF StepUpdateTagTable, Exec
<1>12. ASSUME StepInsertMemo
       PROVE  IntegrityKept'
  <2>1. \A id \in MemoIds : CanInsertRow(work.memo, call.text, id)
                              => Integrity(InsertMemo(work, call.text, id))
    BY <1>2, <1>12, InsertMemoIntegrity DEF StepInsertMemo, TypeOK, InsertMemoCalls
  <2>2. \/ \E db : Integrity(db) /\ Write(db)
        \/ UNCHANGED store \/ Undone
    BY <1>12, <2>1 DEF StepInsertMemo, Succeeds, Fails, store
  <2> QED BY <1>2, <2>2, IntegrityAfterFailure DEF Write, IntegrityKept
<1>13. ASSUME StepInsertTag
       PROVE  IntegrityKept'
  <2>1. \A id \in TagIds : CanInsertRow(work.tag, call.text, id)
                              => Integrity(InsertTag(work, call.text, id))
    BY <1>2, <1>13, InsertTagIntegrity DEF StepInsertTag, TypeOK, InsertTagCalls
  <2>2. \/ \E db : Integrity(db) /\ Write(db)
        \/ UNCHANGED store \/ Undone
    BY <1>13, <2>1 DEF StepInsertTag, Succeeds, Fails, store
  <2> QED BY <1>2, <2>2, IntegrityAfterFailure DEF Write, IntegrityKept
<1>14. ASSUME StepDeleteTaggedOfMemo
       PROVE  IntegrityKept'
  <2>1. Integrity(DeleteTaggedOfMemo(work, call.id))
    BY <1>2, <1>14, DeleteTaggedIntegrity DEF StepDeleteTaggedOfMemo, TypeOK, DeleteMemoCalls
  <2> QED BY <1>14, <2>1, IntegrityAfterExec DEF StepDeleteTaggedOfMemo, Exec
<1>15. ASSUME StepDeleteTaggedOfTag
       PROVE  IntegrityKept'
  <2>1. Integrity(DeleteTaggedOfTag(work, call.id))
    BY <1>2, <1>15, DeleteTaggedIntegrity DEF StepDeleteTaggedOfTag, TypeOK, DeleteTagCalls
  <2> QED BY <1>15, <2>1, IntegrityAfterExec DEF StepDeleteTaggedOfTag, Exec
<1>16. ASSUME StepDeleteMemo
       PROVE  IntegrityKept'
  <2>1. conn = "open" /\ CanDeleteMemo(work, call.id, enforced)
           => Integrity(DeleteMemo(work, call.id))
    BY <1>2, <1>16, DeleteMemoIntegrity DEF StepDeleteMemo, TypeOK, DeleteMemoCalls, CanDeleteMemo
  <2> QED BY <1>16, <2>1, IntegrityAfterExec DEF StepDeleteMemo, Exec
<1>17. ASSUME StepDeleteTag
       PROVE  IntegrityKept'
  <2>1. conn = "open" /\ CanDeleteTag(work, call.id, enforced)
           => Integrity(DeleteTag(work, call.id))
    BY <1>2, <1>17, DeleteTagIntegrity DEF StepDeleteTag, TypeOK, DeleteTagCalls, CanDeleteTag
  <2> QED BY <1>17, <2>1, IntegrityAfterExec DEF StepDeleteTag, Exec
<1> QED
  BY <1>1, <1>3, <1>4, <1>5, <1>6, <1>7, <1>8, <1>9, <1>10, <1>11, <1>12, <1>13, <1>14,
     <1>15, <1>16, <1>17
     DEF Next, Advance, UpdateMemo, InsertMemoSteps, DeleteSteps

\* If the PRAGMA never fails, titles and names stay unique and no Tagged row dangles,
\* on the disk and in unfinished transactions.
THEOREM IntegrityHolds ==
  ASSUME "pragma" \notin FaultKinds
  PROVE  Spec => []IntegrityKept
<1>1. Init => Guarded
  BY EmptyTablesIntegrity DEF Init, Guarded, IntegrityKept
<1>2. TypeOK /\ Guarded /\ [Next]_vars => Guarded'
  BY IntegrityStep
<1>3. Guarded => IntegrityKept
  BY DEF Guarded
<1> QED
  BY <1>1, <1>2, <1>3, TypeCorrect, PTL DEF Spec

-----------------------------------------------------------------------------
(* The refinement *)

\* What the refinement needs: COMMIT and the PRAGMA take effect, no SELECT loses the
\* transaction behind its first row (the findings of the README show what happens
\* otherwise), and the ids of the instance start at 1 and have no gap.
NoGap(ids) == \A i \in ids : i - 1 \in ids \cup {0}

Dependable ==
    /\ FaultKinds \cap {"commit", "pragma", "undo"} = {}
    /\ NoGap(MemoIds) /\ NoGap(TagIds)

-----------------------------------------------------------------------------
(* What an operation makes of the tables, and when it can *)

\* The tables differ in memo id and its tags at most.
OthersKept(old, new, id) ==
    /\ new.tag = old.tag
    /\ \A m \in MemoIds : m # id => TagsOf(new, m) = TagsOf(old, m)

\* The memo's tags have been brought to those given, its row has not been touched.
Retagged(old, new, id, tags) ==
    /\ new.memo = old.memo
    /\ OthersKept(old, new, id)
    /\ TagsOf(new, id) = tags

MemoUpdated(c, old, new) ==
    /\ CanUpdateRow(old.memo, c.text, c.id)
    /\ new.memo = UpdateRow(old.memo, c.text, c.id)
    /\ OthersKept(old, new, c.id)
    /\ TagsOf(new, c.id) = Named(c.tags)

MemoInserted(c, old, new, id) ==
    /\ CanInsertRow(old.memo, c.text, id)
    /\ new.memo = [old.memo EXCEPT ![id] = c.text]
    /\ OthersKept(old, new, id)

\* The new row has been given id, the tags of the call went to memo m.
MemoAdded(c, old, new, id, m) ==
    /\ CanInsertRow(old.memo, c.text, id)
    /\ new.memo = [old.memo EXCEPT ![id] = c.text]
    /\ new.tag = old.tag
    /\ m \in MatchingMemoIds(new, c.text)
    /\ \A i \in MemoIds : TagsOf(new, i) = (IF i = id THEN {} ELSE TagsOf(old, i))
                                             \cup (IF i = m THEN Named(c.tags) ELSE {})

TagUpdated(c, old, new) ==
    CanUpdateRow(old.tag, c.text, c.id) /\ new = UpdateTagTable(old, c.text, c.id)

\* A call whose statements have all been executed.
Done(c, old, new) ==
    /\ c \notin InsertTagCalls
    /\ c \in UpdateMemoCalls => MemoUpdated(c, old, new)
    /\ c \in InsertMemoCalls => \E id, m \in MemoIds : MemoAdded(c, old, new, id, m)
    /\ c \in UpdateTagCalls => TagUpdated(c, old, new)
    /\ c \in DeleteMemoCalls => new = DeleteMemo(DeleteTaggedOfMemo(old, c.id), c.id)
    /\ c \in DeleteTagCalls => new = DeleteTag(DeleteTaggedOfTag(old, c.id), c.id)

\* Without a fault SQLite accepts the call.
CanDo(c, db) ==
    /\ c \in UpdateMemoCalls =>
          /\ CanUpdateRow(db.memo, c.text, c.id)
          /\ Named(c.tags) \subseteq Rows(db.tag)
          /\ Named(c.tags) # {} => c.id \in Rows(db.memo)
    /\ c \in InsertMemoCalls =>
          /\ \E id \in MemoIds : CanInsertRow(db.memo, c.text, id)
          /\ Named(c.tags) \subseteq Rows(db.tag)
    /\ c \in UpdateTagCalls => CanUpdateRow(db.tag, c.text, c.id)
    /\ c \in InsertTagCalls => \E id \in TagIds : CanInsertRow(db.tag, c.text, id)

-----------------------------------------------------------------------------
(* Lemmas about the statements *)

LEMMA CallsByOp ==
  ASSUME NEW c \in Calls
  PROVE  /\ c.op = "updateMemo" <=> c \in UpdateMemoCalls
         /\ c.op = "updateTag"  <=> c \in UpdateTagCalls
         /\ c.op = "insertMemo" <=> c \in InsertMemoCalls
         /\ c.op = "insertTag"  <=> c \in InsertTagCalls
         /\ c.op = "deleteMemo" <=> c \in DeleteMemoCalls
         /\ c.op = "deleteTag"  <=> c \in DeleteTagCalls
  BY DEF Calls, UpdateMemoCalls, UpdateTagCalls, InsertMemoCalls, InsertTagCalls,
     DeleteMemoCalls, DeleteTagCalls

\* DeleteMemoTagIds takes the tags off.
LEMMA TagsTakenOff ==
  ASSUME NEW db \in Tables, NEW id \in MemoIds, NEW tagIds \in SUBSET TagIds
  PROVE  Retagged(db, DeleteMemoTagIds(db, id, tagIds), id, TagsOf(db, id) \ tagIds)
  <1> DEFINE new == DeleteMemoTagIds(db, id, tagIds)
  <1>1. new.memo = db.memo /\ new.tag = db.tag
    BY DEF DeleteMemoTagIds, Tables
  <1>2. \A m \in MemoIds, t \in TagIds :
           new.tagged[m][t] = IF m = id /\ t \in tagIds THEN 0 ELSE db.tagged[m][t]
    BY DEF DeleteMemoTagIds, Tables, TaggedTable
  <1> HIDE DEF new
  <1> QED BY <1>1, <1>2 DEF Retagged, OthersKept, TagsOf, new

\* InsertMemoTagIds adds the tags it has a copy of.
LEMMA TagsAdded ==
  ASSUME NEW db \in Tables, NEW id \in MemoIds, NEW copies \in [TagIds -> Nat]
  PROVE  Retagged(db, InsertMemoTagIds(db, id, copies), id, TagsOf(db, id) \cup Named(copies))
  <1> DEFINE new == InsertMemoTagIds(db, id, copies)
  <1>1. new.memo = db.memo /\ new.tag = db.tag
    BY DEF InsertMemoTagIds, Tables
  <1>2. \A m \in MemoIds, t \in TagIds :
           new.tagged[m][t] = db.tagged[m][t] + (IF m = id THEN copies[t] ELSE 0)
    BY DEF InsertMemoTagIds, Tables, TaggedTable
  <1>3. \A m \in MemoIds, t \in TagIds : db.tagged[m][t] \in Nat /\ copies[t] \in Nat
    BY DEF Tables, TaggedTable
  <1> HIDE DEF new
  <1>4. TagsOf(new, id) = TagsOf(db, id) \cup Named(copies)
    BY <1>2, <1>3 DEF TagsOf, Named
  <1>5. \A m \in MemoIds : m # id => TagsOf(new, m) = TagsOf(db, m)
    BY <1>2, <1>3 DEF TagsOf
  <1> QED BY <1>1, <1>4, <1>5 DEF Retagged, OthersKept, new

\* What updateMemo takes off and adds makes the tags of the request of the old ones.
LEMMA TagsReplaced ==
  ASSUME NEW old \in SUBSET TagIds, NEW tags \in TagLists
  PROVE  /\ Named(TagIdsToAdd(old, tags)) \subseteq Named(tags)
         /\ (old \ TagIdsToDelete(old, tags)) \cup Named(TagIdsToAdd(old, tags)) = Named(tags)
  <1>1. \A t \in TagIds : tags[t] \in Nat
    BY DatabaseAssumption
  <1>2. \A t \in TagIds : TagIdsToAdd(old, tags)[t] =
           IF t \in old /\ tags[t] > 0 THEN tags[t] - 1 ELSE tags[t]
    BY DEF TagIdsToAdd
  <1> QED BY <1>1, <1>2 DEF Named, TagIdsToDelete

\* A memo that is not there has no tags.
LEMMA NoRowNoTags ==
  ASSUME NEW db \in Tables, Integrity(db), NEW m \in MemoIds, m \notin Rows(db.memo)
  PROVE  TagsOf(db, m) = {}
  BY DEF Integrity, ForeignKeys, TagsOf

\* If any id is above those in use, SQLite's next id is in the instance.
LEMMA NextIdExists ==
  ASSUME NEW ids, ids \subseteq Nat \ {0}, NoGap(ids), NEW table, DOMAIN table = ids,
         \E id \in ids : \A i \in Rows(table) : i < id
  PROVE  \E id \in ids : IsNextId(table, id)
  <1> DEFINE free == {id \in ids : \A i \in Rows(table) : i < id}
  <1>1. Rows(table) \subseteq ids
    BY DEF Rows
  <1>2. PICK n \in free : \A j \in free : ~(<<j, n>> \in OpToRel(<, Nat))
    <2>1. free \subseteq Nat /\ free # {}
      OBVIOUS
    <2> HIDE DEF free
    <2> QED BY <2>1, NatLessThanWellFounded, WFMin
  <1>3. n - 1 \in Rows(table) \cup {0}
    <2> SUFFICES ASSUME n - 1 # 0, n - 1 \notin Rows(table) PROVE FALSE
      OBVIOUS
    <2>1. n \in Nat /\ n # 0 /\ n - 1 \in ids /\ n - 1 \in Nat /\ n - 1 < n
      BY DEF NoGap
    <2>2. ASSUME NEW i \in Rows(table) PROVE i < n - 1
      <3>1. i \in Nat /\ i < n /\ i # n - 1
        BY <1>1, <1>2
      <3> QED BY <2>1, <3>1
    <2>3. n - 1 \in free
      BY <2>1, <2>2
    <2>4. <<n - 1, n>> \in OpToRel(<, Nat)
      BY <2>1 DEF OpToRel
    <2> QED BY <1>2, <2>3, <2>4
  <1> QED BY <1>2, <1>3 DEF IsNextId

-----------------------------------------------------------------------------
(* What the statements do is what MemoStore says of the operation *)

\* The lemmas of this part: when the outcome of an operation is on the disk, the store
\* mapped from it has taken the step that MemoStore describes.
LEMMA UpdateMemoIsEffect ==
  ASSUME disk \in Tables, disk' \in Tables, Integrity(disk), Integrity(disk'),
         call \in UpdateMemoCalls, MemoUpdated(call, disk, disk')
  PROVE  Store!UpdateMemo(call)
<1> USE DEF Tables, MemoTable, TagTable
<1>1. call.id \in MemoIds /\ call.text \in Titles
  BY DEF UpdateMemoCalls
<1>2. Store!Named(call) = TagsOf(disk', call.id)
  BY DEF MemoUpdated, Named, Store!Named
<1>3. CASE call.id \in Rows(disk.memo)
  <2>1. disk'.memo = [disk.memo EXCEPT ![call.id] = call.text] /\ disk'.tag = disk.tag
    BY <1>3 DEF MemoUpdated, UpdateRow, OthersKept
  <2>2. [m \in MemoIds |-> TagsOf(disk', m)]
           = [[m \in MemoIds |-> TagsOf(disk, m)] EXCEPT ![call.id] = Store!Named(call)]
    BY <1>2 DEF MemoUpdated, OthersKept
  <2>3. Store!Named(call) \subseteq Rows(disk.tag)
    BY <1>1, <1>2, <2>1 DEF Integrity, ForeignKeys, TagsOf
  <2>4. \A i \in Rows(disk.memo) : disk.memo[i] = call.text => i = call.id
    BY <1>3 DEF MemoUpdated, CanUpdateRow, IsFree
  <2> QED BY <1>3, <2>1, <2>2, <2>3, <2>4 DEF Store!UpdateMemo, Store!Rows, Rows
<1>4. CASE call.id \notin Rows(disk.memo)
  <2>1. disk'.memo = disk.memo /\ disk'.tag = disk.tag
    BY <1>4 DEF MemoUpdated, UpdateRow, OthersKept
  <2>2. TagsOf(disk, call.id) = {} /\ TagsOf(disk', call.id) = {}
    BY <1>1, <1>4, <2>1, NoRowNoTags
  <2>3. [m \in MemoIds |-> TagsOf(disk', m)] = [m \in MemoIds |-> TagsOf(disk, m)]
    BY <2>2 DEF MemoUpdated, OthersKept
  <2> QED BY <1>2, <1>4, <2>1, <2>2, <2>3 DEF Store!UpdateMemo, Store!Rows, Store!contents, Rows
<1> QED BY <1>3, <1>4

LEMMA InsertMemoIsEffect ==
  ASSUME disk \in Tables, disk' \in Tables, Integrity(disk), Integrity(disk'),
         call \in InsertMemoCalls, NEW id \in MemoIds, NEW m \in MemoIds,
         MemoAdded(call, disk, disk', id, m)
  PROVE  Store!InsertMemo(call)
<1> DEFINE before == [i \in MemoIds |-> TagsOf(disk, i)]
<1> DEFINE after == [i \in MemoIds |-> TagsOf(disk', i)]
<1>1. disk'.memo = [disk.memo EXCEPT ![id] = call.text] /\ disk'.tag = disk.tag
  BY DEF MemoAdded
<1>2. Store!Named(call) = Named(call.tags)
  BY DEF Named, Store!Named
<1>3. \A i \in MemoIds : TagsOf(disk', i) = (IF i = id THEN {} ELSE TagsOf(disk, i))
                                             \cup (IF i = m THEN Store!Named(call) ELSE {})
  BY <1>2 DEF MemoAdded
<1>4. after = [i \in MemoIds |-> (IF i = id THEN {} ELSE before[i])
                                   \cup (IF i = m THEN Store!Named(call) ELSE {})]
  BY <1>3
<1>5. Store!Named(call) \subseteq Rows(disk.tag)
  <2>1. Store!Named(call) \subseteq TagsOf(disk', m)
    BY <1>3
  <2> QED BY <1>1, <2>1 DEF Integrity, ForeignKeys, TagsOf
<1>6. m \in Rows(disk'.memo) /\ <<call.text, disk'.memo[m]>> \in Like
  BY DEF MemoAdded, MatchingMemoIds
<1>7. /\ \A i \in Rows(disk.memo) : disk.memo[i] # call.text
      /\ \A i \in Rows(disk.memo) : i < id
  BY DEF MemoAdded, CanInsertRow, IsNextId
<1>8. Store!AddMemo(call)
  <2> DEFINE Told(i, k) ==
        after = [j \in MemoIds |-> (IF j = i THEN {} ELSE before[j])
                                      \cup (IF j = k THEN Store!Named(call) ELSE {})]
  <2>1. /\ Store!IsNew(disk.memo, id)
        /\ Store!Rows(disk.tag) = Rows(disk.tag)
        /\ Store!Rows(disk'.memo) = Rows(disk'.memo)
    BY <1>7 DEF Store!IsNew, Store!Rows, Rows
  <2>2. Told(id, m)
    BY <1>4
  <2> HIDE DEF Told
  <2>3. \E i \in MemoIds :
           /\ Store!IsNew(disk.memo, i)
           /\ disk'.memo = [disk.memo EXCEPT ![i] = call.text]
           /\ \E k \in Store!Rows(disk'.memo) :
                 <<call.text, disk'.memo[k]>> \in Like /\ Told(i, k)
    BY <1>1, <1>6, <2>1, <2>2
  <2> QED BY <1>1, <1>5, <2>1, <2>3 DEF Store!AddMemo, Told
<1> QED BY <1>7, <1>8 DEF Store!InsertMemo, Store!Rows, Rows

LEMMA UpdateTagIsEffect ==
  ASSUME disk \in Tables, disk' \in Tables, call \in UpdateTagCalls, TagUpdated(call, disk, disk')
  PROVE  Store!UpdateTag(call)
<1> USE DEF Tables, MemoTable, TagTable
<1>1. disk'.memo = disk.memo /\ disk'.tagged = disk.tagged
  BY DEF TagUpdated, UpdateTagTable
<1>2. disk'.tag = UpdateRow(disk.tag, call.text, call.id)
  BY DEF TagUpdated, UpdateTagTable
<1>3. [m \in MemoIds |-> TagsOf(disk', m)] = [m \in MemoIds |-> TagsOf(disk, m)]
  BY <1>1 DEF TagsOf
<1>4. CASE call.id \in Rows(disk.tag)
  BY <1>1, <1>2, <1>3, <1>4 DEF Store!UpdateTag, Store!Rows, Rows, UpdateRow, TagUpdated, CanUpdateRow, IsFree
<1>5. CASE call.id \notin Rows(disk.tag)
  BY <1>1, <1>2, <1>3, <1>5 DEF Store!UpdateTag, Store!Rows, Store!contents, Rows, UpdateRow
<1> QED BY <1>4, <1>5

LEMMA InsertTagIsEffect ==
  ASSUME disk \in Tables, disk' \in Tables, call \in InsertTagCalls, NEW id \in TagIds,
         CanInsertRow(disk.tag, call.text, id), disk' = InsertTag(disk, call.text, id)
  PROVE  Store!InsertTag(call)
<1> USE DEF Tables, MemoTable, TagTable
<1>1. disk'.memo = disk.memo /\ disk'.tagged = disk.tagged
  BY DEF InsertTag
<1>2. disk'.tag = [disk.tag EXCEPT ![id] = call.text]
  BY DEF InsertTag
<1>3. [m \in MemoIds |-> TagsOf(disk', m)] = [m \in MemoIds |-> TagsOf(disk, m)]
  BY <1>1 DEF TagsOf
<1>4. \A i \in Rows(disk.tag) : i < id /\ disk.tag[i] # call.text
  BY DEF CanInsertRow, IsNextId
<1> QED BY <1>1, <1>2, <1>3, <1>4 DEF Store!InsertTag, Store!IsNew, Store!Rows, Rows

LEMMA DeleteMemoIsEffect ==
  ASSUME disk \in Tables, disk' \in Tables, call \in DeleteMemoCalls,
         disk' = DeleteMemo(DeleteTaggedOfMemo(disk, call.id), call.id)
  PROVE  Store!DeleteMemo(call)
<1> USE DEF Tables, MemoTable, TagTable, TaggedTable
<1>1. call.id \in MemoIds
  BY DEF DeleteMemoCalls
<1>2. disk'.memo = [disk.memo EXCEPT ![call.id] = NoRow] /\ disk'.tag = disk.tag
  BY <1>1 DEF DeleteMemo, DeleteTaggedOfMemo
<1>3. \A m \in MemoIds, t \in TagIds :
         disk'.tagged[m][t] = IF m = call.id THEN 0 ELSE disk.tagged[m][t]
  BY <1>1 DEF DeleteMemo, DeleteTaggedOfMemo
<1>4. \A m \in MemoIds : TagsOf(disk', m) = IF m = call.id THEN {} ELSE TagsOf(disk, m)
  BY <1>3 DEF TagsOf
<1>5. [m \in MemoIds |-> TagsOf(disk', m)]
         = [[m \in MemoIds |-> TagsOf(disk, m)] EXCEPT ![call.id] = {}]
  BY <1>4
<1> QED BY <1>2, <1>5 DEF Store!DeleteMemo

LEMMA DeleteTagIsEffect ==
  ASSUME disk \in Tables, disk' \in Tables, call \in DeleteTagCalls,
         disk' = DeleteTag(DeleteTaggedOfTag(disk, call.id), call.id)
  PROVE  Store!DeleteTag(call)
<1> USE DEF Tables, MemoTable, TagTable, TaggedTable
<1>1. call.id \in TagIds
  BY DEF DeleteTagCalls
<1>2. disk'.tag = [disk.tag EXCEPT ![call.id] = NoRow] /\ disk'.memo = disk.memo
  BY <1>1 DEF DeleteTag, DeleteTaggedOfTag
<1>3. \A m \in MemoIds, t \in TagIds :
         disk'.tagged[m][t] = IF t = call.id THEN 0 ELSE disk.tagged[m][t]
  <2>1. disk'.tagged = [m \in MemoIds |-> [disk.tagged[m] EXCEPT ![call.id] = 0]]
    BY DEF DeleteTag, DeleteTaggedOfTag
  <2>2. \A m \in MemoIds : disk.tagged[m] \in [TagIds -> Nat]
    OBVIOUS
  <2> QED BY <2>1, <2>2
<1>4. \A m \in MemoIds : TagsOf(disk', m) = TagsOf(disk, m) \ {call.id}
  BY <1>3 DEF TagsOf
<1>5. [m \in MemoIds |-> TagsOf(disk', m)]
         = [m \in MemoIds |-> [k \in MemoIds |-> TagsOf(disk, k)][m] \ {call.id}]
  BY <1>4
<1> QED BY <1>2, <1>5 DEF Store!DeleteTag

\* What a COMMIT brings to the disk is the effect of the call.
LEMMA DoneIsEffect ==
  ASSUME disk \in Tables, disk' \in Tables, Integrity(disk), Integrity(disk'),
         call \in Calls, Done(call, disk, disk')
  PROVE  Store!Effect(call)
<1>1. CASE call \in UpdateMemoCalls
  BY <1>1, UpdateMemoIsEffect, CallsByOp DEF Done, Store!Effect
<1>2. CASE call \in InsertMemoCalls
  BY <1>2, InsertMemoIsEffect, CallsByOp DEF Done, Store!Effect
<1>3. CASE call \in UpdateTagCalls
  BY <1>3, UpdateTagIsEffect, CallsByOp DEF Done, Store!Effect
<1>4. CASE call \in DeleteMemoCalls
  BY <1>4, DeleteMemoIsEffect, CallsByOp DEF Done, Store!Effect
<1>5. CASE call \in DeleteTagCalls
  BY <1>5, DeleteTagIsEffect, CallsByOp DEF Done, Store!Effect
<1> QED BY <1>1, <1>2, <1>3, <1>4, <1>5 DEF Done, Calls

\* What the store takes for possible SQLite accepts.
LEMMA PossibleCanBeDone ==
  ASSUME Dependable, disk \in Tables, Integrity(disk), call \in Calls, Store!Possible(call)
  PROVE  CanDo(call, disk)
<1> USE DEF Store!Possible, Store!Rows, Store!IsNew, CanDo
<1>1. ASSUME call \in UpdateMemoCalls
      PROVE  /\ CanUpdateRow(disk.memo, call.text, call.id)
             /\ Named(call.tags) \subseteq Rows(disk.tag)
             /\ Named(call.tags) # {} => call.id \in Rows(disk.memo)
  BY <1>1, CallsByOp DEF Rows, CanUpdateRow, IsFree, Named, Store!Named
<1>2. ASSUME call \in InsertMemoCalls
      PROVE  /\ \E id \in MemoIds : CanInsertRow(disk.memo, call.text, id)
             /\ Named(call.tags) \subseteq Rows(disk.tag)
  <2>1. /\ \A i \in Rows(disk.memo) : disk.memo[i] # call.text
        /\ Named(call.tags) \subseteq Rows(disk.tag)
        /\ \E id \in MemoIds : \A i \in Rows(disk.memo) : i < id
    BY <1>2, CallsByOp DEF Rows, Named, Store!Named
  <2>2. \E id \in MemoIds : IsNextId(disk.memo, id)
    BY <2>1, NextIdExists, SchemaAssumption DEF Tables, MemoTable, Dependable
  <2> QED BY <2>1, <2>2 DEF CanInsertRow
<1>3. ASSUME call \in UpdateTagCalls
      PROVE  CanUpdateRow(disk.tag, call.text, call.id)
  BY <1>3, CallsByOp DEF Rows, CanUpdateRow, IsFree
<1>4. ASSUME call \in InsertTagCalls
      PROVE  \E id \in TagIds : CanInsertRow(disk.tag, call.text, id)
  <2>1. /\ \A i \in Rows(disk.tag) : disk.tag[i] # call.text
        /\ \E id \in TagIds : \A i \in Rows(disk.tag) : i < id
    BY <1>4, CallsByOp DEF Rows
  <2>2. \E id \in TagIds : IsNextId(disk.tag, id)
    BY <2>1, NextIdExists, SchemaAssumption DEF Tables, TagTable, Dependable
  <2> QED BY <2>1, <2>2 DEF CanInsertRow
<1> QED BY <1>1, <1>2, <1>3, <1>4

-----------------------------------------------------------------------------
(* The inductive invariant: how far the operation has come *)

\* What other theorems say of every state.
Known == TypeOK /\ WritesInTransaction /\ OutsideTransaction /\ Guarded

\* The statements that are reached by a success alone.
LaterPcs == {"DeleteMemoTagIds", "AddMemoTagIds", "UpdateMemoTable", "InsertMemoTagIds",
             "DeleteMemo", "DeleteTag", "commit"}

FirstPcs == {"begin", "SelectMemoTagIds", "UpdateTagTable", "InsertMemo", "InsertTag",
             "DeleteTaggedOfMemo", "DeleteTaggedOfTag"}

\* Statements follow a success, and so run in an open transaction; a connection that
\* could not be opened is a fault.
OnlyAfterSuccess ==
    /\ conn = "failed" => faults > 0
    /\ pc \in LaterPcs \/ (pc = "SelectMemoId" /\ inserted) => conn = "open" /\ inTx

\* A call is under way from its first statement on, which finds the tables as they are
\* on the disk.
NothingDoneYet ==
    /\ IF pc = "idle" THEN call = NoCall ELSE call \in Calls
    /\ pc \in FirstPcs => work = disk

\* What has been done of an update, an insertion and a deletion.
UpdateSoFar ==
    /\ pc \in {"DeleteMemoTagIds", "AddMemoTagIds"} => oldTagIds = TagsOf(disk, call.id)
    /\ pc = "DeleteMemoTagIds" => work = disk
    /\ pc = "AddMemoTagIds" =>
          Retagged(disk, work, call.id, oldTagIds \ TagIdsToDelete(oldTagIds, call.tags))
    /\ pc = "UpdateMemoTable" => Retagged(disk, work, call.id, Named(call.tags))

InsertSoFar ==
    /\ pc = "SelectMemoId" /\ inserted =>
          \E id \in MemoIds : MemoInserted(call, disk, work, id) /\ TagsOf(work, id) = {}
    /\ pc = "InsertMemoTagIds" =>
          /\ \E id \in MemoIds : MemoInserted(call, disk, work, id) /\ TagsOf(work, id) = {}
          /\ memoId \in MatchingMemoIds(work, call.text)

DeleteSoFar ==
    /\ pc = "DeleteMemo" => work = DeleteTaggedOfMemo(disk, call.id)
    /\ pc = "DeleteTag" => work = DeleteTaggedOfTag(disk, call.id)

ReadyToCommit == pc = "commit" => Done(call, disk, work)

\* There is a reason to refuse the call.
Refusable == faults > 0 \/ ~CanDo(call, disk)

RefusedForAReason == pc = "rollback" \/ (pc = "SelectMemoId" /\ ~inserted) => Refusable

Progress ==
    /\ OnlyAfterSuccess /\ NothingDoneYet
    /\ UpdateSoFar /\ InsertSoFar /\ DeleteSoFar
    /\ ReadyToCommit /\ RefusedForAReason

\* An exec that is refused or fails leaves a reason, if a refusal is one.
LEMMA FailureIsReason ==
  ASSUME Known, Progress, NEW accepted, Fails(accepted), conn # "down",
         UNCHANGED <<disk, call>>, accepted \/ ~CanDo(call, disk)
  PROVE  Refusable'
<1>1. CASE conn = "open" /\ Fault("write")
  BY <1>1 DEF Fault, Refusable, Known, TypeOK
<1>2. CASE ~accepted /\ UNCHANGED faults
  BY <1>2 DEF Refusable
<1>3. CASE conn # "open" /\ UNCHANGED faults
  BY <1>3 DEF Refusable, Progress, OnlyAfterSuccess, Known, TypeOK
<1> QED BY <1>1, <1>2, <1>3 DEF Fails

LEMMA ReadFailureIsReason ==
  ASSUME Known, Progress, SelectFails, conn # "down"
  PROVE  Refusable'
<1>1. CASE conn = "open" /\ Fault("read")
  BY <1>1 DEF Fault, Refusable, Known, TypeOK
<1>2. CASE conn # "open" /\ UNCHANGED faults
  BY <1>2 DEF Refusable, Progress, OnlyAfterSuccess, Known, TypeOK
<1> QED BY <1>1, <1>2 DEF SelectFails, store

LEMMA FaultsStay ==
  ASSUME faults \in Nat, [Next]_vars
  PROVE  faults' \in Nat /\ faults' >= faults
  BY DEF Next, Advance, UpdateMemo, InsertMemoSteps, DeleteSteps, Open, Crash, Call, Begin,
     Commit, Rollback, Return, StepSelectMemoTagIds, StepDeleteMemoTagIds, StepAddMemoTagIds,
     StepUpdateMemoTable, StepUpdateTagTable, StepInsertMemo, StepSelectMemoId,
     StepInsertMemoTagIds, StepInsertTag, StepDeleteTaggedOfMemo, StepDeleteMemo,
     StepDeleteTaggedOfTag, StepDeleteTag, ExecInsertMemoTagIds, Exec, Succeeds, Fails,
     SelectFails, SelectBreaksOff, Fault, vars

\* What SelectMemoId finds of a memo that has been inserted.
LEMMA InsertedIsFound ==
  ASSUME Known, call \in InsertMemoCalls, NEW id \in MemoIds, MemoInserted(call, disk, work, id)
  PROVE  /\ id \in Rows(work.memo) /\ id \in MatchingMemoIds(work, call.text)
         /\ Store!LikeIsExact => \A i \in MatchingMemoIds(work, call.text) : i = id
<1> USE DEF Known, TypeOK, Tables, MemoTable, Rows
<1>1. /\ work.memo = [disk.memo EXCEPT ![id] = call.text] /\ work.memo[id] = call.text
      /\ \A i \in Rows(disk.memo) : disk.memo[i] # call.text
      /\ call.text \in Titles /\ call.text # NoRow
  BY SchemaAssumption DEF MemoInserted, CanInsertRow, InsertMemoCalls
<1>2. \A i \in Rows(work.memo) : work.memo[i] = call.text => i = id
  BY <1>1
<1>3. id \in Rows(work.memo) /\ id \in MatchingMemoIds(work, call.text)
  BY <1>1, LikeAssumption DEF MatchingMemoIds
<1>4. ASSUME Store!LikeIsExact, NEW i \in MatchingMemoIds(work, call.text)
      PROVE  i = id
  <2>1. i \in Rows(work.memo) /\ <<call.text, work.memo[i]>> \in Like
    BY DEF MatchingMemoIds
  <2>2. call.text = work.memo[i]
    BY <1>4, <2>1 DEF Store!LikeIsExact
  <2> QED BY <1>2, <2>1, <2>2
<1> QED BY <1>3, <1>4

\* A statement of a transaction succeeds and leads on to the next one, or it fails and
\* leads to the rollback.
LEMMA ExecOutcome ==
  ASSUME Known, Progress, conn # "down", conn = "open" => inTx, UNCHANGED <<link, call>>,
         NEW accepted, NEW db, NEW next, Exec(accepted, db, next, "rollback"),
         conn = "open" => accepted \/ ~CanDo(call, disk)
  PROVE  /\ disk' = disk
         /\ \/ /\ pc' = next /\ accepted /\ work' = db
               /\ conn' = "open" /\ inTx'
            \/ pc' = "rollback" /\ Refusable'
<1>1. CASE Succeeds(accepted, db) /\ pc' = next
  BY <1>1 DEF Succeeds, Write, link
<1>2. CASE Fails(accepted) /\ pc' = "rollback"
  <2>1. disk' = disk
    BY <1>2 DEF Fails, Undone, RolledBack, store
  <2>2. CASE conn = "open"
    BY <1>2, <2>1, <2>2, FailureIsReason
  <2>3. CASE conn # "open"
    <3>1. faults > 0 /\ faults' = faults
      BY <1>2, <2>3 DEF Fails, Progress, OnlyAfterSuccess, Known, TypeOK, Fault
    <3> QED BY <1>2, <2>1, <3>1 DEF Refusable
  <2> QED BY <2>2, <2>3
<1> QED BY <1>1, <1>2 DEF Exec

\* A refused operation has nothing but its reason to keep.
LEMMA RollbackReached ==
  ASSUME Known, Progress, [Next]_vars, pc # "idle", pc' = "rollback", Refusable',
         UNCHANGED <<link, call>>
  PROVE  Progress'
<1>1. faults' \in Nat /\ faults' >= faults /\ faults \in Nat
  BY FaultsStay DEF Known, TypeOK
<1>2. OnlyAfterSuccess'
  BY <1>1 DEF Progress, OnlyAfterSuccess, LaterPcs, link
<1>3. NothingDoneYet'
  BY DEF Progress, NothingDoneYet, FirstPcs
<1>4. UpdateSoFar' /\ InsertSoFar' /\ DeleteSoFar' /\ ReadyToCommit' /\ RefusedForAReason'
  BY DEF UpdateSoFar, InsertSoFar, DeleteSoFar, ReadyToCommit, RefusedForAReason
<1> QED BY <1>2, <1>3, <1>4 DEF Progress

\* So has one that is over.
LEMMA OutsideReached ==
  ASSUME Known, Progress, [Next]_vars, pc' \in {"idle", "return"}, conn' # "failed" \/ conn' = conn,
         IF pc' = "idle" THEN call' = NoCall ELSE call' \in Calls
  PROVE  Progress'
<1>1. faults' \in Nat /\ faults' >= faults /\ faults \in Nat
  BY FaultsStay DEF Known, TypeOK
<1>2. OnlyAfterSuccess'
  BY <1>1 DEF Progress, OnlyAfterSuccess, LaterPcs, link
<1>3. NothingDoneYet'
  BY DEF NothingDoneYet, FirstPcs
<1>4. UpdateSoFar' /\ InsertSoFar' /\ DeleteSoFar' /\ ReadyToCommit' /\ RefusedForAReason'
  BY DEF UpdateSoFar, InsertSoFar, DeleteSoFar, ReadyToCommit, RefusedForAReason
<1> QED BY <1>2, <1>3, <1>4 DEF Progress

LEMMA ProgressStep ==
  ASSUME Dependable, Known, Known', DependentsDeletedFirst, Progress, [Next]_vars
  PROVE  Progress'
<1> USE DEF Known
<1>1. CASE Open
  <2>1. /\ pc = "idle" /\ UNCHANGED <<store, pc, call>>
        /\ conn' = "failed" => faults' = faults + 1
    BY <1>1 DEF Open, Fault, TypeOK, PcMatchesCall, Dependable
  <2>2. OnlyAfterSuccess' /\ NothingDoneYet'
    BY <2>1 DEF Progress, OnlyAfterSuccess, NothingDoneYet, LaterPcs, FirstPcs, TypeOK
  <2>3. UpdateSoFar' /\ InsertSoFar' /\ DeleteSoFar' /\ ReadyToCommit' /\ RefusedForAReason'
    BY <2>1 DEF UpdateSoFar, InsertSoFar, DeleteSoFar, ReadyToCommit, RefusedForAReason
  <2> QED BY <2>2, <2>3 DEF Progress
<1>2. CASE Crash
  BY <1>2, OutsideReached DEF Crash
<1>3. CASE Call
  <2>1. /\ pc' \in {"begin", "InsertTag"} /\ call' \in Calls
        /\ UNCHANGED <<disk, work, inTx, conn, faults>> /\ pc = "idle"
    BY <1>3 DEF Call, store, link
  <2>2. OnlyAfterSuccess'
    BY <2>1 DEF Progress, OnlyAfterSuccess, LaterPcs
  <2>3. NothingDoneYet'
    BY <2>1 DEF NothingDoneYet, FirstPcs, OutsideTransaction
  <2>4. UpdateSoFar' /\ InsertSoFar' /\ DeleteSoFar' /\ ReadyToCommit' /\ RefusedForAReason'
    BY <2>1 DEF UpdateSoFar, InsertSoFar, DeleteSoFar, ReadyToCommit, RefusedForAReason
  <2> QED BY <2>2, <2>3, <2>4 DEF Progress
<1>4. CASE Begin
  <2>1. /\ pc' \in {"SelectMemoTagIds", "UpdateTagTable", "InsertMemo",
                    "DeleteTaggedOfMemo", "DeleteTaggedOfTag"}
        /\ UNCHANGED <<disk, work, conn, call, faults>> /\ pc = "begin"
    BY <1>4 DEF Begin, FirstStatement, TypeOK, PcMatchesCall, Calls, UpdateMemoCalls, link,
       UpdateTagCalls, InsertMemoCalls, InsertTagCalls, DeleteMemoCalls, DeleteTagCalls
  <2>2. OnlyAfterSuccess'
    BY <2>1 DEF Progress, OnlyAfterSuccess, LaterPcs
  <2>3. NothingDoneYet'
    BY <2>1 DEF Progress, NothingDoneYet, FirstPcs
  <2>4. UpdateSoFar' /\ InsertSoFar' /\ DeleteSoFar' /\ ReadyToCommit' /\ RefusedForAReason'
    BY <2>1 DEF UpdateSoFar, InsertSoFar, DeleteSoFar, ReadyToCommit, RefusedForAReason
  <2> QED BY <2>2, <2>3, <2>4 DEF Progress
<1>5. CASE Commit \/ Rollback \/ Return \/ StepInsertTag
  <2>1. pc' \in {"idle", "return"} /\ conn' = conn
    BY <1>5 DEF Commit, Rollback, Return, StepInsertTag, link
  <2>2. IF pc' = "idle" THEN call' = NoCall ELSE call' \in Calls
    BY <1>5 DEF Commit, Rollback, Return, StepInsertTag, Progress, NothingDoneYet
  <2> QED BY <2>1, <2>2, OutsideReached
<1>6. CASE StepSelectMemoTagIds
  <2>1. /\ conn # "down" /\ UNCHANGED <<link, call>> /\ pc # "idle" /\ call \in Calls
        /\ conn = "open" => inTx
    BY <1>6 DEF StepSelectMemoTagIds, TypeOK, PcMatchesCall, Progress, NothingDoneYet,
       WritesInTransaction, UpdateMemoPcs
  <2>2. CASE SelectFails /\ pc' = "rollback"
    BY <2>1, <2>2, ReadFailureIsReason, RollbackReached
  <2>3. CASE /\ conn = "open" /\ oldTagIds' = SelectMemoTagIds(work, call.id)
             /\ pc' = "DeleteMemoTagIds" /\ UNCHANGED <<store, faults>>
    <3>1. work = disk /\ UNCHANGED <<disk, work, inTx, conn, call>>
      BY <1>6, <2>1, <2>3 DEF StepSelectMemoTagIds, Progress, NothingDoneYet, FirstPcs, store, link
    <3>2. oldTagIds' = TagsOf(disk', call'.id)
      BY <2>3, <3>1 DEF SelectMemoTagIds
    <3>3. OnlyAfterSuccess' /\ NothingDoneYet' /\ UpdateSoFar'
      BY <2>1, <2>3, <3>1, <3>2 DEF OnlyAfterSuccess, NothingDoneYet, UpdateSoFar, LaterPcs, FirstPcs
    <3>4. InsertSoFar' /\ DeleteSoFar' /\ ReadyToCommit' /\ RefusedForAReason'
      BY <2>3 DEF InsertSoFar, DeleteSoFar, ReadyToCommit, RefusedForAReason
    <3> QED BY <3>3, <3>4 DEF Progress
  <2> QED BY <1>6, <2>2, <2>3 DEF StepSelectMemoTagIds
<1>7. CASE StepDeleteMemoTagIds
  <2> DEFINE tagIds == TagIdsToDelete(oldTagIds, call.tags)
  <2> DEFINE new == DeleteMemoTagIds(work, call.id, tagIds)
  <2>1. /\ conn = "open" /\ inTx /\ UNCHANGED <<link, call, oldTagIds>> /\ pc = "DeleteMemoTagIds"
        /\ work = disk /\ oldTagIds = TagsOf(disk, call.id) /\ call \in Calls
        /\ call.id \in MemoIds /\ tagIds \in SUBSET TagIds
    BY <1>7 DEF StepDeleteMemoTagIds, TypeOK, PcMatchesCall, UpdateMemoPcs, UpdateMemoCalls, Progress,
       OnlyAfterSuccess, LaterPcs, NothingDoneYet, UpdateSoFar, TagIdsToDelete, local
  <2>2. Retagged(disk, new, call.id, oldTagIds \ tagIds)
    BY <2>1, TagsTakenOff DEF TypeOK
  <2>3. \/ pc' = "AddMemoTagIds" /\ tagIds = {} /\ UNCHANGED store
        \/ Exec(TRUE, new, "AddMemoTagIds", "rollback")
    BY <1>7 DEF StepDeleteMemoTagIds
  <2>4. Retagged(disk, disk, call.id, TagsOf(disk, call.id))
    BY DEF Retagged, OthersKept
  <2> HIDE DEF new, tagIds
  <2>5. CASE pc' = "AddMemoTagIds" /\ tagIds = {} /\ UNCHANGED store
    <3>1. work' = disk /\ disk' = disk /\ inTx' /\ oldTagIds \ tagIds = oldTagIds
      BY <2>1, <2>5 DEF store
    <3>2. Retagged(disk', work', call.id, oldTagIds \ tagIds)
      BY <2>1, <2>4, <3>1
    <3> QED BY <2>1, <2>5, <3>1, <3>2 DEF Progress, OnlyAfterSuccess, NothingDoneYet, UpdateSoFar,
               InsertSoFar, DeleteSoFar, ReadyToCommit, RefusedForAReason, LaterPcs, FirstPcs, link, tagIds
  <2>6. CASE Exec(TRUE, new, "AddMemoTagIds", "rollback")
    <3>1. /\ disk' = disk
          /\ \/ pc' = "AddMemoTagIds" /\ work' = new /\ conn' = "open" /\ inTx'
             \/ pc' = "rollback" /\ Refusable'
      BY <2>1, <2>6, ExecOutcome
    <3>2. CASE pc' = "AddMemoTagIds" /\ work' = new /\ conn' = "open" /\ inTx'
      BY <2>1, <2>2, <3>1, <3>2 DEF Progress, OnlyAfterSuccess, NothingDoneYet, UpdateSoFar,
         InsertSoFar, DeleteSoFar, ReadyToCommit, RefusedForAReason, LaterPcs, FirstPcs, link, tagIds
    <3> QED BY <2>1, <3>1, <3>2, RollbackReached
  <2> QED BY <2>3, <2>5, <2>6
<1>8. CASE StepAddMemoTagIds
  <2> DEFINE copies == TagIdsToAdd(oldTagIds, call.tags)
  <2> DEFINE new == InsertMemoTagIds(work, call.id, copies)
  <2> DEFINE kept == oldTagIds \ TagIdsToDelete(oldTagIds, call.tags)
  <2>1. /\ conn = "open" /\ inTx /\ UNCHANGED <<link, call>> /\ pc = "AddMemoTagIds"
        /\ Retagged(disk, work, call.id, kept) /\ call \in Calls /\ call \in UpdateMemoCalls
        /\ call.id \in MemoIds /\ call.tags \in TagLists /\ oldTagIds \in SUBSET TagIds
    BY <1>8 DEF StepAddMemoTagIds, TypeOK, PcMatchesCall, UpdateMemoPcs, UpdateMemoCalls, Progress,
       OnlyAfterSuccess, LaterPcs, NothingDoneYet, UpdateSoFar
  <2>2. /\ Named(copies) \subseteq Named(call.tags)
        /\ kept \cup Named(copies) = Named(call.tags)
        /\ copies \in [TagIds -> Nat]
    BY <2>1, TagsReplaced, TagIdsToAddType
  <2>3. Retagged(work, new, call.id, TagsOf(work, call.id) \cup Named(copies))
    BY <2>1, <2>2, TagsAdded DEF TypeOK
  <2>4. Retagged(disk, new, call.id, Named(call.tags))
    BY <2>1, <2>2, <2>3 DEF Retagged, OthersKept
  <2>5. CanDo(call, disk) => CanInsertMemoTagIds(work, call.id, copies, enforced)
    BY <2>1, <2>2 DEF CanDo, CanInsertMemoTagIds, Named, Retagged, OthersKept
  <2>6. CASE (\A t \in TagIds : copies[t] = 0) /\ pc' = "UpdateMemoTable" /\ UNCHANGED <<store, faults>>
    <3>1. Named(copies) = {}
      BY <2>6 DEF Named
    <3>2. Retagged(disk, work, call.id, Named(call.tags))
      BY <2>1, <2>2, <3>1
    <3>3. UNCHANGED <<disk, work, inTx, conn, call>> /\ pc' = "UpdateMemoTable"
      BY <2>1, <2>6 DEF store, link
    <3> QED BY <2>1, <3>2, <3>3 DEF Progress, OnlyAfterSuccess, NothingDoneYet, UpdateSoFar,
               InsertSoFar, DeleteSoFar, ReadyToCommit, RefusedForAReason, LaterPcs, FirstPcs
  <2> HIDE DEF new, copies, kept
  <2>7. CASE Exec(CanInsertMemoTagIds(work, call.id, copies, enforced), new, "UpdateMemoTable", "rollback")
    <3>1. /\ disk' = disk
          /\ \/ pc' = "UpdateMemoTable" /\ work' = new /\ conn' = "open" /\ inTx'
             \/ pc' = "rollback" /\ Refusable'
      BY <2>1, <2>5, <2>7, ExecOutcome
    <3>2. CASE pc' = "UpdateMemoTable" /\ work' = new /\ conn' = "open" /\ inTx'
      BY <2>1, <2>4, <3>1, <3>2 DEF Progress, OnlyAfterSuccess, NothingDoneYet, UpdateSoFar,
         InsertSoFar, DeleteSoFar, ReadyToCommit, RefusedForAReason, LaterPcs, FirstPcs, link
    <3> QED BY <2>1, <3>1, <3>2, RollbackReached
  <2> QED BY <1>8, <2>6, <2>7 DEF StepAddMemoTagIds, ExecInsertMemoTagIds, new, copies
<1>9. CASE StepUpdateMemoTable
  <2> DEFINE new == UpdateMemoTable(work, call.text, call.id)
  <2>1. /\ conn = "open" /\ inTx /\ UNCHANGED <<link, call>> /\ pc = "UpdateMemoTable"
        /\ Retagged(disk, work, call.id, Named(call.tags))
        /\ call \in Calls /\ call \in UpdateMemoCalls
    BY <1>9 DEF StepUpdateMemoTable, TypeOK, PcMatchesCall, UpdateMemoPcs, Progress,
       OnlyAfterSuccess, LaterPcs, NothingDoneYet, UpdateSoFar
  <2>2. CanDo(call, disk) => CanUpdateRow(work.memo, call.text, call.id)
    BY <2>1 DEF CanDo, Retagged
  <2>3. CanUpdateRow(work.memo, call.text, call.id) => MemoUpdated(call, disk, new)
    BY <2>1 DEF MemoUpdated, Retagged, OthersKept, UpdateMemoTable, TypeOK, Tables, TagsOf
  <2>4. CanUpdateRow(work.memo, call.text, call.id) => Done(call, disk, new)
    BY <2>1, <2>3 DEF Done, UpdateMemoCalls, InsertMemoCalls, UpdateTagCalls, InsertTagCalls,
       DeleteMemoCalls, DeleteTagCalls
  <2> HIDE DEF new
  <2>5. Exec(CanUpdateRow(work.memo, call.text, call.id), new, "commit", "rollback")
    BY <1>9 DEF StepUpdateMemoTable, new
  <2>6. /\ disk' = disk
        /\ \/ /\ pc' = "commit" /\ work' = new /\ conn' = "open" /\ inTx'
              /\ CanUpdateRow(work.memo, call.text, call.id)
           \/ pc' = "rollback" /\ Refusable'
    BY <2>1, <2>2, <2>5, ExecOutcome
  <2>7. CASE pc' = "commit" /\ work' = new /\ conn' = "open" /\ inTx'
             /\ CanUpdateRow(work.memo, call.text, call.id)
    BY <2>1, <2>4, <2>6, <2>7 DEF Progress, OnlyAfterSuccess, NothingDoneYet, UpdateSoFar,
       InsertSoFar, DeleteSoFar, ReadyToCommit, RefusedForAReason, LaterPcs, FirstPcs, link
  <2> QED BY <2>1, <2>6, <2>7, RollbackReached
<1>10. CASE StepUpdateTagTable
  <2> DEFINE new == UpdateTagTable(work, call.text, call.id)
  <2>1. /\ conn # "down" /\ (conn = "open" => inTx) /\ UNCHANGED <<link, call>> /\ pc = "UpdateTagTable"
        /\ work = disk /\ call \in Calls /\ call \in UpdateTagCalls
    BY <1>10 DEF StepUpdateTagTable, TypeOK, PcMatchesCall, Progress, WritesInTransaction,
       FirstPcs, NothingDoneYet
  <2>2. CanDo(call, disk) => CanUpdateRow(work.tag, call.text, call.id)
    BY <2>1 DEF CanDo
  <2>3. CanUpdateRow(work.tag, call.text, call.id) => Done(call, disk, new)
    BY <2>1 DEF Done, TagUpdated, UpdateMemoCalls, InsertMemoCalls, UpdateTagCalls, InsertTagCalls,
       DeleteMemoCalls, DeleteTagCalls
  <2> HIDE DEF new
  <2>5. Exec(CanUpdateRow(work.tag, call.text, call.id), new, "commit", "rollback")
    BY <1>10 DEF StepUpdateTagTable, new
  <2>6. /\ disk' = disk
        /\ \/ /\ pc' = "commit" /\ work' = new /\ conn' = "open" /\ inTx'
              /\ CanUpdateRow(work.tag, call.text, call.id)
           \/ pc' = "rollback" /\ Refusable'
    BY <2>1, <2>2, <2>5, ExecOutcome
  <2>7. CASE pc' = "commit" /\ work' = new /\ conn' = "open" /\ inTx'
             /\ CanUpdateRow(work.tag, call.text, call.id)
    BY <2>1, <2>3, <2>6, <2>7 DEF Progress, OnlyAfterSuccess, NothingDoneYet, UpdateSoFar,
       InsertSoFar, DeleteSoFar, ReadyToCommit, RefusedForAReason, LaterPcs, FirstPcs, link
  <2> QED BY <2>1, <2>6, <2>7, RollbackReached
<1>11. CASE StepInsertMemo
  <2>1. /\ conn # "down" /\ (conn = "open" => inTx) /\ UNCHANGED <<link, call>>
        /\ pc = "InsertMemo" /\ pc' = "SelectMemoId"
        /\ work = disk /\ call \in Calls /\ call \in InsertMemoCalls
    BY <1>11 DEF StepInsertMemo, TypeOK, PcMatchesCall, Progress, WritesInTransaction, InsertMemoPcs,
       FirstPcs, NothingDoneYet
  <2>2. CASE /\ \E id \in MemoIds : Succeeds(CanInsertRow(work.memo, call.text, id),
                                             InsertMemo(work, call.text, id))
             /\ inserted' = TRUE
    <3>1. PICK id \in MemoIds : Succeeds(CanInsertRow(work.memo, call.text, id),
                                         InsertMemo(work, call.text, id))
      BY <2>2
    <3>2. /\ work' = InsertMemo(disk, call.text, id) /\ disk' = disk
          /\ CanInsertRow(disk.memo, call.text, id) /\ conn = "open" /\ inTx /\ inTx'
      BY <2>1, <3>1 DEF Succeeds, Write
    <3>3. MemoInserted(call, disk, work', id)
      BY <3>2 DEF MemoInserted, InsertMemo, OthersKept, TypeOK, Tables, MemoTable, TagsOf
    <3>4. id \notin Rows(disk.memo)
      BY <3>2, SchemaAssumption DEF CanInsertRow, IsNextId
    <3>5. TagsOf(disk, id) = {}
      BY <3>4, NoRowNoTags DEF TypeOK, Guarded, IntegrityKept
    <3>6. TagsOf(work', id) = {}
      BY <3>2, <3>5 DEF InsertMemo, TagsOf, TypeOK, Tables
    <3>7. InsertSoFar'
      BY <2>1, <3>2, <3>3, <3>6 DEF InsertSoFar
    <3>8. OnlyAfterSuccess'
      BY <2>1, <3>2 DEF Progress, OnlyAfterSuccess, link
    <3>9. NothingDoneYet' /\ UpdateSoFar' /\ DeleteSoFar' /\ ReadyToCommit' /\ RefusedForAReason'
      BY <2>1, <2>2 DEF NothingDoneYet, UpdateSoFar, DeleteSoFar, ReadyToCommit, RefusedForAReason, FirstPcs
    <3> QED BY <3>7, <3>8, <3>9 DEF Progress
  <2>3. CASE Fails(\E id \in MemoIds : CanInsertRow(work.memo, call.text, id)) /\ inserted' = FALSE
    <3>1. (\E id \in MemoIds : CanInsertRow(work.memo, call.text, id)) \/ ~CanDo(call, disk)
      BY <2>1 DEF CanDo
    <3>2. disk' = disk
      BY <2>3 DEF Fails, Undone, RolledBack, store
    <3>3. Refusable'
      BY <2>1, <2>3, <3>1, <3>2, FailureIsReason
    <3>4. faults \in Nat /\ faults' \in Nat /\ faults' >= faults
      BY FaultsStay DEF TypeOK
    <3>5. OnlyAfterSuccess'
      BY <2>1, <2>3, <3>4 DEF Progress, OnlyAfterSuccess, link, LaterPcs
    <3>6. NothingDoneYet' /\ UpdateSoFar' /\ InsertSoFar' /\ DeleteSoFar' /\ ReadyToCommit'
      BY <2>1, <2>3 DEF NothingDoneYet, UpdateSoFar, InsertSoFar, DeleteSoFar, ReadyToCommit, FirstPcs
    <3>7. RefusedForAReason'
      BY <3>3 DEF RefusedForAReason
    <3> QED BY <3>5, <3>6, <3>7 DEF Progress
  <2> QED BY <1>11, <2>2, <2>3 DEF StepInsertMemo
<1>12. CASE StepSelectMemoId
  <2>1. /\ conn # "down" /\ (inserted => conn = "open" /\ inTx) /\ UNCHANGED <<link, call, inserted>>
        /\ pc = "SelectMemoId" /\ call \in Calls /\ call \in InsertMemoCalls
        /\ pc' = IF ~inserted \/ memoId' = NoMemoId THEN "rollback" ELSE "InsertMemoTagIds"
    BY <1>12 DEF StepSelectMemoId, TypeOK, PcMatchesCall, Progress, OnlyAfterSuccess, InsertMemoPcs,
       NothingDoneYet
  <2>2. disk' = disk
    BY <1>12 DEF StepSelectMemoId, SelectFails, SelectBreaksOff, Undone, RolledBack, store
  <2>3. CASE ~inserted
    <3>1. pc' = "rollback" /\ Refusable
      BY <2>1, <2>3 DEF Progress, RefusedForAReason
    <3>2. faults \in Nat /\ faults' \in Nat /\ faults' >= faults
      BY FaultsStay DEF TypeOK
    <3>3. Refusable'
      BY <2>1, <2>2, <3>1, <3>2 DEF Refusable
    <3> QED BY <2>1, <3>1, <3>3, RollbackReached
  <2>4. CASE inserted /\ SelectFails /\ memoId' = NoMemoId
    BY <2>1, <2>4, ReadFailureIsReason, RollbackReached
  <2>5. CASE inserted /\ UNCHANGED store /\ (\/ IsSelectedMemoId(work, call.text, memoId')
                                             \/ memoId' \in MatchingMemoIds(work, call.text))
    <3>1. PICK id \in MemoIds : MemoInserted(call, disk, work, id) /\ TagsOf(work, id) = {}
      BY <2>1, <2>5 DEF Progress, InsertSoFar
    <3>2. memoId' \in MatchingMemoIds(work, call.text)
      BY <2>1, <2>5, <3>1, InsertedIsFound DEF IsSelectedMemoId
    <3>3. memoId' # NoMemoId
      BY <3>2, SchemaAssumption DEF MatchingMemoIds, Rows, NoMemoId, TypeOK, Tables, MemoTable
    <3>4. pc' = "InsertMemoTagIds" /\ UNCHANGED <<disk, work, inTx, conn, call>>
      BY <2>1, <2>5, <3>3 DEF store, link
    <3>5. InsertSoFar'
      BY <3>1, <3>2, <3>4 DEF InsertSoFar, MatchingMemoIds, TagsOf
    <3>6. OnlyAfterSuccess'
      BY <2>1, <2>5, <3>4 DEF OnlyAfterSuccess
    <3>7. NothingDoneYet' /\ UpdateSoFar' /\ DeleteSoFar' /\ ReadyToCommit' /\ RefusedForAReason'
      BY <2>1, <3>4 DEF NothingDoneYet, UpdateSoFar, DeleteSoFar, ReadyToCommit, RefusedForAReason, FirstPcs
    <3> QED BY <3>5, <3>6, <3>7 DEF Progress
  <2>6. SelectBreaksOff => UNCHANGED store
    BY DEF SelectBreaksOff, Fault, Dependable
  <2> QED BY <1>12, <2>3, <2>4, <2>5, <2>6 DEF StepSelectMemoId
<1>13. CASE StepInsertMemoTagIds
  <2> DEFINE new == InsertMemoTagIds(work, memoId, call.tags)
  <2>1. /\ conn = "open" /\ inTx /\ UNCHANGED <<link, call>> /\ pc = "InsertMemoTagIds"
        /\ call \in Calls /\ call \in InsertMemoCalls /\ memoId \in MemoIds
        /\ call.tags \in [TagIds -> Nat]
        /\ memoId \in MatchingMemoIds(work, call.text) /\ memoId \in Rows(work.memo)
    BY <1>13, DatabaseAssumption DEF StepInsertMemoTagIds, TypeOK, PcMatchesCall, InsertMemoPcs,
       InsertMemoCalls, Progress, OnlyAfterSuccess, LaterPcs, NothingDoneYet, InsertSoFar,
       MatchingMemoIds
  <2>2. PICK id \in MemoIds : MemoInserted(call, disk, work, id) /\ TagsOf(work, id) = {}
    BY <2>1 DEF Progress, InsertSoFar
  <2>3. Retagged(work, new, memoId, TagsOf(work, memoId) \cup Named(call.tags))
    BY <2>1, TagsAdded DEF TypeOK
  <2>4. \A db : Retagged(work, db, memoId, TagsOf(work, memoId) \cup Named(call.tags))
                   => MemoAdded(call, disk, db, id, memoId)
    BY <2>1, <2>2 DEF MemoAdded, MemoInserted, Retagged, OthersKept, MatchingMemoIds
  <2>5. CanDo(call, disk) => CanInsertMemoTagIds(work, memoId, call.tags, enforced)
    BY <2>1, <2>2 DEF CanDo, CanInsertMemoTagIds, Named, MemoInserted, OthersKept
  <2>6. \A db : MemoAdded(call, disk, db, id, memoId) => Done(call, disk, db)
    BY <2>1 DEF Done, UpdateMemoCalls, InsertMemoCalls, UpdateTagCalls, InsertTagCalls,
       DeleteMemoCalls, DeleteTagCalls
  <2>7. CASE (\A t \in TagIds : call.tags[t] = 0) /\ pc' = "commit" /\ UNCHANGED <<store, faults>>
    <3>1. Done(call, disk, work)
      <4>1. Named(call.tags) = {}
        BY <2>7 DEF Named
      <4>2. Retagged(work, work, memoId, TagsOf(work, memoId) \cup Named(call.tags))
        BY <4>1 DEF Retagged, OthersKept
      <4> QED BY <2>4, <2>6, <4>2
    <3>2. UNCHANGED <<disk, work, inTx, conn, call>> /\ pc' = "commit"
      BY <2>1, <2>7 DEF store, link
    <3> QED BY <2>1, <3>1, <3>2 DEF Progress, OnlyAfterSuccess, NothingDoneYet, UpdateSoFar,
               InsertSoFar, DeleteSoFar, ReadyToCommit, RefusedForAReason, LaterPcs, FirstPcs
  <2> HIDE DEF new
  <2>8. CASE Exec(CanInsertMemoTagIds(work, memoId, call.tags, enforced), new, "commit", "rollback")
    <3>1. /\ disk' = disk
          /\ \/ pc' = "commit" /\ work' = new /\ conn' = "open" /\ inTx'
             \/ pc' = "rollback" /\ Refusable'
      BY <2>1, <2>5, <2>8, ExecOutcome
    <3>2. Done(call, disk, new)
      BY <2>3, <2>4, <2>6
    <3>3. CASE pc' = "commit" /\ work' = new /\ conn' = "open" /\ inTx'
      BY <2>1, <3>1, <3>2, <3>3 DEF Progress, OnlyAfterSuccess, NothingDoneYet, UpdateSoFar,
         InsertSoFar, DeleteSoFar, ReadyToCommit, RefusedForAReason, LaterPcs, FirstPcs, link
    <3> QED BY <2>1, <3>1, <3>3, RollbackReached
  <2> QED BY <1>13, <2>7, <2>8 DEF StepInsertMemoTagIds, ExecInsertMemoTagIds, new
<1>14. CASE StepDeleteTaggedOfMemo
  <2>1. /\ conn # "down" /\ (conn = "open" => inTx) /\ UNCHANGED <<link, call>>
        /\ pc = "DeleteTaggedOfMemo" /\ work = disk /\ call \in Calls
        /\ Exec(TRUE, DeleteTaggedOfMemo(work, call.id), "DeleteMemo", "rollback")
    BY <1>14 DEF StepDeleteTaggedOfMemo, TypeOK, PcMatchesCall, Progress, WritesInTransaction,
       DeleteMemoPcs, FirstPcs, NothingDoneYet
  <2>2. /\ disk' = disk
        /\ \/ pc' = "DeleteMemo" /\ work' = DeleteTaggedOfMemo(work, call.id) /\ conn' = "open" /\ inTx'
           \/ pc' = "rollback" /\ Refusable'
    BY <2>1, ExecOutcome
  <2>3. CASE pc' = "DeleteMemo" /\ work' = DeleteTaggedOfMemo(work, call.id) /\ conn' = "open" /\ inTx'
    BY <2>1, <2>2, <2>3 DEF Progress, OnlyAfterSuccess, NothingDoneYet, UpdateSoFar,
       InsertSoFar, DeleteSoFar, ReadyToCommit, RefusedForAReason, LaterPcs, FirstPcs, link
  <2> QED BY <2>1, <2>2, <2>3, RollbackReached
<1>15. CASE StepDeleteMemo
  <2> DEFINE new == DeleteMemo(work, call.id)
  <2>1. /\ conn = "open" /\ inTx /\ UNCHANGED <<link, call>> /\ pc = "DeleteMemo"
        /\ work = DeleteTaggedOfMemo(disk, call.id) /\ call \in Calls /\ call \in DeleteMemoCalls
        /\ Exec(CanDeleteMemo(work, call.id, enforced), new, "commit", "rollback")
    BY <1>15 DEF StepDeleteMemo, TypeOK, PcMatchesCall, Progress, OnlyAfterSuccess, LaterPcs,
       DeleteMemoPcs, NothingDoneYet, DeleteSoFar
  <2>2. CanDeleteMemo(work, call.id, enforced)
    BY <2>1 DEF CanDeleteMemo, DependentsDeletedFirst
  <2>3. Done(call, disk, new)
    BY <2>1 DEF Done, UpdateMemoCalls, InsertMemoCalls, UpdateTagCalls, InsertTagCalls,
       DeleteMemoCalls, DeleteTagCalls
  <2> HIDE DEF new
  <2>4. /\ disk' = disk
        /\ \/ pc' = "commit" /\ work' = new /\ conn' = "open" /\ inTx'
           \/ pc' = "rollback" /\ Refusable'
    BY <2>1, <2>2, ExecOutcome
  <2>5. CASE pc' = "commit" /\ work' = new /\ conn' = "open" /\ inTx'
    BY <2>1, <2>3, <2>4, <2>5 DEF Progress, OnlyAfterSuccess, NothingDoneYet, UpdateSoFar,
       InsertSoFar, DeleteSoFar, ReadyToCommit, RefusedForAReason, LaterPcs, FirstPcs, link
  <2> QED BY <2>1, <2>4, <2>5, RollbackReached
<1>16. CASE StepDeleteTaggedOfTag
  <2>1. /\ conn # "down" /\ (conn = "open" => inTx) /\ UNCHANGED <<link, call>>
        /\ pc = "DeleteTaggedOfTag" /\ work = disk /\ call \in Calls
        /\ Exec(TRUE, DeleteTaggedOfTag(work, call.id), "DeleteTag", "rollback")
    BY <1>16 DEF StepDeleteTaggedOfTag, TypeOK, PcMatchesCall, Progress, WritesInTransaction,
       DeleteTagPcs, FirstPcs, NothingDoneYet
  <2>2. /\ disk' = disk
        /\ \/ pc' = "DeleteTag" /\ work' = DeleteTaggedOfTag(work, call.id) /\ conn' = "open" /\ inTx'
           \/ pc' = "rollback" /\ Refusable'
    BY <2>1, ExecOutcome
  <2>3. CASE pc' = "DeleteTag" /\ work' = DeleteTaggedOfTag(work, call.id) /\ conn' = "open" /\ inTx'
    BY <2>1, <2>2, <2>3 DEF Progress, OnlyAfterSuccess, NothingDoneYet, UpdateSoFar,
       InsertSoFar, DeleteSoFar, ReadyToCommit, RefusedForAReason, LaterPcs, FirstPcs, link
  <2> QED BY <2>1, <2>2, <2>3, RollbackReached
<1>17. CASE StepDeleteTag
  <2> DEFINE new == DeleteTag(work, call.id)
  <2>1. /\ conn = "open" /\ inTx /\ UNCHANGED <<link, call>> /\ pc = "DeleteTag"
        /\ work = DeleteTaggedOfTag(disk, call.id) /\ call \in Calls /\ call \in DeleteTagCalls
        /\ Exec(CanDeleteTag(work, call.id, enforced), new, "commit", "rollback")
    BY <1>17 DEF StepDeleteTag, TypeOK, PcMatchesCall, Progress, OnlyAfterSuccess, LaterPcs,
       DeleteTagPcs, NothingDoneYet, DeleteSoFar
  <2>2. CanDeleteTag(work, call.id, enforced)
    BY <2>1 DEF CanDeleteTag, DependentsDeletedFirst
  <2>3. Done(call, disk, new)
    BY <2>1 DEF Done, UpdateMemoCalls, InsertMemoCalls, UpdateTagCalls, InsertTagCalls,
       DeleteMemoCalls, DeleteTagCalls
  <2> HIDE DEF new
  <2>4. /\ disk' = disk
        /\ \/ pc' = "commit" /\ work' = new /\ conn' = "open" /\ inTx'
           \/ pc' = "rollback" /\ Refusable'
    BY <2>1, <2>2, ExecOutcome
  <2>5. CASE pc' = "commit" /\ work' = new /\ conn' = "open" /\ inTx'
    BY <2>1, <2>3, <2>4, <2>5 DEF Progress, OnlyAfterSuccess, NothingDoneYet, UpdateSoFar,
       InsertSoFar, DeleteSoFar, ReadyToCommit, RefusedForAReason, LaterPcs, FirstPcs, link
  <2> QED BY <2>1, <2>4, <2>5, RollbackReached
<1>18. CASE UNCHANGED vars
  BY <1>18 DEF vars, store, link, local, Progress, OnlyAfterSuccess, NothingDoneYet, UpdateSoFar,
     InsertSoFar, DeleteSoFar, ReadyToCommit, RefusedForAReason, Refusable
<1> QED
  BY <1>1, <1>2, <1>3, <1>4, <1>5, <1>6, <1>7, <1>8, <1>9, <1>10, <1>11, <1>12, <1>13, <1>14,
     <1>15, <1>16, <1>17, <1>18 DEF Next, Advance, UpdateMemo, InsertMemoSteps, DeleteSteps

\* The invariants of the other proofs, and how far the operation has come.
LEMMA InvariantHolds ==
  ASSUME Dependable
  PROVE  Spec => [](Known /\ DependentsDeletedFirst /\ Progress)
<1>1. Init => OutsideTransaction
  BY DEF Init, OutsideTransaction
<1>2. TypeOK /\ WritesInTransaction /\ OutsideTransaction /\ [Next]_vars => OutsideTransaction'
  BY OutsideStep DEF Dependable
<1>3. Init => Guarded
  BY EmptyTablesIntegrity DEF Init, Guarded, IntegrityKept
<1>4. TypeOK /\ Guarded /\ [Next]_vars => Guarded'
  BY IntegrityStep DEF Dependable
<1>5. Init => Progress
  BY DEF Init, Progress, OnlyAfterSuccess, NothingDoneYet, UpdateSoFar, InsertSoFar, DeleteSoFar,
     ReadyToCommit, RefusedForAReason, LaterPcs, FirstPcs
<1>6. Known /\ Known' /\ DependentsDeletedFirst /\ Progress /\ [Next]_vars => Progress'
  BY ProgressStep
<1>7. Known <=> TypeOK /\ WritesInTransaction /\ OutsideTransaction /\ Guarded
  BY DEF Known
<1> QED
  BY <1>1, <1>2, <1>3, <1>4, <1>5, <1>6, <1>7, TypeCorrect, TransactionDiscipline, DependentsFirst,
     PTL DEF Spec

-----------------------------------------------------------------------------
(* The refinement *)

\* A step that changes neither the disk, the call nor its phase.
LEMMA StutterStep ==
  ASSUME faults \in Nat, faults' \in Nat, faults' >= faults,
         disk' = disk, call' = call, Phase' = Phase
  PROVE  Store!Degrade \/ UNCHANGED Store!vars
  BY DEF Store!Degrade, Store!vars, Store!contents

LEMMA DegradesOnly ==
  ASSUME faults \in Nat, faults' \in Nat, faults' >= faults
  PROVE  Store!MayDegrade
<1> DEFINE before == faults > 0
<1> DEFINE after == faults' > 0
<1>1. before \in BOOLEAN /\ after \in BOOLEAN /\ (before => after)
  OBVIOUS
<1> HIDE DEF before, after
<1>2. after \in {before, TRUE}
  BY <1>1, Zenon
<1> QED BY <1>2, Zenon DEF Store!MayDegrade, before, after

LEMMA SameContents ==
  ASSUME disk' = disk
  PROVE  UNCHANGED Store!contents
  BY DEF Store!contents

LEMMA RefusesStep ==
  ASSUME Dependable, Known, disk' = disk, call' = call, call \in Calls, Refusable',
         Phase = "pending", Phase' = "refused", faults \in Nat, faults' \in Nat, faults' >= faults
  PROVE  Store!Refuse
<1>1. faults' > 0 \/ ~Store!Possible(call)
  BY PossibleCanBeDone DEF Refusable, Known, TypeOK, Guarded, IntegrityKept
<1>2. UNCHANGED Store!contents /\ Store!MayDegrade
  BY SameContents, DegradesOnly
<1> QED BY <1>1, <1>2 DEF Store!Refuse

LEMMA RefinementStep ==
  ASSUME Dependable, Known, Known', Progress, Progress', [Next]_vars
  PROVE  Store!Next \/ UNCHANGED Store!vars
<1>1. faults \in Nat /\ faults' \in Nat /\ faults' >= faults
  BY FaultsStay DEF Known, TypeOK
<1>2. Store!MayDegrade
  BY <1>1, DegradesOnly
<1>3. disk' # disk => pc \in {"commit", "InsertTag"}
  BY TxStep DEF Known, TagsAlone, MayBeUndone, Dependable
<1>4. CASE Open
  BY <1>1, <1>4, StutterStep DEF Open, Phase, store, Store!Next
<1>5. CASE Crash
  <2>1. CASE pc = "idle"
    BY <1>1, <1>5, <2>1, StutterStep DEF Crash, Phase, Store!Next, Progress, NothingDoneYet
  <2>2. CASE pc # "idle"
    <3>1. Phase # "idle" /\ Phase' = "idle" /\ call' = NoCall /\ disk' = disk
      BY <1>5, <2>2 DEF Crash, Phase
    <3> QED BY <1>2, <3>1, SameContents DEF Store!Finish, Store!Next
  <2> QED BY <2>1, <2>2
<1>6. CASE Call
  <2>1. Phase = "idle" /\ Phase' = "pending" /\ call' \in Calls /\ disk' = disk
    BY <1>6 DEF Call, Phase, store
  <2> QED BY <1>2, <2>1, SameContents DEF Store!Receive, Store!Next
<1>7. CASE Begin \/ UpdateMemo \/ StepUpdateTagTable \/ InsertMemoSteps \/ DeleteSteps
  <2>1. pc \notin {"idle", "return", "commit", "InsertTag"} /\ call' = call
    BY <1>7 DEF Begin, UpdateMemo, StepSelectMemoTagIds, StepDeleteMemoTagIds, StepAddMemoTagIds,
       StepUpdateMemoTable, StepUpdateTagTable, InsertMemoSteps, StepInsertMemo,
       StepSelectMemoId, StepInsertMemoTagIds, DeleteSteps, StepDeleteTaggedOfMemo,
       StepDeleteMemo, StepDeleteTaggedOfTag, StepDeleteTag
  <2>2. pc' \notin {"idle", "return"}
    <3>1. CASE Begin
      BY <3>1 DEF Begin, FirstStatement, Known, TypeOK, PcMatchesCall, Calls, UpdateMemoCalls,
         UpdateTagCalls, InsertMemoCalls, InsertTagCalls, DeleteMemoCalls, DeleteTagCalls
    <3>2. CASE UpdateMemo \/ StepUpdateTagTable \/ InsertMemoSteps \/ DeleteSteps
      BY <3>2 DEF UpdateMemo, StepSelectMemoTagIds, StepDeleteMemoTagIds, StepAddMemoTagIds,
         StepUpdateMemoTable, StepUpdateTagTable, InsertMemoSteps, StepInsertMemo,
         StepSelectMemoId, StepInsertMemoTagIds, DeleteSteps, StepDeleteTaggedOfMemo,
         StepDeleteMemo, StepDeleteTaggedOfTag, StepDeleteTag, ExecInsertMemoTagIds, Exec
    <3> QED BY <1>7, <3>1, <3>2
  <2>3. Phase' = Phase
    BY <2>1, <2>2 DEF Phase
  <2> QED BY <1>1, <1>3, <2>1, <2>3, StutterStep DEF Store!Next
<1>8. CASE Commit
  <2>1. conn = "open" /\ inTx /\ call \in Calls /\ Done(call, disk, work)
    BY <1>8 DEF Commit, Progress, OnlyAfterSuccess, LaterPcs, NothingDoneYet, ReadyToCommit
  <2>2. disk' = work /\ call' = call
    BY <1>8, <2>1 DEF Commit, Fault, Dependable
  <2>3. Store!Effect(call)
    BY <2>1, <2>2, DoneIsEffect DEF Known, TypeOK, Guarded, IntegrityKept
  <2>4. Phase = "pending" /\ Phase' = "applied"
    BY <1>8 DEF Commit, Phase
  <2> QED BY <1>2, <2>2, <2>3, <2>4 DEF Store!Apply, Store!Next
<1>9. CASE Rollback
  <2>1. Refusable /\ call \in Calls /\ UNCHANGED <<disk, call, faults>>
    BY <1>9 DEF Rollback, Progress, RefusedForAReason, NothingDoneYet
  <2>2. Phase = "pending" /\ Phase' = "refused"
    BY <1>9 DEF Rollback, Phase
  <2>3. Refusable'
    BY <2>1 DEF Refusable
  <2> QED BY <1>1, <2>1, <2>2, <2>3, RefusesStep DEF Store!Next
<1>10. CASE StepInsertTag
  <2>1. /\ pc = "InsertTag" /\ pc' = "return" /\ call' = call /\ conn # "down"
        /\ call \in Calls /\ call \in InsertTagCalls /\ work = disk /\ ~inTx
    BY <1>10 DEF StepInsertTag, Progress, NothingDoneYet, FirstPcs, Known, TypeOK, PcMatchesCall,
       OutsideTransaction
  <2>2. CASE /\ \E id \in TagIds : Succeeds(CanInsertRow(work.tag, call.text, id),
                                            InsertTag(work, call.text, id))
             /\ ret' = TRUE
    <3>1. PICK id \in TagIds : CanInsertRow(disk.tag, call.text, id)
                                  /\ disk' = InsertTag(disk, call.text, id)
      BY <2>1, <2>2 DEF Succeeds, Write
    <3>2. Store!InsertTag(call)
      BY <2>1, <3>1, InsertTagIsEffect DEF Known, TypeOK
    <3>3. Store!Effect(call)
      BY <2>1, <3>2, CallsByOp DEF Store!Effect
    <3>4. Phase = "pending" /\ Phase' = "applied"
      BY <2>1, <2>2 DEF Phase
    <3> QED BY <1>2, <2>1, <3>3, <3>4 DEF Store!Apply, Store!Next
  <2>3. CASE Fails(\E id \in TagIds : CanInsertRow(work.tag, call.text, id)) /\ ret' = FALSE
    <3>1. disk' = disk
      BY <2>3 DEF Fails, Undone, RolledBack, store
    <3>2. (\E id \in TagIds : CanInsertRow(work.tag, call.text, id)) \/ ~CanDo(call, disk)
      BY <2>1 DEF CanDo
    <3>3. Refusable'
      BY <2>1, <2>3, <3>1, <3>2, FailureIsReason
    <3>4. Phase = "pending" /\ Phase' = "refused"
      BY <2>1, <2>3 DEF Phase
    <3> QED BY <1>1, <2>1, <3>1, <3>3, <3>4, RefusesStep DEF Store!Next
  <2> QED BY <1>10, <2>2, <2>3 DEF StepInsertTag
<1>11. CASE Return
  <2>1. Phase # "idle" /\ Phase' = "idle" /\ call' = NoCall /\ disk' = disk
    BY <1>11 DEF Return, Phase, store
  <2> QED BY <1>2, <2>1, SameContents DEF Store!Finish, Store!Next
<1>12. CASE UNCHANGED vars
  BY <1>1, <1>12, StutterStep DEF vars, store, Phase, Store!Next
<1> QED
  BY <1>4, <1>5, <1>6, <1>7, <1>8, <1>9, <1>10, <1>11, <1>12 DEF Next, Advance

\* The six operations act as the atomic store that IDatabase promises: each takes effect
\* at its COMMIT, at once and completely, or never, whichever statements fail and
\* whenever the process is killed, and without a fault only the impossible is refused.
THEOREM ActsAsMemoStore ==
  ASSUME Dependable
  PROVE  Spec => ImplementsMemoStore
<1>1. Init => Store!Init
  <2> SUFFICES ASSUME Init PROVE Store!Init
    OBVIOUS
  <2>1. ASSUME NEW m \in MemoIds PROVE TagsOf(disk, m) = {}
    <3>1. \A t \in TagIds : disk.tagged[m][t] = 0
      BY DEF Init, EmptyTables
    <3> QED BY <3>1 DEF TagsOf
  <2> QED BY <2>1 DEF Init, EmptyTables, Phase, Store!Init
<1>2. Known /\ Known' /\ Progress /\ Progress' /\ [Next]_vars => [Store!Next]_(Store!vars)
  BY RefinementStep
<1> QED
  BY <1>1, <1>2, InvariantHolds, PTL DEF Spec, Store!Spec, ImplementsMemoStore

-----------------------------------------------------------------------------
(* What an operation reports is on the disk *)

LEMMA DoneIsDurable ==
  ASSUME Store!LikeIsExact,
         disk \in Tables, disk' \in Tables, call \in Calls, call' = call, Done(call, disk, disk')
  PROVE  TrueMeansDurable'
<1> USE CallsByOp DEF Tables, MemoTable, TagTable
<1>1. ASSUME call.op = "insertMemo"
      PROVE  \E m \in MemoIds : disk'.memo[m] = call.text /\ TagsOf(disk', m) = Named(call.tags)
  <2>1. PICK id, m \in MemoIds : MemoAdded(call, disk, disk', id, m)
    BY <1>1 DEF Done
  <2>2. /\ \A i \in Rows(disk.memo) : disk.memo[i] # call.text
        /\ disk'.memo = [disk.memo EXCEPT ![id] = call.text]
    BY <2>1 DEF MemoAdded, CanInsertRow
  <2>3. <<call.text, disk'.memo[m]>> \in Like /\ m \in Rows(disk'.memo)
    BY <2>1 DEF MemoAdded, MatchingMemoIds
  <2>4. call.text = disk'.memo[m]
    BY <2>3 DEF Store!LikeIsExact
  <2>5. m = id
    BY <2>2, <2>3, <2>4 DEF Rows
  <2> QED BY <2>1, <2>4, <2>5 DEF MemoAdded
<1>2. ASSUME call.op = "updateMemo", call.id \in Rows(disk'.memo)
      PROVE  disk'.memo[call.id] = call.text /\ TagsOf(disk', call.id) = Named(call.tags)
  <2>1. MemoUpdated(call, disk, disk') /\ call.id \in MemoIds
    BY <1>2 DEF Done, UpdateMemoCalls
  <2> QED BY <1>2, <2>1 DEF MemoUpdated, UpdateRow, Rows
<1>3. call.op # "insertTag"
  BY DEF Done
<1>4. ASSUME call.op = "updateTag"
      PROVE  disk'.tag[call.id] \in {call.text, NoRow}
  <2>1. TagUpdated(call, disk, disk') /\ call.id \in TagIds
    BY <1>4 DEF Done, UpdateTagCalls
  <2> QED BY <2>1 DEF TagUpdated, UpdateTagTable, UpdateRow, Rows
<1>5. ASSUME call.op = "deleteMemo"
      PROVE  disk'.memo[call.id] = NoRow /\ TagsOf(disk', call.id) = {}
  <2>1. disk' = DeleteMemo(DeleteTaggedOfMemo(disk, call.id), call.id) /\ call.id \in MemoIds
    BY <1>5 DEF Done, DeleteMemoCalls
  <2> QED BY <2>1 DEF DeleteMemo, DeleteTaggedOfMemo, TagsOf, TaggedTable
<1>6. ASSUME call.op = "deleteTag"
      PROVE  disk'.tag[call.id] = NoRow /\ \A m \in MemoIds : call.id \notin TagsOf(disk', m)
  <2>1. disk' = DeleteTag(DeleteTaggedOfTag(disk, call.id), call.id) /\ call.id \in TagIds
    BY <1>6 DEF Done, DeleteTagCalls
  <2>2. disk'.tag = [disk.tag EXCEPT ![call.id] = NoRow]
    BY <2>1 DEF DeleteTag, DeleteTaggedOfTag
  <2>3. disk'.tagged = [m \in MemoIds |-> [disk.tagged[m] EXCEPT ![call.id] = 0]]
    BY <2>1 DEF DeleteTag, DeleteTaggedOfTag
  <2>4. \A m \in MemoIds : disk'.tagged[m][call.id] = 0
    BY <2>1, <2>3 DEF TaggedTable
  <2>5. \A m \in MemoIds : call.id \notin TagsOf(disk', m)
    BY <2>4 DEF TagsOf
  <2> QED BY <2>1, <2>2, <2>5
<1> QED
  BY <1>1, <1>2, <1>3, <1>4, <1>5, <1>6
     DEF TrueMeansDurable, InsertMemoDone, UpdateMemoDone, TagDone, DeleteDone

LEMMA DurableStep ==
  ASSUME Dependable, Store!LikeIsExact, Known, Known', Progress, TrueMeansDurable, [Next]_vars
  PROVE  TrueMeansDurable'
<1> USE DEF TrueMeansDurable, InsertMemoDone, UpdateMemoDone, TagDone, DeleteDone
<1>1. CASE pc' # "return" \/ ~ret'
  BY <1>1
<1>2. CASE Commit
  <2>1. conn = "open" /\ inTx /\ call \in Calls /\ Done(call, disk, work)
    BY <1>2 DEF Commit, Progress, OnlyAfterSuccess, LaterPcs, NothingDoneYet, ReadyToCommit
  <2>2. disk' = work /\ call' = call
    BY <1>2, <2>1 DEF Commit, Fault, Dependable
  <2> HIDE DEF TrueMeansDurable
  <2> QED BY <2>1, <2>2, DoneIsDurable DEF Known, TypeOK
<1>3. CASE StepInsertTag /\ ret'
  <2>1. /\ call' = call /\ call \in Calls /\ call \in InsertTagCalls /\ work = disk /\ ~inTx
    BY <1>3 DEF StepInsertTag, Progress, NothingDoneYet, FirstPcs, Known, TypeOK, PcMatchesCall,
       OutsideTransaction
  <2>2. PICK id \in TagIds : disk' = InsertTag(disk, call.text, id)
    BY <1>3, <2>1 DEF StepInsertTag, Succeeds, Write
  <2>3. disk'.tag[id] = call.text
    BY <2>2 DEF InsertTag, Known, TypeOK, Tables, TagTable
  <2>4. call'.op = "insertTag"
    BY <2>1, CallsByOp
  <2> QED BY <2>1, <2>3, <2>4
<1>4. CASE Open \/ UNCHANGED vars
  <2>1. UNCHANGED <<disk, pc, call, ret>>
    BY <1>4 DEF Open, vars, store, local
  <2> QED BY <2>1 DEF TagsOf, Rows
<1>5. CASE Rollback \/ Crash \/ Return \/ Call
  <2>1. pc' # "return" \/ ~ret'
    BY <1>5 DEF Rollback, Crash, Return, Call
  <2> QED BY <1>1, <2>1
<1>6. CASE Begin \/ UpdateMemo \/ StepUpdateTagTable \/ InsertMemoSteps \/ DeleteSteps
  <2>1. pc' # "return"
    BY <1>6 DEF Begin, FirstStatement, Known, TypeOK, PcMatchesCall, Calls, UpdateMemoCalls,
       UpdateTagCalls, InsertMemoCalls, InsertTagCalls, DeleteMemoCalls, DeleteTagCalls,
       UpdateMemo, StepSelectMemoTagIds, StepDeleteMemoTagIds, StepAddMemoTagIds,
       StepUpdateMemoTable, StepUpdateTagTable, InsertMemoSteps, StepInsertMemo,
       StepSelectMemoId, StepInsertMemoTagIds, DeleteSteps, StepDeleteTaggedOfMemo,
       StepDeleteMemo, StepDeleteTaggedOfTag, StepDeleteTag, ExecInsertMemoTagIds, Exec
  <2> QED BY <1>1, <2>1
<1> QED
  BY <1>1, <1>2, <1>3, <1>4, <1>5, <1>6 DEF Next, Advance

\* When an operation returns true, a new connection finds its outcome, so that a kill
\* after the reply cannot lose it.  The tags of a new memo are its own if LIKE takes no
\* two titles for the same.
THEOREM TrueIsDurable ==
  ASSUME Dependable, Store!LikeIsExact
  PROVE  Spec => []TrueMeansDurable
<1>1. Init => TrueMeansDurable
  BY DEF Init, TrueMeansDurable, InsertMemoDone, UpdateMemoDone, TagDone, DeleteDone
<1>2. Known /\ Known' /\ Progress /\ TrueMeansDurable /\ [Next]_vars => TrueMeansDurable'
  BY DurableStep
<1> QED
  BY <1>1, <1>2, InvariantHolds, PTL DEF Spec

-----------------------------------------------------------------------------
(* Tags are not repeated *)

Single(db) == \A m \in MemoIds, t \in TagIds : db.tagged[m][t] =< 1

\* A statement that yields tables without a repetition, whatever its outcome.
LEMMA SingleAfterExec ==
  ASSUME Single(disk), Single(work), NEW accepted, NEW db, Succeeds(accepted, db) \/ Fails(accepted),
         Single(db)
  PROVE  Single(disk') /\ Single(work')
  BY DEF Succeeds, Fails, Write, Undone, RolledBack, store

\* Tags the memo does not have yet are added once.
LEMMA SingleAdded ==
  ASSUME NEW db \in Tables, NEW id \in MemoIds, NEW copies \in [TagIds -> Nat], Single(db),
         \A t \in TagIds : copies[t] =< 1 /\ (copies[t] > 0 => t \notin TagsOf(db, id))
  PROVE  Single(InsertMemoTagIds(db, id, copies))
<1>1. \A m \in MemoIds, t \in TagIds : InsertMemoTagIds(db, id, copies).tagged[m][t] =
         db.tagged[m][t] + (IF m = id THEN copies[t] ELSE 0)
  BY DEF InsertMemoTagIds, Tables, TaggedTable
<1>2. ASSUME NEW t \in TagIds PROVE db.tagged[id][t] + copies[t] =< 1
  <2>1. db.tagged[id][t] \in Nat /\ copies[t] \in Nat /\ db.tagged[id][t] =< 1 /\ copies[t] =< 1
    BY DEF Tables, TaggedTable, Single
  <2>2. copies[t] = 0 \/ db.tagged[id][t] = 0
    BY <2>1 DEF TagsOf
  <2> QED BY <2>1, <2>2
<1>3. \A m \in MemoIds, t \in TagIds : db.tagged[m][t] \in Nat /\ db.tagged[m][t] =< 1
  BY DEF Tables, TaggedTable, Single
<1> HIDE DEF InsertMemoTagIds
<1> QED BY <1>1, <1>2, <1>3 DEF Single

\* Statements that add no Tagged row.
LEMMA SingleKept ==
  ASSUME NEW db \in Tables, Single(db)
  PROVE  /\ \A text, id : Single(InsertMemo(db, text, id)) /\ Single(InsertTag(db, text, id))
         /\ \A text, id : Single(UpdateMemoTable(db, text, id)) /\ Single(UpdateTagTable(db, text, id))
         /\ \A id : Single(DeleteMemo(db, id)) /\ Single(DeleteTag(db, id))
         /\ \A id \in MemoIds, tagIds \in SUBSET TagIds : Single(DeleteMemoTagIds(db, id, tagIds))
         /\ \A id \in MemoIds : Single(DeleteTaggedOfMemo(db, id))
         /\ \A id \in TagIds : Single(DeleteTaggedOfTag(db, id))
<1> USE DEF Single, Tables, TaggedTable
<1>1. \A text, id : Single(InsertMemo(db, text, id)) /\ Single(InsertTag(db, text, id))
  BY DEF InsertMemo, InsertTag
<1>2. \A text, id : Single(UpdateMemoTable(db, text, id)) /\ Single(UpdateTagTable(db, text, id))
  BY DEF UpdateMemoTable, UpdateTagTable
<1>3. \A id : Single(DeleteMemo(db, id)) /\ Single(DeleteTag(db, id))
  BY DEF DeleteMemo, DeleteTag
<1>4. \A id \in MemoIds, tagIds \in SUBSET TagIds : Single(DeleteMemoTagIds(db, id, tagIds))
  BY DEF DeleteMemoTagIds
<1>5. \A id \in MemoIds : Single(DeleteTaggedOfMemo(db, id))
  BY DEF DeleteTaggedOfMemo
<1>6. ASSUME NEW id \in TagIds PROVE Single(DeleteTaggedOfTag(db, id))
  <2>1. \A m \in MemoIds, t \in TagIds :
           DeleteTaggedOfTag(db, id).tagged[m][t] \in {db.tagged[m][t], 0}
    BY DEF DeleteTaggedOfTag
  <2> QED BY <2>1
<1> QED BY <1>1, <1>2, <1>3, <1>4, <1>5, <1>6

LEMMA SingleStep ==
  ASSUME TagLists \subseteq [TagIds -> {0, 1}], Store!LikeIsExact,
         Known, Progress, Single(disk), Single(work), [Next]_vars
  PROVE  Single(disk') /\ Single(work')
<1> USE DEF Known, TypeOK, PcMatchesCall, UpdateMemoPcs, InsertMemoPcs, DeleteMemoPcs, DeleteTagPcs
<1>1. CASE Open \/ Crash \/ Call \/ Begin \/ Rollback \/ Return \/ UNCHANGED vars
  BY <1>1 DEF Open, Crash, Call, Begin, Rollback, Return, vars, store
<1>2. CASE Commit
  BY <1>2 DEF Commit, Undone, RolledBack, store
<1>3. CASE StepSelectMemoTagIds \/ StepSelectMemoId
  BY <1>3 DEF StepSelectMemoTagIds, StepSelectMemoId, SelectFails, SelectBreaksOff, Undone,
     RolledBack, store
<1>4. CASE StepDeleteMemoTagIds
  <2>1. Single(DeleteMemoTagIds(work, call.id, TagIdsToDelete(oldTagIds, call.tags)))
    BY <1>4, SingleKept DEF StepDeleteMemoTagIds, UpdateMemoCalls, TagIdsToDelete
  <2> QED BY <1>4, <2>1, SingleAfterExec DEF StepDeleteMemoTagIds, Exec, store
<1>5. CASE StepAddMemoTagIds
  <2> DEFINE copies == TagIdsToAdd(oldTagIds, call.tags)
  <2>1. /\ call.id \in MemoIds /\ call.tags \in TagLists /\ oldTagIds \in SUBSET TagIds
        /\ TagsOf(work, call.id) = oldTagIds \ TagIdsToDelete(oldTagIds, call.tags)
    BY <1>5 DEF StepAddMemoTagIds, UpdateMemoCalls, Progress, UpdateSoFar, Retagged
  <2>2. copies \in [TagIds -> Nat]
    BY <2>1, TagIdsToAddType
  <2>3. ASSUME NEW t \in TagIds
        PROVE  copies[t] =< 1 /\ (copies[t] > 0 => t \notin TagsOf(work, call.id))
    <3>1. call.tags[t] \in {0, 1} /\ copies[t] = IF t \in oldTagIds /\ call.tags[t] > 0
                                                  THEN call.tags[t] - 1 ELSE call.tags[t]
      BY <2>1 DEF TagIdsToAdd
    <3> HIDE DEF copies
    <3>2. copies[t] =< 1 /\ (copies[t] > 0 => t \notin oldTagIds)
      BY <3>1
    <3> QED BY <2>1, <3>2
  <2>4. Single(InsertMemoTagIds(work, call.id, copies))
    <3> HIDE DEF copies
    <3> QED BY <2>1, <2>2, <2>3, SingleAdded
  <2> QED BY <1>5, <2>4, SingleAfterExec DEF StepAddMemoTagIds, ExecInsertMemoTagIds, Exec, store
<1>6. CASE StepInsertMemoTagIds
  <2>0. PICK id \in MemoIds : MemoInserted(call, disk, work, id) /\ TagsOf(work, id) = {}
    BY <1>6 DEF StepInsertMemoTagIds, Progress, InsertSoFar
  <2>1. /\ memoId \in MemoIds /\ call.tags \in [TagIds -> {0, 1}] /\ TagsOf(work, memoId) = {}
    <3>1. memoId \in MatchingMemoIds(work, call.text) /\ call \in InsertMemoCalls
      BY <1>6 DEF StepInsertMemoTagIds, Progress, InsertSoFar
    <3>2. memoId = id
      BY <2>0, <3>1, InsertedIsFound
    <3> QED BY <2>0, <3>1, <3>2 DEF InsertMemoCalls
  <2>2. call.tags \in [TagIds -> Nat] /\ \A t \in TagIds : call.tags[t] =< 1
    BY <2>1
  <2>3. Single(InsertMemoTagIds(work, memoId, call.tags))
    BY <2>1, <2>2, SingleAdded
  <2> QED BY <1>6, <2>3, SingleAfterExec DEF StepInsertMemoTagIds, ExecInsertMemoTagIds, Exec, store
<1>7. CASE StepUpdateMemoTable
  BY <1>7, SingleKept, SingleAfterExec DEF StepUpdateMemoTable, Exec
<1>8. CASE StepUpdateTagTable
  BY <1>8, SingleKept, SingleAfterExec DEF StepUpdateTagTable, Exec
<1>9. CASE StepInsertMemo
  <2>1. (\E db : Single(db) /\ Write(db)) \/ UNCHANGED store \/ Undone
    BY <1>9, SingleKept DEF StepInsertMemo, Succeeds, Fails, store
  <2> QED BY <2>1 DEF Write, Undone, RolledBack, store
<1>10. CASE StepInsertTag
  <2>1. (\E db : Single(db) /\ Write(db)) \/ UNCHANGED store \/ Undone
    BY <1>10, SingleKept DEF StepInsertTag, Succeeds, Fails, store
  <2> QED BY <2>1 DEF Write, Undone, RolledBack, store
<1>11. CASE StepDeleteTaggedOfMemo
  BY <1>11, SingleKept, SingleAfterExec DEF StepDeleteTaggedOfMemo, DeleteMemoCalls, Exec
<1>12. CASE StepDeleteTaggedOfTag
  BY <1>12, SingleKept, SingleAfterExec DEF StepDeleteTaggedOfTag, DeleteTagCalls, Exec
<1>13. CASE StepDeleteMemo
  BY <1>13, SingleKept, SingleAfterExec DEF StepDeleteMemo, Exec
<1>14. CASE StepDeleteTag
  BY <1>14, SingleKept, SingleAfterExec DEF StepDeleteTag, Exec
<1> QED
  BY <1>1, <1>2, <1>3, <1>4, <1>5, <1>6, <1>7, <1>8, <1>9, <1>10, <1>11, <1>12, <1>13, <1>14
     DEF Next, Advance, UpdateMemo, InsertMemoSteps, DeleteSteps

\* As long as no request repeats a tag, no memo carries one twice: a new memo's tags
\* must not go to another memo for that.
THEOREM TagsNotRepeated ==
  ASSUME Dependable, Store!LikeIsExact, TagLists \subseteq [TagIds -> {0, 1}]
  PROVE  Spec => []NoRepeatedTag
<1> DEFINE BothSingle == Single(disk) /\ Single(work)
<1>1. Init => BothSingle
  BY DEF Init, EmptyTables, Single
<1>2. Known /\ Progress /\ BothSingle /\ [Next]_vars => BothSingle'
  BY SingleStep
<1>3. BothSingle => NoRepeatedTag
  BY DEF Single, NoRepeatedTag
<1> HIDE DEF BothSingle
<1> QED
  BY <1>1, <1>2, <1>3, InvariantHolds, PTL DEF Spec

=============================================================================
