---------------------------- MODULE MemoServices ----------------------------
(***************************************************************************)
(* The handlers of MemoService and TagService that change the database     *)
(* (src/server/service), over the store that IDatabase promises: module    *)
(* MemoStore, whose operations Apply and Refuse what a handler asks for.   *)
(*                                                                         *)
(* The server's thread runs one handler at a time.  A handler calls the    *)
(* database several times, each call an operation of its own: it looks a   *)
(* new row up after the insertion, and deletes rows one after the other.   *)
(* Between any two calls a database call may have failed or the process    *)
(* been killed.                                                            *)
(***************************************************************************)
EXTENDS Sqlite3Schema, FiniteSets

CONSTANTS
    TagLists,     \* tag_ids fields of requests: how often each tag id occurs
    Like,         \* the <<pattern, text>> pairs for which "text LIKE 'pattern'" holds
    EmptyText,    \* the empty string, which a filter takes for "no such condition"
    MaxCount,     \* a filter's maxCount: 100
    Requests,     \* the calls of the store
    NoRequest,    \* the store is not called
    NoRq          \* no handler is running

VARIABLES
    memos, tags, tagged,        \* the store's contents
    request, phase, degraded,   \* the call of the store; see MemoStore
    rq,        \* the request whose handler is running
    step,      \* where the handler is
    todo,      \* Remove...: the ids still to delete of those selected
    reply,     \* the response being filled in
    before     \* the contents when the handler started (history)

Store == INSTANCE MemoStore

contents == <<memos, tags, tagged>>
handler  == <<rq, step, todo, reply, before>>
vars     == <<contents, request, phase, degraded, handler>>

-----------------------------------------------------------------------------

AddMemoRqs    == [method : {"AddMemo"}, text : Titles, tags : TagLists]
AddTagRqs     == [method : {"AddTag"}, text : Names]
UpdateMemoRqs == [method : {"UpdateMemo"}, id : MemoIds, text : Titles, tags : TagLists]
UpdateTagRqs  == [method : {"UpdateTag"}, id : TagIds, text : Names]
RemoveMemoRqs == [method : {"RemoveMemo"}, ids : SUBSET MemoIds]
RemoveTagRqs  == [method : {"RemoveTag"}, ids : SUBSET TagIds]

Rqs == AddMemoRqs \cup AddTagRqs \cup UpdateMemoRqs \cup UpdateTagRqs
          \cup RemoveMemoRqs \cup RemoveTagRqs

\* The arguments the handlers can pass to the store.
StoreCalls ==
    [op : {"insertMemo"}, text : Titles, tags : TagLists]
        \cup [op : {"insertTag"}, text : Names]
        \cup [op : {"updateMemo"}, id : MemoIds, text : Titles, tags : TagLists]
        \cup [op : {"updateTag"}, id : TagIds, text : Names]
        \cup [op : {"deleteMemo"}, id : MemoIds]
        \cup [op : {"deleteTag"}, id : TagIds]

ASSUME ServicesAssumption ==
    /\ TagLists \subseteq [TagIds -> Nat]
    /\ Like \subseteq (Titles \cup Names) \X (Titles \cup Names)
    /\ \A text \in Titles \cup Names : <<text, text>> \in Like
    /\ MaxCount \in Nat \ {0}
    /\ Requests = StoreCalls
    /\ NoRequest \notin StoreCalls
    /\ NoRq \notin Rqs

Contents == [memo : MemoTable, tag : TagTable, tagged : [MemoIds -> SUBSET TagIds]]
current  == [memo |-> memos, tag |-> tags, tagged |-> tagged]

\* A response: type and code of its operation_status, the id of the added item, the
\* removed items.
NoId    == 0
Replies == [ok : BOOLEAN, id : MemoIds \cup TagIds \cup {NoId},
            removed : SUBSET (MemoIds \cup TagIds)]
NoReply == [ok |-> FALSE, id |-> NoId, removed |-> {}]

Steps == {"idle", "insert", "lookup", "update", "next", "delete", "reply"}

-----------------------------------------------------------------------------
(* What a handler reads: db.listMemos(filter), db.listTags(filter) *)

\* GROUP BY id LIMIT n: the n smallest ids.
Limited(ids, n) == {i \in ids : Cardinality({j \in ids : j < i}) < n}

\* A list operation returns the selected rows; when its SELECT fails, those that
\* came before the failure, perhaps none.
Listings(ids) ==
    IF degraded' THEN {Limited(ids, n) : n \in 0..MaxCount} ELSE {Limited(ids, MaxCount)}

\* Mutant: the title is not put in the filter.
WithTextIgnored(table, text) == Rows(table)

\* Mutant: the listing excludes the very text.
WithOtherText(table, text) == {i \in Rows(table) : table[i] # text}

\* filter.exactTitleMatch, filter.exactNameMatch: LIKE; an empty one selects all rows.
WithText(table, text) ==
    {i \in Rows(table) : text = EmptyText \/ <<text, table[i]>> \in Like}

\* Mutant: the ids are not put in the filter.
WithIdsIgnored(table, ids) == Rows(table)

\* Mutant: an id that names no row makes the selection empty.
WithAllIds(table, ids) == IF ids \subseteq Rows(table) THEN ids ELSE {}

\* filter.ids: IN; without ids all rows.
WithIds(table, ids) == IF ids = {} THEN Rows(table) ELSE Rows(table) \cap ids

First(ids) == CHOOSE i \in ids : \A j \in ids : i =< j

-----------------------------------------------------------------------------

Init ==
    /\ Store!Init
    /\ rq = NoRq
    /\ step = "idle"
    /\ todo = {}
    /\ reply = NoReply
    /\ before = current

\* The thread enters the handler of a request.
Start(q) ==
    /\ step = "idle"
    /\ rq' = q
    /\ reply' = NoReply
    /\ before' = current

\* The handler calls the store and waits, at the given step, for the result.
CallStore(r, at) == request' = r /\ Store!Receive /\ step' = at

\* The store has returned to the handler, with true or false.
Returned(result) == phase = result /\ Store!Finish

\* The handler does not call the store.
StoreUnused == UNCHANGED <<contents, request, phase>> /\ Store!MayDegrade

\* The handler leaves the response as it is by now.
ReplyWith(response) == reply' = response /\ step' = "reply" /\ UNCHANGED <<rq, todo, before>>

(* ----- AddMemo, AddTag ----- *)

\* Mutant: whether the insertion succeeded is not looked at.
InsertedUnchecked(method) ==
    /\ step = "insert" /\ rq.method = method
    /\ Returned("applied") \/ Returned("refused")
    /\ step' = "lookup" /\ UNCHANGED <<rq, todo, reply, before>>

\* Only after a successful insertion is the new item looked up.
Inserted(method) ==
    /\ step = "insert" /\ rq.method = method
    /\ \/ Returned("applied") /\ step' = "lookup" /\ UNCHANGED <<rq, todo, reply, before>>
       \/ Returned("refused") /\ ReplyWith(NoReply)

\* The response carries the id of the first item found; nothing found is a FAILURE.
LookUp(method, table) ==
    /\ step = "lookup" /\ rq.method = method
    /\ StoreUnused
    /\ \E selection \in Listings(WithText(table, rq.text)) :
          ReplyWith(IF selection = {} THEN NoReply
                    ELSE [NoReply EXCEPT !.ok = TRUE, !.id = First(selection)])

StartAddMemo(q) ==
    /\ Start(q) /\ UNCHANGED todo
    /\ CallStore([op |-> "insertMemo", text |-> q.text, tags |-> q.tags], "insert")

AddMemo ==
    \/ \E q \in AddMemoRqs : StartAddMemo(q)
    \/ Inserted("AddMemo")
    \/ LookUp("AddMemo", memos)

StartAddTag(q) ==
    /\ Start(q) /\ UNCHANGED todo
    /\ CallStore([op |-> "insertTag", text |-> q.text], "insert")

AddTag ==
    \/ \E q \in AddTagRqs : StartAddTag(q)
    \/ Inserted("AddTag")
    \/ LookUp("AddTag", tags)

(* ----- UpdateMemo, UpdateTag ----- *)

\* The response tells the result of the update.
Updated(method) ==
    /\ step = "update" /\ rq.method = method
    /\ \/ Returned("applied") /\ ReplyWith([NoReply EXCEPT !.ok = TRUE])
       \/ Returned("refused") /\ ReplyWith(NoReply)

StartUpdateMemo(q) ==
    /\ Start(q) /\ UNCHANGED todo
    /\ CallStore([op |-> "updateMemo", id |-> q.id, text |-> q.text, tags |-> q.tags], "update")

UpdateMemo == (\E q \in UpdateMemoRqs : StartUpdateMemo(q)) \/ Updated("UpdateMemo")

StartUpdateTag(q) ==
    /\ Start(q) /\ UNCHANGED todo
    /\ CallStore([op |-> "updateTag", id |-> q.id, text |-> q.text], "update")

UpdateTag == (\E q \in UpdateTagRqs : StartUpdateTag(q)) \/ Updated("UpdateTag")

(* ----- RemoveMemo, RemoveTag ----- *)

\* The items to remove are selected first, once.
StartRemove(q, table) ==
    /\ Start(q)
    /\ StoreUnused
    /\ todo' \in Listings(WithIds(table, q.ids))
    /\ step' = "next"

\* The next item is deleted, each by an operation of its own; after the last one the
\* response is a SUCCESS.
RemoveNext(method, op) ==
    /\ step = "next" /\ rq.method = method
    /\ \/ /\ todo # {}
          /\ CallStore([op |-> op, id |-> First(todo)], "delete")
          /\ UNCHANGED <<rq, todo, reply, before>>
       \/ /\ todo = {}
          /\ StoreUnused
          /\ ReplyWith([reply EXCEPT !.ok = TRUE])

\* Mutant: an item whose deletion failed is reported all the same.
RemovedUnchecked(method) ==
    /\ step = "delete" /\ rq.method = method
    /\ Returned("applied") \/ Returned("refused")
    /\ reply' = [reply EXCEPT !.removed = @ \cup {request.id}]
    /\ todo' = todo \ {request.id}
    /\ step' = "next"
    /\ UNCHANGED <<rq, before>>

\* Mutant: the first failing deletion ends the removal.
RemovedOrGivenUp(method) ==
    /\ step = "delete" /\ rq.method = method
    /\ todo' = todo \ {request.id}
    /\ \/ /\ Returned("applied")
          /\ reply' = [reply EXCEPT !.removed = @ \cup {request.id}]
          /\ step' = "next"
       \/ Returned("refused") /\ step' = "reply" /\ UNCHANGED reply
    /\ UNCHANGED <<rq, before>>

\* A deleted item is added to the response, one that could not be deleted is skipped.
Removed(method) ==
    /\ step = "delete" /\ rq.method = method
    /\ \/ Returned("applied") /\ reply' = [reply EXCEPT !.removed = @ \cup {request.id}]
       \/ Returned("refused") /\ UNCHANGED reply
    /\ todo' = todo \ {request.id}
    /\ step' = "next"
    /\ UNCHANGED <<rq, before>>

RemoveMemo ==
    \/ \E q \in RemoveMemoRqs : StartRemove(q, memos)
    \/ RemoveNext("RemoveMemo", "deleteMemo")
    \/ Removed("RemoveMemo")

RemoveTag ==
    \/ \E q \in RemoveTagRqs : StartRemove(q, tags)
    \/ RemoveNext("RemoveTag", "deleteTag")
    \/ Removed("RemoveTag")

-----------------------------------------------------------------------------

\* The handler returns; the thread is free for the next request.
HandlerEnds ==
    /\ rq' = NoRq
    /\ step' = "idle"
    /\ todo' = {}
    /\ reply' = NoReply
    /\ UNCHANGED before

Return == step = "reply" /\ HandlerEnds /\ StoreUnused

\* The process is killed and started again: the store forgets a call in progress,
\* and the client gets no reply.
Kill ==
    /\ step # "idle"
    /\ HandlerEnds
    /\ request' = NoRequest /\ phase' = "idle"
    /\ UNCHANGED contents /\ Store!MayDegrade

\* The store works on a call.
StoreStep == (Store!Apply \/ Store!Refuse) /\ UNCHANGED handler

MemoServiceHandlers == AddMemo \/ UpdateMemo \/ RemoveMemo
TagServiceHandlers == AddTag \/ UpdateTag \/ RemoveTag

Next == MemoServiceHandlers \/ TagServiceHandlers \/ StoreStep \/ Return \/ Kill

Spec == Init /\ [][Next]_vars

-----------------------------------------------------------------------------
(* Properties *)

\* The store has been called exactly when the handler waits for it, and with the
\* handler's operation.
StoreMatchesStep ==
    /\ (phase = "idle") = (step \in {"idle", "lookup", "next", "reply"})
    /\ (rq = NoRq) = (step = "idle")
    /\ step \in {"insert", "lookup"} => rq \in AddMemoRqs \cup AddTagRqs
    /\ step = "update" => rq \in UpdateMemoRqs \cup UpdateTagRqs
    /\ step \in {"next", "delete"} => rq \in RemoveMemoRqs \cup RemoveTagRqs
    /\ step = "delete" => request.id \in todo
    /\ step = "reply" => todo = {}

\* The variables have their types, and the store's call fits the handler.
TypeOK ==
    /\ current \in Contents /\ before \in Contents
    /\ request \in Requests \cup {NoRequest}
    /\ phase \in {"idle", "pending", "applied", "refused"}
    /\ degraded \in BOOLEAN
    /\ rq \in Rqs \cup {NoRq}
    /\ step \in Steps
    /\ todo \subseteq MemoIds \cup TagIds
    /\ reply \in Replies
    /\ StoreMatchesStep

Replied(methods) == step = "reply" /\ rq.method \in methods

\* No other text of the table is LIKE the one of the request.
MatchesItselfAlone(table) ==
    \A i \in Rows(table) : <<rq.text, table[i]>> \in Like => table[i] = rq.text

\* SUCCESS for AddMemo or AddTag: there is a row that was not there before, with the
\* text of the request.  The tags of a memo are stored too: with the new row, unless
\* SelectMemoId (Sqlite3Functions.cpp:31) may take another title for the same; in any
\* case with a memo whose title it finds.
AddedIsStored ==
    reply.ok =>
        /\ Replied({"AddMemo"}) =>
              /\ \E m \in Rows(memos) \ Rows(before.memo) :
                    /\ memos[m] = rq.text
                    /\ MatchesItselfAlone(memos) => tagged[m] = Store!Named(rq)
              /\ \E m \in Rows(memos) :
                    <<rq.text, memos[m]>> \in Like /\ Store!Named(rq) \subseteq tagged[m]
        /\ Replied({"AddTag"}) =>
              \E t \in Rows(tags) \ Rows(before.tag) : tags[t] = rq.text

\* SUCCESS for UpdateMemo or UpdateTag: the row, if there is one with that id, has
\* what the request says.
UpdatedIsStored ==
    reply.ok =>
        /\ Replied({"UpdateMemo"}) /\ rq.id \in Rows(before.memo) =>
              memos[rq.id] = rq.text /\ tagged[rq.id] = Store!Named(rq)
        /\ Replied({"UpdateTag"}) /\ rq.id \in Rows(before.tag) => tags[rq.id] = rq.text

\* A client that reads SUCCESS can rely on it (lines 91 and 132 of MemoService.cpp,
\* 74 and 115 of TagService.cpp: the result of the database decides).
SuccessIsStored == AddedIsStored /\ UpdatedIsStored

\* The text is a condition, and matches no other text of the table.
Unambiguous(table) == rq.text # EmptyText /\ MatchesItselfAlone(table)

\* The id in an AddMemo or AddTag response is that of the row just inserted, as long
\* as the lookup by LIKE (MemoService.cpp:94, TagService.cpp:77) is unambiguous.
AddedIdIsNew ==
    reply.ok =>
        /\ Replied({"AddMemo"}) /\ Unambiguous(memos) =>
              before.memo[reply.id] = NoRow /\ memos[reply.id] = rq.text
        /\ Replied({"AddTag"}) /\ Unambiguous(tags) =>
              before.tag[reply.id] = NoRow /\ tags[reply.id] = rq.text

\* The id in an AddMemo or AddTag response is the one the log calls "Newly inserted
\* memo id" (MemoService.cpp:107) and "Newly inserted tag id" (TagService.cpp:89).
AddedIdIsNewlyInserted ==
    reply.ok =>
        /\ Replied({"AddMemo"}) => before.memo[reply.id] = NoRow
        /\ Replied({"AddTag"}) => before.tag[reply.id] = NoRow

\* The store as the handler found it.
Before == INSTANCE MemoStore WITH
    memos <- before.memo, tags <- before.tag, tagged <- before.tagged

\* The request that is being answered was one the store has to refuse.
WasImpossible ==
    \/ /\ rq.method = "AddMemo"
       /\ ~Before!Possible([op |-> "insertMemo", text |-> rq.text, tags |-> rq.tags])
    \/ /\ rq.method = "AddTag"
       /\ ~Before!Possible([op |-> "insertTag", text |-> rq.text])
    \/ /\ rq.method = "UpdateMemo"
       /\ ~Before!Possible([op |-> "updateMemo", id |-> rq.id, text |-> rq.text, tags |-> rq.tags])
    \/ /\ rq.method = "UpdateTag"
       /\ ~Before!Possible([op |-> "updateTag", id |-> rq.id, text |-> rq.text])

\* Unless the database has had a fault, FAILURE means that the request could not be
\* carried out and nothing was changed: in particular a memo that was stored is
\* never reported as not added.
FailureHasReason ==
    step = "reply" /\ ~reply.ok /\ ~degraded => WasImpossible /\ current = before

\* RemoveMemo and RemoveTag report the rows that are gone, all of them and no
\* others, whichever of the deletions failed (MemoService.cpp:163, TagService.cpp:147).
RemovalIsReported ==
    /\ Replied({"RemoveMemo"}) => reply.removed = Rows(before.memo) \ Rows(memos)
    /\ Replied({"RemoveTag"}) => reply.removed = Rows(before.tag) \ Rows(tags)

\* A removal with ids keeps to them: at every point of it, and so after a kill in the
\* middle, the rows that the request does not name are as they were.
OnlyNamedAreRemoved ==
    /\ rq \in RemoveMemoRqs /\ rq.ids # {} =>
          /\ tags = before.tag
          /\ \A m \in MemoIds \ rq.ids : memos[m] = before.memo[m] /\ tagged[m] = before.tagged[m]
    /\ rq \in RemoveTagRqs /\ rq.ids # {} =>
          /\ memos = before.memo
          /\ \A t \in TagIds \ rq.ids : tags[t] = before.tag[t]
          /\ \A m \in MemoIds : tagged[m] \ rq.ids = before.tagged[m] \ rq.ids

\* A removal of at most maxCount ids leaves none of them, unless there was a fault;
\* with ids that name no row, and rows that others refer to.
RemovalIsComplete ==
    ~degraded =>
        /\ Replied({"RemoveMemo"}) /\ Cardinality(rq.ids) =< MaxCount =>
              rq.ids \cap Rows(memos) = {}
        /\ Replied({"RemoveTag"}) /\ Cardinality(rq.ids) =< MaxCount =>
              rq.ids \cap Rows(tags) = {}

=============================================================================
