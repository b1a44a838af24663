------------------------ MODULE MemoServices_proofs ------------------------
(***************************************************************************)
(* What the replies of the handlers that change the database say is what   *)
(* has happened, for any sets of ids, texts and requests, any LIKE, any    *)
(* limit of the listings, any failures and kills.                          *)
(***************************************************************************)
EXTENDS MemoServices, FiniteSetTheorems, WellFoundedInduction, TLAPS

-----------------------------------------------------------------------------
(* The inductive invariant *)

StoreOK ==
    /\ current \in Contents /\ before \in Contents
    /\ request \in Requests \cup {NoRequest}
    /\ phase \in {"idle", "pending", "applied", "refused"}
    /\ degraded \in BOOLEAN

HandlerOK ==
    /\ rq \in Rqs \cup {NoRq}
    /\ step \in Steps
    /\ todo \subseteq MemoIds \cup TagIds
    /\ reply \in Replies

\* While the handler waits for the store, the store works on what it asked for; only a
\* removal has something left to do.
CallFits ==
    /\ step \notin {"next", "delete"} => todo = {}
    /\ phase # "idle" => request \in Requests
    /\ step = "insert" =>
          \/ /\ rq \in AddMemoRqs
             /\ request = [op |-> "insertMemo", text |-> rq.text, tags |-> rq.tags]
          \/ rq \in AddTagRqs /\ request = [op |-> "insertTag", text |-> rq.text]
    /\ step = "update" =>
          \/ /\ rq \in UpdateMemoRqs
             /\ request = [op |-> "updateMemo", id |-> rq.id, text |-> rq.text, tags |-> rq.tags]
          \/ /\ rq \in UpdateTagRqs
             /\ request = [op |-> "updateTag", id |-> rq.id, text |-> rq.text]
    /\ step = "delete" =>
          \/ rq \in RemoveMemoRqs /\ request = [op |-> "deleteMemo", id |-> request.id]
          \/ rq \in RemoveTagRqs /\ request = [op |-> "deleteTag", id |-> request.id]

ControlOK == StoreOK /\ HandlerOK /\ StoreMatchesStep /\ CallFits

\* The store has carried out the handler's call.
Inserting == step = "insert" /\ phase = "applied"
Updating  == step = "update" /\ phase = "applied"

\* Memo m of the request is the only row that is new, and the only one with its title;
\* its tags went to memo k, whose title is LIKE it.
MemoAdded ==
    \E m, k \in MemoIds :
        /\ before.memo[m] = NoRow
        /\ memos = [before.memo EXCEPT ![m] = rq.text]
        /\ \A i \in Rows(before.memo) : before.memo[i] # rq.text
        /\ k \in Rows(memos) /\ <<rq.text, memos[k]>> \in Like
        /\ Store!Named(rq) \subseteq tagged[k]
        /\ k = m => tagged[m] = Store!Named(rq)

TagAdded ==
    \E t \in TagIds :
        /\ before.tag[t] = NoRow
        /\ tags = [before.tag EXCEPT ![t] = rq.text]
        /\ \A i \in Rows(before.tag) : before.tag[i] # rq.text

MemoAdding ==
    rq \in AddMemoRqs =>
        /\ step = "insert" /\ phase = "pending" => current = before
        /\ Inserting \/ step = "lookup" \/ (step = "reply" /\ reply.ok) => MemoAdded
        /\ step = "reply" /\ reply.ok => reply.id \in WithText(memos, rq.text)

TagAdding ==
    rq \in AddTagRqs =>
        /\ step = "insert" /\ phase = "pending" => current = before
        /\ Inserting \/ step = "lookup" \/ (step = "reply" /\ reply.ok) => TagAdded
        /\ step = "reply" /\ reply.ok => reply.id \in WithText(tags, rq.text)

\* The row of the request, if it was there before, has what the request says.
MemoUpdated ==
    rq.id \in Rows(before.memo) => memos[rq.id] = rq.text /\ tagged[rq.id] = Store!Named(rq)

MemoUpdating ==
    rq \in UpdateMemoRqs =>
        /\ step = "update" /\ phase = "pending" => current = before
        /\ Updating \/ (step = "reply" /\ reply.ok) => MemoUpdated

\* The row of the request, if it was there before, has what the request says.
TagUpdated ==
    rq.id \in Rows(before.tag) => tags[rq.id] = rq.text

TagUpdating ==
    rq \in UpdateTagRqs =>
        /\ step = "update" /\ phase = "pending" => current = before
        /\ Updating \/ (step = "reply" /\ reply.ok) => TagUpdated

\* The rows a removal has deleted: those in the reply, and the one whose deletion is
\* not in it yet.
Gone == reply.removed \cup (IF step = "delete" /\ phase = "applied" THEN {request.id} ELSE {})

MemoRemoval ==
    rq \in RemoveMemoRqs =>
        /\ tags = before.tag
        /\ todo \cup Gone \subseteq Rows(before.memo)
        /\ rq.ids # {} => todo \cup Gone \subseteq rq.ids
        /\ \A m \in Gone : memos[m] = NoRow
        /\ \A m \in MemoIds \ Gone : memos[m] = before.memo[m] /\ tagged[m] = before.tagged[m]

TagRemoval ==
    rq \in RemoveTagRqs =>
        /\ memos = before.memo
        /\ todo \cup Gone \subseteq Rows(before.tag)
        /\ rq.ids # {} => todo \cup Gone \subseteq rq.ids
        /\ \A t \in Gone : tags[t] = NoRow
        /\ \A t \in TagIds \ Gone : tags[t] = before.tag[t]
        /\ \A m \in MemoIds : tagged[m] \ Gone = before.tagged[m] \ Gone

\* Without a fault, what has been refused, or answered with FAILURE, was impossible, and
\* has not changed anything.
Refusing ==
    ~degraded =>
        /\ phase = "refused" /\ step \in {"insert", "update"} =>
              ~Store!Possible(request) /\ current = before
        /\ step = "reply" /\ ~reply.ok => WasImpossible /\ current = before

Progress == /\ MemoAdding /\ TagAdding
            /\ MemoUpdating /\ TagUpdating
            /\ MemoRemoval /\ TagRemoval
            /\ Refusing

IInv == ControlOK /\ Progress

-----------------------------------------------------------------------------
(* Helpers *)

\* The methods' requests differ, and none is no request.
LEMMA MethodOf ==
    /\ \A q \in AddMemoRqs : q.method = "AddMemo" /\ q.text \in Titles /\ q.tags \in TagLists
    /\ \A q \in AddTagRqs : q.method = "AddTag" /\ q.text \in Names
    /\ \A q \in UpdateMemoRqs : /\ q.method = "UpdateMemo" /\ q.id \in MemoIds
                                /\ q.text \in Titles /\ q.tags \in TagLists
    /\ \A q \in UpdateTagRqs : q.method = "UpdateTag" /\ q.id \in TagIds /\ q.text \in Names
    /\ \A q \in RemoveMemoRqs : q.method = "RemoveMemo" /\ q.ids \subseteq MemoIds
    /\ \A q \in RemoveTagRqs : q.method = "RemoveTag" /\ q.ids \subseteq TagIds
BY DEF AddMemoRqs, AddTagRqs, UpdateMemoRqs, UpdateTagRqs, RemoveMemoRqs, RemoveTagRqs

\* There is a first id among any.
LEMMA FirstIsMember ==
    ASSUME NEW ids, ids \subseteq Nat, ids # {}
    PROVE  First(ids) \in ids
<1>1. PICK i \in ids : \A j \in ids : ~(<<j, i>> \in OpToRel(<, Nat))
  BY NatLessThanWellFounded, WFMin
<1>2. \A j \in ids : i =< j
  <2> SUFFICES ASSUME NEW j \in ids PROVE i =< j
    OBVIOUS
  <2>1. ~(j < i)
    BY <1>1 DEF OpToRel
  <2> QED
    BY <2>1
<1> QED
  BY <1>2 DEF First

\* A listing has no rows but those selected.
LEMMA ListingsSelect ==
    ASSUME NEW ids, NEW selection \in Listings(ids)
    PROVE  selection \subseteq ids
BY DEF Listings, Limited

-----------------------------------------------------------------------------
(* Types and control *)

\* The store's operations keep the types of its contents.
LEMMA EffectTyped ==
    ASSUME current \in Contents, request \in Requests, Store!Effect(request)
    PROVE  current' \in Contents
<1>1. /\ memos \in MemoTable /\ tags \in TagTable /\ tagged \in [MemoIds -> SUBSET TagIds]
  BY DEF current, Contents
<1>2. /\ Store!Named(request) \subseteq TagIds
      /\ request.op \in {"insertMemo", "updateMemo"} => request.text \in Titles
      /\ request.op \in {"insertTag", "updateTag"} => request.text \in Names
  BY ServicesAssumption DEF StoreCalls, Store!Named
<1> SUFFICES /\ memos' \in MemoTable /\ tags' \in TagTable
             /\ tagged' \in [MemoIds -> SUBSET TagIds]
  BY DEF current, Contents
<1>3. CASE request.op = "insertMemo" /\ Store!InsertMemo(request)
  <2>1. PICK id \in MemoIds, m \in MemoIds :
           /\ memos' = [memos EXCEPT ![id] = request.text]
           /\ tagged' = [i \in MemoIds |-> (IF i = id THEN {} ELSE tagged[i])
                                          \cup (IF i = m THEN Store!Named(request) ELSE {})]
           /\ tags' = tags
    <3>1. memos' \in MemoTable
      BY <1>1, <1>2, <1>3 DEF Store!InsertMemo, Store!AddMemo, MemoTable
    <3>2. Store!Rows(memos') \subseteq MemoIds
      BY <3>1 DEF Store!Rows, MemoTable
    <3> QED
      BY <1>3, <3>2 DEF Store!InsertMemo, Store!AddMemo
  <2>2. memos' \in MemoTable /\ tags' \in TagTable
    BY <1>1, <1>2, <1>3, <2>1 DEF MemoTable
  <2>3. ASSUME NEW i \in MemoIds
        PROVE  (IF i = id THEN {} ELSE tagged[i])
                  \cup (IF i = m THEN Store!Named(request) ELSE {}) \in SUBSET TagIds
    BY <1>1, <1>2
  <2> QED
    BY <2>1, <2>2, <2>3
<1>4. CASE request.op = "insertTag" /\ Store!InsertTag(request)
  BY <1>1, <1>2, <1>4 DEF Store!InsertTag, TagTable
<1>5. CASE request.op = "updateMemo" /\ Store!UpdateMemo(request)
  BY <1>1, <1>2, <1>5 DEF Store!UpdateMemo, Store!contents, MemoTable
<1>6. CASE request.op = "updateTag" /\ Store!UpdateTag(request)
  BY <1>1, <1>2, <1>6 DEF Store!UpdateTag, Store!contents, TagTable
<1>7. CASE request.op = "deleteMemo" /\ Store!DeleteMemo(request)
  BY <1>1, <1>7 DEF Store!DeleteMemo, MemoTable
<1>8. CASE request.op = "deleteTag" /\ Store!DeleteTag(request)
  BY <1>1, <1>8 DEF Store!DeleteTag, TagTable
<1> QED
  BY <1>3, <1>4, <1>5, <1>6, <1>7, <1>8 DEF Store!Effect

\* The store's part of every step.
LEMMA StoreTyped == StoreOK /\ (phase # "idle" => request \in Requests) /\ [Next]_vars => StoreOK'
<1> SUFFICES ASSUME StoreOK, phase # "idle" => request \in Requests, [Next]_vars
             PROVE  StoreOK'
  OBVIOUS
<1>1. before' \in {before, current}
  BY DEF Next, MemoServiceHandlers, TagServiceHandlers, AddMemo, AddTag, UpdateMemo, UpdateTag,
         RemoveMemo, RemoveTag, StartAddMemo, StartAddTag, StartUpdateMemo, StartUpdateTag,
         StartRemove, Start, Inserted, LookUp, Updated, RemoveNext, Removed, ReplyWith,
         StoreStep, Return, Kill, HandlerEnds, handler, vars
<1>2. \/ Store!Receive \/ Store!Apply \/ Store!Refuse \/ Store!Finish
      \/ StoreUnused
      \/ request' = NoRequest /\ phase' = "idle" /\ UNCHANGED contents /\ Store!MayDegrade
      \/ UNCHANGED vars
  BY DEF Next, MemoServiceHandlers, TagServiceHandlers, AddMemo, AddTag, UpdateMemo, UpdateTag,
         RemoveMemo, RemoveTag, StartAddMemo, StartAddTag, StartUpdateMemo, StartUpdateTag,
         StartRemove, CallStore, Returned, Inserted, LookUp, Updated, RemoveNext, Removed,
         StoreStep, Return, Kill
<1>3. before' \in Contents
  BY <1>1 DEF StoreOK
<1>4. CASE Store!Receive
  BY <1>3, <1>4 DEF Store!Receive, Store!MayDegrade, Store!contents, StoreOK, current
<1>5. CASE Store!Apply
  <2>1. phase = "pending" /\ Store!Effect(request) /\ request \in Requests
    BY <1>5 DEF Store!Apply
  <2>2. current' \in Contents
    BY <2>1, EffectTyped DEF StoreOK
  <2> QED
    BY <1>3, <1>5, <2>2 DEF Store!Apply, Store!MayDegrade, StoreOK
<1>6. CASE Store!Refuse
  BY <1>3, <1>6 DEF Store!Refuse, Store!MayDegrade, Store!contents, StoreOK, current
<1>7. CASE Store!Finish
  BY <1>3, <1>7 DEF Store!Finish, Store!MayDegrade, Store!contents, StoreOK, current
<1>8. CASE StoreUnused
  BY <1>3, <1>8 DEF StoreUnused, Store!MayDegrade, contents, StoreOK, current
<1>9. CASE request' = NoRequest /\ phase' = "idle" /\ UNCHANGED contents /\ Store!MayDegrade
  BY <1>3, <1>9 DEF Store!MayDegrade, contents, StoreOK, current
<1>10. CASE UNCHANGED vars
  BY <1>3, <1>10 DEF vars, contents, StoreOK, current
<1> QED
  BY <1>2, <1>4, <1>5, <1>6, <1>7, <1>8, <1>9, <1>10

\* The ids a listing of the handlers may have.
LEMMA SelectionTyped ==
    ASSUME StoreOK
    PROVE  /\ \A text : WithText(memos, text) \subseteq MemoIds /\ WithText(tags, text) \subseteq TagIds
           /\ \A ids : WithIds(memos, ids) \subseteq MemoIds /\ WithIds(tags, ids) \subseteq TagIds
BY DEF StoreOK, current, Contents, MemoTable, TagTable, WithText, WithIds, Rows

\* The steps of the handlers, one by one.
LEMMA Cases ==
    ASSUME [Next]_vars
    PROVE  \/ \E q \in AddMemoRqs : StartAddMemo(q)
           \/ \E q \in AddTagRqs : StartAddTag(q)
           \/ \E q \in UpdateMemoRqs : StartUpdateMemo(q)
           \/ \E q \in UpdateTagRqs : StartUpdateTag(q)
           \/ \E q \in RemoveMemoRqs : StartRemove(q, memos)
           \/ \E q \in RemoveTagRqs : StartRemove(q, tags)
           \/ Inserted("AddMemo") \/ Inserted("AddTag")
           \/ LookUp("AddMemo", memos) \/ LookUp("AddTag", tags)
           \/ Updated("UpdateMemo") \/ Updated("UpdateTag")
           \/ RemoveNext("RemoveMemo", "deleteMemo") \/ RemoveNext("RemoveTag", "deleteTag")
           \/ Removed("RemoveMemo") \/ Removed("RemoveTag")
           \/ Store!Apply /\ UNCHANGED handler
           \/ Store!Refuse /\ UNCHANGED handler
           \/ Return \/ Kill
           \/ UNCHANGED vars
BY DEF Next, MemoServiceHandlers, TagServiceHandlers, AddMemo, AddTag, UpdateMemo, UpdateTag,
       RemoveMemo, RemoveTag, StoreStep

\* The handler's variables keep their types.
LEMMA HandlerTyped == ControlOK /\ [Next]_vars => HandlerOK'
<1> SUFFICES ASSUME ControlOK, [Next]_vars PROVE HandlerOK'
  OBVIOUS
<1> USE DEF HandlerOK, Steps
<1>1. HandlerOK /\ StoreOK /\ StoreMatchesStep
  BY DEF ControlOK
<1>2. /\ NoReply \in Replies
      /\ [reply EXCEPT !.ok = TRUE] \in Replies
      /\ \A i \in MemoIds \cup TagIds :
            /\ [NoReply EXCEPT !.ok = TRUE, !.id = i] \in Replies
            /\ [reply EXCEPT !.removed = @ \cup {i}] \in Replies
  BY <1>1 DEF Replies, NoReply
<1>3. [NoReply EXCEPT !.ok = TRUE] \in Replies
  BY DEF Replies, NoReply
<1>4. ASSUME NEW q \in AddMemoRqs, StartAddMemo(q) PROVE HandlerOK'
  BY <1>1, <1>2, <1>4 DEF StartAddMemo, Start, CallStore, Rqs
<1>5. ASSUME NEW q \in AddTagRqs, StartAddTag(q) PROVE HandlerOK'
  BY <1>1, <1>2, <1>5 DEF StartAddTag, Start, CallStore, Rqs
<1>6. ASSUME NEW q \in UpdateMemoRqs, StartUpdateMemo(q) PROVE HandlerOK'
  BY <1>1, <1>2, <1>6 DEF StartUpdateMemo, Start, CallStore, Rqs
<1>7. ASSUME NEW q \in UpdateTagRqs, StartUpdateTag(q) PROVE HandlerOK'
  BY <1>1, <1>2, <1>7 DEF StartUpdateTag, Start, CallStore, Rqs
<1>8. ASSUME NEW q \in RemoveMemoRqs, StartRemove(q, memos) PROVE HandlerOK'
  <2>1. todo' \in Listings(WithIds(memos, q.ids))
    BY <1>8 DEF StartRemove
  <2>2. todo' \subseteq WithIds(memos, q.ids)
    BY <2>1, ListingsSelect
  <2>3. todo' \subseteq MemoIds
    BY <1>1, <2>2, SelectionTyped
  <2> QED
    BY <1>2, <1>8, <2>3 DEF StartRemove, Start, Rqs
<1>9. ASSUME NEW q \in RemoveTagRqs, StartRemove(q, tags) PROVE HandlerOK'
  <2>1. todo' \in Listings(WithIds(tags, q.ids))
    BY <1>9 DEF StartRemove
  <2>2. todo' \subseteq WithIds(tags, q.ids)
    BY <2>1, ListingsSelect
  <2>3. todo' \subseteq TagIds
    BY <1>1, <2>2, SelectionTyped
  <2> QED
    BY <1>2, <1>9, <2>3 DEF StartRemove, Start, Rqs
<1>10. CASE Inserted("AddMemo") \/ Inserted("AddTag")
  BY <1>1, <1>2, <1>10 DEF Inserted, ReplyWith
<1>11. CASE LookUp("AddMemo", memos)
  <2>1. PICK selection \in Listings(WithText(memos, rq.text)) :
           ReplyWith(IF selection = {} THEN NoReply
                     ELSE [NoReply EXCEPT !.ok = TRUE, !.id = First(selection)])
    BY <1>11 DEF LookUp
  <2>2. selection \subseteq MemoIds
    BY <1>1, ListingsSelect, SelectionTyped
  <2>3. selection # {} => First(selection) \in MemoIds
    BY <2>2, FirstIsMember, SchemaAssumption
  <2> QED
    BY <1>1, <1>2, <2>1, <2>3 DEF ReplyWith
<1>12. CASE LookUp("AddTag", tags)
  <2>1. PICK selection \in Listings(WithText(tags, rq.text)) :
           ReplyWith(IF selection = {} THEN NoReply
                     ELSE [NoReply EXCEPT !.ok = TRUE, !.id = First(selection)])
    BY <1>12 DEF LookUp
  <2>2. selection \subseteq TagIds
    BY <1>1, ListingsSelect, SelectionTyped
  <2>3. selection # {} => First(selection) \in TagIds
    BY <2>2, FirstIsMember, SchemaAssumption
  <2> QED
    BY <1>1, <1>2, <2>1, <2>3 DEF ReplyWith
<1>13. CASE Updated("UpdateMemo") \/ Updated("UpdateTag")
  BY <1>1, <1>2, <1>3, <1>13 DEF Updated, ReplyWith
<1>14. CASE RemoveNext("RemoveMemo", "deleteMemo") \/ RemoveNext("RemoveTag", "deleteTag")
  BY <1>1, <1>2, <1>14 DEF RemoveNext, CallStore, ReplyWith
<1>15. CASE Removed("RemoveMemo") \/ Removed("RemoveTag")
  <2>1. request.id \in MemoIds \cup TagIds
    BY <1>1, <1>15 DEF Removed, StoreMatchesStep
  <2> QED
    BY <1>1, <1>2, <1>15, <2>1 DEF Removed
<1>16. CASE Return \/ Kill
  BY <1>2, <1>16 DEF Return, Kill, HandlerEnds
<1>17. CASE UNCHANGED handler
  BY <1>1, <1>17 DEF handler
<1> QED
  BY Cases, <1>4, <1>5, <1>6, <1>7, <1>8, <1>9, <1>10, <1>11, <1>12, <1>13, <1>14, <1>15,
     <1>16, <1>17 DEF vars

\* The store's phase after the steps of the handlers.
LEMMA PhaseAfter ==
    /\ Store!Receive => phase' = "pending" /\ request' \in Requests
    /\ StoreUnused => phase' = phase /\ request' = request
    /\ \A result : Returned(result) => phase = result /\ phase' = "idle"
BY DEF Store!Receive, StoreUnused, Returned, Store!Finish

\* The handler and the store agree on who is at work, and on what.
LEMMA ControlMatches == ControlOK /\ [Next]_vars => StoreMatchesStep' /\ CallFits'
<1> SUFFICES ASSUME ControlOK, [Next]_vars PROVE StoreMatchesStep' /\ CallFits'
  OBVIOUS
<1> USE DEF StoreMatchesStep, CallFits
<1>1. StoreOK /\ HandlerOK /\ StoreMatchesStep /\ CallFits
  BY DEF ControlOK
<1>2. NoRq \notin Rqs /\ NoReply.ok = FALSE
  BY ServicesAssumption DEF NoReply
<1>3. ASSUME NEW q \in AddMemoRqs, StartAddMemo(q) PROVE StoreMatchesStep' /\ CallFits'
  BY <1>1, <1>2, <1>3, PhaseAfter DEF StartAddMemo, Start, CallStore, Rqs
<1>4. ASSUME NEW q \in AddTagRqs, StartAddTag(q) PROVE StoreMatchesStep' /\ CallFits'
  BY <1>1, <1>2, <1>4, PhaseAfter DEF StartAddTag, Start, CallStore, Rqs
<1>5. ASSUME NEW q \in UpdateMemoRqs, StartUpdateMemo(q) PROVE StoreMatchesStep' /\ CallFits'
  BY <1>1, <1>2, <1>5, PhaseAfter DEF StartUpdateMemo, Start, CallStore, Rqs
<1>6. ASSUME NEW q \in UpdateTagRqs, StartUpdateTag(q) PROVE StoreMatchesStep' /\ CallFits'
  BY <1>1, <1>2, <1>6, PhaseAfter DEF StartUpdateTag, Start, CallStore, Rqs
<1>7. ASSUME NEW q \in RemoveMemoRqs, StartRemove(q, memos) PROVE StoreMatchesStep' /\ CallFits'
  BY <1>1, <1>2, <1>7, PhaseAfter DEF StartRemove, Start, Rqs
<1>8. ASSUME NEW q \in RemoveTagRqs, StartRemove(q, tags) PROVE StoreMatchesStep' /\ CallFits'
  BY <1>1, <1>2, <1>8, PhaseAfter DEF StartRemove, Start, Rqs
<1>9. ASSUME NEW method \in {"AddMemo", "AddTag"}, Inserted(method)
      PROVE  StoreMatchesStep' /\ CallFits'
  <2>1. phase' = "idle" /\ step' \in {"lookup", "reply"} /\ rq' = rq /\ todo' = todo
    BY <1>9, PhaseAfter DEF Inserted, ReplyWith
  <2>2. rq \in AddMemoRqs \cup AddTagRqs /\ step # "idle" /\ todo = {}
    BY <1>1, <1>9 DEF Inserted
  <2> QED
    BY <1>1, <2>1, <2>2
<1>10. ASSUME NEW method \in {"AddMemo", "AddTag"}, NEW table, LookUp(method, table)
       PROVE  StoreMatchesStep' /\ CallFits'
  <2>1. step' = "reply" /\ rq' = rq /\ todo' = todo
    BY <1>10 DEF LookUp, ReplyWith
  <2>2. step = "lookup" /\ StoreUnused /\ rq # NoRq
    BY <1>1, <1>10 DEF LookUp
  <2> QED
    BY <1>1, <2>1, <2>2, PhaseAfter
<1>11. ASSUME NEW method \in {"UpdateMemo", "UpdateTag"}, Updated(method)
       PROVE  StoreMatchesStep' /\ CallFits'
  <2>1. phase' = "idle" /\ step' = "reply" /\ rq' = rq /\ todo' = todo
    BY <1>11, PhaseAfter DEF Updated, ReplyWith
  <2> QED
    BY <1>1, <1>11, <2>1 DEF Updated
<1>12. CASE RemoveNext("RemoveMemo", "deleteMemo")
  <2>1. step = "next" /\ rq \in RemoveMemoRqs /\ todo \subseteq MemoIds \cup TagIds
    BY <1>1, <1>12, MethodOf DEF RemoveNext, HandlerOK
  <2>2. CASE todo # {} /\ CallStore([op |-> "deleteMemo", id |-> First(todo)], "delete")
                       /\ UNCHANGED <<rq, todo>>
    <3>1. First(todo) \in todo
      BY <2>1, <2>2, FirstIsMember, SchemaAssumption
    <3>2. request' = [op |-> "deleteMemo", id |-> First(todo)] /\ step' = "delete"
      BY <2>2 DEF CallStore
    <3>3. phase' = "pending" /\ request' \in Requests
      BY <2>2, PhaseAfter DEF CallStore
    <3>4. request'.id \in todo /\ request' = [op |-> "deleteMemo", id |-> request'.id]
      BY <3>1, <3>2
    <3> QED
      BY <1>1, <2>1, <2>2, <3>2, <3>3, <3>4
  <2>3. CASE todo = {} /\ StoreUnused /\ step' = "reply" /\ UNCHANGED <<rq, todo>>
    BY <1>1, <2>1, <2>3, PhaseAfter
  <2> QED
    BY <1>12, <2>2, <2>3 DEF RemoveNext, ReplyWith
<1>13. CASE RemoveNext("RemoveTag", "deleteTag")
  <2>1. step = "next" /\ rq \in RemoveTagRqs /\ todo \subseteq MemoIds \cup TagIds
    BY <1>1, <1>13, MethodOf DEF RemoveNext, HandlerOK
  <2>2. CASE todo # {} /\ CallStore([op |-> "deleteTag", id |-> First(todo)], "delete")
                       /\ UNCHANGED <<rq, todo>>
    <3>1. First(todo) \in todo
      BY <2>1, <2>2, FirstIsMember, SchemaAssumption
    <3>2. request' = [op |-> "deleteTag", id |-> First(todo)] /\ step' = "delete"
      BY <2>2 DEF CallStore
    <3>3. phase' = "pending" /\ request' \in Requests
      BY <2>2, PhaseAfter DEF CallStore
    <3>4. request'.id \in todo /\ request' = [op |-> "deleteTag", id |-> request'.id]
      BY <3>1, <3>2
    <3> QED
      BY <1>1, <2>1, <2>2, <3>2, <3>3, <3>4
  <2>3. CASE todo = {} /\ StoreUnused /\ step' = "reply" /\ UNCHANGED <<rq, todo>>
    BY <1>1, <2>1, <2>3, PhaseAfter
  <2> QED
    BY <1>13, <2>2, <2>3 DEF RemoveNext, ReplyWith
<1>14. ASSUME NEW method \in {"RemoveMemo", "RemoveTag"}, Removed(method)
       PROVE  StoreMatchesStep' /\ CallFits'
  <2>1. phase' = "idle" /\ step' = "next" /\ rq' = rq
    BY <1>14, PhaseAfter DEF Removed
  <2> QED
    BY <1>1, <1>14, <2>1 DEF Removed
<1>15. CASE (Store!Apply \/ Store!Refuse) /\ UNCHANGED handler
  <2>1. phase = "pending" /\ phase' \in {"applied", "refused"} /\ request' = request
    BY <1>15 DEF Store!Apply, Store!Refuse
  <2> QED
    BY <1>1, <1>15, <2>1 DEF handler
<1>16. CASE Return
  BY <1>1, <1>2, <1>16, PhaseAfter DEF Return, HandlerEnds
<1>17. CASE Kill
  BY <1>1, <1>2, <1>17 DEF Kill, HandlerEnds
<1>18. CASE UNCHANGED vars
  BY <1>1, <1>18 DEF vars, handler
<1> QED
  BY Cases, <1>3, <1>4, <1>5, <1>6, <1>7, <1>8, <1>9, <1>10, <1>11, <1>12, <1>13, <1>14,
     <1>15, <1>16, <1>17, <1>18

LEMMA ControlStep == ControlOK /\ [Next]_vars => ControlOK'
BY StoreTyped, HandlerTyped, ControlMatches DEF ControlOK, CallFits

-----------------------------------------------------------------------------
(* Progress *)

\* A step of the store, or of nobody.
StoreAtWork == (Store!Apply \/ Store!Refuse) /\ UNCHANGED handler

\* The steps that lead to, or go on in, the handler of a method.
LEMMA InMethod ==
    ASSUME [Next]_vars
    PROVE  /\ rq' \in AddMemoRqs =>
                  \/ StartAddMemo(rq') \/ Inserted("AddMemo") \/ LookUp("AddMemo", memos)
                  \/ StoreAtWork \/ UNCHANGED vars
           /\ rq' \in AddTagRqs =>
                  \/ StartAddTag(rq') \/ Inserted("AddTag") \/ LookUp("AddTag", tags)
                  \/ StoreAtWork \/ UNCHANGED vars
           /\ rq' \in UpdateMemoRqs =>
                  StartUpdateMemo(rq') \/ Updated("UpdateMemo") \/ StoreAtWork \/ UNCHANGED vars
           /\ rq' \in UpdateTagRqs =>
                  StartUpdateTag(rq') \/ Updated("UpdateTag") \/ StoreAtWork \/ UNCHANGED vars
           /\ rq' \in RemoveMemoRqs =>
                  \/ StartRemove(rq', memos) \/ RemoveNext("RemoveMemo", "deleteMemo")
                  \/ Removed("RemoveMemo") \/ StoreAtWork \/ UNCHANGED vars
           /\ rq' \in RemoveTagRqs =>
                  \/ StartRemove(rq', tags) \/ RemoveNext("RemoveTag", "deleteTag")
                  \/ Removed("RemoveTag") \/ StoreAtWork \/ UNCHANGED vars
<1>1. /\ \A q : StartAddMemo(q) \/ StartAddTag(q) \/ StartUpdateMemo(q) \/ StartUpdateTag(q) => rq' = q
      /\ \A q, table : StartRemove(q, table) => rq' = q
  BY DEF StartAddMemo, StartAddTag, StartUpdateMemo, StartUpdateTag, StartRemove, Start
<1>2. \A method :
          /\ Inserted(method) \/ Updated(method) \/ Removed(method) => rq' = rq /\ rq.method = method
          /\ \A table : LookUp(method, table) => rq' = rq /\ rq.method = method
          /\ \A op : RemoveNext(method, op) => rq' = rq /\ rq.method = method
  BY DEF Inserted, LookUp, Updated, RemoveNext, Removed, ReplyWith
<1>3. Return \/ Kill => rq' = NoRq
  BY DEF Return, Kill, HandlerEnds
<1>4. NoRq \notin AddMemoRqs \cup AddTagRqs \cup UpdateMemoRqs \cup UpdateTagRqs
                  \cup RemoveMemoRqs \cup RemoveTagRqs
  BY ServicesAssumption DEF Rqs
<1>5. CASE \/ \E q \in AddMemoRqs : StartAddMemo(q)
           \/ \E q \in AddTagRqs : StartAddTag(q)
           \/ \E q \in UpdateMemoRqs : StartUpdateMemo(q)
           \/ \E q \in UpdateTagRqs : StartUpdateTag(q)
           \/ \E q \in RemoveMemoRqs : StartRemove(q, memos)
           \/ \E q \in RemoveTagRqs : StartRemove(q, tags)
  BY <1>1, <1>5, MethodOf
<1>6. CASE \/ Inserted("AddMemo") \/ Inserted("AddTag")
           \/ LookUp("AddMemo", memos) \/ LookUp("AddTag", tags)
           \/ Updated("UpdateMemo") \/ Updated("UpdateTag")
  BY <1>2, <1>6, MethodOf
<1>7. CASE \/ RemoveNext("RemoveMemo", "deleteMemo") \/ RemoveNext("RemoveTag", "deleteTag")
           \/ Removed("RemoveMemo") \/ Removed("RemoveTag")
  BY <1>2, <1>7, MethodOf
<1>8. CASE Return \/ Kill
  BY <1>3, <1>4, <1>8
<1>9. CASE \/ Store!Apply /\ UNCHANGED handler
           \/ Store!Refuse /\ UNCHANGED handler
           \/ UNCHANGED vars
  BY <1>9 DEF StoreAtWork
<1> QED
  BY Cases, <1>5, <1>6, <1>7, <1>8, <1>9

\* InsertMemo adds what the request says, and nothing else.
LEMMA MemoInserted ==
    ASSUME current \in Contents, current = before, Store!InsertMemo(request),
           request.text = rq.text, request.tags = rq.tags, UNCHANGED <<rq, before>>
    PROVE  MemoAdded'
<1>1. /\ memos = before.memo /\ tagged \in [MemoIds -> SUBSET TagIds]
      /\ DOMAIN memos = MemoIds /\ MemoIds \subseteq Nat
  BY SchemaAssumption DEF current, Contents, MemoTable
<1>2. PICK id \in MemoIds :
         /\ Store!IsNew(memos, id)
         /\ memos' = [memos EXCEPT ![id] = request.text]
         /\ \E m \in Store!Rows(memos') :
               /\ <<request.text, memos'[m]>> \in Like
               /\ tagged' = [i \in MemoIds |-> (IF i = id THEN {} ELSE tagged[i])
                                              \cup (IF i = m THEN Store!Named(request) ELSE {})]
  BY DEF Store!InsertMemo, Store!AddMemo
<1>3. Store!Named(request) = Store!Named(rq) /\ Store!Named(rq)' = Store!Named(rq)
  BY DEF Store!Named
<1>4. memos[id] = NoRow
  <2> SUFFICES ASSUME id \in Rows(memos) PROVE FALSE
    BY <1>1 DEF Rows
  <2>1. id < id
    BY <1>2 DEF Store!IsNew, Store!Rows, Rows
  <2> QED
    BY <1>1, <2>1
<1>5. PICK m \in Store!Rows(memos') :
         /\ <<request.text, memos'[m]>> \in Like
         /\ tagged' = [i \in MemoIds |-> (IF i = id THEN {} ELSE tagged[i])
                                        \cup (IF i = m THEN Store!Named(request) ELSE {})]
  BY <1>2
<1>7. m \in MemoIds /\ m \in Rows(memos')
  BY <1>1, <1>2 DEF Store!Rows, Rows
<1>8. /\ Store!Named(rq)' \subseteq tagged'[m]
      /\ m = id => tagged'[id] = Store!Named(rq)'
  BY <1>3, <1>5, <1>7
<1>6. \A i \in Rows(before.memo) : before.memo[i] # rq.text
  BY <1>1 DEF Store!InsertMemo, Store!Rows, Rows
<1> QED
  BY <1>1, <1>2, <1>4, <1>5, <1>6, <1>7, <1>8 DEF MemoAdded

LEMMA TagInserted ==
    ASSUME current \in Contents, current = before, Store!InsertTag(request),
           request.text = rq.text, UNCHANGED <<rq, before>>
    PROVE  TagAdded'
<1>1. tags = before.tag /\ DOMAIN tags = TagIds /\ TagIds \subseteq Nat
  BY SchemaAssumption DEF current, Contents, TagTable
<1>2. PICK id \in TagIds : /\ Store!IsNew(tags, id)
                           /\ tags' = [tags EXCEPT ![id] = request.text]
  BY DEF Store!InsertTag
<1>3. tags[id] = NoRow
  <2> SUFFICES ASSUME id \in Rows(tags) PROVE FALSE
    BY <1>1 DEF Rows
  <2>1. id < id
    BY <1>2 DEF Store!IsNew, Store!Rows, Rows
  <2> QED
    BY <1>1, <2>1
<1>4. \A i \in Rows(before.tag) : before.tag[i] # rq.text
  BY <1>1 DEF Store!InsertTag, Store!Rows, Rows
<1> QED
  BY <1>1, <1>2, <1>3, <1>4 DEF TagAdded

LEMMA MemoAddingStep == ControlOK /\ MemoAdding /\ [Next]_vars => MemoAdding'
<1> SUFFICES ASSUME ControlOK, MemoAdding, [Next]_vars, rq' \in AddMemoRqs PROVE MemoAdding'
  BY DEF MemoAdding
<1> USE DEF MemoAdding
<1>1. NoReply.ok = FALSE
  BY DEF NoReply
<1>2. CASE StartAddMemo(rq')
  <2>1. /\ UNCHANGED contents /\ before' = current
        /\ step' = "insert" /\ phase' = "pending"
    BY <1>2 DEF StartAddMemo, Start, CallStore, Store!Receive, Store!contents, contents
  <2>2. current' = before'
    BY <2>1 DEF contents, current
  <2> QED
    BY <2>1, <2>2 DEF Inserting
<1>3. CASE Inserted("AddMemo")
  <2>1. /\ UNCHANGED <<rq, before, contents>> /\ step = "insert" /\ phase' = "idle"
        /\ \/ phase = "applied" /\ step' = "lookup"
           \/ step' = "reply" /\ reply' = NoReply
    BY <1>3 DEF Inserted, Returned, ReplyWith, Store!Finish, Store!contents, contents
  <2>2. MemoAdded => MemoAdded'
    BY <2>1 DEF MemoAdded, contents, Store!Named
  <2> QED
    BY <1>1, <2>1, <2>2 DEF Inserting
<1>4. CASE LookUp("AddMemo", memos)
  <2>1. UNCHANGED <<rq, before, contents>> /\ step = "lookup" /\ step' = "reply"
    BY <1>4 DEF LookUp, StoreUnused, ReplyWith
  <2>2. PICK selection \in Listings(WithText(memos, rq.text)) :
           reply' = IF selection = {} THEN NoReply
                    ELSE [NoReply EXCEPT !.ok = TRUE, !.id = First(selection)]
    BY <1>4 DEF LookUp, ReplyWith
  <2>3. selection \subseteq WithText(memos, rq.text) /\ selection \subseteq Nat
    BY ListingsSelect, SelectionTyped, SchemaAssumption DEF ControlOK
  <2>4. reply'.ok => reply'.id \in WithText(memos, rq.text)
    BY <1>1, <2>2, <2>3, FirstIsMember DEF NoReply
  <2>5. WithText(memos, rq.text)' = WithText(memos, rq.text)
    BY <2>1 DEF WithText, contents, Rows
  <2>6. MemoAdded => MemoAdded'
    BY <2>1 DEF MemoAdded, contents, Store!Named
  <2> QED
    BY <2>1, <2>4, <2>5, <2>6 DEF Inserting
<1>5. CASE StoreAtWork
  <2>1. /\ UNCHANGED <<rq, before, step, reply>> /\ phase = "pending"
        /\ phase' \in {"applied", "refused"} /\ UNCHANGED request
    BY <1>5 DEF StoreAtWork, Store!Apply, Store!Refuse, handler
  <2>2. step = "insert"
    BY <2>1, MethodOf DEF ControlOK, HandlerOK, Steps, StoreMatchesStep
  <2>3. request = [op |-> "insertMemo", text |-> rq.text, tags |-> rq.tags]
    BY <2>1, <2>2, MethodOf DEF ControlOK, CallFits
  <2>4. current = before
    BY <2>1, <2>2
  <2>5. CASE Store!Apply
    <3>1. Store!InsertMemo(request)
      BY <2>5, <2>3 DEF Store!Apply, Store!Effect
    <3>2. MemoAdded'
      BY <2>1, <2>4, <2>3, <3>1, MemoInserted DEF ControlOK, StoreOK
    <3> QED
      BY <2>1, <2>2, <2>5, <3>2 DEF Inserting, Store!Apply
  <2>6. CASE Store!Refuse
    BY <2>1, <2>2, <2>6 DEF Inserting, Store!Refuse
  <2> QED
    BY <1>5, <2>5, <2>6 DEF StoreAtWork
<1>6. CASE UNCHANGED vars
  BY <1>6 DEF vars, contents, handler, current, Inserting, MemoAdded, WithText, Rows, Store!Named
<1> QED
  BY InMethod, <1>2, <1>3, <1>4, <1>5, <1>6

LEMMA TagAddingStep == ControlOK /\ TagAdding /\ [Next]_vars => TagAdding'
<1> SUFFICES ASSUME ControlOK, TagAdding, [Next]_vars, rq' \in AddTagRqs PROVE TagAdding'
  BY DEF TagAdding
<1> USE DEF TagAdding
<1>1. NoReply.ok = FALSE
  BY DEF NoReply
<1>2. CASE StartAddTag(rq')
  <2>1. /\ UNCHANGED contents /\ before' = current
        /\ step' = "insert" /\ phase' = "pending"
    BY <1>2 DEF StartAddTag, Start, CallStore, Store!Receive, Store!contents, contents
  <2>2. current' = before'
    BY <2>1 DEF contents, current
  <2> QED
    BY <2>1, <2>2 DEF Inserting
<1>3. CASE Inserted("AddTag")
  <2>1. /\ UNCHANGED <<rq, before, contents>> /\ step = "insert" /\ phase' = "idle"
        /\ \/ phase = "applied" /\ step' = "lookup"
           \/ step' = "reply" /\ reply' = NoReply
    BY <1>3 DEF Inserted, Returned, ReplyWith, Store!Finish, Store!contents, contents
  <2>2. TagAdded => TagAdded'
    BY <2>1 DEF TagAdded, contents, Store!Named
  <2> QED
    BY <1>1, <2>1, <2>2 DEF Inserting
<1>4. CASE LookUp("AddTag", tags)
  <2>1. UNCHANGED <<rq, before, contents>> /\ step = "lookup" /\ step' = "reply"
    BY <1>4 DEF LookUp, StoreUnused, ReplyWith
  <2>2. PICK selection \in Listings(WithText(tags, rq.text)) :
           reply' = IF selection = {} THEN NoReply
                    ELSE [NoReply EXCEPT !.ok = TRUE, !.id = First(selection)]
    BY <1>4 DEF LookUp, ReplyWith
  <2>3. selection \subseteq WithText(tags, rq.text) /\ selection \subseteq Nat
    BY ListingsSelect, SelectionTyped, SchemaAssumption DEF ControlOK
  <2>4. reply'.ok => reply'.id \in WithText(tags, rq.text)
    BY <1>1, <2>2, <2>3, FirstIsMember DEF NoReply
  <2>5. WithText(tags, rq.text)' = WithText(tags, rq.text)
    BY <2>1 DEF WithText, contents, Rows
  <2>6. TagAdded => TagAdded'
    BY <2>1 DEF TagAdded, contents, Store!Named
  <2> QED
    BY <2>1, <2>4, <2>5, <2>6 DEF Inserting
<1>5. CASE StoreAtWork
  <2>1. /\ UNCHANGED <<rq, before, step, reply>> /\ phase = "pending"
        /\ phase' \in {"applied", "refused"} /\ UNCHANGED request
    BY <1>5 DEF StoreAtWork, Store!Apply, Store!Refuse, handler
  <2>2. step = "insert"
    BY <2>1, MethodOf DEF ControlOK, HandlerOK, Steps, StoreMatchesStep
  <2>3. request = [op |-> "insertTag", text |-> rq.text]
    BY <2>1, <2>2, MethodOf DEF ControlOK, CallFits
  <2>4. current = before
    BY <2>1, <2>2
  <2>5. CASE Store!Apply
    <3>1. Store!InsertTag(request)
      BY <2>5, <2>3 DEF Store!Apply, Store!Effect
    <3>2. TagAdded'
      BY <2>1, <2>4, <2>3, <3>1, TagInserted DEF ControlOK, StoreOK
    <3> QED
      BY <2>1, <2>2, <2>5, <3>2 DEF Inserting, Store!Apply
  <2>6. CASE Store!Refuse
    BY <2>1, <2>2, <2>6 DEF Inserting, Store!Refuse
  <2> QED
    BY <1>5, <2>5, <2>6 DEF StoreAtWork
<1>6. CASE UNCHANGED vars
  BY <1>6 DEF vars, contents, handler, current, Inserting, TagAdded, WithText, Rows, Store!Named
<1> QED
  BY InMethod, <1>2, <1>3, <1>4, <1>5, <1>6

LEMMA MemoUpdatingStep == ControlOK /\ MemoUpdating /\ [Next]_vars => MemoUpdating'
<1> SUFFICES ASSUME ControlOK, MemoUpdating, [Next]_vars, rq' \in UpdateMemoRqs PROVE MemoUpdating'
  BY DEF MemoUpdating
<1> USE DEF MemoUpdating
<1>3. NoReply.ok = FALSE
  BY DEF NoReply
<1>4. CASE StartUpdateMemo(rq')
  <2>1. /\ UNCHANGED contents /\ before' = current
        /\ step' = "update" /\ phase' = "pending"
    BY <1>4 DEF StartUpdateMemo, Start, CallStore, Store!Receive, Store!contents, contents
  <2>2. current' = before'
    BY <2>1 DEF contents, current
  <2> QED
    BY <2>1, <2>2 DEF Updating
<1>5. CASE Updated("UpdateMemo")
  <2>1. /\ UNCHANGED <<rq, before, contents>> /\ step = "update"
        /\ phase = "applied" \/ reply' = NoReply
        /\ step' = "reply"
    BY <1>5 DEF Updated, Returned, ReplyWith, Store!Finish, Store!contents, contents
  <2>2. MemoUpdated => MemoUpdated'
    BY <2>1 DEF MemoUpdated, contents, Store!Named, Rows
  <2> QED
    BY <1>3, <2>1, <2>2 DEF Updating
<1>6. CASE StoreAtWork
  <2>1. /\ UNCHANGED <<rq, before, step, reply>> /\ phase = "pending"
        /\ phase' \in {"applied", "refused"} /\ UNCHANGED request
    BY <1>6 DEF StoreAtWork, Store!Apply, Store!Refuse, handler
  <2>2. step = "update"
    BY <2>1, MethodOf DEF ControlOK, HandlerOK, Steps, StoreMatchesStep
  <2>3. request = [op |-> "updateMemo", id |-> rq.id, text |-> rq.text, tags |-> rq.tags]
    BY <2>1, <2>2, MethodOf DEF ControlOK, CallFits
  <2>4. current = before
    BY <2>1, <2>2
  <2>5. CASE Store!Apply
    <3>1. Store!UpdateMemo(request)
      BY <2>5, <2>3 DEF Store!Apply, Store!Effect
    <3>2. before.memo = memos /\ memos \in MemoTable /\ tagged \in [MemoIds -> SUBSET TagIds]
      BY <2>4 DEF ControlOK, StoreOK, current, Contents
    <3>3. Store!Named(request) = Store!Named(rq) /\ Store!Named(rq)' = Store!Named(rq)
      BY <2>1, <2>3 DEF Store!Named
    <3>4. MemoUpdated'
      BY <2>1, <2>3, <3>1, <3>2, <3>3 DEF MemoUpdated, Store!UpdateMemo, Store!Rows, Rows, MemoTable
    <3> QED
      BY <2>1, <2>2, <2>5, <3>4 DEF Updating, Store!Apply
  <2>6. CASE Store!Refuse
    BY <2>1, <2>2, <2>6 DEF Updating, Store!Refuse
  <2> QED
    BY <1>6, <2>5, <2>6 DEF StoreAtWork
<1>7. CASE UNCHANGED vars
  <2>1. MemoUpdated' = MemoUpdated /\ current' = current
    BY <1>7 DEF vars, contents, handler, current, MemoUpdated, Store!Named, Rows
  <2> QED
    BY <1>7, <2>1 DEF vars, handler, Updating
<1> QED
  BY InMethod, <1>4, <1>5, <1>6, <1>7

LEMMA TagUpdatingStep == ControlOK /\ TagUpdating /\ [Next]_vars => TagUpdating'
<1> SUFFICES ASSUME ControlOK, TagUpdating, [Next]_vars, rq' \in UpdateTagRqs PROVE TagUpdating'
  BY DEF TagUpdating
<1> USE DEF TagUpdating
<1>3. NoReply.ok = FALSE
  BY DEF NoReply
<1>4. CASE StartUpdateTag(rq')
  <2>1. /\ UNCHANGED contents /\ before' = current
        /\ step' = "update" /\ phase' = "pending"
    BY <1>4 DEF StartUpdateTag, Start, CallStore, Store!Receive, Store!contents, contents
  <2>2. current' = before'
    BY <2>1 DEF contents, current
  <2> QED
    BY <2>1, <2>2 DEF Updating
<1>5. CASE Updated("UpdateTag")
  <2>1. /\ UNCHANGED <<rq, before, contents>> /\ step = "update"
        /\ phase = "applied" \/ reply' = NoReply
        /\ step' = "reply"
    BY <1>5 DEF Updated, Returned, ReplyWith, Store!Finish, Store!contents, contents
  <2>2. TagUpdated => TagUpdated'
    BY <2>1 DEF TagUpdated, contents, Store!Named, Rows
  <2> QED
    BY <1>3, <2>1, <2>2 DEF Updating
<1>6. CASE StoreAtWork
  <2>1. /\ UNCHANGED <<rq, before, step, reply>> /\ phase = "pending"
        /\ phase' \in {"applied", "refused"} /\ UNCHANGED request
    BY <1>6 DEF StoreAtWork, Store!Apply, Store!Refuse, handler
  <2>2. step = "update"
    BY <2>1, MethodOf DEF ControlOK, HandlerOK, Steps, StoreMatchesStep
  <2>3. request = [op |-> "updateTag", id |-> rq.id, text |-> rq.text]
    BY <2>1, <2>2, MethodOf DEF ControlOK, CallFits
  <2>4. current = before
    BY <2>1, <2>2
  <2>5. CASE Store!Apply
    <3>1. Store!UpdateTag(request)
      BY <2>5, <2>3 DEF Store!Apply, Store!Effect
    <3>2. before.tag = tags /\ tags \in TagTable /\ tagged \in [MemoIds -> SUBSET TagIds]
      BY <2>4 DEF ControlOK, StoreOK, current, Contents
    <3>4. TagUpdated'
      BY <2>1, <2>3, <3>1, <3>2 DEF TagUpdated, Store!UpdateTag, Store!Rows, Rows, TagTable
    <3> QED
      BY <2>1, <2>2, <2>5, <3>4 DEF Updating, Store!Apply
  <2>6. CASE Store!Refuse
    BY <2>1, <2>2, <2>6 DEF Updating, Store!Refuse
  <2> QED
    BY <1>6, <2>5, <2>6 DEF StoreAtWork
<1>7. CASE UNCHANGED vars
  <2>1. TagUpdated' = TagUpdated /\ current' = current
    BY <1>7 DEF vars, contents, handler, current, TagUpdated, Store!Named, Rows
  <2> QED
    BY <1>7, <2>1 DEF vars, handler, Updating
<1> QED
  BY InMethod, <1>4, <1>5, <1>6, <1>7

LEMMA MemoRemovalStep == ControlOK /\ MemoRemoval /\ [Next]_vars => MemoRemoval'
<1> SUFFICES ASSUME ControlOK, MemoRemoval, [Next]_vars, rq' \in RemoveMemoRqs PROVE MemoRemoval'
  BY DEF MemoRemoval
<1>1. /\ memos \in MemoTable /\ tags \in TagTable /\ tagged \in [MemoIds -> SUBSET TagIds]
      /\ rq'.ids \subseteq MemoIds
  BY MethodOf DEF ControlOK, StoreOK, current, Contents
<1>2. ASSUME UNCHANGED <<rq, before, contents>>, Gone' = Gone, todo' \subseteq todo
      PROVE  MemoRemoval'
  <2>1. /\ rq' = rq /\ before' = before /\ memos' = memos /\ tags' = tags /\ tagged' = tagged
        /\ Rows(before.memo)' = Rows(before.memo)
    BY <1>2 DEF contents, Rows
  <2> HIDE DEF Gone
  <2> QED
    BY <1>2, <2>1 DEF MemoRemoval
<1>3. reply \in Replies
  BY DEF ControlOK, HandlerOK
<1>4. CASE StartRemove(rq', memos)
  <2>1. /\ UNCHANGED contents /\ before' = current /\ reply' = NoReply /\ step' = "next"
        /\ todo' \in Listings(WithIds(memos, rq'.ids))
    BY <1>4 DEF StartRemove, Start, StoreUnused
  <2>2. todo' \subseteq WithIds(memos, rq'.ids)
    BY <2>1, ListingsSelect
  <2>3. Gone' = {}
    BY <2>1 DEF Gone, NoReply
  <2> QED
    BY <1>1, <2>1, <2>2, <2>3 DEF MemoRemoval, WithIds, contents, current, Rows
<1>5. CASE RemoveNext("RemoveMemo", "deleteMemo")
  <2>1. /\ UNCHANGED <<rq, before, contents>> /\ todo' = todo
        /\ step = "next" /\ step' \in {"delete", "reply"}
        /\ step' = "delete" => phase' = "pending"
        /\ reply' \in {reply, [reply EXCEPT !.ok = TRUE]}
    BY <1>5 DEF RemoveNext, CallStore, ReplyWith, StoreUnused, Store!Receive, Store!contents, contents
  <2>2. reply'.removed = reply.removed
    BY <1>3, <2>1 DEF Replies
  <2> QED
    BY <1>2, <2>1, <2>2 DEF Gone
<1>6. CASE Removed("RemoveMemo")
  <2>1. /\ UNCHANGED <<rq, before, contents>> /\ todo' \subseteq todo
        /\ step = "delete" /\ step' = "next"
        /\ \/ phase = "applied" /\ reply' = [reply EXCEPT !.removed = @ \cup {request.id}]
           \/ phase = "refused" /\ reply' = reply
    BY <1>6 DEF Removed, Returned, Store!Finish, Store!contents, contents
  <2>2. Gone' = Gone
    BY <1>3, <2>1 DEF Gone, Replies
  <2> QED
    BY <1>2, <2>1, <2>2
<1>7. CASE StoreAtWork
  <2>1. /\ UNCHANGED <<rq, before, step, reply, todo, request>>
        /\ phase = "pending" /\ phase' \in {"applied", "refused"}
    BY <1>7 DEF StoreAtWork, Store!Apply, Store!Refuse, handler
  <2>2. step = "delete" /\ rq \in RemoveMemoRqs
    BY <2>1, MethodOf DEF ControlOK, HandlerOK, Steps, StoreMatchesStep
  <2>3. request.id \in todo /\ request.op = "deleteMemo"
    BY <2>1, <2>2, MethodOf DEF ControlOK, StoreMatchesStep, CallFits
  <2>4. CASE Store!Apply
    <3>1. Store!DeleteMemo(request)
      BY <2>3, <2>4 DEF Store!Apply, Store!Effect
    <3>2. Gone' = Gone \cup {request.id}
      BY <2>1, <2>2, <2>4 DEF Gone, Store!Apply
    <3>3. request.id \in MemoIds
      BY <1>1, <2>2, <2>3 DEF MemoRemoval, ControlOK, StoreOK, Contents, MemoTable, Rows
    <3>4. memos' = [memos EXCEPT ![request.id] = NoRow] /\ tags' = tags
      BY <3>1 DEF Store!DeleteMemo
    <3>5. tagged' = [tagged EXCEPT ![request.id] = {}]
      BY <3>1 DEF Store!DeleteMemo
    <3> QED
      BY <1>1, <2>1, <2>2, <2>3, <3>2, <3>3, <3>4, <3>5 DEF MemoRemoval, MemoTable
  <2>5. CASE Store!Refuse
    <3>1. Gone' = Gone /\ UNCHANGED contents
      BY <2>1, <2>5 DEF Gone, Store!Refuse, Store!contents, contents
    <3> QED
      BY <1>2, <2>1, <3>1
  <2> QED
    BY <1>7, <2>4, <2>5 DEF StoreAtWork
<1>8. CASE UNCHANGED vars
  <2>1. Gone' = Gone
    BY <1>8 DEF Gone, vars, handler
  <2> QED
    BY <1>2, <1>8, <2>1 DEF vars, handler
<1> QED
  BY InMethod, <1>4, <1>5, <1>6, <1>7, <1>8

LEMMA TagRemovalStep == ControlOK /\ TagRemoval /\ [Next]_vars => TagRemoval'
<1> SUFFICES ASSUME ControlOK, TagRemoval, [Next]_vars, rq' \in RemoveTagRqs PROVE TagRemoval'
  BY DEF TagRemoval
<1>1. /\ memos \in MemoTable /\ tags \in TagTable /\ tagged \in [MemoIds -> SUBSET TagIds]
      /\ rq'.ids \subseteq TagIds
  BY MethodOf DEF ControlOK, StoreOK, current, Contents
<1>2. ASSUME UNCHANGED <<rq, before, contents>>, Gone' = Gone, todo' \subseteq todo
      PROVE  TagRemoval'
  <2>1. /\ rq' = rq /\ before' = before /\ memos' = memos /\ tags' = tags /\ tagged' = tagged
        /\ Rows(before.tag)' = Rows(before.tag)
    BY <1>2 DEF contents, Rows
  <2> HIDE DEF Gone
  <2> QED
    BY <1>2, <2>1 DEF TagRemoval
<1>3. reply \in Replies
  BY DEF ControlOK, HandlerOK
<1>4. CASE StartRemove(rq', tags)
  <2>1. /\ UNCHANGED contents /\ before' = current /\ reply' = NoReply /\ step' = "next"
        /\ todo' \in Listings(WithIds(tags, rq'.ids))
    BY <1>4 DEF StartRemove, Start, StoreUnused
  <2>2. todo' \subseteq WithIds(tags, rq'.ids)
    BY <2>1, ListingsSelect
  <2>3. Gone' = {}
    BY <2>1 DEF Gone, NoReply
  <2> QED
    BY <1>1, <2>1, <2>2, <2>3 DEF TagRemoval, WithIds, contents, current, Rows
<1>5. CASE RemoveNext("RemoveTag", "deleteTag")
  <2>1. /\ UNCHANGED <<rq, before, contents>> /\ todo' = todo
        /\ step = "next" /\ step' \in {"delete", "reply"}
        /\ step' = "delete" => phase' = "pending"
        /\ reply' \in {reply, [reply EXCEPT !.ok = TRUE]}
    BY <1>5 DEF RemoveNext, CallStore, ReplyWith, StoreUnused, Store!Receive, Store!contents, contents
  <2>2. reply'.removed = reply.removed
    BY <1>3, <2>1 DEF Replies
  <2> QED
    BY <1>2, <2>1, <2>2 DEF Gone
<1>6. CASE Removed("RemoveTag")
  <2>1. /\ UNCHANGED <<rq, before, contents>> /\ todo' \subseteq todo
        /\ step = "delete" /\ step' = "next"
        /\ \/ phase = "applied" /\ reply' = [reply EXCEPT !.removed = @ \cup {request.id}]
           \/ phase = "refused" /\ reply' = reply
    BY <1>6 DEF Removed, Returned, Store!Finish, Store!contents, contents
  <2>2. Gone' = Gone
    BY <1>3, <2>1 DEF Gone, Replies
  <2> QED
    BY <1>2, <2>1, <2>2
<1>7. CASE StoreAtWork
  <2>1. /\ UNCHANGED <<rq, before, step, reply, todo, request>>
        /\ phase = "pending" /\ phase' \in {"applied", "refused"}
    BY <1>7 DEF StoreAtWork, Store!Apply, Store!Refuse, handler
  <2>2. step = "delete" /\ rq \in RemoveTagRqs
    BY <2>1, MethodOf DEF ControlOK, HandlerOK, Steps, StoreMatchesStep
  <2>3. request.id \in todo /\ request.op = "deleteTag"
    BY <2>1, <2>2, MethodOf DEF ControlOK, StoreMatchesStep, CallFits
  <2>4. CASE Store!Apply
    <3>1. Store!DeleteTag(request)
      BY <2>3, <2>4 DEF Store!Apply, Store!Effect
    <3>2. Gone' = Gone \cup {request.id}
      BY <2>1, <2>2, <2>4 DEF Gone, Store!Apply
    <3>3. request.id \in TagIds
      BY <1>1, <2>2, <2>3 DEF TagRemoval, ControlOK, StoreOK, Contents, TagTable, Rows
    <3>4. tags' = [tags EXCEPT ![request.id] = NoRow] /\ memos' = memos
      BY <3>1 DEF Store!DeleteTag
    <3>5. \A m \in MemoIds : tagged'[m] = tagged[m] \ {request.id}
      BY <3>1 DEF Store!DeleteTag
    <3> QED
      BY <1>1, <2>1, <2>2, <2>3, <3>2, <3>3, <3>4, <3>5 DEF TagRemoval, TagTable
  <2>5. CASE Store!Refuse
    <3>1. Gone' = Gone /\ UNCHANGED contents
      BY <2>1, <2>5 DEF Gone, Store!Refuse, Store!contents, contents
    <3> QED
      BY <1>2, <2>1, <3>1
  <2> QED
    BY <1>7, <2>4, <2>5 DEF StoreAtWork
<1>8. CASE UNCHANGED vars
  <2>1. Gone' = Gone
    BY <1>8 DEF Gone, vars, handler
  <2> QED
    BY <1>2, <1>8, <2>1 DEF vars, handler
<1> QED
  BY InMethod, <1>4, <1>5, <1>6, <1>7, <1>8

\* A listing whose SELECT does not fail has a row if any is selected.
LEMMA ListingFindsOne ==
    ASSUME NEW ids, ids \subseteq Nat, ids # {}, ~degraded', NEW selection \in Listings(ids)
    PROVE  selection # {}
<1>1. selection = Limited(ids, MaxCount)
  BY DEF Listings
<1>2. PICK i \in ids : \A j \in ids : ~(<<j, i>> \in OpToRel(<, Nat))
  BY NatLessThanWellFounded, WFMin
<1>3. {j \in ids : j < i} = {}
  BY <1>2 DEF OpToRel
<1>4. Cardinality({j \in ids : j < i}) < MaxCount
  <2>1. Cardinality({j \in ids : j < i}) = 0
    BY <1>3, FS_EmptySet, Zenon
  <2>2. MaxCount \in Nat \ {0}
    BY ServicesAssumption
  <2> QED
    BY <2>1, <2>2
<1> QED
  BY <1>1, <1>4 DEF Limited

\* What the store could not do was impossible for the request, if nothing had changed.
LEMMA ImpossibleThen ==
    ASSUME ControlOK, current = before, step \in {"insert", "update"}, ~Store!Possible(request)
    PROVE  WasImpossible
<1>1. memos = before.memo /\ tags = before.tag
  BY DEF current
<1>2. \A r : Store!Possible(r) = Before!Possible(r)
  BY <1>1 DEF Store!Possible, Before!Possible, Store!Rows, Before!Rows, Store!Named, Before!Named,
             Store!IsNew, Before!IsNew
<1> QED
  BY <1>2, MethodOf DEF ControlOK, CallFits, WasImpossible

\* No fault is ever repaired.
LEMMA FaultsStay == StoreOK /\ [Next]_vars /\ degraded => degraded'
BY Cases DEF StoreOK, StartAddMemo, StartAddTag, StartUpdateMemo, StartUpdateTag, StartRemove,
   CallStore, Returned, StoreUnused, Inserted, LookUp, Updated, RemoveNext, Removed, Return, Kill,
   Store!Receive, Store!Apply, Store!Refuse, Store!Finish, Store!MayDegrade, vars

LEMMA WasImpossibleStays == UNCHANGED <<rq, before>> => WasImpossible' = WasImpossible
BY DEF WasImpossible, Before!Possible, Before!Rows, Before!Named, Before!IsNew

LEMMA RefusingStep == ControlOK /\ Progress /\ [Next]_vars => Refusing'
<1> SUFFICES ASSUME ControlOK, Progress, [Next]_vars, ~degraded' PROVE Refusing'
  BY DEF Refusing
<1>1. ~degraded
  BY FaultsStay DEF ControlOK
<1>2. /\ phase = "refused" /\ step \in {"insert", "update"} =>
             ~Store!Possible(request) /\ current = before
      /\ step = "reply" /\ ~reply.ok => WasImpossible /\ current = before
  BY <1>1 DEF Progress, Refusing
<1>3. ASSUME UNCHANGED <<rq, before, contents>>, step' = "reply", reply' = NoReply,
             phase = "refused", step \in {"insert", "update"}
      PROVE  Refusing'
  <2>1. current = before /\ WasImpossible
    BY <1>2, <1>3, ImpossibleThen
  <2> QED
    BY <1>3, <2>1, WasImpossibleStays DEF Refusing, contents, current
<1>4. ASSUME step' \notin {"insert", "update"}, step' = "reply" => reply'.ok PROVE Refusing'
  BY <1>4 DEF Refusing
<1>5. ASSUME phase' # "refused", step' # "reply" PROVE Refusing'
  BY <1>5 DEF Refusing
<1>6. ASSUME NEW method, Inserted(method) PROVE Refusing'
  <2>1. /\ UNCHANGED <<rq, before, contents>> /\ step = "insert"
        /\ \/ step' = "lookup"
           \/ phase = "refused" /\ step' = "reply" /\ reply' = NoReply
    BY <1>6 DEF Inserted, Returned, ReplyWith, Store!Finish, Store!contents, contents
  <2> QED
    BY <1>3, <1>4, <2>1
<1>7. ASSUME NEW method, Updated(method) PROVE Refusing'
  <2>1. /\ UNCHANGED <<rq, before, contents>> /\ step = "update" /\ step' = "reply"
        /\ \/ phase = "applied" /\ reply' = [NoReply EXCEPT !.ok = TRUE]
           \/ phase = "refused" /\ reply' = NoReply
    BY <1>7 DEF Updated, Returned, ReplyWith, Store!Finish, Store!contents, contents
  <2>2. [NoReply EXCEPT !.ok = TRUE].ok
    BY DEF NoReply
  <2> QED
    BY <1>3, <1>4, <2>1, <2>2
<1>8. CASE LookUp("AddMemo", memos)
  <2>1. PICK selection \in Listings(WithText(memos, rq.text)) :
           reply' = IF selection = {} THEN NoReply
                    ELSE [NoReply EXCEPT !.ok = TRUE, !.id = First(selection)]
    BY <1>8 DEF LookUp, ReplyWith
  <2>2. step = "lookup" /\ rq \in AddMemoRqs /\ step' = "reply"
    BY <1>8, MethodOf DEF LookUp, ReplyWith, ControlOK, StoreMatchesStep
  <2>3. PICK m \in MemoIds : memos = [before.memo EXCEPT ![m] = rq.text]
    BY <2>2 DEF Progress, MemoAdding, MemoAdded
  <2>4. before.memo \in MemoTable /\ rq.text \in Titles /\ rq.text # NoRow
    BY <2>2, MethodOf, SchemaAssumption DEF ControlOK, StoreOK, Contents
  <2>5. m \in WithText(memos, rq.text)
    BY <2>3, <2>4, ServicesAssumption DEF MemoTable, WithText, Rows
  <2>6. selection # {}
    BY <2>5, ListingFindsOne, SelectionTyped, SchemaAssumption DEF ControlOK
  <2>7. reply'.ok
    BY <2>1, <2>6 DEF NoReply
  <2> QED
    BY <1>4, <2>2, <2>7
<1>9. CASE LookUp("AddTag", tags)
  <2>1. PICK selection \in Listings(WithText(tags, rq.text)) :
           reply' = IF selection = {} THEN NoReply
                    ELSE [NoReply EXCEPT !.ok = TRUE, !.id = First(selection)]
    BY <1>9 DEF LookUp, ReplyWith
  <2>2. step = "lookup" /\ rq \in AddTagRqs /\ step' = "reply"
    BY <1>9, MethodOf DEF LookUp, ReplyWith, ControlOK, StoreMatchesStep
  <2>3. PICK t \in TagIds : tags = [before.tag EXCEPT ![t] = rq.text]
    BY <2>2 DEF Progress, TagAdding, TagAdded
  <2>4. before.tag \in TagTable /\ rq.text \in Names /\ rq.text # NoRow
    BY <2>2, MethodOf, SchemaAssumption DEF ControlOK, StoreOK, Contents
  <2>5. t \in WithText(tags, rq.text)
    BY <2>3, <2>4, ServicesAssumption DEF TagTable, WithText, Rows
  <2>6. selection # {}
    BY <2>5, ListingFindsOne, SelectionTyped, SchemaAssumption DEF ControlOK
  <2>7. reply'.ok
    BY <2>1, <2>6 DEF NoReply
  <2> QED
    BY <1>4, <2>2, <2>7
<1>10. ASSUME NEW method, NEW op, RemoveNext(method, op) PROVE Refusing'
  <2>1. \/ step' = "delete"
        \/ step' = "reply" /\ reply' = [reply EXCEPT !.ok = TRUE]
    BY <1>10 DEF RemoveNext, CallStore, ReplyWith
  <2>2. [reply EXCEPT !.ok = TRUE].ok
    BY DEF ControlOK, HandlerOK, Replies
  <2> QED
    BY <1>4, <2>1, <2>2
<1>11. ASSUME NEW method, Removed(method) PROVE Refusing'
  BY <1>4, <1>11 DEF Removed
<1>12. CASE Return \/ Kill
  BY <1>4, <1>12 DEF Return, Kill, HandlerEnds
<1>13. ASSUME NEW q, NEW table, StartRemove(q, table) PROVE Refusing'
  BY <1>4, <1>13 DEF StartRemove
<1>14. ASSUME NEW q, StartAddMemo(q) \/ StartAddTag(q) \/ StartUpdateMemo(q) \/ StartUpdateTag(q)
       PROVE  Refusing'
  <2>1. phase' = "pending" /\ step' \in {"insert", "update"}
    BY <1>14, PhaseAfter DEF StartAddMemo, StartAddTag, StartUpdateMemo, StartUpdateTag, CallStore
  <2> QED
    BY <1>5, <2>1
<1>15. CASE StoreAtWork
  <2>1. /\ UNCHANGED <<rq, before, step, reply, request>> /\ phase = "pending"
        /\ \/ phase' = "applied"
           \/ Store!Refuse /\ phase' = "refused" /\ UNCHANGED contents
    BY <1>15 DEF StoreAtWork, Store!Apply, Store!Refuse, Store!contents, contents, handler
  <2>2. step # "reply"
    BY <2>1 DEF ControlOK, StoreMatchesStep
  <2>3. CASE phase' = "applied"
    BY <1>5, <2>1, <2>2, <2>3
  <2>4. CASE Store!Refuse /\ step \in {"insert", "update"}
    <3>1. current = before
      BY <2>1, <2>4 DEF ControlOK, CallFits, Progress, MemoAdding, TagAdding, MemoUpdating, TagUpdating
    <3>2. ~Store!Possible(request) /\ UNCHANGED <<memos, tags, tagged>>
      BY <2>4 DEF Store!Refuse, Store!contents
    <3>3. Store!Possible(request)' = Store!Possible(request)
      BY <2>1, <3>2 DEF Store!Possible, Store!Rows, Store!Named, Store!IsNew
    <3> QED
      BY <2>1, <2>2, <3>1, <3>2, <3>3 DEF Refusing, current
  <2>5. CASE step \notin {"insert", "update"}
    BY <1>4, <2>1, <2>2, <2>5
  <2> QED
    BY <2>1, <2>3, <2>4, <2>5
<1>16. CASE UNCHANGED vars
  <2>1. UNCHANGED <<rq, before, step, reply, request, phase, memos, tags, tagged>>
    BY <1>16 DEF vars, contents, handler
  <2>2. Store!Possible(request)' = Store!Possible(request)
    BY <2>1 DEF Store!Possible, Store!Rows, Store!Named, Store!IsNew
  <2> QED
    BY <1>2, <2>1, <2>2, WasImpossibleStays DEF Refusing, current
<1> QED
  BY Cases, <1>6, <1>7, <1>8, <1>9, <1>10, <1>11, <1>12, <1>13, <1>14, <1>15, <1>16
     DEF StoreAtWork

-----------------------------------------------------------------------------
(* The theorems *)

LEMMA Starts == Init => IInv
<1> SUFFICES ASSUME Init PROVE IInv
  OBVIOUS
<1>1. /\ memos = [m \in MemoIds |-> NoRow] /\ tags = [t \in TagIds |-> NoRow]
      /\ tagged = [m \in MemoIds |-> {}] /\ request = NoRequest /\ phase = "idle"
      /\ degraded = FALSE
  BY DEF Init, Store!Init
<1>2. /\ rq = NoRq /\ step = "idle" /\ todo = {} /\ reply = NoReply /\ before = current
  BY DEF Init
<1>3. NoReply \in Replies
  BY DEF NoReply, Replies
<1>4. NoRq \notin Rqs
  BY ServicesAssumption
<1>5. StoreOK
  BY <1>1, <1>2 DEF StoreOK, current, Contents, MemoTable, TagTable
<1>6. HandlerOK /\ StoreMatchesStep /\ CallFits
  BY <1>1, <1>2, <1>3, <1>4 DEF HandlerOK, Steps, StoreMatchesStep, CallFits, Rqs
<1>7. Progress
  BY <1>1, <1>2, <1>4 DEF Progress, MemoAdding, TagAdding, MemoUpdating, TagUpdating, MemoRemoval,
                    TagRemoval, Refusing, Rqs
<1> QED
  BY <1>5, <1>6, <1>7 DEF IInv, ControlOK

LEMMA Inductive == IInv /\ [Next]_vars => IInv'
BY ControlStep, MemoAddingStep, TagAddingStep, MemoUpdatingStep, TagUpdatingStep,
   MemoRemovalStep, TagRemovalStep, RefusingStep DEF IInv, Progress

\* In every behaviour of the handlers and the store, the invariant holds.
THEOREM InvariantHolds == Spec => []IInv
BY Starts, Inductive, PTL DEF Spec

\* Handlers and store keep their types, and the store works on what the handler asked
\* for.
THEOREM TypeCorrect == Spec => []TypeOK
<1>1. IInv => TypeOK
  BY DEF IInv, ControlOK, StoreOK, HandlerOK, TypeOK
<1> QED
  BY <1>1, InvariantHolds, PTL

\* When a reply is ready, the request is one of its method's.
LEMMA ReplyMethod ==
    ASSUME ControlOK, step = "reply"
    PROVE  /\ rq.method = "AddMemo" => rq \in AddMemoRqs
           /\ rq.method = "AddTag" => rq \in AddTagRqs
           /\ rq.method = "UpdateMemo" => rq \in UpdateMemoRqs
           /\ rq.method = "UpdateTag" => rq \in UpdateTagRqs
           /\ rq.method = "RemoveMemo" => rq \in RemoveMemoRqs
           /\ rq.method = "RemoveTag" => rq \in RemoveTagRqs
<1>1. rq \in Rqs
  BY DEF ControlOK, HandlerOK, StoreMatchesStep
<1> QED
  BY <1>1, MethodOf DEF Rqs

\* A client that reads SUCCESS from AddMemo, AddTag, UpdateMemo or UpdateTag finds in the
\* database what it asked for; only the tags of a new memo may be on another one, if LIKE
\* takes the titles of the two for the same.
THEOREM SuccessMeansStored == Spec => []SuccessIsStored
<1>1. ASSUME IInv, step = "reply", rq.method = "AddMemo", reply.ok
      PROVE  /\ \E m \in Rows(memos) \ Rows(before.memo) :
                    /\ memos[m] = rq.text
                    /\ MatchesItselfAlone(memos) => tagged[m] = Store!Named(rq)
             /\ \E m \in Rows(memos) :
                    <<rq.text, memos[m]>> \in Like /\ Store!Named(rq) \subseteq tagged[m]
  <2>1. rq \in AddMemoRqs /\ MemoAdded
    BY <1>1, ReplyMethod DEF IInv, Progress, MemoAdding
  <2>2. PICK m \in MemoIds, k \in MemoIds :
           /\ before.memo[m] = NoRow
           /\ memos = [before.memo EXCEPT ![m] = rq.text]
           /\ \A i \in Rows(before.memo) : before.memo[i] # rq.text
           /\ k \in Rows(memos) /\ <<rq.text, memos[k]>> \in Like
           /\ Store!Named(rq) \subseteq tagged[k]
           /\ k = m => tagged[m] = Store!Named(rq)
    BY <2>1 DEF MemoAdded
  <2>3. before.memo \in MemoTable /\ rq.text # NoRow
    BY <1>1, <2>1, MethodOf, SchemaAssumption DEF IInv, ControlOK, StoreOK, Contents
  <2>4. m \in Rows(memos) \ Rows(before.memo) /\ memos[m] = rq.text
    BY <2>2, <2>3 DEF MemoTable, Rows
  <2>5. ASSUME MatchesItselfAlone(memos) PROVE tagged[m] = Store!Named(rq)
    <3>1. memos[k] = rq.text
      BY <2>2, <2>5 DEF MatchesItselfAlone
    <3>2. k = m
      BY <2>2, <2>3, <3>1 DEF MemoTable, Rows
    <3> QED
      BY <2>2, <3>2
  <2> QED
    BY <2>2, <2>4, <2>5
<1>2. ASSUME IInv, step = "reply", rq.method = "AddTag", reply.ok
      PROVE  \E t \in Rows(tags) \ Rows(before.tag) : tags[t] = rq.text
  <2>1. rq \in AddTagRqs /\ TagAdded
    BY <1>2, ReplyMethod DEF IInv, Progress, TagAdding
  <2>2. PICK t \in TagIds : before.tag[t] = NoRow /\ tags = [before.tag EXCEPT ![t] = rq.text]
    BY <2>1 DEF TagAdded
  <2>3. before.tag \in TagTable /\ rq.text # NoRow
    BY <1>2, <2>1, MethodOf, SchemaAssumption DEF IInv, ControlOK, StoreOK, Contents
  <2> QED
    BY <2>2, <2>3 DEF TagTable, Rows
<1>3. IInv => AddedIsStored
  BY <1>1, <1>2 DEF AddedIsStored, Replied
<1>4. IInv => UpdatedIsStored
  BY ReplyMethod DEF IInv, Progress, MemoUpdating, MemoUpdated, TagUpdating, TagUpdated,
                     UpdatedIsStored, Replied
<1>5. IInv => SuccessIsStored
  BY <1>3, <1>4 DEF SuccessIsStored
<1> QED
  BY <1>5, InvariantHolds, PTL

\* The id in a reply to AddMemo or AddTag is that of the row just inserted, if no other
\* row's text is LIKE the request's.
THEOREM AddedIdCorrect == Spec => []AddedIdIsNew
<1>1. ASSUME IInv, step = "reply", rq.method = "AddMemo", reply.ok, Unambiguous(memos)
      PROVE  before.memo[reply.id] = NoRow /\ memos[reply.id] = rq.text
  <2>1. rq \in AddMemoRqs /\ MemoAdded /\ reply.id \in WithText(memos, rq.text)
    BY <1>1, ReplyMethod DEF IInv, Progress, MemoAdding
  <2>2. reply.id \in Rows(memos) /\ memos[reply.id] = rq.text
    BY <1>1, <2>1 DEF Unambiguous, MatchesItselfAlone, WithText
  <2>3. PICK m \in MemoIds : /\ before.memo[m] = NoRow
                             /\ memos = [before.memo EXCEPT ![m] = rq.text]
                             /\ \A i \in Rows(before.memo) : before.memo[i] # rq.text
    BY <2>1 DEF MemoAdded
  <2>4. reply.id = m
    BY <2>2, <2>3 DEF Rows
  <2> QED
    BY <2>2, <2>3, <2>4
<1>2. ASSUME IInv, step = "reply", rq.method = "AddTag", reply.ok, Unambiguous(tags)
      PROVE  before.tag[reply.id] = NoRow /\ tags[reply.id] = rq.text
  <2>1. rq \in AddTagRqs /\ TagAdded /\ reply.id \in WithText(tags, rq.text)
    BY <1>2, ReplyMethod DEF IInv, Progress, TagAdding
  <2>2. reply.id \in Rows(tags) /\ tags[reply.id] = rq.text
    BY <1>2, <2>1 DEF Unambiguous, MatchesItselfAlone, WithText
  <2>3. PICK t \in TagIds : /\ before.tag[t] = NoRow
                            /\ tags = [before.tag EXCEPT ![t] = rq.text]
                            /\ \A i \in Rows(before.tag) : before.tag[i] # rq.text
    BY <2>1 DEF TagAdded
  <2>4. reply.id = t
    BY <2>2, <2>3 DEF Rows
  <2> QED
    BY <2>2, <2>3, <2>4
<1>3. IInv => AddedIdIsNew
  BY <1>1, <1>2 DEF AddedIdIsNew, Replied
<1> QED
  BY <1>3, InvariantHolds, PTL

\* RemoveMemo and RemoveTag report exactly the rows that are gone, whichever of the
\* deletions failed.
THEOREM RemovalReported == Spec => []RemovalIsReported
<1>1. ASSUME IInv, step = "reply", rq.method = "RemoveMemo"
      PROVE  reply.removed = Rows(before.memo) \ Rows(memos)
  <2>1. rq \in RemoveMemoRqs /\ MemoRemoval /\ Gone = reply.removed
    BY <1>1, ReplyMethod DEF IInv, Progress, Gone
  <2>2. memos \in MemoTable /\ before.memo \in MemoTable
    BY <1>1 DEF IInv, ControlOK, StoreOK, current, Contents
  <2> QED
    BY <2>1, <2>2 DEF MemoRemoval, MemoTable, Rows
<1>2. ASSUME IInv, step = "reply", rq.method = "RemoveTag"
      PROVE  reply.removed = Rows(before.tag) \ Rows(tags)
  <2>1. rq \in RemoveTagRqs /\ TagRemoval /\ Gone = reply.removed
    BY <1>2, ReplyMethod DEF IInv, Progress, Gone
  <2>2. tags \in TagTable /\ before.tag \in TagTable
    BY <1>2 DEF IInv, ControlOK, StoreOK, current, Contents
  <2> QED
    BY <2>1, <2>2 DEF TagRemoval, TagTable, Rows
<1>3. IInv => RemovalIsReported
  BY <1>1, <1>2 DEF RemovalIsReported, Replied
<1> QED
  BY <1>3, InvariantHolds, PTL

\* At no point of a removal with ids has any other row been touched, so that a kill in
\* the middle leaves those alone too.
THEOREM OnlyNamedGo == Spec => []OnlyNamedAreRemoved
<1>1. ASSUME IInv, rq \in RemoveMemoRqs, rq.ids # {}
      PROVE  /\ tags = before.tag
             /\ \A m \in MemoIds \ rq.ids : memos[m] = before.memo[m] /\ tagged[m] = before.tagged[m]
  BY <1>1 DEF IInv, Progress, MemoRemoval
<1>2. ASSUME IInv, rq \in RemoveTagRqs, rq.ids # {}
      PROVE  /\ memos = before.memo
             /\ \A t \in TagIds \ rq.ids : tags[t] = before.tag[t]
             /\ \A m \in MemoIds : tagged[m] \ rq.ids = before.tagged[m] \ rq.ids
  <2>1. TagRemoval /\ Gone \subseteq rq.ids
    BY <1>2 DEF IInv, Progress, TagRemoval
  <2>2. \A m \in MemoIds : tagged[m] \ Gone = before.tagged[m] \ Gone
    BY <1>2, <2>1 DEF TagRemoval
  <2>3. \A m \in MemoIds : tagged[m] \ rq.ids = before.tagged[m] \ rq.ids
    BY <2>1, <2>2
  <2> QED
    BY <1>2, <2>1, <2>3 DEF TagRemoval
<1>3. IInv => OnlyNamedAreRemoved
  BY <1>1, <1>2 DEF OnlyNamedAreRemoved
<1> QED
  BY <1>3, InvariantHolds, PTL

\* As long as the database has no fault, FAILURE is the answer to an impossible request,
\* and nothing has changed: no memo is stored and reported as not added.
THEOREM FailureJustified == Spec => []FailureHasReason
<1>1. IInv => FailureHasReason
  BY DEF IInv, Progress, Refusing, FailureHasReason
<1> QED
  BY <1>1, InvariantHolds, PTL

-----------------------------------------------------------------------------
(* A removal is complete *)

\* Few enough rows are listed completely, if the SELECT does not fail.
LEMMA AllListed ==
    ASSUME NEW ids, ids \subseteq Nat, IsFiniteSet(ids), Cardinality(ids) =< MaxCount,
           ~degraded', NEW selection \in Listings(ids)
    PROVE  selection = ids
<1>1. selection = Limited(ids, MaxCount)
  BY DEF Listings
<1>2. ASSUME NEW i \in ids PROVE Cardinality({j \in ids : j < i}) < MaxCount
  <2> DEFINE smaller == {j \in ids : j < i}
  <2>1. smaller \subseteq ids /\ smaller # ids
    <3>1. i \notin smaller
      OBVIOUS
    <3> QED
      BY <3>1
  <2> HIDE DEF smaller
  <2>2. IsFiniteSet(smaller) /\ Cardinality(smaller) =< Cardinality(ids)
        /\ (Cardinality(smaller) = Cardinality(ids) => smaller = ids)
    BY <2>1, FS_Subset
  <2>3. Cardinality(smaller) \in Nat /\ Cardinality(ids) \in Nat /\ MaxCount \in Nat
    BY <2>2, FS_CardinalityType, ServicesAssumption
  <2>4. Cardinality(smaller) < MaxCount
    BY <2>1, <2>2, <2>3
  <2> QED
    BY <2>4 DEF smaller
<1> QED
  BY <1>1, <1>2 DEF Limited

\* What a removal still has to delete, if there was no fault: all rows of the request.
Completing ==
    ~degraded =>
        /\ ~(step = "delete" /\ phase = "refused")
        /\ rq \in RemoveMemoRqs /\ Cardinality(rq.ids) =< MaxCount => rq.ids \cap Rows(memos) \subseteq todo
        /\ rq \in RemoveTagRqs /\ Cardinality(rq.ids) =< MaxCount => rq.ids \cap Rows(tags) \subseteq todo

LEMMA CompletingStep ==
    ASSUME IsFiniteSet(MemoIds), IsFiniteSet(TagIds), IInv, Completing, [Next]_vars
    PROVE  Completing'
<1> SUFFICES ASSUME ~degraded' PROVE Completing'
  BY DEF Completing
<1>1. ~degraded /\ ControlOK
  BY FaultsStay DEF IInv, ControlOK
<1>3. ASSUME rq' \notin RemoveMemoRqs \cup RemoveTagRqs, step' # "delete" PROVE Completing'
  BY <1>3 DEF Completing
<1>4. ASSUME UNCHANGED <<rq, contents, todo>>, ~(step' = "delete" /\ phase' = "refused")
      PROVE  Completing'
  BY <1>1, <1>4 DEF Completing, contents, Rows
<1>5. ASSUME NEW q, StartAddMemo(q) \/ StartAddTag(q) \/ StartUpdateMemo(q) \/ StartUpdateTag(q),
             q \in AddMemoRqs \cup AddTagRqs \cup UpdateMemoRqs \cup UpdateTagRqs
      PROVE  Completing'
  <2>1. rq' = q /\ step' # "delete"
    BY <1>5 DEF StartAddMemo, StartAddTag, StartUpdateMemo, StartUpdateTag, Start, CallStore
  <2> QED
    BY <1>3, <1>5, <2>1, MethodOf
<1>6. ASSUME NEW q \in RemoveMemoRqs, StartRemove(q, memos) PROVE Completing'
  <2>1. /\ rq' = q /\ step' = "next" /\ UNCHANGED <<memos, tags>>
        /\ todo' \in Listings(WithIds(memos, q.ids))
    BY <1>6 DEF StartRemove, Start, StoreUnused, contents
  <2>2. ASSUME Cardinality(q.ids) =< MaxCount PROVE q.ids \cap Rows(memos) \subseteq todo'
    <3>1. CASE q.ids = {}
      BY <3>1
    <3>2. CASE q.ids # {}
      <4>1. WithIds(memos, q.ids) = Rows(memos) \cap q.ids
        BY <3>2 DEF WithIds
      <4>2. /\ q.ids \subseteq MemoIds /\ IsFiniteSet(q.ids)
            /\ WithIds(memos, q.ids) \subseteq q.ids /\ WithIds(memos, q.ids) \subseteq Nat
        BY <4>1, MethodOf, FS_Subset, SchemaAssumption DEF RemoveMemoRqs, RemoveTagRqs
      <4>3. /\ IsFiniteSet(WithIds(memos, q.ids))
            /\ Cardinality(WithIds(memos, q.ids)) =< Cardinality(q.ids)
        BY <4>2, FS_Subset
      <4>4. Cardinality(WithIds(memos, q.ids)) =< MaxCount
        <5>1. /\ Cardinality(WithIds(memos, q.ids)) \in Nat /\ Cardinality(q.ids) \in Nat
              /\ MaxCount \in Nat
          BY <4>2, <4>3, FS_CardinalityType, ServicesAssumption
        <5> QED
          BY <2>2, <4>3, <5>1
      <4> QED
        BY <2>1, <4>1, <4>2, <4>3, <4>4, AllListed
    <3> QED
      BY <3>1, <3>2
  <2> QED
    BY <2>1, <2>2, MethodOf DEF Completing, Rows
<1>7. ASSUME NEW q \in RemoveTagRqs, StartRemove(q, tags) PROVE Completing'
  <2>1. /\ rq' = q /\ step' = "next" /\ UNCHANGED <<memos, tags>>
        /\ todo' \in Listings(WithIds(tags, q.ids))
    BY <1>7 DEF StartRemove, Start, StoreUnused, contents
  <2>2. ASSUME Cardinality(q.ids) =< MaxCount PROVE q.ids \cap Rows(tags) \subseteq todo'
    <3>1. CASE q.ids = {}
      BY <3>1
    <3>2. CASE q.ids # {}
      <4>1. WithIds(tags, q.ids) = Rows(tags) \cap q.ids
        BY <3>2 DEF WithIds
      <4>2. /\ q.ids \subseteq TagIds /\ IsFiniteSet(q.ids)
            /\ WithIds(tags, q.ids) \subseteq q.ids /\ WithIds(tags, q.ids) \subseteq Nat
        BY <4>1, MethodOf, FS_Subset, SchemaAssumption DEF RemoveMemoRqs, RemoveTagRqs
      <4>3. /\ IsFiniteSet(WithIds(tags, q.ids))
            /\ Cardinality(WithIds(tags, q.ids)) =< Cardinality(q.ids)
        BY <4>2, FS_Subset
      <4>4. Cardinality(WithIds(tags, q.ids)) =< MaxCount
        <5>1. /\ Cardinality(WithIds(tags, q.ids)) \in Nat /\ Cardinality(q.ids) \in Nat
              /\ MaxCount \in Nat
          BY <4>2, <4>3, FS_CardinalityType, ServicesAssumption
        <5> QED
          BY <2>2, <4>3, <5>1
      <4> QED
        BY <2>1, <4>1, <4>2, <4>3, <4>4, AllListed
    <3> QED
      BY <3>1, <3>2
  <2> QED
    BY <2>1, <2>2, MethodOf DEF Completing, Rows
<1>8. ASSUME NEW method, NEW table, Inserted(method) \/ Updated(method) \/ LookUp(method, table)
      PROVE  Completing'
  <2>1. UNCHANGED <<rq, contents, todo>> /\ step' # "delete"
    BY <1>8 DEF Inserted, Updated, LookUp, Returned, ReplyWith, StoreUnused, Store!Finish,
                Store!contents, contents
  <2> QED
    BY <1>4, <2>1
<1>9. ASSUME NEW method, NEW op, RemoveNext(method, op) PROVE Completing'
  <2>1. /\ UNCHANGED <<rq, contents, todo>>
        /\ step' = "delete" => phase' = "pending"
    BY <1>9 DEF RemoveNext, CallStore, ReplyWith, StoreUnused, Store!Receive, Store!contents, contents
  <2> QED
    BY <1>4, <2>1
<1>10. ASSUME NEW method \in {"RemoveMemo", "RemoveTag"}, Removed(method) PROVE Completing'
  <2>1. /\ UNCHANGED <<rq, memos, tags>> /\ step = "delete" /\ step' = "next"
        /\ phase \in {"applied", "refused"} /\ todo' = todo \ {request.id}
    BY <1>10 DEF Removed, Returned, Store!Finish, Store!contents
  <2>2. phase = "applied"
    BY <1>1, <2>1 DEF Completing
  <2>3. request.id \in Gone
    BY <2>1, <2>2 DEF Gone
  <2>4. /\ rq \in RemoveMemoRqs => request.id \notin Rows(memos)
        /\ rq \in RemoveTagRqs => request.id \notin Rows(tags)
    BY <2>3 DEF IInv, Progress, MemoRemoval, TagRemoval, Rows
  <2> QED
    BY <1>1, <2>1, <2>4 DEF Completing, Rows
<1>11. CASE StoreAtWork
  <2>1. UNCHANGED <<rq, step, todo, request>> /\ phase = "pending"
    BY <1>11 DEF StoreAtWork, Store!Apply, Store!Refuse, handler
  <2>2. CASE rq \notin RemoveMemoRqs \cup RemoveTagRqs
    <3>1. step # "delete"
      BY <1>1, <2>2 DEF ControlOK, StoreMatchesStep
    <3> QED
      BY <1>3, <2>1, <2>2, <3>1
  <2>3. CASE rq \in RemoveMemoRqs \cup RemoveTagRqs
    <3>1. step = "delete"
      BY <1>1, <2>1, <2>3, MethodOf DEF ControlOK, HandlerOK, Steps, StoreMatchesStep
    <3>2. /\ request.op \in {"deleteMemo", "deleteTag"}
          /\ rq \in RemoveMemoRqs => request.op = "deleteMemo"
          /\ rq \in RemoveTagRqs => request.op = "deleteTag"
      BY <1>1, <3>1, MethodOf DEF ControlOK, CallFits
    <3>3. Store!Possible(request)
      BY <3>2 DEF Store!Possible
    <3>4. Store!Apply
      BY <1>11, <3>3 DEF StoreAtWork, Store!Refuse
    <3>5. /\ rq \in RemoveMemoRqs => Rows(memos)' \subseteq Rows(memos)
          /\ rq \in RemoveTagRqs => Rows(tags)' \subseteq Rows(tags)
      <4>1. memos \in MemoTable /\ tags \in TagTable
        BY <1>1 DEF ControlOK, StoreOK, current, Contents
      <4> QED
        BY <3>2, <3>4, <4>1 DEF Store!Apply, Store!Effect, Store!DeleteMemo, Store!DeleteTag,
                                MemoTable, TagTable, Rows
    <3> QED
      BY <1>1, <2>1, <3>4, <3>5, MethodOf DEF Completing, Store!Apply
  <2> QED
    BY <2>2, <2>3
<1>12. CASE Return \/ Kill
  <2>1. rq' = NoRq /\ step' = "idle" /\ NoRq \notin Rqs
    BY <1>12, ServicesAssumption DEF Return, Kill, HandlerEnds
  <2> QED
    BY <1>3, <2>1 DEF Rqs
<1>13. CASE UNCHANGED vars
  BY <1>1, <1>13 DEF Completing, vars, contents, handler, Rows
<1> QED
  BY Cases, <1>5, <1>6, <1>7, <1>8, <1>9, <1>10, <1>11, <1>12, <1>13 DEF StoreAtWork

\* Without a fault, a removal of no more ids than a listing holds leaves none of them;
\* a request, and the database, have finitely many ids.
THEOREM RemovalCompletes ==
    ASSUME IsFiniteSet(MemoIds), IsFiniteSet(TagIds)
    PROVE  Spec => []RemovalIsComplete
<1>1. Init => Completing
  BY ServicesAssumption DEF Init, Completing, Rqs
<1>2. IInv /\ Completing /\ [Next]_vars => Completing'
  BY CompletingStep
<1>3. ASSUME IInv, Completing PROVE RemovalIsComplete
  <2>1. step = "reply" => todo = {}
    BY <1>3 DEF IInv, ControlOK, StoreMatchesStep
  <2>2. ASSUME ~degraded, step = "reply", rq.method = "RemoveMemo", Cardinality(rq.ids) =< MaxCount
        PROVE  rq.ids \cap Rows(memos) = {}
    BY <1>3, <2>1, <2>2, ReplyMethod DEF Completing, IInv
  <2>3. ASSUME ~degraded, step = "reply", rq.method = "RemoveTag", Cardinality(rq.ids) =< MaxCount
        PROVE  rq.ids \cap Rows(tags) = {}
    BY <1>3, <2>1, <2>3, ReplyMethod DEF Completing, IInv
  <2> QED
    BY <2>2, <2>3 DEF RemovalIsComplete, Replied
<1>4. IInv /\ Completing => RemovalIsComplete
  BY <1>3
<1> QED
  BY <1>1, <1>2, <1>4, InvariantHolds, PTL DEF Spec

=============================================================================
