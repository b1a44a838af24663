--------------------------- MODULE ListOperations ---------------------------
(***************************************************************************)
(* Reading: the handlers ListMemos and ListTags (src/server/service) with  *)
(* the database operations listMemos and listTags, one SELECT per step.    *)
(*                                                                         *)
(* listMemos selects the rows and then, for each of them, its tags; the    *)
(* ListMemos handler adds the tags' own rows.  Any of these SELECTs may    *)
(* fail, and no failure is reported: a failed SELECT yields the rows it    *)
(* found before, and the handler goes on.  Nothing else runs in between,   *)
(* so the tables do not change during a listing.                           *)
(***************************************************************************)
EXTENDS Sqlite3Queries

CONSTANTS
    Databases,      \* contents of the tables
    MemoRequests,   \* ListMemos requests
    TagRequests,    \* ListTags requests
    OtherFilters,   \* filters with which other handlers call listMemos
    MaxCount,       \* the filters' default maxCount: 100
    NoRange,        \* a request without creation_time
    NoRequest       \* no request is being handled

VARIABLES
    db,        \* the tables
    request,   \* the request being handled
    pc,        \* the next SELECT
    filter,    \* the filter of the next SELECT
    rows,      \* listMemos: ids selected, their tags not yet
    listed,    \* the memos of the result: [id, tagIds]
    tagList,   \* the ids of the tags in the response
    failed     \* a SELECT of this listing failed (history)

vars == <<db, request, pc, filter, rows, listed, tagList, failed>>

-----------------------------------------------------------------------------

Ranges == {NoRange} \cup [start : Nat \cup {NoBound}, end : Nat \cup {NoBound}]

MemoRequestType ==
    [titleStartsWith : Texts, titleContains : SUBSET Texts, contains : SUBSET Texts,
     taggedBy : SUBSET Nat, creationTime : Ranges]

TagRequestType ==
    [nameStartsWith : Texts, contains : Texts, colours : SUBSET Int, creationTime : Ranges]

NoMemoFilter ==
    [ids |-> {}, exactTitleMatch |-> EmptyText, titlePrefix |-> EmptyText,
     titleKeywords |-> {}, memoKeywords |-> {}, tagIds |-> {},
     filterFromDate |-> NoBound, filterUntilDate |-> NoBound, maxCount |-> MaxCount]

NoTagFilter ==
    [ids |-> {}, exactNameMatch |-> EmptyText, namePrefix |-> EmptyText,
     nameContains |-> EmptyText, colors |-> {}, memoIds |-> {},
     filterFromDate |-> NoBound, filterUntilDate |-> NoBound, maxCount |-> MaxCount]

ASSUME ListAssumption ==
    /\ Databases \subseteq ListedTables
    /\ MemoRequests \subseteq MemoRequestType
    /\ TagRequests \subseteq TagRequestType
    /\ \A f \in OtherFilters : f \in MemoSearchFilter /\ f.maxCount = MaxCount
    /\ MaxCount \in Nat
    /\ NoRequest \notin MemoRequestType \cup TagRequestType

\* creation_time() of a request without one: both bounds are 0, protobuf's default.
\* IsInitialized() holds of it too.
CreationTime(q) == IF q.creationTime = NoRange THEN [start |-> 0, end |-> 0] ELSE q.creationTime

MemoFilterOf(q) ==
    [NoMemoFilter EXCEPT
        !.titlePrefix     = q.titleStartsWith,
        !.titleKeywords   = q.titleContains,
        !.memoKeywords    = q.contains,
        !.tagIds          = q.taggedBy,
        !.filterFromDate  = CreationTime(q).start,
        !.filterUntilDate = CreationTime(q).end]

\* Mutant: has_creation_time() is not asked.
TagFilterOfAlways(q) ==
    [NoTagFilter EXCEPT
        !.namePrefix      = q.nameStartsWith,
        !.nameContains    = q.contains,
        !.colors          = q.colours,
        !.filterFromDate  = CreationTime(q).start,
        !.filterUntilDate = CreationTime(q).end]

\* ListTags asks has_creation_time().
TagFilterOf(q) ==
    LET range == IF q.creationTime = NoRange
                 THEN [start |-> NoBound, end |-> NoBound] ELSE q.creationTime
    IN  [NoTagFilter EXCEPT
            !.namePrefix      = q.nameStartsWith,
            !.nameContains    = q.contains,
            !.colors          = q.colours,
            !.filterFromDate  = range.start,
            !.filterUntilDate = range.end]

First(ids) == CHOOSE i \in ids : \A j \in ids : i =< j

-----------------------------------------------------------------------------

Init ==
    /\ db \in Databases
    /\ request = NoRequest
    /\ pc = "idle"
    /\ filter = NoMemoFilter
    /\ rows = {}
    /\ listed = {}
    /\ tagList = {}
    /\ failed = FALSE

\* SelectRows: the ids, in their order, or those before the failure.
Selects(ids, result) ==
    \/ result = ids /\ UNCHANGED failed
    \/ (\E n \in 0..Cardinality(ids) : result = Limited(ids, n)) /\ failed' = TRUE

ListMemos ==
    /\ pc = "idle"
    /\ request' \in MemoRequests
    /\ filter' = MemoFilterOf(request')
    /\ pc' = "memos"
    /\ UNCHANGED <<db, rows, listed, tagList, failed>>

\* Another handler (AddMemo, RemoveMemo) calls listMemos.
ListMemosByFilter ==
    /\ pc = "idle"
    /\ filter' \in OtherFilters
    /\ pc' = "memos"
    /\ UNCHANGED <<db, request, rows, listed, tagList, failed>>

ListTags ==
    /\ pc = "idle"
    /\ request' \in TagRequests
    /\ filter' = TagFilterOf(request')
    /\ pc' = "tags"
    /\ UNCHANGED <<db, rows, listed, tagList, failed>>

\* listMemos: the rows.
SelectMemoRows ==
    /\ pc = "memos"
    /\ Selects(SelectMemos(db, filter), rows')
    /\ pc' = "memoTags"
    /\ UNCHANGED <<db, request, filter, listed, tagList>>

\* Mutant: the vector of the tags is not a new one for every memo.
SelectMemoTagsKept ==
    /\ pc = "memoTags"
    /\ rows # {}
    /\ \E tagIds \in SUBSET TagIds :
          /\ \/ tagIds = TagsOf(db, First(rows)) /\ UNCHANGED failed
             \/ tagIds \subseteq TagsOf(db, First(rows)) /\ failed' = TRUE
          /\ listed' = listed \cup {[id |-> First(rows),
                                     tagIds |-> tagIds \cup UNION {memo.tagIds : memo \in listed}]}
    /\ rows' = rows \ {First(rows)}
    /\ UNCHANGED <<db, request, pc, filter, tagList>>

\* listMemos: the tags of the next memo.  The result of SelectMemoTagIds is ignored: a
\* failure leaves the memo with the tags read before it.
SelectMemoTags ==
    /\ pc = "memoTags"
    /\ rows # {}
    /\ \E tagIds \in SUBSET TagsOf(db, First(rows)) :
          /\ listed' = listed \cup {[id |-> First(rows), tagIds |-> tagIds]}
          /\ \/ tagIds = TagsOf(db, First(rows)) /\ UNCHANGED failed
             \/ failed' = TRUE
    /\ rows' = rows \ {First(rows)}
    /\ UNCHANGED <<db, request, pc, filter, tagList>>

\* Mutant: the loop over the rows ends after the first one.
MemosSelectedEarly ==
    /\ pc = "memoTags"
    /\ \/ /\ request # NoRequest
          /\ filter' = [NoTagFilter EXCEPT !.ids = UNION {memo.tagIds : memo \in listed}]
          /\ pc' = "tags"
       \/ request = NoRequest /\ pc' = "reply" /\ UNCHANGED filter
    /\ UNCHANGED <<db, request, rows, listed, tagList, failed>>

\* listMemos returns.  ListMemos goes on with the tags of all memos in its response:
\* without any, the filter is empty and selects all tags.
MemosSelected ==
    /\ pc = "memoTags"
    /\ rows = {}
    /\ \/ /\ request # NoRequest
          /\ filter' = [NoTagFilter EXCEPT !.ids = UNION {memo.tagIds : memo \in listed}]
          /\ pc' = "tags"
       \/ request = NoRequest /\ pc' = "reply" /\ UNCHANGED filter
    /\ UNCHANGED <<db, request, rows, listed, tagList, failed>>

\* Mutant: tags that are left out by LIMIT.
SelectTagRowsBut ==
    /\ pc = "tags"
    /\ Selects(SelectTags(db, [filter EXCEPT !.maxCount = MaxCount - 1]), tagList')
    /\ pc' = "reply"
    /\ UNCHANGED <<db, request, filter, rows, listed>>

\* listTags.
SelectTagRows ==
    /\ pc = "tags"
    /\ Selects(SelectTags(db, filter), tagList')
    /\ pc' = "reply"
    /\ UNCHANGED <<db, request, filter, rows, listed>>

\* The handler returns.
Return ==
    /\ pc = "reply"
    /\ pc' = "idle"
    /\ request' = NoRequest
    /\ filter' = NoMemoFilter
    /\ rows' = {} /\ listed' = {} /\ tagList' = {}
    /\ failed' = FALSE
    /\ UNCHANGED db

Listing ==
    \/ SelectMemoRows \/ SelectMemoTags \/ MemosSelected
    \/ SelectTagRows
    \/ Return

Next == ListMemos \/ ListMemosByFilter \/ ListTags \/ Listing

Spec == Init /\ [][Next]_vars

-----------------------------------------------------------------------------
(* Properties *)

TypeOK ==
    /\ db \in Databases
    /\ request \in MemoRequests \cup TagRequests \cup {NoRequest}
    /\ pc \in {"idle", "memos", "memoTags", "tags", "reply"}
    /\ filter \in MemoSearchFilter \cup TagSearchFilter
    /\ rows \subseteq MemoIds
    /\ listed \subseteq [id : MemoIds, tagIds : SUBSET TagIds]
    /\ tagList \subseteq TagIds
    /\ failed \in BOOLEAN
    /\ pc = "memos" => filter \in MemoSearchFilter
    /\ pc = "tags" => filter \in TagSearchFilter
    /\ rows # {} => pc = "memoTags"

InRange(timestamp, range) ==
    range # NoRange =>
        /\ range.start # NoBound => range.start =< timestamp
        /\ range.end # NoBound => timestamp =< range.end

\* Memo m is one that a ListMemos request asks for, in the terms of the request.
AsksForMemo(q, m) ==
    /\ Given(q.titleStartsWith) =>
          <<"prefix", q.titleStartsWith, db.memo[m].title>> \in LikeTexts
    /\ Mentions(db.memo[m].title, q.titleContains)
    /\ Mentions(db.memo[m].description, q.contains)
    /\ q.taggedBy # {} => \E t \in q.taggedBy : t \in TagsOf(db, m)
    /\ InRange(db.memo[m].timestamp, q.creationTime)

\* Tag t is one that a ListTags request asks for.
AsksForTag(q, t) ==
    /\ Given(q.nameStartsWith) => <<"prefix", q.nameStartsWith, db.tag[t].name>> \in LikeTexts
    /\ Given(q.contains) => <<"contains", q.contains, db.tag[t].name>> \in LikeTexts
    /\ q.colours # {} => db.tag[t].color \in q.colours
    /\ InRange(db.tag[t].timestamp, q.creationTime)

ListedIds == {memo.id : memo \in listed}

\* Without a failure, the response to a ListMemos request with a creation_time holds
\* exactly the memos it asks for, or the first maxCount of them: the join with Tagged,
\* GROUP BY, the empty keywords and the optional bounds neither lose nor add a memo
\* (BuildMemoQuery; MemoService.cpp:28-39).
MemosAsAskedFor ==
    pc = "reply" /\ ~failed /\ request \in MemoRequests /\ request.creationTime # NoRange =>
        ListedIds = Limited({m \in Rows(db.memo) : AsksForMemo(request, m)}, MaxCount)

\* The same for ListTags, with or without a creation_time (TagService.cpp:29-39).
TagsAsAskedFor ==
    pc = "reply" /\ ~failed /\ request \in TagRequests =>
        tagList = Limited({t \in Rows(db.tag) : AsksForTag(request, t)}, MaxCount)

\* What listMemos returns, to whichever caller and whatever failed, are memos the filter
\* describes, each once and at most maxCount of them, with tags they have
\* (Sqlite3Database.cpp:35-78).
OnlyRealMemos ==
    pc \in {"memoTags", "reply"} /\ request = NoRequest =>
        /\ \A memo \in listed :
              /\ DescribesMemo(filter, db, memo.id)
              /\ memo.tagIds \subseteq TagsOf(db, memo.id)
              /\ ~failed => memo.tagIds = TagsOf(db, memo.id)
        /\ \A memo, other \in listed : memo.id = other.id => memo = other
        /\ Cardinality(listed) =< MaxCount

\* A client can look up every tag of a listed memo in the response's tags, unless a
\* SELECT failed or there are more than maxCount of them (MemoService.cpp:54-70).
TagsResolve ==
    LET used == UNION {memo.tagIds : memo \in listed}
    IN  pc = "reply" /\ ~failed /\ request \in MemoRequests /\ Cardinality(used) =< MaxCount =>
            used \subseteq tagList

=============================================================================
