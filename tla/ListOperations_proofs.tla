----------------------- MODULE ListOperations_proofs -----------------------
(***************************************************************************)
(* A query selects what its filter describes, for every filter and every   *)
(* content of the tables (Sqlite3Queries); and responses to ListMemos and  *)
(* ListTags are what the requests ask for, for every content of the        *)
(* tables, every request and every limit; what listMemos returns to other  *)
(* handlers is what their filters describe.                                *)
(***************************************************************************)
EXTENDS ListOperations, WellFoundedInduction, FiniteSetTheorems, TLAPS

-----------------------------------------------------------------------------
(* What each kind of condition demands of a row *)

LEMMA InDemands ==
    ASSUME NEW attribute, NEW items, NEW row
    PROVE  (\A c \in AttributeInCondition(attribute, items) : Holds(c, row))
              <=> (items # {} => row[attribute] \in items)
<1>1. CASE items = {}
  BY <1>1 DEF AttributeInCondition
<1>2. CASE items # {}
  <2>1. AttributeInCondition(attribute, items) = {Condition(attribute, "in", items)}
    BY <1>2 DEF AttributeInCondition
  <2>2. Holds(Condition(attribute, "in", items), row) <=> row[attribute] \in items
    BY DEF Holds, Condition, LikeTests
  <2> QED
    BY <1>2, <2>1, <2>2
<1> QED
  BY <1>1, <1>2

LEMMA LikeDemands ==
    ASSUME NEW attribute, NEW test \in LikeTests, NEW text, NEW row
    PROVE  (\A c \in LikeCondition(attribute, test, text) : Holds(c, row))
              <=> (Given(text) => <<test, text, row[attribute]>> \in LikeTexts)
<1>1. CASE text = EmptyText
  BY <1>1 DEF LikeCondition, Given
<1>2. CASE text # EmptyText
  <2>1. LikeCondition(attribute, test, text) = {Condition(attribute, test, {text})}
    BY <1>2 DEF LikeCondition
  <2>2. Holds(Condition(attribute, test, {text}), row)
           <=> \E v \in {text} : <<test, v, row[attribute]>> \in LikeTexts
    BY DEF Holds, Condition, LikeTests
  <2>3. Holds(Condition(attribute, test, {text}), row)
           <=> <<test, text, row[attribute]>> \in LikeTexts
    BY <2>2
  <2> QED
    BY <1>2, <2>1, <2>3 DEF Given
<1> QED
  BY <1>1, <1>2

LEMMA KeysDemand ==
    ASSUME NEW attribute, NEW keywords, NEW row
    PROVE  (\A c \in ConstructContainsKeysCondition(attribute, keywords) : Holds(c, row))
              <=> Mentions(row[attribute], keywords)
<1> DEFINE unique == keywords \ {EmptyText}
<1>1. CASE unique = {}
  <2>1. ConstructContainsKeysCondition(attribute, keywords) = {}
    BY <1>1 DEF ConstructContainsKeysCondition
  <2> QED
    BY <1>1, <2>1 DEF Mentions, Given
<1>2. CASE unique # {}
  <2>1. ConstructContainsKeysCondition(attribute, keywords)
           = {Condition(attribute, "contains", unique)}
    BY <1>2 DEF ConstructContainsKeysCondition
  <2>2. Holds(Condition(attribute, "contains", unique), row)
           <=> \E v \in unique : <<"contains", v, row[attribute]>> \in LikeTexts
    BY DEF Holds, Condition, LikeTests
  <2> QED
    BY <1>2, <2>1, <2>2 DEF Mentions, Given
<1> QED
  BY <1>1, <1>2

LEMMA DatesDemand ==
    ASSUME NEW f, NEW row, f.filterFromDate \in Nat \cup {NoBound},
           f.filterUntilDate \in Nat \cup {NoBound}, row["timestamp"] \in Nat
    PROVE  (\A c \in DateConditions(f) : Holds(c, row)) <=> Within(row["timestamp"], f)
<1> DEFINE from  == f.filterFromDate
           until == f.filterUntilDate
           fromC  == IF from = NoBound THEN {} ELSE {Condition("timestamp", ">=", {from})}
           untilC == IF until = NoBound THEN {} ELSE {Condition("timestamp", "<=", {until})}
<1>1. DateConditions(f) = fromC \cup untilC
  BY DEF DateConditions
<1>2. Holds(Condition("timestamp", ">=", {from}), row) <=> row["timestamp"] >= from
  BY DEF Holds, Condition, LikeTests
<1>3. Holds(Condition("timestamp", "<=", {until}), row) <=> row["timestamp"] =< until
  BY DEF Holds, Condition, LikeTests
<1>4. (\A c \in fromC : Holds(c, row)) <=> (from # NoBound => row["timestamp"] >= from)
  BY <1>2
<1>5. (\A c \in untilC : Holds(c, row)) <=> (until # NoBound => row["timestamp"] =< until)
  BY <1>3
<1>6. from # NoBound => (row["timestamp"] >= from <=> from =< row["timestamp"])
  OBVIOUS
<1> HIDE DEF fromC, untilC
<1>7. (\A c \in DateConditions(f) : Holds(c, row))
         <=> (\A c \in fromC : Holds(c, row)) /\ (\A c \in untilC : Holds(c, row))
  BY <1>1
<1> QED
  BY <1>4, <1>5, <1>6, <1>7 DEF Within

-----------------------------------------------------------------------------
(* The queries *)

\* What filter f demands of a row of Memo and Tagged, each demand in its own terms.
MemoDemands(f, row) ==
    /\ f.ids # {} => row["id"] \in f.ids
    /\ Given(f.exactTitleMatch) =>
          <<"exact", f.exactTitleMatch, row["title"]>> \in LikeTexts
    /\ ~Given(f.exactTitleMatch) =>
          /\ Given(f.titlePrefix) => <<"prefix", f.titlePrefix, row["title"]>> \in LikeTexts
          /\ Mentions(row["title"], f.titleKeywords)
    /\ Mentions(row["description"], f.memoKeywords)
    /\ Within(row["timestamp"], f)
    /\ f.tagIds # {} => row["tagId"] \in f.tagIds

\* BuildMemoQuery's WHERE accepts the rows that meet the demands.
LEMMA MemoQueryDemands ==
    ASSUME NEW f \in MemoSearchFilter, NEW row, row["timestamp"] \in Nat
    PROVE  Accepts(BuildMemoQuery(f), row) <=> MemoDemands(f, row)
<1> DEFINE All(cs) == \A c \in cs : Holds(c, row)
           byTitle == IF f.exactTitleMatch # EmptyText
                      THEN LikeCondition("title", "exact", f.exactTitleMatch)
                      ELSE LikeCondition("title", "prefix", f.titlePrefix)
                           \cup ConstructContainsKeysCondition("title", f.titleKeywords)
<1>1. Accepts(BuildMemoQuery(f), row) <=>
         /\ All(AttributeInCondition("id", f.ids))
         /\ All(byTitle)
         /\ All(ConstructContainsKeysCondition("description", f.memoKeywords))
         /\ All(DateConditions(f))
         /\ All(AttributeInCondition("tagId", f.tagIds))
  BY DEF Accepts, BuildMemoQuery
<1>2. All(AttributeInCondition("id", f.ids)) <=> (f.ids # {} => row["id"] \in f.ids)
  BY InDemands
<1>3. All(byTitle) <=>
         /\ Given(f.exactTitleMatch) => <<"exact", f.exactTitleMatch, row["title"]>> \in LikeTexts
         /\ ~Given(f.exactTitleMatch) =>
               /\ Given(f.titlePrefix) => <<"prefix", f.titlePrefix, row["title"]>> \in LikeTexts
               /\ Mentions(row["title"], f.titleKeywords)
  <2> DEFINE prefixed == LikeCondition("title", "prefix", f.titlePrefix)
             keyed    == ConstructContainsKeysCondition("title", f.titleKeywords)
  <2>1. "exact" \in LikeTests /\ "prefix" \in LikeTests
    BY DEF LikeTests
  <2>2. CASE f.exactTitleMatch # EmptyText
    <3>1. byTitle = LikeCondition("title", "exact", f.exactTitleMatch)
      BY <2>2
    <3>2. All(byTitle) <=> (Given(f.exactTitleMatch)
                              => <<"exact", f.exactTitleMatch, row["title"]>> \in LikeTexts)
      BY <2>1, <3>1, LikeDemands
    <3> QED
      BY <2>2, <3>2 DEF Given
  <2>3. CASE f.exactTitleMatch = EmptyText
    <3>1. byTitle = prefixed \cup keyed
      BY <2>3
    <3>2. All(prefixed) <=>
             (Given(f.titlePrefix) => <<"prefix", f.titlePrefix, row["title"]>> \in LikeTexts)
      BY <2>1, LikeDemands
    <3>3. All(keyed) <=> Mentions(row["title"], f.titleKeywords)
      BY KeysDemand
    <3> HIDE DEF prefixed, keyed
    <3>4. All(byTitle) <=> All(prefixed) /\ All(keyed)
      BY <3>1
    <3> QED
      BY <2>3, <3>2, <3>3, <3>4 DEF Given
  <2> QED
    BY <2>2, <2>3
<1>4. All(ConstructContainsKeysCondition("description", f.memoKeywords))
         <=> Mentions(row["description"], f.memoKeywords)
  BY KeysDemand
<1>5. All(DateConditions(f)) <=> Within(row["timestamp"], f)
  <2>1. /\ f.filterFromDate \in Nat \cup {NoBound}
        /\ f.filterUntilDate \in Nat \cup {NoBound}
    BY DEF MemoSearchFilter
  <2> QED
    BY <2>1, DatesDemand
<1>6. All(AttributeInCondition("tagId", f.tagIds)) <=> (f.tagIds # {} => row["tagId"] \in f.tagIds)
  BY InDemands
<1> HIDE DEF All, byTitle
<1> QED
  BY <1>1, <1>2, <1>3, <1>4, <1>5, <1>6 DEF MemoDemands

\* What filter f demands of a row of Tag and Tagged, each demand in its own terms.
TagDemands(f, row) ==
    /\ f.ids # {} => row["id"] \in f.ids
    /\ Given(f.exactNameMatch) => <<"exact", f.exactNameMatch, row["name"]>> \in LikeTexts
    /\ ~Given(f.exactNameMatch) =>
          /\ Given(f.namePrefix) => <<"prefix", f.namePrefix, row["name"]>> \in LikeTexts
          /\ Given(f.nameContains) =>
                <<"contains", f.nameContains, row["name"]>> \in LikeTexts
    /\ f.colors # {} => row["color"] \in f.colors
    /\ Within(row["timestamp"], f)
    /\ f.memoIds # {} => row["memoId"] \in f.memoIds

\* BuildTagQuery's WHERE accepts the rows that meet the demands.
LEMMA TagQueryDemands ==
    ASSUME NEW f \in TagSearchFilter, NEW row, row["timestamp"] \in Nat
    PROVE  Accepts(BuildTagQuery(f), row) <=> TagDemands(f, row)
<1> DEFINE All(cs) == \A c \in cs : Holds(c, row)
           byName == IF f.exactNameMatch # EmptyText
                     THEN LikeCondition("name", "exact", f.exactNameMatch)
                     ELSE LikeCondition("name", "prefix", f.namePrefix)
                          \cup LikeCondition("name", "contains", f.nameContains)
<1>1. Accepts(BuildTagQuery(f), row) <=>
         /\ All(AttributeInCondition("id", f.ids))
         /\ All(byName)
         /\ All(AttributeInCondition("color", f.colors))
         /\ All(DateConditions(f))
         /\ All(AttributeInCondition("memoId", f.memoIds))
  BY DEF Accepts, BuildTagQuery
<1>2. All(AttributeInCondition("id", f.ids)) <=> (f.ids # {} => row["id"] \in f.ids)
  BY InDemands
<1>3. All(byName) <=>
         /\ Given(f.exactNameMatch) => <<"exact", f.exactNameMatch, row["name"]>> \in LikeTexts
         /\ ~Given(f.exactNameMatch) =>
               /\ Given(f.namePrefix) => <<"prefix", f.namePrefix, row["name"]>> \in LikeTexts
               /\ Given(f.nameContains) =>
                     <<"contains", f.nameContains, row["name"]>> \in LikeTexts
  <2> DEFINE prefixed   == LikeCondition("name", "prefix", f.namePrefix)
             containing == LikeCondition("name", "contains", f.nameContains)
  <2>1. "exact" \in LikeTests /\ "prefix" \in LikeTests /\ "contains" \in LikeTests
    BY DEF LikeTests
  <2>2. CASE f.exactNameMatch # EmptyText
    <3>1. byName = LikeCondition("name", "exact", f.exactNameMatch)
      BY <2>2
    <3>2. All(byName) <=> (Given(f.exactNameMatch)
                             => <<"exact", f.exactNameMatch, row["name"]>> \in LikeTexts)
      BY <2>1, <3>1, LikeDemands
    <3> QED
      BY <2>2, <3>2 DEF Given
  <2>3. CASE f.exactNameMatch = EmptyText
    <3>1. byName = prefixed \cup containing
      BY <2>3
    <3>2. All(prefixed) <=>
             (Given(f.namePrefix) => <<"prefix", f.namePrefix, row["name"]>> \in LikeTexts)
      BY <2>1, LikeDemands
    <3>3. All(containing) <=>
             (Given(f.nameContains) => <<"contains", f.nameContains, row["name"]>> \in LikeTexts)
      BY <2>1, LikeDemands
    <3> HIDE DEF prefixed, containing
    <3>4. All(byName) <=> All(prefixed) /\ All(containing)
      BY <3>1
    <3> QED
      BY <2>3, <3>2, <3>3, <3>4 DEF Given
  <2> QED
    BY <2>2, <2>3
<1>4. All(AttributeInCondition("color", f.colors)) <=> (f.colors # {} => row["color"] \in f.colors)
  BY InDemands
<1>5. All(DateConditions(f)) <=> Within(row["timestamp"], f)
  <2>1. /\ f.filterFromDate \in Nat \cup {NoBound}
        /\ f.filterUntilDate \in Nat \cup {NoBound}
    BY DEF TagSearchFilter
  <2> QED
    BY <2>1, DatesDemand
<1>6. All(AttributeInCondition("memoId", f.memoIds))
         <=> (f.memoIds # {} => row["memoId"] \in f.memoIds)
  BY InDemands
<1> HIDE DEF All, byName
<1> QED
  BY <1>1, <1>2, <1>3, <1>4, <1>5, <1>6 DEF TagDemands

-----------------------------------------------------------------------------
(* What is selected *)

LEMMA MemoRowTypes ==
    ASSUME NEW d \in ListedTables, NEW m \in Rows(d.memo)
    PROVE  m \in MemoIds /\ d.memo[m] \in MemoRows
BY DEF ListedTables, Rows

LEMMA TagRowTypes ==
    ASSUME NEW d \in ListedTables, NEW t \in Rows(d.tag)
    PROVE  t \in TagIds /\ d.tag[t] \in TagRows
BY DEF ListedTables, Rows

\* Whatever the filter and the contents of the tables, the SELECT of listMemos finds,
\* before its LIMIT, the memos the filter describes: neither the join with Tagged, nor
\* GROUP BY, nor a condition that is left out loses or adds one (BuildMemoQuery).
THEOREM MemoQueryIsFilter ==
    ASSUME NEW f \in MemoSearchFilter, NEW d \in ListedTables
    PROVE  MatchingMemos(d, BuildMemoQuery(f)) = {m \in Rows(d.memo) : DescribesMemo(f, d, m)}
<1> DEFINE query == BuildMemoQuery(f)
           Untagged(m) ==
               /\ f.ids # {} => m \in f.ids
               /\ Given(f.exactTitleMatch) =>
                     <<"exact", f.exactTitleMatch, d.memo[m].title>> \in LikeTexts
               /\ ~Given(f.exactTitleMatch) =>
                     /\ Given(f.titlePrefix) =>
                           <<"prefix", f.titlePrefix, d.memo[m].title>> \in LikeTexts
                     /\ Mentions(d.memo[m].title, f.titleKeywords)
               /\ Mentions(d.memo[m].description, f.memoKeywords)
               /\ Within(d.memo[m].timestamp, f)
<1>1. query.join <=> f.tagIds # {}
  BY DEF BuildMemoQuery
<1>2. ASSUME NEW m \in Rows(d.memo), NEW t
      PROVE  Accepts(query, MemoColumns(d, m, t)) <=>
                Untagged(m) /\ (f.tagIds # {} => t \in f.tagIds)
  <2> DEFINE row == MemoColumns(d, m, t)
  <2>1. /\ row["id"] = m
        /\ row["title"] = d.memo[m].title
        /\ row["description"] = d.memo[m].description
        /\ row["timestamp"] = d.memo[m].timestamp
        /\ row["tagId"] = t
    BY DEF MemoColumns
  <2>2. d.memo[m] \in MemoRows
    BY MemoRowTypes
  <2>3. row["timestamp"] \in Nat
    BY <2>1, <2>2 DEF MemoRows
  <2> HIDE DEF row
  <2>4. Accepts(query, row) <=> MemoDemands(f, row)
    BY <2>3, MemoQueryDemands
  <2>5. MemoDemands(f, row) <=> Untagged(m) /\ (f.tagIds # {} => t \in f.tagIds)
    BY <2>1 DEF MemoDemands
  <2> QED
    BY <2>4, <2>5 DEF row
<1>3. ASSUME NEW m \in Rows(d.memo)
      PROVE  DescribesMemo(f, d, m) <=>
                Untagged(m) /\ (f.tagIds # {} => \E t \in TagsOf(d, m) : t \in f.tagIds)
  BY DEF DescribesMemo
<1> HIDE DEF query, Untagged
<1>4. ASSUME NEW m \in Rows(d.memo)
      PROVE  m \in MatchingMemos(d, query) <=> DescribesMemo(f, d, m)
  <2>1. CASE f.tagIds # {}
    <3>1. m \in MatchingMemos(d, query) <=>
             \E t \in TagsOf(d, m) : Accepts(query, MemoColumns(d, m, t))
      BY <1>1, <2>1 DEF MatchingMemos
    <3> QED
      BY <1>2, <1>3, <2>1, <3>1
  <2>2. CASE f.tagIds = {}
    <3>1. m \in MatchingMemos(d, query) <=> Accepts(query, MemoColumns(d, m, 0))
      BY <1>1, <2>2 DEF MatchingMemos
    <3> QED
      BY <1>2, <1>3, <2>2, <3>1
  <2> QED
    BY <2>1, <2>2
<1>5. MatchingMemos(d, query) \subseteq Rows(d.memo)
  BY DEF MatchingMemos
<1> QED
  BY <1>4, <1>5 DEF query

\* The same of listTags (BuildTagQuery).
THEOREM TagQueryIsFilter ==
    ASSUME NEW f \in TagSearchFilter, NEW d \in ListedTables
    PROVE  MatchingTags(d, BuildTagQuery(f)) = {t \in Rows(d.tag) : DescribesTag(f, d, t)}
<1> DEFINE query == BuildTagQuery(f)
           Unused(t) ==
               /\ f.ids # {} => t \in f.ids
               /\ Given(f.exactNameMatch) =>
                     <<"exact", f.exactNameMatch, d.tag[t].name>> \in LikeTexts
               /\ ~Given(f.exactNameMatch) =>
                     /\ Given(f.namePrefix) =>
                           <<"prefix", f.namePrefix, d.tag[t].name>> \in LikeTexts
                     /\ Given(f.nameContains) =>
                           <<"contains", f.nameContains, d.tag[t].name>> \in LikeTexts
               /\ f.colors # {} => d.tag[t].color \in f.colors
               /\ Within(d.tag[t].timestamp, f)
<1>1. query.join <=> f.memoIds # {}
  BY DEF BuildTagQuery
<1>2. ASSUME NEW t \in Rows(d.tag), NEW m
      PROVE  Accepts(query, TagColumns(d, t, m)) <=>
                Unused(t) /\ (f.memoIds # {} => m \in f.memoIds)
  <2> DEFINE row == TagColumns(d, t, m)
  <2>1. /\ row["id"] = t
        /\ row["name"] = d.tag[t].name
        /\ row["color"] = d.tag[t].color
        /\ row["timestamp"] = d.tag[t].timestamp
        /\ row["memoId"] = m
    BY DEF TagColumns
  <2>2. d.tag[t] \in TagRows
    BY TagRowTypes
  <2>3. row["timestamp"] \in Nat
    BY <2>1, <2>2 DEF TagRows
  <2> HIDE DEF row
  <2>4. Accepts(query, row) <=> TagDemands(f, row)
    BY <2>3, TagQueryDemands
  <2>5. TagDemands(f, row) <=> Unused(t) /\ (f.memoIds # {} => m \in f.memoIds)
    BY <2>1 DEF TagDemands
  <2> QED
    BY <2>4, <2>5 DEF row
<1>3. ASSUME NEW t \in Rows(d.tag)
      PROVE  DescribesTag(f, d, t) <=>
                /\ Unused(t)
                /\ f.memoIds # {} => \E m \in MemoIds : t \in TagsOf(d, m) /\ m \in f.memoIds
  BY DEF DescribesTag
<1> HIDE DEF query, Unused
<1>4. ASSUME NEW t \in Rows(d.tag)
      PROVE  t \in MatchingTags(d, query) <=> DescribesTag(f, d, t)
  <2>1. CASE f.memoIds # {}
    <3>1. t \in MatchingTags(d, query) <=>
             \E m \in MemoIds : t \in TagsOf(d, m) /\ Accepts(query, TagColumns(d, t, m))
      BY <1>1, <2>1 DEF MatchingTags
    <3> QED
      BY <1>2, <1>3, <2>1, <3>1
  <2>2. CASE f.memoIds = {}
    <3>1. t \in MatchingTags(d, query) <=> Accepts(query, TagColumns(d, t, 0))
      BY <1>1, <2>2 DEF MatchingTags
    <3> QED
      BY <1>2, <1>3, <2>2, <3>1
  <2> QED
    BY <2>1, <2>2
<1>5. MatchingTags(d, query) \subseteq Rows(d.tag)
  BY DEF MatchingTags
<1> QED
  BY <1>4, <1>5 DEF query

-----------------------------------------------------------------------------
(* The inductive invariant: what has been selected, at each point of a listing *)

ControlOK ==
    /\ db \in Databases
    /\ request \in MemoRequests \cup TagRequests \cup {NoRequest}
    /\ pc \in {"idle", "memos", "memoTags", "tags", "reply"}
    /\ rows \subseteq MemoIds

MemosAsked == SelectMemos(db, MemoFilterOf(request))

\* Nothing is left over from the listing before.
Fresh == pc \in {"idle", "memos"} => rows = {} /\ listed = {}

MemosSoFar ==
    request \in MemoRequests =>
        /\ pc = "memos" => filter = MemoFilterOf(request)
        /\ pc = "memoTags" /\ ~failed => ListedIds \cup rows = MemosAsked
        /\ pc \in {"tags", "reply"} /\ ~failed => ListedIds = MemosAsked

TagsSoFar ==
    request \in TagRequests =>
        /\ pc \in {"tags", "reply"}
        /\ pc = "tags" => filter = TagFilterOf(request)
        /\ pc = "reply" /\ ~failed => tagList = SelectTags(db, TagFilterOf(request))

IdleIsFree == pc = "idle" => request = NoRequest

IInv == ControlOK /\ Fresh /\ MemosSoFar /\ TagsSoFar /\ IdleIsFree

-----------------------------------------------------------------------------

\* Requests of the two methods differ.
LEMMA MethodsDiffer ==
    /\ MemoRequests \cap TagRequests = {}
    /\ NoRequest \notin MemoRequests \cup TagRequests
<1>1. MemoRequestType \cap TagRequestType = {}
  <2> SUFFICES ASSUME NEW q \in MemoRequestType, q \in TagRequestType PROVE FALSE
    OBVIOUS
  <2>1. "taggedBy" \in DOMAIN q
    BY DEF MemoRequestType
  <2>2. "taggedBy" \notin DOMAIN q
    BY DEF TagRequestType
  <2> QED
    BY <2>1, <2>2
<1> QED
  BY <1>1, ListAssumption

\* There is a first id among any.
LEMMA FirstIsMember ==
    ASSUME NEW ids, ids \subseteq MemoIds, ids # {}
    PROVE  First(ids) \in ids
<1>1. ids \subseteq Nat
  BY SchemaAssumption
<1>2. PICK i \in ids : \A j \in ids : ~(<<j, i>> \in OpToRel(<, Nat))
  BY <1>1, NatLessThanWellFounded, WFMin
<1>3. \A j \in ids : i =< j
  <2> SUFFICES ASSUME NEW j \in ids PROVE i =< j
    OBVIOUS
  <2>1. ~(j < i)
    BY <1>1, <1>2 DEF OpToRel
  <2> QED
    BY <1>1, <2>1
<1> QED
  BY <1>3 DEF First

LEMMA Starts == Init => IInv
<1> SUFFICES ASSUME Init PROVE IInv
  OBVIOUS
<1>1. request \notin MemoRequests /\ request \notin TagRequests
  BY MethodsDiffer DEF Init
<1> QED
  BY <1>1 DEF Init, IInv, ControlOK, Fresh, MemosSoFar, TagsSoFar, IdleIsFree


\* What a SELECT yields are some of the ids that it could yield.
LEMMA SelectedAreMemos ==
    ASSUME NEW d, d \in ListedTables, NEW f
    PROVE  SelectMemos(d, f) \subseteq MemoIds
BY DEF SelectMemos, Limited, MatchingMemos, Rows, ListedTables

LEMMA LimitedAreMembers == ASSUME NEW ids, NEW n PROVE Limited(ids, n) \subseteq ids
BY DEF Limited

LEMMA Stays == IInv /\ [Next]_vars => IInv'
<1> SUFFICES ASSUME IInv, [Next]_vars PROVE IInv'
  OBVIOUS
<1> USE DEF IInv, ControlOK
<1> db \in ListedTables
  BY ListAssumption
<1>1. CASE ListMemos
  <2>1. /\ request' \in MemoRequests /\ filter' = MemoFilterOf(request')
        /\ pc = "idle" /\ pc' = "memos" /\ db' = db /\ rows' = rows /\ listed' = listed
    BY <1>1 DEF ListMemos
  <2>2. request' \notin TagRequests
    BY <2>1, MethodsDiffer
  <2> QED
    BY <2>1, <2>2 DEF Fresh, MemosSoFar, TagsSoFar, IdleIsFree
<1>2. CASE ListMemosByFilter
  <2>1. /\ pc = "idle" /\ pc' = "memos" /\ request' = request
        /\ db' = db /\ rows' = rows /\ listed' = listed
    BY <1>2 DEF ListMemosByFilter
  <2>2. request' \notin MemoRequests /\ request' \notin TagRequests
    BY <2>1, MethodsDiffer DEF IdleIsFree
  <2> QED
    BY <2>1, <2>2 DEF Fresh, MemosSoFar, TagsSoFar, IdleIsFree
<1>3. CASE ListTags
  <2>1. /\ request' \in TagRequests /\ filter' = TagFilterOf(request')
        /\ pc' = "tags" /\ db' = db /\ rows' = rows
    BY <1>3 DEF ListTags
  <2>2. request' \notin MemoRequests
    BY <2>1, MethodsDiffer
  <2> QED
    BY <2>1, <2>2 DEF Fresh, MemosSoFar, TagsSoFar, IdleIsFree
<1>4. CASE SelectMemoRows
  <2>1. /\ pc = "memos" /\ pc' = "memoTags" /\ db' = db /\ request' = request
        /\ listed' = listed /\ Selects(SelectMemos(db, filter), rows')
    BY <1>4 DEF SelectMemoRows
  <2>2. rows' \subseteq MemoIds
    <3>1. SelectMemos(db, filter) \subseteq MemoIds
      BY SelectedAreMemos
    <3> QED
      BY <2>1, <3>1, LimitedAreMembers DEF Selects
  <2>3. ~failed' => rows' = SelectMemos(db, filter)
    BY <2>1 DEF Selects
  <2>4. listed = {}
    BY <2>1 DEF Fresh
  <2>5. request \in MemoRequests => MemosAsked' = SelectMemos(db, filter)
    BY <2>1 DEF MemosSoFar, MemosAsked
  <2>6. ListedIds' \cup rows' = rows'
    BY <2>1, <2>4 DEF ListedIds
  <2> QED
    BY <2>1, <2>2, <2>3, <2>5, <2>6 DEF Fresh, MemosSoFar, TagsSoFar, IdleIsFree
<1>5. CASE SelectMemoTags
  <2>1. /\ pc = "memoTags" /\ pc' = pc /\ rows # {} /\ db' = db /\ request' = request
        /\ rows' = rows \ {First(rows)}
    BY <1>5 DEF SelectMemoTags
  <2>2. First(rows) \in rows
    BY <2>1, FirstIsMember
  <2>3. PICK tagIds : listed' = listed \cup {[id |-> First(rows), tagIds |-> tagIds]}
    BY <1>5 DEF SelectMemoTags
  <2>4. ListedIds' = ListedIds \cup {First(rows)}
    <3> DEFINE next == [id |-> First(rows), tagIds |-> tagIds]
    <3>1. next.id = First(rows)
      OBVIOUS
    <3>2. listed' = listed \cup {next}
      BY <2>3
    <3> HIDE DEF next
    <3> QED
      BY <3>1, <3>2 DEF ListedIds
  <2>5. ListedIds' \cup rows' = ListedIds \cup rows
    BY <2>1, <2>2, <2>4
  <2>6. ~failed' => ~failed
    BY <1>5 DEF SelectMemoTags
  <2>7. MemosAsked' = MemosAsked
    BY <2>1 DEF MemosAsked
  <2> QED
    BY <2>1, <2>5, <2>6, <2>7 DEF Fresh, MemosSoFar, TagsSoFar, IdleIsFree
<1>6. CASE MemosSelected
  <2>1. /\ pc = "memoTags" /\ pc' \in {"tags", "reply"} /\ rows = {}
        /\ db' = db /\ request' = request /\ rows' = rows /\ listed' = listed /\ failed' = failed
    BY <1>6 DEF MemosSelected
  <2>2. ListedIds' = ListedIds /\ MemosAsked' = MemosAsked
    BY <2>1 DEF ListedIds, MemosAsked
  <2> QED
    BY <2>1, <2>2 DEF Fresh, MemosSoFar, TagsSoFar, IdleIsFree
<1>7. CASE SelectTagRows
  <2>1. /\ pc = "tags" /\ pc' = "reply" /\ db' = db /\ request' = request
        /\ rows' = rows /\ listed' = listed /\ Selects(SelectTags(db, filter), tagList')
    BY <1>7 DEF SelectTagRows
  <2>2. ~failed' => ~failed /\ tagList' = SelectTags(db, filter)
    BY <2>1 DEF Selects
  <2>3. ListedIds' = ListedIds /\ MemosAsked' = MemosAsked
    BY <2>1 DEF ListedIds, MemosAsked
  <2> QED
    BY <2>1, <2>2, <2>3 DEF Fresh, MemosSoFar, TagsSoFar, IdleIsFree
<1>8. CASE Return
  <2>1. pc' = "idle" /\ request' = NoRequest /\ rows' = {} /\ listed' = {} /\ db' = db
    BY <1>8 DEF Return
  <2>2. request' \notin MemoRequests /\ request' \notin TagRequests
    BY <2>1, MethodsDiffer
  <2> QED
    BY <2>1, <2>2 DEF Fresh, MemosSoFar, TagsSoFar, IdleIsFree
<1>9. CASE UNCHANGED vars
  <2>1. /\ db' = db /\ request' = request /\ pc' = pc /\ filter' = filter /\ rows' = rows
        /\ listed' = listed /\ tagList' = tagList /\ failed' = failed
    BY <1>9 DEF vars
  <2>2. ListedIds' = ListedIds /\ MemosAsked' = MemosAsked
    BY <2>1 DEF ListedIds, MemosAsked
  <2> QED
    BY <2>1, <2>2 DEF Fresh, MemosSoFar, TagsSoFar, IdleIsFree
<1> QED
  BY <1>1, <1>2, <1>3, <1>4, <1>5, <1>6, <1>7, <1>8, <1>9 DEF Next, Listing

-----------------------------------------------------------------------------
(* From the filters back to the requests *)

LEMMA MemoFilterFields ==
    ASSUME NEW q
    PROVE  LET f == MemoFilterOf(q) IN
           /\ f.ids = {} /\ f.exactTitleMatch = EmptyText
           /\ f.titlePrefix = q.titleStartsWith
           /\ f.titleKeywords = q.titleContains
           /\ f.memoKeywords = q.contains
           /\ f.tagIds = q.taggedBy
           /\ f.filterFromDate = CreationTime(q).start
           /\ f.filterUntilDate = CreationTime(q).end
           /\ f.maxCount = MaxCount
BY DEF MemoFilterOf, NoMemoFilter

LEMMA MemoFilterType ==
    ASSUME NEW q \in MemoRequests
    PROVE  MemoFilterOf(q) \in MemoSearchFilter
<1>1. q \in MemoRequestType
  BY ListAssumption
<1>2. /\ CreationTime(q).start \in Nat \cup {NoBound}
      /\ CreationTime(q).end \in Nat \cup {NoBound}
  BY <1>1 DEF CreationTime, MemoRequestType, Ranges
<1>3. NoMemoFilter \in MemoSearchFilter
  BY ListAssumption, QueriesAssumption DEF NoMemoFilter, MemoSearchFilter
<1>4. /\ q.titleStartsWith \in Texts /\ q.titleContains \subseteq Texts
      /\ q.contains \subseteq Texts /\ q.taggedBy \subseteq Nat
  BY <1>1 DEF MemoRequestType
<1> QED
  BY <1>2, <1>3, <1>4 DEF MemoFilterOf, MemoSearchFilter

LEMMA TagFilterFields ==
    ASSUME NEW q
    PROVE  LET f == TagFilterOf(q) IN
           /\ f.ids = {} /\ f.exactNameMatch = EmptyText
           /\ f.namePrefix = q.nameStartsWith
           /\ f.nameContains = q.contains
           /\ f.colors = q.colours
           /\ f.memoIds = {}
           /\ q.creationTime # NoRange =>
                 /\ f.filterFromDate = q.creationTime.start
                 /\ f.filterUntilDate = q.creationTime.end
           /\ q.creationTime = NoRange =>
                 /\ f.filterFromDate = NoBound
                 /\ f.filterUntilDate = NoBound
           /\ f.maxCount = MaxCount
BY DEF TagFilterOf, NoTagFilter

LEMMA TagFilterType ==
    ASSUME NEW q \in TagRequests
    PROVE  TagFilterOf(q) \in TagSearchFilter
<1> DEFINE range == IF q.creationTime = NoRange
                    THEN [start |-> NoBound, end |-> NoBound] ELSE q.creationTime
<1>1. q \in TagRequestType
  BY ListAssumption
<1>2. range.start \in Nat \cup {NoBound} /\ range.end \in Nat \cup {NoBound}
  BY <1>1 DEF TagRequestType, Ranges
<1>3. NoTagFilter \in TagSearchFilter
  BY ListAssumption, QueriesAssumption DEF NoTagFilter, TagSearchFilter
<1>4. q.nameStartsWith \in Texts /\ q.contains \in Texts /\ q.colours \subseteq Int
  BY <1>1 DEF TagRequestType
<1>5. TagFilterOf(q) = [NoTagFilter EXCEPT
            !.namePrefix = q.nameStartsWith, !.nameContains = q.contains, !.colors = q.colours,
            !.filterFromDate = range.start, !.filterUntilDate = range.end]
  BY DEF TagFilterOf
<1> HIDE DEF range
<1> QED
  BY <1>2, <1>3, <1>4, <1>5 DEF TagSearchFilter

\* Without a failure, the response to a ListMemos request with a creation_time holds the
\* memos it asks for, or the first of them (MemoService.cpp:28-39, BuildMemoQuery,
\* listMemos).
THEOREM MemosListedAsAskedFor == Spec => []MemosAsAskedFor
<1>1. IInv => MemosAsAskedFor
  <2> SUFFICES ASSUME IInv, pc = "reply", ~failed, request \in MemoRequests,
                      request.creationTime # NoRange
               PROVE  ListedIds = Limited({m \in Rows(db.memo) : AsksForMemo(request, m)}, MaxCount)
    BY DEF MemosAsAskedFor
  <2> DEFINE f == MemoFilterOf(request)
  <2>1. ListedIds = SelectMemos(db, f)
    BY DEF IInv, MemosSoFar, MemosAsked
  <2>2. f \in MemoSearchFilter /\ f.maxCount = MaxCount
    BY MemoFilterType, MemoFilterFields
  <2>3. db \in ListedTables
    BY ListAssumption DEF IInv, ControlOK
  <2>4. SelectMemos(db, f) = Limited(MatchingMemos(db, BuildMemoQuery(f)), MaxCount)
    BY <2>2 DEF SelectMemos, BuildMemoQuery
  <2>5. MatchingMemos(db, BuildMemoQuery(f)) = {m \in Rows(db.memo) : DescribesMemo(f, db, m)}
    BY <2>2, <2>3, MemoQueryIsFilter
  <2>6. ASSUME NEW m \in Rows(db.memo)
        PROVE  DescribesMemo(f, db, m) <=> AsksForMemo(request, m)
    <3>1. /\ f.ids = {} /\ f.exactTitleMatch = EmptyText
          /\ f.titlePrefix = request.titleStartsWith
          /\ f.titleKeywords = request.titleContains
          /\ f.memoKeywords = request.contains /\ f.tagIds = request.taggedBy
      BY MemoFilterFields
    <3>2. /\ f.filterFromDate = request.creationTime.start
          /\ f.filterUntilDate = request.creationTime.end
      BY MemoFilterFields DEF CreationTime
    <3>3. Within(db.memo[m].timestamp, f) <=> InRange(db.memo[m].timestamp, request.creationTime)
      BY <3>2 DEF Within, InRange
    <3>4. (f.tagIds \cap TagsOf(db, m) # {}) <=> \E t \in request.taggedBy : t \in TagsOf(db, m)
      BY <3>1
    <3> HIDE DEF f
    <3> QED
      BY <3>1, <3>3, <3>4 DEF DescribesMemo, AsksForMemo, Given
  <2> HIDE DEF f
  <2> QED
    BY <2>1, <2>4, <2>5, <2>6
<1> QED
  BY Starts, Stays, <1>1, PTL DEF Spec

\* The same of ListTags, whatever the request (TagService.cpp:29-39, BuildTagQuery,
\* listTags).
THEOREM TagsListedAsAskedFor == Spec => []TagsAsAskedFor
<1>1. IInv => TagsAsAskedFor
  <2> SUFFICES ASSUME IInv, pc = "reply", ~failed, request \in TagRequests
               PROVE  tagList = Limited({t \in Rows(db.tag) : AsksForTag(request, t)}, MaxCount)
    BY DEF TagsAsAskedFor
  <2> DEFINE f == TagFilterOf(request)
  <2>1. tagList = SelectTags(db, f)
    BY DEF IInv, TagsSoFar
  <2>2. f \in TagSearchFilter /\ f.maxCount = MaxCount
    BY TagFilterType, TagFilterFields
  <2>3. db \in ListedTables
    BY ListAssumption DEF IInv, ControlOK
  <2>4. SelectTags(db, f) = Limited(MatchingTags(db, BuildTagQuery(f)), MaxCount)
    BY <2>2 DEF SelectTags, BuildTagQuery
  <2>5. MatchingTags(db, BuildTagQuery(f)) = {t \in Rows(db.tag) : DescribesTag(f, db, t)}
    BY <2>2, <2>3, TagQueryIsFilter
  <2>6. ASSUME NEW t \in Rows(db.tag)
        PROVE  DescribesTag(f, db, t) <=> AsksForTag(request, t)
    <3>1. /\ f.ids = {} /\ f.exactNameMatch = EmptyText /\ f.memoIds = {}
          /\ f.namePrefix = request.nameStartsWith
          /\ f.nameContains = request.contains /\ f.colors = request.colours
      BY TagFilterFields
    <3>2. Within(db.tag[t].timestamp, f) <=> InRange(db.tag[t].timestamp, request.creationTime)
      BY TagFilterFields DEF Within, InRange
    <3> HIDE DEF f
    <3> QED
      BY <3>1, <3>2 DEF DescribesTag, AsksForTag, Given
  <2> HIDE DEF f
  <2> QED
    BY <2>1, <2>4, <2>5, <2>6
<1> QED
  BY Starts, Stays, <1>1, PTL DEF Spec

-----------------------------------------------------------------------------
(* The tags of the listed memos can be looked up *)

UsedTags == UNION {memo.tagIds : memo \in listed}
UsedTagsFilter == [NoTagFilter EXCEPT !.ids = UsedTags]

\* Listed memos have tags that are theirs, and ListMemos asks for the rows of these.
TagsAreUsed ==
    /\ \A memo \in listed : memo.id \in MemoIds /\ memo.tagIds \subseteq TagsOf(db, memo.id)
    /\ request \in MemoRequests =>
          /\ pc \in {"memos", "memoTags", "tags", "reply"}
          /\ pc = "tags" => filter = UsedTagsFilter
          /\ pc = "reply" /\ ~failed => tagList = SelectTags(db, UsedTagsFilter)

LEMMA TagsAreUsedStep ==
  ASSUME IInv, TagsAreUsed, [Next]_vars
  PROVE  TagsAreUsed'
<1> USE DEF TagsAreUsed
<1>1. CASE ListMemos
  <2>1. /\ request' \in MemoRequests /\ pc' = "memos" /\ db' = db /\ listed' = listed
    BY <1>1 DEF ListMemos
  <2> QED BY <2>1
<1>2. CASE ListMemosByFilter \/ ListTags
  <2>1. /\ request' \notin MemoRequests /\ db' = db /\ listed' = listed
    BY <1>2, MethodsDiffer DEF ListMemosByFilter, ListTags, IInv, IdleIsFree
  <2> QED BY <2>1
<1>3. CASE SelectMemoRows
  <2>1. /\ pc' = "memoTags" /\ db' = db /\ listed' = listed /\ request' = request
    BY <1>3 DEF SelectMemoRows
  <2> QED BY <2>1
<1>4. CASE SelectMemoTags
  <2>1. /\ pc = "memoTags" /\ pc' = pc /\ db' = db /\ request' = request /\ rows # {}
    BY <1>4 DEF SelectMemoTags
  <2>2. First(rows) \in MemoIds
    BY <2>1, FirstIsMember DEF IInv, ControlOK
  <2>3. PICK tagIds \in SUBSET TagsOf(db, First(rows)) :
           listed' = listed \cup {[id |-> First(rows), tagIds |-> tagIds]}
    BY <1>4 DEF SelectMemoTags
  <2>4. \A memo \in listed' : memo.id \in MemoIds /\ memo.tagIds \subseteq TagsOf(db, memo.id)
    BY <2>2, <2>3
  <2> QED BY <2>1, <2>4
<1>5. CASE MemosSelected
  <2>1. /\ db' = db /\ listed' = listed /\ request' = request
    BY <1>5 DEF MemosSelected
  <2>2. request \in MemoRequests => pc' = "tags" /\ filter' = UsedTagsFilter
    BY <1>5, ListAssumption, MethodsDiffer DEF MemosSelected, UsedTagsFilter, UsedTags
  <2>3. UsedTagsFilter' = UsedTagsFilter
    BY <2>1 DEF UsedTagsFilter, UsedTags, NoTagFilter
  <2> QED BY <2>1, <2>2, <2>3
<1>6. CASE SelectTagRows
  <2>1. /\ pc = "tags" /\ pc' = "reply" /\ db' = db /\ listed' = listed /\ request' = request
        /\ Selects(SelectTags(db, filter), tagList')
    BY <1>6 DEF SelectTagRows
  <2>2. ~failed' => tagList' = SelectTags(db, filter)
    BY <2>1 DEF Selects
  <2>3. UsedTagsFilter' = UsedTagsFilter
    BY <2>1 DEF UsedTagsFilter, UsedTags, NoTagFilter
  <2> QED BY <2>1, <2>2, <2>3
<1>7. CASE Return
  <2>1. request' \notin MemoRequests /\ listed' = {} /\ db' = db
    BY <1>7, MethodsDiffer DEF Return
  <2> QED BY <2>1
<1>8. CASE UNCHANGED vars
  <2>1. UNCHANGED <<db, request, pc, filter, rows, listed, tagList, failed>>
    BY <1>8 DEF vars
  <2>2. UsedTagsFilter' = UsedTagsFilter
    BY <2>1 DEF UsedTagsFilter, UsedTags, NoTagFilter
  <2> QED BY <2>1, <2>2
<1> QED
  BY <1>1, <1>2, <1>3, <1>4, <1>5, <1>6, <1>7, <1>8 DEF Next, Listing

\* A limit of at least their number leaves out none of some ids.
LEMMA LimitedIsAll ==
  ASSUME NEW ids, IsFiniteSet(ids), ids \subseteq Nat, NEW n \in Nat, Cardinality(ids) =< n
  PROVE  Limited(ids, n) = ids
<1>1. ASSUME NEW i \in ids
      PROVE  Cardinality({j \in ids : j < i}) < n
  <2> DEFINE before == {j \in ids : j < i}
  <2>1. before \subseteq ids /\ before # ids
    OBVIOUS
  <2> HIDE DEF before
  <2>2. /\ IsFiniteSet(before) /\ Cardinality(before) =< Cardinality(ids)
        /\ Cardinality(ids) # Cardinality(before)
    BY <2>1, FS_Subset, Zenon
  <2>3. Cardinality(ids) \in Nat /\ Cardinality(before) \in Nat
    BY <2>2, FS_CardinalityType, Zenon
  <2>4. Cardinality(before) < n
    BY <2>2, <2>3
  <2> QED BY <2>4 DEF before
<1> QED BY <1>1 DEF Limited

LEMMA UsedTagsFilterType ==
  ASSUME UsedTags \subseteq Nat
  PROVE  UsedTagsFilter \in TagSearchFilter
<1>1. NoTagFilter \in TagSearchFilter
  BY ListAssumption, QueriesAssumption DEF NoTagFilter, TagSearchFilter
<1> QED BY <1>1 DEF UsedTagsFilter, TagSearchFilter

\* A client can look up every tag of a listed memo in the same response, if no SELECT
\* failed and they are not more than maxCount (MemoService.cpp:54-70).
THEOREM ListedTagsResolve ==
  ASSUME IsFiniteSet(TagIds), \A d \in Databases : ForeignKeys(d)
  PROVE  Spec => []TagsResolve
<1>1. Init => TagsAreUsed
  BY MethodsDiffer DEF Init, TagsAreUsed
<1>2. IInv /\ TagsAreUsed => TagsResolve
  <2> SUFFICES ASSUME IInv, TagsAreUsed, pc = "reply", ~failed, request \in MemoRequests,
                      Cardinality(UsedTags) =< MaxCount, UsedTags # {}
               PROVE  UsedTags \subseteq tagList
    BY DEF TagsResolve, UsedTags
  <2>1. db \in ListedTables /\ ForeignKeys(db)
    BY ListAssumption DEF IInv, ControlOK
  <2>2. UsedTags \subseteq TagIds /\ UsedTags \subseteq Rows(db.tag)
    BY <2>1 DEF TagsAreUsed, UsedTags, TagsOf, ForeignKeys
  <2>3. UsedTags \subseteq Nat /\ IsFiniteSet(UsedTags)
    BY <2>2, SchemaAssumption, FS_Subset
  <2>4. UsedTagsFilter \in TagSearchFilter /\ UsedTagsFilter.maxCount = MaxCount
    BY <2>3, UsedTagsFilterType DEF UsedTagsFilter, NoTagFilter
  <2>5. MatchingTags(db, BuildTagQuery(UsedTagsFilter))
           = {t \in Rows(db.tag) : DescribesTag(UsedTagsFilter, db, t)}
    BY <2>1, <2>4, TagQueryIsFilter
  <2>6. ASSUME NEW t \in Rows(db.tag)
        PROVE  DescribesTag(UsedTagsFilter, db, t) <=> t \in UsedTags
    BY DEF DescribesTag, UsedTagsFilter, NoTagFilter, Given, Within
  <2>7. MatchingTags(db, BuildTagQuery(UsedTagsFilter)) = UsedTags
    BY <2>2, <2>5, <2>6
  <2>8. tagList = Limited(UsedTags, MaxCount)
    BY <2>4, <2>7 DEF TagsAreUsed, SelectTags, BuildTagQuery
  <2>9. Limited(UsedTags, MaxCount) = UsedTags
    BY <2>3, LimitedIsAll, ListAssumption
  <2> QED BY <2>8, <2>9
<1>3. IInv /\ TagsAreUsed /\ [Next]_vars => TagsAreUsed'
  BY TagsAreUsedStep
<1> QED
  BY Starts, Stays, <1>1, <1>2, <1>3, PTL DEF Spec

-----------------------------------------------------------------------------
(* What listMemos returns to another handler, whatever fails *)

\* A limit is kept: the ids below each of the first n are different numbers of ids, all
\* less than n.
LEMMA LimitedIsLimited ==
  ASSUME NEW ids, ids \subseteq Nat, NEW n \in Nat
  PROVE  IsFiniteSet(Limited(ids, n)) /\ Cardinality(Limited(ids, n)) =< n
<1> DEFINE before(i) == {j \in ids : j < i}
           S == Limited(ids, n)
           place == [i \in S |-> Cardinality(before(i))]
<1>1. ASSUME NEW i \in ids
      PROVE  IsFiniteSet(before(i)) /\ Cardinality(before(i)) \in Nat
  <2> i \in Nat
    BY <1>1
  <2>1. before(i) \in SUBSET Nat /\ \A s \in before(i) : s =< i
    <3>1. \A s \in before(i) : s \in ids /\ s \in Nat /\ s < i
      OBVIOUS
    <3> HIDE DEF before
    <3> QED
      BY <3>1
  <2> HIDE DEF before
  <2>2. IsFiniteSet(before(i))
    BY <2>1, FS_BoundedSetOfNaturals, Zenon
  <2> QED
    BY <2>2, FS_CardinalityType, Zenon
<1>2. ASSUME NEW i \in ids, NEW k \in ids, i < k
      PROVE  Cardinality(before(i)) < Cardinality(before(k))
  <2>1. before(i) \subseteq before(k) /\ i \in before(k) /\ i \notin before(i)
    <3>1. i \in Nat /\ k \in Nat /\ ids \subseteq Nat /\ i < k
      BY <1>2
    <3>2. i \in before(k)
      BY <3>1
    <3>3. i \notin before(i)
      BY <3>1
    <3>4. ASSUME NEW j \in before(i) PROVE j \in before(k)
      <4>1. j \in ids /\ j < i
        OBVIOUS
      <4>2. j < k
        BY <3>1, <4>1
      <4> QED
        BY <4>1, <4>2
    <3> QED
      BY <3>2, <3>3, <3>4
  <2>2. IsFiniteSet(before(k)) /\ Cardinality(before(k)) \in Nat /\ Cardinality(before(i)) \in Nat
    BY <1>1
  <2> HIDE DEF before
  <2>3. /\ Cardinality(before(i)) =< Cardinality(before(k))
        /\ Cardinality(before(i)) # Cardinality(before(k))
    BY <2>1, <2>2, FS_Subset, Zenon
  <2> QED
    BY <2>2, <2>3
<1>3. S \subseteq ids /\ \A i \in S : Cardinality(before(i)) < n
  BY DEF Limited
<1> HIDE DEF before, S
<1>4. place \in [S -> 0..(n - 1)]
  <2> SUFFICES ASSUME NEW i \in S PROVE Cardinality(before(i)) \in 0..(n - 1)
    OBVIOUS
  <2> QED
    BY <1>1, <1>3
<1>5. ASSUME NEW i \in S, NEW k \in S, place[i] = place[k]
      PROVE  i = k
  <2>1. /\ Cardinality(before(i)) = Cardinality(before(k))
        /\ Cardinality(before(i)) \in Nat /\ i \in Nat /\ k \in Nat
    BY <1>1, <1>3, <1>5
  <2>2. ~(i < k) /\ ~(k < i)
    BY <1>2, <1>3, <2>1
  <2> QED
    BY <2>1, <2>2
<1>6. place \in Injection(S, 0..(n - 1))
  BY <1>4, <1>5 DEF Injection, IsInjective
<1>7. IsFiniteSet(0..(n - 1)) /\ Cardinality(0..(n - 1)) = n
  BY FS_Interval
<1> HIDE DEF place
<1>8. IsFiniteSet(S) /\ Cardinality(S) =< Cardinality(0..(n - 1))
  BY <1>6, <1>7, FS_Injection
<1> QED
  BY <1>7, <1>8 DEF S

\* Another handler's listing at each of its points: what is selected and not yet listed,
\* and what is listed, with which tags.
OthersSoFar ==
    request = NoRequest =>
        /\ pc \in {"idle", "memos", "memoTags", "reply"}
        /\ pc # "idle" => filter \in OtherFilters
        /\ pc \in {"memoTags", "reply"} =>
              /\ rows \subseteq SelectMemos(db, filter)
              /\ ListedIds \subseteq SelectMemos(db, filter) \ rows
              /\ \A memo \in listed :
                    /\ memo.tagIds \subseteq TagsOf(db, memo.id)
                    /\ ~failed => memo.tagIds = TagsOf(db, memo.id)
              /\ \A memo, other \in listed : memo.id = other.id => memo = other

LEMMA OthersStep ==
  ASSUME IInv, OthersSoFar, [Next]_vars
  PROVE  OthersSoFar'
<1> USE DEF OthersSoFar
<1>1. CASE ListMemos \/ ListTags
  <2>1. request' # NoRequest
    BY <1>1, MethodsDiffer DEF ListMemos, ListTags
  <2> QED BY <2>1
<1>2. CASE ListMemosByFilter
  <2>1. pc' = "memos" /\ filter' \in OtherFilters
    BY <1>2 DEF ListMemosByFilter
  <2> QED BY <2>1
<1>3. CASE SelectMemoRows
  <2>1. /\ pc = "memos" /\ pc' = "memoTags" /\ db' = db /\ request' = request
        /\ filter' = filter /\ listed' = listed /\ Selects(SelectMemos(db, filter), rows')
    BY <1>3 DEF SelectMemoRows
  <2>2. rows' \subseteq SelectMemos(db, filter)
    BY <2>1, LimitedAreMembers DEF Selects
  <2>3. listed' = {} /\ ListedIds' = {}
    BY <2>1 DEF IInv, Fresh, ListedIds
  <2> QED BY <2>1, <2>2, <2>3
<1>4. CASE SelectMemoTags
  <2>1. /\ pc = "memoTags" /\ pc' = pc /\ db' = db /\ request' = request /\ filter' = filter
        /\ rows # {} /\ rows' = rows \ {First(rows)}
    BY <1>4 DEF SelectMemoTags
  <2>2. First(rows) \in rows
    BY <2>1, FirstIsMember DEF IInv, ControlOK
  <2>3. PICK tagIds \in SUBSET TagsOf(db, First(rows)) :
           /\ listed' = listed \cup {[id |-> First(rows), tagIds |-> tagIds]}
           /\ (tagIds = TagsOf(db, First(rows)) /\ failed' = failed) \/ failed' = TRUE
    BY <1>4 DEF SelectMemoTags
  <2> DEFINE next == [id |-> First(rows), tagIds |-> tagIds]
  <2>4. /\ listed' = listed \cup {next} /\ next.id = First(rows)
        /\ next.tagIds \subseteq TagsOf(db, next.id)
        /\ ~failed' => ~failed /\ next.tagIds = TagsOf(db, next.id)
    BY <2>3
  <2> HIDE DEF next
  <2> SUFFICES ASSUME request = NoRequest PROVE OthersSoFar'
    BY <2>1
  <2>5. next.id \notin ListedIds /\ ListedIds' = ListedIds \cup {next.id}
    BY <2>1, <2>2, <2>4 DEF ListedIds
  <2>6. \A memo \in listed : memo.id \in ListedIds
    BY DEF ListedIds
  <2>7. \A memo \in listed' :
           /\ memo.tagIds \subseteq TagsOf(db, memo.id)
           /\ ~failed' => memo.tagIds = TagsOf(db, memo.id)
    BY <2>1, <2>4
  <2>8. \A memo, other \in listed' : memo.id = other.id => memo = other
    BY <2>1, <2>4, <2>5, <2>6
  <2> QED BY <2>1, <2>2, <2>4, <2>5, <2>7, <2>8
<1>5. CASE MemosSelected
  <2>1. /\ pc = "memoTags" /\ db' = db /\ listed' = listed /\ request' = request
        /\ rows' = rows /\ failed' = failed
        /\ request = NoRequest => pc' = "reply" /\ filter' = filter
    BY <1>5 DEF MemosSelected
  <2>2. ListedIds' = ListedIds
    BY <2>1 DEF ListedIds
  <2> QED BY <2>1, <2>2
<1>6. CASE SelectTagRows
  BY <1>6 DEF SelectTagRows
<1>7. CASE Return
  <2>1. pc' = "idle"
    BY <1>7 DEF Return
  <2> QED BY <2>1
<1>8. CASE UNCHANGED vars
  <2>1. UNCHANGED <<db, request, pc, filter, rows, listed, failed>> /\ ListedIds' = ListedIds
    BY <1>8 DEF vars, ListedIds
  <2> QED BY <2>1
<1> QED
  BY <1>1, <1>2, <1>3, <1>4, <1>5, <1>6, <1>7, <1>8 DEF Next, Listing

\* What listMemos returns to another handler are memos that its filter describes, each
\* once and at most maxCount of them, with tags they have, whatever failed
\* (Sqlite3Database.cpp:35-78).
THEOREM OthersListRealMemos == Spec => []OnlyRealMemos
<1>1. Init => OthersSoFar
  BY DEF Init, OthersSoFar
<1>2. IInv /\ OthersSoFar => OnlyRealMemos
  <2> SUFFICES ASSUME IInv, OthersSoFar, pc \in {"memoTags", "reply"}, request = NoRequest
               PROVE  /\ \A memo \in listed :
                            /\ DescribesMemo(filter, db, memo.id)
                            /\ memo.tagIds \subseteq TagsOf(db, memo.id)
                            /\ ~failed => memo.tagIds = TagsOf(db, memo.id)
                      /\ \A memo, other \in listed : memo.id = other.id => memo = other
                      /\ Cardinality(listed) =< MaxCount
    BY DEF OnlyRealMemos
  <2> DEFINE matching == MatchingMemos(db, BuildMemoQuery(filter))
             selected == Limited(matching, MaxCount)
             idOf == [memo \in listed |-> memo.id]
  <2>1. /\ filter \in MemoSearchFilter /\ filter.maxCount = MaxCount /\ MaxCount \in Nat
        /\ db \in ListedTables
    BY ListAssumption DEF OthersSoFar, IInv, ControlOK
  <2>2. SelectMemos(db, filter) = selected
    BY <2>1 DEF SelectMemos, BuildMemoQuery
  <2>3. matching = {m \in Rows(db.memo) : DescribesMemo(filter, db, m)}
    BY <2>1, MemoQueryIsFilter
  <2>4. matching \subseteq Nat
    BY <2>1, SchemaAssumption DEF MatchingMemos, Rows, ListedTables
  <2> HIDE DEF matching
  <2>5. selected \subseteq matching
    BY LimitedAreMembers
  <2>6. IsFiniteSet(selected) /\ Cardinality(selected) =< MaxCount
    BY <2>1, <2>4, LimitedIsLimited
  <2>7. \A memo \in listed : memo.id \in selected
    BY <2>2 DEF OthersSoFar, ListedIds
  <2>8. \A memo \in listed : DescribesMemo(filter, db, memo.id)
    BY <2>3, <2>5, <2>7
  <2> HIDE DEF selected
  <2>9. idOf \in [listed -> selected] /\ \A a, b \in listed : idOf[a] = idOf[b] => a = b
    BY <2>7 DEF OthersSoFar
  <2>10. idOf \in Injection(listed, selected)
    BY <2>9 DEF Injection, IsInjective
  <2> HIDE DEF idOf
  <2>11. IsFiniteSet(listed) /\ Cardinality(listed) =< Cardinality(selected)
    BY <2>6, <2>10, FS_Injection
  <2>12. Cardinality(listed) \in Nat /\ Cardinality(selected) \in Nat
    BY <2>6, <2>11, FS_CardinalityType, Zenon
  <2>13. Cardinality(listed) =< MaxCount
    BY <2>1, <2>6, <2>11, <2>12
  <2> QED
    BY <2>8, <2>13 DEF OthersSoFar
<1>3. IInv /\ OthersSoFar /\ [Next]_vars => OthersSoFar'
  BY OthersStep
<1> QED
  BY Starts, Stays, <1>1, <1>2, <1>3, PTL DEF Spec

=============================================================================
