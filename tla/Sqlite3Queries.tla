--------------------------- MODULE Sqlite3Queries ---------------------------
(***************************************************************************)
(* The two SELECTs of the list operations: BuildMemoQuery and              *)
(* BuildTagQuery (src/db/Sqlite3Functions.cpp) turn a filter into a query, *)
(* and SQLite turns the query into ids.                                    *)
(*                                                                         *)
(* A query is what its text says: the tables it reads, the conditions of   *)
(* its WHERE, joined by AND, and its LIMIT.  A condition is a test of a    *)
(* column against a set of values, joined by OR.                           *)
(***************************************************************************)
EXTENDS Sqlite3Schema, Integers, FiniteSets

CONSTANTS
    Texts,       \* titles, descriptions, names, and the texts of filters
    EmptyText,   \* the empty string
    LikeTexts,   \* <<test, p, text>>: "text LIKE" 'p' (exact), 'p%' (prefix), '%p%' (contains)
    NoBound      \* an empty std::optional; a request's -1ul

LikeTests == {"exact", "prefix", "contains"}

ASSUME QueriesAssumption ==
    /\ Titles \subseteq Texts /\ Names \subseteq Texts
    /\ EmptyText \in Texts
    /\ LikeTexts \subseteq LikeTests \X Texts \X Texts
    /\ NoBound \notin Nat

-----------------------------------------------------------------------------
(* The tables, with all the columns that a filter looks at *)

MemoRows == [title : Titles, description : Texts, timestamp : Nat]
TagRows  == [name : Names, color : Int, timestamp : Nat]

ListedTables ==
    [memo   : [MemoIds -> MemoRows \cup {NoRow}],
     tag    : [TagIds -> TagRows \cup {NoRow}],
     tagged : TaggedTable]

(* The filters.  Their vectors end up in a std::set or in an IN list: sets here. *)

MemoSearchFilter ==
    [ids : SUBSET Nat, exactTitleMatch : Texts, titlePrefix : Texts,
     titleKeywords : SUBSET Texts, memoKeywords : SUBSET Texts, tagIds : SUBSET Nat,
     filterFromDate : Nat \cup {NoBound}, filterUntilDate : Nat \cup {NoBound}, maxCount : Nat]

TagSearchFilter ==
    [ids : SUBSET Nat, exactNameMatch : Texts, namePrefix : Texts, nameContains : Texts,
     colors : SUBSET Int, memoIds : SUBSET Nat,
     filterFromDate : Nat \cup {NoBound}, filterUntilDate : Nat \cup {NoBound}, maxCount : Nat]

-----------------------------------------------------------------------------
(* The conditions.  Each operator yields a set: of one condition, or of none if the
   filter does not ask for it. *)

Condition(attribute, test, values) == [attribute |-> attribute, test |-> test, values |-> values]

AttributeInCondition(attribute, items) ==
    IF items = {} THEN {} ELSE {Condition(attribute, "in", items)}

LikeCondition(attribute, test, text) ==
    IF text = EmptyText THEN {} ELSE {Condition(attribute, test, {text})}

\* Mutant: the empty keyword, which every text contains, is not removed.
ContainsAnyKeyCondition(attribute, keywords) ==
    IF keywords = {} THEN {} ELSE {Condition(attribute, "contains", keywords)}

ConstructContainsKeysCondition(attribute, keywords) ==
    LET uniqueKeywords == keywords \ {EmptyText}
    IN  IF uniqueKeywords = {} THEN {} ELSE {Condition(attribute, "contains", uniqueKeywords)}

DateConditions(f) ==
    (IF f.filterFromDate = NoBound THEN {} ELSE {Condition("timestamp", ">=", {f.filterFromDate})})
        \cup
    (IF f.filterUntilDate = NoBound THEN {} ELSE {Condition("timestamp", "<=", {f.filterUntilDate})})

\* An exact match makes the other conditions on the title void.
BuildMemoQuery(f) ==
    [join  |-> f.tagIds # {},
     where |-> AttributeInCondition("id", f.ids)
               \cup (IF f.exactTitleMatch # EmptyText
                     THEN LikeCondition("title", "exact", f.exactTitleMatch)
                     ELSE LikeCondition("title", "prefix", f.titlePrefix)
                          \cup ConstructContainsKeysCondition("title", f.titleKeywords))
               \cup ConstructContainsKeysCondition("description", f.memoKeywords)
               \cup DateConditions(f)
               \cup AttributeInCondition("tagId", f.tagIds),
     limit |-> f.maxCount]

BuildTagQuery(f) ==
    [join  |-> f.memoIds # {},
     where |-> AttributeInCondition("id", f.ids)
               \cup (IF f.exactNameMatch # EmptyText
                     THEN LikeCondition("name", "exact", f.exactNameMatch)
                     ELSE LikeCondition("name", "prefix", f.namePrefix)
                          \cup LikeCondition("name", "contains", f.nameContains))
               \cup AttributeInCondition("color", f.colors)
               \cup DateConditions(f)
               \cup AttributeInCondition("memoId", f.memoIds),
     limit |-> f.maxCount]

-----------------------------------------------------------------------------
(* SQLite *)

\* A condition holds of a row.
Holds(c, row) ==
    /\ c.test = "in" => row[c.attribute] \in c.values
    /\ c.test = ">=" => \E v \in c.values : row[c.attribute] >= v
    /\ c.test = "<=" => \E v \in c.values : row[c.attribute] =< v
    /\ c.test \in LikeTests => \E v \in c.values : <<c.test, v, row[c.attribute]>> \in LikeTexts

Accepts(query, row) == \A c \in query.where : Holds(c, row)

\* The columns of Memo and Tag, next to those of Tagged.  Without the join no condition
\* asks for the column of Tagged.
MemoColumns(db, m, t) ==
    [id |-> m, title |-> db.memo[m].title, description |-> db.memo[m].description,
     timestamp |-> db.memo[m].timestamp, tagId |-> t]

TagColumns(db, t, m) ==
    [id |-> t, name |-> db.tag[t].name, color |-> db.tag[t].color,
     timestamp |-> db.tag[t].timestamp, memoId |-> m]

\* The ids whose rows, or with INNER JOIN some of the joined rows, are accepted: GROUP
\* BY id makes one result of the rows with the same id.
MatchingMemos(db, query) ==
    {m \in Rows(db.memo) :
        IF query.join
        THEN \E t \in TagsOf(db, m) : Accepts(query, MemoColumns(db, m, t))
        ELSE Accepts(query, MemoColumns(db, m, 0))}

MatchingTags(db, query) ==
    {t \in Rows(db.tag) :
        IF query.join
        THEN \E m \in MemoIds : t \in TagsOf(db, m) /\ Accepts(query, TagColumns(db, t, m))
        ELSE Accepts(query, TagColumns(db, t, 0))}

\* GROUP BY id LIMIT n: the n smallest ids.
Limited(ids, n) == {i \in ids : Cardinality({j \in ids : j < i}) < n}

SelectMemos(db, f) == LET query == BuildMemoQuery(f) IN Limited(MatchingMemos(db, query), query.limit)

SelectTags(db, f) == LET query == BuildTagQuery(f) IN Limited(MatchingTags(db, query), query.limit)

-----------------------------------------------------------------------------
(* What a filter describes: the reference *)

Given(text) == text # EmptyText

Within(timestamp, f) ==
    /\ f.filterFromDate # NoBound => f.filterFromDate =< timestamp
    /\ f.filterUntilDate # NoBound => timestamp =< f.filterUntilDate

\* The text contains one of the keywords; empty keywords do not count.
Mentions(text, keywords) ==
    (\E k \in keywords : Given(k)) =>
        \E k \in keywords : Given(k) /\ <<"contains", k, text>> \in LikeTexts

\* Memo m of the database is one that the filter describes.
DescribesMemo(f, db, m) ==
    /\ f.ids # {} => m \in f.ids
    /\ Given(f.exactTitleMatch) => <<"exact", f.exactTitleMatch, db.memo[m].title>> \in LikeTexts
    /\ ~Given(f.exactTitleMatch) =>
          /\ Given(f.titlePrefix) => <<"prefix", f.titlePrefix, db.memo[m].title>> \in LikeTexts
          /\ Mentions(db.memo[m].title, f.titleKeywords)
    /\ Mentions(db.memo[m].description, f.memoKeywords)
    /\ Within(db.memo[m].timestamp, f)
    /\ f.tagIds # {} => f.tagIds \cap TagsOf(db, m) # {}

\* Tag t of the database is one that the filter describes.
DescribesTag(f, db, t) ==
    /\ f.ids # {} => t \in f.ids
    /\ Given(f.exactNameMatch) => <<"exact", f.exactNameMatch, db.tag[t].name>> \in LikeTexts
    /\ ~Given(f.exactNameMatch) =>
          /\ Given(f.namePrefix) => <<"prefix", f.namePrefix, db.tag[t].name>> \in LikeTexts
          /\ Given(f.nameContains) => <<"contains", f.nameContains, db.tag[t].name>> \in LikeTexts
    /\ f.colors # {} => db.tag[t].color \in f.colors
    /\ Within(db.tag[t].timestamp, f)
    /\ f.memoIds # {} => \E m \in f.memoIds : m \in MemoIds /\ t \in TagsOf(db, m)

=============================================================================
