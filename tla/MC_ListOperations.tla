------------------------- MODULE MC_ListOperations -------------------------
(***************************************************************************)
(* A small instance of module ListOperations for TLC: three memos of which *)
(* two fit into a listing, two tags, and requests that use every part of   *)
(* their filters.                                                          *)
(***************************************************************************)
EXTENDS ListOperations

MCTexts == {"", "a", "A", "ba"}

\* LIKE folds letter case: "A" is "a".  "ba" contains "a" and does not start with it.
Fold(text) == IF text = "A" THEN "a" ELSE text

MCLikeTexts ==
    {c \in {"exact", "prefix", "contains"} \X MCTexts \X MCTexts :
        \/ Fold(c[2]) = Fold(c[3])
        \/ c[1] # "exact" /\ c[2] = ""
        \/ c[1] = "contains" /\ Fold(c[2]) = "a" /\ c[3] = "ba"}

Row(title, description, timestamp) ==
    [title |-> title, description |-> description, timestamp |-> timestamp]

First3  == <<Row("a", "", 0), Row("A", "ba", 1), Row("ba", "a", 2)>>
Gap     == <<Row("ba", "", 0), NoRow, Row("a", "A", 2)>>
Empty   == <<NoRow, NoRow, NoRow>>
TwoTags == <<[name |-> "a", color |-> 1, timestamp |-> 0],
             [name |-> "ba", color |-> 2, timestamp |-> 2]>>

\* A memo has no tag, tag 1, or both.
MCDatabases ==
    {d \in [memo : {First3, Gap, Empty}, tag : {TwoTags},
            tagged : [{1, 2, 3} -> {<<0, 0>>, <<2, 0>>, <<1, 1>>}]] : ForeignKeys(d)}

MCRanges == {NoRange} \cup [start : {NoBound, 1}, end : {NoBound, 1}]

MCMemoRequests ==
    [titleStartsWith : {"", "A"}, titleContains : {{}, {""}, {"", "ba"}},
     contains : {{}, {"", "a"}}, taggedBy : {{}, {2}, {1, 2}}, creationTime : MCRanges]

MCTagRequests ==
    [nameStartsWith : {"", "A"}, contains : {"", "a", "ba"}, colours : {{}, {1}, {1, 3}},
     creationTime : MCRanges]

\* AddMemo looks a title up, RemoveMemo a list of ids.
MCOtherFilters ==
    {[NoMemoFilter EXCEPT !.exactTitleMatch = title] : title \in MCTexts}
        \cup {[NoMemoFilter EXCEPT !.ids = ids] : ids \in {{2}, {1, 3, 9}, {1, 2, 3}}}

=============================================================================
