----------------------------- MODULE MC_System -----------------------------
(***************************************************************************)
(* A small instance of module System for TLC: two clients with two         *)
(* attempts each, at the same rows.                                        *)
(***************************************************************************)
EXTENDS System

CONSTANTS NumMemos, NumTags

MCMemoIds == 1..NumMemos
MCTagIds  == 1..NumTags
MCTagLists == [MCTagIds -> 0..1]
MCLike == {<<text, text>> : text \in Titles \cup Names}
MCRequests == StoreCalls

MCCalls == {<<"k1", 1>>, <<"k1", 2>>, <<"k2", 1>>, <<"k2", 2>>}

NoTags == [t \in MCTagIds |-> 0]
AllTags == [t \in MCTagIds |-> 1]
Add(text, tagIds) == [method |-> "AddMemo", text |-> text, tags |-> tagIds]
Update(id, text) == [method |-> "UpdateMemo", id |-> id, text |-> text, tags |-> NoTags]
Remove(ids) == [method |-> "RemoveMemo", ids |-> ids]

AddX == [method |-> "AddTag", text |-> "x"]
UpdateToY == [method |-> "UpdateTag", id |-> 1, text |-> "y"]
RemoveX == [method |-> "RemoveTag", ids |-> {1}]

\* One client adds a row; the other adds one too, or removes or rewrites the first.
\* An addition that was lost after its effect, a removal and the retries of both give
\* one id to two rows.  Or one client adds a tag, and the other a memo with that tag.
MCWants ==
    [k1 : {Add("a", NoTags)}, k2 : {Add("b", NoTags), Remove({1}), Update(1, "b")}]
        \cup [k1 : {AddX}, k2 : {UpdateToY, RemoveX, Add("a", AllTags)}]

=============================================================================
