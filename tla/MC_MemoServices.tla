-------------------------- MODULE MC_MemoServices --------------------------
(***************************************************************************)
(* Small instances of module MemoServices for TLC.                         *)
(***************************************************************************)
EXTENDS MemoServices

CONSTANTS NumMemos, NumTags, Ambiguous

MCMemoIds == 1..NumMemos
MCTagIds  == 1..NumTags

\* A request names no tag, or the last one.
MCTagLists ==
    {[t \in MCTagIds |-> 0],
     [t \in MCTagIds |-> IF t = NumTags THEN 1 ELSE 0]}

\* LIKE between two texts: each matches itself, and those of Ambiguous, which differ
\* in letter case alone, match each other.
MCLike == {p \in (Titles \cup Names) \X (Titles \cup Names) :
              p[1] = p[2] \/ p \in Ambiguous \X Ambiguous}

MCRequests == StoreCalls

=============================================================================
