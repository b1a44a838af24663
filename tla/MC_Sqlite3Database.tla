------------------------- MODULE MC_Sqlite3Database -------------------------
(***************************************************************************)
(* Small instances of module Sqlite3Database for TLC.                      *)
(***************************************************************************)
EXTENDS Sqlite3Database, FiniteSets

CONSTANTS
    NumMemos, NumTags,   \* ids of each kind
    MixedCase            \* the titles differ in case alone

\* Two ids of a kind are enough for a row to stay while another goes, and for an
\* id to be handed out again.
MCMemoIds == 1..NumMemos
MCTagIds  == 1..NumTags

\* Requests with any set of tags.
MCTagLists == [MCTagIds -> {0, 1}]

\* LIKE between two titles: each matches itself alone, or, when they differ in
\* case alone, both.
MCLike == {p \in Titles \X Titles : MixedCase \/ p[1] = p[2]}

=============================================================================
