----------------------------- MODULE MC_Records -----------------------------
(***************************************************************************)
(* A small instance of module Records for TLC.                             *)
(***************************************************************************)
EXTENDS Records

\* LIKE ignores case.
MCAlike == {<<"a", "A">>, <<"A", "a">>}

=============================================================================
