------------------------------ MODULE MC_Server ------------------------------
(***************************************************************************)
(* A small instance of module Server for TLC: two calls, which compete for *)
(* the same method, whichever it is, or are for methods of two services.   *)
(* Addresses are numbers.  Those that were never used are alike, so that a *)
(* new object is given a free address among the lower ones or the next.    *)
(***************************************************************************)
EXTENDS Server, TLC

CONSTANTS c1, c2

MCWishes ==
    {[c \in Calls |-> m] : m \in Methods} \cup {c1 :> "AddMemo" @@ c2 :> "AddTag"}

InUse == Alive \cup Tags \cup {0}

AddressesInTurn ==
    fresh' # fresh /\ fresh' # NoProc => \E p \in InUse : fresh' =< p + 1

MCSpec == Init /\ [][Next /\ AddressesInTurn]_vars /\ WF_vars(Thread) /\ WF_vars(Core)

=============================================================================
