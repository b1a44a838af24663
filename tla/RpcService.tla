----------------------------- MODULE RpcService -----------------------------
(***************************************************************************)
(* What the request loop promises to the handlers and to the clients (an   *)
(* abstract specification; module Server implements it).                   *)
(*                                                                         *)
(* Each method has a seat for the one call that is its next, and the       *)
(* thread serves one call at a time.  The handler of a call is entered at  *)
(* most once, and the call is answered after its handler has returned.     *)
(* Calls of one method are served in the order in which they took the      *)
(* seat, those of different methods in any order.  A client that gives up  *)
(* does not stop a call that has its seat.                                 *)
(***************************************************************************)

CONSTANTS Calls, Methods, NoCall

VARIABLES
    up,        \* "down", "up", or "closing": an exception has ended the loop
    wish,      \* wish[c]: the method call c is for
    status,    \* status[c]: how far call c is, as its client knows
    seat,      \* seat[m]: the call of method m that is served next
    serving,   \* the call the thread is at
    handled    \* the calls whose handler was entered

vars == <<up, wish, status, seat, serving, handled>>

Init ==
    /\ up = "down"
    /\ wish \in [Calls -> Methods]
    /\ status = [c \in Calls |-> "unsent"]
    /\ seat = [m \in Methods |-> NoCall]
    /\ serving = NoCall
    /\ handled = {}

Boot ==
    /\ up = "down"
    /\ up' = "up"
    /\ UNCHANGED <<wish, status, seat, serving, handled>>

Send(c) ==
    /\ up = "up"
    /\ status[c] = "unsent"
    /\ status' = [status EXCEPT ![c] = "pending"]
    /\ UNCHANGED <<up, wish, seat, serving, handled>>

Accept(c) ==
    /\ up = "up"
    /\ status[c] = "pending"
    /\ seat[wish[c]] = NoCall
    /\ status' = [status EXCEPT ![c] = "accepted"]
    /\ seat' = [seat EXCEPT ![wish[c]] = c]
    /\ UNCHANGED <<up, wish, serving, handled>>

\* Mutant: the thread takes any call of the method that came, as with two listeners.
BeginAny(m) ==
    /\ up = "up"
    /\ serving = NoCall
    /\ \E c \in Calls : wish[c] = m /\ status[c] \in {"pending", "accepted", "cancelled"} /\ serving' = c
    /\ UNCHANGED <<up, wish, status, seat, handled>>

\* The thread takes the next call of a method.
Begin(m) ==
    /\ up = "up"
    /\ serving = NoCall
    /\ seat[m] # NoCall
    /\ serving' = seat[m]
    /\ seat' = [seat EXCEPT ![m] = NoCall]
    /\ UNCHANGED <<up, wish, status, handled>>

\* It enters the handler of the call's method ...
Enter ==
    /\ up = "up"
    /\ serving # NoCall
    /\ serving \notin handled
    /\ handled' = handled \cup {serving}
    /\ UNCHANGED <<up, wish, status, seat, serving>>

\* ... and comes back, ...
Return ==
    /\ up = "up"
    /\ serving \in handled
    /\ serving' = NoCall
    /\ UNCHANGED <<up, wish, status, seat, handled>>

\* ... or does not: neither the call nor those in the seats will be answered, and those
\* without a seat are refused.
Throw ==
    /\ up = "up"
    /\ serving \in handled
    /\ up' = "closing"
    /\ status' = [c \in Calls |-> IF status[c] = "pending" THEN "lost" ELSE status[c]]
    /\ seat' = [m \in Methods |-> NoCall]
    /\ UNCHANGED <<wish, serving, handled>>

Answer(c) ==
    /\ status[c] = "accepted"
    /\ c \in handled \ {serving}
    /\ status' = [status EXCEPT ![c] = "answered"]
    /\ UNCHANGED <<up, wish, seat, serving, handled>>

\* A client gives up: without a seat its call is dropped, with one it runs on.
Cancel(c) ==
    /\ status[c] \in {"pending", "accepted"}
    /\ status' = [status EXCEPT ![c] = "cancelled"]
    /\ UNCHANGED <<up, wish, seat, serving, handled>>

\* The server's process ends, by itself or killed.
Stop ==
    /\ up # "down"
    /\ up' = "down"
    /\ status' = [c \in Calls |->
                     IF status[c] \in {"pending", "accepted"} THEN "lost" ELSE status[c]]
    /\ seat' = [m \in Methods |-> NoCall]
    /\ serving' = NoCall
    /\ UNCHANGED <<wish, handled>>

Next ==
    \/ Boot \/ Enter \/ Return \/ Throw \/ Stop
    \/ \E c \in Calls : Send(c) \/ Accept(c) \/ Answer(c) \/ Cancel(c)
    \/ \E m \in Methods : Begin(m)

Spec == Init /\ [][Next]_vars

=============================================================================
