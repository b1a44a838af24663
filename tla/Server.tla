------------------------------- MODULE Server -------------------------------
(***************************************************************************)
(* The request loop: Server::run, BaseService's processes and the life of  *)
(* a BaseProcess, against gRPC's asynchronous API; and ~Server, which an   *)
(* exception that leaves run() brings about.                               *)
(*                                                                         *)
(* A process is an object that waits for one call of its method (its       *)
(* address is the tag of Request<Method>), runs the handler, sends the     *)
(* reply (the same tag again, with Finish) and is destroyed when the       *)
(* completion queue hands the tag back the second time.  The server has a  *)
(* single thread; gRPC's core accepts calls and completes replies beside   *)
(* it, in any order.  An entry of the queue says whether the operation     *)
(* succeeded (isOk); Server::run does not read that.                       *)
(*                                                                         *)
(* An address is free again once its process is destroyed, and the next    *)
(* process may be given it.                                                *)
(***************************************************************************)
EXTENDS Naturals, Sequences, Processes

CONSTANTS
    Procs,        \* addresses of process objects
    Calls,        \* the calls clients make
    Wishes,       \* what the clients may want: functions from calls to methods
    NoClass, NoProc, NoCall

ASSUME ServerAssumption ==
    /\ Wishes \subseteq [Calls -> Methods]
    /\ NoClass \notin ClassNames
    /\ NoProc \notin Procs
    /\ NoCall \notin Calls

VARIABLES
    \* the server's thread
    pc,           \* where it is; "down": there is no server process
    registered,   \* how many processes the two enable() calls have created
    cur,          \* the process executeProcess was called with; kept by an exception
    fresh,        \* the process registerProcess is busy with
    processes,    \* processes[s]: processes_ of service s
    class,        \* class[p]: the class of the process at p; NoClass: p is free
    state,        \* state[p]: state_
    \* gRPC's core
    slots,        \* tags of outstanding Request<Method> calls
    sending,      \* tags of outstanding Finish calls
    cq,           \* the completion queue: <<tag, what was completed, isOk>>
    bound,        \* bound[p]: the call whose context process p holds
    \* clients
    wish,         \* wish[c]: the method call c is for
    status,       \* status[c]: how far call c is
    handlers      \* handlers[c]: the handlers that were run for call c

thread  == <<pc, registered, cur, fresh>>
objects == <<processes, class, state>>
core    == <<slots, sending, cq, bound>>
client  == <<wish, status, handlers>>
vars    == <<thread, objects, core, client>>

Alive == {p \in Procs : class[p] # NoClass}

\* The tags gRPC holds on to.
Tags == slots \cup sending \cup {e[1] : e \in cq}

\* What the process at p does, and whom it serves.
ClassOf(p) == Classes[class[p]]
ServiceOf(p) == ClassOf(p).service

\* initialize() enables the memo service before the tag service.
Registration == MemoServiceProcesses \o TagServiceProcesses

-----------------------------------------------------------------------------

Init ==
    /\ pc = "down"
    /\ registered = 0
    /\ cur = NoProc
    /\ fresh = NoProc
    /\ processes = [s \in Services |-> {}]
    /\ class = [p \in Procs |-> NoClass]
    /\ state = [p \in Procs |-> "PROCESSING"]
    /\ slots = {}
    /\ sending = {}
    /\ cq = {}
    /\ bound = [p \in Procs |-> NoCall]
    /\ wish \in Wishes
    /\ status = [c \in Calls |-> "unsent"]
    /\ handlers = [c \in Calls |-> <<>>]

(* ----- the server's thread ----- *)

\* initialize: the port is open from BuildAndStart on, before any service is enabled.
Start ==
    /\ pc = "down"
    /\ pc' = "enable"
    /\ registered' = 0
    /\ UNCHANGED <<cur, fresh, objects, core, client>>

\* make_shared<...Process>: the constructor does not initialise state_.
Create(k) ==
    \E p \in Procs \ Alive, garbage \in {"PROCESSING", "FINISHED"} :
        /\ fresh' = p
        /\ class' = [class EXCEPT ![p] = k]
        /\ state' = [state EXCEPT ![p] = garbage]
        /\ pc' = "init"

\* enable: registerProcesses creates a process of each class, ...
Enable ==
    /\ pc = "enable"
    /\ registered < Len(Registration)
    /\ Create(Registration[registered + 1])
    /\ registered' = registered + 1
    /\ UNCHANGED <<cur, processes, core, client>>

\* ... and then run() goes to the queue.
Enabled ==
    /\ pc = "enable"
    /\ registered = Len(Registration)
    /\ pc' = "next"
    /\ UNCHANGED <<registered, cur, fresh, objects, core, client>>

\* registerProcess, first half: init() makes the process wait for a call.
InitProcess ==
    /\ pc = "init"
    /\ slots' = slots \cup {fresh}
    /\ state' = [state EXCEPT ![fresh] = "PROCESSING"]
    /\ pc' = "insert"
    /\ UNCHANGED <<registered, cur, fresh, processes, class, sending, cq, bound, client>>

\* Mutant: the process is not inserted in processes_.
InsertForgotten ==
    /\ pc = "insert"
    /\ fresh' = NoProc
    /\ pc' = IF cur = NoProc THEN "enable" ELSE "handle"
    /\ UNCHANGED <<registered, cur, objects, core, client>>

\* registerProcess, second half; then enable or executeProcess goes on.
InsertProcess ==
    /\ pc = "insert"
    /\ processes' = [processes EXCEPT ![ServiceOf(fresh)] = @ \cup {fresh}]
    /\ fresh' = NoProc
    /\ pc' = IF cur = NoProc THEN "enable" ELSE "handle"
    /\ UNCHANGED <<registered, cur, class, state, core, client>>

\* completionQueue_->Next: the tag says which process, not which operation is done.
Poll ==
    /\ pc = "next"
    /\ \E e \in cq :
          /\ cq' = cq \ {e}
          /\ cur' = e[1]
    /\ pc' = "execute"
    /\ UNCHANGED <<registered, fresh, objects, slots, sending, bound, client>>

Registered(p) == p \in Alive /\ p \in processes[ServiceOf(p)]

\* Mutant: a process is executed without being replaced.
ExecuteWithoutDuplicate ==
    /\ pc = "execute"
    /\ state[cur] # "FINISHED"
    /\ pc' = "handle"
    /\ UNCHANGED <<registered, cur, fresh, objects, core, client>>

\* Any process that has not finished is replaced by a duplicate and then executed.
ExecuteWaiting ==
    /\ pc = "execute"
    /\ state[cur] # "FINISHED"
    /\ Create(ClassOf(cur).duplicates)
    /\ UNCHANGED <<registered, cur, processes, core, client>>

\* Mutant: a finished process stays registered.
ExecuteWithoutErase ==
    /\ pc = "execute"
    /\ state[cur] = "FINISHED"
    /\ cur' = NoProc
    /\ pc' = "next"
    /\ UNCHANGED <<registered, fresh, objects, core, client>>

\* A finished process is erased, and destroyed with its last reference.
ExecuteFinished ==
    /\ pc = "execute"
    /\ state[cur] = "FINISHED"
    /\ processes' = [processes EXCEPT ![ServiceOf(cur)] = @ \ {cur}]
    /\ class' = [class EXCEPT ![cur] = NoClass]
    /\ bound' = [bound EXCEPT ![cur] = NoCall]
    /\ cur' = NoProc
    /\ pc' = "next"
    /\ UNCHANGED <<registered, fresh, state, slots, sending, cq, client>>

\* executeProcess of the server and of the service: a tag that is not registered is
\* deleted although a shared_ptr may own it.
ExecuteProcess ==
    IF pc = "execute" /\ ~Registered(cur)
    THEN /\ pc' = "undefined"
         /\ UNCHANGED <<registered, cur, fresh, objects, core, client>>
    ELSE ExecuteWaiting \/ ExecuteFinished

\* The handler of the process runs for the call its context is bound to.
RunHandler == handlers' = [handlers EXCEPT ![bound[cur]] = Append(@, ClassOf(cur).executes)]

\* Mutant: the reply is sent before the handler fills it in.
HandleAndReply ==
    /\ pc = "handle"
    /\ RunHandler
    /\ sending' = sending \cup {cur}
    /\ pc' = "handling"
    /\ UNCHANGED <<registered, cur, fresh, objects, slots, cq, bound, wish, status>>

\* execute: the service's handler, which runs in this thread and touches nothing of the
\* loop, is entered ...
Handle ==
    /\ pc = "handle"
    /\ RunHandler
    /\ pc' = "handling"
    /\ UNCHANGED <<registered, cur, fresh, objects, core, wish, status>>

\* ... and returns; ...
HandlerReturns ==
    /\ pc = "handling"
    /\ pc' = "finish"
    /\ UNCHANGED <<registered, cur, fresh, objects, core, client>>

\* ... writer_.Finish, ...
FinishReply ==
    /\ pc = "finish"
    /\ sending' = sending \cup {cur}
    /\ pc' = "mark"
    /\ UNCHANGED <<registered, cur, fresh, objects, slots, cq, bound, client>>

\* Mutant: state_ is not set.
MarkForgotten ==
    /\ pc = "mark"
    /\ cur' = NoProc
    /\ pc' = "next"
    /\ UNCHANGED <<registered, fresh, objects, core, client>>

\* Mutant: the process is erased as soon as it has executed.
MarkAndErase ==
    /\ pc = "mark"
    /\ processes' = [processes EXCEPT ![ServiceOf(cur)] = @ \ {cur}]
    /\ class' = [class EXCEPT ![cur] = NoClass]
    /\ bound' = [bound EXCEPT ![cur] = NoCall]
    /\ cur' = NoProc
    /\ pc' = "next"
    /\ UNCHANGED <<registered, fresh, state, slots, sending, cq, client>>

\* ... and only then state_ = FINISHED.
MarkFinished ==
    /\ pc = "mark"
    /\ state' = [state EXCEPT ![cur] = "FINISHED"]
    /\ cur' = NoProc
    /\ pc' = "next"
    /\ UNCHANGED <<registered, fresh, processes, class, core, client>>

(* ----- the end of the server ----- *)

\* Calls that nobody will answer any more.
Lost(these) == [c \in Calls |-> IF status[c] \in these THEN "lost" ELSE status[c]]

\* An exception leaves the handler, execute() and run(), and ~Server calls
\* server_->Shutdown(): the port is closed, calls that no process has accepted are
\* refused, and the Requests come back unsuccessful.
Throw ==
    /\ pc = "handling"
    /\ pc' = "shutdown"
    /\ status' = Lost({"pending"})
    /\ cq' = cq \cup {<<p, "call", "failed">> : p \in slots}
    /\ slots' = {}
    /\ UNCHANGED <<registered, cur, fresh, objects, sending, bound, wish, handlers>>

\* Shutdown has no deadline: it returns when no accepted call is left, ...
ShutdownReturns ==
    /\ pc = "shutdown"
    /\ sending = {}
    /\ \A c \in Calls : status[c] # "accepted"
    /\ pc' = "drain"
    /\ UNCHANGED <<registered, cur, fresh, objects, core, client>>

\* Mutant: tags are not ignored while the queue is being emptied.
DrainAndExecute ==
    /\ pc = "drain"
    /\ \E e \in cq :
          /\ cq' = cq \ {e}
          /\ cur' = e[1]
    /\ pc' = "execute"
    /\ UNCHANGED <<registered, fresh, objects, slots, sending, bound, client>>

\* ... and then the queue is shut down and emptied, and its tags are ignored.
Drain ==
    /\ pc = "drain"
    /\ \E e \in cq : cq' = cq \ {e}
    /\ UNCHANGED <<thread, objects, slots, sending, bound, client>>

\* The server's process ends, and its objects and queue with it.
End ==
    /\ pc' = "down"
    /\ registered' = 0
    /\ cur' = NoProc /\ fresh' = NoProc
    /\ processes' = [s \in Services |-> {}]
    /\ class' = [p \in Procs |-> NoClass]
    /\ state' = [p \in Procs |-> "PROCESSING"]
    /\ slots' = {} /\ sending' = {} /\ cq' = {}
    /\ bound' = [p \in Procs |-> NoCall]
    /\ status' = Lost({"pending", "accepted"})
    /\ UNCHANGED <<wish, handlers>>

\* Mutant: the completion queue is not shut down, and Next waits for another entry.
ExitWithoutQueueShutdown == FALSE /\ End

\* ~Server's end: Next returns false on the empty queue, the members are destroyed, and
\* main catches the exception and returns.
Exit == pc = "drain" /\ cq = {} /\ End

\* `docker stop` kills the server.
Crash == pc # "down" /\ End

(* ----- gRPC's core and the clients ----- *)

\* A call reaches the open port; gRPC keeps it until a process asks for it.
Send(c) ==
    /\ status[c] = "unsent"
    /\ pc \notin {"down", "shutdown", "drain"}
    /\ status' = [status EXCEPT ![c] = "pending"]
    /\ UNCHANGED <<thread, objects, core, wish, handlers>>

\* A pending call completes a Request for its method.
Accept(c, p) ==
    /\ status[c] = "pending"
    /\ p \in slots
    /\ ClassOf(p).requests = wish[c]
    /\ slots' = slots \ {p}
    /\ bound' = [bound EXCEPT ![p] = c]
    /\ cq' = cq \cup {<<p, "call", "ok">>}
    /\ status' = [status EXCEPT ![c] = "accepted"]
    /\ UNCHANGED <<thread, objects, sending, wish, handlers>>

\* A Finish completes: a client that is still there has its answer, and the operation
\* has failed if the client is gone.
Reply(p) ==
    /\ p \in sending
    /\ sending' = sending \ {p}
    /\ cq' = cq \cup {<<p, "reply", IF status[bound[p]] = "accepted" THEN "ok" ELSE "failed">>}
    /\ status' = [status EXCEPT ![bound[p]] = IF @ = "accepted" THEN "answered" ELSE @]
    /\ UNCHANGED <<thread, objects, slots, bound, wish, handlers>>

\* The client gives up: a pending call is dropped, an accepted one runs on.
Cancel(c) ==
    /\ status[c] \in {"pending", "accepted"}
    /\ status' = [status EXCEPT ![c] = "cancelled"]
    /\ UNCHANGED <<thread, objects, core, wish, handlers>>

-----------------------------------------------------------------------------

Thread ==
    \/ Enable \/ Enabled \/ InitProcess \/ InsertProcess
    \/ Poll \/ ExecuteProcess
    \/ Handle \/ HandlerReturns \/ FinishReply \/ MarkFinished
    \/ ShutdownReturns \/ Drain \/ Exit

Core ==
    \/ \E c \in Calls, p \in Procs : Accept(c, p)
    \/ \E p \in Procs : Reply(p)

Next ==
    \/ Start
    \/ Thread
    \/ Throw
    \/ Core
    \/ \E c \in Calls : Send(c) \/ Cancel(c)
    \/ Crash

Spec == Init /\ [][Next]_vars

\* The thread does not rest while it has work, and gRPC delivers what it accepted.
\* Nobody has to start a killed server again.
FairSpec == Spec /\ WF_vars(Thread) /\ WF_vars(Core)

-----------------------------------------------------------------------------
(* Properties *)

\* In particular the thread never runs into undefined behaviour (Server.cpp, 88, 95).
TypeOK ==
    /\ pc \in {"down", "enable", "init", "insert", "next", "execute", "handle", "handling",
               "finish", "mark", "shutdown", "drain"}
    /\ registered \in 0..Len(Registration)
    /\ cur \in Procs \cup {NoProc}
    /\ fresh \in Procs \cup {NoProc}
    /\ processes \in [Services -> SUBSET Procs]
    /\ class \in [Procs -> ClassNames \cup {NoClass}]
    /\ state \in [Procs -> {"PROCESSING", "FINISHED"}]
    /\ slots \subseteq Procs
    /\ sending \subseteq Procs
    /\ cq \subseteq Procs \X {"call", "reply"} \X {"ok", "failed"}
    /\ bound \in [Procs -> Calls \cup {NoCall}]
    /\ wish \in [Calls -> Methods]
    /\ status \in [Calls -> {"unsent", "pending", "accepted", "answered", "cancelled", "lost"}]
    /\ handlers \in [Calls -> Seq(Methods)]

\* A process of class k that waits for a call, or whose call is in the queue.
Listens(p, k) == class[p] = k /\ (p \in slots \/ <<p, "call", "ok">> \in cq)

\* Whenever the thread goes to the queue, each method has exactly one process that
\* waits for its next call: duplicating before executing (lines 30-32) never leaves
\* a method deaf, and replies never pile listeners up.
OneListener ==
    pc = "next" => \A k \in ClassNames :
        /\ \E p \in Procs : Listens(p, k)
        /\ \A p, q \in Procs : Listens(p, k) /\ Listens(q, k) => p = q

\* gRPC never holds a tag whose object is gone, and holds each tag for one
\* operation only: an object is destroyed after its last operation completed, even
\* though its address is used again (BaseService.cpp, line 26), and ~Server destroys
\* the services only when the queue is empty (Server.cpp, line 40).
TagsAlive ==
    /\ Tags \subseteq Alive
    /\ slots \cap sending = {}
    /\ \A e \in cq : e[1] \notin slots \cup sending
    /\ \A e, f \in cq : e[1] = f[1] => e = f

\* Whenever the thread goes to the queue, the registered processes are those gRPC
\* holds: none is leaked in processes_, and no tag will miss (Server.cpp, line 95).
RegisteredAreHeld ==
    pc = "next" => Tags = UNION {processes[s] : s \in Services}

\* The tag in the queue does not say which operation completed; state_ does, although
\* it is set after Finish was called and gRPC may complete that at once.  That run()
\* does not read isOk does no harm: it never meets a Request that failed, and a reply
\* that failed is done with all the same (Server.cpp, line 51).
StateTellsOperation ==
    pc = "next" => \A e \in cq :
        IF e[2] = "reply" THEN state[e[1]] = "FINISHED" ELSE e[3] = "ok" /\ state[e[1]] = "PROCESSING"

\* A call is handled at most once, by the handler of its own method and no other, and
\* before it is answered.
HandledOnce ==
    \A c \in Calls :
        /\ handlers[c] = <<>> \/ handlers[c] = <<wish[c]>>
        /\ status[c] = "answered" => handlers[c] # <<>>

\* Every call a client makes is answered, unless the client cancels it, the server is
\* killed or a handler has thrown.
CallsEnd ==
    \A c \in Calls :
        status[c] \in {"pending", "accepted"}
            ~> status[c] \in {"answered", "cancelled", "lost"} \/ pc = "shutdown"

\* ~Server comes to an end unless a client waits for ever for a call that was accepted
\* and that nobody is left to answer: Shutdown has no deadline (Server.cpp, line 35).
DestructorEnds ==
    <>[](pc \in {"shutdown", "drain"}) => <>[](\E c \in Calls : status[c] = "accepted")

\* The call of the process that was taken off the queue to be executed, from then
\* until its handler has returned.
Serving ==
    IF cur # NoProc /\ pc \in {"execute", "init", "insert", "handle", "handling", "shutdown", "drain"}
          /\ state[cur] = "PROCESSING"
    THEN bound[cur] ELSE NoCall

\* The call that a process waiting in the queue has for its method.
SeatOf(m) ==
    LET waiting == {e[1] : e \in {f \in cq : f[2] = "call" /\ f[3] = "ok"}}
    IN  IF pc \notin {"shutdown", "drain"} /\ \E p \in waiting : ClassOf(p).requests = m
        THEN bound[CHOOSE p \in waiting : ClassOf(p).requests = m]
        ELSE NoCall

\* The calls whose handler was entered.
Handled == {c \in Calls : handlers[c] # <<>>}

\* Whether there is a server process, and whether its loop still runs.
Up == CASE pc = "down" -> "down"
        [] pc \in {"shutdown", "drain"} -> "closing"
        [] OTHER -> "up"

Rpc == INSTANCE RpcService WITH
    up <- Up, seat <- [m \in Methods |-> SeatOf(m)], serving <- Serving, handled <- Handled

\* The loop serves the calls as RpcService says: one at a time, each once, those of a
\* method in turn, and answers come after handlers, whatever the queue's order and
\* wherever addresses are used again.
ImplementsRpc == Rpc!Spec

=============================================================================
