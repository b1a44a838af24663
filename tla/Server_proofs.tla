--------------------------- MODULE Server_proofs ---------------------------
(***************************************************************************)
(* Proofs about module Server: its safety invariants for any number of     *)
(* addresses and calls, from one inductive invariant that says for every   *)
(* position of the thread which process plays which part; and that it      *)
(* implements RpcService.                                                  *)
(***************************************************************************)
EXTENDS Server, SequenceTheorems, TLAPS

\* The thread is at a process whose operation is completed; nobody else knows the
\* process by then.
Working == {"execute", "init", "insert", "handle", "handling", "finish"}
Closing == {"shutdown", "drain"}

\* Which position of the thread has a process in hand, and which a new one.
ControlInv ==
    /\ pc \in {"down", "enable", "next"} => cur = NoProc
    /\ pc \in {"execute", "handle", "handling", "finish", "mark", "shutdown", "drain"} => cur # NoProc
    /\ (fresh # NoProc) = (pc \in {"init", "insert"})
    /\ cur # NoProc => cur \in Alive /\ fresh # cur
    /\ fresh # NoProc => fresh \in Alive
    /\ pc = "down" => Alive = {}

\* gRPC holds the tags of living objects, each for one operation.
HeldInv ==
    /\ \A p \in Procs : p \in slots \/ p \in sending => p \in Alive
    /\ \A e \in cq : e[1] \in Alive
    /\ \A p \in slots : p \notin sending
    /\ \A e \in cq : e[1] \notin slots /\ e[1] \notin sending
    /\ \A e, f \in cq : e[1] = f[1] => e = f

\* gRPC has the address of p, in one of three ways.
InQueue(p) == \E e \in cq : e[1] = p
Held(p)    == p \in slots \/ p \in sending \/ InQueue(p)

\* An object is held by gRPC, or the thread has it in hand.
OwnedInv ==
    /\ cur # NoProc /\ pc # "mark" => ~Held(cur)
    /\ cur # NoProc /\ pc = "mark" =>
          /\ cur \in sending \/ InQueue(cur)
          /\ \A e \in cq : e[1] = cur => e[2] = "reply"
    /\ pc = "init" => ~Held(fresh)
    /\ pc = "insert" => Held(fresh)
    /\ pc \notin Closing => \A p \in Alive : Held(p) \/ p = cur \/ p = fresh

\* The registered processes are the living ones, except for one that is being registered.
RegisteredInv ==
    \A s \in Services, p \in Procs :
        p \in processes[s] <=> p \in Alive /\ p # fresh /\ ServiceOf(p) = s

\* state_ tells whether a process is waiting for its call or for its reply to be sent.
StateInv ==
    /\ \A p \in slots : state[p] = "PROCESSING"
    /\ \A e \in cq : e[2] = "call" => state[e[1]] = "PROCESSING"
    /\ \A p \in sending : state[p] = "FINISHED" \/ (pc = "mark" /\ p = cur)
    /\ \A e \in cq : e[2] = "reply" => state[e[1]] = "FINISHED" \/ (pc = "mark" /\ e[1] = cur)
    /\ cur # NoProc /\ pc # "execute" => state[cur] = "PROCESSING"
    /\ \A e \in cq : e[2] = "call" /\ pc \notin Closing => e[3] = "ok"

\* The classes that have no listener at the moment.
Deaf(k) ==
    \/ pc = "execute" /\ state[cur] = "PROCESSING" /\ k = class[cur]
    \/ pc = "init" /\ k = class[fresh]
    \/ pc \in {"enable", "init", "insert"} /\ cur = NoProc
          /\ \A i \in 1..registered : Registration[i] # k

ListenInv ==
    pc \notin Closing \cup {"down"} => \A k \in ClassNames :
        /\ ~Deaf(k) => \E p \in Procs : Listens(p, k)
        /\ Deaf(k) => \A p \in Procs : ~Listens(p, k)
        /\ \A p, q \in Procs : Listens(p, k) /\ Listens(q, k) => p = q

\* What is being made is of the class that is missing.
FreshInv ==
    /\ fresh # NoProc /\ cur # NoProc => class[fresh] = class[cur]
    /\ fresh # NoProc /\ cur = NoProc => registered > 0 /\ class[fresh] = Registration[registered]

\* Process p has a call, of the method it listens for.
HasCall(p) == bound[p] \in Calls /\ ClassOf(p).requests = wish[bound[p]]

\* Whose call is whose: a call that no process has accepted has had no handler, and
\* two processes never have one call.
BoundInv ==
    /\ \A p \in Procs : p \notin Alive \/ p \in slots \/ (p = fresh /\ pc = "init") => bound[p] = NoCall
    /\ \A p, q \in Procs : bound[p] = bound[q] /\ bound[p] # NoCall => p = q
    /\ \A c \in Calls : status[c] \in {"unsent", "pending"} =>
          handlers[c] = <<>> /\ \A p \in Procs : bound[p] # c

CallInv ==
    /\ \A e \in cq : e[2] = "call" /\ e[3] = "ok" => HasCall(e[1]) /\ handlers[bound[e[1]]] = <<>>
    /\ cur # NoProc /\ state[cur] = "PROCESSING" => HasCall(cur)
    /\ cur # NoProc /\ state[cur] = "PROCESSING" /\ pc \in {"execute", "init", "insert", "handle"} =>
          handlers[bound[cur]] = <<>>
    /\ cur # NoProc /\ pc \in {"handling", "finish", "mark"} => handlers[bound[cur]] # <<>>
    /\ \A p \in sending : bound[p] \in Calls /\ handlers[bound[p]] # <<>>

IInv ==
    /\ TypeOK
    /\ ControlInv
    /\ HeldInv
    /\ OwnedInv
    /\ RegisteredInv
    /\ StateInv
    /\ ListenInv
    /\ FreshInv
    /\ BoundInv
    /\ CallInv
    /\ HandledOnce

-----------------------------------------------------------------------------
(* The process classes and the order of their registration *)

\* Each class makes Requests for the method whose handler it runs, and duplicates
\* itself.
LEMMA ClassFacts ==
    \A k \in ClassNames :
        /\ Classes[k].service \in Services
        /\ Classes[k].requests \in Methods
        /\ Classes[k].executes = Classes[k].requests
        /\ Classes[k].duplicates = k
BY DEF ClassNames, Classes, Services, Methods, ProcessClass, ListMemosProcess, AddMemoProcess,
       RemoveMemoProcess, UpdateMemoProcess, ListTagsProcess, AddTagProcess,
       UpdateTagProcess, RemoveTagProcess

\* enable() creates one process of each class.
LEMMA RegistrationFacts ==
    /\ Len(Registration) = 8
    /\ \A i \in 1..8 : Registration[i] \in ClassNames
    /\ \A k \in ClassNames : \E i \in 1..8 : Registration[i] = k
    /\ \A i, j \in 1..8 : Registration[i] = Registration[j] => i = j
<1> DEFINE M == MemoServiceProcesses
           T == TagServiceProcesses
<1>1. M \in Seq(ClassNames) /\ T \in Seq(ClassNames)
  <2>1. DOMAIN M = 1..4 /\ DOMAIN T = 1..4
    BY DEF MemoServiceProcesses, TagServiceProcesses
  <2>2. \A i \in 1..4 : M[i] \in ClassNames /\ T[i] \in ClassNames
    BY 1..4 = {1, 2, 3, 4} DEF MemoServiceProcesses, TagServiceProcesses, ClassNames
  <2>3. M = [i \in 1..4 |-> M[i]] /\ T = [i \in 1..4 |-> T[i]]
    BY <2>1 DEF MemoServiceProcesses, TagServiceProcesses
  <2> HIDE DEF M, T
  <2> QED
    BY <2>2, <2>3, 4 \in Nat, SeqDef
<1>2. Len(M) = 4 /\ Len(T) = 4
  BY DEF MemoServiceProcesses, TagServiceProcesses
<1>3. /\ M[1] = "ListMemosProcess" /\ M[2] = "AddMemoProcess"
      /\ M[3] = "RemoveMemoProcess" /\ M[4] = "UpdateMemoProcess"
      /\ T[1] = "ListTagsProcess" /\ T[2] = "AddTagProcess"
      /\ T[3] = "UpdateTagProcess" /\ T[4] = "RemoveTagProcess"
  BY DEF MemoServiceProcesses, TagServiceProcesses
<1> HIDE DEF M, T
<1>4. /\ Len(M \o T) = Len(M) + Len(T)
      /\ \A i \in 1..Len(M) + Len(T) :
            (M \o T)[i] = IF i =< Len(M) THEN M[i] ELSE T[i - Len(M)]
  BY <1>1, ConcatProperties
<1>5. Len(M) + Len(T) = 8
  BY <1>2
<1>6. /\ Len(M \o T) = 8
      /\ \A i \in 1..8 : (M \o T)[i] = IF i =< 4 THEN M[i] ELSE T[i - 4]
  BY <1>2, <1>4, <1>5
<1>7. Registration = M \o T
  BY DEF Registration, M, T
<1>8. /\ Registration[1] = "ListMemosProcess" /\ Registration[2] = "AddMemoProcess"
      /\ Registration[3] = "RemoveMemoProcess" /\ Registration[4] = "UpdateMemoProcess"
      /\ Registration[5] = "ListTagsProcess" /\ Registration[6] = "AddTagProcess"
      /\ Registration[7] = "UpdateTagProcess" /\ Registration[8] = "RemoveTagProcess"
  BY <1>3, <1>6, <1>7, SMTT(40)
<1>9. 1..8 = {1, 2, 3, 4, 5, 6, 7, 8}
  OBVIOUS
<1>10. Len(Registration) = 8
  BY <1>6, <1>7
<1> HIDE DEF Registration
<1>11. \A i \in {1, 2, 3, 4, 5, 6, 7, 8} : Registration[i] \in ClassNames
  BY <1>8 DEF ClassNames
<1>12. \A k \in ClassNames : \E i \in {1, 2, 3, 4, 5, 6, 7, 8} : Registration[i] = k
  BY <1>8 DEF ClassNames
<1>13. \A i, j \in {1, 2, 3, 4, 5, 6, 7, 8} : Registration[i] = Registration[j] => i = j
  BY <1>8
<1> QED
  BY <1>9, <1>10, <1>11, <1>12, <1>13

\* A step that changes neither who listens nor who is deaf keeps the listeners.
LEMMA ListenSame ==
    /\ ListenInv
    /\ pc \notin Closing \cup {"down"}
    /\ \A k \in ClassNames : Deaf(k)' <=> Deaf(k)
    /\ \A k \in ClassNames, p \in Procs : Listens(p, k)' <=> Listens(p, k)
    => ListenInv'
BY DEF ListenInv

-----------------------------------------------------------------------------
(* The invariant holds *)

\* The steps of the server, with the two ways in which its process ends as one, and
\* without the deletion of an unregistered process, which never happens.
Moves ==
    \/ Start
    \/ Enable
    \/ Enabled
    \/ InitProcess
    \/ InsertProcess
    \/ Poll
    \/ ExecuteWaiting
    \/ ExecuteFinished
    \/ Handle
    \/ HandlerReturns
    \/ FinishReply
    \/ MarkFinished
    \/ Throw
    \/ ShutdownReturns
    \/ Drain
    \/ pc # "down" /\ End
    \/ \E c \in Calls, p \in Procs : Accept(c, p)
    \/ \E p \in Procs : Reply(p)
    \/ \E c \in Calls : Send(c)
    \/ \E c \in Calls : Cancel(c)
    \/ UNCHANGED vars

LEMMA TypeStays == IInv /\ Moves => TypeOK'
<1> SUFFICES ASSUME IInv, Moves PROVE TypeOK'
  OBVIOUS
<1> USE ServerAssumption DEF IInv, thread, objects, core, client
<1>1. CASE Start
  BY <1>1 DEF Start, TypeOK, ControlInv, CallInv, HasCall
<1>2. CASE Enable
  <2>1. registered + 1 \in 1..8 /\ registered' \in 0..Len(Registration)
    BY <1>2, RegistrationFacts DEF Enable, TypeOK
  <2>2. Registration[registered + 1] \in ClassNames
    BY <2>1, RegistrationFacts
  <2> QED
    BY <1>2, <2>1, <2>2 DEF Enable, Create, TypeOK
<1>3. CASE Enabled
  BY <1>3 DEF Enabled, TypeOK, ControlInv, CallInv, HasCall
<1>4. CASE InitProcess
  BY <1>4 DEF InitProcess, TypeOK, ControlInv, CallInv, HasCall
<1>5. CASE InsertProcess
  BY <1>5 DEF InsertProcess, TypeOK, ControlInv, CallInv, HasCall
<1>6. CASE Poll
  BY <1>6 DEF Poll, TypeOK, ControlInv, CallInv, HasCall
<1>7. CASE ExecuteWaiting
  <2>1. ClassOf(cur).duplicates \in ClassNames
    BY <1>7, ClassFacts DEF ExecuteWaiting, TypeOK, ControlInv, ClassOf, Alive
  <2> QED
    BY <1>7, <2>1 DEF ExecuteWaiting, Create, TypeOK
<1>8. CASE ExecuteFinished
  BY <1>8 DEF ExecuteFinished, TypeOK, ControlInv, CallInv, HasCall
<1>9. CASE Handle
  <2>1. cur \in Alive /\ bound[cur] \in Calls
    BY <1>9 DEF Handle, TypeOK, ControlInv, StateInv, CallInv, HasCall
  <2>2. ClassOf(cur).executes \in Methods
    BY <2>1, ClassFacts, SMTT(30) DEF TypeOK, ClassOf, Alive
  <2>3. handlers' \in [Calls -> Seq(Methods)]
    BY <1>9, <2>1, <2>2 DEF Handle, RunHandler, TypeOK
  <2> QED
    BY <1>9, <2>3 DEF Handle, TypeOK
<1>10. CASE HandlerReturns
  BY <1>10 DEF HandlerReturns, TypeOK, ControlInv, CallInv, HasCall
<1>11. CASE FinishReply
  BY <1>11 DEF FinishReply, TypeOK, ControlInv, CallInv, HasCall
<1>12. CASE MarkFinished
  BY <1>12 DEF MarkFinished, TypeOK, ControlInv, CallInv, HasCall
<1>13. CASE Throw
  <2>1. cq' \subseteq Procs \X {"call", "reply"} \X {"ok", "failed"}
    <3>1. \A p \in slots : <<p, "call", "failed">> \in Procs \X {"call", "reply"} \X {"ok", "failed"}
      BY DEF TypeOK
    <3> QED
      BY <1>13, <3>1 DEF Throw, TypeOK
  <2>2. status' \in [Calls -> {"unsent", "pending", "accepted", "answered", "cancelled", "lost"}]
    BY <1>13 DEF Throw, Lost, TypeOK
  <2> QED
    BY <1>13, <2>1, <2>2 DEF Throw, TypeOK
<1>14. CASE ShutdownReturns
  BY <1>14 DEF ShutdownReturns, TypeOK, ControlInv, CallInv, HasCall
<1>15. CASE Drain
  BY <1>15 DEF Drain, TypeOK, ControlInv, CallInv, HasCall
<1>16. CASE End
  BY <1>16 DEF End, Lost, TypeOK, ControlInv, CallInv, HasCall
<1>17. ASSUME NEW c \in Calls, NEW p \in Procs, Accept(c, p) PROVE TypeOK'
  <2>1. <<p, "call", "ok">> \in Procs \X {"call", "reply"} \X {"ok", "failed"}
    OBVIOUS
  <2>2. cq' \subseteq Procs \X {"call", "reply"} \X {"ok", "failed"}
    BY <1>17, <2>1 DEF Accept, TypeOK
  <2>3. bound' \in [Procs -> Calls \cup {NoCall}]
    BY <1>17 DEF Accept, TypeOK
  <2>4. status' \in [Calls -> {"unsent", "pending", "accepted", "answered", "cancelled", "lost"}]
    BY <1>17 DEF Accept, TypeOK
  <2> QED
    BY <1>17, <2>2, <2>3, <2>4 DEF Accept, TypeOK
<1>18. ASSUME NEW p \in Procs, Reply(p) PROVE TypeOK'
  <2>1. <<p, "reply", IF status[bound[p]] = "accepted" THEN "ok" ELSE "failed">> \in Procs \X {"call", "reply"} \X {"ok", "failed"}
    OBVIOUS
  <2>2. cq' \subseteq Procs \X {"call", "reply"} \X {"ok", "failed"}
    BY <1>18, <2>1 DEF Reply, TypeOK
  <2>3. bound[p] \in Calls
    BY <1>18 DEF Reply, CallInv
  <2>4. status' \in [Calls -> {"unsent", "pending", "accepted", "answered", "cancelled", "lost"}]
    BY <1>18, <2>3 DEF Reply, TypeOK
  <2> QED
    BY <1>18, <2>2, <2>4 DEF Reply, TypeOK
<1>19. ASSUME NEW c \in Calls, Send(c) PROVE TypeOK'
  BY <1>19 DEF Send, TypeOK, ControlInv, CallInv, HasCall
<1>20. ASSUME NEW c \in Calls, Cancel(c) PROVE TypeOK'
  BY <1>20 DEF Cancel, TypeOK, ControlInv, CallInv, HasCall
<1>21. CASE UNCHANGED vars
  BY <1>21 DEF vars, TypeOK, ControlInv, CallInv, HasCall
<1> QED
  BY <1>1, <1>2, <1>3, <1>4, <1>5, <1>6, <1>7, <1>8, <1>9, <1>10, <1>11, <1>12, <1>13, <1>14,
     <1>15, <1>16, <1>17, <1>18, <1>19, <1>20, <1>21
     DEF Moves

LEMMA ControlStays == IInv /\ Moves => ControlInv'
<1> SUFFICES ASSUME IInv, Moves PROVE ControlInv'
  OBVIOUS
<1> USE ServerAssumption DEF IInv, thread, objects, core, client
<1>1. CASE Start
  BY <1>1 DEF Start, TypeOK, ControlInv, OwnedInv, HeldInv, StateInv, Alive, Held, InQueue, Closing
<1>2. CASE Enable
  <2>1. Registration[registered + 1] \in ClassNames
    BY <1>2, RegistrationFacts DEF Enable, TypeOK
  <2> QED
    BY <1>2, <2>1 DEF Enable, Create, TypeOK, ControlInv, Alive
<1>3. CASE Enabled
  BY <1>3
     DEF Enabled, TypeOK, ControlInv, OwnedInv, HeldInv, StateInv, Alive, Held, InQueue, Closing
<1>4. CASE InitProcess
  BY <1>4 DEF InitProcess, TypeOK, ControlInv, OwnedInv, HeldInv, StateInv, Alive, Held, InQueue,
     Closing
<1>5. CASE InsertProcess
  BY <1>5
     DEF InsertProcess, TypeOK, ControlInv, OwnedInv, HeldInv, StateInv, Alive, Held, InQueue,
         Closing
<1>6. CASE Poll
  BY <1>6 DEF Poll, TypeOK, ControlInv, OwnedInv, HeldInv, StateInv, Alive, Held, InQueue, Closing
<1>7. CASE ExecuteWaiting
  <2>1. ClassOf(cur).duplicates \in ClassNames
    BY <1>7, ClassFacts DEF ExecuteWaiting, TypeOK, ControlInv, ClassOf, Alive
  <2> QED
    BY <1>7, <2>1 DEF ExecuteWaiting, Create, TypeOK, ControlInv, Alive
<1>8. CASE ExecuteFinished
  BY <1>8
     DEF ExecuteFinished, TypeOK, ControlInv, OwnedInv, HeldInv, StateInv, Alive, Held, InQueue,
         Closing
<1>9. CASE Handle
  BY <1>9 DEF Handle, RunHandler, TypeOK, ControlInv, OwnedInv, HeldInv, StateInv, Alive, Held,
     InQueue, Closing
<1>10. CASE HandlerReturns
  BY <1>10
     DEF HandlerReturns, TypeOK, ControlInv, OwnedInv, HeldInv, StateInv, Alive, Held, InQueue,
         Closing
<1>11. CASE FinishReply
  BY <1>11 DEF FinishReply, TypeOK, ControlInv, OwnedInv, HeldInv, StateInv, Alive, Held, InQueue,
     Closing
<1>12. CASE MarkFinished
  BY <1>12
     DEF MarkFinished, TypeOK, ControlInv, OwnedInv, HeldInv, StateInv, Alive, Held, InQueue,
         Closing
<1>13. CASE Throw
  BY <1>13 DEF Throw, Lost, TypeOK, ControlInv, OwnedInv, HeldInv, StateInv, Alive, Held, InQueue,
     Closing
<1>14. CASE ShutdownReturns
  BY <1>14
     DEF ShutdownReturns, TypeOK, ControlInv, OwnedInv, HeldInv, StateInv, Alive, Held, InQueue,
         Closing
<1>15. CASE Drain
  BY <1>15 DEF Drain, TypeOK, ControlInv, OwnedInv, HeldInv, StateInv, Alive, Held, InQueue, Closing
<1>16. CASE End
  BY <1>16
     DEF End, Lost, TypeOK, ControlInv, OwnedInv, HeldInv, StateInv, Alive, Held, InQueue, Closing
<1>17. ASSUME NEW c \in Calls, NEW p \in Procs, Accept(c, p) PROVE ControlInv'
  BY <1>17
     DEF Accept, TypeOK, ControlInv, OwnedInv, HeldInv, StateInv, Alive, Held, InQueue, Closing
<1>18. ASSUME NEW p \in Procs, Reply(p) PROVE ControlInv'
  BY <1>18 DEF Reply, TypeOK, ControlInv, OwnedInv, HeldInv, StateInv, Alive, Held, InQueue, Closing
<1>19. ASSUME NEW c \in Calls, Send(c) PROVE ControlInv'
  BY <1>19 DEF Send, TypeOK, ControlInv, OwnedInv, HeldInv, StateInv, Alive, Held, InQueue, Closing
<1>20. ASSUME NEW c \in Calls, Cancel(c) PROVE ControlInv'
  BY <1>20
     DEF Cancel, TypeOK, ControlInv, OwnedInv, HeldInv, StateInv, Alive, Held, InQueue, Closing
<1>21. CASE UNCHANGED vars
  BY <1>21 DEF vars, TypeOK, ControlInv, OwnedInv, HeldInv, StateInv, Alive, Held, InQueue, Closing
<1> QED
  BY <1>1, <1>2, <1>3, <1>4, <1>5, <1>6, <1>7, <1>8, <1>9, <1>10, <1>11, <1>12, <1>13, <1>14,
     <1>15, <1>16, <1>17, <1>18, <1>19, <1>20, <1>21
     DEF Moves

LEMMA HeldStays == IInv /\ Moves => HeldInv'
<1> SUFFICES ASSUME IInv, Moves PROVE HeldInv'
  OBVIOUS
<1> USE ServerAssumption DEF IInv, thread, objects, core, client
<1>1. CASE Start
  BY <1>1 DEF Start, TypeOK, ControlInv, OwnedInv, HeldInv, Alive, Held, InQueue
<1>2. CASE Enable
  BY <1>2 DEF Enable, Create, TypeOK, ControlInv, OwnedInv, HeldInv, Alive, Held, InQueue
<1>3. CASE Enabled
  BY <1>3 DEF Enabled, TypeOK, ControlInv, OwnedInv, HeldInv, Alive, Held, InQueue
<1>4. CASE InitProcess
  BY <1>4 DEF InitProcess, TypeOK, ControlInv, OwnedInv, HeldInv, Alive, Held, InQueue
<1>5. CASE InsertProcess
  BY <1>5 DEF InsertProcess, TypeOK, ControlInv, OwnedInv, HeldInv, Alive, Held, InQueue
<1>6. CASE Poll
  BY <1>6 DEF Poll, TypeOK, ControlInv, OwnedInv, HeldInv, Alive, Held, InQueue
<1>7. CASE ExecuteWaiting
  BY <1>7 DEF ExecuteWaiting, Create, TypeOK, ControlInv, OwnedInv, HeldInv, Alive, Held, InQueue
<1>8. CASE ExecuteFinished
  BY <1>8 DEF ExecuteFinished, TypeOK, ControlInv, OwnedInv, HeldInv, Alive, Held, InQueue
<1>9. CASE Handle
  BY <1>9 DEF Handle, RunHandler, TypeOK, ControlInv, OwnedInv, HeldInv, Alive, Held, InQueue
<1>10. CASE HandlerReturns
  BY <1>10 DEF HandlerReturns, TypeOK, ControlInv, OwnedInv, HeldInv, Alive, Held, InQueue
<1>11. CASE FinishReply
  BY <1>11 DEF FinishReply, TypeOK, ControlInv, OwnedInv, HeldInv, Alive, Held, InQueue
<1>12. CASE MarkFinished
  BY <1>12 DEF MarkFinished, TypeOK, ControlInv, OwnedInv, HeldInv, Alive, Held, InQueue
<1>13. CASE Throw
  <2>1. \A e \in cq' : e \in cq \/ (e[1] \in slots /\ e[2] = "call" /\ e = <<e[1], "call", "failed">>)
    BY <1>13 DEF Throw

  <2>2. slots' = {} /\ sending' = sending /\ class' = class
    BY <1>13 DEF Throw
  <2>3. \A e \in cq : e[1] \notin slots
    BY DEF HeldInv
  <2>4. \A p1 \in Procs : p1 \in slots' \/ p1 \in sending' => p1 \in Alive'
    BY <2>2 DEF HeldInv, Alive
  <2>5. \A e \in cq' : e[1] \in Alive'
    BY <2>1, <2>2 DEF HeldInv, Alive, TypeOK
  <2>6. \A e \in cq' : e[1] \notin slots' /\ e[1] \notin sending'
    BY <2>1, <2>2 DEF HeldInv
  <2>7. \A e, f \in cq' : e[1] = f[1] => e = f
    BY <2>1, <2>3 DEF HeldInv
  <2> QED
    BY <2>2, <2>4, <2>5, <2>6, <2>7 DEF HeldInv
<1>14. CASE ShutdownReturns
  BY <1>14 DEF ShutdownReturns, TypeOK, ControlInv, OwnedInv, HeldInv, Alive, Held, InQueue
<1>15. CASE Drain
  BY <1>15 DEF Drain, TypeOK, ControlInv, OwnedInv, HeldInv, Alive, Held, InQueue
<1>16. CASE End
  BY <1>16 DEF End, Lost, TypeOK, ControlInv, OwnedInv, HeldInv, Alive, Held, InQueue
<1>17. ASSUME NEW c \in Calls, NEW p \in Procs, Accept(c, p) PROVE HeldInv'
  <2>1. \A e \in cq' : e \in cq \/ (e[1] = p /\ e = <<p, "call", "ok">>)
    BY <1>17 DEF Accept
  <2>2. p \in slots /\ slots' = slots \ {p} /\ sending' = sending /\ class' = class
    BY <1>17 DEF Accept
  <2>3. \A e \in cq : e[1] # p
    BY <2>2 DEF HeldInv

  <2>4. \A p1 \in Procs : p1 \in slots' \/ p1 \in sending' => p1 \in Alive'
    BY <2>2 DEF HeldInv, Alive
  <2>5. \A e \in cq' : e[1] \in Alive'
    BY <2>1, <2>2 DEF HeldInv, Alive
  <2>6. \A q \in slots' : q \notin sending'
    BY <2>2 DEF HeldInv
  <2>7. \A e \in cq' : e[1] \notin slots' /\ e[1] \notin sending'
    BY <2>1, <2>2 DEF HeldInv
  <2>8. \A e, f \in cq' : e[1] = f[1] => e = f
    BY <2>1, <2>3 DEF HeldInv
  <2> QED
    BY <2>4, <2>5, <2>6, <2>7, <2>8 DEF HeldInv
<1>18. ASSUME NEW p \in Procs, Reply(p) PROVE HeldInv'
  <2>1. \A e \in cq' : e \in cq \/ (e[1] = p /\ e = <<p, "reply", IF status[bound[p]] = "accepted" THEN "ok" ELSE "failed">>)
    BY <1>18 DEF Reply
  <2>2. p \in sending /\ sending' = sending \ {p} /\ slots' = slots /\ class' = class
    BY <1>18 DEF Reply
  <2>3. \A e \in cq : e[1] # p
    BY <2>2 DEF HeldInv

  <2>4. \A p1 \in Procs : p1 \in slots' \/ p1 \in sending' => p1 \in Alive'
    BY <2>2 DEF HeldInv, Alive
  <2>5. \A e \in cq' : e[1] \in Alive'
    BY <2>1, <2>2 DEF HeldInv, Alive
  <2>6. \A q \in slots' : q \notin sending'
    BY <2>2 DEF HeldInv
  <2>7. \A e \in cq' : e[1] \notin slots' /\ e[1] \notin sending'
    BY <2>1, <2>2 DEF HeldInv
  <2>8. \A e, f \in cq' : e[1] = f[1] => e = f
    BY <2>1, <2>3 DEF HeldInv
  <2> QED
    BY <2>4, <2>5, <2>6, <2>7, <2>8 DEF HeldInv
<1>19. ASSUME NEW c \in Calls, Send(c) PROVE HeldInv'
  BY <1>19 DEF Send, TypeOK, ControlInv, OwnedInv, HeldInv, Alive, Held, InQueue
<1>20. ASSUME NEW c \in Calls, Cancel(c) PROVE HeldInv'
  BY <1>20 DEF Cancel, TypeOK, ControlInv, OwnedInv, HeldInv, Alive, Held, InQueue
<1>21. CASE UNCHANGED vars
  BY <1>21 DEF vars, TypeOK, ControlInv, OwnedInv, HeldInv, Alive, Held, InQueue
<1> QED
  BY <1>1, <1>2, <1>3, <1>4, <1>5, <1>6, <1>7, <1>8, <1>9, <1>10, <1>11, <1>12, <1>13, <1>14,
     <1>15, <1>16, <1>17, <1>18, <1>19, <1>20, <1>21
     DEF Moves

LEMMA OwnedStays == IInv /\ Moves => OwnedInv'
<1> SUFFICES ASSUME IInv, Moves PROVE OwnedInv'
  OBVIOUS
<1> USE ServerAssumption DEF IInv, thread, objects, core, client
<1>1. CASE Start
  BY <1>1 DEF Start, TypeOK, ControlInv, OwnedInv, HeldInv, StateInv, Alive, Held, InQueue, Closing
<1>2. CASE Enable
  BY <1>2
     DEF Enable, Create, TypeOK, ControlInv, OwnedInv, HeldInv, StateInv, Alive, Held, InQueue,
         Closing
<1>3. CASE Enabled
  BY <1>3
     DEF Enabled, TypeOK, ControlInv, OwnedInv, HeldInv, StateInv, Alive, Held, InQueue, Closing
<1>4. CASE InitProcess
  BY <1>4 DEF InitProcess, TypeOK, ControlInv, OwnedInv, HeldInv, StateInv, Alive, Held, InQueue,
     Closing
<1>5. CASE InsertProcess
  <2>1. pc = "insert" /\ pc' \in {"enable", "handle"} /\ cur' = cur /\ fresh' = NoProc
        /\ Alive' = Alive /\ fresh \in Procs
    BY <1>5 DEF InsertProcess, ControlInv, TypeOK, Alive
  <2>2. \A q : Held(q)' <=> Held(q)
    BY <1>5 DEF InsertProcess, Held, InQueue
  <2>3. Held(fresh)
    BY <2>1 DEF OwnedInv, ControlInv
  <2> QED
    BY <2>1, <2>2, <2>3 DEF OwnedInv, Closing
<1>6. CASE Poll
  BY <1>6 DEF Poll, TypeOK, ControlInv, OwnedInv, HeldInv, StateInv, Alive, Held, InQueue, Closing
<1>7. CASE ExecuteWaiting
  <2>1. PICK q \in Procs \ Alive : fresh' = q /\ Alive' \subseteq Alive \cup {q}
    BY <1>7 DEF ExecuteWaiting, Create, Alive, TypeOK
  <2>2. pc = "execute" /\ pc' = "init" /\ cur' = cur
    BY <1>7 DEF ExecuteWaiting, Create
  <2>3. \A p : Held(p)' <=> Held(p)
    BY <1>7 DEF ExecuteWaiting, Held, InQueue
  <2>4. ~Held(q)
    BY DEF Held, InQueue, HeldInv
  <2>5. cur # NoProc => ~Held(cur)
    BY <2>2 DEF OwnedInv
  <2>6. fresh = NoProc
    BY <2>2 DEF ControlInv
  <2>7. \A p \in Alive' : Held(p) \/ p = cur \/ p = q
    <3>1. \A p \in Alive : Held(p) \/ p = cur \/ p = fresh
      BY <2>2 DEF OwnedInv, Closing
    <3>2. NoProc \notin Alive
      BY DEF Alive
    <3> QED
      BY <2>1, <2>6, <3>1, <3>2
  <2> QED
    BY <2>1, <2>2, <2>3, <2>4, <2>5, <2>7 DEF OwnedInv
<1>8. CASE ExecuteFinished
  BY <1>8
     DEF ExecuteFinished, TypeOK, ControlInv, OwnedInv, HeldInv, StateInv, Alive, Held, InQueue,
         Closing
<1>9. CASE Handle
  BY <1>9 DEF Handle, RunHandler, TypeOK, ControlInv, OwnedInv, HeldInv, StateInv, Alive, Held,
     InQueue, Closing
<1>10. CASE HandlerReturns
  BY <1>10
     DEF HandlerReturns, TypeOK, ControlInv, OwnedInv, HeldInv, StateInv, Alive, Held, InQueue,
         Closing
<1>11. CASE FinishReply
  BY <1>11 DEF FinishReply, TypeOK, ControlInv, OwnedInv, HeldInv, StateInv, Alive, Held, InQueue,
     Closing
<1>12. CASE MarkFinished
  BY <1>12
     DEF MarkFinished, TypeOK, ControlInv, OwnedInv, HeldInv, StateInv, Alive, Held, InQueue,
         Closing
<1>13. CASE Throw
  <2>1. \A e \in cq' : e \in cq \/ (e[1] \in slots /\ e[2] = "call" /\ e[3] = "failed")
    BY <1>13 DEF Throw

  <2>2. \A q \in Procs : Held(q)' => Held(q)
    BY <1>13, <2>1 DEF Throw, Held, InQueue
  <2> QED
    BY <1>13, <2>2 DEF Throw, OwnedInv, ControlInv, Closing, TypeOK
<1>14. CASE ShutdownReturns
  BY <1>14
     DEF ShutdownReturns, TypeOK, ControlInv, OwnedInv, HeldInv, StateInv, Alive, Held, InQueue,
         Closing
<1>15. CASE Drain
  BY <1>15 DEF Drain, TypeOK, ControlInv, OwnedInv, HeldInv, StateInv, Alive, Held, InQueue, Closing
<1>16. CASE End
  BY <1>16
     DEF End, Lost, TypeOK, ControlInv, OwnedInv, HeldInv, StateInv, Alive, Held, InQueue, Closing
<1>17. ASSUME NEW c \in Calls, NEW p \in Procs, Accept(c, p) PROVE OwnedInv'
  <2>1. \A e \in cq' : e \in cq \/ (e[1] = p /\ e = <<p, "call", "ok">>)
    BY <1>17 DEF Accept
  <2>2. p \in slots /\ slots' = slots \ {p} /\ sending' = sending /\ class' = class
    BY <1>17 DEF Accept
  <2>3. \A e \in cq : e[1] # p
    BY <2>2 DEF HeldInv

  <2>4. \A q : InQueue(q)' <=> InQueue(q) \/ q = p
    <3>1. \A e \in cq : e \in cq'
      BY <1>17 DEF Accept
    <3>2. \E e \in cq' : e[1] = p
      <4>1. <<p, "call", "ok">> \in cq' /\ <<p, "call", "ok">>[1] = p
        BY <1>17 DEF Accept
      <4> QED
        BY <4>1
    <3> QED
      BY <2>1, <3>1, <3>2 DEF InQueue
  <2>5. \A q : Held(q)' <=> Held(q)
    BY <2>2, <2>4 DEF Held
  <2>6. pc = "mark" => p # cur
    BY <2>2 DEF OwnedInv, HeldInv, InQueue, ControlInv
  <2>7. pc' = pc /\ cur' = cur /\ fresh' = fresh /\ Alive' = Alive
    BY <1>17, <2>2 DEF Accept, Alive
  <2>8. cur' # NoProc /\ pc' = "mark" =>
          /\ cur' \in sending' \/ InQueue(cur)'
          /\ \A e \in cq' : e[1] = cur' => e[2] = "reply"
    BY <2>1, <2>2, <2>4, <2>6, <2>7 DEF OwnedInv
  <2> QED
    BY <2>5, <2>7, <2>8 DEF OwnedInv
<1>18. ASSUME NEW p \in Procs, Reply(p) PROVE OwnedInv'
  <2>1. \A e \in cq' : e \in cq \/ (e[1] = p /\ e = <<p, "reply", IF status[bound[p]] = "accepted" THEN "ok" ELSE "failed">>)
    BY <1>18 DEF Reply
  <2>2. p \in sending /\ sending' = sending \ {p} /\ slots' = slots /\ class' = class
    BY <1>18 DEF Reply
  <2>3. \A e \in cq : e[1] # p
    BY <2>2 DEF HeldInv

  <2>4. \A q : InQueue(q)' <=> InQueue(q) \/ q = p
    <3>1. \A e \in cq : e \in cq'
      BY <1>18 DEF Reply
    <3>2. \E e \in cq' : e[1] = p
      <4>1. \A b : <<p, "reply", b>>[1] = p
        OBVIOUS
      <4> QED
        BY <1>18, <4>1 DEF Reply
    <3> QED
      BY <2>1, <3>1, <3>2 DEF InQueue
  <2>5. \A q : Held(q)' <=> Held(q)
    BY <2>2, <2>4 DEF Held
  <2>6. pc' = pc /\ cur' = cur /\ fresh' = fresh /\ Alive' = Alive
    BY <1>18, <2>2 DEF Reply, Alive
  <2>7. cur' # NoProc /\ pc' = "mark" =>
          /\ cur' \in sending' \/ InQueue(cur)'
          /\ \A e \in cq' : e[1] = cur' => e[2] = "reply"
    BY <2>1, <2>2, <2>4, <2>6 DEF OwnedInv
  <2> QED
    BY <2>5, <2>6, <2>7 DEF OwnedInv
<1>19. ASSUME NEW c \in Calls, Send(c) PROVE OwnedInv'
  BY <1>19 DEF Send, TypeOK, ControlInv, OwnedInv, HeldInv, StateInv, Alive, Held, InQueue, Closing
<1>20. ASSUME NEW c \in Calls, Cancel(c) PROVE OwnedInv'
  BY <1>20
     DEF Cancel, TypeOK, ControlInv, OwnedInv, HeldInv, StateInv, Alive, Held, InQueue, Closing
<1>21. CASE UNCHANGED vars
  BY <1>21 DEF vars, TypeOK, ControlInv, OwnedInv, HeldInv, StateInv, Alive, Held, InQueue, Closing
<1> QED
  BY <1>1, <1>2, <1>3, <1>4, <1>5, <1>6, <1>7, <1>8, <1>9, <1>10, <1>11, <1>12, <1>13, <1>14,
     <1>15, <1>16, <1>17, <1>18, <1>19, <1>20, <1>21
     DEF Moves

LEMMA RegisteredStays == IInv /\ Moves => RegisteredInv'
<1> SUFFICES ASSUME IInv, Moves PROVE RegisteredInv'
  OBVIOUS
<1> USE ServerAssumption DEF IInv, thread, objects, core, client
<1>1. CASE Start
  BY <1>1, ClassFacts
     DEF Start, TypeOK, ControlInv, RegisteredInv, OwnedInv, HeldInv, Alive, ServiceOf, ClassOf
<1>2. CASE Enable
  BY <1>2, ClassFacts
     DEF Enable, Create, TypeOK, ControlInv, RegisteredInv, OwnedInv, HeldInv, Alive, ServiceOf,
         ClassOf
<1>3. CASE Enabled
  BY <1>3, ClassFacts
     DEF Enabled, TypeOK, ControlInv, RegisteredInv, OwnedInv, HeldInv, Alive, ServiceOf, ClassOf
<1>4. CASE InitProcess
  BY <1>4, ClassFacts
     DEF InitProcess, TypeOK, ControlInv, RegisteredInv, OwnedInv, HeldInv, Alive, ServiceOf,
         ClassOf
<1>5. CASE InsertProcess
  BY <1>5, ClassFacts
     DEF InsertProcess, TypeOK, ControlInv, RegisteredInv, OwnedInv, HeldInv, Alive, ServiceOf,
         ClassOf
<1>6. CASE Poll
  BY <1>6, ClassFacts
     DEF Poll, TypeOK, ControlInv, RegisteredInv, OwnedInv, HeldInv, Alive, ServiceOf, ClassOf
<1>7. CASE ExecuteWaiting
  BY <1>7, ClassFacts
     DEF ExecuteWaiting, Create, TypeOK, ControlInv, RegisteredInv, OwnedInv, HeldInv, Alive,
         ServiceOf, ClassOf
<1>8. CASE ExecuteFinished
  BY <1>8, ClassFacts
     DEF ExecuteFinished, TypeOK, ControlInv, RegisteredInv, OwnedInv, HeldInv, Alive, ServiceOf,
         ClassOf
<1>9. CASE Handle
  BY <1>9, ClassFacts
     DEF Handle, RunHandler, TypeOK, ControlInv, RegisteredInv, OwnedInv, HeldInv, Alive,
         ServiceOf, ClassOf
<1>10. CASE HandlerReturns
  BY <1>10, ClassFacts
     DEF HandlerReturns, TypeOK, ControlInv, RegisteredInv, OwnedInv, HeldInv, Alive, ServiceOf,
         ClassOf
<1>11. CASE FinishReply
  BY <1>11, ClassFacts
     DEF FinishReply, TypeOK, ControlInv, RegisteredInv, OwnedInv, HeldInv, Alive, ServiceOf,
         ClassOf
<1>12. CASE MarkFinished
  BY <1>12, ClassFacts
     DEF MarkFinished, TypeOK, ControlInv, RegisteredInv, OwnedInv, HeldInv, Alive, ServiceOf,
         ClassOf
<1>13. CASE Throw
  BY <1>13, ClassFacts
     DEF Throw, Lost, TypeOK, ControlInv, RegisteredInv, OwnedInv, HeldInv, Alive, ServiceOf,
         ClassOf
<1>14. CASE ShutdownReturns
  BY <1>14, ClassFacts
     DEF ShutdownReturns, TypeOK, ControlInv, RegisteredInv, OwnedInv, HeldInv, Alive, ServiceOf,
         ClassOf
<1>15. CASE Drain
  BY <1>15, ClassFacts
     DEF Drain, TypeOK, ControlInv, RegisteredInv, OwnedInv, HeldInv, Alive, ServiceOf, ClassOf
<1>16. CASE End
  BY <1>16, ClassFacts
     DEF End, Lost, TypeOK, ControlInv, RegisteredInv, OwnedInv, HeldInv, Alive, ServiceOf,
         ClassOf
<1>17. ASSUME NEW c \in Calls, NEW p \in Procs, Accept(c, p) PROVE RegisteredInv'
  BY <1>17, ClassFacts
     DEF Accept, TypeOK, ControlInv, RegisteredInv, OwnedInv, HeldInv, Alive, ServiceOf, ClassOf
<1>18. ASSUME NEW p \in Procs, Reply(p) PROVE RegisteredInv'
  BY <1>18, ClassFacts
     DEF Reply, TypeOK, ControlInv, RegisteredInv, OwnedInv, HeldInv, Alive, ServiceOf, ClassOf
<1>19. ASSUME NEW c \in Calls, Send(c) PROVE RegisteredInv'
  BY <1>19, ClassFacts
     DEF Send, TypeOK, ControlInv, RegisteredInv, OwnedInv, HeldInv, Alive, ServiceOf, ClassOf
<1>20. ASSUME NEW c \in Calls, Cancel(c) PROVE RegisteredInv'
  BY <1>20, ClassFacts
     DEF Cancel, TypeOK, ControlInv, RegisteredInv, OwnedInv, HeldInv, Alive, ServiceOf, ClassOf
<1>21. CASE UNCHANGED vars
  BY <1>21, ClassFacts
     DEF vars, TypeOK, ControlInv, RegisteredInv, OwnedInv, HeldInv, Alive, ServiceOf, ClassOf
<1> QED
  BY <1>1, <1>2, <1>3, <1>4, <1>5, <1>6, <1>7, <1>8, <1>9, <1>10, <1>11, <1>12, <1>13, <1>14,
     <1>15, <1>16, <1>17, <1>18, <1>19, <1>20, <1>21
     DEF Moves

LEMMA StateStays == IInv /\ Moves => StateInv'
<1> SUFFICES ASSUME IInv, Moves PROVE StateInv'
  OBVIOUS
<1> USE ServerAssumption DEF IInv, thread, objects, core, client
<1>1. CASE Start
  BY <1>1 DEF Start, TypeOK, ControlInv, OwnedInv, HeldInv, StateInv, Alive, Held, InQueue, Closing
<1>2. CASE Enable
  BY <1>2
     DEF Enable, Create, TypeOK, ControlInv, OwnedInv, HeldInv, StateInv, Alive, Held, InQueue,
         Closing
<1>3. CASE Enabled
  BY <1>3
     DEF Enabled, TypeOK, ControlInv, OwnedInv, HeldInv, StateInv, Alive, Held, InQueue, Closing
<1>4. CASE InitProcess
  BY <1>4 DEF InitProcess, TypeOK, ControlInv, OwnedInv, HeldInv, StateInv, Alive, Held, InQueue,
     Closing
<1>5. CASE InsertProcess
  BY <1>5
     DEF InsertProcess, TypeOK, ControlInv, OwnedInv, HeldInv, StateInv, Alive, Held, InQueue,
         Closing
<1>6. CASE Poll
  BY <1>6 DEF Poll, TypeOK, ControlInv, OwnedInv, HeldInv, StateInv, Alive, Held, InQueue, Closing
<1>7. CASE ExecuteWaiting
  BY <1>7
     DEF ExecuteWaiting, Create, TypeOK, ControlInv, OwnedInv, HeldInv, StateInv, Alive, Held,
         InQueue, Closing
<1>8. CASE ExecuteFinished
  BY <1>8
     DEF ExecuteFinished, TypeOK, ControlInv, OwnedInv, HeldInv, StateInv, Alive, Held, InQueue,
         Closing
<1>9. CASE Handle
  BY <1>9 DEF Handle, RunHandler, TypeOK, ControlInv, OwnedInv, HeldInv, StateInv, Alive, Held,
     InQueue, Closing
<1>10. CASE HandlerReturns
  BY <1>10
     DEF HandlerReturns, TypeOK, ControlInv, OwnedInv, HeldInv, StateInv, Alive, Held, InQueue,
         Closing
<1>11. CASE FinishReply
  BY <1>11 DEF FinishReply, TypeOK, ControlInv, OwnedInv, HeldInv, StateInv, Alive, Held, InQueue,
     Closing
<1>12. CASE MarkFinished
  BY <1>12
     DEF MarkFinished, TypeOK, ControlInv, OwnedInv, HeldInv, StateInv, Alive, Held, InQueue,
         Closing
<1>13. CASE Throw
  <2>1. \A e \in cq' : e \in cq \/ (e[1] \in slots /\ e[2] = "call" /\ e = <<e[1], "call", "failed">>)
    BY <1>13 DEF Throw

  <2> QED
    BY <1>13, <2>1 DEF Throw, StateInv, ControlInv, Closing, TypeOK
<1>14. CASE ShutdownReturns
  BY <1>14
     DEF ShutdownReturns, TypeOK, ControlInv, OwnedInv, HeldInv, StateInv, Alive, Held, InQueue,
         Closing
<1>15. CASE Drain
  BY <1>15 DEF Drain, TypeOK, ControlInv, OwnedInv, HeldInv, StateInv, Alive, Held, InQueue, Closing
<1>16. CASE End
  BY <1>16
     DEF End, Lost, TypeOK, ControlInv, OwnedInv, HeldInv, StateInv, Alive, Held, InQueue, Closing
<1>17. ASSUME NEW c \in Calls, NEW p \in Procs, Accept(c, p) PROVE StateInv'
  <2>1. \A e \in cq' : e \in cq \/ (e[1] = p /\ e[2] = "call" /\ e[3] = "ok")
    BY <1>17 DEF Accept
  <2>2. p \in slots /\ p \notin slots' /\ slots' = slots \ {p} /\ sending' = sending /\ class' = class
    BY <1>17 DEF Accept

  <2> QED
    BY <1>17, <2>1, <2>2 DEF Accept, StateInv, Closing, TypeOK
<1>18. ASSUME NEW p \in Procs, Reply(p) PROVE StateInv'
  BY <1>18 DEF Reply, TypeOK, ControlInv, OwnedInv, HeldInv, StateInv, Alive, Held, InQueue, Closing
<1>19. ASSUME NEW c \in Calls, Send(c) PROVE StateInv'
  BY <1>19 DEF Send, TypeOK, ControlInv, OwnedInv, HeldInv, StateInv, Alive, Held, InQueue, Closing
<1>20. ASSUME NEW c \in Calls, Cancel(c) PROVE StateInv'
  BY <1>20
     DEF Cancel, TypeOK, ControlInv, OwnedInv, HeldInv, StateInv, Alive, Held, InQueue, Closing
<1>21. CASE UNCHANGED vars
  BY <1>21 DEF vars, TypeOK, ControlInv, OwnedInv, HeldInv, StateInv, Alive, Held, InQueue, Closing
<1> QED
  BY <1>1, <1>2, <1>3, <1>4, <1>5, <1>6, <1>7, <1>8, <1>9, <1>10, <1>11, <1>12, <1>13, <1>14,
     <1>15, <1>16, <1>17, <1>18, <1>19, <1>20, <1>21
     DEF Moves

LEMMA ListenStays == IInv /\ Moves => ListenInv'
<1> SUFFICES ASSUME IInv, Moves PROVE ListenInv'
  OBVIOUS
<1> USE ServerAssumption DEF IInv, thread, objects, core, client
<1>1. CASE Start
  <2>1. \A k \in ClassNames, p \in Procs : ~Listens(p, k)'
    <3>1. \A p \in Procs : class'[p] = NoClass
      BY <1>1 DEF Start, ControlInv, Alive
    <3> QED
      BY <3>1 DEF Listens
  <2>2. \A k \in ClassNames : Deaf(k)'
    BY <1>1 DEF Start, Deaf, ControlInv
  <2> QED
    BY <2>1, <2>2 DEF ListenInv
<1>2. CASE Enable
  <2> DEFINE new == Registration[registered + 1]
  <2>1. PICK q \in Procs \ Alive : fresh' = q /\ class' = [class EXCEPT ![q] = new]
    BY <1>2 DEF Enable, Create
  <2>2. /\ pc = "enable" /\ pc' = "init" /\ cur = NoProc /\ cur' = cur
        /\ registered' = registered + 1 /\ slots' = slots /\ cq' = cq
        /\ registered \in Nat /\ registered < 8
    BY <1>2, RegistrationFacts DEF Enable, Create, ControlInv, TypeOK
  <2>3. class'[q] = new
    BY <2>1 DEF TypeOK
  <2>4. \A k \in ClassNames : Deaf(k)' <=> Deaf(k)
    <3>1. SUFFICES ASSUME NEW k \in ClassNames PROVE Deaf(k)' <=> Deaf(k)
      OBVIOUS
    <3>2. Deaf(k) <=> \A i \in 1..registered : Registration[i] # k
      BY <2>2 DEF Deaf
    <3>3. Deaf(k)' <=> k = new \/ \A i \in 1..registered + 1 : Registration[i] # k
      BY <2>1, <2>2, <2>3 DEF Deaf
    <3>4. \A i \in 1..registered : Registration[i] # new
      BY <2>2, RegistrationFacts
    <3>5. \A i \in 1..registered + 1 : i \in 1..registered \/ i = registered + 1
      BY <2>2
    <3>6. 1..registered \subseteq 1..registered + 1
      BY <2>2
    <3> HIDE DEF new
    <3>7. \A i \in 1..registered + 1 : i \in 1..registered \/ Registration[i] = new
      BY <3>5 DEF new
    <3> QED
      BY <3>2, <3>3, <3>4, <3>6, <3>7
  <2>5. \A k \in ClassNames, p \in Procs : Listens(p, k)' <=> Listens(p, k)
    <3>1. q \notin slots /\ \A e \in cq : e[1] # q
      BY <2>1 DEF HeldInv
    <3>2. \A k : ~Listens(q, k) /\ ~Listens(q, k)'
      BY <2>2, <3>1 DEF Listens
    <3>3. \A p \in Procs : p # q => class'[p] = class[p]
      BY <2>1 DEF TypeOK
    <3> QED
      BY <2>2, <3>2, <3>3 DEF Listens
  <2> QED
    BY <2>2, <2>4, <2>5, ListenSame DEF Closing
<1>3. CASE Enabled
  <2>1. pc = "enable" /\ pc' = "next" /\ registered = 8
    BY <1>3, RegistrationFacts DEF Enabled
  <2>2. \A k \in ClassNames : ~Deaf(k) /\ ~Deaf(k)'
    BY <2>1, RegistrationFacts DEF Deaf
  <2>3. \A k \in ClassNames, p \in Procs : Listens(p, k)' <=> Listens(p, k)
    BY <1>3 DEF Enabled, Listens
  <2> QED
    BY <2>1, <2>2, <2>3, ListenSame DEF Closing
<1>4. CASE InitProcess
  <2>1. /\ pc = "init" /\ pc' = "insert" /\ cur' = cur /\ fresh' = fresh /\ class' = class
        /\ registered' = registered /\ slots' = slots \cup {fresh} /\ cq' = cq
    BY <1>4 DEF InitProcess
  <2>2. PICK k0 \in ClassNames : fresh \in Procs /\ class[fresh] = k0
    BY <2>1 DEF ControlInv, Alive, TypeOK
  <2>3. Deaf(k0) /\ ~Deaf(k0)'
    <3>1. Deaf(k0)
      BY <2>1, <2>2 DEF Deaf
    <3>2. cur = NoProc => registered \in 1..registered /\ Registration[registered] = k0
      BY <2>1, <2>2 DEF FreshInv, TypeOK
    <3> QED
      BY <2>1, <3>1, <3>2 DEF Deaf
  <2>4. \A k \in ClassNames : k # k0 => (Deaf(k)' <=> Deaf(k))
    BY <2>1, <2>2 DEF Deaf
  <2>5. \A k \in ClassNames, p \in Procs :
            Listens(p, k)' <=> Listens(p, k) \/ (p = fresh /\ k = k0)
    BY <2>1, <2>2 DEF Listens
  <2>6. pc \notin Closing \cup {"down"}
    BY <2>1 DEF Closing
  <2>7. \A k \in ClassNames :
            /\ ~Deaf(k) => \E p \in Procs : Listens(p, k)
            /\ Deaf(k) => \A p \in Procs : ~Listens(p, k)
            /\ \A p, q \in Procs : Listens(p, k) /\ Listens(q, k) => p = q
    BY <2>6 DEF ListenInv
  <2>8. \A k \in ClassNames :
            /\ ~Deaf(k)' => \E p \in Procs : Listens(p, k)'
            /\ Deaf(k)' => \A p \in Procs : ~Listens(p, k)'
            /\ \A p, q \in Procs : Listens(p, k)' /\ Listens(q, k)' => p = q
    <3>1. SUFFICES ASSUME NEW k \in ClassNames
                   PROVE  /\ ~Deaf(k)' => \E p \in Procs : Listens(p, k)'
                          /\ Deaf(k)' => \A p \in Procs : ~Listens(p, k)'
                          /\ \A p, q \in Procs : Listens(p, k)' /\ Listens(q, k)' => p = q
      OBVIOUS
    <3>2. CASE k = k0
      BY <2>2, <2>3, <2>5, <2>7, <3>2
    <3>3. CASE k # k0
      BY <2>4, <2>5, <2>7, <3>3
    <3> QED
      BY <3>2, <3>3
  <2> QED
    BY <2>8 DEF ListenInv
<1>5. CASE InsertProcess
  <2>1. /\ pc = "insert" /\ pc' \in {"enable", "handle"} /\ cur' = cur
        /\ (pc' = "enable" <=> cur = NoProc) /\ registered' = registered
    BY <1>5 DEF InsertProcess
  <2>2. \A k \in ClassNames : Deaf(k)' <=> Deaf(k)
    BY <2>1 DEF Deaf
  <2>3. \A k \in ClassNames, p \in Procs : Listens(p, k)' <=> Listens(p, k)
    BY <1>5 DEF InsertProcess, Listens
  <2> QED
    BY <2>1, <2>2, <2>3, ListenSame DEF Closing
<1>6. CASE Poll
  <2>1. PICK e \in cq : cq' = cq \ {e} /\ cur' = e[1]
    BY <1>6 DEF Poll
  <2>2. /\ pc = "next" /\ pc' = "execute" /\ state' = state /\ class' = class /\ slots' = slots
    BY <1>6 DEF Poll
  <2>3. e[1] \in Procs /\ e[2] \in {"call", "reply"} /\ e[1] \notin slots
    BY DEF TypeOK, HeldInv
  <2>4. e[2] = "reply" => state[e[1]] = "FINISHED"
    BY <2>2 DEF StateInv
  <2>5. e[2] = "call" => state[e[1]] = "PROCESSING" /\ e[3] = "ok"
    BY <2>2 DEF StateInv, Closing
  <2>6. e[2] = "call" => e = <<e[1], "call", "ok">>
    BY <2>5 DEF TypeOK
  <2>7. \A k \in ClassNames : ~Deaf(k)
    BY <2>2 DEF Deaf
  <2>8. \A k \in ClassNames : Deaf(k)' <=> e[2] = "call" /\ k = class[e[1]]
    <3>1. "PROCESSING" # "FINISHED"
      OBVIOUS
    <3> QED
      BY <2>1, <2>2, <2>3, <2>4, <2>5, <3>1 DEF Deaf
  <2>9. \A k \in ClassNames, p \in Procs :
            Listens(p, k)' <=> Listens(p, k) /\ ~(e[2] = "call" /\ p = e[1])
    <3>1. SUFFICES ASSUME NEW k \in ClassNames, NEW p \in Procs
                   PROVE  Listens(p, k)' <=> Listens(p, k) /\ ~(e[2] = "call" /\ p = e[1])
      OBVIOUS
    <3>2. <<p, "call", "ok">> \in cq' <=> <<p, "call", "ok">> \in cq /\ ~(e[2] = "call" /\ p = e[1])
      BY <2>1, <2>6
    <3>3. p = e[1] => p \notin slots
      BY <2>3
    <3> QED
      BY <2>2, <3>2, <3>3 DEF Listens
  <2>10. e[2] = "call" => Listens(e[1], class[e[1]]) /\ class[e[1]] \in ClassNames
    BY <2>6 DEF Listens, HeldInv, Alive, TypeOK
  <2>11. pc \notin Closing \cup {"down"}
    BY <2>2 DEF Closing
  <2>12. \A k \in ClassNames :
            /\ \E p \in Procs : Listens(p, k)
            /\ \A p, q \in Procs : Listens(p, k) /\ Listens(q, k) => p = q
    BY <2>7, <2>11 DEF ListenInv
  <2>13. \A k \in ClassNames : Listens(e[1], k) => k = class[e[1]]
    BY DEF Listens
  <2> QED
    BY <2>3, <2>8, <2>9, <2>10, <2>12, <2>13 DEF ListenInv
<1>7. CASE ExecuteWaiting
  <2>1. PICK q \in Procs \ Alive : fresh' = q /\ class' = [class EXCEPT ![q] = ClassOf(cur).duplicates]
    BY <1>7 DEF ExecuteWaiting, Create
  <2>2. /\ pc = "execute" /\ pc' = "init" /\ cur' = cur /\ state[cur] # "FINISHED"
        /\ slots' = slots /\ cq' = cq
    BY <1>7 DEF ExecuteWaiting, Create
  <2>3. cur \in Alive
    BY <2>2 DEF ControlInv
  <2>4. class'[q] = class[cur] /\ state[cur] = "PROCESSING" /\ cur # NoProc
    BY <2>1, <2>2, <2>3, ClassFacts DEF ClassOf, Alive, TypeOK
  <2>5. \A k \in ClassNames : Deaf(k)' <=> Deaf(k)
    BY <2>1, <2>2, <2>4 DEF Deaf
  <2>6. \A k \in ClassNames, p \in Procs : Listens(p, k)' <=> Listens(p, k)
    <3>1. q \notin slots /\ \A e \in cq : e[1] # q
      BY <2>1 DEF HeldInv
    <3>2. \A k : ~Listens(q, k) /\ ~Listens(q, k)'
      BY <2>2, <3>1 DEF Listens
    <3>3. \A p \in Procs : p # q => class'[p] = class[p]
      BY <2>1 DEF TypeOK
    <3> QED
      BY <2>2, <3>2, <3>3 DEF Listens
  <2> QED
    BY <2>2, <2>5, <2>6, ListenSame DEF Closing
<1>8. CASE ExecuteFinished
  <2>1. /\ pc = "execute" /\ pc' = "next" /\ state[cur] = "FINISHED" /\ slots' = slots /\ cq' = cq
        /\ class' = [class EXCEPT ![cur] = NoClass]
    BY <1>8 DEF ExecuteFinished
  <2>2. \A k \in ClassNames : ~Deaf(k) /\ ~Deaf(k)'
    BY <2>1 DEF Deaf
  <2>3. \A k \in ClassNames, p \in Procs : Listens(p, k)' <=> Listens(p, k)
    <3>1. cur \notin slots /\ \A e \in cq : e[1] # cur
      BY <2>1 DEF OwnedInv, ControlInv, Held, InQueue
    <3>2. \A k : ~Listens(cur, k) /\ (\A p : p = cur => ~Listens(p, k)')
      BY <2>1, <3>1 DEF Listens
    <3>3. \A p \in Procs : p # cur => class'[p] = class[p]
      BY <2>1 DEF TypeOK
    <3> QED
      BY <2>1, <3>2, <3>3 DEF Listens
  <2> QED
    BY <2>1, <2>2, <2>3, ListenSame DEF Closing
<1>9. CASE Handle
  <2>1. \A k \in ClassNames : Deaf(k)' <=> Deaf(k)
    BY <1>9 DEF Handle, Deaf
  <2>2. \A k \in ClassNames, p \in Procs : Listens(p, k)' <=> Listens(p, k)
    BY <1>9 DEF Handle, Listens
  <2> QED
    BY <1>9, <2>1, <2>2, ListenSame DEF Handle, Closing
<1>10. CASE HandlerReturns
  <2>1. \A k \in ClassNames : Deaf(k)' <=> Deaf(k)
    BY <1>10 DEF HandlerReturns, Deaf
  <2>2. \A k \in ClassNames, p \in Procs : Listens(p, k)' <=> Listens(p, k)
    BY <1>10 DEF HandlerReturns, Listens
  <2> QED
    BY <1>10, <2>1, <2>2, ListenSame DEF HandlerReturns, Closing
<1>11. CASE FinishReply
  <2>1. \A k \in ClassNames : Deaf(k)' <=> Deaf(k)
    BY <1>11 DEF FinishReply, Deaf
  <2>2. \A k \in ClassNames, p \in Procs : Listens(p, k)' <=> Listens(p, k)
    BY <1>11 DEF FinishReply, Listens
  <2> QED
    BY <1>11, <2>1, <2>2, ListenSame DEF FinishReply, Closing
<1>12. CASE MarkFinished
  <2>1. \A k \in ClassNames : Deaf(k)' <=> Deaf(k)
    BY <1>12 DEF MarkFinished, Deaf
  <2>2. \A k \in ClassNames, p \in Procs : Listens(p, k)' <=> Listens(p, k)
    BY <1>12 DEF MarkFinished, Listens
  <2> QED
    BY <1>12, <2>1, <2>2, ListenSame DEF MarkFinished, Closing
<1>13. CASE Throw
  BY <1>13 DEF Throw, ListenInv, Closing
<1>14. CASE ShutdownReturns
  BY <1>14 DEF ShutdownReturns, ListenInv, Closing
<1>15. CASE Drain
  BY <1>15 DEF Drain, ListenInv, Closing
<1>16. CASE End
  BY <1>16 DEF End, ListenInv, Closing
<1>17. ASSUME NEW c \in Calls, NEW p \in Procs, Accept(c, p) PROVE ListenInv'
  <2>1. \A e \in cq' : e \in cq \/ (e[1] = p /\ e = <<p, "call", "ok">>)
    BY <1>17 DEF Accept
  <2>2. p \in slots /\ slots' = slots \ {p} /\ sending' = sending /\ class' = class
    BY <1>17 DEF Accept
  <2>3. \A e \in cq : e[1] # p
    BY <2>2 DEF HeldInv

  <2>4. \A k \in ClassNames : Deaf(k)' <=> Deaf(k)
    BY <1>17 DEF Accept, Deaf
  <2>5. \A k \in ClassNames, q \in Procs : Listens(q, k)' <=> Listens(q, k)
    <3>1. SUFFICES ASSUME NEW k \in ClassNames, NEW q \in Procs
                   PROVE  Listens(q, k)' <=> Listens(q, k)
      OBVIOUS
    <3>2. cq' = cq \cup {<<p, "call", "ok">>}
      BY <1>17 DEF Accept
    <3>3. <<q, "call", "ok">> \in cq' <=> <<q, "call", "ok">> \in cq \/ q = p
      BY <3>2
    <3> QED
      BY <2>2, <3>3 DEF Listens
  <2>6. CASE pc \in Closing \cup {"down"}
    BY <1>17, <2>6 DEF Accept, ListenInv
  <2>7. CASE pc \notin Closing \cup {"down"}
    BY <2>4, <2>5, <2>7, ListenSame
  <2> QED
    BY <2>6, <2>7
<1>18. ASSUME NEW p \in Procs, Reply(p) PROVE ListenInv'
  <2>1. \A e \in cq' : e \in cq \/ (e[1] = p /\ e = <<p, "reply", IF status[bound[p]] = "accepted" THEN "ok" ELSE "failed">>)
    BY <1>18 DEF Reply
  <2>2. p \in sending /\ sending' = sending \ {p} /\ slots' = slots /\ class' = class
    BY <1>18 DEF Reply
  <2>3. \A e \in cq : e[1] # p
    BY <2>2 DEF HeldInv

  <2>4. \A k \in ClassNames : Deaf(k)' <=> Deaf(k)
    BY <1>18 DEF Reply, Deaf
  <2>5. \A k \in ClassNames, q \in Procs : Listens(q, k)' <=> Listens(q, k)
    <3>1. \A q : <<q, "call", "ok">> \in cq' <=> <<q, "call", "ok">> \in cq
      BY <1>18 DEF Reply
    <3> QED
      BY <2>2, <3>1 DEF Listens
  <2>6. CASE pc \in Closing \cup {"down"}
    BY <1>18, <2>6 DEF Reply, ListenInv
  <2>7. CASE pc \notin Closing \cup {"down"}
    BY <2>4, <2>5, <2>7, ListenSame
  <2> QED
    BY <2>6, <2>7
<1>19. ASSUME NEW c \in Calls, Send(c) PROVE ListenInv'
  <2>1. \A k \in ClassNames : Deaf(k)' <=> Deaf(k)
    BY <1>19 DEF Send, Deaf
  <2>2. \A k \in ClassNames, q \in Procs : Listens(q, k)' <=> Listens(q, k)
    BY <1>19 DEF Send, Listens
  <2>3. CASE pc \in Closing \cup {"down"}
    BY <1>19, <2>3 DEF Send, ListenInv
  <2>4. CASE pc \notin Closing \cup {"down"}
    BY <2>1, <2>2, <2>4, ListenSame
  <2> QED
    BY <2>3, <2>4
<1>20. ASSUME NEW c \in Calls, Cancel(c) PROVE ListenInv'
  <2>1. \A k \in ClassNames : Deaf(k)' <=> Deaf(k)
    BY <1>20 DEF Cancel, Deaf
  <2>2. \A k \in ClassNames, q \in Procs : Listens(q, k)' <=> Listens(q, k)
    BY <1>20 DEF Cancel, Listens
  <2>3. CASE pc \in Closing \cup {"down"}
    BY <1>20, <2>3 DEF Cancel, ListenInv
  <2>4. CASE pc \notin Closing \cup {"down"}
    BY <2>1, <2>2, <2>4, ListenSame
  <2> QED
    BY <2>3, <2>4
<1>21. CASE UNCHANGED vars
  <2>1. \A k \in ClassNames : Deaf(k)' <=> Deaf(k)
    BY <1>21 DEF vars, Deaf
  <2>2. \A k \in ClassNames, q \in Procs : Listens(q, k)' <=> Listens(q, k)
    BY <1>21 DEF vars, Listens
  <2>3. CASE pc \in Closing \cup {"down"}
    BY <1>21, <2>3 DEF vars, ListenInv
  <2>4. CASE pc \notin Closing \cup {"down"}
    BY <2>1, <2>2, <2>4, ListenSame
  <2> QED
    BY <2>3, <2>4
<1> QED
  BY <1>1, <1>2, <1>3, <1>4, <1>5, <1>6, <1>7, <1>8, <1>9, <1>10, <1>11, <1>12, <1>13, <1>14,
     <1>15, <1>16, <1>17, <1>18, <1>19, <1>20, <1>21
     DEF Moves

LEMMA FreshStays == IInv /\ Moves => FreshInv'
<1> SUFFICES ASSUME IInv, Moves PROVE FreshInv'
  OBVIOUS
<1> USE ServerAssumption DEF IInv, thread, objects, core, client
<1>1. CASE Start
  BY <1>1, ClassFacts, RegistrationFacts
     DEF Start, TypeOK, ControlInv, FreshInv, OwnedInv, ClassOf, Alive
<1>2. CASE Enable
  BY <1>2, ClassFacts, RegistrationFacts
     DEF Enable, Create, TypeOK, ControlInv, FreshInv, OwnedInv, ClassOf, Alive
<1>3. CASE Enabled
  BY <1>3, ClassFacts, RegistrationFacts
     DEF Enabled, TypeOK, ControlInv, FreshInv, OwnedInv, ClassOf, Alive
<1>4. CASE InitProcess
  BY <1>4, ClassFacts, RegistrationFacts
     DEF InitProcess, TypeOK, ControlInv, FreshInv, OwnedInv, ClassOf, Alive
<1>5. CASE InsertProcess
  BY <1>5, ClassFacts, RegistrationFacts
     DEF InsertProcess, TypeOK, ControlInv, FreshInv, OwnedInv, ClassOf, Alive
<1>6. CASE Poll
  BY <1>6, ClassFacts, RegistrationFacts
     DEF Poll, TypeOK, ControlInv, FreshInv, OwnedInv, ClassOf, Alive
<1>7. CASE ExecuteWaiting
  BY <1>7, ClassFacts, RegistrationFacts
     DEF ExecuteWaiting, Create, TypeOK, ControlInv, FreshInv, OwnedInv, ClassOf, Alive
<1>8. CASE ExecuteFinished
  BY <1>8, ClassFacts, RegistrationFacts
     DEF ExecuteFinished, TypeOK, ControlInv, FreshInv, OwnedInv, ClassOf, Alive
<1>9. CASE Handle
  BY <1>9, ClassFacts, RegistrationFacts
     DEF Handle, RunHandler, TypeOK, ControlInv, FreshInv, OwnedInv, ClassOf, Alive
<1>10. CASE HandlerReturns
  BY <1>10, ClassFacts, RegistrationFacts
     DEF HandlerReturns, TypeOK, ControlInv, FreshInv, OwnedInv, ClassOf, Alive
<1>11. CASE FinishReply
  BY <1>11, ClassFacts, RegistrationFacts
     DEF FinishReply, TypeOK, ControlInv, FreshInv, OwnedInv, ClassOf, Alive
<1>12. CASE MarkFinished
  BY <1>12, ClassFacts, RegistrationFacts
     DEF MarkFinished, TypeOK, ControlInv, FreshInv, OwnedInv, ClassOf, Alive
<1>13. CASE Throw
  BY <1>13, ClassFacts, RegistrationFacts
     DEF Throw, Lost, TypeOK, ControlInv, FreshInv, OwnedInv, ClassOf, Alive
<1>14. CASE ShutdownReturns
  BY <1>14, ClassFacts, RegistrationFacts
     DEF ShutdownReturns, TypeOK, ControlInv, FreshInv, OwnedInv, ClassOf, Alive
<1>15. CASE Drain
  BY <1>15, ClassFacts, RegistrationFacts
     DEF Drain, TypeOK, ControlInv, FreshInv, OwnedInv, ClassOf, Alive
<1>16. CASE End
  BY <1>16, ClassFacts, RegistrationFacts
     DEF End, Lost, TypeOK, ControlInv, FreshInv, OwnedInv, ClassOf, Alive
<1>17. ASSUME NEW c \in Calls, NEW p \in Procs, Accept(c, p) PROVE FreshInv'
  BY <1>17, ClassFacts, RegistrationFacts
     DEF Accept, TypeOK, ControlInv, FreshInv, OwnedInv, ClassOf, Alive
<1>18. ASSUME NEW p \in Procs, Reply(p) PROVE FreshInv'
  BY <1>18, ClassFacts, RegistrationFacts
     DEF Reply, TypeOK, ControlInv, FreshInv, OwnedInv, ClassOf, Alive
<1>19. ASSUME NEW c \in Calls, Send(c) PROVE FreshInv'
  BY <1>19, ClassFacts, RegistrationFacts
     DEF Send, TypeOK, ControlInv, FreshInv, OwnedInv, ClassOf, Alive
<1>20. ASSUME NEW c \in Calls, Cancel(c) PROVE FreshInv'
  BY <1>20, ClassFacts, RegistrationFacts
     DEF Cancel, TypeOK, ControlInv, FreshInv, OwnedInv, ClassOf, Alive
<1>21. CASE UNCHANGED vars
  BY <1>21, ClassFacts, RegistrationFacts
     DEF vars, TypeOK, ControlInv, FreshInv, OwnedInv, ClassOf, Alive
<1> QED
  BY <1>1, <1>2, <1>3, <1>4, <1>5, <1>6, <1>7, <1>8, <1>9, <1>10, <1>11, <1>12, <1>13, <1>14,
     <1>15, <1>16, <1>17, <1>18, <1>19, <1>20, <1>21
     DEF Moves

LEMMA BoundStays == IInv /\ Moves => BoundInv'
<1> SUFFICES ASSUME IInv, Moves PROVE BoundInv'
  OBVIOUS
<1> USE ServerAssumption DEF IInv, thread, objects, core, client
<1>1. CASE Start
  BY <1>1 DEF Start, TypeOK, ControlInv, OwnedInv, HeldInv, StateInv, BoundInv, CallInv, HasCall,
     Alive, Held, InQueue
<1>2. CASE Enable
  BY <1>2 DEF Enable, Create, TypeOK, ControlInv, OwnedInv, HeldInv, StateInv, BoundInv, CallInv,
     HasCall, Alive, Held, InQueue
<1>3. CASE Enabled
  BY <1>3
     DEF Enabled, TypeOK, ControlInv, OwnedInv, HeldInv, StateInv, BoundInv, CallInv, HasCall,
         Alive, Held, InQueue
<1>4. CASE InitProcess
  BY <1>4
     DEF InitProcess, TypeOK, ControlInv, OwnedInv, HeldInv, StateInv, BoundInv, CallInv, HasCall,
         Alive, Held, InQueue
<1>5. CASE InsertProcess
  BY <1>5 DEF InsertProcess, TypeOK, ControlInv, OwnedInv, HeldInv, StateInv, BoundInv, CallInv,
     HasCall, Alive, Held, InQueue
<1>6. CASE Poll
  BY <1>6
     DEF Poll, TypeOK, ControlInv, OwnedInv, HeldInv, StateInv, BoundInv, CallInv, HasCall, Alive,
         Held, InQueue
<1>7. CASE ExecuteWaiting
  BY <1>7 DEF ExecuteWaiting, Create, TypeOK, ControlInv, OwnedInv, HeldInv, StateInv, BoundInv,
     CallInv, HasCall, Alive, Held, InQueue
<1>8. CASE ExecuteFinished
  BY <1>8 DEF ExecuteFinished, TypeOK, ControlInv, OwnedInv, HeldInv, StateInv, BoundInv, CallInv,
     HasCall, Alive, Held, InQueue
<1>9. CASE Handle
  BY <1>9
     DEF Handle, RunHandler, TypeOK, ControlInv, OwnedInv, HeldInv, StateInv, BoundInv, CallInv,
         HasCall, Alive, Held, InQueue
<1>10. CASE HandlerReturns
  BY <1>10 DEF HandlerReturns, TypeOK, ControlInv, OwnedInv, HeldInv, StateInv, BoundInv, CallInv,
     HasCall, Alive, Held, InQueue
<1>11. CASE FinishReply
  BY <1>11
     DEF FinishReply, TypeOK, ControlInv, OwnedInv, HeldInv, StateInv, BoundInv, CallInv, HasCall,
         Alive, Held, InQueue
<1>12. CASE MarkFinished
  BY <1>12 DEF MarkFinished, TypeOK, ControlInv, OwnedInv, HeldInv, StateInv, BoundInv, CallInv,
     HasCall, Alive, Held, InQueue
<1>13. CASE Throw
  BY <1>13
     DEF Throw, Lost, TypeOK, ControlInv, OwnedInv, HeldInv, StateInv, BoundInv, CallInv, HasCall,
         Alive, Held, InQueue
<1>14. CASE ShutdownReturns
  BY <1>14
     DEF ShutdownReturns, TypeOK, ControlInv, OwnedInv, HeldInv, StateInv, BoundInv, CallInv,
         HasCall, Alive, Held, InQueue
<1>15. CASE Drain
  BY <1>15 DEF Drain, TypeOK, ControlInv, OwnedInv, HeldInv, StateInv, BoundInv, CallInv, HasCall,
     Alive, Held, InQueue
<1>16. CASE End
  BY <1>16
     DEF End, Lost, TypeOK, ControlInv, OwnedInv, HeldInv, StateInv, BoundInv, CallInv, HasCall,
         Alive, Held, InQueue
<1>17. ASSUME NEW c \in Calls, NEW p \in Procs, Accept(c, p) PROVE BoundInv'
  BY <1>17
     DEF Accept, TypeOK, ControlInv, OwnedInv, HeldInv, StateInv, BoundInv, CallInv, HasCall,
         Alive, Held, InQueue
<1>18. ASSUME NEW p \in Procs, Reply(p) PROVE BoundInv'
  BY <1>18 DEF Reply, TypeOK, ControlInv, OwnedInv, HeldInv, StateInv, BoundInv, CallInv, HasCall,
     Alive, Held, InQueue
<1>19. ASSUME NEW c \in Calls, Send(c) PROVE BoundInv'
  BY <1>19
     DEF Send, TypeOK, ControlInv, OwnedInv, HeldInv, StateInv, BoundInv, CallInv, HasCall, Alive,
         Held, InQueue
<1>20. ASSUME NEW c \in Calls, Cancel(c) PROVE BoundInv'
  BY <1>20
     DEF Cancel, TypeOK, ControlInv, OwnedInv, HeldInv, StateInv, BoundInv, CallInv, HasCall,
         Alive, Held, InQueue
<1>21. CASE UNCHANGED vars
  BY <1>21
     DEF vars, TypeOK, ControlInv, OwnedInv, HeldInv, StateInv, BoundInv, CallInv, HasCall, Alive,
         Held, InQueue
<1> QED
  BY <1>1, <1>2, <1>3, <1>4, <1>5, <1>6, <1>7, <1>8, <1>9, <1>10, <1>11, <1>12, <1>13, <1>14,
     <1>15, <1>16, <1>17, <1>18, <1>19, <1>20, <1>21
     DEF Moves

LEMMA CallStays == IInv /\ Moves => CallInv'
<1> SUFFICES ASSUME IInv, Moves PROVE CallInv'
  OBVIOUS
<1> USE ServerAssumption DEF IInv, thread, objects, core, client
<1>1. CASE Start
  BY <1>1 DEF Start, TypeOK, ControlInv, OwnedInv, HeldInv, StateInv, BoundInv, CallInv, HasCall,
     ClassOf, Alive, Held, InQueue
<1>2. CASE Enable
  BY <1>2 DEF Enable, Create, TypeOK, ControlInv, OwnedInv, HeldInv, StateInv, BoundInv, CallInv,
     HasCall, ClassOf, Alive, Held, InQueue
<1>3. CASE Enabled
  BY <1>3
     DEF Enabled, TypeOK, ControlInv, OwnedInv, HeldInv, StateInv, BoundInv, CallInv, HasCall,
         ClassOf, Alive, Held, InQueue
<1>4. CASE InitProcess
  BY <1>4
     DEF InitProcess, TypeOK, ControlInv, OwnedInv, HeldInv, StateInv, BoundInv, CallInv, HasCall,
         ClassOf, Alive, Held, InQueue
<1>5. CASE InsertProcess
  BY <1>5 DEF InsertProcess, TypeOK, ControlInv, OwnedInv, HeldInv, StateInv, BoundInv, CallInv,
     HasCall, ClassOf, Alive, Held, InQueue
<1>6. CASE Poll
  <2>1. PICK e \in cq : cq' = cq \ {e} /\ cur' = e[1]
    BY <1>6 DEF Poll
  <2>2. /\ pc = "next" /\ pc' = "execute" /\ state' = state /\ bound' = bound /\ wish' = wish
        /\ class' = class /\ handlers' = handlers /\ sending' = sending
    BY <1>6 DEF Poll
  <2>3. \A p : HasCall(p)' <=> HasCall(p)
    BY <2>2 DEF HasCall, ClassOf
  <2>4. e[1] \in Procs /\ state[e[1]] = "PROCESSING" => e[2] = "call" /\ e[3] = "ok"
    <3>1. e[1] \in Procs /\ e[2] \in {"call", "reply"}
      BY DEF TypeOK
    <3>2. e[2] = "reply" => state[e[1]] = "FINISHED"
      BY <2>2 DEF StateInv
    <3>3. e[2] = "call" => e[3] = "ok"
      BY <2>2 DEF StateInv, Closing
    <3> QED
      BY <3>1, <3>2, <3>3
  <2>5. \A f \in cq' : f[2] = "call" /\ f[3] = "ok" => HasCall(f[1])' /\ handlers'[bound'[f[1]]] = <<>>
    BY <2>1, <2>2, <2>3 DEF CallInv
  <2>6. state[e[1]] = "PROCESSING" => HasCall(e[1]) /\ handlers[bound[e[1]]] = <<>>
    BY <2>4 DEF CallInv, TypeOK
  <2>7. cur' # NoProc /\ state'[cur'] = "PROCESSING" => HasCall(cur)' /\ handlers'[bound'[cur']] = <<>>
    BY <2>1, <2>2, <2>6 DEF HasCall, ClassOf
  <2>8. \A p \in sending' : bound'[p] \in Calls /\ handlers'[bound'[p]] # <<>>
    BY <2>2 DEF CallInv
  <2> QED
    BY <2>2, <2>5, <2>7, <2>8 DEF CallInv
<1>7. CASE ExecuteWaiting
  BY <1>7 DEF ExecuteWaiting, Create, TypeOK, ControlInv, OwnedInv, HeldInv, StateInv, BoundInv,
     CallInv, HasCall, ClassOf, Alive, Held, InQueue
<1>8. CASE ExecuteFinished
  BY <1>8 DEF ExecuteFinished, TypeOK, ControlInv, OwnedInv, HeldInv, StateInv, BoundInv, CallInv,
     HasCall, ClassOf, Alive, Held, InQueue
<1>9. CASE Handle
  <2>1. cur \in Alive /\ HasCall(cur) /\ handlers[bound[cur]] = <<>>
    BY <1>9 DEF Handle, ControlInv, StateInv, CallInv
  <2>2. /\ pc' = "handling" /\ cur' = cur /\ state' = state /\ bound' = bound /\ wish' = wish
        /\ class' = class /\ cq' = cq /\ sending' = sending
    BY <1>9 DEF Handle
  <2>3. \A p : HasCall(p)' <=> HasCall(p)
    BY <2>2 DEF HasCall, ClassOf
  <2>4. /\ handlers'[bound[cur]] # <<>>
        /\ \A c \in Calls : c # bound[cur] => handlers'[c] = handlers[c]
    <3>1. handlers' = [handlers EXCEPT ![bound[cur]] = Append(@, ClassOf(cur).executes)]
      BY <1>9 DEF Handle, RunHandler
    <3>2. bound[cur] \in Calls /\ handlers \in [Calls -> Seq(Methods)]
      BY <2>1 DEF HasCall, TypeOK
    <3>3. ClassOf(cur).executes \in Methods
      BY <2>1, ClassFacts, SMTT(30) DEF ClassOf, Alive, TypeOK
    <3>4. Append(handlers[bound[cur]], ClassOf(cur).executes) # <<>>
      BY <3>2, <3>3
    <3> QED
      BY <3>1, <3>2, <3>4
  <2>5. \A f \in cq' : f[2] = "call" /\ f[3] = "ok" => HasCall(f[1])' /\ handlers'[bound'[f[1]]] = <<>>
    <3>1. SUFFICES ASSUME NEW f \in cq, f[2] = "call", f[3] = "ok"
                   PROVE  HasCall(f[1])' /\ handlers'[bound[f[1]]] = <<>>
      BY <2>2
    <3>2. HasCall(f[1]) /\ handlers[bound[f[1]]] = <<>>
      BY <3>1 DEF CallInv
    <3>3. f[1] \in Alive /\ f[1] # cur
      <4>1. ~Held(cur)
        BY <1>9 DEF Handle, OwnedInv, ControlInv
      <4> QED
        BY <3>1, <4>1 DEF HeldInv, Held, InQueue
    <3>4. bound[f[1]] # bound[cur]
      BY <2>1, <3>2, <3>3 DEF BoundInv, HasCall, Alive, TypeOK
    <3> QED
      BY <2>3, <2>4, <3>2, <3>4 DEF HasCall
  <2>6. \A p \in sending' : bound'[p] \in Calls /\ handlers'[bound'[p]] # <<>>
    BY <2>2, <2>4 DEF CallInv
  <2> QED
    BY <2>1, <2>2, <2>3, <2>4, <2>5, <2>6 DEF CallInv
<1>10. CASE HandlerReturns
  BY <1>10 DEF HandlerReturns, TypeOK, ControlInv, OwnedInv, HeldInv, StateInv, BoundInv, CallInv,
     HasCall, ClassOf, Alive, Held, InQueue
<1>11. CASE FinishReply
  BY <1>11
     DEF FinishReply, TypeOK, ControlInv, OwnedInv, HeldInv, StateInv, BoundInv, CallInv, HasCall,
         ClassOf, Alive, Held, InQueue
<1>12. CASE MarkFinished
  BY <1>12 DEF MarkFinished, TypeOK, ControlInv, OwnedInv, HeldInv, StateInv, BoundInv, CallInv,
     HasCall, ClassOf, Alive, Held, InQueue
<1>13. CASE Throw
  <2>1. \A e \in cq' : e \in cq \/ (e[1] \in slots /\ e[2] = "call" /\ e = <<e[1], "call", "failed">>)
    BY <1>13 DEF Throw

  <2>2. /\ pc = "handling" /\ pc' = "shutdown" /\ cur' = cur /\ state' = state /\ bound' = bound
        /\ wish' = wish /\ class' = class /\ handlers' = handlers /\ sending' = sending
    BY <1>13 DEF Throw
  <2>3. \A p : HasCall(p)' <=> HasCall(p)
    BY <2>2 DEF HasCall, ClassOf
  <2>4. \A f \in cq' : f[2] = "call" /\ f[3] = "ok" => f \in cq
    BY <2>1
  <2>5. \A f \in cq' : f[2] = "call" /\ f[3] = "ok" => HasCall(f[1])' /\ handlers'[bound'[f[1]]] = <<>>
    BY <2>2, <2>3, <2>4 DEF CallInv
  <2> QED
    BY <2>2, <2>3, <2>5 DEF CallInv
<1>14. CASE ShutdownReturns
  BY <1>14
     DEF ShutdownReturns, TypeOK, ControlInv, OwnedInv, HeldInv, StateInv, BoundInv, CallInv,
         HasCall, ClassOf, Alive, Held, InQueue
<1>15. CASE Drain
  BY <1>15 DEF Drain, TypeOK, ControlInv, OwnedInv, HeldInv, StateInv, BoundInv, CallInv, HasCall,
     ClassOf, Alive, Held, InQueue
<1>16. CASE End
  BY <1>16
     DEF End, Lost, TypeOK, ControlInv, OwnedInv, HeldInv, StateInv, BoundInv, CallInv, HasCall,
         ClassOf, Alive, Held, InQueue
<1>17. ASSUME NEW c \in Calls, NEW p \in Procs, Accept(c, p) PROVE CallInv'
  <2>1. \A e \in cq' : e \in cq \/ (e[1] = p /\ e = <<p, "call", "ok">>)
    BY <1>17 DEF Accept
  <2>2. p \in slots /\ slots' = slots \ {p} /\ sending' = sending /\ class' = class
    BY <1>17 DEF Accept
  <2>3. \A e \in cq : e[1] # p
    BY <2>2 DEF HeldInv

  <2>4. /\ pc' = pc /\ cur' = cur /\ state' = state /\ wish' = wish
        /\ handlers' = handlers /\ status[c] = "pending" /\ ClassOf(p).requests = wish[c]
        /\ bound' = [bound EXCEPT ![p] = c]
    BY <1>17 DEF Accept
  <2>5. \A q \in Procs : q # p => bound'[q] = bound[q] /\ (HasCall(q)' <=> HasCall(q))
    BY <2>2, <2>4 DEF HasCall, ClassOf, TypeOK
  <2>6. bound'[p] = c /\ HasCall(p)' /\ handlers[c] = <<>>
    BY <2>2, <2>4 DEF HasCall, ClassOf, BoundInv, TypeOK
  <2>7. \A f \in cq' : f[2] = "call" /\ f[3] = "ok" => HasCall(f[1])' /\ handlers'[bound'[f[1]]] = <<>>
    <3>1. SUFFICES ASSUME NEW f \in cq', f[2] = "call", f[3] = "ok"
                   PROVE  HasCall(f[1])' /\ handlers'[bound'[f[1]]] = <<>>
      OBVIOUS
    <3>2. CASE f[1] = p
      BY <2>4, <2>6, <3>2
    <3>3. CASE f[1] # p
      <4>1. f \in cq /\ f[1] \in Procs
        BY <2>1, <3>3 DEF TypeOK
      <4> QED
        BY <2>4, <2>5, <3>1, <3>3, <4>1 DEF CallInv
    <3> QED
      BY <3>2, <3>3
  <2>8. cur # NoProc /\ pc # "mark" => p # cur
    BY <2>2 DEF OwnedInv, Held
  <2>9. cur # NoProc => p # cur
    <3>1. cur # NoProc /\ pc = "mark" => cur \in sending \/ InQueue(cur)
      BY DEF OwnedInv
    <3>2. p \notin sending /\ ~InQueue(p)
      BY <2>2, <2>3 DEF HeldInv, InQueue
    <3> QED
      BY <2>8, <3>1, <3>2
  <2>10. \A q \in sending' : bound'[q] \in Calls /\ handlers'[bound'[q]] # <<>>
    <3>1. \A q \in sending : q \in Procs /\ q # p
      BY <2>2 DEF HeldInv, TypeOK
    <3> QED
      BY <2>2, <2>4, <2>5, <3>1 DEF CallInv
  <2>11. cur # NoProc => cur \in Procs
    BY DEF TypeOK
  <2> QED
    BY <2>4, <2>5, <2>7, <2>9, <2>10, <2>11 DEF CallInv
<1>18. ASSUME NEW p \in Procs, Reply(p) PROVE CallInv'
  BY <1>18 DEF Reply, TypeOK, ControlInv, OwnedInv, HeldInv, StateInv, BoundInv, CallInv, HasCall,
     ClassOf, Alive, Held, InQueue
<1>19. ASSUME NEW c \in Calls, Send(c) PROVE CallInv'
  BY <1>19 DEF Send, TypeOK, ControlInv, OwnedInv, HeldInv, StateInv, BoundInv, CallInv, HasCall,
     ClassOf, Alive, Held, InQueue
<1>20. ASSUME NEW c \in Calls, Cancel(c) PROVE CallInv'
  BY <1>20
     DEF Cancel, TypeOK, ControlInv, OwnedInv, HeldInv, StateInv, BoundInv, CallInv, HasCall,
         ClassOf, Alive, Held, InQueue
<1>21. CASE UNCHANGED vars
  BY <1>21 DEF vars, TypeOK, ControlInv, OwnedInv, HeldInv, StateInv, BoundInv, CallInv, HasCall,
     ClassOf, Alive, Held, InQueue
<1> QED
  BY <1>1, <1>2, <1>3, <1>4, <1>5, <1>6, <1>7, <1>8, <1>9, <1>10, <1>11, <1>12, <1>13, <1>14,
     <1>15, <1>16, <1>17, <1>18, <1>19, <1>20, <1>21
     DEF Moves

LEMMA HandledOnceStays == IInv /\ Moves => HandledOnce'
<1> SUFFICES ASSUME IInv, Moves PROVE HandledOnce'
  OBVIOUS
<1> USE ServerAssumption DEF IInv, thread, objects, core, client
<1>1. CASE Start
  BY <1>1, ClassFacts
     DEF Start, TypeOK, ControlInv, OwnedInv, StateInv, BoundInv, CallInv, HasCall, HandledOnce,
         ClassOf, Alive
<1>2. CASE Enable
  BY <1>2, ClassFacts
     DEF Enable, Create, TypeOK, ControlInv, OwnedInv, StateInv, BoundInv, CallInv, HasCall,
         HandledOnce, ClassOf, Alive
<1>3. CASE Enabled
  BY <1>3, ClassFacts
     DEF Enabled, TypeOK, ControlInv, OwnedInv, StateInv, BoundInv, CallInv, HasCall, HandledOnce,
         ClassOf, Alive
<1>4. CASE InitProcess
  BY <1>4, ClassFacts
     DEF InitProcess, TypeOK, ControlInv, OwnedInv, StateInv, BoundInv, CallInv, HasCall,
         HandledOnce, ClassOf, Alive
<1>5. CASE InsertProcess
  BY <1>5, ClassFacts
     DEF InsertProcess, TypeOK, ControlInv, OwnedInv, StateInv, BoundInv, CallInv, HasCall,
         HandledOnce, ClassOf, Alive
<1>6. CASE Poll
  BY <1>6, ClassFacts
     DEF Poll, TypeOK, ControlInv, OwnedInv, StateInv, BoundInv, CallInv, HasCall, HandledOnce,
         ClassOf, Alive
<1>7. CASE ExecuteWaiting
  BY <1>7, ClassFacts
     DEF ExecuteWaiting, Create, TypeOK, ControlInv, OwnedInv, StateInv, BoundInv, CallInv,
         HasCall, HandledOnce, ClassOf, Alive
<1>8. CASE ExecuteFinished
  BY <1>8, ClassFacts
     DEF ExecuteFinished, TypeOK, ControlInv, OwnedInv, StateInv, BoundInv, CallInv, HasCall,
         HandledOnce, ClassOf, Alive
<1>9. CASE Handle
  BY <1>9, ClassFacts
     DEF Handle, RunHandler, TypeOK, ControlInv, OwnedInv, StateInv, BoundInv, CallInv, HasCall,
         HandledOnce, ClassOf, Alive
<1>10. CASE HandlerReturns
  BY <1>10, ClassFacts
     DEF HandlerReturns, TypeOK, ControlInv, OwnedInv, StateInv, BoundInv, CallInv, HasCall,
         HandledOnce, ClassOf, Alive
<1>11. CASE FinishReply
  BY <1>11, ClassFacts
     DEF FinishReply, TypeOK, ControlInv, OwnedInv, StateInv, BoundInv, CallInv, HasCall,
         HandledOnce, ClassOf, Alive
<1>12. CASE MarkFinished
  BY <1>12, ClassFacts
     DEF MarkFinished, TypeOK, ControlInv, OwnedInv, StateInv, BoundInv, CallInv, HasCall,
         HandledOnce, ClassOf, Alive
<1>13. CASE Throw
  BY <1>13, ClassFacts
     DEF Throw, Lost, TypeOK, ControlInv, OwnedInv, StateInv, BoundInv, CallInv, HasCall,
         HandledOnce, ClassOf, Alive
<1>14. CASE ShutdownReturns
  BY <1>14, ClassFacts
     DEF ShutdownReturns, TypeOK, ControlInv, OwnedInv, StateInv, BoundInv, CallInv, HasCall,
         HandledOnce, ClassOf, Alive
<1>15. CASE Drain
  BY <1>15, ClassFacts
     DEF Drain, TypeOK, ControlInv, OwnedInv, StateInv, BoundInv, CallInv, HasCall, HandledOnce,
         ClassOf, Alive
<1>16. CASE End
  BY <1>16, ClassFacts
     DEF End, Lost, TypeOK, ControlInv, OwnedInv, StateInv, BoundInv, CallInv, HasCall,
         HandledOnce, ClassOf, Alive
<1>17. ASSUME NEW c \in Calls, NEW p \in Procs, Accept(c, p) PROVE HandledOnce'
  BY <1>17, ClassFacts
     DEF Accept, TypeOK, ControlInv, OwnedInv, StateInv, BoundInv, CallInv, HasCall, HandledOnce,
         ClassOf, Alive
<1>18. ASSUME NEW p \in Procs, Reply(p) PROVE HandledOnce'
  BY <1>18, ClassFacts
     DEF Reply, TypeOK, ControlInv, OwnedInv, StateInv, BoundInv, CallInv, HasCall, HandledOnce,
         ClassOf, Alive
<1>19. ASSUME NEW c \in Calls, Send(c) PROVE HandledOnce'
  BY <1>19, ClassFacts
     DEF Send, TypeOK, ControlInv, OwnedInv, StateInv, BoundInv, CallInv, HasCall, HandledOnce,
         ClassOf, Alive
<1>20. ASSUME NEW c \in Calls, Cancel(c) PROVE HandledOnce'
  BY <1>20, ClassFacts
     DEF Cancel, TypeOK, ControlInv, OwnedInv, StateInv, BoundInv, CallInv, HasCall, HandledOnce,
         ClassOf, Alive
<1>21. CASE UNCHANGED vars
  BY <1>21, ClassFacts
     DEF vars, TypeOK, ControlInv, OwnedInv, StateInv, BoundInv, CallInv, HasCall, HandledOnce,
         ClassOf, Alive
<1> QED
  BY <1>1, <1>2, <1>3, <1>4, <1>5, <1>6, <1>7, <1>8, <1>9, <1>10, <1>11, <1>12, <1>13, <1>14,
     <1>15, <1>16, <1>17, <1>18, <1>19, <1>20, <1>21
     DEF Moves

-----------------------------------------------------------------------------
(* The theorems *)

LEMMA InitInv == Init => IInv
<1> SUFFICES ASSUME Init PROVE IInv
  OBVIOUS
<1> USE ServerAssumption
<1>1. TypeOK
  <2>1. 0 \in 0..Len(Registration)
    BY RegistrationFacts
  <2> QED
    BY <2>1 DEF Init, TypeOK
<1>2. Alive = {} /\ cq = {} /\ slots = {} /\ sending = {} /\ pc = "down" /\ cur = NoProc /\ fresh = NoProc
  BY DEF Init, Alive
<1>3. ControlInv /\ HeldInv /\ OwnedInv /\ StateInv /\ ListenInv /\ FreshInv
  BY <1>2 DEF ControlInv, HeldInv, OwnedInv, StateInv, ListenInv, FreshInv, Closing
<1>4. RegisteredInv
  BY <1>2 DEF Init, RegisteredInv
<1>5. BoundInv
  BY DEF Init, BoundInv
<1>6. CallInv
  BY <1>2 DEF CallInv
<1>7. HandledOnce
  BY DEF Init, HandledOnce
<1> QED
  BY <1>1, <1>3, <1>4, <1>5, <1>6, <1>7 DEF IInv

\* The process that the queue hands to executeProcess is registered.
LEMMA NeverUndefined == IInv /\ pc = "execute" => Registered(cur)
BY ServerAssumption, ClassFacts
   DEF IInv, TypeOK, ControlInv, RegisteredInv, Registered, Alive, ServiceOf, ClassOf

LEMMA NextMoves == IInv /\ [Next]_vars => Moves
<1> SUFFICES ASSUME IInv, [Next]_vars PROVE Moves
  OBVIOUS
<1>1. CASE Thread
  <2>1. ExecuteProcess => ExecuteWaiting \/ ExecuteFinished
    BY NeverUndefined DEF ExecuteProcess
  <2>2. Exit => pc # "down" /\ End
    BY DEF Exit
  <2> QED
    BY <1>1, <2>1, <2>2 DEF Thread, Moves
<1>2. CASE Core
  BY <1>2 DEF Core, Moves
<1>3. CASE Crash
  BY <1>3 DEF Crash, Moves
<1>4. CASE \E c \in Calls : Send(c) \/ Cancel(c)
  BY <1>4 DEF Moves
<1>5. CASE Start \/ Throw \/ UNCHANGED vars
  BY <1>5 DEF Moves
<1> QED
  BY <1>1, <1>2, <1>3, <1>4, <1>5 DEF Next

LEMMA StepInv == IInv /\ [Next]_vars => IInv'
BY NextMoves, TypeStays, ControlStays, HeldStays, OwnedStays, RegisteredStays, StateStays,
   ListenStays, FreshStays, BoundStays, CallStays, HandledOnceStays
   DEF IInv

THEOREM Invariance == Spec => []IInv
<1>1. Init => IInv
  BY InitInv
<1>2. IInv /\ [Next]_vars => IInv'
  BY StepInv
<1> QED
  BY <1>1, <1>2, PTL DEF Spec

\* The variables have their types; in particular the thread never reaches the deletion
\* of a tag that is not registered (Server.cpp, 88 and 95).
THEOREM TypeCorrect == Spec => []TypeOK
<1>1. IInv => TypeOK
  BY DEF IInv
<1> QED
  BY <1>1, Invariance, PTL

\* No method is ever left without a listener or given a second one, however many
\* processes exist and in whatever order calls and replies complete.
THEOREM OneListenerEach == Spec => []OneListener
<1>1. IInv => OneListener
  <2> SUFFICES ASSUME IInv, pc = "next", NEW k \in ClassNames
               PROVE  /\ \E p \in Procs : Listens(p, k)
                      /\ \A p, q \in Procs : Listens(p, k) /\ Listens(q, k) => p = q
    BY DEF OneListener
  <2>1. ~Deaf(k)
    BY DEF Deaf
  <2> QED
    BY <2>1 DEF IInv, ListenInv, Closing
<1> QED
  BY <1>1, Invariance, PTL

\* gRPC never holds the address of a destroyed process, nor one address twice.
THEOREM TagsStayAlive == Spec => []TagsAlive
<1>1. IInv => TagsAlive
  <2> SUFFICES ASSUME IInv PROVE TagsAlive
    OBVIOUS
  <2>1. Tags \subseteq Alive
    BY DEF IInv, HeldInv, TypeOK, Tags
  <2>2. slots \cap sending = {}
    BY DEF IInv, HeldInv
  <2> QED
    BY <2>1, <2>2 DEF TagsAlive, IInv, HeldInv
<1> QED
  BY <1>1, Invariance, PTL

\* No process is leaked in processes_, and no tag misses there.
THEOREM RegisteredAreTags == Spec => []RegisteredAreHeld
<1>1. IInv => RegisteredAreHeld
  <2> SUFFICES ASSUME IInv, pc = "next" PROVE Tags = UNION {processes[s] : s \in Services}
    BY DEF RegisteredAreHeld
  <2>1. cur = NoProc /\ fresh = NoProc /\ NoProc \notin Procs
    BY ServerAssumption DEF IInv, ControlInv
  <2>2. \A p : p \in Tags <=> Held(p)
    BY DEF Tags, Held, InQueue
  <2>3. \A p \in Procs : Held(p) <=> p \in Alive
    BY <2>1 DEF IInv, OwnedInv, HeldInv, Held, InQueue, Closing, Alive
  <2>4. \A p : Held(p) => p \in Procs
    BY DEF IInv, HeldInv, Held, InQueue, Alive, TypeOK
  <2>5. \A p \in Alive : ServiceOf(p) \in Services
    BY ClassFacts DEF IInv, TypeOK, Alive, ServiceOf, ClassOf
  <2>6. \A p \in Procs : p \in Alive <=> \E s \in Services : p \in processes[s]
    BY <2>1, <2>5 DEF IInv, RegisteredInv
  <2>7. \A s \in Services : processes[s] \subseteq Procs
    BY DEF IInv, TypeOK
  <2> QED
    BY <2>2, <2>3, <2>4, <2>6, <2>7
<1> QED
  BY <1>1, Invariance, PTL

\* state_ tells the thread which operation of a tag has completed, and what it takes
\* off the queue as a call is one.
THEOREM StateTells == Spec => []StateTellsOperation
<1>1. IInv => StateTellsOperation
  BY ServerAssumption DEF IInv, StateTellsOperation, StateInv, ControlInv, TypeOK, Closing
<1> QED
  BY <1>1, Invariance, PTL

\* A call is handled at most once, by its own handler, and before it is answered.
THEOREM EachHandledOnce == Spec => []HandledOnce
<1>1. IInv => HandledOnce
  BY DEF IInv
<1> QED
  BY <1>1, Invariance, PTL

-----------------------------------------------------------------------------
(* The loop serves the calls as RpcService says *)

\* No process waits for a call once the port is closed.
ClosedInv == pc \in Closing => slots = {}

\* The process p has been given the next call of method m, and is in the queue with it.
Waits(p, m) ==
    pc \notin Closing /\ <<p, "call", "ok">> \in cq /\ ClassOf(p).requests = m

\* What SeatOf chooses: there is one process at most.
SeatsInv ==
    \A m \in Methods :
        /\ \A p \in Procs : Waits(p, m) => SeatOf(m) = bound[p]
        /\ (\A p \in Procs : ~Waits(p, m)) => SeatOf(m) = NoCall

\* Each method has a class of its own.
LEMMA RequestsDiffer ==
    \A k, l \in ClassNames : Classes[k].requests = Classes[l].requests => k = l
BY DEF ClassNames, Classes, Services, Methods, ProcessClass, ListMemosProcess, AddMemoProcess,
       RemoveMemoProcess, UpdateMemoProcess, ListTagsProcess, AddTagProcess,
       UpdateTagProcess, RemoveTagProcess

\* Two processes that have or may have the next call of one method are the same.
LEMMA OneWaits ==
    ASSUME IInv, pc \notin Closing, NEW p \in Procs, NEW q \in Procs,
           <<p, "call", "ok">> \in cq, <<q, "call", "ok">> \in cq \/ q \in slots,
           ClassOf(p).requests = ClassOf(q).requests
    PROVE  p = q
<1>1. pc # "down" /\ p \in Alive /\ q \in Alive
  BY DEF IInv, HeldInv, ControlInv
<1>2. class[p] \in ClassNames /\ class[q] = class[p]
  BY <1>1, RequestsDiffer DEF IInv, TypeOK, Alive, ClassOf
<1>3. Listens(p, class[p]) /\ Listens(q, class[p])
  BY <1>2 DEF Listens
<1> QED
  BY <1>1, <1>2, <1>3 DEF IInv, ListenInv

LEMMA SeatsHold == IInv => SeatsInv
<1> SUFFICES ASSUME IInv, NEW m \in Methods
             PROVE  /\ \A p \in Procs : Waits(p, m) => SeatOf(m) = bound[p]
                    /\ (\A p \in Procs : ~Waits(p, m)) => SeatOf(m) = NoCall
  BY DEF SeatsInv
<1> DEFINE waiting == {e[1] : e \in {f \in cq : f[2] = "call" /\ f[3] = "ok"}}
<1>1. \A p : p \in waiting <=> <<p, "call", "ok">> \in cq
  <2>1. \A e \in cq : e = <<e[1], e[2], e[3]>>
    BY DEF IInv, TypeOK
  <2>2. \A p : <<p, "call", "ok">> \in cq => p \in waiting
    <3> SUFFICES ASSUME NEW e \in cq, e[2] = "call", e[3] = "ok" PROVE e[1] \in waiting
      OBVIOUS
    <3> QED
      OBVIOUS
  <2>3. \A p : p \in waiting => <<p, "call", "ok">> \in cq
    BY <2>1
  <2> QED
    BY <2>2, <2>3
<1>2. waiting \subseteq Procs
  BY <1>1 DEF IInv, TypeOK
<1> HIDE DEF waiting
<1>3. SeatOf(m) = IF pc \notin Closing /\ \E p \in waiting : ClassOf(p).requests = m
                  THEN bound[CHOOSE p \in waiting : ClassOf(p).requests = m]
                  ELSE NoCall
  BY DEF SeatOf, Closing, waiting
<1>4. ASSUME NEW p \in Procs, Waits(p, m) PROVE SeatOf(m) = bound[p]
  <2> DEFINE q == CHOOSE q \in waiting : ClassOf(q).requests = m
  <2>1. q \in waiting /\ ClassOf(q).requests = m
    BY <1>1, <1>4 DEF Waits
  <2>2. SeatOf(m) = bound[q]
    BY <1>1, <1>3, <1>4 DEF Waits
  <2> HIDE DEF q
  <2> QED
    BY <1>1, <1>2, <1>4, <2>1, <2>2, OneWaits DEF Waits
<1>5. ASSUME \A p \in Procs : ~Waits(p, m) PROVE SeatOf(m) = NoCall
  BY <1>1, <1>2, <1>3, <1>5 DEF Waits
<1> QED
  BY <1>4, <1>5

\* A step that leaves the waiting processes and their calls alone leaves the seat alone.
LEMMA SeatKept ==
    ASSUME SeatsInv, SeatsInv', NEW m \in Methods,
           \A p \in Procs : Waits(p, m)' <=> Waits(p, m),
           \A p \in Procs : Waits(p, m) => bound'[p] = bound[p]
    PROVE  SeatOf(m)' = SeatOf(m)
BY DEF SeatsInv

LEMMA ClosedStays == IInv /\ ClosedInv /\ [Next]_vars => ClosedInv'
<1> SUFFICES ASSUME IInv, ClosedInv, Moves PROVE ClosedInv'
  BY NextMoves
<1> QED
  BY DEF Moves, ClosedInv, Closing, IInv, TypeOK, vars, thread, objects, core, client,
         Start, Enable, Create, Enabled, InitProcess, InsertProcess, Poll, ExecuteWaiting,
         ExecuteFinished, Handle, HandlerReturns, FinishReply, MarkFinished, Throw,
         ShutdownReturns, Drain, End, Accept, Reply, Send, Cancel

\* Every step of the loop is a step of RpcService or none.
LEMMA RpcStep ==
    ASSUME IInv, ClosedInv, SeatsInv, SeatsInv', IInv', [Next]_vars
    PROVE  [Rpc!Next]_(Rpc!vars)
<1>0. Moves
  BY NextMoves
<1> USE ServerAssumption DEF IInv, thread, objects, core, client
<1>1. CASE Start
  <2>1. \A m \in Methods, p \in Procs : ~Waits(p, m) /\ ~Waits(p, m)'
    BY <1>1 DEF Start, ControlInv, HeldInv, Waits
  <2>2. \A m \in Methods : SeatOf(m)' = SeatOf(m)
    BY <2>1, SeatKept
  <2>3. Serving' = Serving /\ Handled' = Handled
    BY <1>1 DEF Start, ControlInv, Serving, Handled
  <2>4. Up = "down" /\ Up' = "up"
    BY <1>1 DEF Start, Up
  <2>5. Rpc!Boot
    BY <1>1, <2>2, <2>3, <2>4 DEF Start, Rpc!Boot
  <2> QED
    BY <2>5 DEF Rpc!Next
<1>2. CASE Enable
  <2>1. \A m \in Methods, p \in Procs :
           (Waits(p, m)' <=> Waits(p, m)) /\ (Waits(p, m) => bound'[p] = bound[p])
    BY <1>2 DEF Enable, Create, TypeOK, ControlInv, OwnedInv, HeldInv, Held, InQueue, Alive, Closing, Waits, ClassOf
  <2>2. \A m \in Methods : SeatOf(m)' = SeatOf(m)
    BY <2>1, SeatKept
  <2>3. Serving' = Serving /\ Handled' = Handled /\ Up' = Up
    BY <1>2 DEF Enable, Create, TypeOK, ControlInv, OwnedInv, HeldInv, StateInv, Held, InQueue, Alive, Serving, Handled, Up
  <2>4. UNCHANGED <<wish, status>>
    BY <1>2 DEF Enable, Create
  <2> QED
    BY <2>2, <2>3, <2>4 DEF Rpc!vars
<1>3. CASE Enabled
  <2>1. \A m \in Methods, p \in Procs :
           (Waits(p, m)' <=> Waits(p, m)) /\ (Waits(p, m) => bound'[p] = bound[p])
    BY <1>3 DEF Enabled, TypeOK, ControlInv, OwnedInv, HeldInv, Held, InQueue, Alive, Closing, Waits, ClassOf
  <2>2. \A m \in Methods : SeatOf(m)' = SeatOf(m)
    BY <2>1, SeatKept
  <2>3. Serving' = Serving /\ Handled' = Handled /\ Up' = Up
    BY <1>3 DEF Enabled, TypeOK, ControlInv, OwnedInv, HeldInv, StateInv, Held, InQueue, Alive, Serving, Handled, Up
  <2>4. UNCHANGED <<wish, status>>
    BY <1>3 DEF Enabled
  <2> QED
    BY <2>2, <2>3, <2>4 DEF Rpc!vars
<1>4. CASE InitProcess
  <2>1. \A m \in Methods, p \in Procs :
           (Waits(p, m)' <=> Waits(p, m)) /\ (Waits(p, m) => bound'[p] = bound[p])
    BY <1>4 DEF InitProcess, TypeOK, ControlInv, OwnedInv, HeldInv, Held, InQueue, Alive, Closing, Waits, ClassOf
  <2>2. \A m \in Methods : SeatOf(m)' = SeatOf(m)
    BY <2>1, SeatKept
  <2>3. Serving' = Serving /\ Handled' = Handled /\ Up' = Up
    BY <1>4 DEF InitProcess, TypeOK, ControlInv, OwnedInv, HeldInv, StateInv, Held, InQueue, Alive, Serving, Handled, Up
  <2>4. UNCHANGED <<wish, status>>
    BY <1>4 DEF InitProcess
  <2> QED
    BY <2>2, <2>3, <2>4 DEF Rpc!vars
<1>5. CASE InsertProcess
  <2>1. \A m \in Methods, p \in Procs :
           (Waits(p, m)' <=> Waits(p, m)) /\ (Waits(p, m) => bound'[p] = bound[p])
    BY <1>5 DEF InsertProcess, TypeOK, ControlInv, OwnedInv, HeldInv, Held, InQueue, Alive, Closing, Waits, ClassOf
  <2>2. \A m \in Methods : SeatOf(m)' = SeatOf(m)
    BY <2>1, SeatKept
  <2>3. Serving' = Serving /\ Handled' = Handled /\ Up' = Up
    BY <1>5 DEF InsertProcess, TypeOK, ControlInv, OwnedInv, HeldInv, StateInv, Held, InQueue, Alive, Serving, Handled, Up
  <2>4. UNCHANGED <<wish, status>>
    BY <1>5 DEF InsertProcess
  <2> QED
    BY <2>2, <2>3, <2>4 DEF Rpc!vars
<1>6. CASE ExecuteWaiting
  <2>1. \A m \in Methods, p \in Procs :
           (Waits(p, m)' <=> Waits(p, m)) /\ (Waits(p, m) => bound'[p] = bound[p])
    BY <1>6 DEF ExecuteWaiting, Create, TypeOK, ControlInv, OwnedInv, HeldInv, Held, InQueue, Alive, Closing, Waits, ClassOf
  <2>2. \A m \in Methods : SeatOf(m)' = SeatOf(m)
    BY <2>1, SeatKept
  <2>3. Serving' = Serving /\ Handled' = Handled /\ Up' = Up
    BY <1>6 DEF ExecuteWaiting, Create, TypeOK, ControlInv, OwnedInv, HeldInv, StateInv, Held, InQueue, Alive, Serving, Handled, Up
  <2>4. UNCHANGED <<wish, status>>
    BY <1>6 DEF ExecuteWaiting, Create
  <2> QED
    BY <2>2, <2>3, <2>4 DEF Rpc!vars
<1>7. CASE ExecuteFinished
  <2>1. \A m \in Methods, p \in Procs :
           (Waits(p, m)' <=> Waits(p, m)) /\ (Waits(p, m) => bound'[p] = bound[p])
    BY <1>7 DEF ExecuteFinished, TypeOK, ControlInv, OwnedInv, HeldInv, Held, InQueue, Alive, Closing, Waits, ClassOf
  <2>2. \A m \in Methods : SeatOf(m)' = SeatOf(m)
    BY <2>1, SeatKept
  <2>3. Serving' = Serving /\ Handled' = Handled /\ Up' = Up
    BY <1>7 DEF ExecuteFinished, TypeOK, ControlInv, OwnedInv, HeldInv, StateInv, Held, InQueue, Alive, Serving, Handled, Up
  <2>4. UNCHANGED <<wish, status>>
    BY <1>7 DEF ExecuteFinished
  <2> QED
    BY <2>2, <2>3, <2>4 DEF Rpc!vars
<1>8. CASE FinishReply
  <2>1. \A m \in Methods, p \in Procs :
           (Waits(p, m)' <=> Waits(p, m)) /\ (Waits(p, m) => bound'[p] = bound[p])
    BY <1>8 DEF FinishReply, TypeOK, ControlInv, OwnedInv, HeldInv, Held, InQueue, Alive, Closing, Waits, ClassOf
  <2>2. \A m \in Methods : SeatOf(m)' = SeatOf(m)
    BY <2>1, SeatKept
  <2>3. Serving' = Serving /\ Handled' = Handled /\ Up' = Up
    BY <1>8 DEF FinishReply, TypeOK, ControlInv, OwnedInv, HeldInv, StateInv, Held, InQueue, Alive, Serving, Handled, Up
  <2>4. UNCHANGED <<wish, status>>
    BY <1>8 DEF FinishReply
  <2> QED
    BY <2>2, <2>3, <2>4 DEF Rpc!vars
<1>9. CASE MarkFinished
  <2>1. \A m \in Methods, p \in Procs :
           (Waits(p, m)' <=> Waits(p, m)) /\ (Waits(p, m) => bound'[p] = bound[p])
    BY <1>9 DEF MarkFinished, TypeOK, ControlInv, OwnedInv, HeldInv, Held, InQueue, Alive, Closing, Waits, ClassOf
  <2>2. \A m \in Methods : SeatOf(m)' = SeatOf(m)
    BY <2>1, SeatKept
  <2>3. Serving' = Serving /\ Handled' = Handled /\ Up' = Up
    BY <1>9 DEF MarkFinished, TypeOK, ControlInv, OwnedInv, HeldInv, StateInv, Held, InQueue, Alive, Serving, Handled, Up
  <2>4. UNCHANGED <<wish, status>>
    BY <1>9 DEF MarkFinished
  <2> QED
    BY <2>2, <2>3, <2>4 DEF Rpc!vars
<1>10. CASE ShutdownReturns
  <2>1. \A m \in Methods, p \in Procs :
           (Waits(p, m)' <=> Waits(p, m)) /\ (Waits(p, m) => bound'[p] = bound[p])
    BY <1>10 DEF ShutdownReturns, TypeOK, ControlInv, OwnedInv, HeldInv, Held, InQueue, Alive, Closing, Waits, ClassOf
  <2>2. \A m \in Methods : SeatOf(m)' = SeatOf(m)
    BY <2>1, SeatKept
  <2>3. Serving' = Serving /\ Handled' = Handled /\ Up' = Up
    BY <1>10 DEF ShutdownReturns, TypeOK, ControlInv, OwnedInv, HeldInv, StateInv, Held, InQueue, Alive, Serving, Handled, Up
  <2>4. UNCHANGED <<wish, status>>
    BY <1>10 DEF ShutdownReturns
  <2> QED
    BY <2>2, <2>3, <2>4 DEF Rpc!vars
<1>11. CASE Drain
  <2>1. \A m \in Methods, p \in Procs :
           (Waits(p, m)' <=> Waits(p, m)) /\ (Waits(p, m) => bound'[p] = bound[p])
    BY <1>11 DEF Drain, TypeOK, ControlInv, OwnedInv, HeldInv, Held, InQueue, Alive, Closing, Waits, ClassOf
  <2>2. \A m \in Methods : SeatOf(m)' = SeatOf(m)
    BY <2>1, SeatKept
  <2>3. Serving' = Serving /\ Handled' = Handled /\ Up' = Up
    BY <1>11 DEF Drain, TypeOK, ControlInv, OwnedInv, HeldInv, StateInv, Held, InQueue, Alive, Serving, Handled, Up
  <2>4. UNCHANGED <<wish, status>>
    BY <1>11 DEF Drain
  <2> QED
    BY <2>2, <2>3, <2>4 DEF Rpc!vars
<1>12. CASE UNCHANGED vars
  <2>1. \A m \in Methods, p \in Procs :
           (Waits(p, m)' <=> Waits(p, m)) /\ (Waits(p, m) => bound'[p] = bound[p])
    BY <1>12 DEF vars, TypeOK, ControlInv, OwnedInv, HeldInv, Held, InQueue, Alive, Closing, Waits, ClassOf
  <2>2. \A m \in Methods : SeatOf(m)' = SeatOf(m)
    BY <2>1, SeatKept
  <2>3. Serving' = Serving /\ Handled' = Handled /\ Up' = Up
    BY <1>12 DEF vars, TypeOK, ControlInv, OwnedInv, HeldInv, StateInv, Held, InQueue, Alive, Serving, Handled, Up
  <2>4. UNCHANGED <<wish, status>>
    BY <1>12 DEF vars
  <2> QED
    BY <2>2, <2>3, <2>4 DEF Rpc!vars
<1>13. CASE Handle
  <2>1. \A m \in Methods, p \in Procs :
           (Waits(p, m)' <=> Waits(p, m)) /\ (Waits(p, m) => bound'[p] = bound[p])
    BY <1>13 DEF Handle, Closing, Waits, ClassOf
  <2>2. \A m \in Methods : SeatOf(m)' = SeatOf(m)
    BY <2>1, SeatKept
  <2>3. Serving = bound[cur] /\ Serving' = bound[cur] /\ bound[cur] \in Calls
    BY <1>13 DEF Handle, ControlInv, StateInv, CallInv, HasCall, Serving
  <2>4. Handled' = Handled \cup {Serving} /\ Serving \notin Handled
    <3>1. handlers[bound[cur]] = <<>>
      BY <1>13 DEF Handle, ControlInv, StateInv, CallInv
    <3>2. handlers'[bound[cur]] # <<>>
      BY <1>13, <2>3 DEF Handle, CallInv, HasCall, ControlInv, StateInv, TypeOK
    <3>3. \A c \in Calls : c # bound[cur] => handlers'[c] = handlers[c]
      BY <1>13, <2>3 DEF Handle, RunHandler, TypeOK
    <3> QED
      BY <2>3, <3>1, <3>2, <3>3 DEF Handled
  <2>5. Up = "up" /\ Up' = "up"
    BY <1>13 DEF Handle, Up
  <2>6. Rpc!Enter
    BY <1>13, <2>2, <2>3, <2>4, <2>5 DEF Handle, Rpc!Enter
  <2> QED
    BY <2>6 DEF Rpc!Next
<1>14. CASE HandlerReturns
  <2>1. \A m \in Methods, p \in Procs :
           (Waits(p, m)' <=> Waits(p, m)) /\ (Waits(p, m) => bound'[p] = bound[p])
    BY <1>14 DEF HandlerReturns, Closing, Waits, ClassOf
  <2>2. \A m \in Methods : SeatOf(m)' = SeatOf(m)
    BY <2>1, SeatKept
  <2>3. Serving \in Handled /\ Serving' = NoCall /\ Handled' = Handled
    BY <1>14 DEF HandlerReturns, ControlInv, StateInv, CallInv, HasCall, Serving, Handled
  <2>4. Up = "up" /\ Up' = "up"
    BY <1>14 DEF HandlerReturns, Up
  <2>5. Rpc!Return
    BY <1>14, <2>2, <2>3, <2>4 DEF HandlerReturns, Rpc!Return
  <2> QED
    BY <2>5 DEF Rpc!Next
<1>15. CASE Throw
  <2>1. \A m \in Methods, p \in Procs : ~Waits(p, m)'
    BY <1>15 DEF Throw, Closing, Waits
  <2>2. \A m \in Methods : SeatOf(m)' = NoCall
    BY <2>1 DEF SeatsInv
  <2>3. Serving \in Handled /\ Serving' = Serving /\ Handled' = Handled
    BY <1>15 DEF Throw, ControlInv, StateInv, CallInv, HasCall, Serving, Handled
  <2>4. Up = "up" /\ Up' = "closing"
    BY <1>15 DEF Throw, Up
  <2>5. status' = [c \in Calls |-> IF status[c] = "pending" THEN "lost" ELSE status[c]]
    BY <1>15 DEF Throw, Lost
  <2>6. Rpc!Throw
    BY <1>15, <2>2, <2>3, <2>4, <2>5 DEF Throw, Rpc!Throw
  <2> QED
    BY <2>6 DEF Rpc!Next
<1>16. CASE pc # "down" /\ End
  <2>1. \A m \in Methods, p \in Procs : ~Waits(p, m)'
    BY <1>16 DEF End, Waits
  <2>2. \A m \in Methods : SeatOf(m)' = NoCall
    BY <2>1 DEF SeatsInv
  <2>3. Serving' = NoCall /\ Handled' = Handled
    BY <1>16 DEF End, Serving, Handled
  <2>4. Up # "down" /\ Up' = "down"
    BY <1>16 DEF End, Up
  <2>5. status' = [c \in Calls |-> IF status[c] \in {"pending", "accepted"} THEN "lost" ELSE status[c]]
    BY <1>16 DEF End, Lost
  <2>6. Rpc!Stop
    BY <1>16, <2>2, <2>3, <2>4, <2>5 DEF End, Rpc!Stop
  <2> QED
    BY <2>6 DEF Rpc!Next
<1>17. ASSUME NEW c \in Calls, Send(c) PROVE [Rpc!Next]_(Rpc!vars)
  <2>1. \A m \in Methods, p \in Procs :
           (Waits(p, m)' <=> Waits(p, m)) /\ (Waits(p, m) => bound'[p] = bound[p])
    BY <1>17 DEF Send, Waits, ClassOf
  <2>2. \A m \in Methods : SeatOf(m)' = SeatOf(m)
    BY <2>1, SeatKept
  <2>3. Serving' = Serving /\ Handled' = Handled
    BY <1>17 DEF Send, Serving, Handled
  <2>4. Up = "up" /\ Up' = "up"
    BY <1>17 DEF Send, Up
  <2>5. Rpc!Send(c)
    BY <1>17, <2>2, <2>3, <2>4 DEF Send, Rpc!Send
  <2> QED
    BY <2>5 DEF Rpc!Next
<1>18. ASSUME NEW c \in Calls, Cancel(c) PROVE [Rpc!Next]_(Rpc!vars)
  <2>1. \A m \in Methods, p \in Procs :
           (Waits(p, m)' <=> Waits(p, m)) /\ (Waits(p, m) => bound'[p] = bound[p])
    BY <1>18 DEF Cancel, Waits, ClassOf
  <2>2. \A m \in Methods : SeatOf(m)' = SeatOf(m)
    BY <2>1, SeatKept
  <2>3. Serving' = Serving /\ Handled' = Handled /\ Up' = Up
    BY <1>18 DEF Cancel, Serving, Handled, Up
  <2>4. Rpc!Cancel(c)
    BY <1>18, <2>2, <2>3 DEF Cancel, Rpc!Cancel
  <2> QED
    BY <2>4 DEF Rpc!Next
<1>19. ASSUME NEW c \in Calls, NEW p \in Procs, Accept(c, p) PROVE [Rpc!Next]_(Rpc!vars)
  <2>0. PICK m \in Methods : m = wish[c]
    BY DEF TypeOK
  <2>1. pc # "down" /\ pc \notin Closing
    BY <1>19 DEF Accept, ControlInv, HeldInv, ClosedInv
  <2>2. ClassOf(p).requests = m
    BY <1>19, <2>0 DEF Accept
  <2>3. \A q \in Procs : ~Waits(q, m)
    <3> SUFFICES ASSUME NEW q \in Procs, Waits(q, m) PROVE FALSE
      OBVIOUS
    <3>1. q = p
      BY <1>19, <2>1, <2>2, OneWaits DEF Accept, Waits
    <3> QED
      BY <1>19, <3>1 DEF Accept, Waits, HeldInv
  <2>4. SeatOf(m) = NoCall
    BY <2>2, <2>3 DEF SeatsInv
  <2>5. SeatOf(m)' = c
    <3>1. Waits(p, m)'
      BY <1>19, <2>1, <2>2 DEF Accept, Waits, ClassOf, Closing
    <3>2. bound'[p] = c
      BY <1>19 DEF Accept, TypeOK
    <3> QED
      BY <2>2, <3>1, <3>2 DEF SeatsInv, Accept
  <2>6. \A n \in Methods \ {m} : SeatOf(n)' = SeatOf(n)
    <3> SUFFICES ASSUME NEW n \in Methods, n # m PROVE SeatOf(n)' = SeatOf(n)
      OBVIOUS
    <3>1. \A q \in Procs : (Waits(q, n)' <=> Waits(q, n)) /\ (Waits(q, n) => bound'[q] = bound[q])
      BY <1>19, <2>1, <2>2 DEF Accept, Waits, ClassOf, Closing, HeldInv, TypeOK
    <3> QED
      BY <3>1, SeatKept
  <2>7. Serving' = Serving /\ Handled' = Handled
    BY <1>19 DEF Accept, Serving, Handled, TypeOK, ControlInv, OwnedInv, Held
  <2>8. Up = "up" /\ Up' = "up"
    BY <1>19, <2>1 DEF Accept, Up, Closing
  <2>9. [n \in Methods |-> SeatOf(n)]' = [[n \in Methods |-> SeatOf(n)] EXCEPT ![m] = c]
    BY <2>2, <2>5, <2>6
  <2>10. Rpc!Accept(c)
    BY <1>19, <2>0, <2>4, <2>7, <2>8, <2>9 DEF Accept, Rpc!Accept
  <2> QED
    BY <2>10 DEF Rpc!Next
<1>20. ASSUME NEW p \in Procs, Reply(p) PROVE [Rpc!Next]_(Rpc!vars)
  <2>1. \A m \in Methods, q \in Procs :
           (Waits(q, m)' <=> Waits(q, m)) /\ (Waits(q, m) => bound'[q] = bound[q])
    BY <1>20 DEF Reply, Waits, ClassOf, Closing
  <2>2. \A m \in Methods : SeatOf(m)' = SeatOf(m)
    BY <2>1, SeatKept
  <2>3. Serving' = Serving /\ Handled' = Handled /\ Up' = Up
    BY <1>20 DEF Reply, Serving, Handled, Up
  <2> DEFINE c == bound[p]
  <2>4. c \in Handled
    BY <1>20 DEF Reply, CallInv, Handled
  <2>5. c # Serving
    BY <1>20, <2>4 DEF Reply, Serving, Handled, BoundInv, OwnedInv, Held, ControlInv, TypeOK
  <2>6. CASE status[c] = "accepted"
    <3>1. status' = [status EXCEPT ![c] = "answered"]
      BY <1>20, <2>6 DEF Reply
    <3>2. c \in Calls /\ UNCHANGED wish
      BY <1>20, <2>4 DEF Reply, Handled
    <3> HIDE DEF c
    <3>3. Rpc!Answer(c)
      BY <2>2, <2>3, <2>4, <2>5, <2>6, <3>1, <3>2 DEF Rpc!Answer
    <3> QED
      BY <3>2, <3>3 DEF Rpc!Next
  <2>7. CASE status[c] # "accepted"
    <3>1. UNCHANGED <<status, wish>>
      BY <1>20, <2>4, <2>7 DEF Reply, Handled, TypeOK
    <3> QED
      BY <2>2, <2>3, <3>1 DEF Rpc!vars
  <2> QED
    BY <2>6, <2>7
<1>21. CASE Poll
  <2>1. PICK e \in cq : cq' = cq \ {e} /\ cur' = e[1]
    BY <1>21 DEF Poll
  <2>2. e = <<e[1], e[2], e[3]>> /\ e[1] \in Procs /\ e[2] \in {"call", "reply"}
    BY DEF TypeOK
  <2> DEFINE p == e[1]
  <2>3. Serving = NoCall /\ Handled' = Handled /\ Up = "up" /\ Up' = "up"
    BY <1>21 DEF Poll, ControlInv, Serving, Handled, Up
  <2>4. CASE e[2] = "call"
    <3>1. e = <<p, "call", "ok">> /\ state[p] = "PROCESSING"
      BY <1>21, <2>2, <2>4 DEF Poll, StateInv, Closing
    <3>2. HasCall(p)
      BY <2>4, <3>1 DEF CallInv
    <3>3. PICK m \in Methods : m = ClassOf(p).requests
      BY <3>2 DEF HasCall, TypeOK
    <3>4. SeatOf(m) = bound[p] /\ bound[p] \in Calls
      BY <1>21, <2>2, <3>1, <3>2, <3>3 DEF SeatsInv, Waits, Poll, Closing, HasCall
    <3>5. SeatOf(m)' = NoCall
      <4>1. ASSUME NEW q \in Procs, Waits(q, m)' PROVE FALSE
        <5>1. <<q, "call", "ok">> \in cq \ {e} /\ ClassOf(q).requests = m
          BY <1>21, <2>1, <4>1 DEF Poll, Waits, ClassOf
        <5>2. q = p
          BY <1>21, <2>2, <3>1, <3>3, <5>1, OneWaits DEF Poll, Closing
        <5> QED
          BY <3>1, <5>1, <5>2
      <4> QED
        BY <4>1 DEF SeatsInv
    <3>6. \A n \in Methods \ {m} : SeatOf(n)' = SeatOf(n)
      <4> SUFFICES ASSUME NEW n \in Methods, n # m PROVE SeatOf(n)' = SeatOf(n)
        OBVIOUS
      <4>1. \A q \in Procs : (Waits(q, n)' <=> Waits(q, n)) /\ (Waits(q, n) => bound'[q] = bound[q])
        BY <1>21, <2>1, <3>1, <3>3 DEF Poll, Waits, ClassOf, Closing
      <4> QED
        BY <4>1, SeatKept
    <3>7. Serving' = SeatOf(m) /\ SeatOf(m) # NoCall
      <4>1. Serving' = bound[p]
        BY <1>21, <2>1, <2>2, <3>1 DEF Poll, Serving
      <4> QED
        BY <3>4, <4>1
    <3>8. [n \in Methods |-> SeatOf(n)]' = [[n \in Methods |-> SeatOf(n)] EXCEPT ![m] = NoCall]
      BY <3>5, <3>6
    <3>9. UNCHANGED <<wish, status>>
      BY <1>21 DEF Poll
    <3>10. Rpc!Begin(m)
      BY <2>3, <3>7, <3>8, <3>9 DEF Rpc!Begin
    <3> QED
      BY <3>10 DEF Rpc!Next
  <2>5. CASE e[2] = "reply"
    <3>1. state[p] = "FINISHED"
      BY <1>21, <2>5 DEF Poll, StateInv
    <3>2. Serving' = NoCall
      BY <1>21, <2>1, <3>1 DEF Poll, Serving
    <3>3. \A n \in Methods, q \in Procs :
             (Waits(q, n)' <=> Waits(q, n)) /\ (Waits(q, n) => bound'[q] = bound[q])
      BY <1>21, <2>1, <2>5 DEF Poll, Waits, ClassOf, Closing
    <3>4. \A n \in Methods : SeatOf(n)' = SeatOf(n)
      BY <3>3, SeatKept
    <3>5. UNCHANGED <<wish, status>>
      BY <1>21 DEF Poll
    <3> QED
      BY <2>3, <3>2, <3>4, <3>5 DEF Rpc!vars
  <2> QED
    BY <2>2, <2>4, <2>5
<1> QED
  BY <1>0, <1>1, <1>2, <1>3, <1>4, <1>5, <1>6, <1>7, <1>8, <1>9, <1>10, <1>11, <1>12, <1>13, <1>14, <1>15, <1>16, <1>17, <1>18, <1>19, <1>20, <1>21 DEF Moves

\* The loop serves the calls as RpcService says, for any number of addresses and calls:
\* one at a time, each once, those of a method in turn, and answers after handlers.
THEOREM LoopImplementsRpc == Spec => ImplementsRpc
<1>1. Init => ClosedInv
  BY DEF Init, ClosedInv, Closing
<1>2. Init => Rpc!Init
  <2> SUFFICES ASSUME Init PROVE Rpc!Init
    OBVIOUS
  <2>1. \A m \in Methods, p \in Procs : ~Waits(p, m)
    BY DEF Init, Waits
  <2>2. \A m \in Methods : SeatOf(m) = NoCall
    BY <2>1, InitInv, SeatsHold DEF SeatsInv
  <2>3. Up = "down" /\ Serving = NoCall /\ Handled = {}
    BY DEF Init, Up, Serving, Handled
  <2>4. wish \in [Calls -> Methods]
    BY ServerAssumption DEF Init
  <2> QED
    BY <2>2, <2>3, <2>4 DEF Init, Rpc!Init
<1>3. IInv /\ ClosedInv /\ SeatsInv /\ SeatsInv' /\ IInv' /\ [Next]_vars => [Rpc!Next]_(Rpc!vars)
  BY RpcStep
<1> QED
  BY <1>1, <1>2, <1>3, Invariance, ClosedStays, SeatsHold, PTL DEF Spec, ImplementsRpc, Rpc!Spec

=============================================================================
