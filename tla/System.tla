------------------------------- MODULE System -------------------------------
(***************************************************************************)
(* The whole server as its clients know it: the request loop (RpcService,  *)
(* which Server implements) runs the handlers (MemoServices, over the      *)
(* MemoStore that Sqlite3Database implements).                             *)
(*                                                                         *)
(* A client wants one thing and tries again when an attempt was lost or    *)
(* took it too long: it cannot know whether the attempt has had its        *)
(* effect, has it still to come, or never will.  The server is killed and  *)
(* started again at any time, and a handler may end in an exception.       *)
(***************************************************************************)
EXTENDS MemoServices, Sequences

CONSTANTS
    Calls,     \* attempts: <<client, number>>
    Wants,     \* what clients may want: functions from clients to requests
    NoCall

Clients == {c[1] : c \in Calls}

ASSUME SystemAssumption ==
    /\ \A c \in Calls : c = <<c[1], c[2]>> /\ c[2] \in Nat
    /\ Wants \subseteq [Clients -> Rqs]
    /\ NoCall \notin Calls

Methods == {"AddMemo", "UpdateMemo", "RemoveMemo", "AddTag", "UpdateTag", "RemoveTag"}

VARIABLES
    up, wish, status, seat, serving, handled,                 \* see RpcService
    wants,      \* wants[k]: the request client k makes, as often as needed
    answers,    \* answers[c]: the response of call c, once its handler has returned
    effects     \* what has changed in the store: <<call, operation, row>> (history)

Rpc == INSTANCE RpcService

rpc     == <<up, wish, status, seat, serving, handled>>
history == <<wants, answers, effects>>

systemVars == <<vars, rpc, history>>

Want(c) == wants[c[1]]

-----------------------------------------------------------------------------

SystemInit ==
    /\ wants \in Wants
    /\ wish = [c \in Calls |-> Want(c).method]
    /\ Rpc!Init
    /\ Init
    /\ answers = [c \in Calls |-> NoReply]
    /\ effects = <<>>

(* ----- clients ----- *)

\* A client makes its next attempt when it has given up the one before, or lost it.
Send(c) ==
    /\ \A d \in Calls : d[1] = c[1] /\ d[2] < c[2] => status[d] \in {"cancelled", "lost"}
    /\ Rpc!Send(c)
    /\ UNCHANGED <<vars, history>>

Cancel(c) == Rpc!Cancel(c) /\ UNCHANGED <<vars, history>>

(* ----- the request loop ----- *)

Boot == Rpc!Boot /\ UNCHANGED <<vars, history>>

Accept(c) == Rpc!Accept(c) /\ UNCHANGED <<vars, history>>

Begin(m) == Rpc!Begin(m) /\ UNCHANGED <<vars, history>>

Answer(c) == Rpc!Answer(c) /\ UNCHANGED <<vars, history>>

(* ----- the handler of the call that is served ----- *)

\* execute() calls the handler of the method with the client's request.
Enter ==
    /\ Rpc!Enter
    /\ LET q == Want(serving) IN
          \/ q.method = "AddMemo"    /\ StartAddMemo(q)
          \/ q.method = "AddTag"     /\ StartAddTag(q)
          \/ q.method = "UpdateMemo" /\ StartUpdateMemo(q)
          \/ q.method = "UpdateTag"  /\ StartUpdateTag(q)
          \/ q.method = "RemoveMemo" /\ StartRemove(q, memos)
          \/ q.method = "RemoveTag"  /\ StartRemove(q, tags)
    /\ UNCHANGED history

\* The handler goes on: with the next call of the store, or with its result.
Proceed ==
    /\ serving \in handled
    /\ step # "idle"
    /\ (MemoServiceHandlers \/ TagServiceHandlers)
    /\ UNCHANGED <<rpc, history>>

\* The rows that an operation of the store changes.
ChangedRows ==
    {<<"memo", m>> : m \in {i \in MemoIds : memos'[i] # memos[i] \/ tagged'[i] # tagged[i]}}
        \cup {<<"tag", t>> : t \in {i \in TagIds : tags'[i] # tags[i]}}

\* The row an operation is about: of an insertion the new one.  Those it changes besides
\* lose a tag that is deleted, or get the tags of a memo whose title is LIKE theirs.
Subject ==
    CASE request.op = "insertMemo" -> <<"memo", CHOOSE m \in MemoIds : memos'[m] # memos[m]>>
      [] request.op = "insertTag" -> <<"tag", CHOOSE t \in TagIds : tags'[t] # tags[t]>>
      [] request.op \in {"updateMemo", "deleteMemo"} -> <<"memo", request.id>>
      [] OTHER -> <<"tag", request.id>>

\* The store carries out the call of the handler, or refuses it.
StoreWorks ==
    /\ StoreStep
    /\ effects' = IF ChangedRows = {} THEN effects
                  ELSE Append(effects, <<serving, request.op, Subject>>)
    /\ UNCHANGED <<rpc, wants, answers>>

Reply ==
    /\ Rpc!Return
    /\ Return
    /\ answers' = [answers EXCEPT ![serving] = reply]
    /\ UNCHANGED <<wants, effects>>

(* ----- the end of the server's process ----- *)

\* The connection closes with its transaction, and the handler is gone.
Abandon ==
    IF step = "idle" THEN UNCHANGED vars ELSE Kill

\* An exception leaves the handler and the loop.
Throw == serving \in handled /\ step # "idle" /\ Rpc!Throw /\ Abandon /\ UNCHANGED history

\* The process is killed, or has come to the end of ~Server.
Stop == Rpc!Stop /\ Abandon /\ UNCHANGED history

-----------------------------------------------------------------------------

SystemNext ==
    \/ Boot \/ Enter \/ Proceed \/ StoreWorks \/ Reply \/ Throw \/ Stop
    \/ \E c \in Calls : Send(c) \/ Cancel(c) \/ Accept(c) \/ Answer(c)
    \/ \E m \in Methods : Begin(m)

SystemSpec == SystemInit /\ [][SystemNext]_systemVars

-----------------------------------------------------------------------------
(* Properties *)

\* Once a client has the answer to an attempt, none of its attempts has an effect any
\* more: one that the client gave up is served before those it makes later, or never,
\* since a method listens for one call at a time (BaseService.cpp, line 30).
AnsweredIsFinal ==
    [][effects' # effects =>
          \A c \in Calls : c[1] = serving[1] => status[c] # "answered"]_systemVars

\* The effect f of a call is undone by the effect e of another: the row is rewritten or
\* deleted, or a memo loses a tag.
Undoes(e, f) ==
    \/ e[3] = f[3]
    \/ f[2] = "updateMemo" /\ e[2] = "deleteTag" /\ e[3][2] \in Store!Named(Want(f[1]))

\* However often a client tries, its request takes effect once on a row, unless another
\* client has undone it in between: the retry of an AddMemo that was stored meets
\* UNIQUE (Sqlite3Schema.cpp, line 20).  A second removal may hit another row that was
\* given the same id.
RetryActsOnce ==
    \A i, j \in DOMAIN effects :
        /\ i < j
        /\ effects[i][1][1] = effects[j][1][1]
        /\ effects[i][2] \in {"insertMemo", "insertTag"} \/ effects[i][3] = effects[j][3]
        => \E k \in i + 1 .. j - 1 : Undoes(effects[k], effects[i])

\* The last effect on its row.
IsLast(i) == \A j \in DOMAIN effects : effects[j][3] = effects[i][3] => j =< i

\* The tags that were deleted after the i-th effect.
DeletedSince(i) ==
    {t \in TagIds : \E j \in DOMAIN effects :
        i < j /\ effects[j][2] = "deleteTag" /\ effects[j][3] = <<"tag", t>>}

\* What an addition or an update has written is there; of a memo's tags, those that
\* were not deleted since.
Stands(i) ==
    LET q  == Want(effects[i][1])
        id == effects[i][3][2]
    IN  IF effects[i][3][1] = "memo"
        THEN memos[id] = q.text /\ tagged[id] = Store!Named(q) \ DeletedSince(i)
        ELSE tags[id] = q.text

\* What a client was told has been added was added by this very attempt; and the row
\* that an answered addition or update has written is in the database, however often
\* the server was killed since, until another call writes that row.
AnsweredIsKept ==
    \A c \in Calls : status[c] = "answered" /\ answers[c].ok =>
        /\ Want(c).method \in {"AddMemo", "AddTag"} =>
              \E i \in DOMAIN effects : effects[i][1] = c
        /\ \A i \in DOMAIN effects :
              effects[i][1] = c /\ Want(c).method \notin {"RemoveMemo", "RemoveTag"} /\ IsLast(i)
                  => Stands(i)

=============================================================================
