--------------------------- MODULE System_proofs ---------------------------
(***************************************************************************)
(* Proofs about module System: the composition of the request loop and the *)
(* handlers is a behaviour of each, so what was proved of the handlers     *)
(* holds in the whole server; and what a client may believe when it tries  *)
(* again or is answered.  For any clients, attempts, requests and kills.   *)
(***************************************************************************)
EXTENDS System, MemoServices_proofs

-----------------------------------------------------------------------------
(* The loop and the handlers *)

LoopTypes ==
    /\ up \in {"down", "up", "closing"}
    /\ status \in [Calls -> {"unsent", "pending", "accepted", "answered", "cancelled", "lost"}]
    /\ seat \in [Methods -> Calls \cup {NoCall}]
    /\ serving \in Calls \cup {NoCall}
    /\ handled \subseteq Calls
    /\ wants \in [Clients -> Rqs]
    /\ wish = [c \in Calls |-> Want(c).method]
    /\ answers \in [Calls -> Replies]

\* A call is in one place only, and has been accepted there.
SeatInv ==
    \A m \in Methods : seat[m] # NoCall =>
        /\ wish[seat[m]] = m
        /\ status[seat[m]] \notin {"unsent", "pending"}
        /\ seat[m] \notin handled
        /\ seat[m] # serving

ServedInv ==
    /\ \A c \in handled : status[c] \notin {"unsent", "pending"}
    /\ serving # NoCall => status[serving] \notin {"unsent", "pending"}
    /\ \A c \in Calls : status[c] = "answered" => c \in handled /\ c # serving

\* The handler that runs is that of the call the thread is at.
RunInv == step # "idle" => serving \in handled /\ rq = Want(serving)

PlaceInv == SeatInv /\ ServedInv /\ RunInv

LoopInv == LoopTypes /\ PlaceInv

\* A client makes its attempts one after the other, and they are served in that order.
OrderInv ==
    \A c, d \in Calls : c[1] = d[1] /\ d[2] < c[2] =>
        /\ status[c] # "unsent" => status[d] \in {"cancelled", "lost"}
        /\ c \in handled \/ c = serving => d # serving /\ \A m \in Methods : seat[m] # d

\* A handler that runs goes on with its own request, and leaves the contents to the store.
LEMMA GoesOn ==
    ASSUME step # "idle", MemoServiceHandlers \/ TagServiceHandlers
    PROVE  UNCHANGED contents /\ rq' = rq /\ step' # "idle"
BY DEF MemoServiceHandlers, TagServiceHandlers, AddMemo, AddTag, UpdateMemo, UpdateTag,
       RemoveMemo, RemoveTag, StartAddMemo, StartAddTag, StartUpdateMemo, StartUpdateTag,
       StartRemove, Start, Inserted, LookUp, Updated, RemoveNext, Removed, ReplyWith,
       CallStore, Returned, StoreUnused, Store!Receive, Store!Finish, contents, Store!contents

LEMMA Enters ==
    ASSUME Enter
    PROVE  /\ step = "idle"
           /\ UNCHANGED contents
           /\ rq' = Want(serving)
           /\ step' # "idle"
           /\ Rpc!Enter
           /\ UNCHANGED history
BY DEF Enter, StartAddMemo, StartAddTag, StartUpdateMemo, StartUpdateTag, StartRemove, Start,
       CallStore, StoreUnused, Store!Receive, contents, Store!contents

LEMMA WantTyped ==
    ASSUME LoopTypes, NEW c \in Calls
    PROVE  /\ Want(c) \in Rqs
           /\ wish[c] = Want(c).method
<1>1. c[1] \in Clients
  BY DEF Clients
<1> QED
  BY <1>1 DEF LoopTypes, Want

\* A step of the handlers leaves the loop alone, or enters or leaves a handler.
LEMMA LoopTyped == LoopTypes /\ [SystemNext]_systemVars /\ reply \in Replies => LoopTypes'
<1> SUFFICES ASSUME LoopTypes, [SystemNext]_systemVars, reply \in Replies PROVE LoopTypes'
  OBVIOUS
<1> USE SystemAssumption DEF LoopTypes, rpc, history, Want
<1>1. CASE Boot
  BY <1>1 DEF Boot, Rpc!Boot
<1>2. CASE Enter
  BY <1>2, Enters DEF Rpc!Enter
<1>3. CASE Proceed
  BY <1>3 DEF Proceed
<1>4. CASE StoreWorks
  BY <1>4 DEF StoreWorks
<1>5. CASE Reply
  BY <1>5 DEF Reply, Rpc!Return
<1>6. CASE Throw
  BY <1>6 DEF Throw, Rpc!Throw
<1>7. CASE Stop
  BY <1>7 DEF Stop, Rpc!Stop
<1>8. ASSUME NEW c \in Calls, Send(c) \/ Cancel(c) \/ Accept(c) \/ Answer(c) PROVE LoopTypes'
  BY <1>8, SMTT(30) DEF Send, Cancel, Accept, Answer, Rpc!Send, Rpc!Cancel, Rpc!Accept, Rpc!Answer
<1>9. ASSUME NEW m \in Methods, Begin(m) PROVE LoopTypes'
  BY <1>9 DEF Begin, Rpc!Begin
<1>10. CASE UNCHANGED systemVars
  BY <1>10 DEF systemVars
<1> QED
  BY <1>1, <1>2, <1>3, <1>4, <1>5, <1>6, <1>7, <1>8, <1>9, <1>10 DEF SystemNext

LEMMA PlacesStay == LoopInv /\ [SystemNext]_systemVars => PlaceInv'
<1> SUFFICES ASSUME LoopInv, [SystemNext]_systemVars PROVE PlaceInv'
  OBVIOUS
<1>0. /\ status \in [Calls -> {"unsent", "pending", "accepted", "answered", "cancelled", "lost"}]
      /\ seat \in [Methods -> Calls \cup {NoCall}]
      /\ serving \in Calls \cup {NoCall}
      /\ handled \subseteq Calls
  BY DEF LoopInv, LoopTypes
<1> USE SystemAssumption, <1>0 DEF LoopInv, PlaceInv, SeatInv, ServedInv, RunInv, rpc, history, Want
<1>1. CASE Boot
  BY <1>1 DEF Boot, Rpc!Boot, vars, handler
<1>2. CASE Enter
  BY <1>2, Enters DEF Rpc!Enter
<1>3. CASE Proceed
  BY <1>3, GoesOn DEF Proceed
<1>4. CASE StoreWorks
  BY <1>4 DEF StoreWorks, StoreStep, handler
<1>5. CASE Reply
  BY <1>5 DEF Reply, Rpc!Return, Return, HandlerEnds
<1>6. CASE Throw
  BY <1>6 DEF Throw, Rpc!Throw, Abandon, Kill, HandlerEnds
<1>7. CASE Stop
  <2>1. step' = "idle"
    BY <1>7 DEF Stop, Abandon, Kill, HandlerEnds, vars, handler
  <2> QED
    BY <1>7, <2>1 DEF Stop, Rpc!Stop
<1>8. ASSUME NEW c \in Calls, Send(c) PROVE PlaceInv'
  <2>1. SeatInv'
    BY <1>8 DEF Send, Rpc!Send
  <2>2. ServedInv'
    BY <1>8 DEF Send, Rpc!Send
  <2>3. RunInv'
    BY <1>8 DEF Send, Rpc!Send, vars, handler
  <2> QED
    BY <2>1, <2>2, <2>3
<1>9. ASSUME NEW c \in Calls, Cancel(c) PROVE PlaceInv'
  <2>1. SeatInv'
    BY <1>9 DEF Cancel, Rpc!Cancel
  <2>2. ServedInv'
    BY <1>9 DEF Cancel, Rpc!Cancel
  <2>3. RunInv'
    BY <1>9 DEF Cancel, Rpc!Cancel, vars, handler
  <2> QED
    BY <2>1, <2>2, <2>3
<1>10. ASSUME NEW c \in Calls, Accept(c) PROVE PlaceInv'
  <2>1. SeatInv'
    BY <1>10 DEF Accept, Rpc!Accept
  <2>2. ServedInv'
    BY <1>10 DEF Accept, Rpc!Accept
  <2>3. RunInv'
    BY <1>10 DEF Accept, Rpc!Accept, vars, handler
  <2> QED
    BY <2>1, <2>2, <2>3
<1>11. ASSUME NEW c \in Calls, Answer(c) PROVE PlaceInv'
  <2>1. SeatInv'
    BY <1>11 DEF Answer, Rpc!Answer
  <2>2. ServedInv'
    BY <1>11 DEF Answer, Rpc!Answer
  <2>3. RunInv'
    BY <1>11 DEF Answer, Rpc!Answer, vars, handler
  <2> QED
    BY <2>1, <2>2, <2>3
<1>12. ASSUME NEW m \in Methods, Begin(m) PROVE PlaceInv'
  <2>1. SeatInv'
    BY <1>12 DEF Begin, Rpc!Begin
  <2>2. ServedInv'
    BY <1>12 DEF Begin, Rpc!Begin
  <2>3. RunInv'
    BY <1>12 DEF Begin, Rpc!Begin, vars, handler
  <2> QED
    BY <2>1, <2>2, <2>3
<1>13. CASE UNCHANGED systemVars
  BY <1>13 DEF systemVars, vars, handler
<1> QED
  BY <1>1, <1>2, <1>3, <1>4, <1>5, <1>6, <1>7, <1>8, <1>9, <1>10, <1>11, <1>12, <1>13
     DEF SystemNext

LEMMA OrderStays == LoopInv /\ OrderInv /\ [SystemNext]_systemVars => OrderInv'
<1> SUFFICES ASSUME LoopInv, OrderInv, [SystemNext]_systemVars PROVE OrderInv'
  OBVIOUS
<1> USE SystemAssumption DEF LoopInv, LoopTypes, PlaceInv, SeatInv, ServedInv, OrderInv, rpc, history, Want
<1>1. CASE Boot
  BY <1>1 DEF Boot, Rpc!Boot
<1>2. CASE Enter
  BY <1>2, Enters DEF Rpc!Enter
<1>3. CASE Proceed
  BY <1>3 DEF Proceed
<1>4. CASE StoreWorks
  BY <1>4 DEF StoreWorks
<1>5. CASE Reply
  BY <1>5 DEF Reply, Rpc!Return
<1>6. CASE Throw
  BY <1>6 DEF Throw, Rpc!Throw
<1>7. CASE Stop
  BY <1>7 DEF Stop, Rpc!Stop
<1>8. ASSUME NEW c \in Calls, Send(c) PROVE OrderInv'
  BY <1>8 DEF Send, Rpc!Send
<1>9. ASSUME NEW c \in Calls, Cancel(c) PROVE OrderInv'
  BY <1>9 DEF Cancel, Rpc!Cancel
<1>10. ASSUME NEW c \in Calls, Accept(c) PROVE OrderInv'
  BY <1>10 DEF Accept, Rpc!Accept
<1>11. ASSUME NEW c \in Calls, Answer(c) PROVE OrderInv'
  BY <1>11 DEF Answer, Rpc!Answer
<1>12. ASSUME NEW m \in Methods, Begin(m) PROVE OrderInv'
  <2>1. serving = NoCall /\ serving' = seat[m] /\ seat[m] \in Calls
    BY <1>12 DEF Begin, Rpc!Begin
  <2>2. seat' = [seat EXCEPT ![m] = NoCall] /\ UNCHANGED <<status, handled>>
    BY <1>12 DEF Begin, Rpc!Begin
  <2> SUFFICES ASSUME NEW c \in Calls, NEW d \in Calls, c[1] = d[1], d[2] < c[2], c = serving'
               PROVE  d # serving' /\ \A n \in Methods : seat'[n] # d
    BY <2>1, <2>2
  <2>3. wish[d] = m
    BY <2>1
  <2>4. d # c /\ d # NoCall
    OBVIOUS
  <2>5. ASSUME NEW n \in Methods, seat'[n] = d PROVE FALSE
    <3>1. n # m /\ seat[n] = d
      BY <2>2, <2>4, <2>5
    <3> QED
      BY <2>3, <2>4, <3>1
  <2> QED
    BY <2>4, <2>5
<1>13. CASE UNCHANGED systemVars
  BY <1>13 DEF systemVars
<1> QED
  BY <1>1, <1>2, <1>3, <1>4, <1>5, <1>6, <1>7, <1>8, <1>9, <1>10, <1>11, <1>12, <1>13
     DEF SystemNext

\* What happens in the composition is a step of the handlers and their store, or nothing.
LEMMA HandlersStep ==
    ASSUME LoopInv, [SystemNext]_systemVars
    PROVE  [Next]_vars
<1>1. CASE Enter
  <2> DEFINE q == Want(serving)
  <2>1. serving # NoCall /\ serving \in Calls
    BY <1>1, Enters DEF Rpc!Enter, LoopInv, LoopTypes
  <2>2. q \in Rqs
    BY <2>1, WantTyped DEF LoopInv
  <2>3. /\ q.method = "AddMemo" => q \in AddMemoRqs
        /\ q.method = "AddTag" => q \in AddTagRqs
        /\ q.method = "UpdateMemo" => q \in UpdateMemoRqs
        /\ q.method = "UpdateTag" => q \in UpdateTagRqs
        /\ q.method = "RemoveMemo" => q \in RemoveMemoRqs
        /\ q.method = "RemoveTag" => q \in RemoveTagRqs
    BY <2>2, MethodOf DEF Rqs
  <2>4. \/ q.method = "AddMemo"    /\ StartAddMemo(q)
        \/ q.method = "AddTag"     /\ StartAddTag(q)
        \/ q.method = "UpdateMemo" /\ StartUpdateMemo(q)
        \/ q.method = "UpdateTag"  /\ StartUpdateTag(q)
        \/ q.method = "RemoveMemo" /\ StartRemove(q, memos)
        \/ q.method = "RemoveTag"  /\ StartRemove(q, tags)
    BY <1>1 DEF Enter
  <2> HIDE DEF q
  <2> QED
    BY <2>3, <2>4 DEF Next, MemoServiceHandlers, TagServiceHandlers, AddMemo, AddTag, UpdateMemo,
       UpdateTag, RemoveMemo, RemoveTag
<1>2. CASE Proceed
  BY <1>2 DEF Proceed, Next
<1>3. CASE StoreWorks
  BY <1>3 DEF StoreWorks, Next
<1>4. CASE Reply
  BY <1>4 DEF Reply, Next
<1>5. CASE Throw \/ Stop
  BY <1>5 DEF Throw, Stop, Abandon, Next
<1>6. CASE Boot
  BY <1>6 DEF Boot
<1>7. ASSUME NEW c \in Calls, Send(c) \/ Cancel(c) \/ Accept(c) \/ Answer(c) PROVE UNCHANGED vars
  BY <1>7 DEF Send, Cancel, Accept, Answer
<1>8. ASSUME NEW m \in Methods, Begin(m) PROVE UNCHANGED vars
  BY <1>8 DEF Begin
<1>9. CASE UNCHANGED systemVars
  BY <1>9 DEF systemVars
<1> QED
  BY <1>1, <1>2, <1>3, <1>4, <1>5, <1>6, <1>7, <1>8, <1>9 DEF SystemNext

\* ... and it is a step of the loop, or nothing.
LEMMA LoopStep == [SystemNext]_systemVars => [Rpc!Next]_(Rpc!vars)
<1> SUFFICES ASSUME [SystemNext]_systemVars PROVE [Rpc!Next]_(Rpc!vars)
  OBVIOUS
<1> USE DEF rpc, Rpc!vars, Rpc!Next
<1>1. CASE Boot \/ Enter \/ Reply \/ Throw \/ Stop
  BY <1>1, Enters DEF Boot, Reply, Throw, Stop
<1>2. CASE Proceed \/ StoreWorks
  BY <1>2 DEF Proceed, StoreWorks
<1>3. ASSUME NEW c \in Calls, Send(c) \/ Cancel(c) \/ Accept(c) \/ Answer(c)
      PROVE  [Rpc!Next]_(Rpc!vars)
  BY <1>3 DEF Send, Cancel, Accept, Answer
<1>4. ASSUME NEW m \in Methods, Begin(m) PROVE [Rpc!Next]_(Rpc!vars)
  BY <1>4 DEF Begin
<1>5. CASE UNCHANGED systemVars
  BY <1>5 DEF systemVars
<1> QED
  BY <1>1, <1>2, <1>3, <1>4, <1>5 DEF SystemNext

LEMMA LoopStarts == SystemInit => LoopInv /\ OrderInv
<1> SUFFICES ASSUME SystemInit PROVE LoopInv /\ OrderInv
  OBVIOUS
<1>1. LoopTypes
  <2>1. wants \in [Clients -> Rqs]
    BY SystemAssumption DEF SystemInit
  <2>2. NoReply \in Replies
    BY DEF NoReply, Replies
  <2> QED
    BY <2>1, <2>2 DEF SystemInit, Rpc!Init, LoopTypes
<1>2. SeatInv /\ ServedInv
  BY DEF SystemInit, Rpc!Init, SeatInv, ServedInv
<1>3. RunInv
  BY DEF SystemInit, Init, RunInv
<1>4. OrderInv
  BY SystemAssumption DEF SystemInit, Rpc!Init, OrderInv
<1> QED
  BY <1>1, <1>2, <1>3, <1>4 DEF LoopInv, PlaceInv

SystemInv == LoopInv /\ OrderInv /\ IInv

LEMMA SystemStep == SystemInv /\ [SystemNext]_systemVars => SystemInv' /\ [Next]_vars
<1> SUFFICES ASSUME SystemInv, [SystemNext]_systemVars PROVE SystemInv' /\ [Next]_vars
  OBVIOUS
<1>1. [Next]_vars
  BY HandlersStep DEF SystemInv
<1>2. reply \in Replies
  BY DEF SystemInv, IInv, ControlOK, HandlerOK
<1>3. LoopInv'
  BY <1>2, LoopTyped, PlacesStay DEF SystemInv, LoopInv
<1> QED
  BY <1>1, <1>3, OrderStays, Inductive DEF SystemInv

THEOREM SystemInvariance == SystemSpec => []SystemInv
<1>1. SystemInit => SystemInv
  BY LoopStarts, Starts DEF SystemInit, SystemInv
<1> QED
  BY <1>1, SystemStep, PTL DEF SystemSpec

\* In the whole server the handlers behave as they do alone: what a reply says
\* (SuccessIsStored, RemovalIsReported and the rest) holds there too.
THEOREM SystemRunsHandlers == SystemSpec => Spec
<1>1. SystemInit => Init
  BY DEF SystemInit
<1> QED
  BY <1>1, SystemInvariance, SystemStep, PTL DEF SystemSpec, Spec

\* The calls are served as the request loop serves them: what the handlers and clients do
\* in the composition is nothing the loop would not let them do.
THEOREM SystemRunsLoop == SystemSpec => Rpc!Spec
<1>1. SystemInit => Rpc!Init
  BY DEF SystemInit
<1> QED
  BY <1>1, LoopStep, PTL DEF SystemSpec, Rpc!Spec

\* In particular what a reply says, when it is ready, is so in the whole server too.
THEOREM RepliesAreTrue ==
    SystemSpec => [](/\ SuccessIsStored
                     /\ FailureHasReason
                     /\ RemovalIsReported
                     /\ OnlyNamedAreRemoved)
BY SystemRunsHandlers, SuccessMeansStored, FailureJustified, RemovalReported, OnlyNamedGo, PTL

-----------------------------------------------------------------------------
(* An answer is final *)

\* Once a client has an answer, none of its attempts has an effect any more.
THEOREM AnswersAreFinal == SystemSpec => AnsweredIsFinal
<1>1. ASSUME SystemInv, [SystemNext]_systemVars, effects' # effects,
             NEW c \in Calls, c[1] = serving[1], status[c] = "answered"
      PROVE  FALSE
  <2>1. StoreWorks
    BY <1>1, Enters
       DEF SystemNext, Boot, Proceed, Reply, Throw, Stop, Send, Cancel, Accept, Answer, Begin,
           history, systemVars
  <2>2. serving \in Calls /\ serving \in handled
    <3>1. phase = "pending"
      BY <2>1 DEF StoreWorks, StoreStep, Store!Apply, Store!Refuse
    <3>2. step # "idle"
      BY <1>1, <3>1 DEF SystemInv, IInv, ControlOK, StoreMatchesStep
    <3> QED
      BY <1>1, <3>2 DEF SystemInv, LoopInv, LoopTypes, PlaceInv, RunInv
  <2>3. c \in handled /\ c # serving
    BY <1>1 DEF SystemInv, LoopInv, PlaceInv, ServedInv
  <2>4. c[2] \in Nat /\ serving[2] \in Nat /\ c[2] # serving[2]
    BY <1>1, <2>2, <2>3, SystemAssumption
  <2>5. ~(c[2] < serving[2])
    BY <1>1, <2>2 DEF SystemInv, OrderInv, LoopInv, PlaceInv, ServedInv
  <2>6. ~(serving[2] < c[2])
    BY <1>1, <2>2, <2>3 DEF SystemInv, OrderInv
  <2> QED
    BY <2>4, <2>5, <2>6
<1>2. SystemInv /\ [SystemNext]_systemVars =>
          [effects' # effects =>
              \A c \in Calls : c[1] = serving[1] => status[c] # "answered"]_systemVars
  BY <1>1
<1> QED
  BY <1>2, SystemInvariance, PTL DEF SystemSpec, AnsweredIsFinal

-----------------------------------------------------------------------------
(* What the store does for the call that is served *)

\* A memo has tags that exist, and a row that is not there has none.
RefsInv ==
    \A m \in MemoIds :
        /\ tagged[m] \subseteq Rows(tags)
        /\ memos[m] = NoRow => tagged[m] = {}

\* The store has changed one row for the request, as it says; the row was not so before.
MemoInsertion(m) ==
    /\ rq \in AddMemoRqs /\ request.op = "insertMemo"
    /\ \A i \in MemoIds : memos[i] # rq.text
    /\ Store!Named(rq) \subseteq Rows(tags)
    /\ memos' = [memos EXCEPT ![m] = rq.text]
    /\ tagged' = [tagged EXCEPT ![m] = Store!Named(rq)]
    /\ tags' = tags

TagInsertion(t) ==
    /\ rq \in AddTagRqs /\ request.op = "insertTag"
    /\ \A i \in TagIds : tags[i] # rq.text
    /\ tags' = [tags EXCEPT ![t] = rq.text]
    /\ memos' = memos /\ tagged' = tagged

MemoRewriting(m) ==
    /\ rq \in UpdateMemoRqs /\ request.op = "updateMemo" /\ m = rq.id
    /\ memos[m] # rq.text \/ tagged[m] # Store!Named(rq)
    /\ Store!Named(rq) \subseteq Rows(tags)
    /\ memos' = [memos EXCEPT ![m] = rq.text]
    /\ tagged' = [tagged EXCEPT ![m] = Store!Named(rq)]
    /\ tags' = tags

TagRewriting(t) ==
    /\ rq \in UpdateTagRqs /\ request.op = "updateTag" /\ t = rq.id
    /\ tags[t] # rq.text
    /\ tags' = [tags EXCEPT ![t] = rq.text]
    /\ memos' = memos /\ tagged' = tagged

MemoDeletion(m) ==
    /\ rq \in RemoveMemoRqs /\ request.op = "deleteMemo"
    /\ memos[m] # NoRow
    /\ memos' = [memos EXCEPT ![m] = NoRow]
    /\ tagged' = [tagged EXCEPT ![m] = {}]
    /\ tags' = tags

TagDeletion(t) ==
    /\ rq \in RemoveTagRqs /\ request.op = "deleteTag"
    /\ tags[t] # NoRow
    /\ tags' = [tags EXCEPT ![t] = NoRow]
    /\ tagged' = [m \in MemoIds |-> tagged[m] \ {t}]
    /\ memos' = memos

MemoChange(m) == MemoInsertion(m) \/ MemoRewriting(m) \/ MemoDeletion(m)
TagChange(t)  == TagInsertion(t) \/ TagRewriting(t) \/ TagDeletion(t)

LEMMA RefsStart == Init => RefsInv
BY DEF Init, Store!Init, RefsInv

LEMMA MemoRowChanges ==
    ASSUME tags' = tags, NEW m \in MemoIds, NEW x, NEW y,
           memos \in [MemoIds -> Titles \cup {NoRow}], tagged \in [MemoIds -> SUBSET TagIds],
           memos' = [memos EXCEPT ![m] = x], tagged' = [tagged EXCEPT ![m] = y],
           memos[m] # x \/ tagged[m] # y
    PROVE  ChangedRows = {<<"memo", m>>}
<1>1. {i \in MemoIds : memos'[i] # memos[i] \/ tagged'[i] # tagged[i]} = {m}
  OBVIOUS
<1>2. {i \in TagIds : tags'[i] # tags[i]} = {}
  OBVIOUS
<1> QED
  BY <1>1, <1>2 DEF ChangedRows

LEMMA TagRowChanges ==
    ASSUME NEW t \in TagIds, NEW x, tags \in [TagIds -> Names \cup {NoRow}],
           tags' = [tags EXCEPT ![t] = x], tags[t] # x
    PROVE  /\ <<"tag", t>> \in ChangedRows
           /\ memos' = memos /\ tagged' = tagged => ChangedRows = {<<"tag", t>>}
<1>1. {i \in TagIds : tags'[i] # tags[i]} = {t}
  OBVIOUS
<1>2. memos' = memos /\ tagged' = tagged =>
          {i \in MemoIds : memos'[i] # memos[i] \/ tagged'[i] # tagged[i]} = {}
  OBVIOUS
<1> QED
  BY <1>1, <1>2 DEF ChangedRows

LEMMA NothingChanges == UNCHANGED contents => ChangedRows = {}
BY DEF ChangedRows, contents

LEMMA SubjectIs ==
    /\ request.op = "insertMemo" =>
          \A m \in MemoIds :
              memos'[m] # memos[m] /\ (\A i \in MemoIds : i # m => memos'[i] = memos[i])
                  => Subject = <<"memo", m>>
    /\ request.op = "insertTag" =>
          \A t \in TagIds :
              tags'[t] # tags[t] /\ (\A i \in TagIds : i # t => tags'[i] = tags[i])
                  => Subject = <<"tag", t>>
    /\ request.op \in {"updateMemo", "deleteMemo"} => Subject = <<"memo", request.id>>
    /\ request.op \in {"updateTag", "deleteTag"} => Subject = <<"tag", request.id>>
<1>1. ASSUME NEW m \in MemoIds, memos'[m] # memos[m],
             \A i \in MemoIds : i # m => memos'[i] = memos[i]
      PROVE  (CHOOSE i \in MemoIds : memos'[i] # memos[i]) = m
  BY <1>1
<1>2. ASSUME NEW t \in TagIds, tags'[t] # tags[t],
             \A i \in TagIds : i # t => tags'[i] = tags[i]
      PROVE  (CHOOSE i \in TagIds : tags'[i] # tags[i]) = t
  BY <1>2
<1> QED
  BY <1>1, <1>2 DEF Subject

\* The row that is changed is the one recorded, where LIKE finds the new memo alone; a
\* store that changes nothing records nothing.
LEMMA StoreChange ==
    ASSUME Store!LikeIsExact, IInv, RefsInv, StoreStep
    PROVE  \/ ChangedRows = {} /\ UNCHANGED contents
           \/ \E m \in MemoIds : MemoChange(m) /\ ChangedRows # {} /\ Subject = <<"memo", m>>
           \/ \E t \in TagIds : TagChange(t) /\ ChangedRows # {} /\ Subject = <<"tag", t>>
<1>1. /\ memos \in [MemoIds -> Titles \cup {NoRow}] /\ tags \in [TagIds -> Names \cup {NoRow}]
      /\ tagged \in [MemoIds -> SUBSET TagIds]
  BY DEF IInv, ControlOK, StoreOK, current, Contents, MemoTable, TagTable
<1>2. phase = "pending" /\ (Store!Effect(request) \/ UNCHANGED contents)
  BY DEF StoreStep, Store!Apply, Store!Refuse, contents, Store!contents
<1>3. step \in {"insert", "update", "delete"} /\ rq # NoRq /\ request \in Requests
  BY <1>2 DEF IInv, ControlOK, StoreMatchesStep, HandlerOK, Steps, CallFits
<1>4. \/ rq \in AddMemoRqs /\ request = [op |-> "insertMemo", text |-> rq.text, tags |-> rq.tags]
      \/ rq \in AddTagRqs /\ request = [op |-> "insertTag", text |-> rq.text]
      \/ /\ rq \in UpdateMemoRqs
         /\ request = [op |-> "updateMemo", id |-> rq.id, text |-> rq.text, tags |-> rq.tags]
      \/ rq \in UpdateTagRqs /\ request = [op |-> "updateTag", id |-> rq.id, text |-> rq.text]
      \/ rq \in RemoveMemoRqs /\ request = [op |-> "deleteMemo", id |-> request.id]
      \/ rq \in RemoveTagRqs /\ request = [op |-> "deleteTag", id |-> request.id]
  BY <1>3 DEF IInv, ControlOK, CallFits
<1>5. CASE UNCHANGED contents
  BY <1>5, NothingChanges
<1>6. CASE rq \in AddMemoRqs /\ Store!InsertMemo(request)
  <2>1. request.op = "insertMemo" /\ request.text = rq.text /\ request.tags = rq.tags
    BY <1>4, <1>6, MethodOf
  <2>0. Store!Named(request) = Store!Named(rq)
    BY <2>1 DEF Store!Named
  <2>2. PICK m \in MemoIds :
            /\ memos' = [memos EXCEPT ![m] = request.text]
            /\ \E k \in Store!Rows(memos') :
                  /\ <<request.text, memos'[k]>> \in Like
                  /\ tagged' = [i \in MemoIds |->
                                  (IF i = m THEN {} ELSE tagged[i])
                                      \cup (IF i = k THEN Store!Named(request) ELSE {})]
    BY <1>6 DEF Store!InsertMemo, Store!AddMemo
  <2>3. rq.text # NoRow /\ \A i \in MemoIds : memos[i] # rq.text
    BY <1>1, <1>6, <2>1, MethodOf, SchemaAssumption DEF Store!InsertMemo, Store!Rows
  <2>4. tags' = tags
    BY <1>6 DEF Store!InsertMemo, Store!AddMemo
  <2>5. Store!Named(rq) \subseteq Rows(tags)
    BY <1>6, <2>1 DEF Store!InsertMemo, Store!AddMemo, Store!Named, Store!Rows, Rows
  <2>6. memos' = [memos EXCEPT ![m] = rq.text]
    BY <2>1, <2>2
  <2>7. tagged' = [tagged EXCEPT ![m] = Store!Named(rq)]
    <3>1. PICK k \in Store!Rows(memos') :
              /\ <<rq.text, memos'[k]>> \in Like
              /\ tagged' = [i \in MemoIds |->
                              (IF i = m THEN {} ELSE tagged[i])
                                  \cup (IF i = k THEN Store!Named(rq) ELSE {})]
      BY <2>0, <2>1, <2>2
    <3>2. memos'[k] = rq.text
      BY <3>1 DEF Store!LikeIsExact
    <3>3. k = m
      BY <1>1, <2>3, <2>6, <3>2 DEF Store!Rows
    <3> QED
      BY <1>1, <3>1, <3>3
  <2>8. ChangedRows = {<<"memo", m>>}
    BY <1>1, <2>3, <2>4, <2>6, <2>7, MemoRowChanges
  <2>9. Subject = <<"memo", m>>
    <3>1. memos'[m] # memos[m] /\ \A i \in MemoIds : i # m => memos'[i] = memos[i]
      BY <1>1, <2>3, <2>6
    <3> QED
      BY <2>1, <3>1, SubjectIs
  <2> QED
    BY <1>6, <2>1, <2>3, <2>4, <2>5, <2>6, <2>7, <2>8, <2>9 DEF MemoChange, MemoInsertion
<1>7. CASE rq \in AddTagRqs /\ Store!InsertTag(request)
  <2>1. request.op = "insertTag" /\ request.text = rq.text
    BY <1>4, <1>7, MethodOf
  <2>2. PICK t \in TagIds : tags' = [tags EXCEPT ![t] = rq.text]
    BY <1>7, <2>1 DEF Store!InsertTag
  <2>3. rq.text # NoRow /\ \A i \in TagIds : tags[i] # rq.text
    BY <1>1, <1>7, <2>1, MethodOf, SchemaAssumption DEF Store!InsertTag, Store!Rows
  <2>4. memos' = memos /\ tagged' = tagged
    BY <1>7 DEF Store!InsertTag
  <2>5. ChangedRows = {<<"tag", t>>}
    BY <1>1, <2>2, <2>3, <2>4, TagRowChanges
  <2>6. Subject = <<"tag", t>>
    <3>1. tags'[t] # tags[t] /\ \A i \in TagIds : i # t => tags'[i] = tags[i]
      BY <1>1, <2>2, <2>3
    <3> QED
      BY <2>1, <3>1, SubjectIs
  <2> QED
    BY <1>7, <2>1, <2>2, <2>3, <2>4, <2>5, <2>6 DEF TagChange, TagInsertion
<1>8. CASE rq \in UpdateMemoRqs /\ Store!UpdateMemo(request) /\ ~UNCHANGED contents
  <2>1. /\ request.op = "updateMemo" /\ request.text = rq.text /\ request.tags = rq.tags
        /\ request.id = rq.id /\ rq.id \in MemoIds
    BY <1>4, <1>8, MethodOf
  <2>2. /\ memos' = [memos EXCEPT ![rq.id] = rq.text]
        /\ tagged' = [tagged EXCEPT ![rq.id] = Store!Named(rq)]
        /\ tags' = tags
        /\ Store!Named(rq) \subseteq Rows(tags)
    BY <1>8, <2>1 DEF Store!UpdateMemo, Store!Named, Store!contents, contents, Store!Rows, Rows
  <2>3. memos[rq.id] # rq.text \/ tagged[rq.id] # Store!Named(rq)
    BY <1>1, <1>8, <2>1, <2>2 DEF contents
  <2>4. ChangedRows = {<<"memo", rq.id>>}
    BY <1>1, <2>1, <2>2, <2>3, MemoRowChanges
  <2>5. Subject = <<"memo", rq.id>>
    BY <2>1, SubjectIs
  <2> QED
    BY <1>8, <2>1, <2>2, <2>3, <2>4, <2>5 DEF MemoChange, MemoRewriting
<1>9. CASE rq \in UpdateTagRqs /\ Store!UpdateTag(request) /\ ~UNCHANGED contents
  <2>1. /\ request.op = "updateTag" /\ request.text = rq.text
        /\ request.id = rq.id /\ rq.id \in TagIds
    BY <1>4, <1>9, MethodOf
  <2>2. tags' = [tags EXCEPT ![rq.id] = rq.text] /\ memos' = memos /\ tagged' = tagged
    BY <1>9, <2>1 DEF Store!UpdateTag, Store!contents, contents
  <2>3. tags[rq.id] # rq.text
    BY <1>1, <1>9, <2>1, <2>2 DEF contents
  <2>4. ChangedRows = {<<"tag", rq.id>>}
    BY <1>1, <2>1, <2>2, <2>3, TagRowChanges
  <2>5. Subject = <<"tag", rq.id>>
    BY <2>1, SubjectIs
  <2> QED
    BY <1>9, <2>1, <2>2, <2>3, <2>4, <2>5 DEF TagChange, TagRewriting
<1>10. CASE rq \in RemoveMemoRqs /\ Store!DeleteMemo(request) /\ ~UNCHANGED contents
  <2>1. request.op = "deleteMemo" /\ request.id \in MemoIds
    BY <1>3, <1>4, <1>10, MethodOf, ServicesAssumption DEF StoreCalls
  <2>2. /\ memos' = [memos EXCEPT ![request.id] = NoRow]
        /\ tagged' = [tagged EXCEPT ![request.id] = {}]
        /\ tags' = tags
    BY <1>10 DEF Store!DeleteMemo
  <2>3. memos[request.id] # NoRow
    BY <1>1, <1>10, <2>1, <2>2 DEF contents, RefsInv
  <2>4. ChangedRows = {<<"memo", request.id>>}
    BY <1>1, <2>1, <2>2, <2>3, MemoRowChanges
  <2>5. Subject = <<"memo", request.id>>
    BY <2>1, SubjectIs
  <2> QED
    BY <1>10, <2>1, <2>2, <2>3, <2>4, <2>5 DEF MemoChange, MemoDeletion
<1>11. CASE rq \in RemoveTagRqs /\ Store!DeleteTag(request) /\ ~UNCHANGED contents
  <2>1. request.op = "deleteTag" /\ request.id \in TagIds
    BY <1>3, <1>4, <1>11, MethodOf, ServicesAssumption DEF StoreCalls
  <2>2. /\ tags' = [tags EXCEPT ![request.id] = NoRow]
        /\ tagged' = [m \in MemoIds |-> tagged[m] \ {request.id}]
        /\ memos' = memos
    BY <1>11 DEF Store!DeleteTag
  <2>3. tags[request.id] # NoRow
    <3> SUFFICES ASSUME tags[request.id] = NoRow PROVE FALSE
      OBVIOUS
    <3>1. tags' = tags
      BY <1>1, <2>1, <2>2
    <3>2. \A m \in MemoIds : request.id \notin tagged[m]
      BY <1>1 DEF RefsInv, Rows
    <3>3. tagged' = tagged
      BY <1>1, <2>2, <3>2
    <3> QED
      BY <1>11, <2>2, <3>1, <3>3 DEF contents
  <2>4. <<"tag", request.id>> \in ChangedRows
    BY <1>1, <2>1, <2>2, <2>3, TagRowChanges
  <2>5. Subject = <<"tag", request.id>>
    BY <2>1, SubjectIs
  <2> QED
    BY <1>11, <2>1, <2>2, <2>3, <2>4, <2>5 DEF TagChange, TagDeletion
<1> QED
  BY <1>2, <1>4, <1>5, <1>6, <1>7, <1>8, <1>9, <1>10, <1>11 DEF Store!Effect

-----------------------------------------------------------------------------
(* The effects *)

EffectRows == ({"memo"} \X MemoIds) \cup ({"tag"} \X TagIds)

Ops == {"insertMemo", "insertTag", "updateMemo", "updateTag", "deleteMemo", "deleteTag"}

\* An effect is what the client wants.
Fits(e) ==
    LET q == Want(e[1])
    IN  \/ q \in AddMemoRqs /\ e[2] = "insertMemo" /\ e[3][1] = "memo"
        \/ q \in AddTagRqs /\ e[2] = "insertTag" /\ e[3][1] = "tag"
        \/ q \in UpdateMemoRqs /\ e[2] = "updateMemo" /\ e[3] = <<"memo", q.id>>
        \/ q \in UpdateTagRqs /\ e[2] = "updateTag" /\ e[3] = <<"tag", q.id>>
        \/ q \in RemoveMemoRqs /\ e[2] = "deleteMemo" /\ e[3][1] = "memo"
        \/ q \in RemoveTagRqs /\ e[2] = "deleteTag" /\ e[3][1] = "tag"

EffectsInv ==
    /\ effects \in Seq(Calls \X Ops \X EffectRows)
    /\ \A i \in DOMAIN effects : Fits(effects[i])

\* The last effect on a row can be seen in it.
StandingInv ==
    \A i \in DOMAIN effects : IsLast(i) =>
        /\ effects[i][2] = "deleteMemo" => memos[effects[i][3][2]] = NoRow
        /\ effects[i][2] = "deleteTag" => tags[effects[i][3][2]] = NoRow
        /\ effects[i][2] \notin {"deleteMemo", "deleteTag"} => Stands(i)

\* The next effect: of the call that is served, on the row that is changed.
NextEffect(row) ==
    /\ serving \in Calls
    /\ rq = Want(serving)
    /\ row \in EffectRows
    /\ effects' = Append(effects, <<serving, request.op, row>>)

\* A step changes a row and records it, or it changes and records nothing.
LEMMA EffectCases ==
    ASSUME Store!LikeIsExact, SystemInv, RefsInv, [SystemNext]_systemVars
    PROVE  /\ wants' = wants
           /\ \/ UNCHANGED contents /\ effects' = effects
              \/ \E m \in MemoIds : MemoChange(m) /\ NextEffect(<<"memo", m>>)
              \/ \E t \in TagIds : TagChange(t) /\ NextEffect(<<"tag", t>>)
<1>1. CASE StoreWorks
  <2>1. StoreStep /\ wants' = wants
    BY <1>1 DEF StoreWorks
  <2>2. IInv /\ serving \in Calls /\ rq = Want(serving)
    <3>1. phase = "pending"
      BY <2>1 DEF StoreStep, Store!Apply, Store!Refuse
    <3>2. step # "idle"
      BY <3>1 DEF SystemInv, IInv, ControlOK, StoreMatchesStep
    <3> QED
      BY <3>2 DEF SystemInv, LoopInv, LoopTypes, PlaceInv, RunInv
  <2>3. CASE ChangedRows = {} /\ UNCHANGED contents
    BY <1>1, <2>1, <2>3 DEF StoreWorks
  <2>4. ASSUME NEW row \in EffectRows, ChangedRows # {}, Subject = row PROVE NextEffect(row)
    BY <1>1, <2>2, <2>4 DEF StoreWorks, NextEffect
  <2>5. ASSUME NEW m \in MemoIds PROVE <<"memo", m>> \in EffectRows
    BY DEF EffectRows
  <2>6. ASSUME NEW t \in TagIds PROVE <<"tag", t>> \in EffectRows
    BY DEF EffectRows
  <2> QED
    BY <2>1, <2>2, <2>3, <2>4, <2>5, <2>6, StoreChange
<1>2. CASE Enter
  BY <1>2, Enters DEF history
<1>3. CASE Proceed
  BY <1>3, GoesOn DEF Proceed, history
<1>4. CASE Reply
  BY <1>4 DEF Reply, Return, StoreUnused
<1>5. CASE Throw \/ Stop
  BY <1>5 DEF Throw, Stop, Abandon, Kill, history, vars
<1>6. CASE Boot
  BY <1>6 DEF Boot, history, vars
<1>7. ASSUME NEW c \in Calls, Send(c) \/ Cancel(c) \/ Accept(c) \/ Answer(c)
      PROVE  UNCHANGED <<vars, history>>
  BY <1>7 DEF Send, Cancel, Accept, Answer
<1>8. ASSUME NEW m \in Methods, Begin(m) PROVE UNCHANGED <<vars, history>>
  BY <1>8 DEF Begin
<1>9. CASE UNCHANGED systemVars
  BY <1>9 DEF systemVars, vars, history
<1> QED
  BY <1>1, <1>2, <1>3, <1>4, <1>5, <1>6, <1>7, <1>8, <1>9 DEF SystemNext, vars, history

LEMMA TablesTyped ==
    SystemInv => /\ memos \in [MemoIds -> Titles \cup {NoRow}]
                 /\ tags \in [TagIds -> Names \cup {NoRow}]
                 /\ tagged \in [MemoIds -> SUBSET TagIds]
BY DEF SystemInv, IInv, ControlOK, StoreOK, current, Contents, MemoTable, TagTable

LEMMA RefsStay ==
    Store!LikeIsExact /\ SystemInv /\ RefsInv /\ [SystemNext]_systemVars => RefsInv'
<1> SUFFICES ASSUME Store!LikeIsExact, SystemInv, RefsInv, [SystemNext]_systemVars
             PROVE  RefsInv'
  OBVIOUS
<1> USE TablesTyped, SchemaAssumption DEF RefsInv, Rows
<1>1. CASE UNCHANGED contents
  BY <1>1 DEF contents
<1>2. ASSUME NEW m \in MemoIds, MemoChange(m) PROVE RefsInv'
  <2>1. rq \in AddMemoRqs \cup UpdateMemoRqs => rq.text \in Titles
    BY MethodOf
  <2> QED
    BY <1>2, <2>1 DEF MemoChange, MemoInsertion, MemoRewriting, MemoDeletion
<1>3. ASSUME NEW t \in TagIds, TagChange(t) PROVE RefsInv'
  <2>1. rq \in AddTagRqs \cup UpdateTagRqs => rq.text \in Names
    BY MethodOf
  <2> QED
    BY <1>3, <2>1 DEF TagChange, TagInsertion, TagRewriting, TagDeletion
<1> QED
  BY <1>1, <1>2, <1>3, EffectCases

LEMMA EffectsStay ==
    Store!LikeIsExact /\ SystemInv /\ RefsInv /\ EffectsInv /\ [SystemNext]_systemVars
        => EffectsInv'
<1> SUFFICES ASSUME Store!LikeIsExact, SystemInv, RefsInv, EffectsInv, [SystemNext]_systemVars
             PROVE  EffectsInv'
  OBVIOUS
<1>1. wants' = wants
  BY EffectCases
<1>2. \A e : Fits(e)' <=> Fits(e)
  BY <1>1 DEF Fits, Want
<1>3. CASE effects' = effects
  BY <1>2, <1>3 DEF EffectsInv
<1>4. ASSUME NEW row, NextEffect(row), request.op \in Ops, Fits(<<serving, request.op, row>>)
      PROVE  EffectsInv'
  <2> DEFINE e == <<serving, request.op, row>>
  <2>1. e \in Calls \X Ops \X EffectRows
    BY <1>4 DEF NextEffect
  <2>2. effects' = Append(effects, e)
    BY <1>4 DEF NextEffect
  <2> HIDE DEF e
  <2>3. effects' \in Seq(Calls \X Ops \X EffectRows)
    BY <2>1, <2>2 DEF EffectsInv
  <2>4. \A i \in DOMAIN effects' : effects'[i] = e \/ (i \in DOMAIN effects /\ effects'[i] = effects[i])
    BY <2>1, <2>2 DEF EffectsInv
  <2> QED
    BY <1>2, <1>4, <2>3, <2>4 DEF EffectsInv, e
<1>5. ASSUME NEW m \in MemoIds, MemoChange(m), NextEffect(<<"memo", m>>) PROVE EffectsInv'
  <2>1. Fits(<<serving, request.op, <<"memo", m>>>>) /\ request.op \in Ops
    BY <1>5 DEF Fits, Ops, MemoChange, MemoInsertion, MemoRewriting, MemoDeletion, NextEffect
  <2> QED
    BY <1>4, <1>5, <2>1
<1>6. ASSUME NEW t \in TagIds, TagChange(t), NextEffect(<<"tag", t>>) PROVE EffectsInv'
  <2>1. Fits(<<serving, request.op, <<"tag", t>>>>) /\ request.op \in Ops
    BY <1>6 DEF Fits, Ops, TagChange, TagInsertion, TagRewriting, TagDeletion, NextEffect
  <2> QED
    BY <1>4, <1>6, <2>1
<1> QED
  BY <1>3, <1>5, <1>6, EffectCases

\* What a recorded effect adds to the earlier ones.
LEMMA Recorded ==
    ASSUME EffectsInv, NEW row \in EffectRows, NextEffect(row), request.op \in Ops,
           NEW n, n = Len(effects)
    PROVE  /\ n \in Nat /\ DOMAIN effects = 1..n /\ DOMAIN effects' = 1..n + 1
           /\ effects'[n + 1] = <<serving, request.op, row>>
           /\ \A i \in 1..n :
                 /\ effects'[i] = effects[i]
                 /\ effects[i] \in Calls \X Ops \X EffectRows
                 /\ IsLast(i)' => IsLast(i) /\ effects[i][3] # row
                 /\ DeletedSince(i)' =
                       DeletedSince(i) \cup
                           {t \in TagIds : request.op = "deleteTag" /\ row = <<"tag", t>>}
           /\ DeletedSince(n + 1)' = {}
<1> DEFINE e == <<serving, request.op, row>>
<1>1. e \in Calls \X Ops \X EffectRows /\ effects' = Append(effects, e)
  BY DEF NextEffect
<1>2. e[2] = request.op /\ e[3] = row
  OBVIOUS
<1> HIDE DEF e
<1>3. /\ n \in Nat /\ DOMAIN effects = 1..n /\ DOMAIN effects' = 1..n + 1
      /\ effects'[n + 1] = e
      /\ \A i \in 1..n : effects'[i] = effects[i] /\ effects[i] \in Calls \X Ops \X EffectRows
  BY <1>1 DEF EffectsInv
<1>4. ASSUME NEW i \in 1..n, IsLast(i)' PROVE IsLast(i) /\ effects[i][3] # row
  <2>1. \A j \in 1..n + 1 : effects'[j][3] = effects'[i][3] => j =< i
    BY <1>3, <1>4 DEF IsLast
  <2>2. effects[i][3] # row
    BY <1>2, <1>3, <2>1
  <2>3. \A j \in 1..n : effects[j][3] = effects[i][3] => j =< i
    BY <1>3, <2>1
  <2> QED
    BY <1>3, <2>2, <2>3 DEF IsLast
<1>5. ASSUME NEW i \in 1..n
      PROVE  DeletedSince(i)' =
                 DeletedSince(i) \cup
                     {t \in TagIds : request.op = "deleteTag" /\ row = <<"tag", t>>}
  <2>1. \A t \in TagIds : t \in DeletedSince(i)' <=>
            \E j \in 1..n + 1 : i < j /\ effects'[j][2] = "deleteTag" /\ effects'[j][3] = <<"tag", t>>
    BY <1>3 DEF DeletedSince
  <2>2. \A t \in TagIds : t \in DeletedSince(i) <=>
            \E j \in 1..n : i < j /\ effects[j][2] = "deleteTag" /\ effects[j][3] = <<"tag", t>>
    BY <1>3 DEF DeletedSince
  <2>3. DeletedSince(i) \subseteq TagIds /\ DeletedSince(i)' \subseteq TagIds
    BY DEF DeletedSince
  <2>4. \A t \in TagIds : t \in DeletedSince(i)' <=>
            t \in DeletedSince(i) \/ (request.op = "deleteTag" /\ row = <<"tag", t>>)
    <3>1. 1..n + 1 = 1..n \cup {n + 1} /\ i < n + 1
      BY <1>3
    <3>2. effects'[n + 1][2] = request.op /\ effects'[n + 1][3] = row
      BY <1>2, <1>3
    <3>3. \A j \in 1..n : effects'[j] = effects[j]
      BY <1>3
    <3> QED
      BY <2>1, <2>2, <3>1, <3>2, <3>3, ZenonT(40)
  <2> QED
    BY <2>3, <2>4
<1>6. DeletedSince(n + 1)' = {}
  BY <1>3 DEF DeletedSince
<1> QED
  BY <1>3, <1>4, <1>5, <1>6 DEF e

LEMMA StandingStays ==
    /\ Store!LikeIsExact
    /\ SystemInv /\ RefsInv /\ EffectsInv /\ StandingInv
    /\ [SystemNext]_systemVars
    => StandingInv'
<1> SUFFICES ASSUME Store!LikeIsExact, SystemInv, RefsInv, EffectsInv, StandingInv,
                    [SystemNext]_systemVars
             PROVE  StandingInv'
  OBVIOUS
<1>1. wants' = wants
  BY EffectCases
<1>2. CASE UNCHANGED contents /\ effects' = effects
  <2>1. \A i : IsLast(i)' <=> IsLast(i)
    BY <1>2 DEF IsLast
  <2>2. \A i : DeletedSince(i)' = DeletedSince(i)
    BY <1>2 DEF DeletedSince
  <2>3. \A i : Stands(i)' <=> Stands(i)
    BY <1>1, <1>2, <2>2 DEF Stands, Want, contents
  <2> QED
    BY <1>2, <2>1, <2>3 DEF StandingInv, contents
<1>0. PICK n : n = Len(effects)
  OBVIOUS
<1>3. ASSUME NEW m \in MemoIds, MemoChange(m), NextEffect(<<"memo", m>>) PROVE StandingInv'
  <2> DEFINE row == <<"memo", m>>
  <2>1. request.op \in Ops /\ request.op # "deleteTag"
    BY <1>3 DEF MemoChange, MemoInsertion, MemoRewriting, MemoDeletion, Ops
  <2>2. row \in EffectRows
    BY DEF EffectRows
  <2>3. /\ n \in Nat /\ DOMAIN effects = 1..n /\ DOMAIN effects' = 1..n + 1
        /\ effects'[n + 1] = <<serving, request.op, row>>
        /\ \A i \in 1..n :
              /\ effects'[i] = effects[i]
              /\ effects[i] \in Calls \X Ops \X EffectRows
              /\ IsLast(i)' => IsLast(i) /\ effects[i][3] # row
              /\ DeletedSince(i)' = DeletedSince(i)
        /\ DeletedSince(n + 1)' = {}
    <3> DEFINE D == {t \in TagIds : request.op = "deleteTag" /\ row = <<"tag", t>>}
    <3>1. D = {}
      BY <2>1
    <3>2. NextEffect(row)
      BY <1>3
    <3>3. /\ n \in Nat /\ DOMAIN effects = 1..n /\ DOMAIN effects' = 1..n + 1
          /\ effects'[n + 1] = <<serving, request.op, row>>
          /\ \A i \in 1..n :
                /\ effects'[i] = effects[i]
                /\ effects[i] \in Calls \X Ops \X EffectRows
                /\ IsLast(i)' => IsLast(i) /\ effects[i][3] # row
                /\ DeletedSince(i)' = DeletedSince(i) \cup D
          /\ DeletedSince(n + 1)' = {}
      BY <1>0, <2>1, <2>2, <3>2, Recorded
    <3> HIDE DEF row, D
    <3>4. \A i \in 1..n : DeletedSince(i) \cup D = DeletedSince(i)
      BY <3>1
    <3> QED
      BY <3>3, <3>4
  <2>4. ASSUME NEW i \in 1..n, IsLast(i)'
        PROVE  /\ effects'[i][2] = "deleteMemo" => memos'[effects'[i][3][2]] = NoRow
               /\ effects'[i][2] = "deleteTag" => tags'[effects'[i][3][2]] = NoRow
               /\ effects'[i][2] \notin {"deleteMemo", "deleteTag"} => Stands(i)'
    <3> DEFINE id == effects[i][3][2]
    <3>1. /\ effects[i][3][1] = "memo" => id \in MemoIds /\ id # m /\ memos'[id] = memos[id]
                                          /\ tagged'[id] = tagged[id]
          /\ tags' = tags
      BY <1>3, <2>3, <2>4, TablesTyped
         DEF MemoChange, MemoInsertion, MemoRewriting, MemoDeletion, EffectRows
    <3>2. effects[i][2] = "deleteMemo" => effects[i][3][1] = "memo"
      BY <2>3 DEF EffectsInv, Fits
    <3>3. Stands(i) => Stands(i)'
      BY <1>1, <2>3, <3>1 DEF Stands, Want
    <3> QED
      BY <2>3, <2>4, <3>1, <3>2, <3>3 DEF StandingInv
  <2>5. /\ request.op = "deleteMemo" => memos'[m] = NoRow
        /\ request.op # "deleteMemo" => Stands(n + 1)'
    <3>1. effects'[n + 1][3] = row /\ effects'[n + 1][1] = serving /\ row[1] = "memo" /\ row[2] = m
      BY <2>3
    <3>2. wants'[serving[1]] = rq
      BY <1>1, <1>3 DEF NextEffect, Want
    <3>3. /\ request.op = "deleteMemo" => memos'[m] = NoRow
          /\ request.op # "deleteMemo" => memos'[m] = rq.text /\ tagged'[m] = Store!Named(rq)
      BY <1>3, TablesTyped DEF MemoChange, MemoInsertion, MemoRewriting, MemoDeletion
    <3> HIDE DEF row
    <3>4. Stands(n + 1)' <=> memos'[m] = rq.text /\ tagged'[m] = Store!Named(rq)
      BY <2>3, <3>1, <3>2 DEF Stands, Store!Named, Want
    <3> QED
      BY <3>3, <3>4
  <2> QED
    BY <2>1, <2>3, <2>4, <2>5 DEF StandingInv
<1>4. ASSUME NEW t \in TagIds, TagChange(t), NextEffect(<<"tag", t>>) PROVE StandingInv'
  <2> DEFINE row == <<"tag", t>>
  <2>1. request.op \in Ops /\ request.op # "deleteMemo"
    BY <1>4 DEF TagChange, TagInsertion, TagRewriting, TagDeletion, Ops
  <2>2. row \in EffectRows
    BY DEF EffectRows
  <2>3. /\ n \in Nat /\ DOMAIN effects = 1..n /\ DOMAIN effects' = 1..n + 1
        /\ effects'[n + 1] = <<serving, request.op, row>>
        /\ \A i \in 1..n :
              /\ effects'[i] = effects[i]
              /\ effects[i] \in Calls \X Ops \X EffectRows
              /\ IsLast(i)' => IsLast(i) /\ effects[i][3] # row
              /\ DeletedSince(i)' =
                    DeletedSince(i) \cup {u \in TagIds : request.op = "deleteTag" /\ row = <<"tag", u>>}
        /\ DeletedSince(n + 1)' = {}
    BY <1>0, <1>4, <2>1, <2>2, Recorded
  <2>4. ASSUME NEW i \in 1..n, IsLast(i)'
        PROVE  /\ effects'[i][2] = "deleteMemo" => memos'[effects'[i][3][2]] = NoRow
               /\ effects'[i][2] = "deleteTag" => tags'[effects'[i][3][2]] = NoRow
               /\ effects'[i][2] \notin {"deleteMemo", "deleteTag"} => Stands(i)'
    <3> DEFINE id == effects[i][3][2]
    <3>1. /\ effects[i][3][1] = "tag" => id \in TagIds /\ id # t /\ tags'[id] = tags[id]
          /\ memos' = memos
      BY <1>4, <2>3, <2>4, TablesTyped
         DEF TagChange, TagInsertion, TagRewriting, TagDeletion, EffectRows
    <3>2. effects[i][2] = "deleteTag" => effects[i][3][1] = "tag"
      BY <2>3 DEF EffectsInv, Fits
    <3>3. ASSUME effects[i][3][1] = "memo", Stands(i) PROVE Stands(i)'
      <4> DEFINE q == Want(effects[i][1])
      <4>1. memos[id] = q.text /\ tagged[id] = Store!Named(q) \ DeletedSince(i) /\ id \in MemoIds
        BY <2>3, <3>3 DEF Stands, EffectRows
      <4>2. tagged'[id] = Store!Named(q) \ DeletedSince(i)'
        <5>1. CASE request.op = "deleteTag"
          <6>1. DeletedSince(i)' = DeletedSince(i) \cup {t}
            BY <2>3, <5>1
          <6>2. tagged'[id] = tagged[id] \ {t}
            BY <1>4, <4>1, <5>1 DEF TagChange, TagInsertion, TagRewriting, TagDeletion
          <6> QED
            BY <4>1, <6>1, <6>2
        <5>2. CASE request.op # "deleteTag"
          <6>1. DeletedSince(i)' = DeletedSince(i)
            BY <2>3, <5>2
          <6>2. tagged' = tagged
            BY <1>4, <5>2 DEF TagChange, TagInsertion, TagRewriting, TagDeletion
          <6> QED
            BY <4>1, <6>1, <6>2
        <5> QED
          BY <5>1, <5>2
      <4>3. Want(effects[i][1])' = q /\ effects'[i] = effects[i]
        BY <1>1, <2>3 DEF Want
      <4> HIDE DEF q, id
      <4> QED
        BY <3>1, <3>3, <4>1, <4>2, <4>3 DEF Stands, id, Store!Named
    <3>4. ASSUME effects[i][3][1] # "memo", Stands(i) PROVE Stands(i)'
      <4>1. effects[i][3][1] = "tag"
        BY <2>3, <3>4 DEF EffectRows
      <4> QED
        BY <1>1, <2>3, <3>1, <3>4, <4>1 DEF Stands, Want
    <3> QED
      BY <2>3, <2>4, <3>1, <3>2, <3>3, <3>4 DEF StandingInv
  <2>5. /\ request.op = "deleteTag" => tags'[t] = NoRow
        /\ request.op # "deleteTag" => Stands(n + 1)'
    <3>1. effects'[n + 1][3] = row /\ effects'[n + 1][1] = serving /\ row[1] = "tag" /\ row[2] = t
      BY <2>3
    <3>2. wants'[serving[1]] = rq
      BY <1>1, <1>4 DEF NextEffect, Want
    <3>3. /\ request.op = "deleteTag" => tags'[t] = NoRow
          /\ request.op # "deleteTag" => tags'[t] = rq.text
      BY <1>4, TablesTyped DEF TagChange, TagInsertion, TagRewriting, TagDeletion
    <3> HIDE DEF row
    <3>4. Stands(n + 1)' <=> tags'[t] = rq.text
      BY <3>1, <3>2 DEF Stands, Want
    <3> QED
      BY <3>3, <3>4
  <2> QED
    BY <2>1, <2>3, <2>4, <2>5 DEF StandingInv
<1> QED
  BY <1>2, <1>3, <1>4, EffectCases

-----------------------------------------------------------------------------
(* A retry acts once *)

\* As long as the effect of a call is not undone, the same request changes nothing more.
LEMMA NotAgain ==
    ASSUME SystemInv, EffectsInv, StandingInv, NEW n, n = Len(effects),
           NEW row \in EffectRows, NextEffect(row),
           \/ \E m \in MemoIds : row = <<"memo", m>> /\ MemoChange(m)
           \/ \E t \in TagIds : row = <<"tag", t>> /\ TagChange(t),
           NEW i \in 1..n, effects[i][1][1] = serving[1],
           effects[i][2] \in {"insertMemo", "insertTag"} \/ effects[i][3] = row
    PROVE  \E k \in i + 1 .. n : Undoes(effects[k], effects[i])
<1> SUFFICES ASSUME \A k \in i + 1 .. n : ~Undoes(effects[k], effects[i]) PROVE FALSE
  OBVIOUS
<1>1. n \in Nat /\ DOMAIN effects = 1..n
  BY DEF EffectsInv
<1>2. effects[i] \in Calls \X Ops \X EffectRows /\ Fits(effects[i])
  BY <1>1 DEF EffectsInv
<1>3. Want(effects[i][1]) = rq
  BY DEF NextEffect, Want
<1>4. IsLast(i)
  BY <1>1 DEF IsLast, Undoes
<1> DEFINE id == effects[i][3][2]
<1>5. /\ effects[i][2] = "deleteMemo" => memos[id] = NoRow
      /\ effects[i][2] = "deleteTag" => tags[id] = NoRow
      /\ effects[i][2] \notin {"deleteMemo", "deleteTag"} => Stands(i)
  BY <1>1, <1>4 DEF StandingInv
<1>6. ASSUME NEW m \in MemoIds, row = <<"memo", m>>, MemoChange(m) PROVE FALSE
  <2>1. CASE MemoInsertion(m)
    <3>1. effects[i][2] = "insertMemo" /\ effects[i][3][1] = "memo" /\ id \in MemoIds
      BY <1>2, <1>3, <2>1, MethodOf DEF MemoInsertion, Fits, EffectRows
    <3>2. memos[id] = rq.text
      BY <1>3, <1>5, <3>1 DEF Stands
    <3> QED
      BY <2>1, <3>1, <3>2 DEF MemoInsertion
  <2>2. CASE MemoRewriting(m)
    <3>1. effects[i][2] = "updateMemo" /\ effects[i][3] = <<"memo", m>>
      BY <1>2, <1>3, <2>2, MethodOf DEF MemoRewriting, Fits
    <3>2. memos[m] = rq.text /\ tagged[m] = Store!Named(rq) \ DeletedSince(i)
      BY <1>3, <1>5, <3>1 DEF Stands
    <3>3. \A t \in DeletedSince(i) : t \notin Store!Named(rq)
      <4> SUFFICES ASSUME NEW t \in DeletedSince(i), t \in Store!Named(rq) PROVE FALSE
        OBVIOUS
      <4>1. PICK j \in 1..n : i < j /\ effects[j][2] = "deleteTag" /\ effects[j][3] = <<"tag", t>>
        BY <1>1 DEF DeletedSince
      <4>2. Undoes(effects[j], effects[i])
        BY <1>3, <3>1, <4>1 DEF Undoes
      <4> QED
        BY <1>1, <4>1, <4>2
    <3>4. tagged[m] = Store!Named(rq)
      BY <3>2, <3>3
    <3> QED
      BY <2>2, <3>2, <3>4 DEF MemoRewriting
  <2>3. CASE MemoDeletion(m)
    <3>1. effects[i][2] = "deleteMemo"
      BY <1>2, <1>3, <2>3, MethodOf DEF MemoDeletion, Fits
    <3>2. effects[i][3] = row
      BY <3>1
    <3> QED
      BY <1>5, <1>6, <2>3, <3>1, <3>2 DEF MemoDeletion
  <2> QED
    BY <1>6, <2>1, <2>2, <2>3 DEF MemoChange
<1>7. ASSUME NEW t \in TagIds, row = <<"tag", t>>, TagChange(t) PROVE FALSE
  <2>1. CASE TagInsertion(t)
    <3>1. effects[i][2] = "insertTag" /\ effects[i][3][1] = "tag" /\ id \in TagIds
      BY <1>2, <1>3, <2>1, MethodOf DEF TagInsertion, Fits, EffectRows
    <3>2. tags[id] = rq.text
      BY <1>3, <1>5, <3>1 DEF Stands
    <3> QED
      BY <2>1, <3>1, <3>2 DEF TagInsertion
  <2>2. CASE TagRewriting(t)
    <3>1. effects[i][2] = "updateTag" /\ effects[i][3] = <<"tag", t>>
      BY <1>2, <1>3, <2>2, MethodOf DEF TagRewriting, Fits
    <3>2. tags[t] = rq.text
      BY <1>3, <1>5, <3>1 DEF Stands
    <3> QED
      BY <2>2, <3>2 DEF TagRewriting
  <2>3. CASE TagDeletion(t)
    <3>1. effects[i][2] = "deleteTag"
      BY <1>2, <1>3, <2>3, MethodOf DEF TagDeletion, Fits
    <3>2. effects[i][3] = row
      BY <3>1
    <3> QED
      BY <1>5, <1>7, <2>3, <3>1, <3>2 DEF TagDeletion
  <2> QED
    BY <1>7, <2>1, <2>2, <2>3 DEF TagChange
<1> QED
  BY <1>6, <1>7

LEMMA RetryStays ==
    /\ Store!LikeIsExact
    /\ SystemInv /\ RefsInv /\ EffectsInv /\ StandingInv /\ RetryActsOnce
    /\ [SystemNext]_systemVars
    => RetryActsOnce'
<1> SUFFICES ASSUME Store!LikeIsExact, SystemInv, RefsInv, EffectsInv, StandingInv,
                    RetryActsOnce, [SystemNext]_systemVars
             PROVE  RetryActsOnce'
  OBVIOUS
<1>1. wants' = wants
  BY EffectCases
<1>2. CASE effects' = effects
  BY <1>1, <1>2 DEF RetryActsOnce, Undoes, Want
<1>3. PICK n : n = Len(effects)
  OBVIOUS
<1>4. ASSUME NEW row \in EffectRows, NextEffect(row), request.op \in Ops,
             \/ \E m \in MemoIds : row = <<"memo", m>> /\ MemoChange(m)
             \/ \E t \in TagIds : row = <<"tag", t>> /\ TagChange(t)
      PROVE  RetryActsOnce'
  <2>1. /\ n \in Nat /\ DOMAIN effects = 1..n /\ DOMAIN effects' = 1..n + 1
        /\ effects'[n + 1] = <<serving, request.op, row>>
        /\ \A i \in 1..n : effects'[i] = effects[i]
    BY <1>3, <1>4, Recorded
  <2> SUFFICES ASSUME NEW i \in 1..n + 1, NEW j \in 1..n + 1, i < j,
                      effects'[i][1][1] = effects'[j][1][1],
                      \/ effects'[i][2] \in {"insertMemo", "insertTag"}
                      \/ effects'[i][3] = effects'[j][3]
               PROVE  \E k \in i + 1 .. j - 1 : Undoes(effects[k], effects[i])'
    BY <2>1 DEF RetryActsOnce
  <2>2. i \in 1..n /\ effects'[i] = effects[i]
    BY <2>1
  <2>3. CASE j = n + 1
    <3>1. effects[i][1][1] = serving[1]
      BY <2>1, <2>2, <2>3
    <3>2. effects[i][2] \in {"insertMemo", "insertTag"} \/ effects[i][3] = row
      BY <2>1, <2>2, <2>3
    <3>3. PICK k \in i + 1 .. n : Undoes(effects[k], effects[i])
      BY <1>3, <1>4, <2>2, <3>1, <3>2, NotAgain
    <3>4. k \in i + 1 .. j - 1 /\ effects'[k] = effects[k]
      BY <2>1, <2>2, <2>3, SMTT(30)
    <3> QED
      BY <1>1, <2>2, <3>3, <3>4 DEF Undoes, Want, Store!Named
  <2>4. CASE j # n + 1
    <3>1. j \in 1..n /\ effects'[j] = effects[j]
      BY <2>1, <2>4
    <3>2. PICK k \in i + 1 .. j - 1 : Undoes(effects[k], effects[i])
      BY <2>1, <2>2, <3>1 DEF RetryActsOnce
    <3>3. effects'[k] = effects[k]
      BY <2>1, <2>2, <3>1
    <3> QED
      BY <1>1, <2>2, <3>2, <3>3 DEF Undoes, Want, Store!Named
  <2> QED
    BY <2>3, <2>4
<1>5. ASSUME NEW m \in MemoIds, MemoChange(m), NextEffect(<<"memo", m>>) PROVE RetryActsOnce'
  <2>1. request.op \in Ops
    BY <1>5 DEF MemoChange, MemoInsertion, MemoRewriting, MemoDeletion, Ops
  <2>2. <<"memo", m>> \in EffectRows
    BY DEF EffectRows
  <2> QED
    BY <1>4, <1>5, <2>1, <2>2
<1>6. ASSUME NEW t \in TagIds, TagChange(t), NextEffect(<<"tag", t>>) PROVE RetryActsOnce'
  <2>1. request.op \in Ops
    BY <1>6 DEF TagChange, TagInsertion, TagRewriting, TagDeletion, Ops
  <2>2. <<"tag", t>> \in EffectRows
    BY DEF EffectRows
  <2> QED
    BY <1>4, <1>6, <2>1, <2>2
<1> QED
  BY <1>2, <1>5, <1>6, EffectCases

-----------------------------------------------------------------------------
(* What was answered is kept *)

HasEffect(c) == \E i \in DOMAIN effects : effects[i][1] = c

\* The handler of an addition has been told, or has found, that its row was inserted.
Added == Inserting \/ step = "lookup" \/ (step = "reply" /\ reply.ok)

\* An addition that was carried out, or is answered with SUCCESS, has had its effect.
AddingInv == rq \in AddMemoRqs \cup AddTagRqs /\ Added => HasEffect(serving)

AnswersInv ==
    \A c \in Calls :
        answers[c].ok /\ Want(c).method \in {"AddMemo", "AddTag"} => HasEffect(c)

AddedInv == AddingInv /\ AnswersInv

\* An insertion that is carried out changes the contents.
LEMMA InsertionChanges ==
    ASSUME SystemInv, Store!Apply, step = "insert"
    PROVE  ~UNCHANGED contents
<1>1. \/ /\ rq \in AddMemoRqs
         /\ request = [op |-> "insertMemo", text |-> rq.text, tags |-> rq.tags]
      \/ rq \in AddTagRqs /\ request = [op |-> "insertTag", text |-> rq.text]
  BY DEF SystemInv, IInv, ControlOK, CallFits
<1>2. CASE rq \in AddMemoRqs /\ Store!InsertMemo(request) /\ request.text = rq.text
  <2>1. PICK m \in MemoIds : memos' = [memos EXCEPT ![m] = rq.text]
    BY <1>2 DEF Store!InsertMemo, Store!AddMemo
  <2>2. memos'[m] = rq.text
    BY <2>1, TablesTyped
  <2>3. rq.text # NoRow
    BY <1>2, MethodOf, SchemaAssumption
  <2>4. memos[m] # rq.text
    BY <1>2, <2>3, TablesTyped DEF Store!InsertMemo, Store!Rows
  <2> QED
    BY <2>2, <2>4 DEF contents
<1>3. CASE rq \in AddTagRqs /\ Store!InsertTag(request) /\ request.text = rq.text
  <2>1. PICK t \in TagIds : tags' = [tags EXCEPT ![t] = rq.text]
    BY <1>3 DEF Store!InsertTag
  <2>2. tags'[t] = rq.text
    BY <2>1, TablesTyped
  <2>3. rq.text # NoRow
    BY <1>3, MethodOf, SchemaAssumption
  <2>4. tags[t] # rq.text
    BY <1>3, <2>3, TablesTyped DEF Store!InsertTag, Store!Rows
  <2> QED
    BY <2>2, <2>4 DEF contents
<1> QED
  BY <1>1, <1>2, <1>3 DEF Store!Apply, Store!Effect

\* Effects are not forgotten, and the next one is that of the call that is served.
LEMMA EffectsGrow ==
    ASSUME Store!LikeIsExact, SystemInv, RefsInv, EffectsInv, [SystemNext]_systemVars
    PROVE  /\ \A c \in Calls : HasEffect(c) => HasEffect(c)'
           /\ ~UNCHANGED contents => serving \in Calls /\ \E i \in DOMAIN effects' : effects'[i][1] = serving
<1>1. CASE UNCHANGED contents /\ effects' = effects
  BY <1>1 DEF HasEffect
<1>2. PICK n : n = Len(effects)
  OBVIOUS
<1>3. ASSUME NEW row \in EffectRows, NextEffect(row), request.op \in Ops
      PROVE  /\ \A c \in Calls : HasEffect(c) => HasEffect(c)'
             /\ serving \in Calls /\ \E i \in DOMAIN effects' : effects'[i][1] = serving
  <2>1. /\ n \in Nat /\ DOMAIN effects = 1..n /\ DOMAIN effects' = 1..n + 1
        /\ effects'[n + 1] = <<serving, request.op, row>>
        /\ \A i \in 1..n : effects'[i] = effects[i]
    BY <1>2, <1>3, Recorded
  <2>2. n + 1 \in 1..n + 1 /\ effects'[n + 1][1] = serving
    BY <2>1
  <2>3. serving \in Calls
    BY <1>3 DEF NextEffect
  <2> QED
    BY <2>1, <2>2, <2>3 DEF HasEffect
<1>4. ASSUME NEW m \in MemoIds, MemoChange(m), NextEffect(<<"memo", m>>)
      PROVE  <<"memo", m>> \in EffectRows /\ request.op \in Ops
  BY <1>4 DEF MemoChange, MemoInsertion, MemoRewriting, MemoDeletion, Ops, EffectRows
<1>5. ASSUME NEW t \in TagIds, TagChange(t), NextEffect(<<"tag", t>>)
      PROVE  <<"tag", t>> \in EffectRows /\ request.op \in Ops
  BY <1>5 DEF TagChange, TagInsertion, TagRewriting, TagDeletion, Ops, EffectRows
<1> QED
  BY <1>1, <1>3, <1>4, <1>5, EffectCases

LEMMA AddedStays ==
    /\ Store!LikeIsExact
    /\ SystemInv /\ RefsInv /\ EffectsInv /\ AddedInv
    /\ [SystemNext]_systemVars
    => AddedInv'
<1> SUFFICES ASSUME Store!LikeIsExact, SystemInv, RefsInv, EffectsInv, AddedInv,
                    [SystemNext]_systemVars
             PROVE  AddedInv'
  OBVIOUS
<1>1. wants' = wants
  BY EffectCases
<1>2. /\ serving \in Calls \cup {NoCall} /\ handled \subseteq Calls
      /\ (step # "idle" => serving \in handled /\ rq = Want(serving))
      /\ answers \in [Calls -> Replies]
  BY DEF SystemInv, LoopInv, LoopTypes, PlaceInv, RunInv
<1>3. /\ step = "idle" => rq = NoRq
      /\ NoRq \notin AddMemoRqs \cup AddTagRqs
  BY ServicesAssumption DEF SystemInv, IInv, ControlOK, StoreMatchesStep, Rqs
<1>4. ASSUME AddingInv', answers' = answers PROVE AddedInv'
  <2>1. AnswersInv'
    BY <1>1, <1>4, EffectsGrow DEF AddedInv, AnswersInv, Want
  <2> QED
    BY <1>4, <2>1 DEF AddedInv
<1>5. CASE UNCHANGED <<vars, serving, answers>>
  <2>1. AddingInv'
    BY <1>2, <1>3, <1>5, EffectsGrow, SystemAssumption
       DEF AddedInv, AddingInv, Added, Inserting, vars, handler
  <2> QED
    BY <1>4, <1>5, <2>1
<1>6. CASE StoreWorks
  <2>1. /\ UNCHANGED <<rq, step, reply, serving, answers>> /\ phase = "pending"
        /\ phase' = "applied" => Store!Apply
    BY <1>6 DEF StoreWorks, StoreStep, handler, rpc, Store!Apply, Store!Refuse
  <2>2. step = "insert" /\ phase' = "applied" => HasEffect(serving)'
    BY <2>1, InsertionChanges, EffectsGrow DEF HasEffect
  <2>3. step \in {"lookup", "reply"} => HasEffect(serving)' \/ ~AddingInv
    BY <2>1 DEF SystemInv, IInv, ControlOK, StoreMatchesStep
  <2>4. AddingInv'
    BY <2>1, <2>2, <2>3 DEF AddedInv, AddingInv, Added, Inserting, SystemInv, IInv, ControlOK,
       StoreMatchesStep
  <2> QED
    BY <1>4, <2>1, <2>4
<1>7. CASE Enter
  <2>1. ~Added'
    BY <1>7 DEF Enter, StartAddMemo, StartAddTag, StartUpdateMemo, StartUpdateTag, StartRemove,
       CallStore, Store!Receive, Added, Inserting
  <2>2. answers' = answers
    BY <1>7 DEF Enter, history
  <2> QED
    BY <1>4, <2>1, <2>2 DEF AddingInv
<1>8. CASE Proceed
  <2>1. UNCHANGED <<rq, serving, answers, effects>>
    BY <1>8, GoesOn DEF Proceed, rpc, history
  <2>2. ASSUME rq \in AddMemoRqs \cup AddTagRqs, Added' PROVE HasEffect(serving)
    <3>1. ~NoReply.ok /\ step # "idle"
      BY <1>8 DEF NoReply, Proceed
    <3>2. \/ Inserted("AddMemo") \/ LookUp("AddMemo", memos)
          \/ Inserted("AddTag") \/ LookUp("AddTag", tags)
      BY <1>8, <2>2, <3>1, MethodOf
         DEF Proceed, MemoServiceHandlers, TagServiceHandlers, AddMemo, AddTag, UpdateMemo,
             UpdateTag, RemoveMemo, RemoveTag, StartAddMemo, StartAddTag, StartUpdateMemo,
             StartUpdateTag, StartRemove, Start, Updated, RemoveNext, Removed
    <3>3. Added
      BY <2>2, <3>1, <3>2 DEF Inserted, LookUp, Returned, ReplyWith, Added, Inserting
    <3> QED
      BY <2>2, <3>3 DEF AddedInv, AddingInv
  <2>3. AddingInv'
    BY <2>1, <2>2 DEF AddingInv, HasEffect
  <2> QED
    BY <1>4, <2>1, <2>3
<1>9. CASE Reply
  <2>1. /\ step = "reply" /\ rq' = NoRq /\ effects' = effects
        /\ serving \in Calls /\ rq = Want(serving)
        /\ answers' = [answers EXCEPT ![serving] = reply]
    BY <1>2, <1>9, SystemAssumption DEF Reply, Return, HandlerEnds, Rpc!Return
  <2>2. AddingInv'
    BY <1>3, <2>1 DEF AddingInv
  <2>3. AnswersInv'
    <3> SUFFICES ASSUME NEW c \in Calls, answers'[c].ok, Want(c).method \in {"AddMemo", "AddTag"}
                 PROVE  HasEffect(c)
      BY <1>1, <2>1 DEF AnswersInv, Want, HasEffect
    <3>1. CASE c = serving
      <4>1. rq \in Rqs
        BY <2>1, WantTyped DEF SystemInv, LoopInv
      <4>2. rq \in AddMemoRqs \cup AddTagRqs
        BY <2>1, <3>1, <4>1, MethodOf DEF Rqs
      <4>3. Added
        BY <1>2, <2>1, <3>1 DEF Added
      <4> QED
        BY <3>1, <4>2, <4>3 DEF AddedInv, AddingInv
    <3>2. CASE c # serving
      BY <1>2, <2>1, <3>2 DEF AddedInv, AnswersInv
    <3> QED
      BY <3>1, <3>2
  <2> QED
    BY <2>2, <2>3 DEF AddedInv
<1>10. CASE Throw \/ Stop
  <2>1. rq' = NoRq /\ answers' = answers
    BY <1>3, <1>10 DEF Throw, Stop, Abandon, Kill, HandlerEnds, vars, handler, history
  <2> QED
    BY <1>3, <1>4, <2>1 DEF AddingInv
<1>11. CASE Boot
  BY <1>5, <1>11 DEF Boot, Rpc!Boot, history
<1>12. ASSUME NEW c \in Calls, Send(c) \/ Cancel(c) \/ Accept(c) \/ Answer(c) PROVE AddedInv'
  BY <1>5, <1>12 DEF Send, Cancel, Accept, Answer, Rpc!Send, Rpc!Cancel, Rpc!Accept, Rpc!Answer, history
<1>13. ASSUME NEW m \in Methods, Begin(m) PROVE AddedInv'
  <2>1. step = "idle"
    BY <1>2, <1>13, SystemAssumption DEF Begin, Rpc!Begin
  <2>2. rq' = NoRq /\ answers' = answers
    BY <1>3, <1>13, <2>1 DEF Begin, vars, handler, history
  <2> QED
    BY <1>3, <1>4, <2>2 DEF AddingInv
<1>14. CASE UNCHANGED systemVars
  BY <1>5, <1>14 DEF systemVars, rpc, history
<1> QED
  BY <1>6, <1>7, <1>8, <1>9, <1>10, <1>11, <1>12, <1>13, <1>14 DEF SystemNext

\* The invariant behind the promises to the clients.
PromiseInv ==
    /\ SystemInv
    /\ RefsInv
    /\ EffectsInv
    /\ StandingInv
    /\ RetryActsOnce
    /\ AddedInv

THEOREM PromiseInvariance ==
    ASSUME Store!LikeIsExact
    PROVE  SystemSpec => []PromiseInv
<1>1. SystemInit => RefsInv
  BY RefsStart DEF SystemInit
<1>2. SystemInit => EffectsInv /\ StandingInv /\ RetryActsOnce
  BY DEF SystemInit, EffectsInv, StandingInv, RetryActsOnce
<1>3. SystemInit => AddedInv
  <2>1. ~NoReply.ok
    BY DEF NoReply
  <2> QED
    BY <2>1 DEF SystemInit, Init, AddedInv, AddingInv, AnswersInv, Added, Inserting
<1>4. /\ SystemInv /\ SystemInv'
      /\ RefsInv /\ EffectsInv /\ StandingInv /\ RetryActsOnce /\ AddedInv
      /\ [SystemNext]_systemVars
      => RefsInv' /\ EffectsInv' /\ StandingInv' /\ RetryActsOnce' /\ AddedInv'
  BY RefsStay, EffectsStay, StandingStays, RetryStays, AddedStays
<1> QED
  BY <1>1, <1>2, <1>3, <1>4, SystemInvariance, PTL DEF SystemSpec, PromiseInv

\* However often a client tries, its request takes effect once on a row, unless the effect
\* was undone in between.  For a LIKE that finds a text alone, as AnswersAreKept: with
\* another one the addition of a memo may give its tags to a second memo, and so change a
\* row that nobody named.
THEOREM RetriesActOnce ==
    ASSUME Store!LikeIsExact
    PROVE  SystemSpec => []RetryActsOnce
<1>1. PromiseInv => RetryActsOnce
  BY DEF PromiseInv
<1> QED
  BY <1>1, PromiseInvariance, PTL

\* What a client was told has been added was added by that attempt; and what an answered
\* attempt has written is in the database until another call writes the row, however often
\* the server was killed since.
THEOREM AnswersAreKept ==
    ASSUME Store!LikeIsExact
    PROVE  SystemSpec => []AnsweredIsKept
<1>1. PromiseInv => AnsweredIsKept
  <2> SUFFICES ASSUME PromiseInv, NEW c \in Calls, answers[c].ok
               PROVE  /\ Want(c).method \in {"AddMemo", "AddTag"} => HasEffect(c)
                      /\ \A i \in DOMAIN effects :
                            effects[i][1] = c /\ Want(c).method \notin {"RemoveMemo", "RemoveTag"} /\ IsLast(i)
                                => Stands(i)
    BY DEF AnsweredIsKept, HasEffect
  <2>1. Want(c).method \in {"AddMemo", "AddTag"} => HasEffect(c)
    BY DEF PromiseInv, AddedInv, AnswersInv
  <2>2. ASSUME NEW i \in DOMAIN effects, effects[i][1] = c,
               Want(c).method \notin {"RemoveMemo", "RemoveTag"}, IsLast(i)
        PROVE  Stands(i)
    <3>1. effects[i][2] \notin {"deleteMemo", "deleteTag"}
      BY <2>2, MethodOf DEF PromiseInv, EffectsInv, Fits
    <3> QED
      BY <2>2, <3>1 DEF PromiseInv, StandingInv
  <2> QED
    BY <2>1, <2>2
<1> QED
  BY <1>1, PromiseInvariance, PTL

=============================================================================
