----------------------------- MODULE MemoStore -----------------------------
(***************************************************************************)
(* What src/db/IDatabase.hpp promises the services of the operations that  *)
(* change the database: each takes effect at once and completely, or it    *)
(* returns false and has no effect; what returned true survives a crash.   *)
(*                                                                         *)
(* Module Sqlite3Database is shown to implement this one.                  *)
(***************************************************************************)
EXTENDS Sqlite3Schema

CONSTANTS
    Requests,     \* the operations with their arguments
    NoRequest,
    Like          \* the <<text, title>> pairs for which a lookup by the text finds the title

VARIABLES
    memos,        \* memos[m]: the title of memo m, or NoRow
    tags,         \* tags[t]: the name of tag t, or NoRow
    tagged,       \* tagged[m]: the tags of memo m
    request,      \* the operation in progress
    phase,        \* "idle", "pending", "applied" or "refused"
    degraded      \* the store has had a fault

contents == <<memos, tags, tagged>>
vars     == <<contents, request, phase, degraded>>

Init ==
    /\ memos = [m \in MemoIds |-> NoRow]
    /\ tags = [t \in TagIds |-> NoRow]
    /\ tagged = [m \in MemoIds |-> {}]
    /\ request = NoRequest
    /\ phase = "idle"
    /\ degraded = FALSE

-----------------------------------------------------------------------------

\* The tags a request names.
Named(r) == {t \in TagIds : r.tags[t] > 0}

\* The lookup by a text finds that text alone.
LikeIsExact == \A p \in Like : p[1] = p[2]

\* An id newer than those in use.
IsNew(table, id) == \A i \in Rows(table) : i < id

\* A new memo with the title.  Its tags go to a memo that is looked up by the title:
\* the new one, unless LIKE takes another title for the same.
AddMemo(r) ==
    /\ Named(r) \subseteq Rows(tags)
    /\ \E id \in MemoIds :
          /\ IsNew(memos, id)
          /\ memos' = [memos EXCEPT ![id] = r.text]
          /\ \E m \in Rows(memos') :
                /\ <<r.text, memos'[m]>> \in Like
                /\ tagged' = [i \in MemoIds |-> (IF i = id THEN {} ELSE tagged[i])
                                              \cup (IF i = m THEN Named(r) ELSE {})]
    /\ UNCHANGED tags

\* Mutant: the title is not UNIQUE.
InsertMemoAlways(r) == AddMemo(r)

InsertMemo(r) == (\A i \in Rows(memos) : memos[i] # r.text) /\ AddMemo(r)

InsertTag(r) ==
    /\ \A i \in Rows(tags) : tags[i] # r.text
    /\ \E id \in TagIds : IsNew(tags, id) /\ tags' = [tags EXCEPT ![id] = r.text]
    /\ UNCHANGED <<memos, tagged>>

\* An existing memo gets the title and exactly the tags of the request.  Updating
\* a memo that does not exist succeeds and does nothing, unless it names tags.
UpdateMemo(r) ==
    \/ /\ r.id \in Rows(memos)
       /\ \A i \in Rows(memos) : memos[i] = r.text => i = r.id
       /\ Named(r) \subseteq Rows(tags)
       /\ memos' = [memos EXCEPT ![r.id] = r.text]
       /\ tagged' = [tagged EXCEPT ![r.id] = Named(r)]
       /\ UNCHANGED tags
    \/ r.id \notin Rows(memos) /\ Named(r) = {} /\ UNCHANGED contents

UpdateTag(r) ==
    \/ /\ r.id \in Rows(tags)
       /\ \A i \in Rows(tags) : tags[i] = r.text => i = r.id
       /\ tags' = [tags EXCEPT ![r.id] = r.text]
       /\ UNCHANGED <<memos, tagged>>
    \/ r.id \notin Rows(tags) /\ UNCHANGED contents

DeleteMemo(r) ==
    /\ memos' = [memos EXCEPT ![r.id] = NoRow]
    /\ tagged' = [tagged EXCEPT ![r.id] = {}]
    /\ UNCHANGED tags

DeleteTag(r) ==
    /\ tags' = [tags EXCEPT ![r.id] = NoRow]
    /\ tagged' = [m \in MemoIds |-> tagged[m] \ {r.id}]
    /\ UNCHANGED memos

Effect(r) ==
    \/ r.op = "insertMemo" /\ InsertMemo(r)
    \/ r.op = "insertTag"  /\ InsertTag(r)
    \/ r.op = "updateMemo" /\ UpdateMemo(r)
    \/ r.op = "updateTag"  /\ UpdateTag(r)
    \/ r.op = "deleteMemo" /\ DeleteMemo(r)
    \/ r.op = "deleteTag"  /\ DeleteTag(r)

\* When Effect has an outcome.
Possible(r) ==
    /\ r.op = "insertMemo" => /\ \A i \in Rows(memos) : memos[i] # r.text
                              /\ Named(r) \subseteq Rows(tags)
                              /\ \E id \in MemoIds : IsNew(memos, id)
    /\ r.op = "insertTag"  => /\ \A i \in Rows(tags) : tags[i] # r.text
                              /\ \E id \in TagIds : IsNew(tags, id)
    /\ r.op = "updateMemo" => \/ /\ r.id \in Rows(memos)
                                 /\ \A i \in Rows(memos) : memos[i] = r.text => i = r.id
                                 /\ Named(r) \subseteq Rows(tags)
                              \/ r.id \notin Rows(memos) /\ Named(r) = {}
    /\ r.op = "updateTag" /\ r.id \in Rows(tags) =>
          \A i \in Rows(tags) : tags[i] = r.text => i = r.id

-----------------------------------------------------------------------------

\* A fault may come with any step, and none is ever repaired.
MayDegrade == degraded' \in {degraded, TRUE}

Receive ==
    /\ phase = "idle"
    /\ request' \in Requests
    /\ phase' = "pending"
    /\ UNCHANGED contents
    /\ MayDegrade

Apply ==
    /\ phase = "pending"
    /\ Effect(request)
    /\ phase' = "applied"
    /\ UNCHANGED request
    /\ MayDegrade

\* Without a fault an operation is refused only if it is impossible.
Refuse ==
    /\ phase = "pending"
    /\ phase' = "refused"
    /\ UNCHANGED <<contents, request>>
    /\ MayDegrade
    /\ degraded' \/ ~Possible(request)

\* The caller gets its result, or the process is killed: in every phase the
\* contents stay as they are.
Finish ==
    /\ phase # "idle"
    /\ request' = NoRequest
    /\ phase' = "idle"
    /\ UNCHANGED contents
    /\ MayDegrade

Degrade == ~degraded /\ degraded' /\ UNCHANGED <<contents, request, phase>>

Next == Receive \/ Apply \/ Refuse \/ Finish \/ Degrade

Spec == Init /\ [][Next]_vars

=============================================================================
