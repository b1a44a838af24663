------------------------------ MODULE Records ------------------------------
(***************************************************************************)
(* What becomes of the fields of a memo or a tag on their way from a       *)
(* request to a row of the database and back into a reply: the conversions *)
(* of MemoService and TagService, the classes of src/model, the columns    *)
(* that Sqlite3Functions.cpp writes and the texts that Sqlite3Database.cpp *)
(* reads.                                                                  *)
(*                                                                         *)
(* A handler is one step here: its single statements, their failures and   *)
(* kills between them are Sqlite3Database's and MemoServices's subject, as *)
(* is where the tags of a new memo go when LIKE takes its title for        *)
(* another one.  tag_ids is a set.                                         *)
(***************************************************************************)
EXTENDS Tools, FiniteSetsExt

CONSTANTS
    Titles, Descriptions, Names,   \* of requests
    CutTexts,       \* those with a zero character, where the statement ends too early
    Alike,          \* the <<text, other text>> pairs for which LIKE finds the other, too
    Timestamps,     \* of requests
    ColorValues,    \* of requests
    MemoIds, TagIds,
    MaxInteger,     \* 2^63 - 1, to scale
    MaxUnsigned,    \* 2^64 - 1, to scale
    HalfUnit        \* 5000, to scale: half a unit of the 15th digit of such a number

Low24Bits(n) == n % 16777216
Fits(n) == n =< MaxInteger

ASSUME RecordsAssumption ==
    /\ Titles \cup Descriptions \cup Names \cup CutTexts \subseteq STRING
    /\ MaxInteger \in Nat /\ MaxUnsigned \in Nat /\ MaxInteger < MaxUnsigned
    /\ HalfUnit \in Nat
    /\ Timestamps \subseteq 0..MaxUnsigned
    /\ \A color \in ColorValues : color \in Int /\ Fits(Low24Bits(color))
    /\ \A ids \in {MemoIds, TagIds} : ids \subseteq Nat /\ ids = 1..Cardinality(ids)

VARIABLES
    memos,      \* the rows of table Memo
    tags,       \* the rows of table Tag
    tagged,     \* table Tagged: the tags of each memo
    rq,         \* the request handled last
    reply,      \* its response
    given       \* ghost: what clients have last given for each row

tables == <<memos, tags, tagged>>
vars == <<tables, rq, reply, given>>

NoRow == [none |-> TRUE]
NoText == ""
Rows(table) == {id \in DOMAIN table : table[id] # NoRow}

-----------------------------------------------------------------------------
(* src/model *)

\* model::Color(), model::Memo() and model::Tag().
NewColor == [red |-> 0, green |-> 0, blue |-> 0]
NewMemo == [id |-> MaxUnsigned, title |-> "", description |-> "", tagIds |-> {}, timestamp |-> 0]
NewTag == [id |-> MaxUnsigned, name |-> "", color |-> NewColor, timestamp |-> 0]

\* What a handler or a listing sets of a new object before it uses it.
MemoWith(id, title, description, timestamp, tagIds) ==
    [NewMemo EXCEPT !.id = id, !.title = title, !.description = description,
                    !.timestamp = timestamp, !.tagIds = tagIds]
TagWith(id, name, color, timestamp) ==
    [NewTag EXCEPT !.id = id, !.name = name, !.color = color, !.timestamp = timestamp]

\* operator==; that of memos does not look at the tags.
EqualColors(first, second) ==
    first.red = second.red /\ first.green = second.green /\ first.blue = second.blue

EqualMemos(first, second) ==
    /\ first.id = second.id
    /\ first.title = second.title
    /\ first.description = second.description
    /\ first.timestamp = second.timestamp

EqualTags(first, second) ==
    /\ first.id = second.id
    /\ first.name = second.name
    /\ EqualColors(first.color, second.color)
    /\ first.timestamp = second.timestamp

-----------------------------------------------------------------------------
(* The services: messages of the protocol and objects of the model *)

AddMemoModel(p) == MemoWith(NewMemo.id, p.title, p.description, p.timestamp, p.tag_ids)

\* Mutant: the description is not taken over.
UpdateMemoModelShort(p) == MemoWith(p.id, p.title, NewMemo.description, p.timestamp, p.tag_ids)

UpdateMemoModel(p) == MemoWith(p.id, p.title, p.description, p.timestamp, p.tag_ids)

AddTagModel(p) == TagWith(NewTag.id, p.name, IntToColor(p.color), p.timestamp)
UpdateTagModel(p) == TagWith(p.id, p.name, IntToColor(p.color), p.timestamp)

\* Mutant: a listed memo comes without its tags, as a removed one does.
ListedMemoWithoutTags(memo) ==
    [id |-> memo.id, title |-> memo.title, description |-> memo.description,
     timestamp |-> memo.timestamp, tag_ids |-> {}]

ListedMemo(memo) ==
    [id |-> memo.id, title |-> memo.title, description |-> memo.description,
     timestamp |-> memo.timestamp, tag_ids |-> memo.tagIds]

\* RemoveMemo reports no tags.
RemovedMemo(memo) == [ListedMemo(memo) EXCEPT !.tag_ids = {}]

ListedTag(tag) ==
    [id |-> tag.id, name |-> tag.name, color |-> ColorToInt(tag.color), timestamp |-> tag.timestamp]

\* The tags in a ListMemos response, and those RemoveTag reports.
TagOfMemos(tag) == ListedTag(tag)
RemovedTag(tag) == ListedTag(tag)

-----------------------------------------------------------------------------
(* The columns: what is written, and the text it is read back from *)

MemoColumns == [title |-> "TEXT", description |-> "TEXT", timestamp |-> "INTEGER"]
TagColumns == [name |-> "TEXT", color |-> "INTEGER", timestamp |-> "INTEGER"]

\* SQLite stores a number without a fraction as an integer of 64 bits; one that does not
\* fit is a REAL, also in an INTEGER column.  A text stays a text in a TEXT column.
Stored(value, type) ==
    [value |-> value,
     class |-> IF type = "INTEGER" /\ ~Fits(value) THEN "REAL" ELSE type]

\* std::stoul and std::stoi read the text of a column up to its first character that is no
\* digit.  The text of an integer is its digits; a REAL of this size is 9.22...e+18, with
\* 15 digits of which the first is read.
FirstDigit(n) == n \div Max({m \in {10 ^ k : k \in 0..9} : m =< n})
LeadingDigit(n) == FirstDigit(n + HalfUnit)
ReadNumber(stored) == IF stored.class = "REAL" THEN LeadingDigit(stored.value) ELSE stored.value
ReadText(stored) == stored.value

InsertMemo(memo) ==
    [title       |-> Stored(memo.title, MemoColumns.title),
     description |-> Stored(memo.description, MemoColumns.description),
     timestamp   |-> Stored(memo.timestamp, MemoColumns.timestamp)]

InsertTag(tag) ==
    [name      |-> Stored(tag.name, TagColumns.name),
     color     |-> Stored(ColorToInt(tag.color), TagColumns.color),
     timestamp |-> Stored(tag.timestamp, TagColumns.timestamp)]

\* UPDATE sets every column but the id.
UpdateMemoTable(row, memo) == InsertMemo(memo)
UpdateTagTable(row, tag) == InsertTag(tag)

ReadMemo(id) ==
    MemoWith(id, ReadText(memos[id].title), ReadText(memos[id].description),
             ReadNumber(memos[id].timestamp), tagged[id])

ReadTag(id) ==
    TagWith(id, ReadText(tags[id].name), IntToColor(ReadNumber(tags[id].color)),
            ReadNumber(tags[id].timestamp))

\* A statement with a zero character in a text is incomplete; UNIQUE refuses a text that
\* another row has.
Accepted(texts) == texts \cap CutTexts = {}
TitleIsFree(title, id) == \A m \in Rows(memos) \ {id} : ReadText(memos[m].title) # title
NameIsFree(name, id) == \A t \in Rows(tags) \ {id} : ReadText(tags[t].name) # name

\* INTEGER PRIMARY KEY: one more than the greatest id there is.
NextId(table) == Max({0} \cup Rows(table)) + 1

-----------------------------------------------------------------------------
(* The handlers.  A client makes an item up or takes it from the last response. *)

ProtoMemos == [id : MemoIds \cup {0}, title : Titles, description : Descriptions,
               timestamp : Timestamps, tag_ids : SUBSET TagIds]
ProtoTags == [id : TagIds \cup {0}, name : Names, color : ColorValues, timestamp : Timestamps]

NoReply == [ok |-> FALSE, memos |-> {}, tags |-> {}]

Init ==
    /\ memos = [m \in MemoIds |-> NoRow]
    /\ tags = [t \in TagIds |-> NoRow]
    /\ tagged = [m \in MemoIds |-> {}]
    /\ rq = [method |-> "none", again |-> {}]
    /\ reply = NoReply
    /\ given = [memos |-> memos, tags |-> tags]

\* A request, and the id of the item if it is one of the last response.
Request(method, items) ==
    rq' = [method |-> method, again |-> {i.id : i \in items \cap (reply.memos \cup reply.tags)}]
Success(itsMemos, itsTags) == reply' = [ok |-> TRUE, memos |-> itsMemos, tags |-> itsTags]

\* The database refuses, whatever the reason, and nothing has changed.
Fails == Request("refused", {}) /\ reply' = NoReply /\ UNCHANGED <<tables, given>>

\* exactTitleMatch and exactNameMatch: LIKE; an empty text is no condition.
IsMatch(text, stored) ==
    text = NoText \/ stored = Stored(text, "TEXT") \/ <<text, stored.value>> \in Alike
MemosFound(title) == {m \in Rows(memos) : IsMatch(title, memos[m].title)}
TagsFound(name) == {t \in Rows(tags) : IsMatch(name, tags[t].name)}

\* The response repeats the memo of the request, with the id of the first one that a
\* lookup by its title finds.
AddMemo(p) ==
    LET memo == AddMemoModel(p)
        id == NextId(memos)
    IN  /\ Accepted({memo.title, memo.description}) /\ TitleIsFree(memo.title, id)
        /\ id \in MemoIds /\ memo.tagIds \subseteq Rows(tags)
        /\ memos' = [memos EXCEPT ![id] = InsertMemo(memo)]
        /\ tagged' = [tagged EXCEPT ![id] = memo.tagIds]
        /\ Request("AddMemo", {})
        /\ Success({[p EXCEPT !.id = Min(MemosFound(p.title) \cup {id})]}, {})
        /\ given' = [given EXCEPT !.memos[id] = [p EXCEPT !.id = id]]
        /\ UNCHANGED tags

\* An id that names no row is no failure, unless there are tags to add to it.
UpdateMemo(p) ==
    LET memo == UpdateMemoModel(p)
        exists == memo.id \in Rows(memos)
    IN  /\ Accepted({memo.title, memo.description})
        /\ Request("UpdateMemo", {p}) /\ Success({}, {})
        /\ UNCHANGED tags
        /\ IF exists
           THEN /\ TitleIsFree(memo.title, memo.id) /\ memo.tagIds \subseteq Rows(tags)
                /\ memos' = [memos EXCEPT ![memo.id] = UpdateMemoTable(@, memo)]
                /\ tagged' = [tagged EXCEPT ![memo.id] = memo.tagIds]
                /\ given' = [given EXCEPT !.memos[memo.id] = p]
           ELSE memo.tagIds = {} /\ UNCHANGED <<memos, tagged, given>>

\* The response has the tags of the memos it lists, or all tags if none has any.
ListMemos ==
    LET listed == {ListedMemo(ReadMemo(m)) : m \in Rows(memos)}
        allTagIds == UNION {tagged[m] : m \in Rows(memos)}
        selected == IF allTagIds = {} THEN Rows(tags) ELSE allTagIds
    IN  /\ Request("ListMemos", {}) /\ Success(listed, {TagOfMemos(ReadTag(t)) : t \in selected})
        /\ UNCHANGED <<tables, given>>

Selected(table, ids) == IF ids = {} THEN Rows(table) ELSE Rows(table) \cap ids

RemoveMemo(ids) ==
    LET removed == Selected(memos, ids)
    IN  /\ Request("RemoveMemo", {}) /\ Success({RemovedMemo(ReadMemo(m)) : m \in removed}, {})
        /\ memos' = [m \in MemoIds |-> IF m \in removed THEN NoRow ELSE memos[m]]
        /\ tagged' = [m \in MemoIds |-> IF m \in removed THEN {} ELSE tagged[m]]
        /\ UNCHANGED <<tags, given>>

AddTag(p) ==
    LET tag == AddTagModel(p)
        id == NextId(tags)
    IN  /\ Accepted({tag.name}) /\ NameIsFree(tag.name, id) /\ id \in TagIds
        /\ tags' = [tags EXCEPT ![id] = InsertTag(tag)]
        /\ Request("AddTag", {})
        /\ Success({}, {[p EXCEPT !.id = Min(TagsFound(p.name) \cup {id})]})
        /\ given' = [given EXCEPT !.tags[id] = [p EXCEPT !.id = id]]
        /\ UNCHANGED <<memos, tagged>>

UpdateTag(p) ==
    LET tag == UpdateTagModel(p)
    IN  /\ Accepted({tag.name})
        /\ Request("UpdateTag", {p}) /\ Success({}, {})
        /\ UNCHANGED <<memos, tagged>>
        /\ IF tag.id \in Rows(tags)
           THEN /\ NameIsFree(tag.name, tag.id)
                /\ tags' = [tags EXCEPT ![tag.id] = UpdateTagTable(@, tag)]
                /\ given' = [given EXCEPT !.tags[tag.id] = p]
           ELSE UNCHANGED <<tags, given>>

ListTags ==
    /\ Request("ListTags", {}) /\ Success({}, {ListedTag(ReadTag(t)) : t \in Rows(tags)})
    /\ UNCHANGED <<tables, given>>

\* What counts as given for a memo when tags are removed: no longer these.
Untagged(memo, removed) ==
    IF memo = NoRow THEN NoRow ELSE [memo EXCEPT !.tag_ids = @ \ removed]

RemoveTag(ids) ==
    LET removed == Selected(tags, ids)
    IN  /\ Request("RemoveTag", {}) /\ Success({}, {RemovedTag(ReadTag(t)) : t \in removed})
        /\ tags' = [t \in TagIds |-> IF t \in removed THEN NoRow ELSE tags[t]]
        /\ tagged' = [m \in MemoIds |-> tagged[m] \ removed]
        /\ given' = [given EXCEPT !.memos = [m \in MemoIds |-> Untagged(given.memos[m], removed)]]
        /\ UNCHANGED memos

MemoItems == ProtoMemos \cup reply.memos
TagItems == ProtoTags \cup reply.tags

Next ==
    \/ \E p \in MemoItems : AddMemo(p) \/ UpdateMemo(p)
    \/ \E p \in TagItems : AddTag(p) \/ UpdateTag(p)
    \/ Fails
    \/ ListMemos
    \/ ListTags
    \/ \E ids \in SUBSET MemoIds : RemoveMemo(ids)
    \/ \E ids \in SUBSET TagIds : RemoveTag(ids)

Spec == Init /\ [][Next]_vars

-----------------------------------------------------------------------------
(* Properties *)

\* The rows an item of a response may tell of: the one with its id.  The reply to an
\* addition tells of the new row, and has the id of any row found by the text.
RowsOf(item, found) == IF rq.method \in {"AddMemo", "AddTag"} THEN found ELSE {item.id}

\* The item of a response tells what a client has given for its id last: all of it if the
\* timestamp is below 2^63, and the color's low 24 bits.  A later timestamp comes back as
\* its first decimal digit, except in the reply to AddMemo or AddTag, which repeats the
\* request.  (Sqlite3Database.cpp:59 and :103 read the text of a REAL.)  That reply may
\* have another row's id, of those that are found by an empty text or by one that LIKE
\* takes for theirs (MemoService.cpp:94, TagService.cpp:77).
ReportedAsGiven ==
    LET Time(t) ==
            IF rq.method \in {"AddMemo", "AddTag"} \/ Fits(t) THEN t ELSE LeadingDigit(t)
        GivenMemo(id) == [given.memos[id] EXCEPT !.timestamp = Time(@)]
        Bits(color) == IF rq.method = "AddTag" THEN color ELSE Low24Bits(color)
        GivenTag(id) == [given.tags[id] EXCEPT !.timestamp = Time(@), !.color = Bits(@)]
    IN  /\ \A m \in reply.memos :
              /\ m.id \in RowsOf(m, MemosFound(m.title))
              /\ \E id \in RowsOf(m, MemosFound(m.title)) :
                    /\ EqualMemos([m EXCEPT !.id = id], GivenMemo(id))
                    /\ rq.method # "RemoveMemo" => m.tag_ids = GivenMemo(id).tag_ids
        /\ \A t \in reply.tags :
              /\ t.id \in RowsOf(t, TagsFound(t.name))
              /\ \E id \in RowsOf(t, TagsFound(t.name)) : [t EXCEPT !.id = id] = GivenTag(id)

\* A client that sends back what it has just been told, unedited, changes nothing: what is
\* listed is what an update needs, with the tags, and what is stored is what is listed.
\* Only a timestamp of 2^63 or later is replaced by the digit that was listed.
RewritingChangesNothing ==
    [][ /\ rq.method \in {"ListMemos", "ListTags"}
        /\ rq'.again # {}
        /\ \A id \in rq'.again :
              /\ rq'.method = "UpdateMemo" => memos[id].timestamp.class = "INTEGER"
              /\ rq'.method = "UpdateTag" => tags[id].timestamp.class = "INTEGER"
        => UNCHANGED tables ]_vars

=============================================================================
