--------------------------- MODULE Records_proofs ---------------------------
(***************************************************************************)
(* What TLAPS proves of the color conversions (Tools) and of module        *)
(* Records, for any texts, timestamps, colors and numbers of rows.         *)
(***************************************************************************)
EXTENDS Records, WellFoundedInduction, TLAPS

-----------------------------------------------------------------------------
(* What the color conversions keep of a number *)

\* The lowest byte of an int and the rest of it.
LEMMA LowByte == \A n, a \in Int, b \in 0..255 : n = a * 256 + b => n % 256 = b
BY SMTT(20)

LEMMA HighBytes == \A n, a \in Int, b \in 0..255 : n = a * 256 + b => n \div 256 = a
BY SMTT(20)

\* The lowest three bytes.
LEMMA LowBytes ==
    \A n, a, b \in Int : 0 <= b /\ b <= 16777215 /\ n = a * 16777216 + b => n % 16777216 = b
BY SMTT(20)

\* A color goes into the database and comes back as it was: the components do not
\* overlap in the int.
THEOREM ColorSurvives == \A color \in Color : IntToColor(ColorToInt(color)) = color
<1> SUFFICES ASSUME NEW color \in Color PROVE IntToColor(ColorToInt(color)) = color
  OBVIOUS
<1> DEFINE r == color.red
           g == color.green
           b == color.blue
           n == ColorToInt(color)
<1>1. r \in 0..255 /\ g \in 0..255 /\ b \in 0..255
  BY DEF Color, Byte
<1>2. n = r * 65536 + g * 256 + b
  BY <1>1, SMTT(20) DEF ColorToInt
<1>3. color = [red |-> r, green |-> g, blue |-> b]
  BY DEF Color
<1>4. IntToColor(n) = [red |-> ((n \div 256) \div 256) % 256,
                       green |-> (n \div 256) % 256, blue |-> n % 256]
  BY DEF IntToColor
<1> DEFINE q == n \div 256
<1> HIDE DEF r, g, b, n
<1>5. n = (r * 256 + g) * 256 + b /\ n \in Int /\ r * 256 + g \in Int /\ r \in Int
  BY <1>1, <1>2, SMTT(20)
<1>6. n % 256 = b /\ q = r * 256 + g
  BY <1>1, <1>5, LowByte, HighBytes, ZenonT(40)
<1> HIDE DEF q
<1>7. q = r * 256 + g /\ q \in Int
  BY <1>5, <1>6
<1>8. q % 256 = g
  BY <1>1, <1>5, <1>7, LowByte
<1>9. q \div 256 = r
  BY <1>1, <1>5, <1>7, HighBytes
<1>10. r % 256 = r
  BY <1>1, SMTT(20)
<1>11. IntToColor(n) = color
  BY <1>3, <1>4, <1>6, <1>8, <1>9, <1>10 DEF q
<1> QED
  BY <1>11 DEF n

\* What a client sends as a color comes back as its lowest 24 bits, whatever the int:
\* AddTag stores ColorToInt(IntToColor(n)), ListTags returns the same of the column.
THEOREM ColorIsLow24Bits == \A n \in Int : ColorToInt(IntToColor(n)) = n % 16777216
<1> SUFFICES ASSUME NEW n \in Int PROVE ColorToInt(IntToColor(n)) = n % 16777216
  OBVIOUS
<1> DEFINE b == n % 256
           q == n \div 256
           g == q % 256
           h == q \div 256
           r == h % 256
           k == h \div 256
           m == r * 65536 + g * 256 + b
<1>1. n = q * 256 + b /\ b \in 0..255 /\ q \in Int
  BY SMTT(20)
<1>2. q = h * 256 + g /\ g \in 0..255 /\ h \in Int
  BY SMTT(20)
<1>3. h = k * 256 + r /\ r \in 0..255 /\ k \in Int
  BY SMTT(20)
<1>4. ColorToInt(IntToColor(n)) = m
  BY SMTT(20) DEF ColorToInt, IntToColor
<1> HIDE DEF b, q, g, h, r, k
<1>5. n = k * 16777216 + m
  BY <1>1, <1>2, <1>3, SMTT(20)
<1>6. m \in Int /\ 0 <= m /\ m <= 16777215
  BY <1>1, <1>2, <1>3, SMTT(20)
<1> HIDE DEF m
<1>7. n % 16777216 = m
  BY <1>3, <1>5, <1>6, LowBytes, SMTT(20)
<1> QED
  BY <1>4, <1>7, SMTT(20)

-----------------------------------------------------------------------------
(* The inductive invariant *)

IsMemo(p) == p = [id |-> p.id, title |-> p.title, description |-> p.description,
                  timestamp |-> p.timestamp, tag_ids |-> p.tag_ids]

IsTag(p) ==
    /\ p = [id |-> p.id, name |-> p.name, color |-> p.color, timestamp |-> p.timestamp]
    /\ p.color \in Int /\ Fits(Low24Bits(p.color))

\* The columns of what a client has given.
MemoRow(p) == [title       |-> Stored(p.title, "TEXT"),
               description |-> Stored(p.description, "TEXT"),
               timestamp   |-> Stored(p.timestamp, "INTEGER")]

TagRow(p) == [name      |-> Stored(p.name, "TEXT"),
              color     |-> Stored(Low24Bits(p.color), "INTEGER"),
              timestamp |-> Stored(p.timestamp, "INTEGER")]

FunctionsOK ==
    /\ memos = [m \in MemoIds |-> memos[m]]
    /\ tags = [t \in TagIds |-> tags[t]]
    /\ tagged = [m \in MemoIds |-> tagged[m]]
    /\ given = [memos |-> given.memos, tags |-> given.tags]
    /\ given.memos = [m \in MemoIds |-> given.memos[m]]
    /\ given.tags = [t \in TagIds |-> given.tags[t]]

\* A row is made of what a client has given for it last.
MemosInv ==
    \A m \in Rows(memos) :
        /\ IsMemo(given.memos[m]) /\ given.memos[m].id = m
        /\ memos[m] = MemoRow(given.memos[m])
        /\ tagged[m] = given.memos[m].tag_ids

TagsInv ==
    \A t \in Rows(tags) :
        /\ IsTag(given.tags[t]) /\ given.tags[t].id = t
        /\ tags[t] = TagRow(given.tags[t])

\* What memos are tagged with exists.
TaggedInv == \A m \in MemoIds : tagged[m] \subseteq Rows(tags)

ReplyInv ==
    /\ \A m \in reply.memos : IsMemo(m)
    /\ \A t \in reply.tags : IsTag(t)

\* What has just been listed is there.
ListedInv ==
    rq.method \in {"ListMemos", "ListTags"} =>
        /\ \A m \in reply.memos : m.id \in Rows(memos) /\ m = ListedMemo(ReadMemo(m.id))
        /\ \A t \in reply.tags : t.id \in Rows(tags) /\ t = ListedTag(ReadTag(t.id))

StoredInv == FunctionsOK /\ MemosInv /\ TagsInv /\ TaggedInv

\* What a response tells of an item.
Time(method, t) == IF method \in {"AddMemo", "AddTag"} \/ Fits(t) THEN t ELSE LeadingDigit(t)

MemoTold(method, m, g) ==
    LET told == [g EXCEPT !.timestamp = Time(method, @)]
    IN  EqualMemos(m, told) /\ (method # "RemoveMemo" => m.tag_ids = told.tag_ids)

TagTold(method, t, g) ==
    t = [g EXCEPT !.timestamp = Time(method, @),
                  !.color = IF method = "AddTag" THEN @ ELSE Low24Bits(@)]

\* The reply to an addition tells of the new row, and has the id of any row found.
IsAddition(method) == method \in {"AddMemo", "AddTag"}

ToldInv ==
    /\ \A m \in reply.memos :
          IF IsAddition(rq.method)
          THEN /\ m.id \in MemosFound(m.title)
               /\ \E id \in MemosFound(m.title) :
                     MemoTold(rq.method, [m EXCEPT !.id = id], given.memos[id])
          ELSE MemoTold(rq.method, m, given.memos[m.id])
    /\ \A t \in reply.tags :
          IF IsAddition(rq.method)
          THEN /\ t.id \in TagsFound(t.name)
               /\ \E id \in TagsFound(t.name) :
                     TagTold(rq.method, [t EXCEPT !.id = id], given.tags[id])
          ELSE TagTold(rq.method, t, given.tags[t.id])

IInv == StoredInv /\ ReplyInv /\ ListedInv /\ ToldInv

-----------------------------------------------------------------------------
(* The conversions *)

\* What a handler or a listing makes of an object of the model.
LEMMA MemoWithIs ==
    \A id, title, description, timestamp, tagIds :
        MemoWith(id, title, description, timestamp, tagIds) =
            [id |-> id, title |-> title, description |-> description, tagIds |-> tagIds,
             timestamp |-> timestamp]
<1>1. PICK a : NewMemo = [id |-> MaxUnsigned, title |-> a, description |-> a, tagIds |-> {},
                          timestamp |-> 0]
  BY Zenon DEF NewMemo
<1> SUFFICES ASSUME NEW id, NEW title, NEW description, NEW timestamp, NEW tagIds
             PROVE  MemoWith(id, title, description, timestamp, tagIds) =
                        [id |-> id, title |-> title, description |-> description,
                         tagIds |-> tagIds, timestamp |-> timestamp]
  BY Zenon
<1>2. MemoWith(id, title, description, timestamp, tagIds) =
          [[id |-> MaxUnsigned, title |-> a, description |-> a, tagIds |-> {}, timestamp |-> 0]
           EXCEPT !.id = id, !.title = title, !.description = description,
                  !.timestamp = timestamp, !.tagIds = tagIds]
  BY <1>1, Zenon DEF MemoWith
<1> QED
  BY <1>2

LEMMA TagWithIs ==
    \A id, name, color, timestamp :
        TagWith(id, name, color, timestamp) =
            [id |-> id, name |-> name, color |-> color, timestamp |-> timestamp]
<1>1. PICK a, b : NewTag = [id |-> MaxUnsigned, name |-> a, color |-> b, timestamp |-> 0]
  BY Zenon DEF NewTag
<1> SUFFICES ASSUME NEW id, NEW name, NEW color, NEW timestamp
             PROVE  TagWith(id, name, color, timestamp) =
                        [id |-> id, name |-> name, color |-> color, timestamp |-> timestamp]
  BY Zenon
<1>2. TagWith(id, name, color, timestamp) =
          [[id |-> MaxUnsigned, name |-> a, color |-> b, timestamp |-> 0]
           EXCEPT !.id = id, !.name = name, !.color = color, !.timestamp = timestamp]
  BY <1>1, Zenon DEF TagWith
<1> QED
  BY <1>2

\* A row is no missing row.
LEMMA RowsAreRows == \A p : MemoRow(p) # NoRow /\ TagRow(p) # NoRow
<1> SUFFICES ASSUME NEW p PROVE MemoRow(p) # NoRow /\ TagRow(p) # NoRow
  OBVIOUS
<1>1. DOMAIN MemoRow(p) # DOMAIN NoRow
  BY DEF MemoRow, NoRow
<1>2. DOMAIN TagRow(p) # DOMAIN NoRow
  BY DEF TagRow, NoRow
<1> QED
  BY <1>1, <1>2

\* What of an item is stored: its texts, its timestamp, and its color's low bits.
LEMMA MemoIsStored ==
    \A p : /\ InsertMemo(AddMemoModel(p)) = MemoRow(p)
           /\ UpdateMemoTable(p, UpdateMemoModel(p)) = MemoRow(p)
           /\ AddMemoModel(p).tagIds = p.tag_ids
           /\ UpdateMemoModel(p).tagIds = p.tag_ids /\ UpdateMemoModel(p).id = p.id
BY MemoWithIs
   DEF InsertMemo, UpdateMemoTable, AddMemoModel, UpdateMemoModel, MemoRow, MemoColumns

LEMMA TagIsStored ==
    \A p : p.color \in Int =>
           /\ InsertTag(AddTagModel(p)) = TagRow(p)
           /\ UpdateTagTable(p, UpdateTagModel(p)) = TagRow(p)
           /\ UpdateTagModel(p).id = p.id
BY TagWithIs, ColorIsLow24Bits
   DEF InsertTag, UpdateTagTable, AddTagModel, UpdateTagModel, TagRow, TagColumns, Low24Bits

\* The low bits of the low bits are these.
LEMMA LowBitsStay == \A n \in Int : Low24Bits(n) \in Int /\ Low24Bits(Low24Bits(n)) = Low24Bits(n)
BY SMTT(20) DEF Low24Bits

\* What a column of numbers is read as.
Seen(n) == IF Fits(n) THEN n ELSE LeadingDigit(n)

LEMMA NumberIsSeen ==
    \A n : /\ ReadNumber(Stored(n, "INTEGER")) = Seen(n)
           /\ Stored(n, "INTEGER").class = "INTEGER" => Fits(n) /\ Seen(n) = n
<1> SUFFICES ASSUME NEW n
             PROVE  /\ ReadNumber(Stored(n, "INTEGER")) = Seen(n)
                    /\ Stored(n, "INTEGER").class = "INTEGER" => Fits(n) /\ Seen(n) = n
  OBVIOUS
<1>1. Stored(n, "INTEGER") = [value |-> n, class |-> IF Fits(n) THEN "INTEGER" ELSE "REAL"]
  BY DEF Stored
<1> QED
  BY <1>1 DEF ReadNumber, Seen

\* What is listed of a memo: what was given for it, but for a timestamp that does not fit.
LEMMA ListedMemoIs ==
    ASSUME MemosInv, NEW m \in Rows(memos)
    PROVE  ListedMemo(ReadMemo(m)) = [given.memos[m] EXCEPT !.timestamp = Seen(@)]
<1> DEFINE g == given.memos[m]
<1>1. /\ g = [id |-> g.id, title |-> g.title, description |-> g.description,
              timestamp |-> g.timestamp, tag_ids |-> g.tag_ids]
      /\ g.id = m /\ memos[m] = MemoRow(g) /\ tagged[m] = g.tag_ids
  BY DEF MemosInv, IsMemo
<1> HIDE DEF g
<1>2. /\ ReadText(memos[m].title) = g.title
      /\ ReadText(memos[m].description) = g.description
      /\ ReadNumber(memos[m].timestamp) = Seen(g.timestamp)
  BY <1>1, NumberIsSeen DEF MemoRow, ReadText, Stored
<1>3. ReadMemo(m) = [id |-> m, title |-> g.title, description |-> g.description,
                     tagIds |-> g.tag_ids, timestamp |-> Seen(g.timestamp)]
  BY <1>1, <1>2, MemoWithIs DEF ReadMemo
<1>4. ListedMemo(ReadMemo(m)) =
          [id |-> m, title |-> g.title, description |-> g.description,
           timestamp |-> Seen(g.timestamp), tag_ids |-> g.tag_ids]
  BY <1>3 DEF ListedMemo
<1>5. [g EXCEPT !.timestamp = Seen(@)] =
          [id |-> m, title |-> g.title, description |-> g.description,
           timestamp |-> Seen(g.timestamp), tag_ids |-> g.tag_ids]
  BY <1>1
<1> QED
  BY <1>4, <1>5 DEF g

\* A tag with another timestamp and another color.
LEMMA TagChanged ==
    ASSUME NEW g, NEW x, NEW y,
           g = [id |-> g.id, name |-> g.name, color |-> g.color, timestamp |-> g.timestamp]
    PROVE  [g EXCEPT !.timestamp = x, !.color = y] =
               [id |-> g.id, name |-> g.name, color |-> y, timestamp |-> x]
<1>1. PICK h : h = [g EXCEPT !.timestamp = x, !.color = y]
  OBVIOUS
<1>2. h = [id |-> h.id, name |-> h.name, color |-> h.color, timestamp |-> h.timestamp]
  BY <1>1
<1>3. h.id = g.id /\ h.name = g.name /\ h.color = y /\ h.timestamp = x
  BY <1>1
<1>4. h = [id |-> g.id, name |-> g.name, color |-> y, timestamp |-> x]
  BY <1>2, <1>3
<1> QED
  BY <1>1, <1>4

LEMMA ListedTagIs ==
    ASSUME TagsInv, NEW t \in Rows(tags)
    PROVE  ListedTag(ReadTag(t)) =
               [given.tags[t] EXCEPT !.timestamp = Seen(@), !.color = Low24Bits(@)]
<1> DEFINE g == given.tags[t]
<1>1. /\ g = [id |-> g.id, name |-> g.name, color |-> g.color, timestamp |-> g.timestamp]
      /\ g.id = t /\ tags[t] = TagRow(g) /\ g.color \in Int /\ Fits(Low24Bits(g.color))
  BY DEF TagsInv, IsTag
<1> HIDE DEF g
<1>2. /\ ReadText(tags[t].name) = g.name
      /\ ReadNumber(tags[t].color) = Low24Bits(g.color)
      /\ ReadNumber(tags[t].timestamp) = Seen(g.timestamp)
  <2>1. /\ tags[t].name = Stored(g.name, "TEXT")
        /\ tags[t].color = Stored(Low24Bits(g.color), "INTEGER")
        /\ tags[t].timestamp = Stored(g.timestamp, "INTEGER")
    BY <1>1 DEF TagRow
  <2>2. Seen(Low24Bits(g.color)) = Low24Bits(g.color)
    BY <1>1 DEF Seen
  <2>3. ReadText(tags[t].name) = g.name
    BY <2>1 DEF ReadText, Stored
  <2> QED
    BY <2>1, <2>2, <2>3, NumberIsSeen
<1>3. ColorToInt(IntToColor(Low24Bits(g.color))) = Low24Bits(g.color)
  <2>1. Low24Bits(g.color) \in Int /\ Low24Bits(Low24Bits(g.color)) = Low24Bits(g.color)
    BY <1>1, LowBitsStay
  <2>2. ColorToInt(IntToColor(Low24Bits(g.color))) = Low24Bits(Low24Bits(g.color))
    BY <2>1, ColorIsLow24Bits DEF Low24Bits
  <2> QED
    BY <2>1, <2>2
<1>4. ReadTag(t) = [id |-> t, name |-> g.name, color |-> IntToColor(Low24Bits(g.color)),
                    timestamp |-> Seen(g.timestamp)]
  BY <1>2, TagWithIs DEF ReadTag
<1>5. ListedTag(ReadTag(t)) = [id |-> t, name |-> g.name, color |-> Low24Bits(g.color),
                               timestamp |-> Seen(g.timestamp)]
  BY <1>3, <1>4 DEF ListedTag
<1>6. [g EXCEPT !.timestamp = Seen(@), !.color = Low24Bits(@)] =
          [id |-> t, name |-> g.name, color |-> Low24Bits(g.color),
           timestamp |-> Seen(g.timestamp)]
  BY <1>1, TagChanged, ZenonT(30)
<1> QED
  BY <1>5, <1>6 DEF g

\* The items of a listing are items that can be sent back.
LEMMA ListedAreItems ==
    ASSUME MemosInv, TagsInv
    PROVE  /\ \A m \in Rows(memos) : /\ IsMemo(ListedMemo(ReadMemo(m)))
                                     /\ ListedMemo(ReadMemo(m)).id = m
                                     /\ IsMemo(RemovedMemo(ReadMemo(m)))
                                     /\ RemovedMemo(ReadMemo(m)).id = m
           /\ \A t \in Rows(tags) : /\ IsTag(ListedTag(ReadTag(t)))
                                    /\ ListedTag(ReadTag(t)).id = t
<1>1. ASSUME NEW m \in Rows(memos)
      PROVE  /\ IsMemo(ListedMemo(ReadMemo(m))) /\ ListedMemo(ReadMemo(m)).id = m
             /\ IsMemo(RemovedMemo(ReadMemo(m))) /\ RemovedMemo(ReadMemo(m)).id = m
  <2>1. ReadMemo(m).id = m
    BY MemoWithIs DEF ReadMemo
  <2> QED
    BY <2>1 DEF ListedMemo, RemovedMemo, IsMemo
<1>2. ASSUME NEW t \in Rows(tags)
      PROVE  IsTag(ListedTag(ReadTag(t))) /\ ListedTag(ReadTag(t)).id = t
  <2> DEFINE g == given.tags[t]
  <2>1. /\ g = [id |-> g.id, name |-> g.name, color |-> g.color, timestamp |-> g.timestamp]
        /\ g.id = t /\ g.color \in Int /\ Fits(Low24Bits(g.color))
    BY DEF TagsInv, IsTag
  <2> HIDE DEF g
  <2>2. ListedTag(ReadTag(t)) = [id |-> t, name |-> g.name, color |-> Low24Bits(g.color),
                                 timestamp |-> Seen(g.timestamp)]
    <3>1. ListedTag(ReadTag(t)) = [g EXCEPT !.timestamp = Seen(@), !.color = Low24Bits(@)]
      BY ListedTagIs DEF g
    <3> QED
      BY <2>1, <3>1
  <2>3. Low24Bits(g.color) \in Int /\ Low24Bits(Low24Bits(g.color)) = Low24Bits(g.color)
    BY <2>1, LowBitsStay
  <2> QED
    BY <2>1, <2>2, <2>3 DEF IsTag
<1> QED
  BY <1>1, <1>2

-----------------------------------------------------------------------------
(* What a response tells of an item *)

\* An item with another id.
LEMMA IdChanged ==
    /\ \A p : IsMemo(p) => \A x, y : /\ IsMemo([p EXCEPT !.id = x])
                                     /\ [p EXCEPT !.id = x].title = p.title
                                     /\ [[p EXCEPT !.id = x] EXCEPT !.id = y] = [p EXCEPT !.id = y]
    /\ \A p : IsTag(p) => \A x, y : /\ IsTag([p EXCEPT !.id = x])
                                    /\ [p EXCEPT !.id = x].name = p.name
                                    /\ [[p EXCEPT !.id = x] EXCEPT !.id = y] = [p EXCEPT !.id = y]
<1>1. ASSUME NEW p, IsMemo(p), NEW x, NEW y
      PROVE  /\ IsMemo([p EXCEPT !.id = x]) /\ [p EXCEPT !.id = x].title = p.title
             /\ [[p EXCEPT !.id = x] EXCEPT !.id = y] = [p EXCEPT !.id = y]
  <2>1. \A z : [p EXCEPT !.id = z] =
                  [id |-> z, title |-> p.title, description |-> p.description,
                   timestamp |-> p.timestamp, tag_ids |-> p.tag_ids]
    BY <1>1 DEF IsMemo
  <2> QED
    BY <2>1 DEF IsMemo
<1>2. ASSUME NEW p, IsTag(p), NEW x, NEW y
      PROVE  /\ IsTag([p EXCEPT !.id = x]) /\ [p EXCEPT !.id = x].name = p.name
             /\ [[p EXCEPT !.id = x] EXCEPT !.id = y] = [p EXCEPT !.id = y]
  <2>1. \A z : [p EXCEPT !.id = z] =
                  [id |-> z, name |-> p.name, color |-> p.color, timestamp |-> p.timestamp]
    BY <1>2 DEF IsTag
  <2> QED
    BY <1>2, <2>1 DEF IsTag
<1> QED
  BY <1>1, <1>2

LEMMA ReportedIs == ReplyInv /\ ToldInv => ReportedAsGiven
<1> SUFFICES ASSUME ReplyInv, ToldInv PROVE ReportedAsGiven
  OBVIOUS
<1>1. ASSUME NEW m \in reply.memos
      PROVE  /\ m.id \in RowsOf(m, MemosFound(m.title))
             /\ \E id \in RowsOf(m, MemosFound(m.title)) :
                   MemoTold(rq.method, [m EXCEPT !.id = id], given.memos[id])
  <2>1. [m EXCEPT !.id = m.id] = m
    BY DEF ReplyInv, IsMemo
  <2>2. CASE IsAddition(rq.method)
    <3>1. RowsOf(m, MemosFound(m.title)) = MemosFound(m.title)
      BY <2>2 DEF IsAddition, RowsOf
    <3> QED
      BY <2>2, <3>1 DEF ToldInv
  <2>3. CASE ~IsAddition(rq.method)
    <3>1. RowsOf(m, MemosFound(m.title)) = {m.id}
      BY <2>3 DEF IsAddition, RowsOf
    <3> QED
      BY <2>1, <2>3, <3>1 DEF ToldInv
  <2> QED
    BY <2>2, <2>3
<1>2. ASSUME NEW t \in reply.tags
      PROVE  /\ t.id \in RowsOf(t, TagsFound(t.name))
             /\ \E id \in RowsOf(t, TagsFound(t.name)) :
                   TagTold(rq.method, [t EXCEPT !.id = id], given.tags[id])
  <2>1. [t EXCEPT !.id = t.id] = t
    BY DEF ReplyInv, IsTag
  <2>2. CASE IsAddition(rq.method)
    <3>1. RowsOf(t, TagsFound(t.name)) = TagsFound(t.name)
      BY <2>2 DEF IsAddition, RowsOf
    <3> QED
      BY <2>2, <3>1 DEF ToldInv
  <2>3. CASE ~IsAddition(rq.method)
    <3>1. RowsOf(t, TagsFound(t.name)) = {t.id}
      BY <2>3 DEF IsAddition, RowsOf
    <3> QED
      BY <2>1, <2>3, <3>1 DEF ToldInv
  <2> QED
    BY <2>2, <2>3
<1>3. ASSUME NEW m \in reply.memos
      PROVE  \E id \in RowsOf(m, MemosFound(m.title)) :
                LET told == [given.memos[id] EXCEPT !.timestamp =
                                IF rq.method \in {"AddMemo", "AddTag"} \/ Fits(@)
                                THEN @ ELSE LeadingDigit(@)]
                IN  /\ EqualMemos([m EXCEPT !.id = id], told)
                    /\ rq.method # "RemoveMemo" => m.tag_ids = told.tag_ids
  <2>1. PICK id \in RowsOf(m, MemosFound(m.title)) :
           MemoTold(rq.method, [m EXCEPT !.id = id], given.memos[id])
    BY <1>1
  <2>2. [m EXCEPT !.id = id].tag_ids = m.tag_ids
    BY DEF ReplyInv, IsMemo
  <2> QED
    BY <2>1, <2>2 DEF MemoTold, Time
<1>4. ASSUME NEW t \in reply.tags
      PROVE  \E id \in RowsOf(t, TagsFound(t.name)) :
                [t EXCEPT !.id = id] =
                    [given.tags[id] EXCEPT
                        !.timestamp = IF rq.method \in {"AddMemo", "AddTag"} \/ Fits(@)
                                      THEN @ ELSE LeadingDigit(@),
                        !.color = IF rq.method = "AddTag" THEN @ ELSE Low24Bits(@)]
  BY <1>2 DEF TagTold, Time
<1> QED
  BY <1>1, <1>2, <1>3, <1>4 DEF ReportedAsGiven

\* An item that was added is told as it was given.
LEMMA AddedIsTold ==
    /\ \A g : IsMemo(g) => MemoTold("AddMemo", g, g)
    /\ \A g : IsTag(g) => TagTold("AddTag", g, g)
<1>1. ASSUME NEW g, IsMemo(g) PROVE MemoTold("AddMemo", g, g)
  <2>1. [g EXCEPT !.timestamp = Time("AddMemo", @)] = g
    BY <1>1 DEF IsMemo, Time
  <2> QED
    BY <2>1 DEF MemoTold, EqualMemos
<1>2. ASSUME NEW g, IsTag(g) PROVE TagTold("AddTag", g, g)
  <2>1. [g EXCEPT !.timestamp = g.timestamp, !.color = g.color] = g
    BY <1>2, TagChanged DEF IsTag
  <2>2. Time("AddTag", g.timestamp) = g.timestamp
    BY DEF Time
  <2> QED
    BY <2>1, <2>2 DEF TagTold
<1> QED
  BY <1>1, <1>2

\* An item that is listed, or has been removed, is told as it was stored.
LEMMA ListedIsTold ==
    ASSUME NEW method, method \notin {"AddMemo", "AddTag"}
    PROVE  /\ \A g : IsMemo(g) => MemoTold(method, [g EXCEPT !.timestamp = Seen(@)], g)
           /\ \A g : IsTag(g) =>
                 TagTold(method, [g EXCEPT !.timestamp = Seen(@), !.color = Low24Bits(@)], g)
<1>0. \A t : Time(method, t) = Seen(t)
  BY DEF Time, Seen
<1>1. ASSUME NEW g, IsMemo(g) PROVE MemoTold(method, [g EXCEPT !.timestamp = Seen(@)], g)
  <2> DEFINE told == [g EXCEPT !.timestamp = Seen(@)]
  <2>1. [g EXCEPT !.timestamp = Time(method, @)] = told
    BY <1>0
  <2>2. EqualMemos(told, told)
    BY DEF EqualMemos
  <2> HIDE DEF told
  <2>3. MemoTold(method, told, g)
    BY <2>1, <2>2 DEF MemoTold
  <2> QED
    BY <2>3 DEF told
<1>2. ASSUME NEW g, IsTag(g)
      PROVE  TagTold(method, [g EXCEPT !.timestamp = Seen(@), !.color = Low24Bits(@)], g)
  <2>1. Time(method, g.timestamp) = Seen(g.timestamp)
    BY <1>0
  <2>2. (IF method = "AddTag" THEN g.color ELSE Low24Bits(g.color)) = Low24Bits(g.color)
    OBVIOUS
  <2> QED
    BY <2>1, <2>2, Zenon DEF TagTold
<1> QED
  BY <1>1, <1>2

LEMMA RemovedIsTold ==
    ASSUME MemosInv, NEW m \in Rows(memos)
    PROVE  MemoTold("RemoveMemo", RemovedMemo(ReadMemo(m)), given.memos[m])
<1> DEFINE told == ListedMemo(ReadMemo(m))
           g == given.memos[m]
<1>1. told = [g EXCEPT !.timestamp = Seen(@)]
  BY ListedMemoIs
<1>2. MemoTold("RemoveMemo", told, g)
  <2>1. IsMemo(g)
    BY DEF MemosInv
  <2>2. "RemoveMemo" \notin {"AddMemo", "AddTag"}
    OBVIOUS
  <2> HIDE DEF told, g
  <2> QED
    BY <1>1, <2>1, <2>2, ListedIsTold
<1>3. EqualMemos(RemovedMemo(ReadMemo(m)), told)
  BY DEF RemovedMemo, ListedMemo, EqualMemos
<1> HIDE DEF told, g
<1>4. \A h : EqualMemos(told, h) => EqualMemos(RemovedMemo(ReadMemo(m)), h)
  BY <1>3 DEF EqualMemos
<1> QED
  BY <1>2, <1>4 DEF MemoTold, g

-----------------------------------------------------------------------------
(* Every step keeps the invariant *)

LEMMA Starts == Init => IInv
<1> SUFFICES ASSUME Init PROVE IInv
  OBVIOUS
<1>1. Rows(memos) = {} /\ Rows(tags) = {}
  BY DEF Init, Rows
<1>2. StoredInv
  BY <1>1 DEF Init, StoredInv, FunctionsOK, MemosInv, TagsInv, TaggedInv
<1>3. reply.memos = {} /\ reply.tags = {}
  BY DEF Init, NoReply
<1>4. ReplyInv /\ ListedInv
  BY <1>3 DEF ReplyInv, ListedInv
<1>5. ToldInv
  BY <1>3 DEF ToldInv
<1> QED
  BY <1>2, <1>4, <1>5 DEF IInv

\* What a client can send: items it makes up and those of the last response.
LEMMA ItemsAreItems ==
    ASSUME ReplyInv
    PROVE  (\A p \in MemoItems : IsMemo(p)) /\ (\A p \in TagItems : IsTag(p))
<1>1. \A p \in ProtoMemos : IsMemo(p)
  BY DEF ProtoMemos, IsMemo
<1>2. \A p \in ProtoTags : IsTag(p)
  BY RecordsAssumption DEF ProtoTags, IsTag
<1> QED
  BY <1>1, <1>2 DEF ReplyInv, MemoItems, TagItems

\* There is a least id among any.
LEMMA MinIsMember ==
    ASSUME NEW ids, ids \subseteq Nat, ids # {}
    PROVE  Min(ids) \in ids
<1>1. PICK i \in ids : \A j \in ids : ~(<<j, i>> \in OpToRel(<, Nat))
  BY NatLessThanWellFounded, WFMin
<1>2. \A j \in ids : i =< j
  <2> SUFFICES ASSUME NEW j \in ids PROVE i =< j
    OBVIOUS
  <2>1. ~(j < i)
    BY <1>1 DEF OpToRel
  <2> QED
    BY <2>1
<1> QED
  BY <1>2 DEF Min

\* The id of the first row found, among the rows with the new one.
LEMMA FirstIsFound ==
    ASSUME NEW ids \in {MemoIds, TagIds}, NEW found, found \subseteq ids, NEW id \in ids
    PROVE  Min(found \cup {id}) \in found \cup {id}
<1>1. found \cup {id} \subseteq Nat
  BY RecordsAssumption
<1> QED
  BY <1>1, MinIsMember

LEMMA AddMemoStays ==
    ASSUME IInv, NEW p, IsMemo(p), AddMemo(p) PROVE IInv'
<1> DEFINE id == NextId(memos)
           added == [p EXCEPT !.id = id]
           first == Min(MemosFound(p.title) \cup {id})
           answered == [p EXCEPT !.id = first]
<1>1. /\ id \in MemoIds /\ p.tag_ids \subseteq Rows(tags)
      /\ memos' = [memos EXCEPT ![id] = MemoRow(p)]
      /\ tagged' = [tagged EXCEPT ![id] = p.tag_ids]
      /\ rq'.method = "AddMemo"
      /\ reply' = [ok |-> TRUE, memos |-> {answered}, tags |-> {}]
      /\ given' = [given EXCEPT !.memos[id] = added]
      /\ tags' = tags
  BY MemoIsStored DEF AddMemo, Request, Success
<1>2. IsMemo(added) /\ added.id = id /\ added.tag_ids = p.tag_ids /\ MemoRow(added) = MemoRow(p)
  BY DEF IsMemo, MemoRow
<1>0. /\ IsMemo(answered) /\ [answered EXCEPT !.id = id] = added
      /\ answered.title = p.title /\ answered.id = first
  <2>1. answered.title = p.title /\ answered.id = first
    BY DEF IsMemo
  <2>2. IsMemo(answered) /\ [answered EXCEPT !.id = id] = added
    BY IdChanged
  <2> QED
    BY <2>1, <2>2
<1> HIDE DEF id, added, answered, first
<1> USE DEF IInv, StoredInv
<1>3. FunctionsOK'
  BY <1>1 DEF FunctionsOK
<1>4. /\ memos'[id] = MemoRow(added) /\ tagged'[id] = p.tag_ids /\ given'.memos[id] = added
      /\ given'.tags = given.tags
      /\ \A m \in MemoIds \ {id} : /\ memos'[m] = memos[m] /\ tagged'[m] = tagged[m]
                                   /\ given'.memos[m] = given.memos[m]
  BY <1>1, <1>2 DEF FunctionsOK
<1>5. Rows(memos) \subseteq MemoIds /\ Rows(memos)' \subseteq MemoIds
  BY <1>3 DEF FunctionsOK, Rows
<1>6. \A m \in Rows(memos)' : m = id \/ m \in Rows(memos)
  BY <1>3, <1>4 DEF FunctionsOK, Rows
<1>7. MemosInv'
  BY <1>2, <1>4, <1>5, <1>6 DEF MemosInv
<1>8. TagsInv'
  BY <1>1, <1>4 DEF TagsInv
<1>9. TaggedInv'
  BY <1>1, <1>4 DEF TaggedInv
<1>10. ReplyInv' /\ ListedInv'
  BY <1>0, <1>1 DEF ReplyInv, ListedInv
<1>11. ToldInv'
  <2>1. MemoTold("AddMemo", added, given'.memos[id])
    BY <1>2, <1>4, AddedIsTold
  <2>2. id \in MemosFound(p.title)'
    <3>1. id \in Rows(memos)'
      BY <1>1, <1>3, <1>4, RowsAreRows DEF FunctionsOK, Rows
    <3>2. memos'[id].title = Stored(p.title, "TEXT")
      BY <1>2, <1>4 DEF MemoRow
    <3> QED
      BY <3>1, <3>2 DEF MemosFound, IsMatch
  <2>3. first \in MemosFound(p.title)'
    <3>1. MemosFound(p.title) \subseteq MemoIds
      BY <1>5 DEF MemosFound
    <3>2. first \in MemosFound(p.title) \cup {id}
      BY <1>1, <3>1, FirstIsFound DEF first
    <3>3. ASSUME NEW m \in MemosFound(p.title), m # id PROVE m \in MemosFound(p.title)'
      <4>1. m \in Rows(memos) /\ m \in MemoIds /\ memos'[m] = memos[m]
        BY <1>4, <1>5, <3>3 DEF MemosFound
      <4>2. m \in Rows(memos)'
        BY <1>3, <4>1 DEF FunctionsOK, Rows
      <4> QED
        BY <3>3, <4>1, <4>2 DEF MemosFound
    <3> QED
      BY <2>2, <3>2, <3>3
  <2>4. IsAddition("AddMemo")
    BY DEF IsAddition
  <2>5. ASSUME NEW item \in reply'.memos
        PROVE  /\ item.id \in MemosFound(item.title)'
               /\ \E i \in MemosFound(item.title)' :
                     MemoTold("AddMemo", [item EXCEPT !.id = i], given'.memos[i])
    <3>1. item = answered /\ item.title = p.title
      BY <1>0, <1>1
    <3>2. [item EXCEPT !.id = id] = added
      BY <1>0, <3>1
    <3> QED
      BY <1>0, <2>1, <2>2, <2>3, <3>1, <3>2
  <2> QED
    BY <1>1, <2>4, <2>5 DEF ToldInv
<1> QED
  BY <1>3, <1>7, <1>8, <1>9, <1>10, <1>11

LEMMA UpdateMemoStays ==
    ASSUME IInv, NEW p, IsMemo(p), UpdateMemo(p) PROVE IInv'
<1>1. /\ reply' = [ok |-> TRUE, memos |-> {}, tags |-> {}] /\ tags' = tags
      /\ rq'.method = "UpdateMemo"
  BY DEF UpdateMemo, Request, Success
<1>2. ReplyInv' /\ ListedInv' /\ ToldInv'
  BY <1>1 DEF ReplyInv, ListedInv, ToldInv
<1> USE DEF IInv, StoredInv
<1>3. CASE p.id \in Rows(memos)
  <2>1. /\ p.tag_ids \subseteq Rows(tags)
        /\ memos' = [memos EXCEPT ![p.id] = MemoRow(p)]
        /\ tagged' = [tagged EXCEPT ![p.id] = p.tag_ids]
        /\ given' = [given EXCEPT !.memos[p.id] = p]
    <3>1. \A row : UpdateMemoTable(row, UpdateMemoModel(p)) = MemoRow(p)
      BY MemoIsStored DEF UpdateMemoTable
    <3> QED
      BY <1>3, <3>1, MemoIsStored DEF UpdateMemo
  <2>2. p.id \in MemoIds
    BY <1>3 DEF FunctionsOK, Rows
  <2>3. FunctionsOK'
    BY <1>1, <2>1, <2>2 DEF FunctionsOK
  <2>4. /\ memos'[p.id] = MemoRow(p) /\ tagged'[p.id] = p.tag_ids /\ given'.memos[p.id] = p
        /\ given'.tags = given.tags
        /\ \A m \in MemoIds \ {p.id} : /\ memos'[m] = memos[m] /\ tagged'[m] = tagged[m]
                                       /\ given'.memos[m] = given.memos[m]
    BY <2>1, <2>2 DEF FunctionsOK
  <2>5. \A m \in Rows(memos)' : m \in MemoIds /\ (m = p.id \/ m \in Rows(memos))
    BY <2>3, <2>4 DEF FunctionsOK, Rows
  <2>6. MemosInv'
    BY <2>4, <2>5 DEF MemosInv
  <2>7. TagsInv'
    BY <1>1, <2>4 DEF TagsInv
  <2>8. TaggedInv'
    BY <1>1, <2>1, <2>4 DEF TaggedInv
  <2> QED
    BY <1>2, <2>3, <2>6, <2>7, <2>8
<1>4. CASE p.id \notin Rows(memos)
  <2>1. UNCHANGED <<memos, tagged, given>>
    BY <1>4, MemoIsStored DEF UpdateMemo
  <2> QED
    BY <1>1, <1>2, <2>1 DEF FunctionsOK, MemosInv, TagsInv, TaggedInv
<1> QED
  BY <1>3, <1>4

LEMMA AddTagStays ==
    ASSUME IInv, NEW p, IsTag(p), AddTag(p) PROVE IInv'
<1> DEFINE id == NextId(tags)
           added == [p EXCEPT !.id = id]
           first == Min(TagsFound(p.name) \cup {id})
           answered == [p EXCEPT !.id = first]
<1>1. /\ id \in TagIds /\ tags' = [tags EXCEPT ![id] = TagRow(p)]
      /\ rq'.method = "AddTag"
      /\ reply' = [ok |-> TRUE, memos |-> {}, tags |-> {answered}]
      /\ given' = [given EXCEPT !.tags[id] = added]
      /\ UNCHANGED <<memos, tagged>>
  BY TagIsStored DEF AddTag, Request, Success, IsTag
<1>2. IsTag(added) /\ added.id = id /\ TagRow(added) = TagRow(p)
  BY DEF IsTag, TagRow
<1>0. /\ IsTag(answered) /\ [answered EXCEPT !.id = id] = added
      /\ answered.name = p.name /\ answered.id = first
  <2>1. answered.name = p.name /\ answered.id = first
    BY DEF IsTag
  <2>2. IsTag(answered) /\ [answered EXCEPT !.id = id] = added
    BY IdChanged
  <2> QED
    BY <2>1, <2>2
<1> HIDE DEF id, added, answered, first
<1> USE DEF IInv, StoredInv
<1>3. FunctionsOK'
  BY <1>1 DEF FunctionsOK
<1>4. /\ tags'[id] = TagRow(added) /\ given'.tags[id] = added /\ given'.memos = given.memos
      /\ \A t \in TagIds \ {id} : tags'[t] = tags[t] /\ given'.tags[t] = given.tags[t]
  BY <1>1, <1>2 DEF FunctionsOK
<1>5. \A t \in Rows(tags)' : t \in TagIds /\ (t = id \/ t \in Rows(tags))
  BY <1>3, <1>4 DEF FunctionsOK, Rows
<1>6. Rows(tags) \subseteq Rows(tags)'
  <2> SUFFICES ASSUME NEW t \in Rows(tags) PROVE t \in Rows(tags)'
    OBVIOUS
  <2>1. t \in TagIds /\ tags[t] # NoRow /\ DOMAIN tags' = TagIds
    BY <1>3 DEF FunctionsOK, Rows
  <2>2. tags'[t] # NoRow
    BY <1>4, <2>1, RowsAreRows
  <2> QED
    BY <2>1, <2>2 DEF Rows
<1>7. MemosInv'
  BY <1>1, <1>4 DEF MemosInv
<1>8. TagsInv'
  BY <1>2, <1>4, <1>5 DEF TagsInv
<1>9. TaggedInv'
  BY <1>1, <1>6 DEF TaggedInv
<1>10. ReplyInv' /\ ListedInv'
  BY <1>0, <1>1 DEF ReplyInv, ListedInv
<1>11. ToldInv'
  <2>1. TagTold("AddTag", added, given'.tags[id])
    BY <1>2, <1>4, AddedIsTold
  <2>2. id \in TagsFound(p.name)'
    <3>1. id \in Rows(tags)'
      BY <1>1, <1>3, <1>4, RowsAreRows DEF FunctionsOK, Rows
    <3>2. tags'[id].name = Stored(p.name, "TEXT")
      BY <1>2, <1>4 DEF TagRow
    <3> QED
      BY <3>1, <3>2 DEF TagsFound, IsMatch
  <2>3. first \in TagsFound(p.name)'
    <3>1. TagsFound(p.name) \subseteq TagIds
      BY DEF TagsFound, Rows, FunctionsOK
    <3>2. first \in TagsFound(p.name) \cup {id}
      BY <1>1, <3>1, FirstIsFound DEF first
    <3>3. ASSUME NEW t \in TagsFound(p.name), t # id PROVE t \in TagsFound(p.name)'
      <4>1. t \in Rows(tags) /\ t \in TagIds /\ tags'[t] = tags[t]
        BY <1>4, <3>3 DEF TagsFound, Rows, FunctionsOK
      <4>2. t \in Rows(tags)'
        BY <1>6, <4>1
      <4> QED
        BY <3>3, <4>1, <4>2 DEF TagsFound
    <3> QED
      BY <2>2, <3>2, <3>3
  <2>4. IsAddition("AddTag")
    BY DEF IsAddition
  <2>5. ASSUME NEW item \in reply'.tags
        PROVE  /\ item.id \in TagsFound(item.name)'
               /\ \E i \in TagsFound(item.name)' :
                     TagTold("AddTag", [item EXCEPT !.id = i], given'.tags[i])
    <3>1. item = answered /\ item.name = p.name
      BY <1>0, <1>1
    <3>2. [item EXCEPT !.id = id] = added
      BY <1>0, <3>1
    <3> QED
      BY <1>0, <2>1, <2>2, <2>3, <3>1, <3>2
  <2> QED
    BY <1>1, <2>4, <2>5 DEF ToldInv
<1> QED
  BY <1>3, <1>7, <1>8, <1>9, <1>10, <1>11

LEMMA UpdateTagStays ==
    ASSUME IInv, NEW p, IsTag(p), UpdateTag(p) PROVE IInv'
<1>1. /\ reply' = [ok |-> TRUE, memos |-> {}, tags |-> {}] /\ UNCHANGED <<memos, tagged>>
      /\ rq'.method = "UpdateTag"
  BY DEF UpdateTag, Request, Success
<1>2. ReplyInv' /\ ListedInv' /\ ToldInv'
  BY <1>1 DEF ReplyInv, ListedInv, ToldInv
<1>0. UpdateTagModel(p).id = p.id /\ \A row : UpdateTagTable(row, UpdateTagModel(p)) = TagRow(p)
  BY TagIsStored DEF UpdateTagTable, IsTag
<1> USE DEF IInv, StoredInv
<1>3. CASE p.id \in Rows(tags)
  <2>1. /\ tags' = [tags EXCEPT ![p.id] = TagRow(p)]
        /\ given' = [given EXCEPT !.tags[p.id] = p]
    BY <1>0, <1>3 DEF UpdateTag
  <2>2. p.id \in TagIds
    BY <1>3 DEF FunctionsOK, Rows
  <2>3. FunctionsOK'
    BY <1>1, <2>1, <2>2 DEF FunctionsOK
  <2>4. /\ tags'[p.id] = TagRow(p) /\ given'.tags[p.id] = p /\ given'.memos = given.memos
        /\ \A t \in TagIds \ {p.id} : tags'[t] = tags[t] /\ given'.tags[t] = given.tags[t]
    BY <2>1, <2>2 DEF FunctionsOK
  <2>5. \A t \in Rows(tags)' : t \in TagIds /\ (t = p.id \/ t \in Rows(tags))
    BY <2>3, <2>4 DEF FunctionsOK, Rows
  <2>6. Rows(tags) \subseteq Rows(tags)'
    <3> SUFFICES ASSUME NEW t \in Rows(tags) PROVE t \in Rows(tags)'
      OBVIOUS
    <3>1. t \in TagIds /\ tags[t] # NoRow /\ DOMAIN tags' = TagIds
      BY <2>3 DEF FunctionsOK, Rows
    <3>2. tags'[t] # NoRow
      BY <2>4, <3>1, RowsAreRows
    <3> QED
      BY <3>1, <3>2 DEF Rows
  <2>7. MemosInv'
    BY <1>1, <2>4 DEF MemosInv
  <2>8. TagsInv'
    BY <2>4, <2>5 DEF TagsInv
  <2>9. TaggedInv'
    BY <1>1, <2>6 DEF TaggedInv
  <2> QED
    BY <1>2, <2>3, <2>7, <2>8, <2>9
<1>4. CASE p.id \notin Rows(tags)
  <2>1. UNCHANGED <<tags, given>>
    BY <1>0, <1>4 DEF UpdateTag
  <2> QED
    BY <1>1, <1>2, <2>1 DEF FunctionsOK, MemosInv, TagsInv, TaggedInv
<1> QED
  BY <1>3, <1>4

\* What has just been listed is told as it was stored.
LEMMA ListingStays ==
    ASSUME IInv, Fails \/ ListMemos \/ ListTags PROVE IInv'
<1>1. UNCHANGED <<tables, given>>
  BY DEF Fails, ListMemos, ListTags
<1>2. StoredInv'
  BY <1>1 DEF IInv, StoredInv, FunctionsOK, MemosInv, TagsInv, TaggedInv, tables, Rows
<1>3. CASE Fails
  <2>1. reply'.memos = {} /\ reply'.tags = {}
    BY <1>3 DEF Fails, NoReply
  <2> QED
    BY <1>2, <2>1 DEF IInv, ReplyInv, ListedInv, ToldInv
<1>4. CASE ListMemos \/ ListTags
  <2>1. PICK ms, ts : /\ ms \subseteq Rows(memos) /\ ts \subseteq Rows(tags)
                      /\ reply'.memos = {ListedMemo(ReadMemo(m)) : m \in ms}
                      /\ reply'.tags = {ListedTag(ReadTag(t)) : t \in ts}
    <3>1. CASE ListMemos
      <4> DEFINE ids == UNION {tagged[m] : m \in Rows(memos)}
                 ts == IF ids = {} THEN Rows(tags) ELSE ids
      <4>1. ts \subseteq Rows(tags)
        BY DEF IInv, StoredInv, TaggedInv, FunctionsOK, Rows
      <4>2. /\ reply'.memos = {ListedMemo(ReadMemo(m)) : m \in Rows(memos)}
            /\ reply'.tags = {ListedTag(ReadTag(t)) : t \in ts}
        BY <3>1 DEF ListMemos, Success, TagOfMemos
      <4> QED
        BY <4>1, <4>2
    <3>2. CASE ListTags
      <4>1. /\ reply'.memos = {ListedMemo(ReadMemo(m)) : m \in {}}
            /\ reply'.tags = {ListedTag(ReadTag(t)) : t \in Rows(tags)}
        BY <3>2 DEF ListTags, Success
      <4> QED
        BY <4>1
    <3> QED
      BY <1>4, <3>1, <3>2
  <2>2. rq'.method \in {"ListMemos", "ListTags"}
    BY <1>4 DEF ListMemos, ListTags, Request
  <2>3. MemosInv /\ TagsInv
    BY DEF IInv, StoredInv
  <2>4. ReplyInv'
    BY <2>1, <2>3, ListedAreItems DEF ReplyInv
  <2>5. ListedInv'
    <3>1. /\ \A m \in reply'.memos : m.id \in Rows(memos) /\ m = ListedMemo(ReadMemo(m.id))
          /\ \A t \in reply'.tags : t.id \in Rows(tags) /\ t = ListedTag(ReadTag(t.id))
      BY <2>1, <2>3, ListedAreItems
    <3>2. /\ Rows(memos)' = Rows(memos) /\ Rows(tags)' = Rows(tags)
          /\ \A m : ReadMemo(m)' = ReadMemo(m)
          /\ \A t : ReadTag(t)' = ReadTag(t)
      BY <1>1 DEF tables, Rows, ReadMemo, ReadTag
    <3> QED
      BY <3>1, <3>2 DEF ListedInv
  <2>6. ToldInv'
    <3>1. "ListMemos" \notin {"AddMemo", "AddTag"} /\ "ListTags" \notin {"AddMemo", "AddTag"}
      OBVIOUS
    <3>2. \A m \in Rows(memos) :
             MemoTold(rq'.method, ListedMemo(ReadMemo(m)), given.memos[m])
      BY <2>2, <2>3, <3>1, ListedMemoIs, ListedIsTold DEF MemosInv
    <3>3. \A t \in Rows(tags) : TagTold(rq'.method, ListedTag(ReadTag(t)), given.tags[t])
      <4> SUFFICES ASSUME NEW t \in Rows(tags)
                   PROVE  TagTold(rq'.method, ListedTag(ReadTag(t)), given.tags[t])
        OBVIOUS
      <4> DEFINE g == given.tags[t]
      <4>1. IsTag(g)
        BY <2>3 DEF TagsInv
      <4>2. ListedTag(ReadTag(t)) = [g EXCEPT !.timestamp = Seen(@), !.color = Low24Bits(@)]
        BY <2>3, ListedTagIs
      <4>3. rq'.method \notin {"AddMemo", "AddTag"}
        BY <2>2, <3>1
      <4> HIDE DEF g
      <4>4. TagTold(rq'.method, [g EXCEPT !.timestamp = Seen(@), !.color = Low24Bits(@)], g)
        BY <4>1, <4>3, ListedIsTold
      <4> QED
        BY <4>2, <4>4, Zenon DEF g
    <3>4. ~IsAddition(rq'.method)
      BY <2>2 DEF IsAddition
    <3> QED
      BY <1>1, <2>1, <2>3, <3>2, <3>3, <3>4, ListedAreItems DEF ToldInv
  <2> QED
    BY <1>2, <2>4, <2>5, <2>6 DEF IInv
<1> QED
  BY <1>3, <1>4

LEMMA RemoveMemoStays ==
    ASSUME IInv, NEW ids, RemoveMemo(ids) PROVE IInv'
<1> DEFINE removed == Selected(memos, ids)
<1>1. /\ rq'.method = "RemoveMemo"
      /\ reply' = [ok |-> TRUE, memos |-> {RemovedMemo(ReadMemo(m)) : m \in removed}, tags |-> {}]
      /\ memos' = [m \in MemoIds |-> IF m \in removed THEN NoRow ELSE memos[m]]
      /\ tagged' = [m \in MemoIds |-> IF m \in removed THEN {} ELSE tagged[m]]
      /\ UNCHANGED <<tags, given>>
  BY DEF RemoveMemo, Request, Success
<1>2. removed \subseteq Rows(memos)
  BY DEF Selected
<1> HIDE DEF removed
<1> USE DEF IInv, StoredInv
<1>3. FunctionsOK'
  BY <1>1 DEF FunctionsOK
<1>4. \A m \in Rows(memos)' : /\ m \in Rows(memos) /\ memos'[m] = memos[m]
                              /\ tagged'[m] = tagged[m]
  BY <1>1 DEF FunctionsOK, Rows
<1>5. MemosInv'
  BY <1>1, <1>4 DEF MemosInv
<1>6. TagsInv'
  BY <1>1 DEF TagsInv
<1>7. TaggedInv'
  BY <1>1 DEF TaggedInv
<1>8. ReplyInv'
  BY <1>1, <1>2, ListedAreItems DEF ReplyInv
<1>9. ListedInv'
  BY <1>1 DEF ListedInv
<1>10. ToldInv'
  <2>1. ~IsAddition("RemoveMemo")
    BY DEF IsAddition
  <2> QED
    BY <1>1, <1>2, <2>1, ListedAreItems, RemovedIsTold DEF ToldInv
<1> QED
  BY <1>3, <1>5, <1>6, <1>7, <1>8, <1>9, <1>10

LEMMA RemoveTagStays ==
    ASSUME IInv, NEW ids, RemoveTag(ids) PROVE IInv'
<1> DEFINE removed == Selected(tags, ids)
<1>1. /\ rq'.method = "RemoveTag"
      /\ reply' = [ok |-> TRUE, memos |-> {}, tags |-> {ListedTag(ReadTag(t)) : t \in removed}]
      /\ tags' = [t \in TagIds |-> IF t \in removed THEN NoRow ELSE tags[t]]
      /\ tagged' = [m \in MemoIds |-> tagged[m] \ removed]
      /\ given' = [given EXCEPT !.memos = [m \in MemoIds |-> Untagged(given.memos[m], removed)]]
      /\ memos' = memos
  BY DEF RemoveTag, Request, Success, RemovedTag
<1>2. removed \subseteq Rows(tags)
  BY DEF Selected
<1> HIDE DEF removed
<1> USE DEF IInv, StoredInv
<1>3. given'.tags = given.tags /\ \A m \in MemoIds : given'.memos[m] = Untagged(given.memos[m], removed)
  BY <1>1 DEF FunctionsOK
<1>4. FunctionsOK'
  BY <1>1 DEF FunctionsOK
<1>5. Rows(memos)' = Rows(memos) /\ Rows(memos) \subseteq MemoIds
  BY <1>1 DEF Rows, FunctionsOK
<1>6. MemosInv'
  <2> SUFFICES ASSUME NEW m \in Rows(memos)
               PROVE  /\ IsMemo(given'.memos[m]) /\ given'.memos[m].id = m
                      /\ memos'[m] = MemoRow(given'.memos[m])
                      /\ tagged'[m] = given'.memos[m].tag_ids
    BY <1>5 DEF MemosInv
  <2> DEFINE g == given.memos[m]
  <2>1. IsMemo(g) /\ g.id = m /\ memos[m] = MemoRow(g) /\ tagged[m] = g.tag_ids /\ m \in MemoIds
    BY <1>5 DEF MemosInv
  <2> HIDE DEF g
  <2>2. g # NoRow
    <3>1. DOMAIN g # DOMAIN NoRow
      BY <2>1 DEF IsMemo, NoRow
    <3> QED
      BY <3>1
  <2>3. given'.memos[m] = [g EXCEPT !.tag_ids = @ \ removed]
    BY <1>3, <2>1, <2>2 DEF g, Untagged
  <2>4. \A x : LET h == [g EXCEPT !.tag_ids = x]
               IN  IsMemo(h) /\ h.id = g.id /\ MemoRow(h) = MemoRow(g) /\ h.tag_ids = x
    BY <2>1 DEF IsMemo, MemoRow
  <2>5. tagged'[m] = g.tag_ids \ removed
    BY <1>1, <2>1
  <2> QED
    BY <1>1, <2>1, <2>3, <2>4, <2>5
<1>7. \A t \in Rows(tags)' : t \in Rows(tags) /\ tags'[t] = tags[t]
  BY <1>1 DEF FunctionsOK, Rows
<1>8. TagsInv'
  BY <1>3, <1>7 DEF TagsInv
<1>9. TaggedInv'
  <2>1. \A t \in Rows(tags) \ removed : t \in Rows(tags)'
    BY <1>1 DEF FunctionsOK, Rows
  <2> QED
    BY <1>1, <2>1 DEF TaggedInv
<1>10. ReplyInv'
  BY <1>1, <1>2, ListedAreItems DEF ReplyInv
<1>11. ListedInv'
  BY <1>1 DEF ListedInv
<1>12. ToldInv'
  <2>1. ASSUME NEW t \in Rows(tags)
        PROVE  TagTold("RemoveTag", ListedTag(ReadTag(t)), given.tags[t])
    <3> DEFINE g == given.tags[t]
    <3>1. IsTag(g)
      BY DEF TagsInv
    <3>2. ListedTag(ReadTag(t)) = [g EXCEPT !.timestamp = Seen(@), !.color = Low24Bits(@)]
      BY ListedTagIs
    <3> HIDE DEF g
    <3>3. TagTold("RemoveTag", [g EXCEPT !.timestamp = Seen(@), !.color = Low24Bits(@)], g)
      <4>1. "RemoveTag" \notin {"AddMemo", "AddTag"}
        OBVIOUS
      <4> QED
        BY <3>1, <4>1, ListedIsTold
    <3> QED
      BY <3>2, <3>3, Zenon DEF g
  <2>2. ~IsAddition("RemoveTag")
    BY DEF IsAddition
  <2> QED
    BY <1>1, <1>2, <1>3, <2>1, <2>2, ListedAreItems DEF ToldInv
<1> QED
  BY <1>4, <1>6, <1>8, <1>9, <1>10, <1>11, <1>12

LEMMA Stays == IInv /\ [Next]_vars => IInv'
<1> SUFFICES ASSUME IInv, [Next]_vars PROVE IInv'
  OBVIOUS
<1>1. (\A p \in MemoItems : IsMemo(p)) /\ (\A p \in TagItems : IsTag(p))
  BY ItemsAreItems DEF IInv
<1>2. CASE \E p \in MemoItems : AddMemo(p) \/ UpdateMemo(p)
  BY <1>1, <1>2, AddMemoStays, UpdateMemoStays
<1>3. CASE \E p \in TagItems : AddTag(p) \/ UpdateTag(p)
  BY <1>1, <1>3, AddTagStays, UpdateTagStays
<1>4. CASE Fails \/ ListMemos \/ ListTags
  BY <1>4, ListingStays
<1>5. CASE \E ids \in SUBSET MemoIds : RemoveMemo(ids)
  BY <1>5, RemoveMemoStays
<1>6. CASE \E ids \in SUBSET TagIds : RemoveTag(ids)
  BY <1>6, RemoveTagStays
<1>7. CASE UNCHANGED vars
  BY <1>7 DEF vars, tables, IInv, StoredInv, FunctionsOK, MemosInv, TagsInv, TaggedInv, Rows,
              ReplyInv, ListedInv, ToldInv, ReadMemo, ReadTag, MemosFound, TagsFound
<1> QED
  BY <1>2, <1>3, <1>4, <1>5, <1>6, <1>7 DEF Next

THEOREM RecordsInvariance == Spec => []IInv
BY Starts, Stays, PTL DEF Spec

\* For any texts, LIKE, timestamps, colors and number of rows: an item of a response is what
\* a client has given for its id last, but for the timestamps and the colors that the
\* columns cannot hold; the reply to an addition tells what was given for the new row, and
\* has the id of a row that is found by its text (MemoService.cpp and TagService.cpp with Sqlite3Functions.cpp and
\* Sqlite3Database.cpp:46-106).
THEOREM ResponsesAreAsGiven == Spec => []ReportedAsGiven
<1>1. IInv => ReportedAsGiven
  BY ReportedIs DEF IInv
<1> QED
  BY RecordsInvariance, <1>1, PTL

-----------------------------------------------------------------------------
(* What is sent back as it was listed *)

\* A memo is no tag.
LEMMA MemosAreNoTags == \A p : ~(IsMemo(p) /\ IsTag(p))
<1> SUFFICES ASSUME NEW p, IsMemo(p), IsTag(p) PROVE FALSE
  OBVIOUS
<1>1. "title" \in DOMAIN p
  BY DEF IsMemo
<1>2. "title" \notin DOMAIN p
  BY DEF IsTag
<1> QED
  BY <1>1, <1>2

LEMMA MemoIsRewritten ==
    ASSUME IInv, rq.method \in {"ListMemos", "ListTags"}, NEW p, IsMemo(p), UpdateMemo(p),
           rq'.again # {}, \A id \in rq'.again : memos[id].timestamp.class = "INTEGER"
    PROVE  UNCHANGED tables
<1> USE DEF IInv, StoredInv
<1>1. rq'.again = {i.id : i \in {p} \cap (reply.memos \cup reply.tags)}
  BY DEF UpdateMemo, Request
<1>2. p \in reply.memos /\ p.id \in rq'.again
  <2>1. p \in reply.memos \cup reply.tags
    BY <1>1
  <2>2. p \notin reply.tags
    BY MemosAreNoTags DEF ReplyInv
  <2> QED
    BY <1>1, <2>1, <2>2
<1>3. p.id \in Rows(memos) /\ p = ListedMemo(ReadMemo(p.id)) /\ memos[p.id].timestamp.class = "INTEGER"
  BY <1>2 DEF ListedInv
<1> DEFINE g == given.memos[p.id]
<1>4. /\ IsMemo(g) /\ memos[p.id] = MemoRow(g) /\ tagged[p.id] = g.tag_ids
      /\ p = [g EXCEPT !.timestamp = Seen(@)]
  BY <1>3, ListedMemoIs DEF MemosInv
<1> HIDE DEF g
<1>5. Seen(g.timestamp) = g.timestamp
  <2>1. memos[p.id].timestamp = Stored(g.timestamp, "INTEGER")
    BY <1>4 DEF MemoRow
  <2> QED
    BY <1>3, <2>1, NumberIsSeen
<1>6. p = g
  BY <1>4, <1>5 DEF IsMemo
<1>7. /\ memos' = [memos EXCEPT ![p.id] = MemoRow(p)]
      /\ tagged' = [tagged EXCEPT ![p.id] = p.tag_ids] /\ tags' = tags
  <2>1. \A row : UpdateMemoTable(row, UpdateMemoModel(p)) = MemoRow(p)
    BY MemoIsStored DEF UpdateMemoTable
  <2> QED
    BY <1>3, <2>1, MemoIsStored DEF UpdateMemo
<1>8. memos' = memos /\ tagged' = tagged
  BY <1>4, <1>6, <1>7 DEF FunctionsOK
<1> QED
  BY <1>7, <1>8 DEF tables

LEMMA TagIsRewritten ==
    ASSUME IInv, rq.method \in {"ListMemos", "ListTags"}, NEW p, IsTag(p), UpdateTag(p),
           rq'.again # {}, \A id \in rq'.again : tags[id].timestamp.class = "INTEGER"
    PROVE  UNCHANGED tables
<1> USE DEF IInv, StoredInv
<1>1. rq'.again = {i.id : i \in {p} \cap (reply.memos \cup reply.tags)}
  BY DEF UpdateTag, Request
<1>2. p \in reply.tags /\ p.id \in rq'.again
  <2>1. p \in reply.memos \cup reply.tags
    BY <1>1
  <2>2. p \notin reply.memos
    BY MemosAreNoTags DEF ReplyInv
  <2> QED
    BY <1>1, <2>1, <2>2
<1>3. p.id \in Rows(tags) /\ p = ListedTag(ReadTag(p.id)) /\ tags[p.id].timestamp.class = "INTEGER"
  BY <1>2 DEF ListedInv
<1> DEFINE g == given.tags[p.id]
<1>4. /\ IsTag(g) /\ tags[p.id] = TagRow(g)
      /\ p = [g EXCEPT !.timestamp = Seen(@), !.color = Low24Bits(@)]
  BY <1>3, ListedTagIs DEF TagsInv
<1> HIDE DEF g
<1>5. Seen(g.timestamp) = g.timestamp
  <2>1. tags[p.id].timestamp = Stored(g.timestamp, "INTEGER")
    BY <1>4 DEF TagRow
  <2> QED
    BY <1>3, <2>1, NumberIsSeen
<1>6. p.name = g.name /\ p.color = Low24Bits(g.color) /\ p.timestamp = g.timestamp
  <2>1. p = [id |-> g.id, name |-> g.name, color |-> Low24Bits(g.color),
             timestamp |-> Seen(g.timestamp)]
    BY <1>4, TagChanged DEF IsTag
  <2> QED
    BY <1>5, <2>1
<1>7. TagRow(p) = TagRow(g)
  <2>1. Low24Bits(p.color) = Low24Bits(g.color)
    BY <1>4, <1>6, LowBitsStay DEF IsTag
  <2> QED
    BY <1>6, <2>1 DEF TagRow
<1>8. tags' = [tags EXCEPT ![p.id] = TagRow(p)] /\ UNCHANGED <<memos, tagged>>
  <2>1. /\ UpdateTagModel(p).id = p.id
        /\ \A row : UpdateTagTable(row, UpdateTagModel(p)) = TagRow(p)
    BY TagIsStored DEF UpdateTagTable, IsTag
  <2> QED
    BY <1>3, <2>1 DEF UpdateTag
<1>9. tags' = tags
  BY <1>4, <1>7, <1>8 DEF FunctionsOK
<1> QED
  BY <1>8, <1>9 DEF tables

\* For any texts, timestamps, colors and number of rows: what a client sends back as it was
\* listed changes no table, unless it has a timestamp that does not fit.
THEOREM SendingBackIsHarmless == Spec => RewritingChangesNothing
<1> DEFINE Resent ==
        /\ rq.method \in {"ListMemos", "ListTags"}
        /\ rq'.again # {}
        /\ \A id \in rq'.again :
              /\ rq'.method = "UpdateMemo" => memos[id].timestamp.class = "INTEGER"
              /\ rq'.method = "UpdateTag" => tags[id].timestamp.class = "INTEGER"
<1>1. IInv /\ [Next]_vars => [Resent => UNCHANGED tables]_vars
  <2> SUFFICES ASSUME IInv, Next, Resent PROVE UNCHANGED tables
    OBVIOUS
  <2>1. (\A p \in MemoItems : IsMemo(p)) /\ (\A p \in TagItems : IsTag(p))
    BY ItemsAreItems DEF IInv
  <2>2. CASE \E p \in MemoItems : AddMemo(p) \/ UpdateMemo(p)
    <3>1. PICK p \in MemoItems : AddMemo(p) \/ UpdateMemo(p)
      BY <2>2
    <3>2. CASE AddMemo(p)
      BY <3>2 DEF AddMemo, Request
    <3>3. CASE UpdateMemo(p)
      <4>1. rq'.method = "UpdateMemo"
        BY <3>3 DEF UpdateMemo, Request
      <4> QED
        BY <2>1, <3>3, <4>1, MemoIsRewritten
    <3> QED
      BY <3>1, <3>2, <3>3
  <2>3. CASE \E p \in TagItems : AddTag(p) \/ UpdateTag(p)
    <3>1. PICK p \in TagItems : AddTag(p) \/ UpdateTag(p)
      BY <2>3
    <3>2. CASE AddTag(p)
      BY <3>2 DEF AddTag, Request
    <3>3. CASE UpdateTag(p)
      <4>1. rq'.method = "UpdateTag"
        BY <3>3 DEF UpdateTag, Request
      <4> QED
        BY <2>1, <3>3, <4>1, TagIsRewritten
    <3> QED
      BY <3>1, <3>2, <3>3
  <2>4. CASE Fails \/ ListMemos \/ ListTags
    BY <2>4 DEF Fails, ListMemos, ListTags, Request
  <2>5. CASE \E ids \in SUBSET MemoIds : RemoveMemo(ids)
    BY <2>5 DEF RemoveMemo, Request
  <2>6. CASE \E ids \in SUBSET TagIds : RemoveTag(ids)
    BY <2>6 DEF RemoveTag, Request
  <2> QED
    BY <2>2, <2>3, <2>4, <2>5, <2>6 DEF Next
<1> QED
  BY RecordsInvariance, <1>1, PTL DEF Spec, RewritingChangesNothing

=============================================================================
