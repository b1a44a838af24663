------------------------ MODULE Sqlite3Wrapper_proofs ------------------------
(***************************************************************************)
(* What TLAPS proves of module Sqlite3Wrapper, for every text, whatever    *)
(* its length, and any number of calls and rows.                           *)
(***************************************************************************)
EXTENDS Sqlite3Wrapper, SequenceTheorems, WellFoundedInduction, TLAPS

-----------------------------------------------------------------------------
(* What the loop of EscapeSingleQuotes makes of a text *)

\* There is a first of any numbers.
LEMMA FirstIs ==
    ASSUME NEW numbers, numbers \subseteq Nat, numbers # {}
    PROVE  \E n \in numbers : \A k \in numbers : n =< k
<1>1. PICK n \in numbers : \A k \in numbers : ~(<<k, n>> \in OpToRel(<, Nat))
  BY NatLessThanWellFounded, WFMin
<1>2. \A k \in numbers : n =< k
  <2> SUFFICES ASSUME NEW k \in numbers PROVE n =< k
    OBVIOUS
  <2>1. ~(k < n)
    BY <1>1 DEF OpToRel
  <2> QED
    BY <2>1
<1> QED
  BY <1>2

\* One round of the loop, with what the rounds before it have made.
Round(text, result, i) ==
    IF i = 0 THEN <<>>
    ELSE IF text[i] = Quote THEN result[i - 1] \o <<Quote, Quote>>
    ELSE Append(result[i - 1], text[i])

\* The rounds of the loop exist, one after the other: there is no first one that does not.
LEMMA EscapedIs ==
    ASSUME NEW text \in Seq(Characters)
    PROVE  Escaped(text) = [i \in 0..Len(text) |-> Round(text, Escaped(text), i)]
<1> DEFINE Upto(n) == \E r : r = [i \in 0..n |-> Round(text, r, i)]
           bad == {n \in 0..Len(text) : ~Upto(n)}
<1>1. bad = {}
  <2> SUFFICES ASSUME bad # {} PROVE FALSE
    OBVIOUS
  <2>0. bad \subseteq Nat
    BY LenProperties
  <2>1. PICK n \in bad : \A k \in bad : n =< k
    <3> HIDE DEF bad
    <3> QED
      BY <2>0, FirstIs
  <2>2. n \in 0..Len(text) /\ ~Upto(n)
    OBVIOUS
  <2>3. CASE n = 0
    <3> DEFINE r == [i \in 0..0 |-> <<>>]
    <3>1. r = [i \in 0..0 |-> Round(text, r, i)]
      BY DEF Round
    <3> QED
      BY <2>2, <2>3, <3>1
  <2>4. CASE n # 0
    <3>1. n - 1 \in 0..Len(text) /\ n - 1 \notin bad
      BY <2>1, <2>2, <2>4
    <3>2. PICK s : s = [i \in 0..(n - 1) |-> Round(text, s, i)]
      BY <3>1
    <3> DEFINE r == [i \in 0..n |-> IF i = n THEN Round(text, s, n) ELSE s[i]]
    <3>3. \A i \in 0..n : r[i] = Round(text, r, i)
      <4> SUFFICES ASSUME NEW i \in 0..n PROVE r[i] = Round(text, r, i)
        OBVIOUS
      <4>1. CASE i = 0
        <5>1. r[0] = s[0] /\ s[0] = Round(text, s, 0)
          BY <2>2, <2>4, <3>2
        <5> QED
          BY <4>1, <5>1 DEF Round
      <4>2. CASE i # 0
        <5>1. i - 1 \in 0..n /\ i - 1 # n
          BY <2>2, <4>2
        <5>2. r[i - 1] = s[i - 1]
          BY <5>1
        <5>3. Round(text, r, i) = Round(text, s, i)
          BY <4>2, <5>2 DEF Round
        <5>4. r[i] = Round(text, s, i)
          BY <2>2, <3>2
        <5> QED
          BY <5>3, <5>4
      <4> QED
        BY <4>1, <4>2
    <3>4. r = [i \in 0..n |-> Round(text, r, i)]
      BY <3>3
    <3> QED
      BY <2>2, <3>4
  <2> QED
    BY <2>3, <2>4
<1>2. Upto(Len(text))
  BY <1>1
<1> QED
  BY <1>2 DEF Escaped, Round

\* Each round appends the character, or the quote twice.
LEMMA EscapedRounds ==
    ASSUME NEW text \in Seq(Characters)
    PROVE  /\ Escaped(text)[0] = <<>>
           /\ \A i \in 1..Len(text) :
                 Escaped(text)[i] = IF text[i] = Quote
                                    THEN Escaped(text)[i - 1] \o <<Quote, Quote>>
                                    ELSE Append(Escaped(text)[i - 1], text[i])
<1> DEFINE e == Escaped(text)
<1>1. e = [i \in 0..Len(text) |-> Round(text, e, i)]
  BY EscapedIs
<1>2. Len(text) \in Nat
  BY LenProperties
<1> HIDE DEF e
<1>3. \A i \in 0..Len(text) : e[i] = Round(text, e, i)
  BY <1>1
<1>4. e[0] = <<>>
  BY <1>2, <1>3 DEF Round
<1>5. \A i \in 1..Len(text) : e[i] = IF text[i] = Quote THEN e[i - 1] \o <<Quote, Quote>>
                                     ELSE Append(e[i - 1], text[i])
  BY <1>2, <1>3, SMTT(30) DEF Round
<1> QED
  BY <1>4, <1>5 DEF e

\* What there is after a round is a text.
LEMMA EscapedType ==
    ASSUME NEW text \in Seq(Characters)
    PROVE  \A i \in 0..Len(text) : Escaped(text)[i] \in Seq(Characters)
<1> DEFINE e == Escaped(text)
           bad == {i \in 0..Len(text) : e[i] \notin Seq(Characters)}
<1>1. SUFFICES ASSUME bad # {} PROVE FALSE
  OBVIOUS
<1>2. Len(text) \in Nat /\ bad \subseteq Nat
  BY LenProperties
<1>3. PICK n \in bad : \A k \in bad : n =< k
  <2> HIDE DEF bad
  <2> QED
    BY <1>1, <1>2, FirstIs
<1>4. n # 0
  <2>1. e[0] = <<>>
    BY EscapedRounds
  <2>2. e[0] \in Seq(Characters)
    <3> HIDE DEF e
    <3> QED
      BY <2>1, EmptySeq
  <2> QED
    BY <2>2
<1>5. n \in 1..Len(text) /\ n - 1 \in 0..Len(text)
  BY <1>2, <1>4
<1>6. n - 1 \notin bad
  BY <1>2, <1>3, <1>5
<1>7. e[n - 1] \in Seq(Characters) /\ text[n] \in Characters /\ <<Quote, Quote>> \in Seq(Characters)
  BY <1>5, <1>6, ElementOfSeq, WrapperAssumption
<1>8. e[n] \in Seq(Characters)
  <2>1. CASE text[n] = Quote
    <3>1. e[n] = e[n - 1] \o <<Quote, Quote>>
      BY <1>5, <2>1, EscapedRounds
    <3> HIDE DEF e
    <3> QED
      BY <1>7, <3>1, ConcatProperties
  <2>2. CASE text[n] # Quote
    <3>1. e[n] = Append(e[n - 1], text[n])
      BY <1>5, <2>2, EscapedRounds
    <3> HIDE DEF e
    <3> QED
      BY <1>7, <3>1, AppendProperties
  <2> QED
    BY <2>1, <2>2
<1> QED
  BY <1>8

\* How many characters a round adds, and which.
LEMMA EscapedStep ==
    ASSUME NEW text \in Seq(Characters), NEW i \in 1..Len(text)
    PROVE  LET before == Escaped(text)[i - 1]
               after == Escaped(text)[i]
           IN  /\ before \in Seq(Characters) /\ after \in Seq(Characters)
               /\ Len(after) = Len(before) + (IF text[i] = Quote THEN 2 ELSE 1)
               /\ \A p \in 1..Len(before) : after[p] = before[p]
               /\ after[Len(before) + 1] = text[i]
               /\ text[i] = Quote => after[Len(before) + 2] = Quote
<1> DEFINE before == Escaped(text)[i - 1]
           after == Escaped(text)[i]
<1>1. Len(text) \in Nat /\ i - 1 \in 0..Len(text) /\ i \in 0..Len(text)
  BY LenProperties
<1>2. before \in Seq(Characters) /\ after \in Seq(Characters) /\ text[i] \in Characters
  BY <1>1, EscapedType, ElementOfSeq
<1>3. CASE text[i] = Quote
  <2>1. after = before \o <<Quote, Quote>>
    BY <1>3, EscapedRounds
  <2>2. <<Quote, Quote>> \in Seq(Characters) /\ Len(<<Quote, Quote>>) = 2
    BY WrapperAssumption
  <2>3. /\ Len(after) = Len(before) + 2
        /\ \A p \in 1..Len(before) + 2 :
              after[p] = IF p =< Len(before) THEN before[p] ELSE <<Quote, Quote>>[p - Len(before)]
    <3> HIDE DEF before, after
    <3> QED
      BY <1>2, <2>1, <2>2, ConcatProperties
  <2>4. Len(before) \in Nat
    BY <1>2, LenProperties
  <2> HIDE DEF before, after
  <2>5. \A p \in 1..Len(before) : after[p] = before[p]
    BY <2>3, <2>4
  <2>6. after[Len(before) + 1] = Quote
    BY <2>3, <2>4
  <2>7. after[Len(before) + 2] = Quote
    BY <2>3, <2>4
  <2> QED
    BY <1>2, <1>3, <2>3, <2>5, <2>6, <2>7 DEF before, after
<1>4. CASE text[i] # Quote
  <2>1. after = Append(before, text[i])
    BY <1>4, EscapedRounds
  <2>2. /\ Len(after) = Len(before) + 1
        /\ \A p \in 1..Len(before) : after[p] = before[p]
        /\ after[Len(before) + 1] = text[i]
    <3> HIDE DEF before, after
    <3> QED
      BY <1>2, <2>1, AppendProperties
  <2> QED
    BY <1>2, <1>4, <2>2 DEF before, after
<1> QED
  BY <1>3, <1>4

\* What a round has made, the later ones leave as it is.
LEMMA EscapedGrows ==
    ASSUME NEW text \in Seq(Characters), NEW i \in 0..Len(text)
    PROVE  \A k \in i..Len(text) :
              /\ Len(Escaped(text)[i]) =< Len(Escaped(text)[k])
              /\ \A p \in 1..Len(Escaped(text)[i]) : Escaped(text)[k][p] = Escaped(text)[i][p]
<1> DEFINE e == Escaped(text)
           Holds(k) == /\ Len(e[i]) =< Len(e[k])
                       /\ \A p \in 1..Len(e[i]) : e[k][p] = e[i][p]
           bad == {k \in i..Len(text) : ~Holds(k)}
<1>0. Len(text) \in Nat /\ i \in Nat
  BY LenProperties
<1>1. SUFFICES ASSUME bad # {} PROVE FALSE
  OBVIOUS
<1>2. bad \subseteq Nat
  BY <1>0
<1>3. PICK n \in bad : \A k \in bad : n =< k
  <2> HIDE DEF bad
  <2> QED
    BY <1>1, <1>2, FirstIs
<1>4. e[i] \in Seq(Characters) /\ Len(e[i]) \in Nat
  BY EscapedType, LenProperties
<1>5. n # i
  <2>1. Holds(i)
    <3> HIDE DEF e
    <3> QED
      BY <1>4
  <2> QED
    BY <2>1
<1>6. n \in 1..Len(text) /\ n - 1 \in i..Len(text) /\ n - 1 \notin bad
  BY <1>0, <1>2, <1>3, <1>5
<1>7. Holds(n - 1)
  BY <1>6
<1>8. /\ e[n - 1] \in Seq(Characters) /\ e[n] \in Seq(Characters)
      /\ Len(e[n]) = Len(e[n - 1]) + (IF text[n] = Quote THEN 2 ELSE 1)
      /\ \A p \in 1..Len(e[n - 1]) : e[n][p] = e[n - 1][p]
  BY <1>6, EscapedStep
<1>9. Len(e[n - 1]) \in Nat /\ Len(e[n]) \in Nat
  BY <1>8, LenProperties
<1> HIDE DEF e
<1>10. Len(e[n - 1]) =< Len(e[n])
  <2>1. Len(e[n]) = Len(e[n - 1]) + 2 \/ Len(e[n]) = Len(e[n - 1]) + 1
    BY <1>8
  <2> QED
    BY <1>9, <2>1
<1>11. Len(e[i]) =< Len(e[n])
  BY <1>4, <1>7, <1>9, <1>10
<1>12. \A p \in 1..Len(e[i]) : e[n][p] = e[i][p]
  <2> TAKE p \in 1..Len(e[i])
  <2>1. p \in 1..Len(e[n - 1])
    BY <1>4, <1>7, <1>9
  <2> QED
    BY <1>7, <1>8, <2>1
<1> QED
  BY <1>11, <1>12

-----------------------------------------------------------------------------
(* The literal in the statement, and what SQLite gets of it *)

LEMMA BetweenQuotes ==
    ASSUME NEW s \in Seq(Characters)
    PROVE  LET full == <<Quote>> \o s \o <<Quote>> \o Rest
           IN  /\ full \in Seq(Characters) /\ Len(full) = Len(s) + 4
               /\ \A p \in 1..Len(s) : full[p + 1] = s[p]
               /\ full[Len(s) + 2] = Quote
               /\ full[Len(s) + 3] = Other /\ full[Len(s) + 4] = Other
<1> DEFINE opened == <<Quote>> \o s
           closed == opened \o <<Quote>>
           full == closed \o Rest
<1>1. Len(s) \in Nat
  BY LenProperties
<1>2. /\ <<Quote>> \in Seq(Characters) /\ Len(<<Quote>>) = 1 /\ <<Quote>>[1] = Quote
      /\ Rest \in Seq(Characters) /\ Len(Rest) = 2 /\ Rest[1] = Other /\ Rest[2] = Other
  BY WrapperAssumption DEF Rest
<1>3. /\ opened \in Seq(Characters) /\ Len(opened) = Len(s) + 1
      /\ \A p \in 1..Len(s) : opened[p + 1] = s[p]
  <2>1. /\ opened \in Seq(Characters) /\ Len(opened) = 1 + Len(s)
        /\ \A p \in 1..1 + Len(s) : opened[p] = IF p =< 1 THEN <<Quote>>[p] ELSE s[p - 1]
    BY <1>2, ConcatProperties
  <2> HIDE DEF opened
  <2> QED
    BY <1>1, <2>1
<1>4. /\ closed \in Seq(Characters) /\ Len(closed) = Len(s) + 2
      /\ \A p \in 1..Len(s) : closed[p + 1] = s[p]
      /\ closed[Len(s) + 2] = Quote
  <2> HIDE DEF opened
  <2>1. /\ closed \in Seq(Characters) /\ Len(closed) = Len(opened) + 1
        /\ \A p \in 1..Len(opened) + 1 :
              closed[p] = IF p =< Len(opened) THEN opened[p] ELSE <<Quote>>[p - Len(opened)]
    BY <1>2, <1>3, ConcatProperties
  <2> HIDE DEF closed
  <2>2. Len(closed) = Len(s) + 2
    BY <1>1, <1>3, <2>1
  <2>3. \A p \in 1..Len(s) : closed[p + 1] = opened[p + 1]
    BY <1>1, <1>3, <2>1
  <2>4. closed[Len(s) + 2] = <<Quote>>[Len(s) + 2 - Len(opened)]
    BY <1>1, <1>3, <2>1
  <2>5. Len(s) + 2 - Len(opened) = 1
    BY <1>1, <1>3
  <2>6. closed[Len(s) + 2] = Quote
    BY <1>2, <2>4, <2>5
  <2>7. \A p \in 1..Len(s) : closed[p + 1] = s[p]
    BY <1>3, <2>3
  <2> QED
    BY <2>1, <2>2, <2>6, <2>7
<1>5. /\ full \in Seq(Characters) /\ Len(full) = Len(closed) + 2
      /\ \A p \in 1..Len(closed) + 2 :
            full[p] = IF p =< Len(closed) THEN closed[p] ELSE Rest[p - Len(closed)]
  <2>1. closed \in Seq(Characters) /\ Rest \in Seq(Characters) /\ Len(Rest) = 2
    BY <1>2, <1>4
  <2> HIDE DEF closed
  <2>2. /\ full \in Seq(Characters) /\ Len(full) = Len(closed) + Len(Rest)
        /\ \A p \in 1..Len(closed) + Len(Rest) :
              full[p] = IF p =< Len(closed) THEN closed[p] ELSE Rest[p - Len(closed)]
    BY <2>1, ConcatProperties
  <2> HIDE DEF full
  <2> QED
    BY <2>1, <2>2
<1> HIDE DEF closed, full
<1>6. \A p \in 1..Len(s) : full[p + 1] = s[p]
  BY <1>1, <1>4, <1>5
<1>7. full[Len(s) + 2] = Quote
  BY <1>1, <1>4, <1>5
<1>8. full[Len(s) + 3] = Other /\ full[Len(s) + 4] = Other
  BY <1>1, <1>2, <1>4, <1>5, SMTT(30)
<1> QED
  BY <1>4, <1>5, <1>6, <1>7, <1>8 DEF full, closed

\* The place in the statement where the first i characters of a text have been read.
At(text, i) == Len(Escaped(text)[i]) + 2

\* There the next one comes, twice if it is a quote, and at the end a single quote and the
\* rest of the statement.
LEMMA LiteralIs ==
    ASSUME NEW text \in Seq(Characters)
    PROVE  /\ Literal(text) \in Seq(Characters)
           /\ Len(Literal(text)) = At(text, Len(text)) + 2
           /\ \A i \in 0..Len(text) : At(text, i) \in 2..At(text, Len(text))
           /\ \A i \in 1..Len(text) :
                 /\ At(text, i) = At(text, i - 1) + (IF text[i] = Quote THEN 2 ELSE 1)
                 /\ Literal(text)[At(text, i - 1)] = text[i]
                 /\ text[i] = Quote => Literal(text)[At(text, i - 1) + 1] = Quote
           /\ Literal(text)[At(text, Len(text))] = Quote
           /\ Literal(text)[At(text, Len(text)) + 1] = Other
           /\ Literal(text)[At(text, Len(text)) + 2] = Other
<1> DEFINE e == Escaped(text)
           here(i) == Len(e[i]) + 2
           full == Literal(text)
           n == Len(text)
<1>1. n \in Nat
  BY LenProperties
<1>2. \A i \in 0..n : e[i] \in Seq(Characters) /\ Len(e[i]) \in Nat
  BY EscapedType, LenProperties
<1>3. \A i \in 0..n : /\ Len(e[i]) =< Len(e[n])
                      /\ \A p \in 1..Len(e[i]) : e[n][p] = e[i][p]
  BY <1>1, EscapedGrows
<1>4. /\ full \in Seq(Characters) /\ Len(full) = Len(e[n]) + 4
      /\ \A p \in 1..Len(e[n]) : full[p + 1] = e[n][p]
      /\ full[Len(e[n]) + 2] = Quote
      /\ full[Len(e[n]) + 3] = Other /\ full[Len(e[n]) + 4] = Other
  <2>1. full = <<Quote>> \o e[n] \o <<Quote>> \o Rest
    BY DEF Literal, EscapeSingleQuotes
  <2>2. e[n] \in Seq(Characters)
    BY <1>1, <1>2
  <2> HIDE DEF e, full
  <2> QED
    BY <2>1, <2>2, BetweenQuotes
<1>5. \A i \in 1..n :
         /\ Len(e[i]) = Len(e[i - 1]) + (IF text[i] = Quote THEN 2 ELSE 1)
         /\ e[i][Len(e[i - 1]) + 1] = text[i]
         /\ text[i] = Quote => e[i][Len(e[i - 1]) + 2] = Quote
  BY EscapedStep
<1> HIDE DEF e, full
<1>6. \A i \in 0..n : here(i) \in 2..here(n)
  BY <1>1, <1>2, <1>3
<1>7. ASSUME NEW i \in 1..n
      PROVE  /\ here(i) = here(i - 1) + (IF text[i] = Quote THEN 2 ELSE 1)
             /\ full[here(i - 1)] = text[i]
             /\ text[i] = Quote => full[here(i - 1) + 1] = Quote
  <2>1. i - 1 \in 0..n /\ i \in 0..n
    BY <1>1
  <2> DEFINE a == Len(e[i - 1])
             b == Len(e[i])
  <2>2. a \in Nat /\ b \in Nat /\ b =< Len(e[n]) /\ Len(e[n]) \in Nat
    BY <1>1, <1>2, <1>3, <2>1
  <2>3. /\ b = a + (IF text[i] = Quote THEN 2 ELSE 1)
        /\ e[i][a + 1] = text[i]
        /\ text[i] = Quote => e[i][a + 2] = Quote
    BY <1>5
  <2>4. \A p \in 1..b : full[p + 1] = e[i][p]
    <3> TAKE p \in 1..b
    <3>1. p \in 1..Len(e[n]) /\ p \in 1..Len(e[i])
      BY <2>2
    <3>2. full[p + 1] = e[n][p]
      BY <1>4, <3>1
    <3>3. e[n][p] = e[i][p]
      BY <1>3, <2>1, <3>1
    <3> QED
      BY <3>2, <3>3
  <2> HIDE DEF a, b
  <2>5. full[a + 2] = text[i]
    <3>1. a + 1 \in 1..b
      BY <2>2, <2>3
    <3>2. full[(a + 1) + 1] = e[i][a + 1]
      BY <2>4, <3>1
    <3> QED
      BY <2>2, <2>3, <3>2
  <2>6. text[i] = Quote => full[a + 3] = Quote
    <3> SUFFICES ASSUME text[i] = Quote PROVE full[a + 3] = Quote
      OBVIOUS
    <3>1. a + 2 \in 1..b
      BY <2>2, <2>3
    <3>2. full[(a + 2) + 1] = e[i][a + 2]
      BY <2>4, <3>1
    <3> QED
      BY <2>2, <2>3, <3>2
  <2>7. here(i - 1) = a + 2 /\ here(i) = b + 2 /\ here(i - 1) + 1 = a + 3
    BY <2>2 DEF a, b
  <2>8. b + 2 = (a + 2) + (IF text[i] = Quote THEN 2 ELSE 1)
    BY <2>2, <2>3
  <2> HIDE DEF here
  <2> QED
    BY <2>5, <2>6, <2>7, <2>8
<1>8. here(n) + 2 = Len(e[n]) + 4 /\ here(n) + 1 = Len(e[n]) + 3
  BY <1>1, <1>2
<1> QED
  BY <1>4, <1>6, <1>7, <1>8 DEF At, e, full

\* What SQLite gets is the whole statement, or what comes before a zero character of it.
LEMMA CStringIs ==
    ASSUME NEW s \in Seq(Characters)
    PROVE  \/ CString(s) = s
           \/ \E k \in 1..Len(s) : s[k] = Nul /\ CString(s) = SubSeq(s, 1, k - 1)
<1> DEFINE I == {i \in 1..Len(s) : s[i] = Nul}
<1>1. CASE I = {}
  <2>1. SelectInSeq(s, LAMBDA character : character = Nul) = 0
    BY <1>1 DEF SelectInSeq
  <2> QED
    BY <2>1 DEF CString
<1>2. CASE I # {}
  <2>1. SelectInSeq(s, LAMBDA character : character = Nul) = Min(I)
    BY <1>2 DEF SelectInSeq
  <2>2. I \subseteq Nat
    OBVIOUS
  <2>3. Min(I) \in I
    <3> HIDE DEF I
    <3> QED
      BY <1>2, <2>2, FirstIs DEF Min
  <2>4. Min(I) # 0
    BY <2>2, <2>3
  <2>5. CString(s) = SubSeq(s, 1, Min(I) - 1)
    BY <2>1, <2>4 DEF CString
  <2> QED
    BY <2>3, <2>5
<1> QED
  BY <1>1, <1>2

-----------------------------------------------------------------------------
(* The inductive invariant *)

TypeOK ==
    /\ handle_ \in BOOLEAN /\ call \in 0..MaxCalls /\ query \in Queries
    /\ sql \in Seq(Characters) /\ position \in Nat /\ value \in Seq(Characters)
    /\ stepped \in Nat
    /\ collected \in [Calls -> Seq(Calls \X Nat)]
    /\ returned \in [Calls -> {"none", "true", "false"}]
    /\ pc \in {"idle", "literal", "rows", "thrown"}

InExec == pc \in {"literal", "rows"}

\* SQLite has the statement, or the part of it before a zero character.
Gets(string) ==
    \/ sql = string
    \/ \E k \in 1..Len(string) : string[k] = Nul /\ sql = SubSeq(string, 1, k - 1)

\* The tokenizer stands where the first i characters of the text end, and has read these.
HasRead(i) ==
    /\ position = At(query.text, i)
    /\ Len(value) = i
    /\ \A j \in 1..i : value[j] = query.text[j]

LiteralInv ==
    pc = "literal" => Gets(Literal(query.text)) /\ \E i \in 0..Len(query.text) : HasRead(i)

\* The wrapper holds the callback of the call that runs, and a later one has left no trace.
CallInv ==
    /\ InExec => /\ call \in Calls /\ returned[call] = "none"
                 /\ callback_ = IF query.select THEN call ELSE NoCall
    /\ \A c \in Calls : c > call => collected[c] = <<>> /\ returned[c] = "none"

\* The callback of the call that runs has had the rows stepped over, and those only.
RowsInv ==
    InExec =>
        /\ stepped =< query.rows
        /\ pc = "literal" => stepped = 0
        /\ Len(collected[call]) = stepped
        /\ \A i \in 1..stepped : collected[call][i] = <<call, i>>

IInv == TypeOK /\ LiteralInv /\ CallInv /\ RowsInv
            /\ ReadsBack /\ RowsReachTheirCaller /\ TrueMeansAllRows

LEMMA TextType == ASSUME NEW q \in Queries PROVE q.text \in Seq(Characters)
<1>1. q.text \in SeqOf(Characters, MaxLength)
  BY DEF Queries
<1>2. PICK n \in 0..MaxLength : q.text \in [1..n -> Characters]
  BY <1>1 DEF SeqOf
<1>3. n \in Nat
  BY WrapperAssumption
<1> QED
  BY <1>2, <1>3

\* SQLite sees the characters of the statement, up to a zero character if not to its end.
LEMMA Seen ==
    ASSUME NEW full \in Seq(Characters), Gets(full)
    PROVE  /\ sql \in Seq(Characters) /\ Len(sql) =< Len(full)
           /\ \A p \in 1..Len(sql) : sql[p] = full[p]
           /\ sql = full \/ (Len(sql) < Len(full) /\ full[Len(sql) + 1] = Nul)
<1>0. Len(full) \in Nat
  BY LenProperties
<1>1. CASE sql = full
  BY <1>0, <1>1
<1>2. CASE sql # full
  <2>1. PICK k \in 1..Len(full) : full[k] = Nul /\ sql = SubSeq(full, 1, k - 1)
    BY <1>2 DEF Gets
  <2>2. k - 1 \in Int /\ \A p \in 1..k - 1 : full[p] \in Characters
    BY <1>0, ElementOfSeq
  <2>3. /\ sql \in Seq(Characters)
        /\ Len(sql) = IF 1 =< k - 1 THEN (k - 1) - 1 + 1 ELSE 0
        /\ \A p \in 1..(k - 1) - 1 + 1 : sql[p] = full[1 + p - 1]
    BY <2>1, <2>2, SubSeqProperties
  <2>4. Len(sql) = k - 1
    BY <1>0, <2>3
  <2>5. \A p \in 1..Len(sql) : sql[p] = full[p]
    BY <1>0, <2>3, <2>4
  <2>6. Len(sql) + 1 = k /\ Len(sql) < Len(full)
    BY <1>0, <2>4
  <2> QED
    BY <2>1, <2>3, <2>5, <2>6
<1> QED
  BY <1>1, <1>2

\* What the tokenizer sees where it stands after the first i characters of the text.
LEMMA Place ==
    ASSUME TypeOK, Gets(Literal(query.text)), NEW i \in 0..Len(query.text), HasRead(i)
    PROVE  LET text == query.text
               next == At(text, i + 1)
           IN  /\ text \in Seq(Characters) /\ Len(text) \in Nat
               /\ i < Len(text) /\ position =< Len(sql) =>
                     /\ Here = text[i + 1]
                     /\ next = position + (IF text[i + 1] = Quote THEN 2 ELSE 1)
                     /\ text[i + 1] = Quote => position < Len(sql) /\ sql[position + 1] = Quote
               /\ i = Len(text) /\ position =< Len(sql) =>
                     /\ Here = Quote /\ position < Len(sql) /\ sql[position + 1] # Quote
                     /\ SubSeq(sql, position + 1, Len(sql)) = Rest
<1> DEFINE text == query.text
           here(j) == At(text, j)
           full == Literal(text)
           n == Len(text)
<1>1. text \in Seq(Characters) /\ n \in Nat /\ i \in Nat
  <2>1. query \in Queries
    BY DEF TypeOK
  <2>2. text \in Seq(Characters)
    BY <2>1, TextType
  <2>3. n \in Nat
    BY <2>2, LenProperties
  <2> QED
    BY <2>2, <2>3
<1>2. /\ full \in Seq(Characters) /\ Len(full) = here(n) + 2
      /\ \A j \in 0..n : here(j) \in 2..here(n)
      /\ \A j \in 1..n :
            /\ here(j) = here(j - 1) + (IF text[j] = Quote THEN 2 ELSE 1)
            /\ full[here(j - 1)] = text[j]
            /\ text[j] = Quote => full[here(j - 1) + 1] = Quote
      /\ full[here(n)] = Quote
      /\ full[here(n) + 1] = Other /\ full[here(n) + 2] = Other
  <2> HIDE DEF text
  <2>1. full \in Seq(Characters) /\ Len(full) = here(n) + 2
    BY <1>1, LiteralIs
  <2>2. \A j \in 0..n : here(j) \in 2..here(n)
    BY <1>1, LiteralIs
  <2>3. \A j \in 1..n :
            /\ here(j) = here(j - 1) + (IF text[j] = Quote THEN 2 ELSE 1)
            /\ full[here(j - 1)] = text[j]
            /\ text[j] = Quote => full[here(j - 1) + 1] = Quote
    BY <1>1, LiteralIs
  <2>4. full[here(n)] = Quote /\ full[here(n) + 1] = Other /\ full[here(n) + 2] = Other
    BY <1>1, LiteralIs
  <2> HIDE DEF here, full, n
  <2> QED
    BY <2>1, <2>2, <2>3, <2>4
<1>3. /\ sql \in Seq(Characters) /\ Len(sql) =< Len(full)
      /\ \A p \in 1..Len(sql) : sql[p] = full[p]
      /\ sql = full \/ (Len(sql) < Len(full) /\ full[Len(sql) + 1] = Nul)
  <2>1. Gets(full)
    OBVIOUS
  <2> HIDE DEF full
  <2> QED
    BY <1>2, <2>1, Seen
<1>4. position = here(i) /\ here(i) \in Nat /\ here(i) >= 2 /\ here(n) \in Nat /\ Len(sql) \in Nat
  <2>1. here(i) \in 2..here(n) /\ here(n) \in 2..here(n)
    BY <1>1, <1>2
  <2>2. Len(Escaped(text)[n]) \in Nat
    <3>1. n \in 0..Len(text)
      BY <1>1
    <3> HIDE DEF text, n
    <3> QED
      BY <1>1, <3>1, EscapedType, LenProperties
  <2>3. here(n) \in Nat
    BY <2>2 DEF At
  <2> HIDE DEF here, n
  <2> QED
    BY <1>3, <2>1, <2>3, LenProperties DEF HasRead, here
<1>5. position =< Len(sql) => Here = full[position]
  BY <1>3, <1>4 DEF Here
<1>6. ASSUME i < n, position =< Len(sql)
      PROVE  /\ Here = text[i + 1]
             /\ here(i + 1) = position + (IF text[i + 1] = Quote THEN 2 ELSE 1)
             /\ text[i + 1] = Quote => position < Len(sql) /\ sql[position + 1] = Quote
  <2>1. i + 1 \in 1..n /\ i = (i + 1) - 1
    BY <1>1, <1>6
  <2>2. /\ here(i + 1) = here(i) + (IF text[i + 1] = Quote THEN 2 ELSE 1)
        /\ full[here(i)] = text[i + 1]
        /\ text[i + 1] = Quote => full[here(i) + 1] = Quote
    <3> HIDE DEF here, full, n, text
    <3> QED
      BY <1>2, <2>1
  <2>3. here(i + 1) =< here(n)
    BY <1>1, <1>2, <2>1
  <2> HIDE DEF here, full, n, text
  <2>4. ASSUME text[i + 1] = Quote PROVE position < Len(sql) /\ sql[position + 1] = Quote
    <3>1. full[position + 1] = Quote
      BY <1>4, <2>2, <2>4
    <3>2. position + 2 =< here(n)
      BY <1>4, <2>2, <2>3, <2>4
    <3>3. position # Len(sql)
      BY <1>2, <1>3, <1>4, <3>1, <3>2, WrapperAssumption
    <3>4. position < Len(sql)
      BY <1>4, <1>6, <3>3
    <3>5. position + 1 \in 1..Len(sql)
      BY <1>4, <3>4
    <3> QED
      BY <1>3, <3>1, <3>4, <3>5
  <2> QED
    BY <1>4, <1>5, <1>6, <2>2, <2>4
<1>7. ASSUME i = n, position =< Len(sql)
      PROVE  /\ Here = Quote /\ position < Len(sql) /\ sql[position + 1] # Quote
             /\ SubSeq(sql, position + 1, Len(sql)) = Rest
  <2>1. position = here(n)
    BY <1>4, <1>7
  <2> HIDE DEF here, full, n, text
  <2>2. Here = Quote
    BY <1>2, <1>5, <1>7, <2>1
  <2>3. Len(sql) # here(n) /\ Len(sql) # here(n) + 1
    BY <1>2, <1>3, <1>4, WrapperAssumption
  <2>4. sql = full /\ Len(sql) = here(n) + 2
    BY <1>2, <1>3, <1>4, <1>7, <2>1, <2>3
  <2>5. sql[position + 1] = Other /\ sql[position + 2] = Other /\ Len(sql) = position + 2
    BY <1>2, <2>1, <2>4
  <2>6. SubSeq(sql, position + 1, Len(sql)) = Rest
    <3> DEFINE after == SubSeq(sql, position + 1, Len(sql))
    <3>1. \A p \in position + 1..Len(sql) : sql[p] \in Characters
      BY <1>3, <1>4, ElementOfSeq
    <3>2. /\ after \in Seq(Characters) /\ Len(after) = 2
          /\ after[1] = sql[position + 1] /\ after[2] = sql[position + 2]
      BY <1>4, <2>5, <3>1, SubSeqProperties
    <3>3. Rest \in Seq(Characters) /\ Len(Rest) = 2 /\ Rest[1] = Other /\ Rest[2] = Other
      BY WrapperAssumption DEF Rest
    <3> HIDE DEF after
    <3>4. \A p \in 1..2 : after[p] = Rest[p]
      BY <2>5, <3>2, <3>3
    <3>5. after = Rest
      BY <3>2, <3>3, <3>4, SeqEqual
    <3> QED
      BY <3>5 DEF after
  <2> QED
    BY <1>4, <2>1, <2>2, <2>5, <2>6, WrapperAssumption
<1> QED
  BY <1>1, <1>6, <1>7

LEMMA Starts == Init => IInv
<1> SUFFICES ASSUME Init PROVE IInv
  OBVIOUS
<1>1. NoQuery \in Queries
  <2>1. <<>> \in [1..0 -> Characters] /\ 0 \in 0..MaxLength /\ 0 \in 0..MaxRows
    BY WrapperAssumption
  <2> QED
    BY <2>1 DEF NoQuery, Queries, SeqOf
<1>2. TypeOK
  <2>1. /\ sql = <<>> /\ value = <<>> /\ collected = [c \in Calls |-> <<>>]
        /\ returned = [c \in Calls |-> "none"] /\ query = NoQuery
        /\ handle_ = FALSE /\ call = 0 /\ position = 1 /\ stepped = 0 /\ pc = "idle"
    BY DEF Init
  <2>2. <<>> \in Seq(Characters) /\ <<>> \in Seq(Calls \X Nat)
    BY EmptySeq
  <2>3. collected \in [Calls -> Seq(Calls \X Nat)]
    BY <2>1, <2>2
  <2>4. returned \in [Calls -> {"none", "true", "false"}]
    BY <2>1
  <2>5. 0 \in 0..MaxCalls
    BY WrapperAssumption
  <2> QED
    BY <1>1, <2>1, <2>2, <2>3, <2>4, <2>5 DEF TypeOK
<1>3. pc = "idle" /\ call = 0 /\ \A c \in Calls : collected[c] = <<>> /\ returned[c] = "none"
  BY DEF Init
<1>4. CallInv
  BY <1>3 DEF CallInv, InExec
<1>5. RowsReachTheirCaller
  <2>1. DOMAIN <<>> = {}
    OBVIOUS
  <2> QED
    BY <1>3, <2>1 DEF RowsReachTheirCaller
<1>6. LiteralInv /\ RowsInv /\ ReadsBack
  BY <1>3 DEF LiteralInv, RowsInv, InExec, ReadsBack
<1>7. TrueMeansAllRows
  <2>1. ~(call > 0)
    BY <1>3
  <2> QED
    BY <2>1, Zenon DEF TrueMeansAllRows
<1> QED
  BY <1>2, <1>4, <1>5, <1>6, <1>7 DEF IInv

\* Opening and closing the connection concern no call.
LEMMA IdleStays == IInv /\ (Open \/ Close \/ UNCHANGED vars) => IInv'
<1> SUFFICES ASSUME IInv, Open \/ Close \/ UNCHANGED vars PROVE IInv'
  OBVIOUS
<1>1. /\ handle_' \in BOOLEAN
      /\ UNCHANGED <<callback_, call, query, sql, position, value, stepped, collected,
                     returned, pc>>
  BY DEF Open, Close, vars, IInv, TypeOK
<1>2. TypeOK' /\ LiteralInv' /\ CallInv' /\ RowsInv'
  BY <1>1 DEF IInv, TypeOK, LiteralInv, Gets, HasRead, CallInv, RowsInv, InExec
<1>3. ReadsBack' /\ RowsReachTheirCaller' /\ TrueMeansAllRows'
  BY <1>1 DEF IInv, ReadsBack, AsWritten, RowsReachTheirCaller, TrueMeansAllRows
<1> QED
  BY <1>2, <1>3 DEF IInv

LEMMA ExecStays == ASSUME IInv, NEW q \in Queries, Exec(q) PROVE IInv'
<1>0. /\ TypeOK /\ pc = "idle" /\ call \in Nat /\ call' = call + 1 /\ call' \in Calls
      /\ call' # NoCall /\ call \in 0..MaxCalls /\ Calls \subseteq Nat
  <2>1. pc = "idle" /\ call < MaxCalls /\ call' = call + 1
    BY DEF Exec
  <2>2. TypeOK /\ call \in 0..MaxCalls
    BY DEF IInv, TypeOK
  <2> QED
    BY <2>1, <2>2, WrapperAssumption DEF Calls, NoCall
<1>a. \A c \in Calls : c >= call' => collected[c] = <<>> /\ returned[c] = "none"
  <2>1. \A c \in Calls : c > call => collected[c] = <<>> /\ returned[c] = "none"
    BY DEF IInv, CallInv
  <2> SUFFICES ASSUME NEW c \in Calls, c >= call' PROVE collected[c] = <<>> /\ returned[c] = "none"
    OBVIOUS
  <2>2. c > call
    BY <1>0
  <2> QED
    BY <2>1, <2>2
<1>b. \A c \in Calls : c > call' => returned'[c] = returned[c]
  <2>1. returned' = returned \/ returned' = [returned EXCEPT ![call'] = "false"]
    BY DEF Exec
  <2> QED
    BY <1>0, <2>1 DEF TypeOK
<1> USE DEF Exec
<1>1. q.text \in Seq(Characters)
  BY TextType
<1>2. Literal(q.text) \in Seq(Characters)
  BY <1>1, LiteralIs
<1>3. Gets(Literal(query.text))'
  <2>1. sql' = CString(Literal(q.text)) /\ query' = q
    OBVIOUS
  <2>2. \/ sql' = Literal(q.text)
        \/ \E k \in 1..Len(Literal(q.text)) :
              Literal(q.text)[k] = Nul /\ sql' = SubSeq(Literal(q.text), 1, k - 1)
    BY <1>2, <2>1, CStringIs
  <2> QED
    BY <2>1, <2>2 DEF Gets
<1>4. sql' \in Seq(Characters)
  <2>1. CString(Literal(q.text)) \in Seq(Characters)
    <3> DEFINE full == Literal(q.text)
    <3>1. CASE CString(full) = full
      BY <1>2, <3>1
    <3>2. CASE CString(full) # full
      <4>1. PICK k \in 1..Len(full) : CString(full) = SubSeq(full, 1, k - 1)
        BY <1>2, <3>2, CStringIs
      <4>2. k - 1 \in Int /\ \A p \in 1..k - 1 : full[p] \in Characters
        BY <1>2, ElementOfSeq, LenProperties
      <4> QED
        BY <4>1, <4>2, SubSeqProperties
    <3> QED
      BY <3>1, <3>2
  <2> QED
    BY <2>1
<1>5. TypeOK'
  <2>1. returned' \in [Calls -> {"none", "true", "false"}] /\ pc' \in {"idle", "literal"}
    BY <1>0 DEF TypeOK
  <2>2. value' = <<>> /\ value' \in Seq(Characters) /\ call' \in 0..MaxCalls
    BY <1>0, EmptySeq DEF Calls
  <2> QED
    BY <1>0, <1>4, <2>1, <2>2 DEF TypeOK
<1>6. LiteralInv'
  <2>1. HasRead(0)'
    <3>1. position' = 2 /\ value' = <<>> /\ query' = q
      OBVIOUS
    <3>2. Escaped(q.text)[0] = <<>>
      BY <1>1, EscapedRounds
    <3>3. At(q.text, 0) = 2
      BY <3>2 DEF At
    <3> QED
      BY <3>1, <3>3 DEF HasRead
  <2>2. 0 \in 0..Len(query'.text)
    BY <1>1, LenProperties
  <2> QED
    BY <1>3, <2>1, <2>2 DEF LiteralInv
<1>7. CallInv'
  <2>1. returned[call'] = "none"
    BY <1>0, <1>a
  <2>2. callback_' = IF query'.select THEN call' ELSE NoCall
    BY DEF Stored
  <2>3. \A c \in Calls : c > call' => collected'[c] = <<>> /\ returned'[c] = "none"
    BY <1>0, <1>a, <1>b
  <2> QED
    BY <1>0, <2>1, <2>2, <2>3 DEF CallInv, InExec
<1>8. RowsInv'
  <2>1. collected'[call'] = <<>>
    BY <1>0, <1>a
  <2>2. q.rows \in Nat
    BY WrapperAssumption DEF Queries
  <2> QED
    BY <1>0, <2>1, <2>2 DEF RowsInv, InExec
<1>9. ReadsBack'
  BY DEF ReadsBack
<1>10. RowsReachTheirCaller' 
  BY DEF IInv, RowsReachTheirCaller
<1>11. TrueMeansAllRows'
  <2>1. returned'[call'] # "true"
    <3>1. returned[call'] = "none"
      BY <1>0, <1>a
    <3> QED
      BY <1>0, <3>1 DEF TypeOK
  <2> QED
    BY <2>1 DEF TrueMeansAllRows
<1> QED
  BY <1>5, <1>6, <1>7, <1>8, <1>9, <1>10, <1>11 DEF IInv

\* A step of the tokenizer within the literal leaves the callbacks alone.
LEMMA ReadingStays ==
    ASSUME IInv, ReadPair \/ ReadCharacter PROVE IInv'
<1>0. /\ TypeOK /\ pc = "literal" /\ Gets(Literal(query.text)) /\ position =< Len(sql)
      /\ UNCHANGED <<handle_, callback_, call, query, sql, stepped, collected, returned, pc>>
  <2>1. position \in Nat /\ Len(sql) \in Nat
    BY LenProperties DEF IInv, TypeOK
  <2> QED
    BY <2>1 DEF IInv, LiteralInv, ReadPair, ReadCharacter
<1>1. PICK i \in 0..Len(query.text) : HasRead(i)
  BY <1>0 DEF IInv, LiteralInv
<1> DEFINE text == query.text
           n == Len(text)
<1>2. /\ text \in Seq(Characters) /\ n \in Nat
      /\ i < n => /\ Here = text[i + 1]
                  /\ At(text, i + 1) = position + (IF text[i + 1] = Quote THEN 2 ELSE 1)
                  /\ text[i + 1] = Quote => sql[position + 1] = Quote
      /\ i = n => Here = Quote /\ sql[position + 1] # Quote
  BY <1>0, <1>1, Place
<1> HIDE DEF text
<1>3. i < n
  <2>1. i \in 0..n
    BY DEF text
  <2>2. i # n
    BY <1>2 DEF ReadPair, ReadCharacter
  <2> QED
    BY <1>2, <2>1, <2>2
<1>4. i + 1 \in 0..n /\ i \in Nat /\ i + 1 \in 1..n
  BY <1>2, <1>3 DEF text
<1>5. value' = Append(value, text[i + 1]) /\ position' = At(text, i + 1)
  <2>1. CASE ReadPair
    BY <1>2, <1>3, <2>1 DEF ReadPair
  <2>2. CASE ReadCharacter
    BY <1>2, <1>3, <2>2 DEF ReadCharacter
  <2> QED
    BY <2>1, <2>2
<1>6. value \in Seq(Characters) /\ Len(value) = i /\ \A j \in 1..i : value[j] = text[j]
  BY <1>0, <1>1 DEF TypeOK, HasRead, text
<1>7. text[i + 1] \in Characters
  BY <1>2, <1>4, ElementOfSeq
<1>8. /\ value' \in Seq(Characters) /\ Len(value') = i + 1
      /\ \A j \in 1..i : value'[j] = value[j]
      /\ value'[i + 1] = text[i + 1]
  BY <1>5, <1>6, <1>7, AppendProperties
<1>9. \A j \in 1..i + 1 : value'[j] = text[j]
  BY <1>4, <1>6, <1>8
<1>10. query' = query
  BY <1>0
<1>11. HasRead(i + 1)'
  BY <1>5, <1>8, <1>9, <1>10 DEF HasRead, text
<1>12. LiteralInv'
  BY <1>0, <1>4, <1>11 DEF LiteralInv, Gets, text
<1>13. position' \in Nat
  BY <1>0 DEF ReadPair, ReadCharacter, TypeOK
<1>14. TypeOK'
  BY <1>0, <1>8, <1>13 DEF TypeOK
<1>15. CallInv' /\ RowsInv'
  BY <1>0 DEF IInv, CallInv, RowsInv, InExec
<1>16. ReadsBack' /\ RowsReachTheirCaller' /\ TrueMeansAllRows'
  BY <1>0 DEF IInv, ReadsBack, RowsReachTheirCaller, TrueMeansAllRows
<1> QED
  BY <1>12, <1>14, <1>15, <1>16 DEF IInv

\* The quote that ends the literal is the one that was put at its end.
LEMMA EndStays == IInv /\ ReadEnd => IInv'
<1> SUFFICES ASSUME IInv, ReadEnd PROVE IInv'
  OBVIOUS
<1>0. /\ TypeOK /\ pc = "literal" /\ pc' = "rows"
      /\ position' = position + 1 /\ position \in Nat /\ Len(sql) \in Nat
      /\ Gets(Literal(query.text)) /\ position =< Len(sql)
      /\ Here = Quote /\ (position < Len(sql) => sql[position + 1] # Quote)
      /\ UNCHANGED <<handle_, callback_, call, query, sql, value, stepped, collected, returned>>
  <2>1. position \in Nat /\ Len(sql) \in Nat
    BY LenProperties DEF IInv, TypeOK
  <2> QED
    BY <2>1 DEF IInv, LiteralInv, ReadEnd
<1>1. PICK i \in 0..Len(query.text) : HasRead(i)
  BY <1>0 DEF IInv, LiteralInv
<1> DEFINE text == query.text
           n == Len(text)
<1>2. /\ text \in Seq(Characters) /\ n \in Nat
      /\ i < n => /\ Here = text[i + 1]
                  /\ text[i + 1] = Quote => position < Len(sql) /\ sql[position + 1] = Quote
      /\ i = n => SubSeq(sql, position + 1, Len(sql)) = Rest
  BY <1>0, <1>1, Place
<1>3. i = n
  <2>1. ~(i < n)
    BY <1>0, <1>2
  <2> QED
    BY <1>2, <2>1
<1>4. value = text
  <2>1. value \in Seq(Characters) /\ Len(value) = n /\ \A j \in 1..n : value[j] = text[j]
    BY <1>0, <1>1, <1>3 DEF TypeOK, HasRead
  <2> HIDE DEF text
  <2> QED
    BY <1>2, <2>1, SeqEqual
<1>5. ReadsBack'
  BY <1>0, <1>2, <1>3, <1>4 DEF ReadsBack, AsWritten
<1>6. TypeOK'
  BY <1>0 DEF TypeOK
<1>7. LiteralInv'
  BY <1>0 DEF LiteralInv
<1>8. CallInv' /\ RowsInv'
  BY <1>0 DEF IInv, CallInv, RowsInv, InExec
<1>9. RowsReachTheirCaller' /\ TrueMeansAllRows'
  BY <1>0 DEF IInv, RowsReachTheirCaller, TrueMeansAllRows
<1> QED
  BY <1>5, <1>6, <1>7, <1>8, <1>9 DEF IInv

\* An exec that SQLite gives up returns false.
LEMMA FailureStays == IInv /\ (Unterminated \/ StepFails) => IInv'
<1> SUFFICES ASSUME IInv, Unterminated \/ StepFails PROVE IInv'
  OBVIOUS
<1>0. /\ TypeOK /\ InExec /\ pc' = "idle" /\ returned' = [returned EXCEPT ![call] = "false"]
      /\ UNCHANGED <<handle_, callback_, call, query, sql, position, value, stepped, collected>>
  BY DEF IInv, Unterminated, StepFails, Return, InExec
<1>1. call \in Calls /\ returned'[call] = "false" /\ Calls \subseteq Nat
  BY <1>0, WrapperAssumption DEF IInv, CallInv, TypeOK, Calls
<1>2. TypeOK'
  <2>1. returned' \in [Calls -> {"none", "true", "false"}]
    BY <1>0 DEF TypeOK
  <2> QED
    BY <1>0, <2>1 DEF TypeOK
<1>3. CallInv'
  <2>1. \A c \in Calls : c > call => returned'[c] = returned[c]
    BY <1>0, <1>1 DEF TypeOK
  <2> QED
    BY <1>0, <2>1 DEF IInv, CallInv, InExec
<1>4. LiteralInv' /\ RowsInv' /\ ReadsBack'
  BY <1>0 DEF LiteralInv, RowsInv, InExec, ReadsBack
<1>5. RowsReachTheirCaller'
  BY <1>0 DEF IInv, RowsReachTheirCaller
<1>6. TrueMeansAllRows'
  BY <1>0, <1>1 DEF TrueMeansAllRows
<1> QED
  BY <1>2, <1>3, <1>4, <1>5, <1>6 DEF IInv

\* Only a SELECT has rows, and the callback of its call gets the next one.
LEMMA RowStays == IInv /\ RowReturned => IInv'
<1> SUFFICES ASSUME IInv, RowReturned PROVE IInv'
  OBVIOUS
<1>0. /\ TypeOK /\ pc = "rows" /\ stepped' = stepped + 1 /\ stepped < query.rows /\ query.select
      /\ UNCHANGED <<handle_, callback_, call, query, sql, position, value>>
  BY DEF IInv, ReadsBack, RowReturned, HasRow
<1>1. /\ callback_ = call /\ call \in Calls /\ call # NoCall /\ Calls \subseteq Nat
      /\ Len(collected[call]) = stepped /\ stepped \in Nat /\ query.rows \in Nat
      /\ \A i \in 1..stepped : collected[call][i] = <<call, i>>
  <2>1. call \in Calls /\ callback_ = call
    BY <1>0 DEF IInv, CallInv, InExec
  <2>2. call # NoCall /\ Calls \subseteq Nat
    BY <2>1, WrapperAssumption DEF Calls, NoCall
  <2>3. query.rows \in Nat /\ stepped \in Nat
    BY <1>0, WrapperAssumption DEF TypeOK, Queries
  <2> QED
    BY <1>0, <2>1, <2>2, <2>3 DEF IInv, RowsInv, InExec
<1>2. /\ collected' = [collected EXCEPT ![call] = Append(@, <<call, stepped + 1>>)]
      /\ UNCHANGED <<returned, pc>>
  BY <1>0, <1>1 DEF RowReturned, Aborts, StopAsked
<1>3. collected \in [Calls -> Seq(Calls \X Nat)] /\ collected[call] \in Seq(Calls \X Nat)
  BY <1>0, <1>1 DEF TypeOK
<1>4. <<call, stepped + 1>> \in Calls \X Nat
  BY <1>1
<1> DEFINE before == collected[call]
           after == Append(before, <<call, stepped + 1>>)
<1>5. /\ after \in Seq(Calls \X Nat) /\ Len(after) = stepped + 1
      /\ \A i \in 1..stepped : after[i] = before[i]
      /\ after[stepped + 1] = <<call, stepped + 1>>
  <2> HIDE DEF before
  <2>1. before \in Seq(Calls \X Nat) /\ Len(before) = stepped
    BY <1>1, <1>3 DEF before
  <2> QED
    BY <1>4, <2>1, AppendProperties
<1>6. collected'[call] = after /\ \A c \in Calls \ {call} : collected'[c] = collected[c]
  BY <1>1, <1>2, <1>3
<1>7. \A i \in 1..stepped + 1 : after[i] = <<call, i>>
  <2> HIDE DEF after
  <2> QED
    BY <1>1, <1>5
<1> HIDE DEF before, after
<1>8. TypeOK'
  <2>1. collected' \in [Calls -> Seq(Calls \X Nat)]
    BY <1>1, <1>2, <1>3, <1>5 DEF before, after
  <2> QED
    BY <1>0, <1>1, <1>2, <2>1 DEF TypeOK
<1>9. LiteralInv' /\ ReadsBack'
  BY <1>0, <1>2 DEF IInv, LiteralInv, ReadsBack, AsWritten
<1>10. CallInv'
  <2>1. \A c \in Calls : c > call => collected'[c] = collected[c]
    BY <1>1, <1>6
  <2> QED
    BY <1>0, <1>2, <2>1 DEF IInv, CallInv, InExec
<1>11. RowsInv'
  BY <1>0, <1>1, <1>2, <1>5, <1>6, <1>7 DEF RowsInv, InExec
<1>12. RowsReachTheirCaller'
  <2>1. \A c \in Calls \ {call} : \A i \in DOMAIN collected'[c] : collected'[c][i][1] = c
    BY <1>6 DEF IInv, RowsReachTheirCaller
  <2>2. \A i \in DOMAIN after : after[i][1] = call
    BY <1>5, <1>7, LenProperties
  <2> QED
    BY <1>0, <1>2, <1>6, <2>1, <2>2 DEF RowsReachTheirCaller
<1>13. TrueMeansAllRows'
  <2>1. returned'[call'] = "none"
    BY <1>0, <1>2 DEF IInv, CallInv, InExec
  <2> QED
    BY <2>1 DEF TrueMeansAllRows
<1> QED
  BY <1>8, <1>9, <1>10, <1>11, <1>12, <1>13 DEF IInv

\* A SELECT is done when the callback has had all its rows.
LEMMA DoneStays == IInv /\ ExecDone => IInv'
<1> SUFFICES ASSUME IInv, ExecDone PROVE IInv'
  OBVIOUS
<1>0. /\ TypeOK /\ pc = "rows" /\ pc' = "idle" /\ returned' = [returned EXCEPT ![call] = "true"]
      /\ query.select => ~(stepped < query.rows)
      /\ UNCHANGED <<handle_, callback_, call, query, sql, position, value, stepped, collected>>
  BY DEF IInv, ExecDone, Return, HasRow
<1>1. call \in Calls /\ Calls \subseteq Nat
  BY <1>0, WrapperAssumption DEF IInv, CallInv, InExec, Calls
<1>2. TypeOK'
  <2>1. returned' \in [Calls -> {"none", "true", "false"}]
    BY <1>0 DEF TypeOK
  <2> QED
    BY <1>0, <2>1 DEF TypeOK
<1>3. CallInv'
  <2>1. \A c \in Calls : c > call => returned'[c] = returned[c]
    BY <1>0, <1>1 DEF TypeOK
  <2> QED
    BY <1>0, <2>1 DEF IInv, CallInv, InExec
<1>4. LiteralInv' /\ RowsInv' /\ ReadsBack'
  BY <1>0 DEF LiteralInv, RowsInv, InExec, ReadsBack
<1>5. RowsReachTheirCaller'
  BY <1>0 DEF IInv, RowsReachTheirCaller
<1>6. TrueMeansAllRows'
  <2> SUFFICES ASSUME query.select
               PROVE  collected[call] = [i \in 1..query.rows |-> <<call, i>>]
    BY <1>0 DEF TrueMeansAllRows
  <2> DEFINE rows == collected[call]
  <2>1. stepped = query.rows
    <3>1. stepped =< query.rows /\ stepped \in Nat /\ query.rows \in Nat
      BY <1>0, WrapperAssumption DEF IInv, RowsInv, InExec, TypeOK, Queries
    <3> QED
      BY <1>0, <3>1
  <2>2. rows \in Seq(Calls \X Nat) /\ Len(rows) = query.rows
        /\ \A i \in 1..query.rows : rows[i] = <<call, i>>
    BY <1>0, <1>1, <2>1 DEF IInv, RowsInv, InExec, TypeOK
  <2> HIDE DEF rows
  <2>3. rows \in [1..query.rows -> Calls \X Nat]
    BY <2>2, LenProperties
  <2>4. rows = [i \in 1..query.rows |-> <<call, i>>]
    BY <2>2, <2>3
  <2> QED
    BY <2>4 DEF rows
<1> QED
  BY <1>2, <1>3, <1>4, <1>5, <1>6 DEF IInv

\* The invariant holds in every behaviour of the wrapper.
THEOREM WrapperInvariance == Spec => []IInv
<1>1. IInv /\ [Next]_vars => IInv'
  BY IdleStays, ExecStays, ReadingStays, EndStays, FailureStays, RowStays, DoneStays DEF Next
<1> QED
  BY Starts, <1>1, PTL DEF Spec

\* For every text, of any length: the literal EscapeSingleQuotes makes of it is read back
\* as the text (Tools.cpp:27-38), or the statement is refused.
THEOREM LiteralsReadBack == Spec => []ReadsBack
<1>1. IInv => ReadsBack
  BY DEF IInv
<1> QED
  BY WrapperInvariance, <1>1, PTL

\* For any number of calls and rows: the callback a row reaches is that of the call whose
\* statement returned it, and it is never the empty one (Sqlite3Wrapper.cpp:60-61, 71-81).
THEOREM CallbacksAreOfTheirCall == Spec => []RowsReachTheirCaller
<1>1. IInv => RowsReachTheirCaller
  BY DEF IInv
<1> QED
  BY WrapperInvariance, <1>1, PTL

\* For any number of rows: an exec that returned true has handed over all of them, in order
\* (Sqlite3Wrapper.cpp:57-64).
THEOREM TrueIsComplete == Spec => []TrueMeansAllRows
<1>1. IInv => TrueMeansAllRows
  BY DEF IInv
<1> QED
  BY WrapperInvariance, <1>1, PTL

=============================================================================
