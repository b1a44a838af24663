--------------------------- MODULE Logging_proofs ---------------------------
(***************************************************************************)
(* Proofs about module Logging: its three safety properties, for any       *)
(* messages, places, times and environments.                               *)
(*                                                                         *)
(* First the functions: how a text is cut into tokens and filled in        *)
(* (ReplaceFirstWithEscape), what numbers, dates and names become in       *)
(* buffers of fixed size, what is left of the server's format once its     *)
(* date and level are taken out, and that the line built from it is the    *)
(* one the format describes (LineIsBuilt).  Then how a logger is           *)
(* configured: what a level has in the maps by level after Logger::Init,   *)
(* and which directories are made on the way to the log.  Last the steps:  *)
(* one invariant, LogInv, with a lemma per action, and what follows.       *)
(***************************************************************************)
EXTENDS Logging, SequenceTheorems, WellFoundedInduction, TLAPS

-----------------------------------------------------------------------------
(* Sequences *)

\* There is a first of any numbers.
LEMMA FirstIs ==
    ASSUME NEW numbers, numbers \subseteq Nat, numbers # {}
    PROVE  \E n \in numbers : \A k \in numbers : n =< k
<1>1. PICK n \in numbers : \A k \in numbers : ~(<<k, n>> \in OpToRel(<, Nat))
  BY NatLessThanWellFounded, WFMin
<1>2. \A k \in numbers : n =< k
  <2> SUFFICES ASSUME NEW k \in numbers PROVE n =< k
    OBVIOUS
  <2>1. ~(k < n)
    BY <1>1 DEF OpToRel
  <2> QED
    BY <2>1
<1> QED
  BY <1>2

\* The sequences put together so far, with what was put together before.
Joined(seqs, before_, i) == IF i = 1 THEN seqs[1] ELSE before_[i - 1] \o seqs[i]

\* FlattenSeq is what its parts make when they are put together one after the other.
LEMMA FlattenIs ==
    ASSUME NEW seqs, Len(seqs) \in Nat \ {0},
           NEW g, g = [i \in 1..Len(seqs) |-> Joined(seqs, g, i)]
    PROVE  FlattenSeq(seqs) = g[Len(seqs)]
<1> DEFINE n == Len(seqs)
           Is(f) == f = [i \in 1..n |-> IF i = 1 THEN seqs[i] ELSE f[i - 1] \o seqs[i]]
           f == CHOOSE f : Is(f)
<1>1. Is(g)
  <2>1. \A i \in 1..n : Joined(seqs, g, i) = IF i = 1 THEN seqs[i] ELSE g[i - 1] \o seqs[i]
    BY DEF Joined
  <2> QED
    BY <2>1
<1>2. Is(f)
  <2> HIDE DEF Is
  <2> QED
    BY <1>1
<1>3. FlattenSeq(seqs) = f[n]
  BY DEF FlattenSeq
<1> DEFINE differ == {i \in 1..n : f[i] # g[i]}
<1>4. differ = {}
  <2> SUFFICES ASSUME differ # {} PROVE FALSE
    OBVIOUS
  <2> HIDE DEF f
  <2>1. PICK i \in differ : \A k \in differ : i =< k
    <3>1. differ \subseteq Nat
      OBVIOUS
    <3> HIDE DEF differ
    <3> QED
      BY <3>1, FirstIs
  <2>2. i \in 1..n /\ f[i] # g[i]
    OBVIOUS
  <2>3. i # 1
    BY <1>1, <1>2, <2>2
  <2>4. i - 1 \in 1..n /\ f[i - 1] = g[i - 1]
    BY <2>1, <2>2, <2>3
  <2>5. f[i] = f[i - 1] \o seqs[i] /\ g[i] = g[i - 1] \o seqs[i]
    BY <1>1, <1>2, <2>2, <2>3
  <2> QED
    BY <2>2, <2>4, <2>5
<1> QED
  <2> HIDE DEF f
  <2>1. n \in 1..n
    OBVIOUS
  <2> QED
    BY <1>3, <1>4, <2>1

\* What is made step by step, each from the one before.
IsChain(g, n, V, base, step) ==
    g \in [0..n -> V] /\ g[0] = base /\ \A i \in 1..n : g[i] = step[i][g[i - 1]]

\* It is there for any number of steps.
LEMMA ChainExists ==
    ASSUME NEW n \in Nat, NEW V, NEW base \in V, NEW step \in [1..n -> [V -> V]]
    PROVE  \E g : IsChain(g, n, V, base, step)
<1> DEFINE Is(g, k) == g[0] = base /\ \A i \in 1..k : g[i] = step[i][g[i - 1]]
           bad == {k \in 0..n : ~\E g \in [0..k -> V] : Is(g, k)}
<1>1. bad = {}
  <2> SUFFICES ASSUME bad # {} PROVE FALSE
    OBVIOUS
  <2>1. PICK k \in bad : \A j \in bad : k =< j
    <3>1. bad \subseteq Nat
      OBVIOUS
    <3> HIDE DEF bad
    <3> QED
      BY <3>1, FirstIs
  <2>2. k \in 0..n /\ ~\E g \in [0..k -> V] : Is(g, k)
    OBVIOUS
  <2>3. CASE k = 0
    <3> DEFINE g == [i \in 0..0 |-> base]
    <3>1. g \in [0..0 -> V] /\ Is(g, 0)
      OBVIOUS
    <3> HIDE DEF g
    <3> QED
      BY <2>2, <2>3, <3>1
  <2>4. CASE k # 0
    <3>a. k - 1 \in 0..n /\ ~(k =< k - 1)
      BY <2>2, <2>4
    <3>1. k - 1 \in 0..n /\ k - 1 \notin bad
      <4> HIDE DEF bad
      <4> QED
        BY <2>1, <3>a
    <3>2. PICK h \in [0..(k - 1) -> V] : Is(h, k - 1)
      <4> HIDE DEF Is
      <4> QED
        BY <3>1
    <3> DEFINE g == [i \in 0..k |-> IF i = k THEN step[k][h[k - 1]] ELSE h[i]]
    <3>3. k \in 1..n /\ h[k - 1] \in V
      BY <2>2, <2>4, <3>2
    <3>4. g \in [0..k -> V]
      BY <3>2, <3>3
    <3>5. g[0] = base
      BY <3>2, <3>3
    <3>6. ASSUME NEW i \in 1..k PROVE g[i] = step[i][g[i - 1]]
      <4>1. i - 1 \in 0..k /\ i - 1 # k /\ g[i - 1] = h[i - 1] /\ i \in 0..k
        BY <3>3
      <4>2. CASE i = k
        BY <4>1, <4>2
      <4>3. CASE i # k
        <5>1. g[i] = h[i] /\ i \in 1..(k - 1)
          BY <3>3, <4>3
        <5>2. h[i] = step[i][h[i - 1]]
          BY <3>2, <5>1
        <5> QED
          BY <4>1, <5>1, <5>2
      <4> QED
        BY <4>2, <4>3
    <3> HIDE DEF g
    <3> QED
      BY <2>2, <3>4, <3>5, <3>6
  <2> QED
    BY <2>3, <2>4
<1>2. n \in 0..n
  OBVIOUS
<1>3. \E g \in [0..n -> V] : Is(g, n)
  BY <1>1, <1>2
<1> QED
  BY <1>3 DEF IsChain

\* The parts of a text make a text.
LEMMA FlattenType ==
    ASSUME NEW S, NEW seqs \in Seq(Seq(S))
    PROVE  FlattenSeq(seqs) \in Seq(S)
<1>1. Len(seqs) \in Nat
  BY LenProperties
<1>2. CASE Len(seqs) = 0
  <2>1. FlattenSeq(seqs) = seqs /\ seqs = <<>>
    BY <1>2, EmptySeq DEF FlattenSeq
  <2> QED
    BY <2>1
<1>3. CASE Len(seqs) # 0
  <2> DEFINE n == Len(seqs)
  <2>0. PICK V : V = Seq(S)
    OBVIOUS
  <2>a. PICK none : none = <<>>
    OBVIOUS
  <2>b. PICK step : step = [i \in 1..n |-> [v \in V |-> v \o seqs[i]]]
    OBVIOUS
  <2>1. \A i \in 1..n : seqs[i] \in V
    BY <2>0, ElementOfSeq
  <2>2. step \in [1..n -> [V -> V]]
    <3>1. \A i \in 1..n : [v \in V |-> v \o seqs[i]] \in [V -> V]
      BY <2>0, <2>1, ConcatProperties
    <3> QED
      BY <2>b, <3>1
  <2>3. none \in V
    BY <2>0, <2>a
  <2>4. PICK g \in [0..n -> V] : g[0] = none /\ \A i \in 1..n : g[i] = step[i][g[i - 1]]
    <3> HIDE DEF n
    <3>1. n \in Nat
      BY <1>1 DEF n
    <3>2. \E g : IsChain(g, n, V, none, step)
      BY <2>2, <2>3, <3>1, ChainExists
    <3> QED
      BY <3>2 DEF IsChain
  <2>5. \A i \in 1..n : g[i - 1] \in V /\ g[i] = g[i - 1] \o seqs[i]
    <3> SUFFICES ASSUME NEW i \in 1..n PROVE g[i - 1] \in V /\ g[i] = g[i - 1] \o seqs[i]
      OBVIOUS
    <3>1. g[i - 1] \in V
      <4>1. i - 1 \in 0..n
        BY <1>1
      <4> QED
        BY <4>1
    <3>2. g[i] = step[i][g[i - 1]] /\ step[i] = [v \in V |-> v \o seqs[i]]
      BY <2>4, <2>b
    <3> QED
      BY <3>1, <3>2
  <2> DEFINE h == [i \in 1..n |-> g[i]]
  <2>6. \A i \in 1..n : h[i] = Joined(seqs, h, i)
    <3> SUFFICES ASSUME NEW i \in 1..n PROVE h[i] = Joined(seqs, h, i)
      OBVIOUS
    <3>1. CASE i = 1
      <4>1. g[1] = <<>> \o seqs[1] /\ seqs[1] \in Seq(S)
        <5>1. 1 \in 1..n /\ 1 - 1 = 0 /\ g[0] = <<>>
          BY <2>4, <2>a, <3>1
        <5>2. g[1] = g[1 - 1] \o seqs[1] /\ seqs[1] \in V
          BY <2>1, <2>5, <5>1
        <5> QED
          BY <5>1, <5>2, <2>0
      <4>2. <<>> \o seqs[1] = seqs[1]
        BY <4>1, ConcatEmptySeq
      <4> QED
        BY <3>1, <4>1, <4>2 DEF Joined
    <3>2. CASE i # 1
      <4>1. i - 1 \in 1..n /\ h[i - 1] = g[i - 1]
        BY <1>1, <3>2
      <4> QED
        BY <2>5, <3>2, <4>1 DEF Joined
    <3> QED
      BY <3>1, <3>2
  <2>7. h = [i \in 1..n |-> Joined(seqs, h, i)]
    BY <2>6
  <2>8. FlattenSeq(seqs) = h[n]
    <3> HIDE DEF h
    <3> QED
      BY <1>1, <1>3, <2>7, FlattenIs
  <2>9. n \in 1..n
    BY <1>1, <1>3
  <2>10. h[n] = g[n] /\ n \in 0..n
    BY <1>1, <2>9
  <2> HIDE DEF h
  <2> QED
    BY <2>0, <2>8, <2>10
<1> QED
  BY <1>2, <1>3

-----------------------------------------------------------------------------
(* Replacing one token of a text *)

\* The tokens of a text are strings; those of the formats, the dates and the lines are named.
Tokens ==
    STRING \cup {"0", "1", "2", "3", "4", "5", "6", "7", "8", "9"}
           \cup {"[", "%datetime", "{", "%d", "/", "%M", "%Y", " ", "%H", ":", "%m", ":", "%s", "}", "] ",
                 "%levshort", "%fbase", "%line", "%msg", "T", "D", "F", "E", "W", "V", "I", "\n"}

LEMMA TwoTexts ==
    ASSUME NEW a \in Seq(Tokens), NEW b \in Seq(Tokens)
    PROVE  /\ a \o b \in Seq(Tokens) /\ Len(a \o b) = Len(a) + Len(b)
           /\ \A i \in 1..Len(a) : (a \o b)[i] = a[i]
           /\ \A i \in 1..Len(b) : (a \o b)[Len(a) + i] = b[i]
<1> DEFINE ab == a \o b
<1>1. Len(a) \in Nat /\ Len(b) \in Nat
  BY LenProperties
<1>2. /\ ab \in Seq(Tokens) /\ Len(ab) = Len(a) + Len(b)
      /\ \A i \in 1..(Len(a) + Len(b)) : ab[i] = IF i =< Len(a) THEN a[i] ELSE b[i - Len(a)]
  BY ConcatProperties
<1> HIDE DEF ab
<1>3. \A i \in 1..Len(a) : ab[i] = a[i]
  BY <1>1, <1>2
<1>4. ASSUME NEW i \in 1..Len(b) PROVE ab[Len(a) + i] = b[i]
  <2> DEFINE j == Len(a) + i
  <2>1. j \in 1..(Len(a) + Len(b)) /\ ~(j =< Len(a)) /\ j - Len(a) = i
    BY <1>1
  <2> HIDE DEF j
  <2>2. ab[j] = b[i]
    BY <1>2, <2>1
  <2> QED
    BY <2>2 DEF j
<1> QED
  BY <1>2, <1>3, <1>4 DEF ab

LEMMA ThreeTexts ==
    ASSUME NEW a \in Seq(Tokens), NEW b \in Seq(Tokens), NEW c \in Seq(Tokens)
    PROVE  (a \o b) \o c = a \o (b \o c)
BY ConcatAssociative

\* It does not matter which two of three texts are put together first.
Regrouped(a, b, c) == a \o (b \o c) = (a \o b) \o c

LEMMA Regroup ==
    ASSUME NEW a \in Seq(Tokens), NEW b \in Seq(Tokens), NEW c \in Seq(Tokens)
    PROVE  Regrouped(a, b, c)
BY ConcatAssociative DEF Regrouped

\* A token that is found, not behind a "%", and not before, is replaced; the rest stays.
LEMMA ReplaceFound ==
    ASSUME NEW text \in Seq(Tokens), NEW with \in Seq(Tokens), NEW what,
           NEW at \in 1..Len(text), text[at] = what, at = 1 \/ text[at - 1] # "%",
           \A i \in 1..(at - 1) : text[i] # what
    PROVE  ReplaceFirstWithEscape(text, what, with) =
               SubSeq(text, 1, at - 1) \o with \o SubSeq(text, at + 1, Len(text))
<1> DEFINE n == Len(text)
           first == IF Plain(text, what) = {} THEN Len(text) + 1 ELSE Least(Plain(text, what))
           Escape(i) == text[i] = "%" /\ i + 1 < first /\ i + 1 \in Occurrences(text, what)
           parts == [i \in DOMAIN text |->
                        CASE i = first -> with
                          [] Escape(i) -> <<>>
                          [] OTHER     -> <<text[i]>>]
           U == [i \in 0..n |-> SubSeq(text, 1, i)]
           V == [i \in 0..n |-> SubSeq(text, at + 1, i)]
           pre == U[at - 1] \o with
           W == [i \in 1..n |-> pre \o V[i]]
           g == [i \in 1..n |-> IF i < at THEN U[i] ELSE W[i]]
<1>1. n \in Nat /\ DOMAIN text = 1..n /\ n # 0 /\ at \in 1..n
  BY LenProperties
<1>2. ReplaceFirstWithEscape(text, what, with) = FlattenSeq(parts)
  BY DEF ReplaceFirstWithEscape
<1>3. first = at
  <2>1. at \in Plain(text, what) /\ \A i \in Plain(text, what) : at =< i
    BY <1>1 DEF Plain, Occurrences, Escaped
  <2>2. Plain(text, what) \subseteq Nat
    BY <1>1 DEF Plain, Occurrences
  <2>3. Least(Plain(text, what)) = at
    BY <2>1, <2>2 DEF Least
  <2> QED
    BY <2>1, <2>3
<1>4. \A i \in 1..n : (i = at => parts[i] = with) /\ (i # at => parts[i] = <<text[i]>>)
  <2>1. \A i \in 1..n : i # at => ~Escape(i)
    <3> HIDE DEF first
    <3> QED
      BY <1>1, <1>3 DEF Occurrences
  <2> QED
    BY <1>1, <1>3, <2>1
<1>5. Len(parts) = n
  BY <1>1
<1> HIDE DEF parts, first, Escape
<1>6. /\ \A i \in 0..n : U[i] \in Seq(Tokens) /\ V[i] \in Seq(Tokens)
      /\ U[0] = <<>> /\ V[at] = <<>>
      /\ \A i \in 1..n : U[i] = U[i - 1] \o <<text[i]>>
      /\ \A i \in 1..n : at < i => V[i] = V[i - 1] \o <<text[i]>>
      /\ \A i \in 1..n : <<text[i]>> \in Seq(Tokens)
  <2>0. \A i \in 0..n : U[i] = SubSeq(text, 1, i) /\ V[i] = SubSeq(text, at + 1, i)
    OBVIOUS
  <2>00. \A i \in 1..n : U[i - 1] = SubSeq(text, 1, i - 1) /\ V[i - 1] = SubSeq(text, at + 1, i - 1)
    <3> HIDE DEF U, V
    <3>1. \A i \in 1..n : i - 1 \in 0..n
      BY <1>1
    <3> QED
      BY <2>0, <3>1
  <2> HIDE DEF U, V
  <2>1. \A i \in 1..n : SubSeq(text, 1, i) = SubSeq(text, 1, i - 1) \o <<text[i]>>
    BY <1>1, SubSeqRecursiveSecond
  <2>2. \A i \in 1..n : at < i => SubSeq(text, at + 1, i) = SubSeq(text, at + 1, i - 1) \o <<text[i]>>
    <3> SUFFICES ASSUME NEW i \in 1..n, at < i
                 PROVE  SubSeq(text, at + 1, i) = SubSeq(text, at + 1, i - 1) \o <<text[i]>>
      OBVIOUS
    <3>1. at + 1 \in 1..Len(text) /\ i \in (at + 1)..Len(text)
      BY <1>1
    <3> QED
      BY <3>1, SubSeqRecursiveSecond
  <2>3. SubSeq(text, 1, 0) = <<>> /\ SubSeq(text, at + 1, at) = <<>>
    BY <1>1, SubSeqEmpty
  <2>5. \A i \in 1..n : <<text[i]>> \in Seq(Tokens)
    BY <1>1, ElementOfSeq
  <2>6. \A i \in 0..n : SubSeq(text, 1, i) \in Seq(Tokens) /\ SubSeq(text, at + 1, i) \in Seq(Tokens)
    BY <1>1, SubSeqProperties, ElementOfSeq
  <2>7. 0 \in 0..n /\ at \in 0..n /\ \A i \in 1..n : i \in 0..n
    BY <1>1
  <2> QED
    BY <2>0, <2>00, <2>1, <2>2, <2>3, <2>5, <2>6, <2>7
<1>61. \A i \in 0..n : U[i] \in Seq(Tokens) /\ V[i] \in Seq(Tokens)
  BY <1>6
<1>62. U[0] = <<>> /\ V[at] = <<>>
  BY <1>6
<1>63. \A i \in 1..n : U[i] = U[i - 1] \o <<text[i]>>
  BY <1>6
<1>64. \A i \in 1..n : at < i => V[i] = V[i - 1] \o <<text[i]>>
  BY <1>6
<1>65. \A i \in 1..n : <<text[i]>> \in Seq(Tokens)
  BY <1>6
<1>7. \A i \in 1..n : (i < at => g[i] = U[i]) /\ (i >= at => g[i] = pre \o V[i])
  <2>1. \A i \in 1..n : W[i] = pre \o V[i]
    <3> HIDE DEF pre, V
    <3> QED
      OBVIOUS
  <2> HIDE DEF W, U
  <2>2. \A i \in 1..n : (i < at => g[i] = U[i]) /\ (i >= at => g[i] = W[i])
    OBVIOUS
  <2> QED
    BY <2>1, <2>2
<1>8. g = [i \in 1..n |-> g[i]]
  OBVIOUS
<1>9. at \in 1..n /\ n \in Nat
  BY <1>1
<1>a. pre \in Seq(Tokens) /\ pre = U[at - 1] \o with
  <2>1. at - 1 \in 0..n
    BY <1>1
  <2> QED
    BY <1>6, <2>1, ConcatProperties
<1>b. U[at - 1] = SubSeq(text, 1, at - 1) /\ V[n] = SubSeq(text, at + 1, n)
  <2>1. at - 1 \in 0..n /\ n \in 0..n
    BY <1>1
  <2> QED
    BY <2>1
<1> HIDE DEF n, U, V, W, pre, g
<1>10. \A i \in 1..n : g[i] = Joined(parts, g, i)
  <2> SUFFICES ASSUME NEW i \in 1..n PROVE g[i] = Joined(parts, g, i)
    OBVIOUS
  <2>0. (i = at => parts[i] = with) /\ (i # at => parts[i] = <<text[i]>>)
    BY <1>4
  <2> DEFINE one == <<text[i]>>
  <2>00. /\ one \in Seq(Tokens) /\ (i # at => parts[i] = one)
         /\ U[i] = U[i - 1] \o one /\ (at < i => V[i] = V[i - 1] \o one)
    <3>1. one \in Seq(Tokens)
      BY <1>65
    <3>2. i # at => parts[i] = one
      BY <2>0
    <3>3. U[i] = U[i - 1] \o one
      BY <1>63
    <3>4. at < i => V[i] = V[i - 1] \o one
      BY <1>64
    <3> QED
      BY <3>1, <3>2, <3>3, <3>4
  <2> HIDE DEF one
  <2>1. CASE i < at
    <3>1. g[i] = U[i - 1] \o one /\ parts[i] = one
      BY <1>7, <2>00, <2>1, <1>9, SMTT(30)
    <3>2. CASE i = 1
      <4>1. <<>> \o one = one
        BY <2>00, ConcatEmptySeq
      <4>2. U[i - 1] = <<>>
        BY <1>62, <3>2
      <4>3. Joined(parts, g, i) = parts[i]
        BY <3>2 DEF Joined
      <4> QED
        BY <3>1, <4>1, <4>2, <4>3
    <3>3. CASE i # 1
      <4>1. g[i - 1] = U[i - 1]
        BY <1>7, <1>9, <2>1, <3>3
      <4> QED
        BY <3>1, <3>3, <4>1 DEF Joined
    <3> QED
      BY <3>2, <3>3
  <2>2. CASE i = at
    <3>1. g[i] = pre \o <<>>
      <4>1. g[i] = pre \o V[i]
        BY <1>7, <2>2, <1>9
      <4>2. V[i] = <<>>
        BY <1>62, <2>2
      <4> QED
        BY <4>1, <4>2
    <3>2. g[i] = U[i - 1] \o with
      BY <1>a, <2>2, <3>1, ConcatEmptySeq
    <3>3. CASE i = 1
      <4>1. <<>> \o with = with
        BY ConcatEmptySeq
      <4>2. U[i - 1] = <<>>
        BY <1>62, <3>3
      <4>3. Joined(parts, g, i) = parts[i]
        BY <3>3 DEF Joined
      <4> QED
        BY <2>0, <2>2, <3>2, <4>1, <4>2, <4>3
    <3>4. CASE i # 1
      <4>1. g[i - 1] = U[i - 1]
        BY <1>7, <1>9, <2>2, <3>4
      <4> QED
        BY <2>0, <2>2, <3>2, <3>4, <4>1 DEF Joined
    <3> QED
      BY <3>3, <3>4
  <2>3. CASE i > at
    <3>0. g[i] = pre \o V[i]
      BY <1>7, <1>9, <2>3
    <3>1. g[i] = pre \o (V[i - 1] \o one) /\ parts[i] = one
      <4>1. i # at /\ at < i
        BY <2>3, <1>9
      <4>2. V[i] = V[i - 1] \o one
        BY <2>00, <4>1
      <4>3. parts[i] = one
        BY <2>00, <4>1
      <4> QED
        BY <3>0, <4>2, <4>3
    <3>2. g[i - 1] = pre \o V[i - 1]
      BY <1>7, <1>9, <2>3
    <3>3. V[i - 1] \in Seq(Tokens)
      BY <1>61, <1>9
    <3>4. (pre \o V[i - 1]) \o one = pre \o (V[i - 1] \o one)
      <4>1. pre \in Seq(Tokens) /\ one \in Seq(Tokens)
        BY <1>a, <2>00
      <4> QED
        BY <3>3, <4>1, ThreeTexts, ZenonT(30)
    <3>5. i # 1
      BY <1>9, <2>3
    <3>6. Joined(parts, g, i) = g[i - 1] \o parts[i]
      BY <3>5 DEF Joined
    <3> QED
      BY <3>1, <3>2, <3>4, <3>6
  <2> QED
    BY <1>9, <2>1, <2>2, <2>3
<1>11. FlattenSeq(parts) = g[n]
  <2>1. g = [i \in 1..n |-> Joined(parts, g, i)]
    BY <1>8, <1>10
  <2> QED
    BY <1>1, <1>5, <1>9, <2>1, FlattenIs DEF n
<1>12. g[n] = pre \o V[n]
  BY <1>7, <1>9
<1> QED
  BY <1>2, <1>11, <1>12, <1>a, <1>b DEF n

\* A text whose tokens all stay is put together again.
LEMMA AllStay ==
    ASSUME NEW text \in Seq(Tokens), text # <<>>, NEW parts, Len(parts) = Len(text),
           \A i \in 1..Len(text) : parts[i] = <<text[i]>>
    PROVE  FlattenSeq(parts) = text
<1> DEFINE n == Len(text)
           g == [i \in 1..n |-> SubSeq(text, 1, i)]
<1>1. n \in Nat \ {0}
  BY EmptySeq
<1>2. \A i \in 1..n : g[i] = SubSeq(text, 1, i)
  OBVIOUS
<1>3. \A i \in 1..n : SubSeq(text, 1, i) = SubSeq(text, 1, i - 1) \o <<text[i]>>
  BY <1>1, SubSeqRecursiveSecond
<1>4. \A i \in 1..n : <<text[i]>> \in Seq(Tokens)
  BY <1>1, ElementOfSeq
<1>5. g = [i \in 1..n |-> g[i]]
  OBVIOUS
<1>6. SubSeq(text, 1, 0) = <<>> /\ SubSeq(text, 1, n) = text
  BY <1>1, SubSeqEmpty, SubSeqFull
<1>7. \A i \in 1..n : parts[i] = <<text[i]>>
  OBVIOUS
<1>8. Len(parts) = n
  OBVIOUS
<1> HIDE DEF g, n
<1>9. \A i \in 1..n : g[i] = Joined(parts, g, i)
  <2> SUFFICES ASSUME NEW i \in 1..n PROVE g[i] = Joined(parts, g, i)
    OBVIOUS
  <2> DEFINE one == <<text[i]>>
  <2>1. parts[i] = one /\ one \in Seq(Tokens)
    BY <1>4, <1>7
  <2>2. SubSeq(text, 1, i) = SubSeq(text, 1, i - 1) \o one
    BY <1>3
  <2> HIDE DEF one
  <2>3. CASE i = 1
    <3>1. SubSeq(text, 1, i - 1) = <<>>
      BY <1>6, <2>3
    <3>2. <<>> \o one = one
      BY <2>1, ConcatEmptySeq
    <3>3. g[i] = SubSeq(text, 1, i)
      BY <1>2
    <3>4. Joined(parts, g, i) = parts[i]
      BY <2>3 DEF Joined
    <3> QED
      BY <2>1, <2>2, <3>1, <3>2, <3>3, <3>4
  <2>4. CASE i # 1
    <3>1. i - 1 \in 1..n
      BY <1>1, <2>4
    <3>2. g[i - 1] = SubSeq(text, 1, i - 1)
      BY <1>2, <3>1
    <3>3. g[i] = SubSeq(text, 1, i)
      BY <1>2
    <3> QED
      BY <2>1, <2>2, <2>4, <3>2, <3>3 DEF Joined
  <2> QED
    BY <2>3, <2>4
<1>10. FlattenSeq(parts) = g[n]
  <2>1. g = [i \in 1..n |-> Joined(parts, g, i)]
    BY <1>5, <1>9
  <2> QED
    BY <1>1, <1>8, <2>1, FlattenIs
<1> QED
  BY <1>1, <1>2, <1>6, <1>10

\* In a text that does not have the token nothing is replaced.
LEMMA ReplaceNone ==
    ASSUME NEW text \in Seq(Tokens), text # <<>>, NEW with, NEW what,
           \A i \in 1..Len(text) : text[i] # what
    PROVE  ReplaceFirstWithEscape(text, what, with) = text
<1> DEFINE first == IF Plain(text, what) = {} THEN Len(text) + 1 ELSE Least(Plain(text, what))
           Escape(i) == text[i] = "%" /\ i + 1 < first /\ i + 1 \in Occurrences(text, what)
           parts == [i \in DOMAIN text |->
                        CASE i = first -> with
                          [] Escape(i) -> <<>>
                          [] OTHER     -> <<text[i]>>]
<1>1. Len(text) \in Nat /\ DOMAIN text = 1..Len(text)
  BY LenProperties
<1>2. Occurrences(text, what) = {}
  BY <1>1 DEF Occurrences
<1>3. first = Len(text) + 1
  BY <1>2 DEF Plain
<1>4. \A i \in 1..Len(text) : parts[i] = <<text[i]>>
  <2> HIDE DEF first
  <2>1. \A i \in 1..Len(text) : ~Escape(i) /\ i # first
    BY <1>1, <1>2, <1>3
  <2> QED
    BY <1>1, <2>1
<1>5. Len(parts) = Len(text)
  BY <1>1
<1>6. ReplaceFirstWithEscape(text, what, with) = FlattenSeq(parts)
  BY DEF ReplaceFirstWithEscape
<1> QED
  <2> HIDE DEF parts
  <2> QED
    BY <1>4, <1>5, <1>6, AllStay

\* The same for a text in three parts.
LEMMA ReplaceIn ==
    ASSUME NEW pre \in Seq(Tokens), NEW with \in Seq(Tokens), NEW post \in Seq(Tokens),
           NEW what \in Tokens, pre # <<>>,
           \A i \in 1..Len(pre) : pre[i] # what, pre[Len(pre)] # "%"
    PROVE  ReplaceFirstWithEscape(pre \o (<<what>> \o post), what, with) = (pre \o with) \o post
<1> DEFINE one == <<what>>
           rest == one \o post
           text == pre \o rest
           at == Len(pre) + 1
<1>1. Len(pre) \in Nat \ {0} /\ Len(post) \in Nat /\ one \in Seq(Tokens) /\ Len(one) = 1 /\ one[1] = what
  BY EmptySeq, LenProperties
<1> HIDE DEF one
<1>2. rest \in Seq(Tokens) /\ Len(rest) = 1 + Len(post) /\ rest[1] = what
      /\ \A i \in 1..Len(post) : rest[i + 1] = post[i]
  <2>1. /\ rest \in Seq(Tokens) /\ Len(rest) = Len(one) + Len(post)
        /\ \A i \in 1..(Len(one) + Len(post)) :
               rest[i] = IF i =< Len(one) THEN one[i] ELSE post[i - Len(one)]
    BY <1>1, ConcatProperties
  <2> HIDE DEF rest
  <2> QED
    BY <1>1, <2>1
<1> HIDE DEF rest
<1>3. /\ text \in Seq(Tokens) /\ Len(text) = Len(pre) + 1 + Len(post)
      /\ \A i \in 1..Len(pre) : text[i] = pre[i]
      /\ text[at] = what
      /\ \A i \in 1..Len(post) : text[at + i] = post[i]
  <2>1. /\ text \in Seq(Tokens) /\ Len(text) = Len(pre) + Len(rest)
        /\ \A i \in 1..(Len(pre) + Len(rest)) :
               text[i] = IF i =< Len(pre) THEN pre[i] ELSE rest[i - Len(pre)]
    BY <1>1, <1>2, ConcatProperties
  <2> HIDE DEF text
  <2>2. text[at] = rest[1]
    <3>1. at \in 1..(Len(pre) + Len(rest)) /\ ~(at =< Len(pre)) /\ at - Len(pre) = 1
      BY <1>1, <1>2
    <3> HIDE DEF at
    <3>2. text[at] = rest[at - Len(pre)]
      BY <2>1, <3>1
    <3> QED
      BY <3>1, <3>2
  <2>3. \A i \in 1..Len(post) : text[at + i] = rest[i + 1]
    BY <1>1, <1>2, <2>1
  <2> QED
    BY <1>1, <1>2, <2>1, <2>2, <2>3
<1> HIDE DEF text
<1>4. ReplaceFirstWithEscape(text, what, with) =
          SubSeq(text, 1, at - 1) \o with \o SubSeq(text, at + 1, Len(text))
  <2>1. at \in 1..Len(text) /\ at # 1
    BY <1>1, <1>3
  <2>2. text[at - 1] # "%"
    <3>1. at - 1 = Len(pre) /\ Len(pre) \in 1..Len(pre)
      BY <1>1
    <3> HIDE DEF at
    <3> QED
      BY <1>3, <3>1
  <2>3. \A i \in 1..(at - 1) : text[i] # what
    BY <1>1, <1>3, SMTT(30)
  <2> HIDE DEF at
  <2> QED
    BY <1>3, <2>1, <2>2, <2>3, ReplaceFound
<1>5. SubSeq(text, 1, at - 1) = pre
  <2>0. \A i \in 1..(at - 1) : text[i] \in Tokens
    BY <1>1, <1>3, ElementOfSeq
  <2>1. /\ SubSeq(text, 1, at - 1) \in Seq(Tokens)
        /\ Len(SubSeq(text, 1, at - 1)) = Len(pre)
        /\ \A i \in 1..Len(pre) : SubSeq(text, 1, at - 1)[i] = text[i]
    BY <1>1, <2>0, SubSeqProperties
  <2> QED
    BY <1>3, <2>1, SeqEqual
<1>6. SubSeq(text, at + 1, Len(text)) = post
  <2>0. \A i \in (at + 1)..Len(text) : text[i] \in Tokens
    BY <1>1, <1>3, ElementOfSeq
  <2> DEFINE tail == SubSeq(text, at + 1, Len(text))
  <2>1. /\ tail \in Seq(Tokens)
        /\ Len(tail) = Len(post)
        /\ \A i \in 1..Len(post) : tail[i] = text[at + i]
    BY <1>1, <1>3, <2>0, SubSeqProperties
  <2> HIDE DEF tail
  <2>2. tail = post
    BY <1>3, <2>1, SeqEqual
  <2> QED
    BY <2>2 DEF tail
<1> QED
  BY <1>4, <1>5, <1>6 DEF text, rest, one

-----------------------------------------------------------------------------
(* The format of Logger::Init *)

\* What is left of the format for a level whose short name is given.
Rest(short) ==
    <<"] ">> \o (<<short>> \o (<<" ">> \o (<<"%fbase">> \o (<<":">> \o (<<"%line">> \o (<<" ">> \o <<"%msg">>))))))
LevelFormat(short) == <<"[">> \o (<<"%datetime">> \o Rest(short))
FormatFlags == {"%levshort", "%fbase", "%line", "%msg", "%datetime"}
DateTimeFormat == <<"%d", "/", "%M", "/", "%Y", " ", "%H", ":", "%m", ":", "%s">>

LEMMA LeastIs ==
    ASSUME NEW set, NEW least \in set, least \in Int, \A i \in set : i \in Int /\ least =< i
    PROVE  Least(set) = least
<1>1. \A i \in set : (\A j \in set : i =< j) => i = least
  OBVIOUS
<1> QED
  BY <1>1 DEF Least

\* A token in front of a text.
LEMMA InFront ==
    ASSUME NEW token \in Tokens, NEW text \in Seq(Tokens)
    PROVE  /\ <<token>> \o text \in Seq(Tokens) /\ Len(<<token>> \o text) = 1 + Len(text)
           /\ (<<token>> \o text)[1] = token
           /\ \A i \in 1..(1 + Len(text)) : i # 1 => (<<token>> \o text)[i] = text[i - 1]
<1> DEFINE one == <<token>>
<1>1. one \in Seq(Tokens) /\ Len(one) = 1 /\ one[1] = token
  OBVIOUS
<1> HIDE DEF one
<1>2. /\ one \o text \in Seq(Tokens) /\ Len(one \o text) = Len(one) + Len(text)
      /\ \A i \in 1..Len(one) : (one \o text)[i] = one[i]
      /\ \A i \in 1..Len(text) : (one \o text)[Len(one) + i] = text[i]
  BY <1>1, TwoTexts
<1> DEFINE t == one \o text
<1>3. /\ t \in Seq(Tokens) /\ Len(t) = 1 + Len(text) /\ t[1] = one[1]
      /\ \A i \in 1..(1 + Len(text)) : i # 1 => t[i] = text[i - 1]
  <2>1. /\ t \in Seq(Tokens) /\ Len(t) = Len(one) + Len(text)
        /\ \A i \in 1..Len(one) : t[i] = one[i]
        /\ \A i \in 1..Len(text) : t[Len(one) + i] = text[i]
    BY <1>2
  <2> HIDE DEF t
  <2>2. ASSUME NEW i \in 1..(1 + Len(text)), i # 1 PROVE t[i] = text[i - 1]
    <3>1. i - 1 \in 1..Len(text) /\ Len(one) + (i - 1) = i
      BY <1>1, <2>2, LenProperties
    <3>2. t[Len(one) + (i - 1)] = text[i - 1]
      BY <2>1, <3>1
    <3> QED
      BY <3>1, <3>2
  <2> QED
    BY <1>1, <2>1, <2>2
<1> QED
  BY <1>1, <1>3 DEF one, t

LEMMA TenTokens ==
    ASSUME NEW a1 \in Tokens, NEW a2 \in Tokens, NEW a3 \in Tokens, NEW a4 \in Tokens, NEW a5 \in Tokens,
           NEW a6 \in Tokens, NEW a7 \in Tokens, NEW a8 \in Tokens, NEW a9 \in Tokens, NEW a10 \in Tokens,
           NEW rest, rest =
               <<a3>> \o (<<a4>> \o (<<a5>> \o (<<a6>> \o (<<a7>> \o (<<a8>> \o (<<a9>> \o <<a10>>)))))),
           NEW text, text = <<a1>> \o (<<a2>> \o rest)
    PROVE  /\ text \in Seq(Tokens) /\ rest \in Seq(Tokens) /\ Len(text) = 10
           /\ text[1] = a1 /\ text[2] = a2 /\ text[3] = a3 /\ text[4] = a4 /\ text[5] = a5
           /\ text[6] = a6 /\ text[7] = a7 /\ text[8] = a8 /\ text[9] = a9 /\ text[10] = a10
<1> DEFINE s10 == <<a10>>
           s9 == <<a9>> \o s10
           s8 == <<a8>> \o s9
           s7 == <<a7>> \o s8
           s6 == <<a6>> \o s7
           s5 == <<a5>> \o s6
           s4 == <<a4>> \o s5
           s3 == <<a3>> \o s4
           s2 == <<a2>> \o s3
           s1 == <<a1>> \o s2
<1>10. s10 \in Seq(Tokens) /\ Len(s10) = 1 /\ s10[1] = a10
  OBVIOUS
<1>9. /\ s9 \in Seq(Tokens) /\ Len(s9) = 2
      /\ s9[1] = a9 /\ s9[2] = a10
  <2> HIDE DEF s10
  <2>1. /\ s9 \in Seq(Tokens) /\ Len(s9) = 1 + Len(s10) /\ s9[1] = a9
        /\ \A i \in 1..(1 + Len(s10)) : i # 1 => s9[i] = s10[i - 1]
    BY <1>10, InFront
  <2> HIDE DEF s9
  <2> QED
    BY <1>10, <2>1
<1>8. /\ s8 \in Seq(Tokens) /\ Len(s8) = 3
      /\ s8[1] = a8 /\ s8[2] = a9 /\ s8[3] = a10
  <2> HIDE DEF s9
  <2>1. /\ s8 \in Seq(Tokens) /\ Len(s8) = 1 + Len(s9) /\ s8[1] = a8
        /\ \A i \in 1..(1 + Len(s9)) : i # 1 => s8[i] = s9[i - 1]
    BY <1>9, InFront
  <2> HIDE DEF s8
  <2> QED
    BY <1>9, <2>1
<1>7. /\ s7 \in Seq(Tokens) /\ Len(s7) = 4
      /\ s7[1] = a7 /\ s7[2] = a8 /\ s7[3] = a9 /\ s7[4] = a10
  <2> HIDE DEF s8
  <2>1. /\ s7 \in Seq(Tokens) /\ Len(s7) = 1 + Len(s8) /\ s7[1] = a7
        /\ \A i \in 1..(1 + Len(s8)) : i # 1 => s7[i] = s8[i - 1]
    BY <1>8, InFront
  <2> HIDE DEF s7
  <2> QED
    BY <1>8, <2>1
<1>6. /\ s6 \in Seq(Tokens) /\ Len(s6) = 5
      /\ s6[1] = a6 /\ s6[2] = a7 /\ s6[3] = a8 /\ s6[4] = a9 /\ s6[5] = a10
  <2> HIDE DEF s7
  <2>1. /\ s6 \in Seq(Tokens) /\ Len(s6) = 1 + Len(s7) /\ s6[1] = a6
        /\ \A i \in 1..(1 + Len(s7)) : i # 1 => s6[i] = s7[i - 1]
    BY <1>7, InFront
  <2> HIDE DEF s6
  <2> QED
    BY <1>7, <2>1
<1>5. /\ s5 \in Seq(Tokens) /\ Len(s5) = 6
      /\ s5[1] = a5 /\ s5[2] = a6 /\ s5[3] = a7 /\ s5[4] = a8 /\ s5[5] = a9
      /\ s5[6] = a10
  <2> HIDE DEF s6
  <2>1. /\ s5 \in Seq(Tokens) /\ Len(s5) = 1 + Len(s6) /\ s5[1] = a5
        /\ \A i \in 1..(1 + Len(s6)) : i # 1 => s5[i] = s6[i - 1]
    BY <1>6, InFront
  <2> HIDE DEF s5
  <2> QED
    BY <1>6, <2>1
<1>4. /\ s4 \in Seq(Tokens) /\ Len(s4) = 7
      /\ s4[1] = a4 /\ s4[2] = a5 /\ s4[3] = a6 /\ s4[4] = a7 /\ s4[5] = a8
      /\ s4[6] = a9 /\ s4[7] = a10
  <2> HIDE DEF s5
  <2>1. /\ s4 \in Seq(Tokens) /\ Len(s4) = 1 + Len(s5) /\ s4[1] = a4
        /\ \A i \in 1..(1 + Len(s5)) : i # 1 => s4[i] = s5[i - 1]
    BY <1>5, InFront
  <2> HIDE DEF s4
  <2> QED
    BY <1>5, <2>1
<1>3. /\ s3 \in Seq(Tokens) /\ Len(s3) = 8
      /\ s3[1] = a3 /\ s3[2] = a4 /\ s3[3] = a5 /\ s3[4] = a6 /\ s3[5] = a7
      /\ s3[6] = a8 /\ s3[7] = a9 /\ s3[8] = a10
  <2> HIDE DEF s4
  <2>1. /\ s3 \in Seq(Tokens) /\ Len(s3) = 1 + Len(s4) /\ s3[1] = a3
        /\ \A i \in 1..(1 + Len(s4)) : i # 1 => s3[i] = s4[i - 1]
    BY <1>4, InFront
  <2> HIDE DEF s3
  <2> QED
    BY <1>4, <2>1
<1>2. /\ s2 \in Seq(Tokens) /\ Len(s2) = 9
      /\ s2[1] = a2 /\ s2[2] = a3 /\ s2[3] = a4 /\ s2[4] = a5 /\ s2[5] = a6
      /\ s2[6] = a7 /\ s2[7] = a8 /\ s2[8] = a9 /\ s2[9] = a10
  <2> HIDE DEF s3
  <2>1. /\ s2 \in Seq(Tokens) /\ Len(s2) = 1 + Len(s3) /\ s2[1] = a2
        /\ \A i \in 1..(1 + Len(s3)) : i # 1 => s2[i] = s3[i - 1]
    BY <1>3, InFront
  <2> HIDE DEF s2
  <2> QED
    BY <1>3, <2>1
<1>1. /\ s1 \in Seq(Tokens) /\ Len(s1) = 10
      /\ s1[1] = a1 /\ s1[2] = a2 /\ s1[3] = a3 /\ s1[4] = a4 /\ s1[5] = a5
      /\ s1[6] = a6 /\ s1[7] = a7 /\ s1[8] = a8 /\ s1[9] = a9 /\ s1[10] = a10
  <2> HIDE DEF s2
  <2>1. /\ s1 \in Seq(Tokens) /\ Len(s1) = 1 + Len(s2) /\ s1[1] = a1
        /\ \A i \in 1..(1 + Len(s2)) : i # 1 => s1[i] = s2[i - 1]
    BY <1>2, InFront
  <2> HIDE DEF s1
  <2> QED
    BY <1>2, <2>1
<1>11. rest = s3 /\ text = s1
  OBVIOUS
<1> HIDE DEF s1, s3
<1> QED
  BY <1>1, <1>3, <1>11

LEMMA LevelFormatAt ==
    ASSUME NEW short \in Tokens
    PROVE  /\ LevelFormat(short) \in Seq(Tokens) /\ Rest(short) \in Seq(Tokens)
           /\ Len(LevelFormat(short)) = 10
           /\ LevelFormat(short)[1] = "[" /\ LevelFormat(short)[2] = "%datetime" /\ LevelFormat(short)[3] = "] "
           /\ LevelFormat(short)[4] = short /\ LevelFormat(short)[5] = " "
           /\ LevelFormat(short)[6] = "%fbase" /\ LevelFormat(short)[7] = ":"
           /\ LevelFormat(short)[8] = "%line" /\ LevelFormat(short)[9] = " " /\ LevelFormat(short)[10] = "%msg"
<1>1. /\ "[" \in Tokens /\ "%datetime" \in Tokens /\ "] " \in Tokens /\ " " \in Tokens
      /\ "%fbase" \in Tokens /\ ":" \in Tokens /\ "%line" \in Tokens /\ "%msg" \in Tokens
  BY DEF Tokens
<1> DEFINE a1 == "["
           a2 == "%datetime"
           a3 == "] "
           a4 == short
           a5 == " "
           a6 == "%fbase"
           a7 == ":"
           a8 == "%line"
           a9 == " "
           a10 == "%msg"
           rest == <<a3>> \o (<<a4>> \o (<<a5>> \o (<<a6>> \o (<<a7>> \o (<<a8>> \o (<<a9>> \o <<a10>>))))))
           text == <<a1>> \o (<<a2>> \o rest)
<1>2. Rest(short) = rest /\ LevelFormat(short) = text
  BY DEF Rest, LevelFormat
<1>3. /\ a1 \in Tokens /\ a2 \in Tokens /\ a3 \in Tokens /\ a4 \in Tokens /\ a5 \in Tokens
      /\ a6 \in Tokens /\ a7 \in Tokens /\ a8 \in Tokens /\ a9 \in Tokens /\ a10 \in Tokens
  BY <1>1
<1>4. /\ text \in Seq(Tokens) /\ rest \in Seq(Tokens) /\ Len(text) = 10
      /\ text[1] = a1 /\ text[2] = a2 /\ text[3] = a3 /\ text[4] = a4 /\ text[5] = a5
      /\ text[6] = a6 /\ text[7] = a7 /\ text[8] = a8 /\ text[9] = a9 /\ text[10] = a10
  <2> HIDE DEF a1, a2, a3, a4, a5, a6, a7, a8, a9, a10
  <2> QED
    BY <1>3, TenTokens
<1> QED
  <2> HIDE DEF rest, text
  <2> QED
    BY <1>2, <1>4, Zenon

LEMMA FormatTokens == Format \in Seq(Tokens) /\ Len(Format) = 23 /\ Format # <<>> /\ DOMAIN Format = 1..23
BY DEF Format, Tokens

LEMMA FormatAt ==
    /\ Format[1] = "[" /\ Format[2] = "%datetime" /\ Format[3] = "{" /\ Format[4] = "%d"
    /\ Format[5] = "/" /\ Format[6] = "%M" /\ Format[7] = "/" /\ Format[8] = "%Y"
    /\ Format[9] = " " /\ Format[10] = "%H" /\ Format[11] = ":" /\ Format[12] = "%m"
    /\ Format[13] = ":" /\ Format[14] = "%s" /\ Format[15] = "}" /\ Format[16] = "] "
    /\ Format[17] = "%levshort" /\ Format[18] = " " /\ Format[19] = "%fbase" /\ Format[20] = ":"
    /\ Format[21] = "%line" /\ Format[22] = " " /\ Format[23] = "%msg"
BY DEF Format

LEMMA NumbersOfFormat ==
    ASSUME NEW i \in 1..23
    PROVE  \/ i = 1 \/ i = 2 \/ i = 3 \/ i = 4 \/ i = 5 \/ i = 6 \/ i = 7 \/ i = 8 \/ i = 9 \/ i = 10
           \/ i = 11 \/ i = 12 \/ i = 13 \/ i = 14 \/ i = 15 \/ i = 16 \/ i = 17 \/ i = 18 \/ i = 19
           \/ i = 20 \/ i = 21 \/ i = 22 \/ i = 23
OBVIOUS

LEMMA FormatPlain ==
    /\ Plain(Format, "%datetime") = {2}
    /\ FlagsOf(Format) = {"%levshort", "%fbase", "%line", "%msg"}
<1>1. \A i \in 1..23 : Format[i] # "%"
  BY FormatAt, NumbersOfFormat
<1>2. \A what : Plain(Format, what) = {i \in 1..23 : Format[i] = what}
  BY <1>1, FormatTokens DEF Plain, Occurrences, Escaped
<1>3. \A i \in 1..23 : Format[i] = "%datetime" <=> i = 2
  BY FormatAt, NumbersOfFormat
<1>4. Format[17] = "%levshort" /\ Format[19] = "%fbase" /\ Format[21] = "%line" /\ Format[23] = "%msg"
  BY FormatAt, NumbersOfFormat
<1>5. \A i \in 1..23 : Format[i] \notin {"%app", "%level", "%logger", "%thread", "%file", "%loc", "%func",
                                         "%user", "%host", "%vlevel"}
  BY FormatAt, NumbersOfFormat
<1>6. \A f \in FormatSpecifiers : Plain(Format, f) # {} <=> f \in {"%levshort", "%fbase", "%line", "%msg"}
  BY <1>2, <1>4, <1>5 DEF FormatSpecifiers
<1> QED
  BY <1>2, <1>3, <1>6 DEF FlagsOf, FormatSpecifiers

LEMMA FormatHasNoEscapes == WithoutEscapes(Format) = Format
<1> DEFINE Spare(i) ==
               /\ Format[i] = "%" /\ i < Len(Format) /\ Format[i + 1] \in FlagsOf(Format)
               /\ Least(Plain(Format, Format[i + 1])) =< i
           parts == [i \in DOMAIN Format |-> IF Spare(i) THEN <<>> ELSE <<Format[i]>>]
<1>1. \A i \in 1..23 : Format[i] # "%"
  BY FormatAt, NumbersOfFormat
<1>2. \A i \in 1..23 : parts[i] = <<Format[i]>>
  BY <1>1, FormatTokens
<1>3. Len(parts) = 23
  BY FormatTokens
<1>4. WithoutEscapes(Format) = FlattenSeq(parts)
  BY DEF WithoutEscapes
<1> HIDE DEF parts
<1> QED
  BY <1>2, <1>3, <1>4, FormatTokens, AllStay

LEMMA LeastToken ==
    ASSUME NEW token, \A j \in 1..23 : Format[j] = token <=> j = 15
    PROVE  Least({j \in 3..Len(Format) : Format[j] = token} \cup {Len(Format) + 1}) = 15
<1> DEFINE ends == {j \in 3..Len(Format) : Format[j] = token} \cup {Len(Format) + 1}
<1>1. Len(Format) = 23
  BY FormatTokens
<1>2. 15 \in ends
  BY <1>1
<1>3. \A j \in ends : j \in Int /\ 15 =< j
  BY <1>1
<1> HIDE DEF ends
<1>4. Least(ends) = 15
  BY <1>2, <1>3, LeastIs
<1> QED
  BY <1>4 DEF ends

LEMMA FormatDate ==
    DateFormat(Format) = [text |-> LevelFormat("%levshort"), format |-> DateTimeFormat]
<1>1. Least({2}) = 2
  BY LeastIs
<1>2. Least({j \in 3..Len(Format) : Format[j] = "}"} \cup {Len(Format) + 1}) = 15
  <2>1. \A j \in 1..23 : Format[j] = "}" <=> j = 15
    BY FormatAt, NumbersOfFormat
  <2> QED
    BY <2>1, LeastToken
<1>3. Format[3] = "{"
  BY DEF Format
<1>4. SubSeq(Format, 1, 2) \o SubSeq(Format, 16, 23) = LevelFormat("%levshort")
  <2> DEFINE a == SubSeq(Format, 1, 2)
             b == SubSeq(Format, 16, 23)
  <2>0. Format \in Seq(Tokens) /\ Len(Format) = 23 /\ \A i \in 1..23 : Format[i] \in Tokens
    BY FormatTokens, ElementOfSeq
  <2>1. a \in Seq(Tokens) /\ Len(a) = 2 /\ a[1] = Format[1] /\ a[2] = Format[2]
    BY <2>0, SubSeqProperties
  <2>2. /\ b \in Seq(Tokens) /\ Len(b) = 8
        /\ \A i \in 1..8 : b[i] = Format[15 + i]
    BY <2>0, SubSeqProperties
  <2> HIDE DEF a, b
  <2> DEFINE ab == a \o b
             f == LevelFormat("%levshort")
  <2>3. /\ ab \in Seq(Tokens) /\ Len(ab) = 10
        /\ \A i \in 1..2 : ab[i] = a[i]
        /\ \A i \in 1..8 : ab[2 + i] = b[i]
    <3>1. /\ ab \in Seq(Tokens) /\ Len(ab) = Len(a) + Len(b)
          /\ \A i \in 1..Len(a) : ab[i] = a[i]
          /\ \A i \in 1..Len(b) : ab[Len(a) + i] = b[i]
      BY <2>1, <2>2, TwoTexts
    <3> HIDE DEF ab
    <3> QED
      BY <2>1, <2>2, <3>1
  <2> HIDE DEF ab, f
  <2>a. /\ b[1] = Format[16] /\ b[2] = Format[17] /\ b[3] = Format[18] /\ b[4] = Format[19]
        /\ b[5] = Format[20] /\ b[6] = Format[21] /\ b[7] = Format[22] /\ b[8] = Format[23]
    BY <2>2
  <2>b. /\ ab[1] = a[1] /\ ab[2] = a[2]
        /\ ab[3] = b[1] /\ ab[4] = b[2] /\ ab[5] = b[3] /\ ab[6] = b[4]
        /\ ab[7] = b[5] /\ ab[8] = b[6] /\ ab[9] = b[7] /\ ab[10] = b[8]
    BY <2>3
  <2>4. /\ ab[1] = "[" /\ ab[2] = "%datetime" /\ ab[3] = "] " /\ ab[4] = "%levshort" /\ ab[5] = " "
        /\ ab[6] = "%fbase" /\ ab[7] = ":" /\ ab[8] = "%line" /\ ab[9] = " " /\ ab[10] = "%msg"
    BY <2>1, <2>a, <2>b, FormatAt, ZenonT(40)
  <2>5. /\ f \in Seq(Tokens) /\ Len(f) = 10
        /\ f[1] = "[" /\ f[2] = "%datetime" /\ f[3] = "] " /\ f[4] = "%levshort" /\ f[5] = " "
        /\ f[6] = "%fbase" /\ f[7] = ":" /\ f[8] = "%line" /\ f[9] = " " /\ f[10] = "%msg"
    <3>1. "%levshort" \in Tokens
      BY DEF Tokens
    <3> QED
      BY <3>1, LevelFormatAt DEF f
  <2>6. ab \in Seq(Tokens) /\ Len(ab) = 10
    BY <2>3
  <2>7. \A i \in 1..10 : i = 1 \/ i = 2 \/ i = 3 \/ i = 4 \/ i = 5 \/ i = 6 \/ i = 7 \/ i = 8 \/ i = 9 \/ i = 10
    OBVIOUS
  <2>8. \A i \in 1..10 : ab[i] = f[i]
    BY <2>4, <2>5, <2>7
  <2>9. ab = f
    BY <2>5, <2>6, <2>8, SeqEqual
  <2> QED
    BY <2>9 DEF ab, f, a, b
<1>5. SubSeq(Format, 4, 14) = DateTimeFormat
  <2> DEFINE a == SubSeq(Format, 4, 14)
  <2>0. Format \in Seq(Tokens) /\ Len(Format) = 23 /\ \A i \in 1..23 : Format[i] \in Tokens
    BY FormatTokens, ElementOfSeq
  <2>1. a \in Seq(Tokens) /\ Len(a) = 11 /\ \A i \in 1..11 : a[i] = Format[3 + i]
    BY <2>0, SubSeqProperties
  <2> HIDE DEF a
  <2>a. /\ a[1] = Format[4] /\ a[2] = Format[5] /\ a[3] = Format[6] /\ a[4] = Format[7]
        /\ a[5] = Format[8] /\ a[6] = Format[9] /\ a[7] = Format[10] /\ a[8] = Format[11]
        /\ a[9] = Format[12] /\ a[10] = Format[13] /\ a[11] = Format[14]
    BY <2>1
  <2>2. /\ a[1] = "%d" /\ a[2] = "/" /\ a[3] = "%M" /\ a[4] = "/" /\ a[5] = "%Y" /\ a[6] = " "
        /\ a[7] = "%H" /\ a[8] = ":" /\ a[9] = "%m" /\ a[10] = ":" /\ a[11] = "%s"
    BY <2>a, FormatAt, ZenonT(40)
  <2> DEFINE d == DateTimeFormat
  <2>3. /\ d[1] = "%d" /\ d[2] = "/" /\ d[3] = "%M" /\ d[4] = "/" /\ d[5] = "%Y" /\ d[6] = " "
        /\ d[7] = "%H" /\ d[8] = ":" /\ d[9] = "%m" /\ d[10] = ":" /\ d[11] = "%s"
        /\ d \in Seq(Tokens) /\ Len(d) = 11
    BY DEF DateTimeFormat, Tokens
  <2> HIDE DEF d
  <2>4. \A i \in 1..11 : i = 1 \/ i = 2 \/ i = 3 \/ i = 4 \/ i = 5 \/ i = 6 \/ i = 7 \/ i = 8 \/ i = 9 \/ i = 10 \/ i = 11
    OBVIOUS
  <2>5. \A i \in 1..11 : a[i] = d[i]
    BY <2>2, <2>3, <2>4
  <2>6. a = d
    BY <2>1, <2>3, <2>5, SeqEqual
  <2> QED
    BY <2>6 DEF a, d
<1> DEFINE at == Plain(Format, "%datetime")
           i == Least(at) + 1
           close == Least({j \in i..Len(Format) : Format[j] = "}"} \cup {Len(Format) + 1})
<1>6. at = {2} /\ i = 3 /\ close = 15 /\ Len(Format) = 23
  <2>1. at = {2} /\ i = 3
    BY <1>1, FormatPlain
  <2> HIDE DEF at, i
  <2> QED
    BY <1>2, <2>1, FormatTokens
<1>7. DateFormat(Format) =
        CASE at = {} -> [text |-> Format, format |-> <<>>]
          [] at # {} /\ i =< Len(Format) /\ Format[i] = "{" ->
                [text   |-> SubSeq(Format, 1, i - 1) \o SubSeq(Format, close + 1, Len(Format)),
                 format |-> SubSeq(Format, i + 1, close - 1)]
          [] OTHER -> [text |-> Format, format |-> DefaultDateTimeFormat]
  BY DEF DateFormat, SplitDateFormat
<1> HIDE DEF at, i, close
<1>8. DateFormat(Format) =
         [text   |-> SubSeq(Format, 1, i - 1) \o SubSeq(Format, close + 1, Len(Format)),
          format |-> SubSeq(Format, i + 1, close - 1)]
  <2>a. at # {} /\ i =< Len(Format)
    BY <1>6
  <2>b. Format[i] = "{"
    BY <1>3, <1>6
  <2>1. at # {} /\ i =< Len(Format) /\ Format[i] = "{"
    BY <2>a, <2>b
  <2> QED
    BY <1>7, <2>1
<1>9. /\ SubSeq(Format, 1, i - 1) = SubSeq(Format, 1, 2)
      /\ SubSeq(Format, close + 1, Len(Format)) = SubSeq(Format, 16, 23)
      /\ SubSeq(Format, i + 1, close - 1) = SubSeq(Format, 4, 14)
  BY <1>6
<1> QED
  BY <1>4, <1>5, <1>8, <1>9

\* The levels' short names are tokens, and no specifiers.
LEMMA ShortNames ==
    ASSUME NEW level \in AllLevels
    PROVE  /\ LevelShortName[level] \in {"T", "D", "F", "E", "W", "V", "I"}
           /\ LevelShortName[level] \in Tokens /\ level \in DOMAIN LevelName
<1>1. LevelShortName[level] \in {"T", "D", "F", "E", "W", "V", "I"} /\ level \in DOMAIN LevelName
  BY DEF AllLevels, LevelShortName, LevelName
<1>2. {"T", "D", "F", "E", "W", "V", "I"} \subseteq Tokens
  BY Zenon DEF Tokens
<1> QED
  BY <1>1, <1>2

LEMMA FourTexts ==
    ASSUME NEW a \in Seq(Tokens), NEW b \in Seq(Tokens), NEW c \in Seq(Tokens), NEW d \in Seq(Tokens)
    PROVE  a \o (b \o (c \o d)) = ((a \o b) \o c) \o d
<1>1. c \o d \in Seq(Tokens) /\ a \o b \in Seq(Tokens)
  BY ConcatProperties
<1>2. a \o (b \o (c \o d)) = (a \o b) \o (c \o d)
  BY <1>1, ThreeTexts, ZenonT(40)
<1>3. (a \o b) \o (c \o d) = ((a \o b) \o c) \o d
  BY <1>1, ThreeTexts, SMTT(40)
<1> QED
  BY <1>2, <1>3

LEMMA NumbersToTen ==
    \A i \in 1..10 : i = 1 \/ i = 2 \/ i = 3 \/ i = 4 \/ i = 5 \/ i = 6 \/ i = 7 \/ i = 8 \/ i = 9 \/ i = 10
OBVIOUS

\* In the format of a level only %datetime and what is behind the level's name are left.
LEMMA LevelFormatHasNot ==
    ASSUME NEW short \in Tokens, NEW what, what # short,
           what \notin {"[", "%datetime", "] ", " ", "%fbase", ":", "%line", "%msg"}
    PROVE  \A i \in 1..Len(LevelFormat(short)) : LevelFormat(short)[i] # what
<1>2. Len(LevelFormat(short)) = 10
  BY LevelFormatAt
<1> DEFINE text == LevelFormat(short)
<1>1. /\ text[1] = "[" /\ text[2] = "%datetime" /\ text[3] = "] " /\ text[4] = short /\ text[5] = " "
      /\ text[6] = "%fbase" /\ text[7] = ":" /\ text[8] = "%line" /\ text[9] = " " /\ text[10] = "%msg"
  BY LevelFormatAt, Zenon
<1> HIDE DEF text
<1>a. text[1] # what
  BY <1>1, Zenon
<1>b. text[2] # what
  BY <1>1, Zenon
<1>c. text[3] # what
  BY <1>1, Zenon
<1>d. text[4] # what
  BY <1>1, Zenon
<1>e. text[5] # what
  BY <1>1, Zenon
<1>f. text[6] # what
  BY <1>1, Zenon
<1>g. text[7] # what
  BY <1>1, Zenon
<1>h. text[8] # what
  BY <1>1, Zenon
<1>i. text[9] # what
  BY <1>1, Zenon
<1>j. text[10] # what
  BY <1>1, Zenon
<1>3. \A i \in 1..10 : text[i] # what
  BY <1>a, <1>b, <1>c, <1>d, <1>e, <1>f, <1>g, <1>h, <1>i, <1>j, NumbersToTen, Zenon
<1> QED
  BY <1>2, <1>3 DEF text

\* Filling in the level's short name.
LEMMA ShortNameFilledIn ==
    ASSUME NEW short \in Tokens
    PROVE  ReplaceFirstWithEscape(LevelFormat("%levshort"), "%levshort", <<short>>) = LevelFormat(short)
<1> DEFINE a == <<"[">>
           b == <<"%datetime">>
           c == <<"] ">>
           d == <<" ">> \o (<<"%fbase">> \o (<<":">> \o (<<"%line">> \o (<<" ">> \o <<"%msg">>))))
           pre == (a \o b) \o c
<1>1. /\ "[" \in Tokens /\ "%datetime" \in Tokens /\ "] " \in Tokens /\ " " \in Tokens /\ "%levshort" \in Tokens
      /\ "%fbase" \in Tokens /\ ":" \in Tokens /\ "%line" \in Tokens /\ "%msg" \in Tokens
  BY Zenon DEF Tokens
<1>2. \A x \in Tokens : <<x>> \in Seq(Tokens) /\ Len(<<x>>) = 1 /\ <<x>>[1] = x
  OBVIOUS
<1>3. \A s, t \in Seq(Tokens) : s \o t \in Seq(Tokens)
  BY ConcatProperties
<1>4. a \in Seq(Tokens) /\ b \in Seq(Tokens) /\ c \in Seq(Tokens)
  BY <1>1, <1>2, Zenon
<1>5. d \in Seq(Tokens)
  <2>1. <<" ">> \in Seq(Tokens) /\ <<"%fbase">> \in Seq(Tokens) /\ <<":">> \in Seq(Tokens)
        /\ <<"%line">> \in Seq(Tokens) /\ <<"%msg">> \in Seq(Tokens)
    BY <1>1, <1>2, Zenon
  <2> QED
    BY <1>3, <2>1, Zenon
<1>6. /\ pre \in Seq(Tokens) /\ Len(pre) = 3
      /\ pre[1] = "[" /\ pre[2] = "%datetime" /\ pre[3] = "] "
  <2> DEFINE x == "["
             y == "%datetime"
             z == "] "
  <2>1. a = <<x>> /\ b = <<y>> /\ c = <<z>> /\ x \in Tokens /\ y \in Tokens /\ z \in Tokens
    BY <1>1, Zenon
  <2> HIDE DEF x, y, z
  <2>2. /\ pre \in Seq(Tokens) /\ Len(pre) = 3
        /\ pre[1] = x /\ pre[2] = y /\ pre[3] = z
    <3> HIDE DEF a, b, c
    <3>1. /\ a \in Seq(Tokens) /\ b \in Seq(Tokens) /\ c \in Seq(Tokens)
          /\ Len(a) = 1 /\ Len(b) = 1 /\ Len(c) = 1 /\ a[1] = x /\ b[1] = y /\ c[1] = z
      BY <2>1
    <3>2. /\ a \o b \in Seq(Tokens) /\ Len(a \o b) = 2 /\ (a \o b)[1] = x /\ (a \o b)[2] = y
      BY <3>1, TwoTexts, SMTT(30)
    <3> QED
      BY <3>1, <3>2, TwoTexts
  <2> QED
    <3> HIDE DEF pre
    <3> QED
      BY <2>2, Zenon DEF x, y, z
<1>7. \A s \in Tokens : LevelFormat(s) = pre \o (<<s>> \o d)
  <2> SUFFICES ASSUME NEW s \in Tokens PROVE LevelFormat(s) = pre \o (<<s>> \o d)
    OBVIOUS
  <2>1. LevelFormat(s) = a \o (b \o (c \o (<<s>> \o d)))
    BY DEF LevelFormat, Rest
  <2> HIDE DEF a, b, c, d
  <2>2. <<s>> \o d \in Seq(Tokens)
    BY <1>2, <1>3, <1>5
  <2> DEFINE x == <<s>> \o d
  <2>a. x \in Seq(Tokens)
    BY <2>2
  <2> HIDE DEF x
  <2>3. a \o (b \o (c \o x)) = ((a \o b) \o c) \o x
    <3>1. /\ a \in Seq(Tokens) /\ b \in Seq(Tokens) /\ c \in Seq(Tokens)
          /\ \A t1, t2, t3, t4 \in Seq(Tokens) : t1 \o (t2 \o (t3 \o t4)) = ((t1 \o t2) \o t3) \o t4
      BY <1>4, FourTexts
    <3>2. \A t4 \in Seq(Tokens) : a \o (b \o (c \o t4)) = ((a \o b) \o c) \o t4
      BY <3>1, ZenonT(30)
    <3>3. a \o (b \o (c \o x)) = ((a \o b) \o c) \o x
      BY <2>a, <3>2
    <3> QED
      BY <3>3
  <2> QED
    BY <2>1, <2>3 DEF x
<1> HIDE DEF pre, d
<1>6b. pre \in Seq(Tokens) /\ Len(pre) = 3
  BY <1>6, Zenon
<1>8. (\A i \in 1..Len(pre) : pre[i] # "%levshort") /\ pre[Len(pre)] # "%" /\ pre # <<>>
  <2>1. Len(pre) = 3 /\ \A i \in 1..3 : i = 1 \/ i = 2 \/ i = 3
    BY <1>6b
  <2>2. Len(<<>>) = 0
    OBVIOUS
  <2>3. \A i \in 1..3 : pre[i] # "%levshort"
    BY <1>6, <2>1, Zenon
  <2>4. pre[3] # "%"
    BY <1>6, Zenon
  <2> QED
    BY <2>1, <2>2, <2>3, <2>4
<1>9. ReplaceFirstWithEscape(pre \o (<<"%levshort">> \o d), "%levshort", <<short>>) = (pre \o <<short>>) \o d
  <2>1. "%levshort" \in Tokens /\ <<short>> \in Seq(Tokens)
    BY <1>1, <1>2, Zenon
  <2> QED
    BY <1>5, <1>6b, <1>8, <2>1, ReplaceIn
<1>10. (pre \o <<short>>) \o d = pre \o (<<short>> \o d)
  BY <1>2, <1>5, <1>6b, ThreeTexts
<1> QED
  BY <1>1, <1>7, <1>9, <1>10

\* What is configured for a level.
LEMMA ConfiguredFormat ==
    ASSUME NEW level \in AllLevels, NEW environ, NEW id,
           NEW f, f = ResolveLoggerFormatSpec(LogFormatOf(level, Format, environ), id)
    PROVE  /\ f.format = LevelFormat(LevelShortName[level])
           /\ f.dateTimeFormat = DateTimeFormat
           /\ f.flags = FormatFlags
<1> DEFINE short == LevelShortName[level]
           text == LevelFormat("%levshort")
           date == DateFormat(Format)
           fs == FlagsOf(Format) \cup (IF Plain(Format, "%datetime") = {} THEN {} ELSE {"%datetime"})
<1>1. short \in Tokens /\ short # "%logger" /\ "%levshort" \in Tokens
  <2>1. "%levshort" \in Tokens
    BY Zenon DEF Tokens
  <2> QED
    BY <2>1, ShortNames
<1>2. date.text = text /\ date.format = DateTimeFormat
  BY FormatDate
<1>3. fs = FormatFlags
  BY FormatPlain DEF FormatFlags
<1>4. FormatSpec(level, text, fs, environ) = LevelFormat(short)
  <2>1. ReplaceFirstWithEscape(text, "%level", <<LevelName[level]>>) = text
    <3>1. \A i \in 1..Len(text) : text[i] # "%level"
      BY <1>1, LevelFormatHasNot
    <3>2. text \in Seq(Tokens) /\ Len(text) = 10
      BY <1>1, LevelFormatAt
    <3>3. text # <<>>
      BY <3>2
    <3> HIDE DEF text
    <3> QED
      BY <3>1, <3>2, <3>3, ReplaceNone
  <2>2. ReplaceFirstWithEscape(text, "%levshort", <<short>>) = LevelFormat(short)
    BY <1>1, ShortNameFilledIn
  <2>3. "%user" \notin fs /\ "%host" \notin fs
    <3> HIDE DEF fs
    <3> QED
      BY <1>3 DEF FormatFlags
  <2>4. level \in DOMAIN LevelName
    BY ShortNames
  <2> HIDE DEF text, fs
  <2> QED
    BY <2>1, <2>2, <2>3, <2>4 DEF FormatSpec
<1>5. ReplaceFirstWithEscape(LevelFormat(short), "%logger", <<id>>) = LevelFormat(short)
  <2>1. \A i \in 1..Len(LevelFormat(short)) : LevelFormat(short)[i] # "%logger"
    BY <1>1, LevelFormatHasNot
  <2>2. LevelFormat(short) \in Seq(Tokens) /\ Len(LevelFormat(short)) = 10
    BY <1>1, LevelFormatAt
  <2>3. LevelFormat(short) # <<>>
    BY <2>2, SMTT(30)
  <2> QED
    BY <2>1, <2>2, <2>3, ReplaceNone
<1> DEFINE g == LogFormatOf(level, Format, environ)
<1>6. g.format = FormatSpec(level, date.text, fs, environ) /\ g.dateTimeFormat = date.format /\ g.flags = fs
      /\ DOMAIN g = {"level", "userFormat", "format", "dateTimeFormat", "flags"}
  BY FormatHasNoEscapes DEF LogFormatOf
<1> HIDE DEF g, fs, date, text
<1>7. f = [g EXCEPT !.format = ReplaceFirstWithEscape(g.format, "%logger", <<id>>)]
  BY DEF ResolveLoggerFormatSpec, g
<1> QED
  BY <1>2, <1>3, <1>4, <1>5, <1>6, <1>7

-----------------------------------------------------------------------------
(* The parts of a line *)

LEMMA DigitType ==
    ASSUME NEW n \in 0..9
    PROVE  Digit(n) \in Tokens
<1> DEFINE digits == <<"0", "1", "2", "3", "4", "5", "6", "7", "8", "9">>
<1>1. {"0", "1", "2", "3", "4", "5", "6", "7", "8", "9"} \subseteq Tokens
  BY Zenon DEF Tokens
<1>2. \A i \in 1..10 : digits[i] \in {"0", "1", "2", "3", "4", "5", "6", "7", "8", "9"}
  BY NumbersToTen
<1>3. n + 1 \in 1..10 /\ Digit(n) = digits[n + 1]
  BY DEF Digit
<1> HIDE DEF digits
<1>4. Digit(n) \in {"0", "1", "2", "3", "4", "5", "6", "7", "8", "9"}
  BY <1>2, <1>3
<1> QED
  BY <1>1, <1>4

\* The numbers with two digits, and with four.
Hundred == 0..99
TenThousand == 0..9999

\* Two digits.
LEMMA TwoType ==
    ASSUME NEW n \in Hundred
    PROVE  /\ Two(n) \in Seq(Tokens) /\ Len(Two(n)) = 2
           /\ Two(n)[1] = Digit(n \div 10) /\ Two(n)[2] = Digit(n % 10)
<1>1. n \div 10 \in 0..9 /\ n % 10 \in 0..9
  BY DEF Hundred
<1>2. Digit(n \div 10) \in Tokens /\ Digit(n % 10) \in Tokens
  BY <1>1, DigitType
<1> QED
  BY <1>2 DEF Two

LEMMA WidthOfTwo ==
    ASSUME NEW n, NEW len \in {2, 4}
    PROVE  ConvertAndAddToBuff(n, len, TRUE) = [i \in 1..len |-> Digit((n \div 10 ^ (len - i)) % 10)]
<1>1. Min({8, len} \cup {}) = len
  BY DEF Min
<1> QED
  BY <1>1 DEF ConvertAndAddToBuff

LEMMA TwoDigits ==
    ASSUME NEW n \in Hundred
    PROVE  ConvertAndAddToBuff(n, 2, TRUE) = Two(n)
<1> DEFINE text == [i \in 1..2 |-> Digit((n \div 10 ^ (2 - i)) % 10)]
<1>1. (n \div 10 ^ (2 - 1)) % 10 = n \div 10 /\ (n \div 10 ^ (2 - 2)) % 10 = n % 10
  BY DEF Hundred
<1>2. text[1] = Digit(n \div 10) /\ text[2] = Digit(n % 10)
  BY <1>1
<1>3. text = <<Digit(n \div 10), Digit(n % 10)>>
  <2>1. \A i \in 1..2 : i = 1 \/ i = 2
    OBVIOUS
  <2>2. DOMAIN text = 1..2
    OBVIOUS
  <2>3. text = [i \in 1..2 |-> text[i]]
    OBVIOUS
  <2> HIDE DEF text
  <2> QED
    BY <1>2, <2>1, <2>2, <2>3
<1> QED
  BY <1>3, WidthOfTwo DEF Two

\* The four digits of a year.
LEMMA TenfoldAnd ==
    ASSUME NEW n \in Nat, NEW m \in Nat, n < 10 * m
    PROVE  /\ n \div 10 \in Nat /\ n \div 10 < m /\ n % 10 \in 0..9 /\ n = (10 * (n \div 10)) + (n % 10)
OBVIOUS

\* Two times two tokens.
LEMMA TwoAndTwo ==
    ASSUME NEW a \in Seq(Tokens), Len(a) = 2, NEW b \in Seq(Tokens), Len(b) = 2
    PROVE  /\ a \o b \in Seq(Tokens) /\ Len(a \o b) = 4
           /\ (a \o b)[1] = a[1] /\ (a \o b)[2] = a[2] /\ (a \o b)[3] = b[1] /\ (a \o b)[4] = b[2]
<1> DEFINE ab == a \o b
<1>1. /\ ab \in Seq(Tokens) /\ Len(ab) = Len(a) + Len(b)
      /\ \A i \in 1..Len(a) : ab[i] = a[i]
      /\ \A i \in 1..Len(b) : ab[Len(a) + i] = b[i]
  BY TwoTexts
<1> HIDE DEF ab
<1>2. /\ ab \in Seq(Tokens) /\ Len(ab) = 4
      /\ ab[1] = a[1] /\ ab[2] = a[2] /\ ab[2 + 1] = b[1] /\ ab[2 + 2] = b[2]
  BY <1>1
<1> QED
  BY <1>2 DEF ab

\* The four digits of a year.
LEMMA FourDigits ==
    ASSUME NEW n \in TenThousand
    PROVE  ConvertAndAddToBuff(n, 4, TRUE) = Two(n \div 100) \o Two(n % 100)
<1> DEFINE text == [i \in 1..4 |-> Digit((n \div 10 ^ (4 - i)) % 10)]
<1>n. n \in 0..9999
  BY DEF TenThousand
<1> DEFINE n3 == n \div 10
           n2 == n3 \div 10
           q1 == n2 \div 10
           q2 == n2 % 10
           q3 == n3 % 10
           q4 == n % 10
<1>a. n3 \in 0..999 /\ q4 \in 0..9 /\ n = 10 * n3 + q4
  <2>1. n \in Nat /\ n < 10 * 1000
    BY <1>n
  <2>2. n \div 10 \in Nat /\ n \div 10 < 1000 /\ n % 10 \in 0..9 /\ n = (10 * (n \div 10)) + (n % 10)
    BY <2>1
  <2> QED
    BY <2>2
<1>b. n2 \in 0..99 /\ q3 \in 0..9 /\ n3 = 10 * n2 + q3
  BY <1>a, TenfoldAnd
<1>c. q1 \in 0..9 /\ q2 \in 0..9 /\ n2 = 10 * q1 + q2
  BY <1>b, TenfoldAnd
<1> HIDE DEF n3, n2, q1, q2, q3, q4
<1>0. n = 1000 * q1 + 100 * q2 + 10 * q3 + q4
  BY <1>a, <1>b, <1>c
<1>1. /\ (n \div 10 ^ (4 - 1)) % 10 = q1 /\ (n \div 10 ^ (4 - 2)) % 10 = q2
  <2>1. (n \div 1000) % 10 = q1
    BY <1>0, <1>a, <1>b, <1>c, <1>n, SMTT(20)
  <2>2. (n \div 100) % 10 = q2
    BY <1>0, <1>a, <1>b, <1>c, <1>n, SMTT(20)
  <2>3. 10 ^ (4 - 1) = 1000 /\ 10 ^ (4 - 2) = 100
    OBVIOUS
  <2> QED
    BY <2>1, <2>2, <2>3
<1>2. /\ (n \div 10 ^ (4 - 3)) % 10 = q3 /\ (n \div 10 ^ (4 - 4)) % 10 = q4
  <2>1. (n \div 10) % 10 = q3
    BY <1>0, <1>a, <1>b, <1>c, <1>n, SMTT(20)
  <2>2. (n \div 1) % 10 = q4
    BY <1>0, <1>a, <1>b, <1>c, <1>n, SMTT(20)
  <2>3. 10 ^ (4 - 3) = 10 /\ 10 ^ (4 - 4) = 1
    OBVIOUS
  <2> QED
    BY <2>1, <2>2, <2>3
<1> DEFINE u == n \div 100
           v == n % 100
<1>3. /\ u \in 0..99 /\ v \in 0..99
      /\ u \div 10 = q1 /\ u % 10 = q2 /\ v \div 10 = q3 /\ v % 10 = q4
  <2>1. u = 10 * q1 + q2
    BY <1>0, <1>a, <1>b, <1>c, <1>n, SMTT(20)
  <2>2. v = 10 * q3 + q4
    BY <1>0, <1>a, <1>b, <1>c, <1>n, SMTT(20)
  <2>3. 10 * q1 + q2 \in 0..99 /\ 10 * q3 + q4 \in 0..99
    BY <1>a, <1>b, <1>c
  <2>4. (10 * q1 + q2) \div 10 = q1 /\ (10 * q1 + q2) % 10 = q2
    BY <1>a, <1>b, <1>c
  <2>5. (10 * q3 + q4) \div 10 = q3 /\ (10 * q3 + q4) % 10 = q4
    BY <1>a, <1>b, <1>c
  <2> HIDE DEF u, v
  <2> QED
    BY <2>1, <2>2, <2>3, <2>4, <2>5
<1> DEFINE a == Two(u)
           b == Two(v)
<1>4. a = Two(u) /\ b = Two(v)
  OBVIOUS
<1> HIDE DEF a, b
<1>5. /\ a \in Seq(Tokens) /\ Len(a) = 2 /\ a[1] = Digit(q1) /\ a[2] = Digit(q2)
      /\ b \in Seq(Tokens) /\ Len(b) = 2 /\ b[1] = Digit(q3) /\ b[2] = Digit(q4)
  <2> HIDE DEF u, v
  <2>1. Two(u) \in Seq(Tokens) /\ Len(Two(u)) = 2 /\ Two(u)[1] = Digit(q1) /\ Two(u)[2] = Digit(q2)
    <3>1. /\ Two(u) \in Seq(Tokens) /\ Len(Two(u)) = 2
          /\ Two(u)[1] = Digit(u \div 10) /\ Two(u)[2] = Digit(u % 10)
      BY <1>3, TwoType DEF Hundred
    <3> QED
      BY <1>3, <3>1, Zenon
  <2>2. Two(v) \in Seq(Tokens) /\ Len(Two(v)) = 2 /\ Two(v)[1] = Digit(q3) /\ Two(v)[2] = Digit(q4)
    <3>1. /\ Two(v) \in Seq(Tokens) /\ Len(Two(v)) = 2
          /\ Two(v)[1] = Digit(v \div 10) /\ Two(v)[2] = Digit(v % 10)
      BY <1>3, TwoType DEF Hundred
    <3> QED
      BY <1>3, <3>1, Zenon
  <2> QED
    BY <1>4, <2>1, <2>2
<1> DEFINE ab == a \o b
<1>6. ab = a \o b
  OBVIOUS
<1> HIDE DEF ab
<1>7. /\ ab \in Seq(Tokens) /\ Len(ab) = 4
      /\ ab[1] = Digit(q1) /\ ab[2] = Digit(q2) /\ ab[3] = Digit(q3) /\ ab[4] = Digit(q4)
  BY <1>5, <1>6, TwoAndTwo
<1>8. text[1] = Digit(q1) /\ text[2] = Digit(q2) /\ text[3] = Digit(q3) /\ text[4] = Digit(q4)
  BY <1>1, <1>2
<1>9. \A i \in 1..4 : i = 1 \/ i = 2 \/ i = 3 \/ i = 4
  OBVIOUS
<1>10. Len(text) = 4 /\ text \in Seq(Tokens)
  <2>1. Len(text) = 4 /\ DOMAIN text = 1..4
    OBVIOUS
  <2>2. Digit(q1) \in Tokens /\ Digit(q2) \in Tokens /\ Digit(q3) \in Tokens /\ Digit(q4) \in Tokens
    BY <1>a, <1>b, <1>c, DigitType
  <2>3. \A i \in 1..4 : text[i] \in Tokens
    <3> HIDE DEF text
    <3> QED
      BY <1>8, <1>9, <2>2
  <2>4. text = [i \in 1..4 |-> text[i]]
    OBVIOUS
  <2> HIDE DEF text
  <2> QED
    BY <2>1, <2>3, <2>4
<1>11. text = ab
  <2> HIDE DEF text
  <2>1. \A i \in 1..4 : text[i] = ab[i]
    BY <1>7, <1>8, <1>9
  <2> QED
    BY <1>7, <1>10, <2>1, SeqEqual
<1>12. ConvertAndAddToBuff(n, 4, TRUE) = text
  <2>1. \A len \in {2, 4} : ConvertAndAddToBuff(n, len, TRUE) = [i \in 1..len |-> Digit((n \div 10 ^ (len - i)) % 10)]
    BY WidthOfTwo, Zenon
  <2>2. 4 \in {2, 4}
    BY SMTT(20)
  <2> QED
    BY <2>1, <2>2, Zenon
<1> QED
  <2> HIDE DEF text
  <2>1. ab = Two(n \div 100) \o Two(n % 100)
    BY DEF ab, a, b
  <2> QED
    BY <1>11, <1>12, <2>1, Zenon

\* Eleven texts that are put together.
LEMMA ElevenParts ==
    ASSUME NEW seqs, Len(seqs) = 11, \A i \in 1..11 : seqs[i] \in Seq(Tokens)
    PROVE  /\ FlattenSeq(seqs) = seqs[1] \o seqs[2] \o seqs[3] \o seqs[4] \o seqs[5] \o seqs[6]
                                    \o seqs[7] \o seqs[8] \o seqs[9] \o seqs[10] \o seqs[11]
           /\ FlattenSeq(seqs) \in Seq(Tokens)
           /\ Len(FlattenSeq(seqs)) = Len(seqs[1]) + Len(seqs[2]) + Len(seqs[3]) + Len(seqs[4])
                  + Len(seqs[5]) + Len(seqs[6]) + Len(seqs[7]) + Len(seqs[8]) + Len(seqs[9])
                  + Len(seqs[10]) + Len(seqs[11])
<1> DEFINE p1 == seqs[1]
           p2 == seqs[2]
           p3 == seqs[3]
           p4 == seqs[4]
           p5 == seqs[5]
           p6 == seqs[6]
           p7 == seqs[7]
           p8 == seqs[8]
           p9 == seqs[9]
           p10 == seqs[10]
           p11 == seqs[11]
<1>0. /\ p1 \in Seq(Tokens) /\ p1 = seqs[1]
      /\ p2 \in Seq(Tokens) /\ p2 = seqs[2]
      /\ p3 \in Seq(Tokens) /\ p3 = seqs[3]
      /\ p4 \in Seq(Tokens) /\ p4 = seqs[4]
      /\ p5 \in Seq(Tokens) /\ p5 = seqs[5]
      /\ p6 \in Seq(Tokens) /\ p6 = seqs[6]
      /\ p7 \in Seq(Tokens) /\ p7 = seqs[7]
      /\ p8 \in Seq(Tokens) /\ p8 = seqs[8]
      /\ p9 \in Seq(Tokens) /\ p9 = seqs[9]
      /\ p10 \in Seq(Tokens) /\ p10 = seqs[10]
      /\ p11 \in Seq(Tokens) /\ p11 = seqs[11]
  OBVIOUS
<1> HIDE DEF p1, p2, p3, p4, p5, p6, p7, p8, p9, p10, p11
<1> DEFINE h1 == p1
           h2 == h1 \o p2
           h3 == h2 \o p3
           h4 == h3 \o p4
           h5 == h4 \o p5
           h6 == h5 \o p6
           h7 == h6 \o p7
           h8 == h7 \o p8
           h9 == h8 \o p9
           h10 == h9 \o p10
           h11 == h10 \o p11
           g == <<h1, h2, h3, h4, h5, h6, h7, h8, h9, h10, h11>>
<1>1. /\ h2 = h1 \o p2
      /\ h3 = h2 \o p3
      /\ h4 = h3 \o p4
      /\ h5 = h4 \o p5
      /\ h6 = h5 \o p6
      /\ h7 = h6 \o p7
      /\ h8 = h7 \o p8
      /\ h9 = h8 \o p9
      /\ h10 = h9 \o p10
      /\ h11 = h10 \o p11
  OBVIOUS
<1>2. h11 = p1 \o p2 \o p3 \o p4 \o p5 \o p6 \o p7 \o p8 \o p9 \o p10 \o p11
  OBVIOUS
<1> HIDE DEF h2, h3, h4, h5, h6, h7, h8, h9, h10, h11
<1>3. /\ g[1] = h1 /\ g[2] = h2 /\ g[3] = h3 /\ g[4] = h4 /\ g[5] = h5
      /\ g[6] = h6 /\ g[7] = h7 /\ g[8] = h8 /\ g[9] = h9 /\ g[10] = h10 /\ g[11] = h11
  OBVIOUS
<1>4. g = [i \in 1..11 |-> g[i]]
  OBVIOUS
<1>5. \A i \in 1..11 : i = 1 \/ i = 2 \/ i = 3 \/ i = 4 \/ i = 5 \/ i = 6 \/ i = 7 \/ i = 8 \/ i = 9 \/ i = 10 \/ i = 11
  BY SMTT(30)
<1> HIDE DEF g
<1>6. /\ g[2] = g[1] \o seqs[2]
      /\ g[3] = g[2] \o seqs[3]
      /\ g[4] = g[3] \o seqs[4]
      /\ g[5] = g[4] \o seqs[5]
      /\ g[6] = g[5] \o seqs[6]
      /\ g[7] = g[6] \o seqs[7]
      /\ g[8] = g[7] \o seqs[8]
      /\ g[9] = g[8] \o seqs[9]
      /\ g[10] = g[9] \o seqs[10]
      /\ g[11] = g[10] \o seqs[11]
  BY <1>0, <1>1, <1>3
<1>7. ASSUME NEW i \in 1..11, i # 1 PROVE g[i] = g[i - 1] \o seqs[i]
  <2>2. CASE i = 2
    <3>1. i - 1 = 1
      BY <2>2
    <3> QED
      BY <1>6, <2>2, <3>1
  <2>3. CASE i = 3
    <3>1. i - 1 = 2
      BY <2>3
    <3> QED
      BY <1>6, <2>3, <3>1
  <2>4. CASE i = 4
    <3>1. i - 1 = 3
      BY <2>4
    <3> QED
      BY <1>6, <2>4, <3>1
  <2>5. CASE i = 5
    <3>1. i - 1 = 4
      BY <2>5
    <3> QED
      BY <1>6, <2>5, <3>1
  <2>6. CASE i = 6
    <3>1. i - 1 = 5
      BY <2>6
    <3> QED
      BY <1>6, <2>6, <3>1
  <2>7. CASE i = 7
    <3>1. i - 1 = 6
      BY <2>7
    <3> QED
      BY <1>6, <2>7, <3>1
  <2>8. CASE i = 8
    <3>1. i - 1 = 7
      BY <2>8
    <3> QED
      BY <1>6, <2>8, <3>1
  <2>9. CASE i = 9
    <3>1. i - 1 = 8
      BY <2>9
    <3> QED
      BY <1>6, <2>9, <3>1
  <2>10. CASE i = 10
    <3>1. i - 1 = 9
      BY <2>10
    <3> QED
      BY <1>6, <2>10, <3>1
  <2>11. CASE i = 11
    <3>1. i - 1 = 10
      BY <2>11
    <3> QED
      BY <1>6, <2>11, <3>1
  <2> QED
    BY <1>5, <1>7, <2>2, <2>3, <2>4, <2>5, <2>6, <2>7, <2>8, <2>9, <2>10, <2>11
<1>8. \A i \in 1..11 : g[i] = Joined(seqs, g, i)
  BY <1>0, <1>3, <1>7 DEF Joined
<1>9. g = [i \in 1..Len(seqs) |-> Joined(seqs, g, i)]
  BY <1>4, <1>8
<1>10. FlattenSeq(seqs) = g[11]
  <2>1. Len(seqs) \in Nat \ {0}
    OBVIOUS
  <2> QED
    BY <1>9, <2>1, FlattenIs
<1>t2. h2 \in Seq(Tokens) /\ Len(h2) = Len(h1) + Len(p2)
  BY <1>0, <1>1, TwoTexts
<1>t3. h3 \in Seq(Tokens) /\ Len(h3) = Len(h2) + Len(p3)
  BY <1>0, <1>t2, <1>1, TwoTexts, SMTT(20)
<1>t4. h4 \in Seq(Tokens) /\ Len(h4) = Len(h3) + Len(p4)
  BY <1>0, <1>t3, <1>1, TwoTexts, SMTT(20)
<1>t5. h5 \in Seq(Tokens) /\ Len(h5) = Len(h4) + Len(p5)
  BY <1>0, <1>t4, <1>1, TwoTexts, SMTT(20)
<1>t6. h6 \in Seq(Tokens) /\ Len(h6) = Len(h5) + Len(p6)
  BY <1>0, <1>t5, <1>1, TwoTexts, SMTT(20)
<1>t7. h7 \in Seq(Tokens) /\ Len(h7) = Len(h6) + Len(p7)
  BY <1>0, <1>t6, <1>1, TwoTexts, SMTT(20)
<1>t8. h8 \in Seq(Tokens) /\ Len(h8) = Len(h7) + Len(p8)
  BY <1>0, <1>t7, <1>1, TwoTexts, SMTT(20)
<1>t9. h9 \in Seq(Tokens) /\ Len(h9) = Len(h8) + Len(p9)
  BY <1>0, <1>t8, <1>1, TwoTexts, SMTT(20)
<1>t10. h10 \in Seq(Tokens) /\ Len(h10) = Len(h9) + Len(p10)
  BY <1>0, <1>t9, <1>1, TwoTexts, SMTT(20)
<1>t11. h11 \in Seq(Tokens) /\ Len(h11) = Len(h10) + Len(p11)
  BY <1>0, <1>t10, <1>1, TwoTexts, SMTT(20)
<1>11. Len(p1) \in Nat
  BY <1>0, LenProperties
<1> QED
  BY <1>0, <1>2, <1>3, <1>10, <1>11, <1>t2, <1>t3, <1>t4, <1>t5, <1>t6, <1>t7, <1>t8, <1>t9, <1>t10, <1>t11

\* A line number.
LEMMA DecimalIs ==
    ASSUME NEW n \in LineNumbers
    PROVE  /\ ConvertAndAddToBuff(n, SourceLineMaxLength, FALSE) = Decimal(n)
           /\ Decimal(n) \in Seq(Tokens)
<1>n. n \in 1..999
  BY DEF LineNumbers
<1>s. SourceLineMaxLength = 10
  BY DEF SourceLineMaxLength
<1>1. CASE n < 10
  <2>1. NumberOfDigits(n) = 1
    BY <1>n, <1>1 DEF NumberOfDigits
  <2>2. Min({8, 10} \cup {1}) = 1
    BY DEF Min
  <2>3. ConvertAndAddToBuff(n, 10, FALSE) = [i \in 1..1 |-> Digit((n \div 10 ^ (1 - i)) % 10)]
    BY <2>1, <2>2 DEF ConvertAndAddToBuff
  <2>4. (n \div 10 ^ (1 - 1)) % 10 = n
    BY <1>n, <1>1
  <2> DEFINE text == [i \in 1..1 |-> Digit((n \div 10 ^ (1 - i)) % 10)]
  <2>5. text[1] = Digit(n)
    BY <2>4
  <2>6. text = <<Digit(n)>>
    <3>1. text = [i \in 1..1 |-> text[i]] /\ \A i \in 1..1 : i = 1
      OBVIOUS
    <3> HIDE DEF text
    <3> QED
      BY <2>5, <3>1
  <2>7. Decimal(n) = <<Digit(n)>>
    <3>1. ~(n \in 10..99) /\ ~(n > 99)
      BY <1>n, <1>1
    <3> QED
      BY <1>1, <3>1, Zenon DEF Decimal
  <2>8. Digit(n) \in Tokens
    BY <1>n, <1>1, DigitType
  <2>9. ConvertAndAddToBuff(n, 10, FALSE) = text
    BY <2>3
  <2> HIDE DEF text
  <2>10. <<Digit(n)>> \in Seq(Tokens)
    BY <2>8
  <2> QED
    BY <1>s, <2>6, <2>7, <2>9, <2>10
<1>2. CASE n \in 10..99
  <2>1. NumberOfDigits(n) = 2
    BY <1>2 DEF NumberOfDigits
  <2>2. Min({8, 10} \cup {2}) = 2
    BY DEF Min
  <2>3. ConvertAndAddToBuff(n, 10, FALSE) = [i \in 1..2 |-> Digit((n \div 10 ^ (2 - i)) % 10)]
    BY <2>1, <2>2 DEF ConvertAndAddToBuff
  <2>4. n \in Hundred
    BY <1>2 DEF Hundred
  <2>5. ConvertAndAddToBuff(n, 2, TRUE) = [i \in 1..2 |-> Digit((n \div 10 ^ (2 - i)) % 10)]
    BY WidthOfTwo
  <2>6. ConvertAndAddToBuff(n, 2, TRUE) = Two(n) /\ Two(n) \in Seq(Tokens)
    BY <2>4, TwoDigits, TwoType
  <2>7. Decimal(n) = Two(n)
    <3>1. ~(n < 10) /\ ~(n > 99)
      BY <1>2
    <3> QED
      BY <1>2, <3>1, Zenon DEF Decimal
  <2> DEFINE text == [i \in 1..2 |-> Digit((n \div 10 ^ (2 - i)) % 10)]
  <2>8. ConvertAndAddToBuff(n, 10, FALSE) = text /\ ConvertAndAddToBuff(n, 2, TRUE) = text
    BY <2>3, <2>5
  <2> HIDE DEF text
  <2> QED
    BY <1>s, <2>6, <2>7, <2>8
<1>3. CASE n > 99
  <2>1. NumberOfDigits(n) = 3
    BY <1>n, <1>3 DEF NumberOfDigits
  <2>2. Min({8, 10} \cup {3}) = 3
    BY DEF Min
  <2> DEFINE text == [i \in 1..3 |-> Digit((n \div 10 ^ (3 - i)) % 10)]
             q == n \div 100
             r == n % 100
             b == Two(r)
             one == <<Digit(q)>>
  <2>3. ConvertAndAddToBuff(n, 10, FALSE) = text
    BY <2>1, <2>2 DEF ConvertAndAddToBuff
  <2>4. q \in 0..9 /\ r \in 0..99 /\ n = 100 * q + r
    <3>1. n \div 100 \in 0..9
      BY <1>n
    <3>2. n % 100 \in 0..99
      BY <1>n
    <3>3. n = 100 * (n \div 100) + (n % 100)
      BY <1>n
    <3> QED
      BY <3>1, <3>2, <3>3
  <2>5. Decimal(n) = one \o b
    BY <1>n, <1>3 DEF Decimal
  <2> HIDE DEF q, r
  <2>6. r \in Hundred
    BY <2>4 DEF Hundred
  <2>7. /\ b \in Seq(Tokens) /\ Len(b) = 2 /\ b[1] = Digit(r \div 10) /\ b[2] = Digit(r % 10)
    BY <2>6, TwoType
  <2>8. Digit(q) \in Tokens
    BY <2>4, DigitType
  <2> DEFINE d == one \o b
  <2>9. /\ d \in Seq(Tokens) /\ Len(d) = 3 /\ d[1] = Digit(q) /\ d[2] = b[1] /\ d[3] = b[2]
    <3> HIDE DEF b
    <3>1. /\ d \in Seq(Tokens) /\ Len(d) = 1 + Len(b) /\ d[1] = Digit(q)
          /\ \A i \in 1..(1 + Len(b)) : i # 1 => d[i] = b[i - 1]
      BY <2>7, <2>8, InFront
    <3> HIDE DEF d
    <3> QED
      BY <2>7, <3>1
  <2>10. (n \div 10 ^ (3 - 1)) % 10 = q /\ (n \div 10 ^ (3 - 2)) % 10 = r \div 10 /\ (n \div 10 ^ (3 - 3)) % 10 = r % 10
    <3>1. 10 ^ (3 - 1) = 100 /\ 10 ^ (3 - 2) = 10 /\ 10 ^ (3 - 3) = 1
      OBVIOUS
    <3>2. (n \div 100) % 10 = q
      BY <2>4
    <3>3. (n \div 10) % 10 = r \div 10
      BY <2>4
    <3>4. (n \div 1) % 10 = r % 10
      BY <2>4
    <3> QED
      BY <3>1, <3>2, <3>3, <3>4
  <2>11. text[1] = Digit(q) /\ text[2] = Digit(r \div 10) /\ text[3] = Digit(r % 10)
    BY <2>10
  <2>12. text = [i \in 1..3 |-> text[i]] /\ d = [i \in 1..3 |-> d[i]]
    <3>1. text = [i \in 1..3 |-> text[i]]
      OBVIOUS
    <3>2. d = [i \in 1..3 |-> d[i]]
      <4> HIDE DEF d
      <4> QED
        BY <2>9
    <3> QED
      BY <3>1, <3>2
  <2>13. \A i \in 1..3 : text[i] = d[i]
    <3>1. \A i \in 1..3 : i = 1 \/ i = 2 \/ i = 3
      OBVIOUS
    <3> HIDE DEF text, d, b
    <3> QED
      BY <2>7, <2>9, <2>11, <3>1
  <2> HIDE DEF text, d
  <2>14. text = d
    BY <2>12, <2>13
  <2> QED
    BY <1>s, <2>3, <2>5, <2>9, <2>14 DEF d
<1>4. n < 10 \/ n \in 10..99 \/ n > 99
  BY <1>n
<1> QED
  BY <1>1, <1>2, <1>3, <1>4

LEMMA OneOf ==
    ASSUME NEW S, NEW s \in Seq(S), NEW n \in 1..Len(s)
    PROVE  SubSeq(s, n, n) = <<s[n]>>
<1> DEFINE one == SubSeq(s, n, n)
<1>1. Len(s) \in Nat /\ n \in 1..Len(s)
  BY LenProperties
<1>2. one \in Seq(S) /\ Len(one) = 1 /\ one[1] = s[n]
  BY <1>1, SubSeqProperties
<1>3. s[n] \in S
  BY ElementOfSeq
<1> HIDE DEF one
<1>4. one = <<s[n]>>
  BY <1>2, <1>3
<1> QED
  BY <1>4 DEF one

\* A file's name without its directories.
LEMMA BaseFilenameIs ==
    ASSUME NEW path \in Seq(STRING), path # <<>>, Last(path) # "/",
           Len(path) > 1 => Len(path) > 2 /\ path[Len(path) - 1] = "/"
    PROVE  BaseFilename(path) = <<Last(path)>> /\ Last(path) \in STRING
<1> DEFINE slashes == {i \in DOMAIN path : path[i] = "/"}
           n == Len(path)
<1>1. n \in Nat /\ n # 0 /\ DOMAIN path = 1..n
  BY LenProperties, EmptySeq
<1>2. n \notin slashes /\ slashes \subseteq 1..n
  BY <1>1 DEF Last
<1>3. Max({0} \cup slashes) = n - 1
  <2>1. n - 1 \in {0} \cup slashes
    BY <1>1
  <2>2. \A i \in {0} \cup slashes : i =< n - 1
    BY <1>1, <1>2
  <2> DEFINE set == {0} \cup slashes
  <2>a. n - 1 \in set /\ \A i \in set : i =< n - 1 /\ i \in Int
    BY <1>1, <1>2, <2>1, <2>2
  <2> HIDE DEF set, slashes
  <2>3. Max(set) = n - 1
    <3>1. \A x \in set : (\A y \in set : x >= y) => x = n - 1
      BY <1>1, <2>a
    <3>2. \A y \in set : n - 1 >= y
      BY <1>1, <2>a
    <3> QED
      BY <2>a, <3>1, <3>2 DEF Max
  <2> QED
    BY <2>3 DEF set
<1>0. n > 1 => n > 2
  OBVIOUS
<1>4. n - 1 # 1
  <2> HIDE DEF n, slashes
  <2> QED
    BY <1>0, <1>1
<1>5. BaseFilename(path) = SubSeq(path, n, n)
  <2>1. (n - 1) + 1 = n
    BY <1>1
  <2> HIDE DEF slashes
  <2> QED
    BY <1>3, <1>4, <2>1 DEF BaseFilename, slashes
<1>6. SubSeq(path, n, n) = <<path[n]>> /\ path[n] \in STRING
  <2>1. n \in 1..n
    BY <1>1
  <2>2. path[n] \in STRING
    BY <2>1, ElementOfSeq
  <2>3. SubSeq(path, n, n) = <<path[n]>>
    <3> HIDE DEF slashes, n
    <3>1. n \in 1..Len(path)
      BY <1>1, <2>1 DEF n
    <3> QED
      BY <3>1, OneOf
  <2> QED
    BY <2>2, <2>3
<1> QED
  BY <1>5, <1>6 DEF Last

LEMMA DateTimeFormatAt ==
    /\ DOMAIN DateTimeFormat = 1..11
    /\ DateTimeFormat[1] = "%d" /\ DateTimeFormat[2] = "/" /\ DateTimeFormat[3] = "%M"
    /\ DateTimeFormat[4] = "/" /\ DateTimeFormat[5] = "%Y" /\ DateTimeFormat[6] = " "
    /\ DateTimeFormat[7] = "%H" /\ DateTimeFormat[8] = ":" /\ DateTimeFormat[9] = "%m"
    /\ DateTimeFormat[10] = ":" /\ DateTimeFormat[11] = "%s"
BY DEF DateTimeFormat

\* What is not one of the date's letters stays.
LEMMA TokenStays ==
    ASSUME NEW token, NEW time, NEW precision,
           token \notin {"%%", "%d", "%a", "%A", "%M", "%b", "%B", "%y", "%Y", "%h", "%H", "%m", "%s",
                         "%z", "%g", "%F"}
    PROVE  ParseToken(token, time, precision) = <<token>>
BY DEF ParseToken

LEMMA OneToken ==
    ASSUME NEW token \in Tokens
    PROVE  <<token>> \in Seq(Tokens) /\ Len(<<token>>) = 1 /\ <<token>>[1] = token
OBVIOUS

LEMMA YearIs ==
    ASSUME NEW y \in Years
    PROVE  /\ y + 1900 \in TenThousand /\ (y + 1900) \div 100 \in Hundred /\ y % 100 \in Hundred
           /\ (y + 1900) % 100 = y % 100
<1>1. y \in 0..8099
  BY SMT DEF Years
<1>2. y + 1900 \in 0..9999
  BY <1>1, SMT
<1>3. (y + 1900) \div 100 \in 0..99
  BY <1>1, SMT
<1>4. y % 100 \in 0..99
  BY <1>1, SMT
<1>5. (y + 1900) % 100 = y % 100
  BY <1>1, SMT
<1> QED
  BY <1>2, <1>3, <1>4, <1>5, SMT DEF TenThousand, Hundred

\* The date of a line.
LEMMA DateIs ==
    ASSUME NEW t, IsTime(t), NEW p
    PROVE  GetDateTime(DateTimeFormat, t, p) = DateOf(t) /\ DateOf(t) \in Seq(Tokens)
<1> DEFINE seqs == [i \in DOMAIN DateTimeFormat |-> ParseToken(DateTimeFormat[i], t, p)]
           day == Two(t.mday)
           month == Two(t.mon + 1)
           century == Two((t.year + 1900) \div 100)
           years == Two(t.year % 100)
           year == century \o years
           hour == Two(t.hour)
           minute == Two(t.min)
           second == Two(t.sec)
           slash == <<"/">>
           space == <<" ">>
           colon == <<":">>
           text == FlattenSeq(seqs)
<1>1. /\ t.mday \in Hundred /\ t.mon + 1 \in Hundred /\ t.hour \in Hundred /\ t.min \in Hundred
      /\ t.sec \in Hundred
  <2>1. /\ t.mday \in 1..31 /\ t.mon \in 0..11 /\ t.hour \in 0..23 /\ t.min \in 0..59 /\ t.sec \in 0..60
    BY DEF IsTime
  <2> QED
    BY <2>1 DEF Hundred
<1>2. /\ t.year + 1900 \in TenThousand /\ (t.year + 1900) \div 100 \in Hundred /\ t.year % 100 \in Hundred
      /\ (t.year + 1900) % 100 = t.year % 100
  <2>1. t.year \in Years
    BY DEF IsTime
  <2> QED
    BY <2>1, YearIs, SMT
<1>3. /\ ParseToken("%d", t, p) = day /\ ParseToken("%M", t, p) = month /\ ParseToken("%H", t, p) = hour
      /\ ParseToken("%m", t, p) = minute /\ ParseToken("%s", t, p) = second
  <2>1. /\ ParseToken("%d", t, p) = ConvertAndAddToBuff(t.mday, 2, TRUE)
        /\ ParseToken("%M", t, p) = ConvertAndAddToBuff(t.mon + 1, 2, TRUE)
        /\ ParseToken("%H", t, p) = ConvertAndAddToBuff(t.hour, 2, TRUE)
        /\ ParseToken("%m", t, p) = ConvertAndAddToBuff(t.min, 2, TRUE)
        /\ ParseToken("%s", t, p) = ConvertAndAddToBuff(t.sec, 2, TRUE)
    BY DEF ParseToken
  <2> QED
    BY <1>1, <2>1, TwoDigits, Zenon
<1>4. ParseToken("%Y", t, p) = year
  <2>1. ParseToken("%Y", t, p) = ConvertAndAddToBuff(t.year + YearBase, 4, TRUE)
    BY DEF ParseToken
  <2>2. YearBase = 1900
    BY SMT DEF YearBase
  <2> DEFINE y == t.year + 1900
  <2>3. y \in TenThousand /\ y % 100 = t.year % 100
    BY <1>2, SMT
  <2>4. year = Two(y \div 100) \o Two(y % 100)
    BY <2>3, SMT
  <2> HIDE DEF y, year
  <2>5. ConvertAndAddToBuff(y, 4, TRUE) = Two(y \div 100) \o Two(y % 100)
    BY <2>3, FourDigits
  <2>6. ParseToken("%Y", t, p) = ConvertAndAddToBuff(y, 4, TRUE)
    <3>1. t.year + YearBase = y
      BY <2>2, SMT DEF y
    <3> QED
      BY <2>1, <3>1
  <2> QED
    BY <2>4, <2>5, <2>6
<1>5. ParseToken("/", t, p) = slash /\ ParseToken(" ", t, p) = space /\ ParseToken(":", t, p) = colon
  BY TokenStays, Zenon
<1>6. /\ day \in Seq(Tokens) /\ month \in Seq(Tokens) /\ hour \in Seq(Tokens) /\ minute \in Seq(Tokens)
      /\ second \in Seq(Tokens) /\ century \in Seq(Tokens) /\ years \in Seq(Tokens)
      /\ Len(day) = 2 /\ Len(month) = 2 /\ Len(hour) = 2 /\ Len(minute) = 2 /\ Len(second) = 2
      /\ Len(century) = 2 /\ Len(years) = 2
  BY <1>1, <1>2, TwoType, SMT
<1>7. year \in Seq(Tokens) /\ Len(year) = 4
  <2> HIDE DEF century, years
  <2> QED
    BY <1>6, TwoAndTwo
<1>8. /\ slash \in Seq(Tokens) /\ space \in Seq(Tokens) /\ colon \in Seq(Tokens)
      /\ Len(slash) = 1 /\ Len(space) = 1 /\ Len(colon) = 1
  <2>1. "/" \in Tokens /\ " " \in Tokens /\ ":" \in Tokens
    BY Zenon DEF Tokens
  <2> QED
    BY <2>1, OneToken, Zenon
<1>9. DOMAIN seqs = 1..11 /\ Len(seqs) = 11
  <2>1. DOMAIN DateTimeFormat = 1..11
    BY DateTimeFormatAt
  <2> QED
    BY <2>1
<1>10. \A i \in 1..11 : seqs[i] = ParseToken(DateTimeFormat[i], t, p)
  <2>1. DOMAIN DateTimeFormat = 1..11
    BY DateTimeFormatAt
  <2> QED
    BY <2>1
<1> HIDE DEF seqs, day, month, year, century, years, hour, minute, second, slash, space, colon
<1>11. /\ seqs[1] = day /\ seqs[2] = slash /\ seqs[3] = month /\ seqs[4] = slash /\ seqs[5] = year
       /\ seqs[6] = space /\ seqs[7] = hour /\ seqs[8] = colon /\ seqs[9] = minute /\ seqs[10] = colon
       /\ seqs[11] = second
  <2>1. 1 \in 1..11 /\ 2 \in 1..11 /\ 3 \in 1..11 /\ 4 \in 1..11 /\ 5 \in 1..11 /\ 6 \in 1..11 /\ 7 \in 1..11
        /\ 8 \in 1..11 /\ 9 \in 1..11 /\ 10 \in 1..11 /\ 11 \in 1..11
    OBVIOUS
  <2> QED
    BY <1>3, <1>4, <1>5, <1>10, <2>1, DateTimeFormatAt, Zenon
<1>12. /\ text = day \o slash \o month \o slash \o year \o space \o hour \o colon \o minute \o colon \o second
       /\ text \in Seq(Tokens) /\ Len(text) = 19
  <2>1. /\ text = day \o slash \o month \o slash \o year \o space \o hour \o colon \o minute \o colon \o second
        /\ text \in Seq(Tokens)
        /\ Len(text) = Len(day) + Len(slash) + Len(month) + Len(slash) + Len(year) + Len(space)
                         + Len(hour) + Len(colon) + Len(minute) + Len(colon) + Len(second)
    <3>1. \A i \in 1..11 : seqs[i] \in Seq(Tokens)
      <4>1. \A i \in 1..11 : i = 1 \/ i = 2 \/ i = 3 \/ i = 4 \/ i = 5 \/ i = 6 \/ i = 7 \/ i = 8 \/ i = 9
                             \/ i = 10 \/ i = 11
        OBVIOUS
      <4> QED
        BY <1>6, <1>7, <1>8, <1>11, <4>1
    <3> QED
      BY <1>9, <1>11, <3>1, ElevenParts
  <2> HIDE DEF text
  <2> QED
    BY <1>6, <1>7, <1>8, <2>1
<1>13. GetDateTime(DateTimeFormat, t, p) = SubSeq(text, 1, Min({Len(text), BuffSize}))
  BY DEF GetDateTime, seqs
<1>14. Min({19, 30}) = 19 /\ BuffSize = 30
  BY DEF Min, BuffSize
<1> HIDE DEF text
<1>15. SubSeq(text, 1, 19) = text
  BY <1>12, SubSeqFull
<1>16. GetDateTime(DateTimeFormat, t, p) = text
  BY <1>12, <1>13, <1>14, <1>15
<1>17. DateOf(t) = day \o slash \o month \o slash \o century \o years
                       \o space \o hour \o colon \o minute \o colon \o second
  BY SMT DEF DateOf, day, month, hour, minute, second, century, years, slash, space, colon
<1>18. (day \o slash \o month \o slash \o century) \o years = (day \o slash \o month \o slash) \o year
  <2> DEFINE front == day \o slash \o month \o slash
  <2>1. front \in Seq(Tokens)
    <3>1. day \o slash \in Seq(Tokens)
      BY <1>6, <1>8, ConcatProperties
    <3>2. (day \o slash) \o month \in Seq(Tokens)
      BY <1>6, <3>1, ConcatProperties
    <3> QED
      BY <1>8, <3>2, ConcatProperties
  <2> HIDE DEF front, century, years
  <2>2. (front \o century) \o years = front \o (century \o years)
    BY <1>6, <2>1, ThreeTexts
  <2> QED
    BY <2>2 DEF front, year
<1> QED
  <2>1. DateOf(t) = text
    BY <1>12, <1>17, <1>18
  <2> QED
    BY <1>12, <1>16, <2>1

-----------------------------------------------------------------------------
(* Filling in a line *)

ReplacedBehind(x, y, what, with, post) ==
    ReplaceFirstWithEscape((x \o <<y>>) \o (<<what>> \o post), what, with) = ((x \o <<y>>) \o with) \o post

\* A token that is not in what is in front of it is replaced there.
LEMMA ReplaceBehind ==
    ASSUME NEW S, S \subseteq Tokens, NEW x \in Seq(S), NEW y \in S, y # "%",
           NEW what \in Tokens, what \notin S, NEW with \in Seq(Tokens), NEW post \in Seq(Tokens)
    PROVE  ReplacedBehind(x, y, what, with, post)
<1> DEFINE pre == x \o <<y>>
<1>1. x \in Seq(Tokens) /\ y \in Tokens
  BY SeqMonotonic
<1>2. <<y>> \in Seq(Tokens) /\ Len(<<y>>) = 1 /\ <<y>>[1] = y
  BY <1>1, OneToken
<1>3. Len(x) \in Nat
  BY LenProperties
<1>4. pre \in Seq(S)
  BY ConcatProperties
<1>5. pre \in Seq(Tokens) /\ Len(pre) = Len(x) + 1 /\ pre[Len(x) + 1] = y
  <2> DEFINE one == <<y>>
  <2>1. one \in Seq(Tokens) /\ Len(one) = 1 /\ one[1] = y
    BY <1>2
  <2> HIDE DEF one
  <2>2. /\ x \o one \in Seq(Tokens) /\ Len(x \o one) = Len(x) + Len(one)
        /\ \A i \in 1..Len(one) : (x \o one)[Len(x) + i] = one[i]
    BY <1>1, <2>1, TwoTexts
  <2>3. x \o one \in Seq(Tokens) /\ Len(x \o one) = Len(x) + 1 /\ (x \o one)[Len(x) + 1] = y
    BY <2>1, <2>2
  <2> QED
    BY <2>3 DEF one
<1> HIDE DEF pre
<1>6. \A i \in 1..Len(pre) : pre[i] # what
  <2>1. \A i \in 1..Len(pre) : pre[i] \in S
    BY <1>4, ElementOfSeq
  <2> QED
    BY <2>1
<1>7. pre[Len(pre)] # "%"
  BY <1>5
<1>8. pre # <<>>
  BY <1>3, <1>5, EmptySeq
<1>9. ReplaceFirstWithEscape(pre \o (<<what>> \o post), what, with) = (pre \o with) \o post
  BY <1>5, <1>6, <1>7, <1>8, ReplaceIn
<1> QED
  BY <1>9 DEF pre, ReplacedBehind

LEMMA TwoTokens ==
    ASSUME NEW x \in Tokens, NEW y \in Tokens
    PROVE  <<x>> \o <<y>> = <<x, y>>
<1> DEFINE one == <<y>>
           two == <<x>> \o one
           pair == <<x, y>>
<1>1. one \in Seq(Tokens) /\ Len(one) = 1 /\ one[1] = y
  BY OneToken
<1>2. pair \in Seq(Tokens) /\ Len(pair) = 2 /\ pair[1] = x /\ pair[2] = y
  OBVIOUS
<1> HIDE DEF one
<1>3. /\ two \in Seq(Tokens) /\ Len(two) = 1 + Len(one) /\ two[1] = x
      /\ \A i \in 1..(1 + Len(one)) : i # 1 => two[i] = one[i - 1]
  BY <1>1, InFront
<1> HIDE DEF two, pair
<1>4. Len(two) = 2 /\ two[2] = y
  BY <1>1, <1>3
<1>5. \A i \in 1..2 : i = 1 \/ i = 2
  OBVIOUS
<1>6. \A i \in 1..2 : two[i] = pair[i]
  BY <1>2, <1>3, <1>4, <1>5
<1>7. two = pair
  BY <1>2, <1>3, <1>4, <1>6, SeqEqual
<1> QED
  BY <1>7 DEF two, pair, one

LEMMA ThreeTokens ==
    ASSUME NEW x \in Tokens, NEW y \in Tokens, NEW z \in Tokens
    PROVE  <<x>> \o (<<y>> \o <<z>>) = <<x, y, z>>
<1> DEFINE two == <<y, z>>
           three == <<x>> \o two
           all == <<x, y, z>>
<1>1. two \in Seq(Tokens) /\ Len(two) = 2 /\ two[1] = y /\ two[2] = z
  OBVIOUS
<1>2. all \in Seq(Tokens) /\ Len(all) = 3 /\ all[1] = x /\ all[2] = y /\ all[3] = z
  OBVIOUS
<1>3. <<y>> \o <<z>> = two
  BY TwoTokens
<1> HIDE DEF two
<1>4. /\ three \in Seq(Tokens) /\ Len(three) = 1 + Len(two) /\ three[1] = x
      /\ \A i \in 1..(1 + Len(two)) : i # 1 => three[i] = two[i - 1]
  BY <1>1, InFront
<1> HIDE DEF three, all
<1>5. Len(three) = 3 /\ three[2] = y /\ three[3] = z
  BY <1>1, <1>4
<1>6. \A i \in 1..3 : i = 1 \/ i = 2 \/ i = 3
  OBVIOUS
<1>7. \A i \in 1..3 : three[i] = all[i]
  BY <1>2, <1>4, <1>5, <1>6
<1>8. three = all
  BY <1>2, <1>4, <1>5, <1>7, SeqEqual
<1> QED
  BY <1>3, <1>8 DEF three, all

\* The date, the file's name, the line number and the message are filled in one after the
\* other.  Only fixed tokens and digits are in front of the file's name, and no "%line" or
\* "%msg" is in front of those of the format.
LineFilled(b, c, s, sp, co, d, num, text, dt, fb, ln, mg, base, rest) ==
    LET dated  == ReplaceFirstWithEscape(<<b>> \o (<<dt>> \o rest), dt, d)
        named  == ReplaceFirstWithEscape(dated, fb, <<base>>)
        placed == ReplaceFirstWithEscape(named, ln, num)
    IN  ReplaceFirstWithEscape(placed, mg, text) =
            <<b>> \o d \o <<c, s, sp>> \o <<base, co>> \o num \o <<sp>> \o text

LEMMA LineFilledIn ==
    ASSUME NEW F, F \subseteq Tokens, NEW b \in F, NEW c \in F, NEW s \in F, NEW sp \in F, NEW co \in F,
           NEW d \in Seq(F), NEW num, num \in Seq(F), NEW text \in Seq(Tokens),
           NEW dt \in Tokens, NEW fb \in Tokens, NEW ln \in Tokens, NEW mg \in Tokens,
           NEW base \in Tokens, base # ln, base # mg, ln # mg,
           dt \notin F, fb \notin F, ln \notin F, mg \notin F, "%" \notin F,
           NEW rest, rest = <<c>> \o (<<s>> \o (<<sp>> \o
                                (<<fb>> \o (<<co>> \o (<<ln>> \o (<<sp>> \o <<mg>>))))))
    PROVE  LineFilled(b, c, s, sp, co, d, num, text, dt, fb, ln, mg, base, rest)
<1> DEFINE G == Tokens \ {ln, mg}
           B == <<b>>
           C == <<c>>
           S == <<s>>
           SP == <<sp>>
           FB == <<fb>>
           CO == <<co>>
           LN == <<ln>>
           MG == <<mg>>
           NAME == <<base>>
           post9 == <<>>
           post7 == SP \o MG
           post6 == CO \o (LN \o post7)
           x6 == ((B \o d) \o C) \o S
           pre6 == x6 \o SP
           x7 == pre6 \o NAME
           pre7 == x7 \o CO
           x9 == pre7 \o num
           pre9 == x9 \o SP
<1>1. /\ b \in Tokens /\ c \in Tokens /\ s \in Tokens /\ sp \in Tokens /\ co \in Tokens
      /\ d \in Seq(Tokens) /\ num \in Seq(Tokens)
  BY SeqMonotonic
<1>2. /\ F \subseteq G /\ G \subseteq Tokens /\ base \in G /\ co \in G /\ sp \in G
      /\ num \in Seq(G) /\ ln \notin G /\ mg \notin G /\ b # "%" /\ sp # "%" /\ co # "%"
  <2>1. F \subseteq G
    OBVIOUS
  <2>2. num \in Seq(G)
    <3> HIDE DEF G
    <3> QED
      BY <2>1, SeqMonotonic
  <2> QED
    BY <2>1, <2>2
<1>3. /\ B \in Seq(Tokens) /\ C \in Seq(Tokens) /\ S \in Seq(Tokens) /\ SP \in Seq(Tokens)
      /\ FB \in Seq(Tokens) /\ CO \in Seq(Tokens) /\ LN \in Seq(Tokens) /\ MG \in Seq(Tokens)
      /\ NAME \in Seq(Tokens)
  BY <1>1, OneToken
<1>4. B \in Seq(F) /\ C \in Seq(F) /\ S \in Seq(F) /\ SP \in Seq(F) /\ SP \in Seq(G) /\ CO \in Seq(G) /\ NAME \in Seq(G)
  <2> HIDE DEF G
  <2>1. \A T : \A x \in T : <<x>> \in Seq(T)
    OBVIOUS
  <2> QED
    BY <1>2, <2>1
<1>b. Len(B) = 1 /\ B[1] = b /\ B # <<>>
  BY <1>1, EmptySeq
<1>c. MG = MG \o post9 /\ post9 \in Seq(Tokens)
  BY <1>3, ConcatEmptySeq, EmptySeq
<1>n. base \in Tokens
  OBVIOUS
<1>r. rest = C \o (S \o (SP \o (FB \o post6)))
  OBVIOUS
<1>d1. B = <<b>> /\ C = <<c>> /\ S = <<s>> /\ SP = <<sp>> /\ NAME = <<base>>
  OBVIOUS
<1>d2. FB = <<fb>> /\ CO = <<co>> /\ LN = <<ln>> /\ MG = <<mg>>
  OBVIOUS
<1> HIDE DEF G, B, C, S, SP, FB, CO, LN, MG, NAME, post9
<1>5. \A t, u \in Seq(Tokens) : t \o u \in Seq(Tokens)
  BY ConcatProperties
<1>7. \A T : \A t, u \in Seq(T) : t \o u \in Seq(T)
  BY ConcatProperties
<1>8. post7 \in Seq(Tokens) /\ post6 \in Seq(Tokens)
  BY <1>3, <1>5
<1>9. x6 \in Seq(F) /\ pre6 \in Seq(F)
  BY <1>4, <1>7
<1>10. pre6 \in Seq(G)
  BY <1>2, <1>9, SeqMonotonic
<1> HIDE DEF post6, post7
<1>11. ReplaceFirstWithEscape(B \o (<<dt>> \o rest), dt, d) = (B \o d) \o rest
  <2>1. rest \in Seq(Tokens)
    BY <1>3, <1>5, <1>8, <1>r
  <2>2. \A i \in 1..Len(B) : B[i] # dt
    BY <1>b
  <2>3. B[Len(B)] # "%"
    BY <1>2, <1>b
  <2> QED
    BY <1>1, <1>3, <1>b, <2>1, <2>2, <2>3, ReplaceIn
<1>12. (B \o d) \o rest = pre6 \o (FB \o post6)
  <2> DEFINE Y == FB \o post6
             A == B \o d
  <2>1. Y \in Seq(Tokens) /\ A \in Seq(Tokens)
    BY <1>1, <1>3, <1>5, <1>8
  <2>2. A \o rest = A \o (C \o (S \o (SP \o Y))) /\ pre6 = ((A \o C) \o S) \o SP
    BY <1>r
  <2> HIDE DEF Y, A, x6, pre6
  <2>3. /\ S \o (SP \o Y) \in Seq(Tokens) /\ SP \o Y \in Seq(Tokens) /\ A \o C \in Seq(Tokens)
        /\ (A \o C) \o S \in Seq(Tokens)
    BY <1>3, <1>5, <2>1
  <2>4. /\ Regrouped(A, C, S \o (SP \o Y)) /\ Regrouped(A \o C, S, SP \o Y)
        /\ Regrouped((A \o C) \o S, SP, Y)
    BY <1>3, <2>1, <2>3, Regroup
  <2>5. A \o (C \o (S \o (SP \o Y))) = (((A \o C) \o S) \o SP) \o Y
    BY <2>4 DEF Regrouped
  <2> QED
    BY <2>2, <2>5 DEF A, Y
<1>13. ReplaceFirstWithEscape(pre6 \o (FB \o post6), fb, NAME) = (pre6 \o NAME) \o post6
  <2> HIDE DEF x6
  <2>1. ReplaceFirstWithEscape((x6 \o <<sp>>) \o (<<fb>> \o post6), fb, NAME) = ((x6 \o <<sp>>) \o NAME) \o post6
    <3>1. ReplacedBehind(x6, sp, fb, NAME, post6)
      BY <1>2, <1>3, <1>8, <1>9, ReplaceBehind
    <3> QED
      BY <3>1 DEF ReplacedBehind
  <2> QED
    BY <1>d1, <1>d2, <2>1
<1> HIDE DEF x6, pre6
<1>14. x7 \in Seq(G) /\ pre7 \in Seq(G) /\ x9 \in Seq(G) /\ pre9 \in Seq(G)
  BY <1>2, <1>4, <1>7, <1>10
<1>15. x7 \in Seq(Tokens) /\ pre7 \in Seq(Tokens) /\ x9 \in Seq(Tokens) /\ pre9 \in Seq(Tokens)
  <2> HIDE DEF x7, pre7, x9, pre9
  <2> QED
    BY <1>2, <1>14, SeqMonotonic
<1>16. (pre6 \o NAME) \o post6 = pre7 \o (LN \o post7)
  <2>1. LN \o post7 \in Seq(Tokens)
    BY <1>3, <1>5, <1>8
  <2>2. x7 \o (CO \o (LN \o post7)) = (x7 \o CO) \o (LN \o post7)
    <3> HIDE DEF x7
    <3>1. Regrouped(x7, CO, LN \o post7)
      BY <1>3, <1>15, <2>1, Regroup
    <3> QED
      BY <3>1 DEF Regrouped
  <2> QED
    BY <2>2 DEF post6
<1>17. ReplaceFirstWithEscape(pre7 \o (LN \o post7), ln, num) = (pre7 \o num) \o post7
  <2> HIDE DEF x7
  <2>1. ReplaceFirstWithEscape((x7 \o <<co>>) \o (<<ln>> \o post7), ln, num) = ((x7 \o <<co>>) \o num) \o post7
    <3>1. /\ x7 \in Seq(G) /\ co \in G /\ co # "%" /\ ln \in Tokens /\ ln \notin G /\ G \subseteq Tokens
          /\ num \in Seq(Tokens) /\ post7 \in Seq(Tokens)
      BY <1>1, <1>2, <1>8, <1>14
    <3>2. ReplacedBehind(x7, co, ln, num, post7)
      BY <3>1, ReplaceBehind
    <3> QED
      BY <3>2 DEF ReplacedBehind
  <2> QED
    BY <1>d2, <2>1
<1>18. (pre7 \o num) \o post7 = pre9 \o (MG \o post9)
  <2>1. x9 \o (SP \o MG) = (x9 \o SP) \o MG
    <3> HIDE DEF x9
    <3>1. Regrouped(x9, SP, MG)
      BY <1>3, <1>15, Regroup
    <3> QED
      BY <3>1 DEF Regrouped
  <2> QED
    BY <1>c, <2>1 DEF post7
<1>19. ReplaceFirstWithEscape(pre9 \o (MG \o post9), mg, text) = (pre9 \o text) \o post9
  <2> HIDE DEF x9
  <2>1. ReplaceFirstWithEscape((x9 \o <<sp>>) \o (<<mg>> \o post9), mg, text) = ((x9 \o <<sp>>) \o text) \o post9
    <3>1. ReplacedBehind(x9, sp, mg, text, post9)
      BY <1>2, <1>c, <1>14, ReplaceBehind
    <3> QED
      BY <3>1 DEF ReplacedBehind
  <2> QED
    BY <1>d1, <1>d2, <2>1
<1>20. (pre9 \o text) \o post9 = pre9 \o text /\ pre9 \o text \in Seq(Tokens)
  <2> HIDE DEF pre9
  <2>1. pre9 \o text \in Seq(Tokens)
    BY <1>5, <1>15
  <2> QED
    BY <2>1, ConcatEmptySeq DEF post9
<1>21. pre6 = (B \o d) \o <<c, s, sp>>
  <2> DEFINE A == B \o d
  <2>1. A \in Seq(Tokens)
    BY <1>1, <1>3, <1>5
  <2>2. pre6 = ((A \o C) \o S) \o SP
    BY DEF pre6, x6
  <2> HIDE DEF A
  <2>3. C \o (S \o SP) = <<c, s, sp>>
    BY <1>1, <1>d1, ThreeTokens
  <2>4. S \o SP \in Seq(Tokens) /\ A \o C \in Seq(Tokens)
    BY <1>3, <1>5, <2>1
  <2>5. A \o (C \o (S \o SP)) = (A \o C) \o (S \o SP)
    <3>1. Regrouped(A, C, S \o SP)
      BY <1>3, <2>1, <2>4, Regroup
    <3> QED
      BY <3>1 DEF Regrouped
  <2>6. (A \o C) \o (S \o SP) = ((A \o C) \o S) \o SP
    <3>1. Regrouped(A \o C, S, SP)
      BY <1>3, <2>4, Regroup
    <3> QED
      BY <3>1 DEF Regrouped
  <2> QED
    BY <2>2, <2>3, <2>5, <2>6 DEF A
<1>22. pre7 = pre6 \o <<base, co>>
  <2>1. NAME \o CO = <<base, co>>
    BY <1>1, <1>n, <1>d1, <1>d2, TwoTokens
  <2>2. pre6 \in Seq(Tokens)
    BY <1>2, <1>10, SeqMonotonic
  <2>3. pre6 \o (NAME \o CO) = (pre6 \o NAME) \o CO
    <3>1. Regrouped(pre6, NAME, CO)
      BY <1>3, <2>2, Regroup
    <3> QED
      BY <3>1 DEF Regrouped
  <2> QED
    BY <2>1, <2>3
<1>23. pre9 \o text = <<b>> \o d \o <<c, s, sp>> \o <<base, co>> \o num \o <<sp>> \o text
  <2> HIDE DEF x7, pre7
  <2> QED
    BY <1>21, <1>22, <1>d1
<1> HIDE DEF x7, pre7, x9, pre9
<1>24. ReplaceFirstWithEscape(<<b>> \o (<<dt>> \o rest), dt, d) = pre6 \o (FB \o post6)
  BY <1>11, <1>12, <1>d1
<1>25. ReplaceFirstWithEscape(pre6 \o (FB \o post6), fb, <<base>>) = pre7 \o (LN \o post7)
  BY <1>13, <1>16, <1>d1
<1>26. ReplaceFirstWithEscape(pre7 \o (LN \o post7), ln, num) = pre9 \o (MG \o post9)
  BY <1>17, <1>18
<1>27. ReplaceFirstWithEscape(pre9 \o (MG \o post9), mg, text) = pre9 \o text
  BY <1>19, <1>20
<1> QED
  BY <1>23, <1>24, <1>25, <1>26, <1>27 DEF LineFilled

\* The tokens of a date, of a number and of what is fixed in front of the file's name.
Fixed == {"0", "1", "2", "3", "4", "5", "6", "7", "8", "9", "[", "/", " ", ":", "] ",
          "T", "D", "F", "E", "W", "V", "I"}

LEMMA FixedTokens ==
    /\ Fixed \subseteq Tokens /\ "[" \in Fixed /\ "] " \in Fixed /\ " " \in Fixed /\ ":" \in Fixed /\ "/" \in Fixed
    /\ {"T", "D", "F", "E", "W", "V", "I"} \subseteq Fixed
    /\ "%datetime" \notin Fixed /\ "%fbase" \notin Fixed /\ "%line" \notin Fixed /\ "%msg" \notin Fixed
    /\ "%" \notin Fixed
BY Zenon DEF Fixed, Tokens

LEMMA DigitFixed ==
    ASSUME NEW n \in 0..9
    PROVE  Digit(n) \in Fixed
<1> DEFINE digits == <<"0", "1", "2", "3", "4", "5", "6", "7", "8", "9">>
<1>1. {"0", "1", "2", "3", "4", "5", "6", "7", "8", "9"} \subseteq Fixed
  BY Zenon DEF Fixed
<1>2. \A i \in 1..10 : digits[i] \in {"0", "1", "2", "3", "4", "5", "6", "7", "8", "9"}
  BY NumbersToTen
<1>3. n + 1 \in 1..10 /\ Digit(n) = digits[n + 1]
  BY DEF Digit
<1> HIDE DEF digits
<1>4. Digit(n) \in {"0", "1", "2", "3", "4", "5", "6", "7", "8", "9"}
  BY <1>2, <1>3
<1> QED
  BY <1>1, <1>4

LEMMA TwoFixed ==
    ASSUME NEW n \in Hundred
    PROVE  Two(n) \in Seq(Fixed)
<1>1. n \div 10 \in 0..9 /\ n % 10 \in 0..9
  BY DEF Hundred
<1>2. Digit(n \div 10) \in Fixed /\ Digit(n % 10) \in Fixed
  BY <1>1, DigitFixed
<1> QED
  BY <1>2 DEF Two

LEMMA DecimalFixed ==
    ASSUME NEW n \in LineNumbers
    PROVE  Decimal(n) \in Seq(Fixed)
<1>n. n \in 1..999
  BY SMT DEF LineNumbers
<1>1. CASE n < 10
  <2>1. ~(n \in 10..99) /\ ~(n > 99)
    BY <1>n, <1>1, SMT
  <2>2. Decimal(n) = <<Digit(n)>>
    BY <1>1, <2>1, Zenon DEF Decimal
  <2>3. Digit(n) \in Fixed
    <3>1. n \in 0..9
      BY <1>n, <1>1, SMT
    <3> QED
      BY <3>1, DigitFixed
  <2> QED
    BY <2>2, <2>3
<1>2. CASE n \in 10..99
  <2>1. ~(n < 10) /\ ~(n > 99) /\ n \in Hundred
    BY <1>2, SMT DEF Hundred
  <2>2. Decimal(n) = Two(n)
    BY <1>2, <2>1, Zenon DEF Decimal
  <2> QED
    BY <2>1, <2>2, TwoFixed
<1>3. CASE n > 99
  <2>1. ~(n < 10) /\ ~(n \in 10..99)
    BY <1>n, <1>3, SMT
  <2>2. Decimal(n) = <<Digit(n \div 100)>> \o Two(n % 100)
    BY <1>3, <2>1, Zenon DEF Decimal
  <2>3. n \div 100 \in 0..9 /\ n % 100 \in Hundred
    BY <1>n, SMT DEF Hundred
  <2>4. Digit(n \div 100) \in Fixed /\ Two(n % 100) \in Seq(Fixed)
    BY <2>3, DigitFixed, TwoFixed
  <2>5. <<Digit(n \div 100)>> \in Seq(Fixed)
    BY <2>4
  <2> QED
    BY <2>2, <2>4, <2>5, ConcatProperties
<1>4. n < 10 \/ n \in 10..99 \/ n > 99
  BY <1>n, SMT
<1> QED
  BY <1>1, <1>2, <1>3, <1>4

LEMMA DateFixed ==
    ASSUME NEW t, IsTime(t)
    PROVE  DateOf(t) \in Seq(Fixed)
<1> DEFINE day == Two(t.mday)
           month == Two(t.mon + 1)
           century == Two((t.year + 1900) \div 100)
           years == Two(t.year % 100)
           hour == Two(t.hour)
           minute == Two(t.min)
           second == Two(t.sec)
           slash == <<"/">>
           space == <<" ">>
           colon == <<":">>
<1>1. /\ t.mday \in Hundred /\ t.mon + 1 \in Hundred /\ t.hour \in Hundred /\ t.min \in Hundred
      /\ t.sec \in Hundred
  <2>1. /\ t.mday \in 1..31 /\ t.mon \in 0..11 /\ t.hour \in 0..23 /\ t.min \in 0..59 /\ t.sec \in 0..60
    BY DEF IsTime
  <2> QED
    BY <2>1 DEF Hundred
<1>2. (t.year + 1900) \div 100 \in Hundred /\ t.year % 100 \in Hundred
  <2>1. t.year \in Years
    BY DEF IsTime
  <2> QED
    BY <2>1, YearIs, SMT
<1>3. /\ day \in Seq(Fixed) /\ month \in Seq(Fixed) /\ hour \in Seq(Fixed) /\ minute \in Seq(Fixed)
      /\ second \in Seq(Fixed)
  BY <1>1, TwoFixed
<1>4. century \in Seq(Fixed) /\ years \in Seq(Fixed)
  BY <1>2, TwoFixed, SMT
<1>5. slash \in Seq(Fixed) /\ space \in Seq(Fixed) /\ colon \in Seq(Fixed)
  <2>1. \A x \in Fixed : <<x>> \in Seq(Fixed)
    OBVIOUS
  <2> QED
    BY <2>1, FixedTokens, Zenon
<1>6. DateOf(t) = day \o slash \o month \o slash \o century \o years
                       \o space \o hour \o colon \o minute \o colon \o second
  BY SMT DEF DateOf
<1> HIDE DEF day, month, century, years, hour, minute, second, slash, space, colon
<1>7. \A a, b \in Seq(Fixed) : a \o b \in Seq(Fixed)
  BY ConcatProperties
<1>8. day \o slash \o month \o slash \o century \o years \in Seq(Fixed)
  BY <1>3, <1>4, <1>5, <1>7
<1>9. \A a \in Seq(Fixed) : a \o space \o hour \o colon \o minute \o colon \o second \in Seq(Fixed)
  BY <1>3, <1>5, <1>7
<1> QED
  BY <1>6, <1>8, <1>9

\* What is there when so many of the specifiers have been filled in.
Filled(f, r, g, i) ==
    CASE i = 0                           -> f.format
      [] i > 0 /\ r[i][1] \in f.flags -> ReplaceFirstWithEscape(g[i - 1], r[i][1], r[i][2])
      [] OTHER                           -> g[i - 1]

LEMMA BuildIs ==
    ASSUME NEW f, NEW message, NEW p, NEW r, r = Replacements(f, message, p), Len(r) \in Nat,
           NEW g, g = [i \in 0..Len(r) |-> Filled(f, r, g, i)]
    PROVE  Build(f, message, p) = g[Len(r)] \o <<"\n">>
<1> DEFINE n == Len(r)
           Is(h) == h = [i \in 0..n |->
                            CASE i = 0                           -> f.format
                              [] i > 0 /\ r[i][1] \in f.flags -> ReplaceFirstWithEscape(h[i - 1], r[i][1], r[i][2])
                              [] OTHER                           -> h[i - 1]]
           line_ == CHOOSE h : Is(h)
<1>1. Build(f, message, p) = line_[n] \o <<"\n">>
  BY DEF Build
<1>2. Is(g)
  BY DEF Filled
<1>3. Is(line_)
  <2> HIDE DEF Is
  <2> QED
    BY <1>2
<1>4. line_ = [i \in 0..n |-> Filled(f, r, line_, i)]
  <2> HIDE DEF line_
  <2> QED
    BY <1>3 DEF Filled
<1> HIDE DEF line_, Is
<1>5. \A i \in 0..n : line_[i] = Filled(f, r, line_, i) /\ g[i] = Filled(f, r, g, i)
  <2> DEFINE F(h, i) == Filled(f, r, h, i)
  <2>1. line_ = [i \in 0..n |-> F(line_, i)] /\ g = [i \in 0..n |-> F(g, i)]
    BY <1>4
  <2> HIDE DEF F
  <2>2. \A i \in 0..n : line_[i] = F(line_, i) /\ g[i] = F(g, i)
    BY <2>1
  <2> QED
    BY <2>2 DEF F
<1> DEFINE differ == {i \in 0..n : line_[i] # g[i]}
<1>6. differ = {}
  <2> SUFFICES ASSUME differ # {} PROVE FALSE
    OBVIOUS
  <2>1. PICK i \in differ : \A k \in differ : i =< k
    <3>1. differ \subseteq Nat
      OBVIOUS
    <3> HIDE DEF differ
    <3> QED
      BY <3>1, FirstIs
  <2>2. i \in 0..n /\ line_[i] # g[i]
    OBVIOUS
  <2>3. i # 0
    <3>1. \A h : Filled(f, r, h, 0) = f.format
      BY DEF Filled
    <3>2. line_[i] = Filled(f, r, line_, i) /\ g[i] = Filled(f, r, g, i)
      BY <1>5, <2>2
    <3> QED
      BY <2>2, <3>1, <3>2
  <2>4. i - 1 \in 0..n /\ ~(i =< i - 1)
    BY <2>2, <2>3
  <2>5. line_[i - 1] = g[i - 1]
    BY <2>1, <2>4
  <2>6. Filled(f, r, line_, i) = Filled(f, r, g, i)
    BY <2>2, <2>3, <2>5 DEF Filled
  <2> QED
    BY <1>5, <2>2, <2>6
<1>7. line_[n] = g[n]
  <2>1. n \in 0..n
    OBVIOUS
  <2> QED
    BY <1>6, <2>1
<1> QED
  BY <1>1, <1>7

ReplacementsOf(r, f, message, p) ==
    /\ Len(r) = 9
    /\ r[1][1] = "%app" /\ r[2][1] = "%thread" /\ r[3][1] = "%datetime" /\ r[4][1] = "%func"
    /\ r[5][1] = "%file" /\ r[6][1] = "%fbase" /\ r[7][1] = "%line" /\ r[8][1] = "%loc"
    /\ r[9][1] = "%msg"
    /\ r[3][2] = GetDateTime(f.dateTimeFormat, message.time, p)
    /\ r[6][2] = BaseFilename(message.place.file)
    /\ r[7][2] = ConvertAndAddToBuff(message.place.line, SourceLineMaxLength, FALSE)
    /\ r[9][2] = message.text

LEMMA ReplacementsAre ==
    ASSUME NEW f, NEW message, NEW p
    PROVE  ReplacementsOf(Replacements(f, message, p), f, message, p)
BY DEF Replacements, ReplacementsOf

\* The line that is built is the one the server's format describes: whatever tokens the
\* message and the file's name have, specifiers and braces too, each of the format's own
\* specifiers is filled in where it stands, and nothing else is.
THEOREM LineIsBuilt ==
    ASSUME NEW m, IsLogMessage(m), NEW p, NEW f,
           f.format = LevelFormat(LevelShortName[m.level]), f.dateTimeFormat = DateTimeFormat,
           f.flags = FormatFlags,
           NEW message, message.place = m.place, message.time = m.time,
           message.text = FlattenSeq(m.parts)
    PROVE  Build(f, message, p) = LineOf(m)
<1> DEFINE s == LevelShortName[m.level]
           base == Last(m.place.file)
           d == DateOf(m.time)
           num == Decimal(m.place.line)
           text == FlattenSeq(m.parts)
           r == Replacements(f, message, p)
           l0 == LevelFormat(s)
           l3 == ReplaceFirstWithEscape(l0, "%datetime", d)
           l6 == ReplaceFirstWithEscape(l3, "%fbase", <<base>>)
           l7 == ReplaceFirstWithEscape(l6, "%line", num)
           l9 == ReplaceFirstWithEscape(l7, "%msg", text)
           g == [i \in 0..9 |-> IF i < 3 THEN l0 ELSE IF i < 6 THEN l3 ELSE IF i = 6 THEN l6
                                ELSE IF i < 9 THEN l7 ELSE l9]
<1>1. IsPlace(m.place) /\ IsTime(m.time) /\ m.level \in AllLevels /\ m.parts \in Seq(Seq(STRING))
  BY DEF IsLogMessage
<1>2. s \in Fixed /\ s \in Tokens
  BY <1>1, ShortNames, FixedTokens, Zenon
<1>3. BaseFilename(m.place.file) = <<base>> /\ base \in Tokens /\ base # "%line" /\ base # "%msg"
  <2>1. /\ m.place.file \in Seq(STRING) /\ m.place.file # <<>> /\ base \notin {"/", "%line", "%msg"}
        /\ Len(m.place.file) > 1 => Len(m.place.file) > 2 /\ m.place.file[Len(m.place.file) - 1] = "/"
    BY <1>1 DEF IsPlace
  <2>2. base # "/" /\ base # "%line" /\ base # "%msg"
    BY <2>1
  <2>3. BaseFilename(m.place.file) = <<base>> /\ base \in STRING
    BY <2>1, <2>2, BaseFilenameIs
  <2>4. STRING \subseteq Tokens
    BY Zenon DEF Tokens
  <2> QED
    BY <2>2, <2>3, <2>4
<1>4. GetDateTime(DateTimeFormat, m.time, p) = d /\ d \in Seq(Fixed)
  BY <1>1, DateIs, DateFixed
<1>5. ConvertAndAddToBuff(m.place.line, SourceLineMaxLength, FALSE) = num /\ num \in Seq(Fixed)
  <2>1. m.place.line \in LineNumbers
    BY <1>1 DEF IsPlace
  <2> QED
    BY <2>1, DecimalIs, DecimalFixed
<1>6. text \in Seq(Tokens)
  <2>1. text \in Seq(STRING)
    BY <1>1, FlattenType
  <2>2. STRING \subseteq Tokens
    BY Zenon DEF Tokens
  <2> QED
    BY <2>1, <2>2, SeqMonotonic
<1>7. l9 = <<"[">> \o d \o <<"] ", s, " ">> \o <<base, ":">> \o num \o <<" ">> \o text
  <2> DEFINE b == "["
             c == "] "
             sp == " "
             co == ":"
             dt == "%datetime"
             fb == "%fbase"
             ln == "%line"
             mg == "%msg"
             rest == <<c>> \o (<<s>> \o (<<sp>> \o (<<fb>> \o (<<co>> \o (<<ln>> \o (<<sp>> \o <<mg>>))))))
  <2>1. /\ b \in Fixed /\ c \in Fixed /\ sp \in Fixed /\ co \in Fixed
        /\ dt \notin Fixed /\ fb \notin Fixed /\ ln \notin Fixed /\ mg \notin Fixed /\ "%" \notin Fixed
        /\ Fixed \subseteq Tokens
    BY FixedTokens, Zenon
  <2>2. dt \in Tokens /\ fb \in Tokens /\ ln \in Tokens /\ mg \in Tokens
    BY Zenon DEF Tokens
  <2>3. base # ln /\ base # mg /\ ln # mg
    BY <1>3, Zenon
  <2>4. l0 = <<b>> \o (<<dt>> \o rest)
    BY Zenon DEF LevelFormat, Rest
  <2>5. /\ l3 = ReplaceFirstWithEscape(l0, dt, d) /\ l6 = ReplaceFirstWithEscape(l3, fb, <<base>>)
        /\ l7 = ReplaceFirstWithEscape(l6, ln, num) /\ l9 = ReplaceFirstWithEscape(l7, mg, text)
    BY Zenon
  <2> HIDE DEF b, c, sp, co, dt, fb, ln, mg, base, s, d, num, text, l0, l3, l6, l7, l9
  <2>6. ReplaceFirstWithEscape(ReplaceFirstWithEscape(ReplaceFirstWithEscape(
            ReplaceFirstWithEscape(<<b>> \o (<<dt>> \o rest), dt, d), fb, <<base>>), ln, num), mg, text)
        = <<b>> \o d \o <<c, s, sp>> \o <<base, co>> \o num \o <<sp>> \o text
    <3>1. rest = <<c>> \o (<<s>> \o (<<sp>> \o (<<fb>> \o (<<co>> \o (<<ln>> \o (<<sp>> \o <<mg>>))))))
      OBVIOUS
    <3> HIDE DEF rest
    <3>2. LineFilled(b, c, s, sp, co, d, num, text, dt, fb, ln, mg, base, rest)
      BY <1>2, <1>3, <1>4, <1>5, <1>6, <2>1, <2>2, <2>3, <3>1, LineFilledIn
    <3> QED
      BY <3>2 DEF LineFilled
  <2>7. l9 = <<b>> \o d \o <<c, s, sp>> \o <<base, co>> \o num \o <<sp>> \o text
    <3> HIDE DEF rest
    <3> QED
      BY <2>4, <2>5, <2>6
  <2> QED
    BY <2>7, Zenon DEF b, c, sp, co
<1>8. LineOf(m) = l9 \o <<"\n">>
  <2>1. LineOf(m) = (<<"[">> \o d \o <<"] ", s, " ">> \o <<base, ":">> \o num \o <<" ">> \o text) \o <<"\n">>
    BY Zenon DEF LineOf
  <2> HIDE DEF l9, d, s, base, num, text
  <2> QED
    BY <1>7, <2>1, Zenon
<1>9. /\ Len(r) = 9
      /\ r[1][1] = "%app" /\ r[2][1] = "%thread" /\ r[3][1] = "%datetime" /\ r[4][1] = "%func"
      /\ r[5][1] = "%file" /\ r[6][1] = "%fbase" /\ r[7][1] = "%line" /\ r[8][1] = "%loc"
      /\ r[9][1] = "%msg"
      /\ r[3][2] = d /\ r[6][2] = <<base>> /\ r[7][2] = num /\ r[9][2] = text
  <2>1. ReplacementsOf(r, f, message, p)
    BY ReplacementsAre
  <2> HIDE DEF r, d, base, num, text
  <2>3. message.text = text
    BY DEF text
  <2> QED
    BY <1>3, <1>4, <1>5, <2>1, <2>3 DEF ReplacementsOf
<1> HIDE DEF r, l0, l3, l6, l7, l9, d, base, num, text
<1>10. /\ g[0] = l0 /\ g[1] = l0 /\ g[2] = l0 /\ g[3] = l3 /\ g[4] = l3 /\ g[5] = l3 /\ g[6] = l6 /\ g[7] = l7
       /\ g[8] = l7 /\ g[9] = l9
  OBVIOUS
<1>11. g = [i \in 0..9 |-> g[i]]
  OBVIOUS
<1> HIDE DEF g
<1>12. /\ l3 = ReplaceFirstWithEscape(l0, "%datetime", d) /\ l6 = ReplaceFirstWithEscape(l3, "%fbase", <<base>>)
       /\ l7 = ReplaceFirstWithEscape(l6, "%line", num) /\ l9 = ReplaceFirstWithEscape(l7, "%msg", text)
  BY DEF l3, l6, l7, l9
<1>13. /\ "%app" \notin f.flags /\ "%thread" \notin f.flags /\ "%datetime" \in f.flags /\ "%func" \notin f.flags
       /\ "%file" \notin f.flags /\ "%fbase" \in f.flags /\ "%line" \in f.flags /\ "%loc" \notin f.flags
       /\ "%msg" \in f.flags
  BY DEF FormatFlags
<1>14. ASSUME NEW i \in 0..9 PROVE g[i] = Filled(f, r, g, i)
  <2>0. CASE i = 0
    <3>1. f.format = l0
      BY DEF l0
    <3> QED
      BY <1>10, <2>0, <3>1 DEF Filled
  <2>a. CASE i \in {1, 2, 4, 5, 8}
    <3>1. i > 0 /\ r[i][1] \notin f.flags
      BY <1>9, <1>13, <2>a
    <3>2. g[i] = g[i - 1]
      BY <1>10, <2>a
    <3> QED
      BY <3>1, <3>2 DEF Filled
  <2>b. CASE i \in {3, 6, 7, 9}
    <3>1. i > 0 /\ r[i][1] \in f.flags
      BY <1>9, <1>13, <2>b
    <3>2. g[i] = ReplaceFirstWithEscape(g[i - 1], r[i][1], r[i][2])
      BY <1>9, <1>10, <1>12, <2>b
    <3> QED
      BY <3>1, <3>2 DEF Filled
  <2> QED
    BY <2>0, <2>a, <2>b
<1>15. Build(f, message, p) = g[9] \o <<"\n">>
  <2>1. g = [i \in 0..Len(r) |-> Filled(f, r, g, i)]
    BY <1>9, <1>11, <1>14
  <2>2. r = Replacements(f, message, p) /\ Len(r) \in Nat
    BY <1>9 DEF r
  <2>3. Build(f, message, p) = g[Len(r)] \o <<"\n">>
    BY <2>1, <2>2, BuildIs, SMTT(30)
  <2> QED
    BY <1>9, <2>3
<1> QED
  BY <1>8, <1>10, <1>15

-----------------------------------------------------------------------------
(* How the logger is configured. *)

IsOver(h, f, g) ==
    /\ DOMAIN h = DOMAIN f \cup DOMAIN g
    /\ \A x \in DOMAIN f : h[x] = f[x]
    /\ \A x \in DOMAIN g : x \notin DOMAIN f => h[x] = g[x]

LEMMA OverIs ==
    ASSUME NEW f, NEW g
    PROVE  IsOver(Over(f, g), f, g)
BY DEF Over, IsOver

LEMMA LevelNames ==
    /\ "Global" \in Levels /\ AllLevels \subseteq Levels /\ "Global" \notin AllLevels
    /\ Levels = {"Global"} \cup AllLevels /\ "Info" \in AllLevels
    /\ "Unknown" \notin AllLevels
BY DEF Levels, AllLevels

LEMMA TypeNames ==
    /\ "Enabled" \in Types /\ "ToFile" \in Types /\ "ToStandardOutput" \in Types /\ "Format" \in Types
    /\ "Filename" \in Types /\ "SubsecondPrecision" \in Types /\ "MaxLogFileSize" \in Types
    /\ "LogFlushThreshold" \in Types
BY DEF Types

LEMMA DefaultsAre ==
    /\ SetToDefault = [type \in Types |-> SetToDefault[type]]
    /\ \A type \in Types : DOMAIN SetToDefault[type] = Levels
    /\ \A level \in Levels :
          /\ SetToDefault["Enabled"][level] = "true" /\ SetToDefault["ToFile"][level] = "true"
          /\ SetToDefault["ToStandardOutput"][level] = "true"
          /\ SetToDefault["Filename"][level] = DefaultLogFile
          /\ SetToDefault["MaxLogFileSize"][level] = <<"0">>
<1>1. SetToDefault = [type \in Types |-> SetToDefault[type]]
  BY Zenon DEF SetToDefault
<1>2. \A type \in Types : DOMAIN SetToDefault[type] = Levels
  BY Zenon DEF SetToDefault
<1>3. ASSUME NEW level \in Levels
      PROVE  SetToDefault["Enabled"][level] = "true"
  BY TypeNames, Zenon DEF SetToDefault
<1>4. ASSUME NEW level \in Levels
      PROVE  SetToDefault["ToFile"][level] = "true"
  BY TypeNames, Zenon DEF SetToDefault
<1>5. ASSUME NEW level \in Levels
      PROVE  SetToDefault["ToStandardOutput"][level] = "true"
  BY TypeNames, Zenon DEF SetToDefault
<1>6. ASSUME NEW level \in Levels
      PROVE  SetToDefault["Filename"][level] = DefaultLogFile
  BY TypeNames, Zenon DEF SetToDefault
<1>7. ASSUME NEW level \in Levels
      PROVE  SetToDefault["MaxLogFileSize"][level] = <<"0">>
  BY TypeNames, Zenon DEF SetToDefault
<1> QED
  BY <1>1, <1>2, <1>3, <1>4, <1>5, <1>6, <1>7, Zenon

LEMMA InitConfigurationsAre ==
    /\ \A type \in Types : DOMAIN InitConfigurations[type] = Levels
    /\ \A level \in Levels :
          /\ InitConfigurations["Enabled"][level] = "true" /\ InitConfigurations["ToFile"][level] = "true"
          /\ InitConfigurations["ToStandardOutput"][level] = "true"
          /\ InitConfigurations["MaxLogFileSize"][level] = <<"0">>
    /\ InitConfigurations["Filename"]["Global"] = DefaultLogFile
    /\ \A level \in AllLevels :
          /\ InitConfigurations["Filename"][level] = LogFile
          /\ InitConfigurations["Format"][level] = Format
<1> DEFINE a == SetGlobally(SetToDefault, "Format", Format, FALSE)
           c == InitConfigurations
<1>1. /\ a = [SetToDefault EXCEPT !["Format"] = Over([l \in AllLevels |-> Format], @)]
      /\ c = [a EXCEPT !["Filename"] = Over([l \in AllLevels |-> LogFile], @)]
  BY DEF InitConfigurations, SetGlobally
<1>2. /\ \A type \in Types : type # "Format" => a[type] = SetToDefault[type]
      /\ a["Format"] = Over([l \in AllLevels |-> Format], SetToDefault["Format"])
      /\ DOMAIN a = Types
  <2> HIDE DEF a
  <2> QED
    BY <1>1, DefaultsAre, TypeNames
<1>3. /\ \A type \in Types : type # "Filename" => c[type] = a[type]
      /\ c["Filename"] = Over([l \in AllLevels |-> LogFile], a["Filename"])
  <2> HIDE DEF a, c
  <2> QED
    BY <1>1, <1>2, TypeNames
<1> HIDE DEF a, c
<1>4. /\ DOMAIN c["Format"] = Levels
      /\ \A l \in AllLevels : c["Format"][l] = Format
  <2> DEFINE f == [l \in AllLevels |-> Format]
             g == SetToDefault["Format"]
  <2>1. c["Format"] = Over(f, g)
    BY <1>2, <1>3, TypeNames
  <2>2. DOMAIN f = AllLevels /\ \A l \in AllLevels : f[l] = Format
    OBVIOUS
  <2>3. DOMAIN g = Levels
    BY DefaultsAre, TypeNames
  <2> HIDE DEF f, g
  <2>4. IsOver(Over(f, g), f, g)
    BY OverIs
  <2> QED
    BY <2>1, <2>2, <2>3, <2>4, LevelNames DEF IsOver
<1>5. /\ DOMAIN c["Filename"] = Levels /\ c["Filename"]["Global"] = DefaultLogFile
      /\ \A l \in AllLevels : c["Filename"][l] = LogFile
  <2> DEFINE f == [l \in AllLevels |-> LogFile]
             g == SetToDefault["Filename"]
  <2>1. c["Filename"] = Over(f, g)
    BY <1>2, <1>3, TypeNames
  <2>2. DOMAIN f = AllLevels /\ \A l \in AllLevels : f[l] = LogFile
    OBVIOUS
  <2>3. DOMAIN g = Levels /\ g["Global"] = DefaultLogFile
    BY DefaultsAre, TypeNames, LevelNames
  <2> HIDE DEF f, g
  <2>4. IsOver(Over(f, g), f, g)
    BY OverIs
  <2> QED
    BY <2>1, <2>2, <2>3, <2>4, LevelNames DEF IsOver
<1>6. \A type \in Types \ {"Format", "Filename"} : c[type] = SetToDefault[type]
  BY <1>2, <1>3
<1>7. \A type \in Types : DOMAIN c[type] = Levels
  BY <1>4, <1>5, <1>6, DefaultsAre
<1>8. /\ c["Enabled"] = SetToDefault["Enabled"] /\ c["ToFile"] = SetToDefault["ToFile"]
      /\ c["ToStandardOutput"] = SetToDefault["ToStandardOutput"]
      /\ c["MaxLogFileSize"] = SetToDefault["MaxLogFileSize"]
  BY <1>6, TypeNames
<1>9. \A level \in Levels :
          /\ c["Enabled"][level] = "true" /\ c["ToFile"][level] = "true"
          /\ c["ToStandardOutput"][level] = "true" /\ c["MaxLogFileSize"][level] = <<"0">>
  BY <1>8, DefaultsAre
<1> QED
  BY <1>4, <1>5, <1>7, <1>9 DEF c

\* What is set for all levels replaces what was configured before.
LEMMA SetFromBaseIs ==
    ASSUME NEW own, NEW base, \A type \in Types : DOMAIN base[type] = Levels
    PROVE  \A type \in Types :
               /\ DOMAIN SetFromBase(own, base)[type] = Levels
               /\ \A level \in Levels : SetFromBase(own, base)[type][level] = base[type][level]
<1> TAKE type \in Types
<1> DEFINE g == [l \in Levels |-> base[type]["Global"]]
<1>1. SetFromBase(own, base)[type] = Over(base[type], g)
  BY LevelNames DEF SetFromBase
<1>2. DOMAIN g = Levels /\ DOMAIN base[type] = Levels
  OBVIOUS
<1> HIDE DEF g
<1>3. IsOver(Over(base[type], g), base[type], g)
  BY OverIs
<1> QED
  BY <1>1, <1>2, <1>3 DEF IsOver

\* A level without an entry of its own takes Global's, which is then the same as its own.
LEMMA BoolOfLevel ==
    ASSUME NEW values, DOMAIN values = Levels, NEW level \in Levels, NEW default
    PROVE  GetConfig(TypedMap(GetBool, values), level, default) = GetBool(values[level])
<1> DEFINE own == {l \in DOMAIN values : l = "Global" \/ GetBool(values[l]) # GetBool(values["Global"])}
           map == [l \in own |-> GetBool(values[l])]
<1>1. TypedMap(GetBool, values) = map
  BY DEF TypedMap
<1>2. "Global" \in own /\ DOMAIN map = own /\ \A l \in own : map[l] = GetBool(values[l])
  BY LevelNames
<1>3. level \notin own => GetBool(values[level]) = GetBool(values["Global"])
  OBVIOUS
<1> HIDE DEF own, map
<1> QED
  BY <1>1, <1>2, <1>3 DEF GetConfig

LEMMA NumberOfLevel ==
    ASSUME NEW values, DOMAIN values = Levels, NEW level \in Levels, NEW default
    PROVE  GetConfig(TypedMap(GetULong, values), level, default) = GetULong(values[level])
<1> DEFINE own == {l \in DOMAIN values : l = "Global" \/ GetULong(values[l]) # GetULong(values["Global"])}
           map == [l \in own |-> GetULong(values[l])]
<1>1. TypedMap(GetULong, values) = map
  BY DEF TypedMap
<1>2. "Global" \in own /\ DOMAIN map = own /\ \A l \in own : map[l] = GetULong(values[l])
  BY LevelNames
<1>3. level \notin own => GetULong(values[level]) = GetULong(values["Global"])
  OBVIOUS
<1> HIDE DEF own, map
<1> QED
  BY <1>1, <1>2, <1>3 DEF GetConfig

LEMMA FormatOfLevel ==
    ASSUME NEW formats, DOMAIN formats = Levels, NEW level \in Levels, NEW id, NEW map,
           map = [l \in {k \in Levels : k = "Global" \/ formats[k] # formats["Global"]} |-> formats[l]],
           NEW resolved, resolved = [l \in DOMAIN map |-> ResolveLoggerFormatSpec(map[l], id)]
    PROVE  GetConfig(resolved, level, NoLogFormat) = ResolveLoggerFormatSpec(formats[level], id)
<1> DEFINE own == {k \in Levels : k = "Global" \/ formats[k] # formats["Global"]}
<1>1. map = [l \in own |-> formats[l]]
  OBVIOUS
<1>2. "Global" \in own
  BY LevelNames
<1>3. level \notin own => formats[level] = formats["Global"]
  OBVIOUS
<1> HIDE DEF own
<1>4. DOMAIN map = own /\ \A l \in own : map[l] = formats[l]
  BY <1>1
<1>5. DOMAIN resolved = own /\ \A l \in own : resolved[l] = ResolveLoggerFormatSpec(formats[l], id)
  BY <1>4
<1> QED
  BY <1>2, <1>3, <1>5 DEF GetConfig

\* The default size of a file, "0", is none.
LEMMA NoSize == GetULong(<<"0">>) = 0
<1> DEFINE text == <<"0">>
           D(c) == CHOOSE n \in 0..9 : Digit(n) = c
           F(v, i) == IF i = 0 THEN 0 ELSE 10 * v[i - 1] + D(text[i])
           value == CHOOSE v : v = [i \in 0..Len(text) |-> F(v, i)]
           zeros == [i \in 0..1 |-> 0]
<1>1. Len(text) = 1 /\ text[1] = "0" /\ DOMAIN text = 1..1
  OBVIOUS
<1>2. Digit(0) = "0" /\ \A n \in 0..9 : Digit(n) = "0" => n = 0
  <2>1. \A n \in 0..9 : \/ n = 0 \/ n = 1 \/ n = 2 \/ n = 3 \/ n = 4 \/ n = 5 \/ n = 6 \/ n = 7 \/ n = 8 \/ n = 9
    OBVIOUS
  <2> QED
    BY <2>1 DEF Digit
<1>3. D("0") = 0
  BY <1>2
<1>4. GetULong(text) = IF \A i \in DOMAIN text : \E n \in 0..9 : Digit(n) = text[i] THEN value[Len(text)] ELSE 0
  BY Zenon DEF GetULong
<1> HIDE DEF D, text
<1>5. \A v : v[0] = 0 => F(v, 0) = 0 /\ F(v, 1) = 0
  BY <1>1, <1>3
<1> HIDE DEF F
<1>6. zeros = [i \in 0..Len(text) |-> F(zeros, i)]
  <2>1. \A i \in 0..1 : i = 0 \/ i = 1
    OBVIOUS
  <2>2. \A i \in 0..1 : F(zeros, i) = 0
    BY <1>5, <2>1
  <2> QED
    BY <1>1, <2>2
<1> HIDE DEF zeros
<1>7. value = [i \in 0..Len(text) |-> F(value, i)]
  BY <1>6
<1> HIDE DEF value
<1>8. value[0] = F(value, 0) /\ value[1] = F(value, 1)
  BY <1>1, <1>7
<1>9. value[0] = 0
  BY <1>8 DEF F
<1>10. value[1] = 0
  BY <1>5, <1>8, <1>9
<1> QED
  BY <1>1, <1>2, <1>4, <1>10 DEF text

\* A name without a date is itself.
LEMMA NamesAre ==
    ASSUME NEW now
    PROVE  ResolveFilename(LogFile, now) = LogFile /\ ResolveFilename(DefaultLogFile, now) = DefaultLogFile
<1>1. \A name : (\A i \in DOMAIN name : name[i] # "%datetime") => ResolveFilename(name, now) = name
  BY DEF ResolveFilename, Plain, Occurrences
<1>2. \A i \in DOMAIN DefaultLogFile : DefaultLogFile[i] # "%datetime"
  <2>1. DOMAIN DefaultLogFile = 1..1 /\ DefaultLogFile[1] = "myeasylog.log"
    BY DEF DefaultLogFile
  <2> QED
    BY <2>1
<1> QED
  BY <1>1, <1>2, LoggingAssumption

\* The levels log to their file when neither its stream nor Global's is null, and otherwise
\* none of them does.
LEMMA ToFileOfLevel ==
    ASSUME NEW toFile, toFile = [l \in {"Global"} |-> TRUE],
           NEW names, names["Global"] = DefaultLogFile, \A l \in AllLevels : names[l] = LogFile,
           NEW streams, NEW level \in AllLevels
    PROVE  GetConfig(ToFileOf(toFile, names, streams), level, FALSE)
               = (streams[LogFile] # "null" /\ streams[DefaultLogFile] # "null")
<1> DEFINE Null(l) == streams[names[l]] = "null"
           global == IF Null("Global") THEN SetValue(toFile, "Global", FALSE) ELSE toFile
           off == {l \in AllLevels : Null(l) /\ SetValue(global, l, FALSE) # global}
           f == [l \in off |-> FALSE]
<1>1. ToFileOf(toFile, names, streams) = Over(f, global)
  BY DEF ToFileOf
<1>2. DOMAIN toFile = {"Global"} /\ toFile["Global"] = TRUE
  OBVIOUS
<1>3. \A map : DOMAIN map = {"Global"} => map # <<>>
  <2>1. \A map : map = <<>> => DOMAIN map = {}
    OBVIOUS
  <2> QED
    BY <2>1
<1>4. Null("Global") => DOMAIN global = {"Global"} /\ global["Global"] = FALSE
  <2> SUFFICES ASSUME Null("Global") PROVE DOMAIN global = {"Global"} /\ global["Global"] = FALSE
    OBVIOUS
  <2> DEFINE g == [l \in {"Global"} |-> FALSE]
  <2>1. IsOver(Over(g, toFile), g, toFile)
    BY OverIs
  <2>2. global = Over(g, toFile)
    <3>1. SetValue(toFile, "Global", FALSE)
             = Over([l \in {IF toFile = <<>> THEN "Global" ELSE "Global"} |-> FALSE], toFile)
      BY <1>2 DEF SetValue
    <3> QED
      BY <3>1
  <2>3. DOMAIN g = {"Global"} /\ g["Global"] = FALSE
    OBVIOUS
  <2> HIDE DEF g, global
  <2> QED
    BY <1>2, <2>1, <2>2, <2>3 DEF IsOver
<1>5. ~Null("Global") => DOMAIN global = {"Global"} /\ global["Global"] = TRUE
  BY <1>2
<1>6. DOMAIN global = {"Global"}
  BY <1>4, <1>5
<1>7. \A l \in AllLevels : global["Global"] = TRUE => SetValue(global, l, FALSE) # global
  <2> SUFFICES ASSUME NEW l \in AllLevels, global["Global"] = TRUE PROVE SetValue(global, l, FALSE) # global
    OBVIOUS
  <2> HIDE DEF global
  <2> DEFINE g == [k \in {l} |-> FALSE]
  <2>1. SetValue(global, l, FALSE) = Over(g, global)
    <3>1. global # <<>>
      BY <1>3, <1>6
    <3>2. SetValue(global, l, FALSE) = Over([k \in {IF global = <<>> THEN "Global" ELSE l} |-> FALSE], global)
      BY DEF SetValue
    <3> QED
      BY <3>1, <3>2
  <2>2. IsOver(Over(g, global), g, global)
    BY OverIs
  <2>3. l \in DOMAIN g
    OBVIOUS
  <2> HIDE DEF g
  <2>4. l \in DOMAIN Over(g, global)
    BY <2>2, <2>3 DEF IsOver
  <2>5. l # "Global"
    BY LevelNames
  <2> QED
    BY <1>6, <2>1, <2>4, <2>5
<1>8. \A l \in AllLevels : global["Global"] = FALSE => SetValue(global, l, FALSE) = global
  <2> HIDE DEF global
  <2> QED
    BY <1>3, <1>6 DEF SetValue
<1>9. Null("Global") <=> streams[DefaultLogFile] = "null"
  OBVIOUS
<1>10. \A l \in AllLevels : Null(l) <=> streams[LogFile] = "null"
  OBVIOUS
<1>11. IsOver(Over(f, global), f, global)
  BY OverIs
<1>12. DOMAIN f = off /\ \A l \in off : f[l] = FALSE
  OBVIOUS
<1>13. level \in off <=> (streams[LogFile] = "null" /\ streams[DefaultLogFile] # "null")
  <2> HIDE DEF global, Null
  <2> QED
    BY <1>4, <1>5, <1>7, <1>8, <1>9, <1>10
<1>14. level # "Global" /\ "Global" \notin off
  BY LevelNames
<1> HIDE DEF f, off, global, Null
<1>15. CASE level \in off
  <2>1. GetConfig(Over(f, global), level, FALSE) = FALSE
    BY <1>11, <1>12, <1>15 DEF IsOver, GetConfig
  <2> QED
    BY <1>1, <1>13, <1>15, <2>1
<1>16. CASE level \notin off
  <2>1. GetConfig(Over(f, global), level, FALSE) = global["Global"]
    BY <1>6, <1>11, <1>12, <1>14, <1>16 DEF IsOver, GetConfig
  <2> QED
    BY <1>1, <1>4, <1>5, <1>9, <1>13, <1>16, <2>1
<1> QED
  BY <1>15, <1>16

\* The streams and the directories there are when files of these names have been opened.
OpenedStreams(t, reference, names, host) ==
    /\ DOMAIN t.reference = DOMAIN reference \cup names
    /\ \A name \in DOMAIN reference : t.reference[name] = reference[name]
    /\ \A name \in names : name \notin DOMAIN reference =>
          t.reference[name] = NewFileStream(WithPaths(host, names), name)
    /\ t.dirs = WithPaths(host, names).dirs

\* What Logger::Init makes of its configurations: each level is enabled, and logs to the
\* log and to standard output in the format that was given.
ConfiguredLevel(t, level) ==
    /\ Enabled(t, level) = TRUE
    /\ ToStandardOutput(t, level) = TRUE
    /\ FileStream(t, level) = LogFile
    /\ MaxLogFileSize(t, level) = 0
    /\ \E environ : LogFormatAt(t, level)
                        = ResolveLoggerFormatSpec(LogFormatOf(level, Format, environ), DefaultLoggerId)
    /\ ToFile(t, level) = (t.reference[LogFile] # "null" /\ t.reference[DefaultLogFile] # "null")

LEMMA StreamsOpened ==
    ASSUME NEW c, NEW reference, NEW host, NEW id, NEW names,
           names = {ResolveFilename(c["Filename"][l], host.now) : l \in Levels}
    PROVE  OpenedStreams(ResolveFormats(BuildTyped(c, reference, host), id), reference, names, host)
<1> DEFINE b == BuildTyped(c, reference, host)
           t == ResolveFormats(b, id)
           files_ == [l \in Levels |-> ResolveFilename(c["Filename"][l], host.now)]
           names_ == {files_[l] : l \in Levels}
           after == WithPaths(host, names)
           g == [name \in names |-> NewFileStream(after, name)]
<1>1. t.reference = b.reference /\ t.dirs = b.dirs
  BY DEF ResolveFormats, BuildTyped
<1>2. names_ = names
  OBVIOUS
<1>3. b.reference = OpenStreams(reference, names_, WithPaths(host, names_))
      /\ b.dirs = WithPaths(host, names_).dirs
  BY DEF BuildTyped
<1> HIDE DEF b, t
<1>4. t.reference = Over(reference, g) /\ t.dirs = after.dirs
  BY <1>1, <1>2, <1>3 DEF OpenStreams
<1>5. IsOver(Over(reference, g), reference, g)
  BY OverIs
<1>6. DOMAIN g = names /\ \A name \in names : g[name] = NewFileStream(after, name)
  OBVIOUS
<1> HIDE DEF g, after
<1>7. OpenedStreams(t, reference, names, host)
  BY <1>4, <1>5, <1>6 DEF IsOver, OpenedStreams, after
<1> QED
  BY <1>7 DEF t, b

LEMMA InitConfigured ==
    ASSUME NEW reference, NEW host, NEW t,
           t = Configure(SetToDefault, InitConfigurations, reference, host, DefaultLoggerId)
    PROVE  OpenedStreams(t, reference, Files, host) /\ \A level \in AllLevels : ConfiguredLevel(t, level)
<1> DEFINE c == SetFromBase(SetToDefault, InitConfigurations)
           b == BuildTyped(c, reference, host)
           files_ == [l \in Levels |-> ResolveFilename(c["Filename"][l], host.now)]
           names_ == {files_[l] : l \in Levels}
           formats == [l \in Levels |-> LogFormatOf(l, c["Format"][l], host.env)]
           map == TypedMap(LAMBDA format : format, formats)
           after == WithPaths(host, names_)
           streams == OpenStreams(reference, names_, after)
<1>1. t = ResolveFormats(b, DefaultLoggerId)
  BY DEF Configure
<1>2. \A type \in Types :
         /\ DOMAIN c[type] = Levels
         /\ \A level \in Levels : c[type][level] = InitConfigurations[type][level]
  BY SetFromBaseIs, InitConfigurationsAre
<1> HIDE DEF c
<1>3. c["Filename"]["Global"] = DefaultLogFile /\ \A l \in AllLevels : c["Filename"][l] = LogFile
  BY <1>2, InitConfigurationsAre, LevelNames, TypeNames
<1>4. files_["Global"] = DefaultLogFile /\ \A l \in AllLevels : files_[l] = LogFile
  BY <1>3, NamesAre, LevelNames
<1>5. DOMAIN files_ = Levels
  OBVIOUS
<1>6. names_ = Files /\ names_ = {ResolveFilename(c["Filename"][l], host.now) : l \in Levels}
  <2>1. \A l \in Levels : files_[l] \in Files
    BY <1>4, LevelNames DEF Files
  <2>2. \A f \in Files : \E l \in Levels : files_[l] = f
    BY <1>4, LevelNames DEF Files
  <2> QED
    BY <2>1, <2>2
<1>7. OpenedStreams(t, reference, Files, host)
  BY <1>1, <1>6, StreamsOpened
<1>8. /\ t.enabled = TypedMap(GetBool, c["Enabled"])
      /\ t.toStandardOutput = TypedMap(GetBool, c["ToStandardOutput"])
      /\ t.maxLogFileSize = TypedMap(GetULong, c["MaxLogFileSize"])
  BY <1>1 DEF ResolveFormats, BuildTyped
<1>9. t.files = files_ /\ t.reference = streams
  BY <1>1 DEF ResolveFormats, BuildTyped
<1>10. t.toFile = ToFileOf(TypedMap(GetBool, c["ToFile"]), files_, streams)
  BY <1>1 DEF ResolveFormats, BuildTyped
<1>11. t.logFormat = [l \in DOMAIN map |-> ResolveLoggerFormatSpec(map[l], DefaultLoggerId)]
  <2>1. b.logFormat = map
    BY DEF BuildTyped
  <2>2. t.logFormat = [l \in DOMAIN b.logFormat |-> ResolveLoggerFormatSpec(b.logFormat[l], DefaultLoggerId)]
    <3>1. "logFormat" \in DOMAIN b
      BY DEF BuildTyped
    <3> HIDE DEF b
    <3> QED
      BY <1>1, <3>1 DEF ResolveFormats
  <2> HIDE DEF b, map
  <2> QED
    BY <2>1, <2>2
<1> HIDE DEF b, files_, names_, streams
<1>12. ASSUME NEW level \in AllLevels PROVE ConfiguredLevel(t, level)
  <2>0. level \in Levels
    BY LevelNames
  <2>a. GetBool("true") = TRUE
    BY DEF GetBool
  <2>b. /\ DOMAIN c["Enabled"] = Levels /\ DOMAIN c["ToFile"] = Levels /\ DOMAIN c["ToStandardOutput"] = Levels
        /\ DOMAIN c["MaxLogFileSize"] = Levels
    BY <1>2, TypeNames
  <2>c. /\ c["Enabled"][level] = "true" /\ c["ToStandardOutput"][level] = "true"
        /\ c["MaxLogFileSize"][level] = <<"0">>
    BY <1>2, <2>0, InitConfigurationsAre, TypeNames
  <2>1. Enabled(t, level) = TRUE
    <3>1. GetConfig(TypedMap(GetBool, c["Enabled"]), level, FALSE) = GetBool(c["Enabled"][level])
      BY <2>0, <2>b, BoolOfLevel
    <3> QED
      BY <1>8, <2>a, <2>c, <3>1 DEF Enabled
  <2>2. ToStandardOutput(t, level) = TRUE
    <3>1. GetConfig(TypedMap(GetBool, c["ToStandardOutput"]), level, FALSE) = GetBool(c["ToStandardOutput"][level])
      BY <2>0, <2>b, BoolOfLevel
    <3> QED
      BY <1>8, <2>a, <2>c, <3>1 DEF ToStandardOutput
  <2>3. FileStream(t, level) = LogFile
    BY <1>4, <1>5, <1>9, <2>0 DEF FileStream, GetConfig
  <2>4. MaxLogFileSize(t, level) = 0
    <3>1. GetConfig(TypedMap(GetULong, c["MaxLogFileSize"]), level, 0) = GetULong(c["MaxLogFileSize"][level])
      BY <2>0, <2>b, NumberOfLevel
    <3> QED
      BY <1>8, <2>c, <3>1, NoSize DEF MaxLogFileSize
  <2>5. LogFormatAt(t, level) = ResolveLoggerFormatSpec(LogFormatOf(level, Format, host.env), DefaultLoggerId)
    <3>1. DOMAIN formats = Levels
      OBVIOUS
    <3>2. formats[level] = LogFormatOf(level, Format, host.env)
      <4>1. c["Format"][level] = Format
        BY <1>2, <2>0, InitConfigurationsAre, TypeNames
      <4> QED
        BY <2>0, <4>1
    <3>3. GetConfig(t.logFormat, level, NoLogFormat) = ResolveLoggerFormatSpec(formats[level], DefaultLoggerId)
      <4> DEFINE r == t.logFormat
      <4>1. r = [l \in DOMAIN map |-> ResolveLoggerFormatSpec(map[l], DefaultLoggerId)]
        BY <1>11
      <4>2. map = [l \in {k \in Levels : k = "Global" \/ formats[k] # formats["Global"]} |-> formats[l]]
        BY <3>1 DEF TypedMap
      <4> HIDE DEF r, map, formats
      <4>3. GetConfig(r, level, NoLogFormat) = ResolveLoggerFormatSpec(formats[level], DefaultLoggerId)
        BY <2>0, <3>1, <4>1, <4>2, FormatOfLevel
      <4> QED
        BY <4>3 DEF r
    <3> QED
      BY <3>2, <3>3 DEF LogFormatAt
  <2>6. ToFile(t, level) = (t.reference[LogFile] # "null" /\ t.reference[DefaultLogFile] # "null")
    <3>1. TypedMap(GetBool, c["ToFile"]) = [l \in {"Global"} |-> TRUE]
      <4> DEFINE v == c["ToFile"]
                 own == {l \in DOMAIN v : l = "Global" \/ GetBool(v[l]) # GetBool(v["Global"])}
                 m == [l \in own |-> GetBool(v[l])]
      <4>1. DOMAIN v = Levels /\ \A l \in Levels : v[l] = "true"
        BY <1>2, InitConfigurationsAre, TypeNames
      <4>2. TypedMap(GetBool, v) = m
        BY DEF TypedMap
      <4> HIDE DEF v
      <4>3. own = {"Global"} /\ \A l \in own : GetBool(v[l]) = TRUE
        BY <2>a, <4>1, LevelNames
      <4>4. m = [l \in {"Global"} |-> TRUE]
        BY <4>3
      <4> QED
        BY <4>2, <4>4 DEF v
    <3> DEFINE f == TypedMap(GetBool, c["ToFile"])
    <3>2. f = [l \in {"Global"} |-> TRUE]
      BY <3>1
    <3> HIDE DEF f
    <3>3. GetConfig(ToFileOf(f, files_, streams), level, FALSE)
             = (streams[LogFile] # "null" /\ streams[DefaultLogFile] # "null")
      BY <1>4, <3>2, ToFileOfLevel
    <3> QED
      BY <1>9, <1>10, <3>3 DEF ToFile, f
  <2> QED
    BY <2>1, <2>2, <2>3, <2>4, <2>5, <2>6 DEF ConfiguredLevel
<1> QED
  BY <1>7, <1>12

-----------------------------------------------------------------------------
(* Directories *)

LEMMA MaxIs ==
    ASSUME NEW n \in Nat, NEW S, S \subseteq 0..n, S # {}
    PROVE  Max(S) \in S /\ \A x \in S : x =< Max(S)
<1> DEFINE T == {n - x : x \in S}
<1>1. PICK y \in T : \A z \in T : y =< z
  <2>0. \A x \in S : n - x \in Nat
    OBVIOUS
  <2>1. T \subseteq Nat /\ T # {}
    BY <2>0
  <2> HIDE DEF T
  <2> QED
    BY <2>1, FirstIs
<1>2. PICK x \in S : y = n - x
  OBVIOUS
<1>3. \A z \in S : n - x =< n - z
  BY <1>1, <1>2
<1>4. \A z \in S : x >= z /\ z =< x
  BY <1>3
<1>5. \E w \in S : \A z \in S : w >= z
  BY <1>4
<1> DEFINE m == CHOOSE w \in S : \A z \in S : w >= z
<1>6. m \in S /\ \A z \in S : m >= z
  BY <1>5
<1>7. Max(S) = m
  BY DEF Max
<1> HIDE DEF m
<1>8. \A z \in S : z =< m
  BY <1>6
<1> QED
  BY <1>6, <1>7, <1>8

\* What is in front of the last slash, and the slash.
LastSlash(path, k) ==
    /\ k \in 0..Len(path)
    /\ UpToLastSlash(path) = SubSeq(path, 1, k)
    /\ k # 0 => path[k] = "/"
    /\ \A i \in 1..Len(path) : path[i] = "/" => i =< k

LEMMA LastSlashIs ==
    ASSUME NEW S, NEW path \in Seq(S)
    PROVE  \E k : LastSlash(path, k)
<1> DEFINE slashes == {0} \cup {i \in DOMAIN path : path[i] = "/"}
           k == Max(slashes)
<1>1. Len(path) \in Nat /\ DOMAIN path = 1..Len(path)
  BY LenProperties
<1>2. slashes \subseteq 0..Len(path) /\ slashes # {}
  BY <1>1
<1>3. k \in slashes /\ \A i \in slashes : i =< k
  <2> HIDE DEF slashes
  <2> QED
    BY <1>1, <1>2, MaxIs
<1>4. UpToLastSlash(path) = SubSeq(path, 1, k)
  BY DEF UpToLastSlash
<1> HIDE DEF k
<1>5. LastSlash(path, k)
  BY <1>1, <1>3, <1>4 DEF LastSlash
<1> QED
  BY <1>5

LEMMA DefaultFileHasNoPath ==
    /\ UpToLastSlash(DefaultLogFile) = <<>>
    /\ ExtractPathFromFilename(DefaultLogFile) = DefaultLogFile
    /\ DefaultLogFile # <<>> /\ Len(DefaultLogFile) = 1
<1>0. \A name : <<name>> \in Seq({name}) /\ Len(<<name>>) = 1 /\ <<name>>[1] = name
  OBVIOUS
<1>1. /\ DefaultLogFile \in Seq({"myeasylog.log"})
      /\ Len(DefaultLogFile) = 1 /\ DefaultLogFile[1] = "myeasylog.log"
  BY <1>0, Zenon DEF DefaultLogFile
<1>2. PICK k : LastSlash(DefaultLogFile, k)
  BY <1>1, LastSlashIs
<1>3. k = 0
  BY <1>1, <1>2 DEF LastSlash
<1>4. UpToLastSlash(DefaultLogFile) = <<>>
  BY <1>1, <1>2, <1>3, SubSeqEmpty DEF LastSlash
<1> QED
  BY <1>1, <1>4 DEF ExtractPathFromFilename

\* The log's path is the directory it is in, or its name if it has none.
PathOfLog(p) ==
    \/ /\ UpToLastSlash(LogFile) = <<>> /\ p = LogFile
    \/ /\ UpToLastSlash(LogFile) = p /\ p \in Seq(STRING) /\ p # <<>> /\ Len(p) < Len(LogFile)
       /\ p[Len(p)] = "/" /\ p \notin Files

LEMMA PathOfLogIs == PathOfLog(ExtractPathFromFilename(LogFile))
<1> DEFINE n == Len(LogFile)
<1>1. /\ LogFile \in Seq(STRING) /\ LogFile # <<>> /\ Last(LogFile) # "/" /\ n \in Nat /\ n # 0
      /\ LogFile[n] # "/"
  BY LoggingAssumption, LenProperties, EmptySeq DEF Last
<1>2. PICK k : LastSlash(LogFile, k)
  BY <1>1, LastSlashIs
<1> DEFINE p == SubSeq(LogFile, 1, k)
<1>3. k \in 0..n /\ k # n
  BY <1>1, <1>2 DEF LastSlash
<1>4. p \in Seq(STRING) /\ Len(p) = k /\ \A i \in 1..k : p[i] = LogFile[i]
  BY <1>1, <1>3, SubSeqProperties
<1>5. UpToLastSlash(LogFile) = p
  BY <1>2 DEF LastSlash
<1> HIDE DEF p
<1>6. CASE k = 0
  BY <1>4, <1>5, <1>6, EmptySeq DEF PathOfLog, ExtractPathFromFilename
<1>7. CASE k # 0
  <2>1. p # <<>> /\ p[k] = "/" /\ Len(p) < n
    BY <1>2, <1>3, <1>4, <1>7, EmptySeq DEF LastSlash
  <2>2. p # LogFile
    BY <1>1, <2>1
  <2>3. p # DefaultLogFile
    <3>1. DefaultLogFile[1] = "myeasylog.log"
      BY DEF DefaultLogFile
    <3>2. Len(p) = 1 => p[1] = "/"
      BY <1>4, <2>1
    <3> QED
      BY <3>1, <3>2, DefaultFileHasNoPath
  <2> QED
    BY <1>4, <1>5, <2>1, <2>2, <2>3 DEF PathOfLog, ExtractPathFromFilename, Files
<1> QED
  BY <1>6, <1>7

\* The directories there are when one after the other of a path has been tried.
NextDirs(d, i, refused, path) ==
    IF /\ path[i] = "/" /\ SubSeq(path, 1, i) \notin refused
       /\ UpToLastSlash(Front(SubSeq(path, 1, i))) \in d
    THEN d \cup {SubSeq(path, 1, i)} ELSE d

DirsMade(d, there, refused, path) ==
    /\ d[1] = there
    /\ \A i \in 2..Len(path) : d[i] = NextDirs(d[i - 1], i, refused, path)

LEMMA DirectoriesMade ==
    ASSUME NEW path, Len(path) \in Nat, path # <<>>, Len(path) > 0, NEW e, NEW there, NEW refused, NEW now,
           NEW host, host = [env |-> e, dirs |-> there, refused |-> refused, now |-> now],
           path \notin there
    PROVE  \E d : DirsMade(d, there, refused, path) /\ CreatePath(host, path).dirs = d[Len(path)]
<1> DEFINE n == Len(path)
           U == there \cup {SubSeq(path, 1, i) : i \in 1..n}
           V == SUBSET U
           step == [i \in 1..(n - 1) |-> [x \in V |-> NextDirs(x, i + 1, refused, path)]]
<1>1. n \in Nat /\ n - 1 \in Nat /\ there \in V
  OBVIOUS
<1>2. step \in [1..(n - 1) -> [V -> V]]
  <2>1. ASSUME NEW i \in 1..(n - 1), NEW x \in V PROVE NextDirs(x, i + 1, refused, path) \in V
    <3>1. i + 1 \in 1..n
      BY <1>1
    <3>2. SubSeq(path, 1, i + 1) \in U
      BY <3>1
    <3> QED
      BY <3>2 DEF NextDirs
  <2> HIDE DEF V
  <2> QED
    BY <2>1
<1>3. PICK g : IsChain(g, n - 1, V, there, step)
  <2> HIDE DEF V, step, n
  <2> QED
    BY <1>1, <1>2, ChainExists
<1>4. g[0] = there /\ \A i \in 1..(n - 1) : g[i] = NextDirs(g[i - 1], i + 1, refused, path)
  <2>1. g \in [0..(n - 1) -> V] /\ g[0] = there /\ \A i \in 1..(n - 1) : g[i] = step[i][g[i - 1]]
    BY <1>3 DEF IsChain
  <2>2. \A i \in 1..(n - 1) : i - 1 \in 0..(n - 1)
    BY <1>1
  <2>3. \A i \in 1..(n - 1) : g[i - 1] \in V
    <3> HIDE DEF V, step
    <3> QED
      BY <2>1, <2>2
  <2>4. \A i \in 1..(n - 1) : \A x \in V : step[i][x] = NextDirs(x, i + 1, refused, path)
    <3> HIDE DEF V
    <3> QED
      OBVIOUS
  <2> HIDE DEF V, step
  <2> QED
    BY <2>1, <2>3, <2>4
<1> HIDE DEF V, step, U
<1> DEFINE H(x) == [env |-> e, dirs |-> x, refused |-> refused, now |-> now]
           Step(m, i) ==
               CASE i = 1                  -> host
                 [] i > 1 /\ path[i] = "/" -> MakeDirectory(m[i - 1], SubSeq(path, 1, i))
                 [] OTHER                  -> m[i - 1]
           made == CHOOSE m : m = [i \in 1..n |-> Step(m, i)]
           m0 == [i \in 1..n |-> H(g[i - 1])]
<1>5. \A m, x, i : i # 1 /\ i \in 1..n /\ m[i - 1] = H(x) => Step(m, i) = H(NextDirs(x, i, refused, path))
  <2> SUFFICES ASSUME NEW m, NEW x, NEW i \in 1..n, i # 1, m[i - 1] = H(x)
               PROVE  Step(m, i) = H(NextDirs(x, i, refused, path))
    OBVIOUS
  <2> DEFINE s == SubSeq(path, 1, i)
             up == UpToLastSlash(Front(s))
  <2>1. i > 1
    OBVIOUS
  <2>2. MakeDirectory(H(x), s) = IF up \in x /\ s \notin refused THEN H(x \cup {s}) ELSE H(x)
    <3>1. MakeDirectory(H(x), s) = IF up \in H(x).dirs /\ s \notin H(x).refused
                                   THEN [H(x) EXCEPT !.dirs = H(x).dirs \cup {s}] ELSE H(x)
      BY DEF MakeDirectory, PathExists
    <3>2. H(x).dirs = x /\ H(x).refused = refused
      OBVIOUS
    <3>3. [H(x) EXCEPT !.dirs = H(x).dirs \cup {s}] = H(x \cup {s})
      <4> DEFINE y == x \cup {s}
      <4>1. [H(x) EXCEPT !.dirs = y] = H(y)
        <5> HIDE DEF y
        <5> QED
          OBVIOUS
      <4> HIDE DEF H, s
      <4> QED
        BY <3>2, <4>1
    <3> HIDE DEF H, up, s
    <3> QED
      BY <3>1, <3>2, <3>3
  <2>3. NextDirs(x, i, refused, path) = IF path[i] = "/" /\ s \notin refused /\ up \in x THEN x \cup {s} ELSE x
    BY DEF NextDirs
  <2>4. CASE path[i] = "/"
    <3>1. Step(m, i) = MakeDirectory(m[i - 1], s)
      BY <2>1, <2>4
    <3> HIDE DEF H, Step, s, up
    <3> QED
      BY <2>2, <2>3, <2>4, <3>1
  <2>5. CASE path[i] # "/"
    <3>1. Step(m, i) = m[i - 1]
      BY <2>1, <2>5
    <3> HIDE DEF H, Step, s, up
    <3> QED
      BY <2>3, <2>5, <3>1
  <2> QED
    BY <2>4, <2>5
<1>6. host = H(there) /\ \A m : Step(m, 1) = host
  OBVIOUS
<1>7. \A x : H(x).dirs = x
  OBVIOUS
<1>8. CreatePath(host, path) = made[n]
  <2>1. path # <<>> /\ ~PathExists(host, path)
    BY DEF PathExists
  <2>2. CreatePath(host, path) = IF path = <<>> \/ PathExists(host, path) THEN host ELSE made[n]
    BY Zenon DEF CreatePath
  <2> HIDE DEF made
  <2> QED
    BY <2>1, <2>2
<1> HIDE DEF H, Step
<1>9. m0 = [i \in 1..n |-> Step(m0, i)]
  <2>1. ASSUME NEW i \in 1..n PROVE m0[i] = Step(m0, i)
    <3>1. CASE i = 1
      <4>1. m0[1] = H(g[0])
        BY <3>1
      <4> HIDE DEF m0
      <4> QED
        BY <1>4, <1>6, <3>1, <4>1
    <3>2. CASE i # 1
      <4>1. m0[i] = H(g[i - 1]) /\ m0[i - 1] = H(g[(i - 1) - 1]) /\ i - 1 \in 1..(n - 1) /\ (i - 1) + 1 = i
        BY <1>1, <3>2
      <4> HIDE DEF m0
      <4>2. g[i - 1] = NextDirs(g[(i - 1) - 1], i, refused, path)
        BY <1>4, <4>1
      <4> QED
        BY <1>5, <3>2, <4>1, <4>2
    <3> QED
      BY <3>1, <3>2
  <2>2. m0 = [i \in 1..n |-> m0[i]]
    OBVIOUS
  <2> HIDE DEF m0
  <2> QED
    BY <2>1, <2>2
<1> HIDE DEF m0
<1>10. made = [i \in 1..n |-> Step(made, i)]
  BY <1>9
<1> HIDE DEF made
<1>11. \A i \in 1..n : made[i] = Step(made, i)
  BY <1>10
<1> DEFINE d == [i \in 1..n |-> made[i].dirs]
           bad == {i \in 1..n : made[i] # H(d[i])}
<1>12. made[1] = H(there) /\ d[1] = there
  <2>1. 1 \in 1..n
    BY <1>1
  <2> QED
    BY <1>6, <1>7, <1>11, <2>1
<1>13. ASSUME NEW i \in 1..n, i # 1, made[i - 1] = H(d[i - 1])
       PROVE  made[i] = H(d[i]) /\ d[i] = NextDirs(d[i - 1], i, refused, path)
  <2>1. made[i] = H(NextDirs(d[i - 1], i, refused, path))
    <3> HIDE DEF d
    <3> QED
      BY <1>5, <1>11, <1>13
  <2>2. d[i] = made[i].dirs
    OBVIOUS
  <2> HIDE DEF d
  <2> QED
    BY <1>7, <2>1, <2>2
<1> HIDE DEF d
<1>14. bad = {}
  <2> SUFFICES ASSUME bad # {} PROVE FALSE
    OBVIOUS
  <2>1. PICK i \in bad : \A k \in bad : i =< k
    <3>1. bad \subseteq Nat
      OBVIOUS
    <3> HIDE DEF bad
    <3> QED
      BY <3>1, FirstIs
  <2>2. i \in 1..n /\ made[i] # H(d[i])
    OBVIOUS
  <2>3. i # 1
    BY <1>12, <2>2
  <2>4. i - 1 \in 1..n /\ ~(i =< i - 1)
    BY <2>2, <2>3
  <2>5. made[i - 1] = H(d[i - 1])
    BY <2>1, <2>4
  <2> QED
    BY <1>13, <2>2, <2>3, <2>5
<1>15. \A i \in 2..n : d[i] = NextDirs(d[i - 1], i, refused, path)
  <2> TAKE i \in 2..n
  <2>1. i \in 1..n /\ i # 1 /\ i - 1 \in 1..n
    BY <1>1
  <2>2. made[i - 1] = H(d[i - 1])
    BY <1>14, <2>1
  <2> QED
    BY <1>13, <2>1, <2>2
<1>16. made[n].dirs = d[n]
  BY <1>1 DEF d
<1>17. DirsMade(d, there, refused, path)
  BY <1>12, <1>15 DEF DirsMade
<1> QED
  BY <1>8, <1>16, <1>17

\* A directory is made, with those it is in, unless it is refused; and none that was there
\* goes away.
LEMMA DirectoryIsMade ==
    ASSUME NEW path \in Seq(STRING), path # <<>>, path[Len(path)] = "/",
           NEW there, <<>> \in there, <<"/">> \in there, NEW refused,
           \A i \in 1..(Len(path) - 1) : SubSeq(path, 1, i) \notin refused,
           NEW d, DirsMade(d, there, refused, path)
    PROVE  /\ there \subseteq d[Len(path)]
           /\ path \notin refused => path \in d[Len(path)]
           /\ path \in refused /\ path \notin there => path \notin d[Len(path)]
<1> DEFINE n == Len(path)
           to(i) == SubSeq(path, 1, i)
<1>1. n \in Nat /\ n > 0 /\ n \in 1..n /\ 1 \in 1..n
  BY LenProperties, EmptySeq
<1>2. d[1] = there /\ \A i \in 2..n : d[i] = NextDirs(d[i - 1], i, refused, path)
  BY DEF DirsMade
<1>3. \A i \in 0..n : to(i) \in Seq(STRING) /\ Len(to(i)) = i /\ \A j \in 1..i : to(i)[j] = path[j]
  BY <1>1, SubSeqProperties
<1>4. to(n) = path
  BY SubSeqFull
<1>5. \A i \in 2..n : d[i - 1] \subseteq d[i]
  BY <1>2 DEF NextDirs
<1>6. \A i \in 1..n, j \in 1..n : i =< j => d[i] \subseteq d[j]
  <2> SUFFICES ASSUME NEW i \in 1..n PROVE \A j \in 1..n : i =< j => d[i] \subseteq d[j]
    OBVIOUS
  <2> DEFINE bad == {j \in 1..n : i =< j /\ ~(d[i] \subseteq d[j])}
  <2>1. bad = {}
    <3> SUFFICES ASSUME bad # {} PROVE FALSE
      OBVIOUS
    <3>1. PICK j \in bad : \A k \in bad : j =< k
      <4>1. bad \subseteq Nat
        OBVIOUS
      <4> HIDE DEF bad
      <4> QED
        BY <4>1, FirstIs
    <3>2. j \in 1..n /\ i =< j /\ ~(d[i] \subseteq d[j])
      OBVIOUS
    <3>3. i # j
      BY <3>2
    <3>4. j - 1 \in 1..n /\ i =< j - 1 /\ ~(j =< j - 1) /\ j \in 2..n
      BY <3>2, <3>3
    <3>5. d[i] \subseteq d[j - 1]
      BY <3>1, <3>4
    <3>6. d[j - 1] \subseteq d[j]
      BY <1>5, <3>4
    <3> QED
      BY <3>2, <3>5, <3>6
  <2> QED
    BY <2>1
<1>7. there \subseteq d[n]
  <2>1. d[1] \subseteq d[n]
    BY <1>1, <1>6
  <2> QED
    BY <1>2, <2>1
<1>8. ASSUME path \notin refused PROVE path \in d[n]
  <2>1. \A i \in 1..n : to(i) \notin refused
    <3> SUFFICES ASSUME NEW i \in 1..n PROVE to(i) \notin refused
      OBVIOUS
    <3>1. i = n \/ i \in 1..(n - 1)
      BY <1>1
    <3> QED
      BY <1>4, <1>8, <3>1
  <2> DEFINE bad == {i \in 1..n : path[i] = "/" /\ to(i) \notin d[i]}
  <2>2. bad = {}
    <3> SUFFICES ASSUME bad # {} PROVE FALSE
      OBVIOUS
    <3>1. PICK i \in bad : \A k \in bad : i =< k
      <4>1. bad \subseteq Nat
        OBVIOUS
      <4> HIDE DEF bad
      <4> QED
        BY <4>1, FirstIs
    <3>2. i \in 1..n /\ path[i] = "/" /\ to(i) \notin d[i]
      OBVIOUS
    <3>3. i # 1
      <4> SUFFICES ASSUME i = 1 PROVE FALSE
        OBVIOUS
      <4>1. SubSeq(path, 1, 1) = <<path[1]>>
        BY <1>1, OneOf
      <4> QED
        BY <1>2, <3>2, <4>1
    <3>4. i \in 2..n /\ i - 1 \in 1..n /\ i - 1 \in 0..n
      BY <3>2, <3>3
    <3>5. Front(to(i)) = to(i - 1)
      <4>1. Len(to(i)) = i /\ to(i) \in Seq(STRING) /\ to(i - 1) \in Seq(STRING) /\ i \in 0..n
        BY <1>3, <3>4
      <4>2. SubSeq(to(i), 1, i - 1) \in Seq(STRING) /\ Len(SubSeq(to(i), 1, i - 1)) = i - 1
            /\ \A j \in 1..(i - 1) : SubSeq(to(i), 1, i - 1)[j] = to(i)[j]
        <5> HIDE DEF to
        <5>1. \A j \in 1..(i - 1) : to(i)[j] \in STRING
          BY <3>4, <4>1, ElementOfSeq
        <5> QED
          BY <3>4, <5>1, SubSeqProperties
      <4>3. Len(to(i - 1)) = i - 1 /\ \A j \in 1..(i - 1) : to(i - 1)[j] = path[j] /\ to(i)[j] = path[j]
        BY <1>3, <3>4
      <4> HIDE DEF to
      <4>4. SubSeq(to(i), 1, i - 1) = to(i - 1)
        BY <4>1, <4>2, <4>3, SeqEqual
      <4> QED
        BY <4>1, <4>4 DEF Front
    <3>6. d[i] = NextDirs(d[i - 1], i, refused, path)
      BY <1>2, <3>4
    <3>7. UpToLastSlash(to(i - 1)) \notin d[i - 1]
      <4>1. to(i) \notin refused
        BY <2>1, <3>2
      <4> QED
        BY <3>2, <3>5, <3>6, <4>1 DEF NextDirs
    <3>8. to(i - 1) \in Seq(STRING) /\ Len(to(i - 1)) = i - 1 /\ \A j \in 1..(i - 1) : to(i - 1)[j] = path[j]
      BY <1>3, <3>4
    <3>9. PICK k : LastSlash(to(i - 1), k)
      <4> HIDE DEF to
      <4> QED
        BY <3>8, LastSlashIs
    <3>10. k \in 0..(i - 1) /\ UpToLastSlash(to(i - 1)) = SubSeq(to(i - 1), 1, k) /\ (k # 0 => path[k] = "/")
      <4> HIDE DEF to
      <4>1. k \in 0..(i - 1) /\ UpToLastSlash(to(i - 1)) = SubSeq(to(i - 1), 1, k) /\ (k # 0 => to(i - 1)[k] = "/")
        BY <3>8, <3>9 DEF LastSlash
      <4> QED
        BY <3>8, <4>1
    <3>11. SubSeq(to(i - 1), 1, k) = to(k)
      <4>1. k \in 0..n /\ to(k) \in Seq(STRING) /\ Len(to(k)) = k /\ \A j \in 1..k : to(k)[j] = path[j]
        BY <1>3, <3>4, <3>10
      <4> DEFINE s == SubSeq(to(i - 1), 1, k)
      <4>2. s \in Seq(STRING) /\ Len(s) = k /\ \A j \in 1..k : s[j] = to(i - 1)[j]
        <5> HIDE DEF to
        <5>1. \A j \in 1..k : to(i - 1)[j] \in STRING
          BY <3>4, <3>8, <3>10, ElementOfSeq
        <5> QED
          BY <3>4, <3>10, <5>1, SubSeqProperties
      <4>3. \A j \in 1..k : s[j] = path[j]
        BY <3>4, <3>8, <3>10, <4>2
      <4> HIDE DEF to, s
      <4>4. s = to(k)
        BY <4>1, <4>2, <4>3, SeqEqual
      <4> QED
        BY <4>4 DEF s
    <3> HIDE DEF to
    <3>12. CASE k = 0
      <4>1. to(k) = <<>>
        BY <3>12, SubSeqEmpty DEF to
      <4>2. there \subseteq d[i - 1]
        BY <1>1, <1>2, <1>6, <3>4
      <4> QED
        BY <3>7, <3>10, <3>11, <4>1, <4>2
    <3>13. CASE k # 0
      <4>1. k \in 1..n /\ k =< i - 1 /\ ~(i =< k)
        BY <3>4, <3>10, <3>13
      <4>2. to(k) \in d[k]
        BY <3>1, <3>10, <3>13, <4>1
      <4>3. d[k] \subseteq d[i - 1]
        BY <1>6, <3>4, <4>1
      <4> QED
        BY <3>7, <3>10, <3>11, <4>2, <4>3
    <3> QED
      BY <3>12, <3>13
  <2> QED
    BY <1>1, <1>4, <2>2
<1>9. ASSUME path \in refused, path \notin there PROVE path \notin d[n]
  <2> DEFINE bad == {i \in 1..n : path \in d[i]}
  <2>1. bad = {}
    <3> SUFFICES ASSUME bad # {} PROVE FALSE
      OBVIOUS
    <3>1. PICK i \in bad : \A k \in bad : i =< k
      <4>1. bad \subseteq Nat
        OBVIOUS
      <4> HIDE DEF bad
      <4> QED
        BY <4>1, FirstIs
    <3>2. i \in 1..n /\ path \in d[i]
      OBVIOUS
    <3>3. i # 1
      BY <1>2, <1>9, <3>2
    <3>4. i \in 2..n /\ i - 1 \in 1..n /\ ~(i =< i - 1)
      BY <3>2, <3>3
    <3>5. path \notin d[i - 1]
      BY <3>1, <3>4
    <3>6. d[i] = NextDirs(d[i - 1], i, refused, path)
      BY <1>2, <3>4
    <3>7. d[i] = d[i - 1] \/ (to(i) \notin refused /\ d[i] = d[i - 1] \cup {to(i)})
      BY <3>6 DEF NextDirs
    <3>8. to(i) \notin refused => path # to(i)
      BY <1>9
    <3> HIDE DEF to
    <3> QED
      BY <3>2, <3>5, <3>7, <3>8
  <2> QED
    BY <1>1, <2>1
<1> QED
  BY <1>7, <1>8, <1>9

\* With the directories of the files, a host has those and what it had.
LEMMA PathsOf ==
    ASSUME NEW e, NEW there, NEW refused, NEW now, NEW names,
           NEW host, host = [env |-> e, dirs |-> there, refused |-> refused, now |-> now]
    PROVE  /\ WithPaths(host, names).refused = refused
           /\ WithPaths(host, names).dirs = there \cup
                 UNION {CreatePath(host, ExtractPathFromFilename(name)).dirs :
                           name \in {n \in names : Len(ExtractPathFromFilename(n)) < Len(n)}}
<1> DEFINE more == UNION {CreatePath(host, ExtractPathFromFilename(name)).dirs :
                             name \in {n \in names : Len(ExtractPathFromFilename(n)) < Len(n)}}
<1>1. WithPaths(host, names) = [host EXCEPT !.dirs = host.dirs \cup more]
  BY DEF WithPaths
<1>2. host.dirs = there /\ host.refused = refused
  OBVIOUS
<1> HIDE DEF more
<1>3. \A y : [host EXCEPT !.dirs = y].dirs = y /\ [host EXCEPT !.dirs = y].refused = refused
  OBVIOUS
<1> QED
  BY <1>1, <1>2, <1>3 DEF more

DefaultOpened(host, there, refused) ==
    /\ WithPaths(host, {DefaultLogFile}).dirs = there
    /\ NewFileStream(WithPaths(host, {DefaultLogFile}), DefaultLogFile)
          = IF DefaultLogFile \in refused THEN "null" ELSE "good"

LEMMA DefaultStream ==
    ASSUME NEW e, NEW there, NEW refused, NEW now, <<>> \in there,
           NEW host, host = [env |-> e, dirs |-> there, refused |-> refused, now |-> now]
    PROVE  DefaultOpened(host, there, refused)
<1> DEFINE h == WithPaths(host, {DefaultLogFile})
           deep == {n \in {DefaultLogFile} : Len(ExtractPathFromFilename(n)) < Len(n)}
           more == UNION {CreatePath(host, ExtractPathFromFilename(name)).dirs : name \in deep}
<1>1. h.refused = refused /\ h.dirs = there \cup more
  BY PathsOf
<1>2. deep = {}
  BY DefaultFileHasNoPath
<1> HIDE DEF deep
<1>3. more = {}
  BY <1>2
<1> HIDE DEF more, h
<1>4. h.dirs = there
  BY <1>1, <1>3
<1>5. NewFileStream(h, DefaultLogFile) = IF DefaultLogFile \in refused THEN "null" ELSE "good"
  BY <1>1, <1>4, DefaultFileHasNoPath DEF NewFileStream, PathExists
<1> QED
  BY <1>4, <1>5 DEF h, DefaultOpened

\* The log is opened unless it or its directory is refused.
LEMMA LogStream ==
    ASSUME NEW e, NEW there, NEW refused, NEW now, <<>> \in there, <<"/">> \in there,
           refused \subseteq {LogFile} \cup ({ExtractPathFromFilename(LogFile)} \ (there \cup Files)),
           NEW host, host = [env |-> e, dirs |-> there, refused |-> refused, now |-> now]
    PROVE  /\ there \subseteq WithPaths(host, Files).dirs
           /\ NewFileStream(WithPaths(host, Files), LogFile) = IF refused = {} THEN "good" ELSE "null"
<1> DEFINE h == WithPaths(host, Files)
           p == ExtractPathFromFilename(LogFile)
           deep == {n \in Files : Len(ExtractPathFromFilename(n)) < Len(n)}
           more == UNION {CreatePath(host, ExtractPathFromFilename(name)).dirs : name \in deep}
<1>1. h.refused = refused /\ h.dirs = there \cup more
  BY PathsOf
<1>2. PathOfLog(p)
  BY PathOfLogIs
<1>3. Len(LogFile) \in Nat /\ LogFile \in Files
  BY LoggingAssumption, LenProperties DEF Files
<1>4. ASSUME UpToLastSlash(LogFile) = <<>>, p = LogFile
      PROVE  h.dirs = there /\ NewFileStream(h, LogFile) = IF refused = {} THEN "good" ELSE "null"
  <2>1. deep = {}
    <3>1. ~(Len(p) < Len(LogFile))
      BY <1>3, <1>4
    <3>2. \A n \in Files : n = LogFile \/ n = DefaultLogFile
      BY DEF Files
    <3> QED
      BY <3>1, <3>2, DefaultFileHasNoPath
  <2> HIDE DEF deep
  <2>2. more = {}
    BY <2>1
  <2> HIDE DEF more, h
  <2>3. h.dirs = there
    BY <1>1, <2>2
  <2>4. refused = {} <=> LogFile \notin refused
    BY <1>3, <1>4
  <2> QED
    BY <1>1, <1>4, <2>3, <2>4 DEF NewFileStream, PathExists
<1>5. ASSUME UpToLastSlash(LogFile) = p, p \in Seq(STRING), p # <<>>, Len(p) < Len(LogFile),
             p[Len(p)] = "/", p \notin Files
      PROVE  there \subseteq h.dirs /\ NewFileStream(h, LogFile) = IF refused = {} THEN "good" ELSE "null"
  <2> DEFINE made == CreatePath(host, p).dirs
  <2>1. deep = {LogFile}
    BY <1>5, DefaultFileHasNoPath DEF Files
  <2> HIDE DEF deep, p
  <2>2. more = made
    BY <2>1 DEF p
  <2> HIDE DEF more, h, made
  <2>3. h.dirs = there \cup made
    BY <1>1, <2>2
  <2>4. refused = {} <=> (LogFile \notin refused /\ p \notin refused)
    BY DEF p
  <2>5. p \in there \cup made <=> p \notin refused
    <3>1. CASE p \in there
      <4>1. refused \subseteq {LogFile} \cup ({p} \ (there \cup Files))
        BY DEF p
      <4>2. p # LogFile
        BY <1>3, <1>5
      <4> QED
        BY <3>1, <4>1, <4>2
    <3>2. CASE p \notin there
      <4>1. Len(p) \in Nat /\ Len(p) > 0
        BY <1>5, LenProperties, EmptySeq
      <4>2. PICK d : DirsMade(d, there, refused, p) /\ made = d[Len(p)]
        BY <1>5, <3>2, <4>1, DirectoriesMade DEF made
      <4>3. \A i \in 1..(Len(p) - 1) : SubSeq(p, 1, i) \notin refused
        <5> SUFFICES ASSUME NEW i \in 1..(Len(p) - 1) PROVE SubSeq(p, 1, i) \notin refused
          OBVIOUS
        <5>1. Len(SubSeq(p, 1, i)) = i
          <6>1. \A j \in 1..i : p[j] \in STRING
            BY <1>5, <4>1, ElementOfSeq
          <6> QED
            BY <4>1, <6>1, SubSeqProperties
        <5>2. i # Len(p) /\ i # Len(LogFile)
          BY <1>3, <1>5, <4>1
        <5>3. SubSeq(p, 1, i) # p /\ SubSeq(p, 1, i) # LogFile
          BY <5>1, <5>2
        <5> QED
          BY <5>3 DEF p
      <4>4. /\ p \notin refused => p \in d[Len(p)]
            /\ p \in refused /\ p \notin there => p \notin d[Len(p)]
        BY <1>5, <4>2, <4>3, DirectoryIsMade
      <4> QED
        BY <3>2, <4>2, <4>4
    <3> QED
      BY <3>1, <3>2
  <2>6. NewFileStream(h, LogFile) = IF p \in h.dirs /\ LogFile \notin refused THEN "good" ELSE "null"
    BY <1>1, <1>5 DEF NewFileStream, PathExists
  <2> QED
    BY <2>3, <2>4, <2>5, <2>6
<1> HIDE DEF h, p
<1>6. there \subseteq h.dirs /\ NewFileStream(h, LogFile) = IF refused = {} THEN "good" ELSE "null"
  BY <1>2, <1>4, <1>5 DEF PathOfLog
<1> QED
  BY <1>6 DEF h

-----------------------------------------------------------------------------
(* The whole lines of a file *)

\* Those of the first lines, of the first two, and so on.
WholeUpTo(g, s) ==
    /\ g[0] = <<>>
    /\ \A i \in 1..Len(s) : g[i] = IF s[i].torn THEN g[i - 1] ELSE Append(g[i - 1], s[i].text)

LEMMA WholeLinesIs ==
    ASSUME NEW T, NEW s \in Seq([text : T, torn : BOOLEAN])
    PROVE  \E g \in [0..Len(s) -> Seq(T)] : WholeUpTo(g, s) /\ WholeLines(s) = g[Len(s)]
<1> DEFINE n == Len(s)
           V == Seq(T)
           step == [i \in 1..n |-> [x \in V |-> IF s[i].torn THEN x ELSE Append(x, s[i].text)]]
           W(g, i) ==
               CASE i = 0                -> <<>>
                 [] i > 0 /\ ~s[i].torn -> Append(g[i - 1], s[i].text)
                 [] OTHER                -> g[i - 1]
           whole == CHOOSE g : g = [i \in 0..n |-> W(g, i)]
<1>1. n \in Nat /\ <<>> \in V
  BY LenProperties, EmptySeq
<1>2. \A i \in 1..n : s[i].text \in T /\ s[i].torn \in BOOLEAN
  <2>1. \A i \in 1..n : s[i] \in [text : T, torn : BOOLEAN]
    BY ElementOfSeq
  <2> QED
    BY <2>1
<1>3. step \in [1..n -> [V -> V]]
  <2>1. ASSUME NEW i \in 1..n, NEW x \in V PROVE (IF s[i].torn THEN x ELSE Append(x, s[i].text)) \in V
    BY <1>2, AppendProperties
  <2> HIDE DEF V, n
  <2> QED
    BY <2>1
<1>4. PICK g : IsChain(g, n, V, <<>>, step)
  <2> HIDE DEF V, n, step
  <2> QED
    BY <1>1, <1>3, ChainExists
<1>5. g \in [0..n -> V] /\ g[0] = <<>>
      /\ \A i \in 1..n : g[i] = IF s[i].torn THEN g[i - 1] ELSE Append(g[i - 1], s[i].text)
  <2>1. g \in [0..n -> V] /\ g[0] = <<>> /\ \A i \in 1..n : g[i] = step[i][g[i - 1]]
    BY <1>4 DEF IsChain
  <2>2. \A i \in 1..n : i - 1 \in 0..n
    BY <1>1
  <2>3. \A i \in 1..n : g[i - 1] \in V
    <3> HIDE DEF V, step, n
    <3> QED
      BY <2>1, <2>2
  <2>4. \A i \in 1..n : \A x \in V : step[i][x] = IF s[i].torn THEN x ELSE Append(x, s[i].text)
    <3> HIDE DEF V
    <3> QED
      OBVIOUS
  <2> HIDE DEF V, step, n
  <2> QED
    BY <2>1, <2>3, <2>4
<1> HIDE DEF V, step
<1>6. \A h : W(h, 0) = <<>>
  OBVIOUS
<1>7. \A h : \A i \in 1..n : W(h, i) = IF s[i].torn THEN h[i - 1] ELSE Append(h[i - 1], s[i].text)
  <2> TAKE h
  <2> TAKE i \in 1..n
  <2>1. i # 0 /\ i > 0
    OBVIOUS
  <2>2. CASE s[i].torn
    BY <2>1, <2>2
  <2>3. CASE ~s[i].torn
    BY <2>1, <2>3
  <2> QED
    BY <2>2, <2>3
<1>8. WholeLines(s) = whole[n]
  BY Zenon DEF WholeLines
<1> HIDE DEF W
<1>9. \A i \in 0..n : i = 0 \/ i \in 1..n
  BY <1>1
<1>10. g = [i \in 0..n |-> W(g, i)]
  <2>1. \A i \in 0..n : g[i] = W(g, i)
    BY <1>5, <1>6, <1>7, <1>9
  <2>2. g = [i \in 0..n |-> g[i]]
    BY <1>5
  <2> HIDE DEF n
  <2> QED
    BY <2>1, <2>2
<1>11. whole = [i \in 0..n |-> W(whole, i)]
  BY <1>10
<1> HIDE DEF whole
<1>12. \A i \in 0..n : whole[i] = W(whole, i)
  BY <1>11
<1> DEFINE differ == {i \in 0..n : whole[i] # g[i]}
<1>13. differ = {}
  <2> SUFFICES ASSUME differ # {} PROVE FALSE
    OBVIOUS
  <2>1. PICK i \in differ : \A k \in differ : i =< k
    <3>1. differ \subseteq Nat
      OBVIOUS
    <3> HIDE DEF differ
    <3> QED
      BY <3>1, FirstIs
  <2>2. i \in 0..n /\ whole[i] # g[i]
    OBVIOUS
  <2>3. i # 0
    BY <1>5, <1>6, <1>12, <2>2
  <2>4. i \in 1..n /\ i - 1 \in 0..n /\ ~(i =< i - 1)
    BY <2>2, <2>3
  <2>5. whole[i - 1] = g[i - 1]
    BY <2>1, <2>4
  <2> QED
    BY <1>5, <1>7, <1>12, <2>2, <2>4, <2>5
<1>14. whole[n] = g[n]
  <2>1. n \in 0..n
    BY <1>1
  <2> QED
    BY <1>13, <2>1
<1> QED
  BY <1>5, <1>8, <1>14 DEF V, WholeUpTo

\* A whole line comes last, and a torn one does not count.
LEMMA WholeLinesOfMore ==
    ASSUME NEW T, NEW s \in Seq([text : T, torn : BOOLEAN]), NEW x \in [text : T, torn : BOOLEAN]
    PROVE  WholeLines(Append(s, x)) = IF x.torn THEN WholeLines(s) ELSE Append(WholeLines(s), x.text)
<1> DEFINE R == [text : T, torn : BOOLEAN]
           t == Append(s, x)
           n == Len(s)
<1> HIDE DEF R
<1>1. s \in Seq(R) /\ x \in R
  BY DEF R
<1>2. t \in Seq(R) /\ Len(t) = n + 1 /\ n \in Nat /\ (\A i \in 1..n : t[i] = s[i]) /\ t[n + 1] = x
  BY <1>1, AppendProperties, LenProperties
<1> HIDE DEF t
<1>3. PICK g \in [0..n -> Seq(T)] : WholeUpTo(g, s) /\ WholeLines(s) = g[n]
  BY WholeLinesIs
<1>4. PICK h \in [0..(n + 1) -> Seq(T)] : WholeUpTo(h, t) /\ WholeLines(t) = h[n + 1]
  BY <1>2, WholeLinesIs DEF R
<1>5. g[0] = <<>> /\ \A i \in 1..n : g[i] = IF s[i].torn THEN g[i - 1] ELSE Append(g[i - 1], s[i].text)
  BY <1>3 DEF WholeUpTo
<1>6. h[0] = <<>> /\ \A i \in 1..(n + 1) : h[i] = IF t[i].torn THEN h[i - 1] ELSE Append(h[i - 1], t[i].text)
  BY <1>2, <1>4 DEF WholeUpTo
<1> DEFINE differ == {i \in 0..n : h[i] # g[i]}
<1>7. differ = {}
  <2> SUFFICES ASSUME differ # {} PROVE FALSE
    OBVIOUS
  <2>1. PICK i \in differ : \A k \in differ : i =< k
    <3>1. differ \subseteq Nat
      OBVIOUS
    <3> HIDE DEF differ
    <3> QED
      BY <3>1, FirstIs
  <2>2. i \in 0..n /\ h[i] # g[i]
    OBVIOUS
  <2>3. i # 0
    BY <1>5, <1>6, <2>2
  <2>4. i \in 1..n /\ i \in 1..(n + 1) /\ i - 1 \in 0..n /\ ~(i =< i - 1)
    BY <1>2, <2>2, <2>3
  <2>5. h[i - 1] = g[i - 1] /\ t[i] = s[i]
    BY <1>2, <2>1, <2>4
  <2>6. h[i] = IF t[i].torn THEN h[i - 1] ELSE Append(h[i - 1], t[i].text)
    BY <1>6, <2>4
  <2>7. g[i] = IF s[i].torn THEN g[i - 1] ELSE Append(g[i - 1], s[i].text)
    BY <1>5, <2>4
  <2> QED
    BY <2>2, <2>5, <2>6, <2>7
<1>8. h[n] = g[n]
  <2>1. n \in 0..n
    BY <1>2
  <2> QED
    BY <1>7, <2>1
<1>9. h[n + 1] = IF t[n + 1].torn THEN h[n] ELSE Append(h[n], t[n + 1].text)
  <2>1. n + 1 \in 1..(n + 1) /\ (n + 1) - 1 = n
    BY <1>2
  <2> QED
    BY <1>6, <2>1
<1> QED
  BY <1>2, <1>3, <1>4, <1>8, <1>9 DEF t

LEMMA NoWholeLines == WholeLines(<<>>) = <<>>
<1> DEFINE T == {<<>>}
           s == <<>>
<1>1. s \in Seq([text : T, torn : BOOLEAN]) /\ Len(s) = 0
  OBVIOUS
<1> HIDE DEF s, T
<1>2. PICK g \in [0..Len(s) -> Seq(T)] : WholeUpTo(g, s) /\ WholeLines(s) = g[Len(s)]
  BY <1>1, WholeLinesIs
<1> QED
  BY <1>1, <1>2 DEF WholeUpTo, s

-----------------------------------------------------------------------------
(* What holds at every step. *)

Given == Messages \cup {Stopped}
Lines == {LineOf(m) : m \in Given}
Pieces == [text : Lines, torn : BOOLEAN]
InLog == life \in {"ready", "stopping"}

LogTypeOK ==
    /\ life \in {"down", "started", "ready", "stopping"}
    /\ full \in BOOLEAN
    /\ stream \in [Files -> {"none", "good", "bad", "null"}]
    /\ buffer \in [Files -> Seq(Lines)]
    /\ file \in [Files -> Seq(Pieces)] /\ before \in [Files -> Seq(Pieces)]
    /\ logged \in Seq(Given)
    /\ line \in {NoLine} \cup [text : Lines, level : AllLevels, to : {LogFile},
                               pc : {"write", "flush", "roll", "print"}]

\* What a life is configured to do, and which streams it has.
ConfigurationOK ==
    /\ <<>> \in dirs /\ <<"/">> \in dirs
    /\ life = "down" => stream = [f \in Files |-> "none"]
    /\ life = "started" =>
          /\ stream[LogFile] = "none"
          /\ stream[DefaultLogFile] = IF refusals = {} THEN "good" ELSE "null"
          /\ flags = {"AllowVerboseIfModuleNotSpecified"}
    /\ InLog =>
          /\ \A level \in AllLevels : ConfiguredLevel(typed, level)
          /\ \A f \in Files : stream[f] # "none" /\ (stream[f] = "null" <=> typed.reference[f] = "null")
          /\ refusals = {} <=> (stream[LogFile] # "null" /\ stream[DefaultLogFile] # "null")
          /\ flags = {"AllowVerboseIfModuleNotSpecified", "ImmediateFlush", "ColoredTerminalOutput"}

\* The line being dispatched is that of the message logged last.
LineOK ==
    /\ ~InLog => line = NoLine /\ buffer = [f \in Files |-> <<>>]
    /\ life = "started" => logged = <<>>
    /\ line # NoLine =>
          /\ logged # <<>> /\ line.text = LineOf(Last(logged)) /\ line.level = Last(logged).level
          /\ line.pc = "write" => stream[LogFile] # "null" /\ stream[DefaultLogFile] # "null"
          /\ line.pc = "flush" => stream[LogFile] = "good"

\* The log has got the lines of the first messages, and its buffer holds at most the next.
FirstLines(messages, n) == [i \in 1..n |-> LineOf(messages[i])]

TellsFirst(content, was, held, messages, n, new) ==
    /\ n \in 0..Len(messages) /\ new \in Seq(Pieces)
    /\ content = was \o new
    /\ WholeLines(new) = FirstLines(messages, n)
    /\ held = <<>> \/ (n < Len(messages) /\ held = <<LineOf(messages[n + 1])>>)

\* No line is missing as long as no write has failed.
NoneMissing(n) ==
    InLog /\ stream[LogFile] = "good" /\ stream[DefaultLogFile] # "null" =>
        /\ n + Len(buffer[LogFile]) = IF line.pc = "write" THEN Len(logged) - 1 ELSE Len(logged)
        /\ buffer[LogFile] # <<>> => line.pc = "flush"

ContentOK ==
    /\ buffer[DefaultLogFile] = <<>> /\ file[DefaultLogFile] = before[DefaultLogFile]
    /\ \E n, new :
          TellsFirst(file[LogFile], before[LogFile], buffer[LogFile], logged, n, new) /\ NoneMissing(n)

\* Standard output has got all lines but the one being dispatched.
ColorOf ==
    [Trace |-> "magenta", Debug |-> "green", Info |-> "cyan", Warning |-> "yellow", Error |-> "red"]
PrintedAs(m, environ) ==
    [color |-> IF TermSupportsColor(environ) THEN ColorOf[m.level] ELSE "plain", text |-> LineOf(m)]
PrintedUpTo(n) == [i \in 1..n |-> PrintedAs(logged[i], env)]

ConsoleOK ==
    /\ life = "started" => console = <<>>
    /\ InLog => console = PrintedUpTo(IF line = NoLine THEN Len(logged) ELSE Len(logged) - 1)

LogInv == LogTypeOK /\ ConfigurationOK /\ LineOK /\ ContentOK /\ ConsoleOK

-----------------------------------------------------------------------------
(* What the log has got *)

LEMMA FilesAre ==
    /\ LogFile \in Files /\ DefaultLogFile \in Files /\ LogFile # DefaultLogFile
    /\ \A f \in Files : f = LogFile \/ f = DefaultLogFile
BY LoggingAssumption DEF Files

LEMMA GivenIs ==
    ASSUME NEW m \in Given
    PROVE  IsLogMessage(m) /\ m.level \in AllLevels /\ m.level # "Fatal" /\ m.level # "Verbose"
           /\ LineOf(m) \in Lines
BY LoggingAssumption DEF Given, IsLogMessage, Lines

LEMMA FirstLinesAre ==
    ASSUME NEW messages \in Seq(Given), NEW n \in 0..Len(messages)
    PROVE  FirstLines(messages, n) \in Seq(Lines) /\ Len(FirstLines(messages, n)) = n
<1>1. Len(messages) \in Nat
  BY LenProperties
<1>2. \A i \in 1..n : LineOf(messages[i]) \in Lines
  <2> TAKE i \in 1..n
  <2>1. i \in 1..Len(messages)
    BY <1>1
  <2>2. messages[i] \in Given
    BY <2>1, ElementOfSeq
  <2> QED
    BY <2>2 DEF Lines
<1> DEFINE F(i) == LineOf(messages[i])
<1> HIDE DEF F
<1>3. \A i \in 1..n : F(i) \in Lines
  BY <1>2 DEF F
<1>4. [i \in 1..n |-> F(i)] \in Seq(Lines) /\ Len([i \in 1..n |-> F(i)]) = n
  BY <1>1, <1>3, IsASeq
<1> QED
  BY <1>4 DEF F, FirstLines

LEMMA NextLine ==
    ASSUME NEW messages \in Seq(Given), NEW n \in 0..Len(messages), n < Len(messages)
    PROVE  FirstLines(messages, n + 1) = Append(FirstLines(messages, n), LineOf(messages[n + 1]))
<1> DEFINE a == FirstLines(messages, n)
           b == FirstLines(messages, n + 1)
           x == LineOf(messages[n + 1])
           c == Append(a, x)
<1>1. Len(messages) \in Nat /\ n + 1 \in 0..Len(messages) /\ n + 1 \in 1..Len(messages)
  BY LenProperties
<1>2. a \in Seq(Lines) /\ Len(a) = n /\ b \in Seq(Lines) /\ Len(b) = n + 1
  BY <1>1, FirstLinesAre
<1>3. x \in Lines
  BY <1>1, ElementOfSeq DEF Lines
<1>4. (\A i \in 1..n : a[i] = LineOf(messages[i])) /\ \A i \in 1..(n + 1) : b[i] = LineOf(messages[i])
  BY DEF FirstLines
<1> HIDE DEF a, b, x
<1>5. c \in Seq(Lines) /\ Len(c) = n + 1 /\ (\A i \in 1..n : c[i] = a[i]) /\ c[n + 1] = x
  BY <1>2, <1>3, AppendProperties
<1> HIDE DEF c
<1>6. \A i \in 1..(n + 1) : c[i] = b[i]
  <2> TAKE i \in 1..(n + 1)
  <2>1. i = n + 1 \/ i \in 1..n
    BY <1>1
  <2> QED
    BY <1>4, <1>5, <2>1 DEF x
<1>7. b = c
  BY <1>2, <1>5, <1>6, SeqEqual
<1> QED
  BY <1>7 DEF a, b, c, x

LEMMA NoLines == \A messages : FirstLines(messages, 0) = <<>>
<1> TAKE messages
<1>1. FirstLines(messages, 0) = [i \in 1..0 |-> LineOf(messages[i])]
  BY DEF FirstLines
<1>2. 1..0 = {}
  OBVIOUS
<1> QED
  BY <1>1, <1>2

\* A line that is written whole is that of the next message.
LEMMA LineAdded ==
    ASSUME NEW messages \in Seq(Given), NEW was \in Seq(Pieces), NEW content, NEW held, NEW n, NEW new,
           TellsFirst(content, was, held, messages, n, new), n < Len(messages),
           NEW text, text = LineOf(messages[n + 1])
    PROVE  TellsFirst(Append(content, Whole(text)), was, <<>>, messages, n + 1, Append(new, Whole(text)))
<1> DEFINE x == Whole(text)
<1>1. /\ n \in 0..Len(messages) /\ new \in Seq(Pieces) /\ content = was \o new
      /\ WholeLines(new) = FirstLines(messages, n)
  BY DEF TellsFirst
<1>2. Len(messages) \in Nat /\ n + 1 \in 1..Len(messages) /\ n + 1 \in 0..Len(messages)
  BY <1>1, LenProperties
<1>3. text \in Lines
  BY <1>2, ElementOfSeq DEF Lines
<1>4. x \in Pieces /\ x.torn = FALSE /\ x.text = text
  BY <1>3 DEF Pieces, Whole
<1> HIDE DEF x
<1>5. Append(new, x) \in Seq(Pieces)
  BY <1>1, <1>4, AppendProperties
<1>6. WholeLines(Append(new, x)) = FirstLines(messages, n + 1)
  <2>1. WholeLines(Append(new, x)) = Append(WholeLines(new), x.text)
    BY <1>1, <1>4, WholeLinesOfMore DEF Pieces
  <2> QED
    BY <1>1, <1>4, <2>1, NextLine
<1>7. Append(content, x) = was \o Append(new, x)
  <2>1. \A s \in Seq(Pieces) : Append(s, x) = s \o <<x>>
    BY <1>4, AppendIsConcat
  <2>2. <<x>> \in Seq(Pieces) /\ was \o new \in Seq(Pieces)
    BY <1>1, <1>4, ConcatProperties
  <2>3. (was \o new) \o <<x>> = was \o (new \o <<x>>)
    BY <1>1, <2>2, ConcatAssociative
  <2> QED
    BY <1>1, <2>1, <2>2, <2>3
<1> QED
  BY <1>2, <1>5, <1>6, <1>7 DEF TellsFirst, x

\* A torn line does not count, and the buffer may be lost with it.
LEMMA TornAdded ==
    ASSUME NEW messages \in Seq(Given), NEW was \in Seq(Pieces), NEW content, NEW held, NEW n, NEW new,
           TellsFirst(content, was, held, messages, n, new), NEW text \in Lines
    PROVE  TellsFirst(Append(content, Torn(text)), was, held, messages, n, Append(new, Torn(text)))
<1> DEFINE x == Torn(text)
<1>1. /\ n \in 0..Len(messages) /\ new \in Seq(Pieces) /\ content = was \o new
      /\ WholeLines(new) = FirstLines(messages, n)
      /\ held = <<>> \/ (n < Len(messages) /\ held = <<LineOf(messages[n + 1])>>)
  BY DEF TellsFirst
<1>4. x \in Pieces /\ x.torn = TRUE
  BY DEF Pieces, Torn
<1> HIDE DEF x
<1>5. Append(new, x) \in Seq(Pieces)
  BY <1>1, <1>4, AppendProperties
<1>6. WholeLines(Append(new, x)) = FirstLines(messages, n)
  BY <1>1, <1>4, WholeLinesOfMore DEF Pieces
<1>7. Append(content, x) = was \o Append(new, x)
  <2>1. \A s \in Seq(Pieces) : Append(s, x) = s \o <<x>>
    BY <1>4, AppendIsConcat
  <2>2. <<x>> \in Seq(Pieces) /\ was \o new \in Seq(Pieces)
    BY <1>1, <1>4, ConcatProperties
  <2>3. (was \o new) \o <<x>> = was \o (new \o <<x>>)
    BY <1>1, <2>2, ConcatAssociative
  <2> QED
    BY <1>1, <2>1, <2>2, <2>3
<1> QED
  BY <1>1, <1>5, <1>6, <1>7 DEF TellsFirst, x

LEMMA BufferLost ==
    ASSUME NEW messages, NEW was, NEW content, NEW held, NEW n, NEW new,
           TellsFirst(content, was, held, messages, n, new)
    PROVE  TellsFirst(content, was, <<>>, messages, n, new)
BY DEF TellsFirst

LEMMA MessageAdded ==
    ASSUME NEW messages \in Seq(Given), NEW m \in Given, NEW was, NEW content, NEW held, NEW n, NEW new,
           TellsFirst(content, was, held, messages, n, new)
    PROVE  TellsFirst(content, was, held, Append(messages, m), n, new)
<1> DEFINE more == Append(messages, m)
           k == Len(messages)
<1>1. more \in Seq(Given) /\ Len(more) = k + 1 /\ k \in Nat /\ \A i \in 1..k : more[i] = messages[i]
  BY AppendProperties, LenProperties
<1> HIDE DEF more
<1>2. /\ n \in 0..k /\ new \in Seq(Pieces) /\ content = was \o new
      /\ WholeLines(new) = FirstLines(messages, n)
      /\ held = <<>> \/ (n < k /\ held = <<LineOf(messages[n + 1])>>)
  BY DEF TellsFirst
<1>3. n \in 0..Len(more)
  BY <1>1, <1>2
<1>4. FirstLines(more, n) = FirstLines(messages, n)
  <2>1. \A i \in 1..n : more[i] = messages[i]
    BY <1>1, <1>2
  <2> QED
    BY <2>1 DEF FirstLines
<1>5. n < k => n < Len(more) /\ more[n + 1] = messages[n + 1]
  <2>1. n < k => n + 1 \in 1..k
    BY <1>1, <1>2
  <2> HIDE DEF k
  <2> QED
    BY <1>1, <1>2, <2>1
<1> QED
  BY <1>2, <1>3, <1>4, <1>5 DEF TellsFirst, more

\* The buffer is written when it is flushed.
LEMMA BufferAdded ==
    ASSUME NEW messages \in Seq(Given), NEW was \in Seq(Pieces), NEW content \in Seq(Pieces), NEW held, NEW n, NEW new,
           TellsFirst(content, was, held, messages, n, new)
    PROVE  \E more : TellsFirst(content \o [i \in DOMAIN held |-> Whole(held[i])], was, <<>>, messages,
                                n + Len(held), more)
<1> DEFINE add == [i \in DOMAIN held |-> Whole(held[i])]
<1>1. held = <<>> \/ (n < Len(messages) /\ held = <<LineOf(messages[n + 1])>>)
  BY DEF TellsFirst
<1>2. CASE held = <<>>
  <2>1. add = <<>> /\ Len(held) = 0
    BY <1>2
  <2>2. content \o add = content /\ n + Len(held) = n
    <3>1. n \in Nat
      BY LenProperties DEF TellsFirst
    <3> HIDE DEF add
    <3> QED
      BY <2>1, <3>1, ConcatEmptySeq
  <2> QED
    BY <2>2, BufferLost
<1>3. CASE n < Len(messages) /\ held = <<LineOf(messages[n + 1])>>
  <2> DEFINE text == LineOf(messages[n + 1])
  <2>0. held = <<text>>
    BY <1>3
  <2>a. n \in 0..Len(messages) /\ Len(messages) \in Nat
    BY LenProperties DEF TellsFirst
  <2>b. text \in Lines
    <3>1. n + 1 \in 1..Len(messages)
      BY <1>3, <2>a
    <3> QED
      BY <3>1, ElementOfSeq DEF Lines
  <2> HIDE DEF text
  <2>1. add = <<Whole(text)>> /\ Len(held) = 1
    <3>1. Len(held) = 1 /\ DOMAIN held = 1..1 /\ held[1] = text
      BY <2>0
    <3> QED
      BY <3>1
  <2> HIDE DEF add
  <2>2. content \o add = Append(content, Whole(text))
    <3>1. Whole(text) \in Pieces
      BY <2>b DEF Whole, Pieces
    <3> QED
      BY <2>1, <3>1, AppendIsConcat
  <2>3. TellsFirst(Append(content, Whole(text)), was, <<>>, messages, n + 1, Append(new, Whole(text)))
    BY <1>3, LineAdded DEF text
  <2> QED
    BY <2>1, <2>2, <2>3 DEF add
<1> QED
  BY <1>1, <1>2, <1>3

-----------------------------------------------------------------------------
(* The steps *)

\* The line that is dispatched is the one its message describes, for the log if it is open.
LEMMA DataDispatched ==
    ASSUME LogInv, InLog, NEW m \in Given
    PROVE  DispatchData(m) = [text |-> LineOf(m), level |-> m.level, to |-> LogFile,
                              pc |-> IF stream[LogFile] # "null" /\ stream[DefaultLogFile] # "null"
                                     THEN "write" ELSE "print"]
<1> DEFINE to == FileStream(typed, m.level)
           f == LogFormatAt(typed, m.level)
           message == LogMessage(m)
           p == typed.subsecondPrecision
<1>1. IsLogMessage(m) /\ m.level \in AllLevels
  BY GivenIs
<1>2. ConfiguredLevel(typed, m.level)
      /\ flags = {"AllowVerboseIfModuleNotSpecified", "ImmediateFlush", "ColoredTerminalOutput"}
      /\ (\A g \in Files : stream[g] = "null" <=> typed.reference[g] = "null")
  BY <1>1 DEF LogInv, ConfigurationOK
<1>3. to = LogFile /\ ToFile(typed, m.level) = (stream[LogFile] # "null" /\ stream[DefaultLogFile] # "null")
  BY <1>2, FilesAre DEF ConfiguredLevel
<1>4. PICK environ : f = ResolveLoggerFormatSpec(LogFormatOf(m.level, Format, environ), DefaultLoggerId)
  BY <1>2 DEF ConfiguredLevel
<1> HIDE DEF f
<1>5. f.format = LevelFormat(LevelShortName[m.level]) /\ f.dateTimeFormat = DateTimeFormat /\ f.flags = FormatFlags
  BY <1>1, <1>4, ConfiguredFormat
<1>6. message.text = FlattenSeq(m.parts)
  <2> DEFINE parts == m.parts
             spaced == [i \in DOMAIN parts |-> parts[i] \o IF HasFlag("AutoSpacing", flags) THEN <<" ">> ELSE <<>>]
             plain == [i \in DOMAIN parts |-> parts[i] \o <<>>]
  <2>1. message.text = FlattenSeq(spaced)
    BY Zenon DEF LogMessage, MessageBuilder
  <2>2. ~HasFlag("AutoSpacing", flags)
    BY <1>2 DEF HasFlag
  <2>3. spaced = plain
    <3> HIDE DEF parts
    <3> QED
      BY <2>2, Zenon
  <2> HIDE DEF spaced
  <2>4. parts \in Seq(Seq(STRING))
    BY <1>1 DEF IsLogMessage
  <2> HIDE DEF parts
  <2>5. \A i \in DOMAIN parts : parts[i] \o <<>> = parts[i]
    <3> TAKE i \in DOMAIN parts
    <3>1. i \in 1..Len(parts)
      BY <2>4, LenProperties
    <3>2. parts[i] \in Seq(STRING)
      BY <2>4, <3>1, ElementOfSeq
    <3> QED
      BY <3>2, ConcatEmptySeq
  <2>6. parts = [i \in DOMAIN parts |-> parts[i]]
    BY <2>4, LenProperties
  <2>7. plain = parts
    BY <2>5, <2>6
  <2> QED
    BY <2>1, <2>3, <2>7 DEF parts
<1>7. message.place = m.place /\ message.time = m.time
  BY DEF LogMessage
<1> HIDE DEF message, p, to
<1>8. Build(f, message, p) = LineOf(m)
  BY <1>1, <1>5, <1>6, <1>7, LineIsBuilt
<1>9. DispatchData(m) = [text |-> Build(f, message, p), level |-> m.level, to |-> to,
                         pc |-> IF ToFile(typed, m.level) /\ stream[to] # "null" THEN "write" ELSE "print"]
  BY DEF DispatchData, f, message, p, to
<1>10. (ToFile(typed, m.level) /\ stream[to] # "null") <=> (stream[LogFile] # "null" /\ stream[DefaultLogFile] # "null")
  BY <1>3
<1> QED
  BY <1>3, <1>8, <1>9, <1>10

LEMMA InitHolds ==
    ASSUME Init
    PROVE  LogInv
<1>1. <<>> \in Seq(Lines) /\ <<>> \in Seq(Pieces) /\ <<>> \in Seq(Given)
  BY EmptySeq
<1>2. life = "down" /\ full = FALSE /\ line = NoLine /\ logged = <<>> /\ dirs \in Directories
      /\ stream = [f \in Files |-> "none"] /\ buffer = [f \in Files |-> <<>>]
      /\ file = [f \in Files |-> <<>>] /\ before = file
  BY DEF Init
<1>3. LogTypeOK
  BY <1>1, <1>2 DEF LogTypeOK
<1>4. ConfigurationOK
  <2>1. <<>> \in dirs /\ <<"/">> \in dirs
    BY <1>2, LoggingAssumption
  <2> QED
    BY <1>2, <2>1 DEF ConfigurationOK, InLog
<1>5. LineOK
  BY <1>2 DEF LineOK, InLog
<1>6. ContentOK
  <2>1. TellsFirst(<<>>, <<>>, <<>>, <<>>, 0, <<>>)
    BY <1>1, NoLines, NoWholeLines, ConcatEmptySeq DEF TellsFirst
  <2>2. NoneMissing(0)
    BY <1>2 DEF NoneMissing, InLog
  <2> QED
    BY <1>2, <2>1, <2>2, FilesAre DEF ContentOK
<1>7. ConsoleOK
  BY <1>2 DEF ConsoleOK, InLog
<1> QED
  BY <1>3, <1>4, <1>5, <1>6, <1>7 DEF LogInv

LEMMA DefaultConfigured ==
    ASSUME NEW reference, NEW host
    PROVE  OpenedStreams(NewLogger(reference, host, DefaultLoggerId), reference, {DefaultLogFile}, host)
<1> DEFINE c == SetFromBase(NoConfigurations, SetToDefault)
           names == {ResolveFilename(c["Filename"][l], host.now) : l \in Levels}
<1>1. NewLogger(reference, host, DefaultLoggerId) = ResolveFormats(BuildTyped(c, reference, host), DefaultLoggerId)
  BY DEF NewLogger, Configure
<1>2. \A type \in Types :
         /\ DOMAIN c[type] = Levels
         /\ \A level \in Levels : c[type][level] = SetToDefault[type][level]
  BY SetFromBaseIs, DefaultsAre
<1> HIDE DEF c
<1>3. \A l \in Levels : c["Filename"][l] = DefaultLogFile
  BY <1>2, DefaultsAre, TypeNames
<1>4. \A l \in Levels : ResolveFilename(c["Filename"][l], host.now) = DefaultLogFile
  BY <1>3, NamesAre
<1>5. names = {DefaultLogFile}
  <2>1. "Global" \in Levels
    BY LevelNames
  <2> QED
    BY <1>4, <2>1
<1>6. OpenedStreams(ResolveFormats(BuildTyped(c, reference, host), DefaultLoggerId), reference, names, host)
  BY StreamsOpened
<1> QED
  BY <1>1, <1>5, <1>6

\* The streams there are after a configuration are those of its files.
LEMMA StreamsUsed ==
    ASSUME LogTypeOK, NEW t, UseTyped(t)
    PROVE  /\ typed' = t /\ dirs' = t.dirs /\ file' = file
           /\ stream' = [f \in Files |->
                            IF f \notin DOMAIN t.reference THEN "none"
                            ELSE IF stream[f] = "none" THEN t.reference[f] ELSE stream[f]]
<1>1. typed' = t /\ dirs' = t.dirs /\ stream' = StreamsOf(t) /\ file' = Opened(t)
  BY DEF UseTyped
<1>2. file = [f \in Files |-> file[f]]
  BY DEF LogTypeOK
<1>3. Opened(t) = [f \in Files |-> file[f]]
  BY DEF Opened, OpenFile
<1> QED
  BY <1>1, <1>2, <1>3 DEF StreamsOf

\* A life in which nothing is logged has nothing in the buffers or in the log.
LEMMA NothingTold ==
    ASSUME NEW content \in Seq(Pieces)
    PROVE  TellsFirst(content, content, <<>>, <<>>, 0, <<>>)
<1>1. <<>> \in Seq(Pieces) /\ Len(<<>>) = 0 /\ content = content \o <<>>
  BY EmptySeq, ConcatEmptySeq
<1> QED
  BY <1>1, NoLines, NoWholeLines DEF TellsFirst

LEMMA StaticInitHolds ==
    ASSUME LogInv, NEW environ, NEW refused \in SUBSET Asked({DefaultLogFile}), StaticInit(environ, refused)
    PROVE  LogInv'
<1> DEFINE host == Host(environ, refused)
           t == NewLogger(Known, host, DefaultLoggerId)
<1>0. LogTypeOK /\ ConfigurationOK /\ LineOK /\ ContentOK
  BY DEF LogInv
<1>1. /\ life = "down" /\ life' = "started" /\ logged' = <<>> /\ before' = file
      /\ console' = <<>> /\ refusals' = refused /\ UseTyped(t)
      /\ flags' = {"AllowVerboseIfModuleNotSpecified"}
      /\ buffer' = buffer /\ full' = full /\ line' = line
  BY DEF StaticInit, AddFlag
<1>2. OpenedStreams(t, Known, {DefaultLogFile}, host)
  BY DefaultConfigured
<1>3. stream = [f \in Files |-> "none"] /\ line = NoLine /\ buffer = [f \in Files |-> <<>>]
  BY <1>0, <1>1 DEF ConfigurationOK, LineOK, InLog
<1>4. DOMAIN Known = {}
  BY <1>3 DEF Known
<1>5. host = [env |-> environ, dirs |-> dirs, refused |-> refused, now |-> StartTime]
  BY DEF Host
<1> HIDE DEF t, host
<1>6. t.dirs = dirs /\ DOMAIN t.reference = {DefaultLogFile}
      /\ t.reference[DefaultLogFile] = IF DefaultLogFile \in refused THEN "null" ELSE "good"
  <2>0. <<>> \in dirs
    BY <1>0 DEF ConfigurationOK
  <2>1. /\ WithPaths(host, {DefaultLogFile}).dirs = dirs
        /\ NewFileStream(WithPaths(host, {DefaultLogFile}), DefaultLogFile)
              = IF DefaultLogFile \in refused THEN "null" ELSE "good"
    <3>1. DefaultOpened(host, dirs, refused)
      BY <1>5, <2>0, DefaultStream
    <3> QED
      BY <3>1 DEF DefaultOpened
  <2> QED
    BY <1>2, <1>4, <2>1 DEF OpenedStreams
<1>7. typed' = t /\ dirs' = t.dirs /\ file' = file
      /\ stream' = [f \in Files |->
                       IF f \notin DOMAIN t.reference THEN "none"
                       ELSE IF stream[f] = "none" THEN t.reference[f] ELSE stream[f]]
  BY <1>0, <1>1, StreamsUsed
<1>8. stream' = [f \in Files |-> IF f = DefaultLogFile THEN t.reference[DefaultLogFile] ELSE "none"]
  BY <1>3, <1>6, <1>7
<1>9. refused = {} <=> DefaultLogFile \notin refused
  BY DefaultFileHasNoPath DEF Asked
<1>10. stream'[LogFile] = "none" /\ stream'[DefaultLogFile] = IF refusals' = {} THEN "good" ELSE "null"
  BY <1>1, <1>6, <1>8, <1>9, FilesAre
<1>11. LogTypeOK'
  <2>1. stream' \in [Files -> {"none", "good", "bad", "null"}]
    BY <1>6, <1>8
  <2>2. <<>> \in Seq(Given)
    BY EmptySeq
  <2> QED
    BY <1>0, <1>1, <1>7, <2>1, <2>2 DEF LogTypeOK
<1>12. ConfigurationOK'
  BY <1>0, <1>1, <1>6, <1>7, <1>10 DEF ConfigurationOK, InLog
<1>13. LineOK'
  BY <1>1, <1>3 DEF LineOK, InLog
<1>14. ContentOK'
  <2>1. file[LogFile] \in Seq(Pieces)
    BY <1>0, FilesAre DEF LogTypeOK
  <2>2. TellsFirst(file[LogFile], file[LogFile], <<>>, <<>>, 0, <<>>)
    BY <2>1, NothingTold
  <2>3. NoneMissing(0)'
    BY <1>1 DEF NoneMissing, InLog
  <2>4. buffer'[LogFile] = <<>> /\ buffer'[DefaultLogFile] = <<>>
    BY <1>1, <1>3, FilesAre
  <2> QED
    BY <1>1, <1>7, <2>2, <2>3, <2>4 DEF ContentOK
<1>15. ConsoleOK'
  BY <1>1 DEF ConsoleOK, InLog
<1> QED
  BY <1>11, <1>12, <1>13, <1>14, <1>15 DEF LogInv

LEMMA LoggerInitHolds ==
    ASSUME LogInv, NEW refused \in SUBSET Asked(Files), LoggerInit(refused)
    PROVE  LogInv'
<1> DEFINE host == Host(env, refused)
           t == Configure(SetToDefault, InitConfigurations, Known, host, DefaultLoggerId)
<1>0. LogTypeOK /\ ConfigurationOK /\ LineOK /\ ContentOK /\ ConsoleOK
  BY DEF LogInv
<1>1. /\ life = "started" /\ life' = "ready" /\ refusals' = refusals \cup refused /\ UseTyped(t)
      /\ flags' = {"AllowVerboseIfModuleNotSpecified", "ImmediateFlush", "ColoredTerminalOutput"}
      /\ buffer' = buffer /\ console' = console /\ line' = line /\ logged' = logged
      /\ full' = full /\ before' = before
  <2>1. /\ life = "started" /\ life' = "ready" /\ refusals' = refusals \cup refused /\ UseTyped(t)
        /\ flags' = AddFlag("ColoredTerminalOutput", AddFlag("ImmediateFlush", flags))
        /\ buffer' = buffer /\ console' = console /\ line' = line /\ logged' = logged
        /\ full' = full /\ before' = before
    BY DEF LoggerInit, UseConfigurations
  <2>2. flags = {"AllowVerboseIfModuleNotSpecified"}
    BY <1>0, <2>1 DEF ConfigurationOK
  <2>3. AddFlag("ColoredTerminalOutput", AddFlag("ImmediateFlush", {"AllowVerboseIfModuleNotSpecified"}))
           = {"AllowVerboseIfModuleNotSpecified", "ImmediateFlush", "ColoredTerminalOutput"}
    BY DEF AddFlag
  <2> HIDE DEF t
  <2> QED
    BY <2>1, <2>2, <2>3
<1>2. OpenedStreams(t, Known, Files, host) /\ \A level \in AllLevels : ConfiguredLevel(t, level)
  BY InitConfigured
<1>3. /\ line = NoLine /\ buffer = [f \in Files |-> <<>>] /\ logged = <<>> /\ console = <<>>
      /\ stream[LogFile] = "none" /\ stream[DefaultLogFile] = IF refusals = {} THEN "good" ELSE "null"
      /\ <<>> \in dirs /\ <<"/">> \in dirs
  BY <1>0, <1>1 DEF ConfigurationOK, LineOK, ConsoleOK, InLog
<1>4. DOMAIN Known = {DefaultLogFile} /\ Known[DefaultLogFile] = stream[DefaultLogFile]
  <2> DEFINE known == {g \in Files : stream[g] # "none"}
  <2>1. known = {DefaultLogFile}
    BY <1>3, FilesAre
  <2> HIDE DEF known
  <2>2. Known = [f \in known |-> IF stream[f] = "null" THEN "null" ELSE "good"]
    BY DEF Known, known
  <2> QED
    BY <1>3, <2>1, <2>2
<1>5. host = [env |-> env, dirs |-> dirs, refused |-> refused, now |-> StartTime]
  BY DEF Host
<1> HIDE DEF t, host
<1>6. refused \subseteq {LogFile} \cup ({ExtractPathFromFilename(LogFile)} \ (dirs \cup Files))
  <2> DEFINE p == ExtractPathFromFilename(LogFile)
             paths == {ExtractPathFromFilename(f) : f \in Files}
  <2>1. \A x \in paths : x = p \/ x = DefaultLogFile
    BY FilesAre, DefaultFileHasNoPath
  <2>2. refused \subseteq {f \in Files : stream[f] = "none"} \cup (paths \ (dirs \cup Files))
    BY DEF Asked
  <2> HIDE DEF paths, p
  <2>3. \A x \in refused : x = LogFile \/ (x = p /\ x \notin dirs /\ x \notin Files)
    BY <1>3, <2>1, <2>2, FilesAre
  <2> QED
    BY <2>3 DEF p
<1>7. /\ dirs \subseteq t.dirs /\ DOMAIN t.reference = Files
      /\ t.reference[DefaultLogFile] = stream[DefaultLogFile]
      /\ t.reference[LogFile] = IF refused = {} THEN "good" ELSE "null"
  <2>1. /\ dirs \subseteq WithPaths(host, Files).dirs
        /\ NewFileStream(WithPaths(host, Files), LogFile) = IF refused = {} THEN "good" ELSE "null"
    BY <1>3, <1>5, <1>6, LogStream
  <2> QED
    BY <1>2, <1>4, <2>1, FilesAre DEF OpenedStreams
<1>8. typed' = t /\ dirs' = t.dirs /\ file' = file
      /\ stream' = [f \in Files |->
                       IF f \notin DOMAIN t.reference THEN "none"
                       ELSE IF stream[f] = "none" THEN t.reference[f] ELSE stream[f]]
  BY <1>0, <1>1, StreamsUsed
<1>9. stream' = [f \in Files |-> t.reference[f]]
  <2>1. \A f \in Files : stream[f] # "none" => f = DefaultLogFile
    BY <1>3, FilesAre
  <2>2. \A f \in Files : (IF stream[f] = "none" THEN t.reference[f] ELSE stream[f]) = t.reference[f]
    BY <1>7, <2>1
  <2> QED
    BY <1>7, <1>8, <2>2
<1>10. /\ stream'[LogFile] = (IF refused = {} THEN "good" ELSE "null")
       /\ stream'[DefaultLogFile] = IF refusals = {} THEN "good" ELSE "null"
  BY <1>3, <1>7, <1>9, FilesAre
<1>11. LogTypeOK'
  <2>1. stream' \in [Files -> {"none", "good", "bad", "null"}]
    <3>1. \A f \in Files : t.reference[f] \in {"none", "good", "bad", "null"}
      BY <1>3, <1>7, FilesAre
    <3> QED
      BY <1>9, <3>1
  <2> QED
    BY <1>0, <1>1, <1>8, <2>1 DEF LogTypeOK
<1>12. ConfigurationOK'
  <2>1. <<>> \in dirs' /\ <<"/">> \in dirs'
    BY <1>3, <1>7, <1>8
  <2>2. \A level \in AllLevels : ConfiguredLevel(typed', level)
    BY <1>2, <1>8
  <2>3. \A f \in Files : stream'[f] # "none" /\ (stream'[f] = "null" <=> typed'.reference[f] = "null")
    <3>1. \A f \in Files : stream'[f] = t.reference[f] /\ stream'[f] # "none"
      BY <1>9, <1>10, FilesAre
    <3> QED
      BY <1>8, <3>1
  <2>4. refusals' = {} <=> (stream'[LogFile] # "null" /\ stream'[DefaultLogFile] # "null")
    <3>1. refusals' = {} <=> (refusals = {} /\ refused = {})
      BY <1>1
    <3> QED
      BY <1>10, <3>1
  <2> QED
    BY <1>1, <2>1, <2>2, <2>3, <2>4 DEF ConfigurationOK, InLog
<1>13. LineOK'
  BY <1>1, <1>3 DEF LineOK, InLog
<1>14. ContentOK'
  <2>1. file[DefaultLogFile] = before[DefaultLogFile] /\ buffer[DefaultLogFile] = <<>>
    BY <1>0 DEF ContentOK
  <2>2. PICK n, new : TellsFirst(file[LogFile], before[LogFile], buffer[LogFile], logged, n, new)
    BY <1>0 DEF ContentOK
  <2>3. NoneMissing(n)'
    <3>1. n = 0
      BY <1>3, <2>2 DEF TellsFirst
    <3>2. buffer'[LogFile] = <<>> /\ Len(<<>>) = 0 /\ line'.pc = "idle" /\ logged' = <<>>
      BY <1>1, <1>3, FilesAre DEF NoLine
    <3> QED
      BY <3>1, <3>2 DEF NoneMissing
  <2> QED
    BY <1>1, <1>8, <2>1, <2>2, <2>3 DEF ContentOK
<1>15. ConsoleOK'
  <2>1. Len(logged') = 0 /\ line' = NoLine /\ console' = <<>>
    BY <1>1, <1>3
  <2>2. PrintedUpTo(0)' = <<>>
    <3>1. PrintedUpTo(0)' = [i \in 1..0 |-> PrintedAs(logged'[i], env')]
      BY DEF PrintedUpTo
    <3>2. 1..0 = {}
      OBVIOUS
    <3> QED
      BY <3>1, <3>2
  <2> QED
    BY <1>1, <2>1, <2>2 DEF ConsoleOK, InLog
<1> QED
  BY <1>11, <1>12, <1>13, <1>14, <1>15 DEF LogInv

LEMMA StillConfigured ==
    ASSUME LogInv, InLog, InLog', typed' = typed, flags' = flags, dirs' = dirs, refusals' = refusals,
           \A f \in Files : stream'[f] = stream[f] \/ (stream[f] = "good" /\ stream'[f] = "bad")
    PROVE  ConfigurationOK'
<1>1. /\ <<>> \in dirs /\ <<"/">> \in dirs
      /\ \A level \in AllLevels : ConfiguredLevel(typed, level)
      /\ \A f \in Files : stream[f] # "none" /\ (stream[f] = "null" <=> typed.reference[f] = "null")
      /\ refusals = {} <=> (stream[LogFile] # "null" /\ stream[DefaultLogFile] # "null")
      /\ flags = {"AllowVerboseIfModuleNotSpecified", "ImmediateFlush", "ColoredTerminalOutput"}
  BY DEF LogInv, ConfigurationOK
<1>2. life' # "down" /\ life' # "started"
  BY DEF InLog
<1>3. \A f \in Files : stream'[f] # "none" /\ (stream'[f] = "null" <=> stream[f] = "null")
  BY <1>1
<1>4. \A f \in Files : stream'[f] = "null" <=> typed'.reference[f] = "null"
  BY <1>1, <1>3
<1>5. refusals' = {} <=> (stream'[LogFile] # "null" /\ stream'[DefaultLogFile] # "null")
  BY <1>1, <1>3, FilesAre
<1>6. \A level \in AllLevels : ConfiguredLevel(typed', level)
  BY <1>1
<1> QED
  BY <1>1, <1>2, <1>3, <1>4, <1>5, <1>6 DEF ConfigurationOK

\* A line that is not there is idle, and only a server that has its logger dispatches one.
LEMMA LineIs ==
    ASSUME LogInv
    PROVE  /\ line.pc = "idle" => line = NoLine
           /\ line.pc # "idle" =>
                 /\ line # NoLine /\ InLog
                 /\ line \in [text : Lines, level : AllLevels, to : {LogFile},
                              pc : {"write", "flush", "roll", "print"}]
                 /\ line.to = LogFile /\ logged \in Seq(Given) /\ logged # <<>> /\ Len(logged) \in Nat \ {0}
                 /\ Last(logged) = logged[Len(logged)] /\ Last(logged) \in Given
                 /\ line.text = LineOf(Last(logged)) /\ line.level = Last(logged).level
<1>1. NoLine.pc = "idle"
  BY DEF NoLine
<1>2. line \in {NoLine} \cup [text : Lines, level : AllLevels, to : {LogFile},
                              pc : {"write", "flush", "roll", "print"}]
  BY DEF LogInv, LogTypeOK
<1>3. line.pc = "idle" => line = NoLine
  BY <1>2
<1>4. ASSUME line.pc # "idle"
      PROVE  /\ line # NoLine /\ InLog
             /\ line \in [text : Lines, level : AllLevels, to : {LogFile},
                          pc : {"write", "flush", "roll", "print"}]
             /\ line.to = LogFile
  BY <1>1, <1>2, <1>4 DEF LogInv, LineOK
<1>5. ASSUME line.pc # "idle"
      PROVE  /\ logged \in Seq(Given) /\ logged # <<>> /\ Len(logged) \in Nat \ {0}
             /\ Last(logged) = logged[Len(logged)] /\ Last(logged) \in Given
             /\ line.text = LineOf(Last(logged)) /\ line.level = Last(logged).level
  <2>1. logged \in Seq(Given) /\ logged # <<>>
        /\ line.text = LineOf(Last(logged)) /\ line.level = Last(logged).level
    BY <1>4, <1>5 DEF LogInv, LineOK, LogTypeOK
  <2>2. Len(logged) \in Nat \ {0}
    BY <2>1, LenProperties, EmptySeq
  <2>3. Len(logged) \in 1..Len(logged)
    BY <2>2
  <2>4. logged[Len(logged)] \in Given
    BY <2>1, <2>3, ElementOfSeq
  <2> QED
    BY <2>1, <2>2, <2>4 DEF Last
<1> QED
  BY <1>3, <1>4, <1>5

LEMMA NothingRolled ==
    ASSUME LogInv, InLog, NEW level \in AllLevels
    PROVE  RolledFile(level, file) = file
<1>1. MaxLogFileSize(typed, level) = 0
  BY DEF LogInv, ConfigurationOK, ConfiguredLevel
<1>2. \A s, size : ~Rolls(typed, level, s, size)
  BY <1>1 DEF Rolls
<1> QED
  BY <1>2 DEF RolledFile

LEMMA DispatchHolds ==
    ASSUME LogInv, InLog, InLog', NEW m \in Given, Dispatch(m)
    PROVE  LogInv'
<1>0. LogTypeOK /\ ConfigurationOK /\ LineOK /\ ContentOK /\ ConsoleOK
  BY DEF LogInv
<1>1. /\ line.pc = "idle" /\ logged' = Append(logged, m) /\ line' = DispatchData(m)
      /\ typed' = typed /\ flags' = flags /\ stream' = stream /\ buffer' = buffer /\ console' = console
      /\ env' = env /\ full' = full /\ dirs' = dirs /\ refusals' = refusals /\ before' = before
  BY DEF Dispatch, configured, environment
<1>2. file' = file
  <2>1. ~HasFlag("StrictLogFileSizeCheck", flags)
    BY <1>0 DEF ConfigurationOK, HasFlag
  <2> QED
    BY <2>1 DEF Dispatch
<1>3. line = NoLine
  BY <1>1, LineIs
<1>4. m.level \in AllLevels /\ LineOf(m) \in Lines
  BY GivenIs
<1>5. /\ line'.text = LineOf(m) /\ line'.level = m.level /\ line'.to = LogFile
      /\ line'.pc = (IF stream[LogFile] # "null" /\ stream[DefaultLogFile] # "null" THEN "write" ELSE "print")
      /\ line' \in [text : Lines, level : AllLevels, to : {LogFile}, pc : {"write", "flush", "roll", "print"}]
  <2>1. line' = [text |-> LineOf(m), level |-> m.level, to |-> LogFile,
                 pc |-> IF stream[LogFile] # "null" /\ stream[DefaultLogFile] # "null" THEN "write" ELSE "print"]
    BY <1>1, DataDispatched
  <2> QED
    BY <1>4, <2>1
<1>6. line' # NoLine
  BY <1>5 DEF NoLine
<1>7. logged' \in Seq(Given) /\ Len(logged') = Len(logged) + 1 /\ Len(logged) \in Nat
      /\ logged'[Len(logged) + 1] = m /\ (\A i \in 1..Len(logged) : logged'[i] = logged[i])
      /\ Last(logged') = m /\ logged' # <<>> /\ logged \in Seq(Given)
  <2>1. logged \in Seq(Given)
    BY <1>0 DEF LogTypeOK
  <2>2. logged' \in Seq(Given) /\ Len(logged') = Len(logged) + 1 /\ Len(logged) \in Nat
        /\ logged'[Len(logged) + 1] = m /\ \A i \in 1..Len(logged) : logged'[i] = logged[i]
    BY <1>1, <2>1, AppendProperties, LenProperties
  <2>3. logged' # <<>>
    BY <2>2, EmptySeq
  <2> QED
    BY <2>1, <2>2, <2>3 DEF Last
<1>8. LogTypeOK'
  BY <1>0, <1>1, <1>2, <1>5, <1>7 DEF LogTypeOK, InLog
<1>9. ConfigurationOK'
  BY <1>1, StillConfigured
<1>10. LineOK'
  BY <1>1, <1>5, <1>7 DEF LineOK, InLog
<1>11. ContentOK'
  <2>1. file[DefaultLogFile] = before[DefaultLogFile] /\ buffer[DefaultLogFile] = <<>>
    BY <1>0 DEF ContentOK
  <2>2. PICK n, new : TellsFirst(file[LogFile], before[LogFile], buffer[LogFile], logged, n, new) /\ NoneMissing(n)
    BY <1>0 DEF ContentOK
  <2>3. TellsFirst(file[LogFile], before[LogFile], buffer[LogFile], Append(logged, m), n, new)
    BY <1>7, <2>2, MessageAdded
  <2>4. NoneMissing(n)'
    <3> SUFFICES ASSUME stream[LogFile] = "good", stream[DefaultLogFile] # "null"
                 PROVE  /\ n + Len(buffer[LogFile]) = IF line'.pc = "write" THEN Len(logged') - 1 ELSE Len(logged')
                        /\ buffer[LogFile] # <<>> => line'.pc = "flush"
      BY <1>1 DEF NoneMissing
    <3>1. n + Len(buffer[LogFile]) = Len(logged) /\ buffer[LogFile] = <<>>
      BY <1>3, <2>2 DEF NoneMissing, NoLine
    <3>2. line'.pc = "write" /\ Len(logged') - 1 = Len(logged)
      BY <1>5, <1>7
    <3> QED
      BY <3>1, <3>2
  <2> QED
    BY <1>1, <1>2, <2>1, <2>3, <2>4 DEF ContentOK
<1>12. ConsoleOK'
  <2>1. console = PrintedUpTo(Len(logged))
    BY <1>0, <1>3 DEF ConsoleOK
  <2>2. PrintedUpTo(Len(logged)) = [i \in 1..Len(logged) |-> PrintedAs(logged'[i], env')]
    <3>1. \A i \in 1..Len(logged) : logged'[i] = logged[i]
      BY <1>7
    <3> QED
      BY <1>1, <3>1 DEF PrintedUpTo
  <2>3. Len(logged') - 1 = Len(logged)
    BY <1>7
  <2> QED
    BY <1>1, <1>6, <2>1, <2>2, <2>3 DEF ConsoleOK, InLog, PrintedUpTo
<1> QED
  BY <1>8, <1>9, <1>10, <1>11, <1>12 DEF LogInv

\* While a line is being dispatched, what is told by the steps is the content of the files.
LEMMA LineMoves ==
    ASSUME LogInv, line.pc # "idle", NEW x \in {"flush", "roll", "print"}, line' = [line EXCEPT !.pc = x],
           UNCHANGED <<life, configured, console, logged, environment>>,
           file' \in [Files -> Seq(Pieces)], buffer' \in [Files -> Seq(Lines)],
           stream' \in [Files -> {"none", "good", "bad", "null"}],
           \A f \in Files : stream'[f] = stream[f] \/ (stream[f] = "good" /\ stream'[f] = "bad"),
           x = "flush" => stream'[LogFile] = "good",
           ContentOK'
    PROVE  LogInv'
<1>0. LogTypeOK /\ ConfigurationOK /\ LineOK /\ ContentOK /\ ConsoleOK
  BY DEF LogInv
<1>1. /\ line # NoLine /\ InLog
      /\ line \in [text : Lines, level : AllLevels, to : {LogFile}, pc : {"write", "flush", "roll", "print"}]
  BY LineIs
<1>2. /\ life' = life /\ typed' = typed /\ flags' = flags /\ console' = console /\ logged' = logged
      /\ env' = env /\ full' = full /\ dirs' = dirs /\ refusals' = refusals /\ before' = before
  BY DEF configured, environment
<1>3. /\ line' \in [text : Lines, level : AllLevels, to : {LogFile}, pc : {"write", "flush", "roll", "print"}]
      /\ line'.text = line.text /\ line'.level = line.level /\ line'.pc = x
  BY <1>1
<1>4. line' # NoLine
  BY <1>3 DEF NoLine
<1>5. InLog'
  BY <1>1, <1>2 DEF InLog
<1>6. LogTypeOK'
  BY <1>0, <1>2, <1>3 DEF LogTypeOK
<1>7. ConfigurationOK'
  BY <1>1, <1>2, <1>5, StillConfigured
<1>8. LineOK'
  <2>1. logged # <<>> /\ line.text = LineOf(Last(logged)) /\ line.level = Last(logged).level
    BY <1>0, <1>1 DEF LineOK
  <2>2. life' # "started"
    BY <1>5 DEF InLog
  <2> QED
    BY <1>2, <1>3, <1>5, <2>1, <2>2 DEF LineOK
<1>9. ConsoleOK'
  <2>1. console = PrintedUpTo(Len(logged) - 1)
    BY <1>0, <1>1 DEF ConsoleOK
  <2>2. PrintedUpTo(Len(logged) - 1) = PrintedUpTo(Len(logged) - 1)'
    BY <1>2 DEF PrintedUpTo
  <2>3. life' # "started"
    BY <1>5 DEF InLog
  <2> QED
    BY <1>2, <1>4, <2>1, <2>2, <2>3 DEF ConsoleOK
<1> QED
  BY <1>6, <1>7, <1>8, <1>9 DEF LogInv

\* What goes to the disk is written whole, or fails with at most a part of it written.
LEMMA DiskWritten ==
    ASSUME LogTypeOK, NEW held \in Seq(Lines), NEW n, NEW new, ToDisk(LogFile, held),
           TellsFirst(file[LogFile], before[LogFile], held, logged, n, new)
    PROVE  /\ file' \in [Files -> Seq(Pieces)] /\ file'[DefaultLogFile] = file[DefaultLogFile]
           /\ full => /\ stream' = [stream EXCEPT ![LogFile] = "bad"]
                      /\ \E more : TellsFirst(file'[LogFile], before[LogFile], held, logged, n, more)
           /\ ~full => /\ stream' = stream
                       /\ \E more : TellsFirst(file'[LogFile], before[LogFile], <<>>, logged, n + Len(held), more)
<1>1. file \in [Files -> Seq(Pieces)] /\ file[LogFile] \in Seq(Pieces) /\ before[LogFile] \in Seq(Pieces)
      /\ logged \in Seq(Given)
  BY FilesAre DEF LogTypeOK
<1>2. CASE full
  <2>1. Fails(LogFile, held)
    BY <1>2 DEF ToDisk
  <2>2. stream' = [stream EXCEPT ![LogFile] = "bad"]
    BY <2>1 DEF Fails
  <2>3. CASE UNCHANGED file
    BY <1>1, <1>2, <2>2, <2>3
  <2>4. CASE held # <<>> /\ file' = [file EXCEPT ![LogFile] = Append(@, Torn(Head(held)))]
    <3> DEFINE text == Head(held)
    <3>1. text \in Lines
      BY <2>4, HeadTailProperties
    <3> HIDE DEF text
    <3>2. file' = [file EXCEPT ![LogFile] = Append(file[LogFile], Torn(text))]
      BY <2>4 DEF text
    <3>3. Append(file[LogFile], Torn(text)) \in Seq(Pieces)
      <4>1. Torn(text) \in Pieces
        BY <3>1 DEF Torn, Pieces
      <4> QED
        BY <1>1, <4>1, AppendProperties
    <3>4. file' \in [Files -> Seq(Pieces)] /\ file'[DefaultLogFile] = file[DefaultLogFile]
          /\ file'[LogFile] = Append(file[LogFile], Torn(text))
      BY <1>1, <3>2, <3>3, FilesAre
    <3>5. TellsFirst(Append(file[LogFile], Torn(text)), before[LogFile], held, logged, n, Append(new, Torn(text)))
      BY <1>1, <3>1, TornAdded
    <3>6. \E more : TellsFirst(file'[LogFile], before[LogFile], held, logged, n, more)
      BY <3>4, <3>5
    <3> QED
      BY <1>2, <2>2, <3>4, <3>6
  <2> QED
    BY <2>1, <2>3, <2>4 DEF Fails
<1>3. CASE ~full
  <2> DEFINE add == [i \in DOMAIN held |-> Whole(held[i])]
  <2>1. stream' = stream /\ file' = [file EXCEPT ![LogFile] = file[LogFile] \o add]
    BY <1>3 DEF ToDisk, Lands
  <2>2. add \in Seq(Pieces)
    <3>1. \A i \in 1..Len(held) : Whole(held[i]) \in Pieces
      <4> TAKE i \in 1..Len(held)
      <4>1. held[i] \in Lines
        BY ElementOfSeq
      <4> QED
        BY <4>1 DEF Whole, Pieces
    <3>2. DOMAIN held = 1..Len(held) /\ Len(held) \in Nat
      BY LenProperties
    <3> DEFINE F(i) == Whole(held[i])
    <3> HIDE DEF F
    <3>3. \A i \in 1..Len(held) : F(i) \in Pieces
      BY <3>1 DEF F
    <3>4. [i \in 1..Len(held) |-> F(i)] \in Seq(Pieces)
      BY <3>2, <3>3, IsASeq
    <3> QED
      BY <3>2, <3>4 DEF F
  <2>3. PICK more : TellsFirst(file[LogFile] \o add, before[LogFile], <<>>, logged, n + Len(held), more)
    BY <1>1, BufferAdded
  <2> HIDE DEF add
  <2>4. file[LogFile] \o add \in Seq(Pieces)
    BY <1>1, <2>2, ConcatProperties
  <2>5. file' \in [Files -> Seq(Pieces)] /\ file'[DefaultLogFile] = file[DefaultLogFile]
        /\ file'[LogFile] = file[LogFile] \o add
    BY <1>1, <2>1, <2>4, FilesAre
  <2> QED
    BY <1>3, <2>1, <2>3, <2>5
<1> QED
  BY <1>2, <1>3

LEMMA WriteHolds ==
    ASSUME LogInv, Write
    PROVE  LogInv'
<1>0. LogTypeOK /\ ConfigurationOK /\ LineOK /\ ContentOK /\ ConsoleOK
  BY DEF LogInv
<1>1. line.pc = "write" /\ stream[line.to] = "good"
      /\ UNCHANGED <<life, configured, console, logged, environment>>
  BY DEF Write
<1>2. /\ line.pc # "idle" /\ line.to = LogFile /\ InLog /\ line # NoLine
      /\ logged \in Seq(Given) /\ Len(logged) \in Nat \ {0} /\ Last(logged) = logged[Len(logged)]
      /\ line.text = LineOf(Last(logged)) /\ line.text \in Lines
  BY <1>1, LineIs
<1>3. stream[LogFile] = "good" /\ stream[DefaultLogFile] # "null"
  BY <1>0, <1>1, <1>2 DEF LineOK
<1>4. /\ stream \in [Files -> {"none", "good", "bad", "null"}] /\ buffer \in [Files -> Seq(Lines)]
      /\ file \in [Files -> Seq(Pieces)]
  BY <1>0 DEF LogTypeOK
<1>5. buffer[DefaultLogFile] = <<>> /\ file[DefaultLogFile] = before[DefaultLogFile]
  BY <1>0 DEF ContentOK
<1>6. PICK n, new : TellsFirst(file[LogFile], before[LogFile], buffer[LogFile], logged, n, new) /\ NoneMissing(n)
  BY <1>0 DEF ContentOK
<1>7. n + Len(buffer[LogFile]) = Len(logged) - 1 /\ buffer[LogFile] = <<>>
  BY <1>1, <1>2, <1>3, <1>6 DEF NoneMissing
<1>8. n \in Nat /\ n < Len(logged) /\ n + 1 = Len(logged) /\ line.text = LineOf(logged[n + 1])
  <2>1. n \in 0..Len(logged) /\ Len(<<>>) = 0
    BY <1>6 DEF TellsFirst
  <2>2. n + 1 = Len(logged)
    BY <1>2, <1>7, <2>1
  <2> QED
    BY <1>2, <2>1, <2>2
<1> DEFINE held == <<line.text>>
<1>9. held \in Seq(Lines) /\ Len(held) = 1 /\ held # <<>> /\ Append(buffer[LogFile], line.text) = held
  BY <1>2, <1>7
<1> HIDE DEF held
<1>10. TellsFirst(file[LogFile], before[LogFile], held, logged, n, new)
  BY <1>6, <1>8 DEF TellsFirst, held
<1>11. before' = before /\ logged' = logged /\ life' = life
  BY <1>1 DEF environment
<1>12. ASSUME buffer' = [buffer EXCEPT ![line.to] = Append(@, line.text)],
              line' = [line EXCEPT !.pc = "flush"], UNCHANGED <<stream, file>>
       PROVE  LogInv'
  <2>1. buffer' \in [Files -> Seq(Lines)] /\ buffer'[LogFile] = held /\ buffer'[DefaultLogFile] = <<>>
    <3>1. buffer' = [buffer EXCEPT ![LogFile] = held]
      BY <1>2, <1>9, <1>12
    <3> QED
      BY <1>4, <1>5, <1>9, <3>1, FilesAre
  <2>2. line'.pc = "flush"
    BY <1>2, <1>12, LineIs
  <2>3. NoneMissing(n)'
    BY <1>8, <1>9, <1>11, <2>1, <2>2 DEF NoneMissing
  <2>4. ContentOK'
    BY <1>5, <1>10, <1>11, <1>12, <2>1, <2>3 DEF ContentOK
  <2> QED
    BY <1>1, <1>2, <1>3, <1>4, <1>12, <2>1, <2>4, LineMoves
<1>13. ASSUME ToDisk(line.to, Append(buffer[line.to], line.text)),
              buffer' = [buffer EXCEPT ![line.to] = <<>>],
              line' = [line EXCEPT !.pc = IF full THEN "print" ELSE "flush"]
       PROVE  LogInv'
  <2>1. ToDisk(LogFile, held)
    BY <1>2, <1>9, <1>13
  <2>2. buffer' \in [Files -> Seq(Lines)] /\ buffer'[LogFile] = <<>> /\ buffer'[DefaultLogFile] = <<>>
    <3>1. <<>> \in Seq(Lines)
      BY EmptySeq
    <3>2. buffer' = [buffer EXCEPT ![LogFile] = <<>>]
      BY <1>2, <1>13
    <3> QED
      BY <1>4, <1>5, <3>1, <3>2, FilesAre
  <2>3. /\ file' \in [Files -> Seq(Pieces)] /\ file'[DefaultLogFile] = file[DefaultLogFile]
        /\ full => /\ stream' = [stream EXCEPT ![LogFile] = "bad"]
                   /\ \E more : TellsFirst(file'[LogFile], before[LogFile], held, logged, n, more)
        /\ ~full => /\ stream' = stream
                    /\ \E more : TellsFirst(file'[LogFile], before[LogFile], <<>>, logged, n + Len(held), more)
    BY <1>0, <1>9, <1>10, <2>1, DiskWritten
  <2>4. CASE full
    <3>1. stream' \in [Files -> {"none", "good", "bad", "null"}] /\ stream'[LogFile] = "bad"
          /\ \A f \in Files : f # LogFile => stream'[f] = stream[f]
      BY <1>4, <2>3, <2>4, FilesAre
    <3>2. PICK more : TellsFirst(file'[LogFile], before[LogFile], held, logged, n, more)
      BY <2>3, <2>4
    <3>3. TellsFirst(file'[LogFile], before[LogFile], <<>>, logged, n, more)
      BY <3>2, BufferLost
    <3>4. NoneMissing(n)'
      BY <3>1 DEF NoneMissing
    <3>5. ContentOK'
      BY <1>5, <1>11, <2>2, <2>3, <3>3, <3>4 DEF ContentOK
    <3>6. \A f \in Files : stream'[f] = stream[f] \/ (stream[f] = "good" /\ stream'[f] = "bad")
      BY <1>3, <3>1
    <3>7. line' = [line EXCEPT !.pc = "print"]
      BY <1>13, <2>4
    <3> QED
      BY <1>1, <1>2, <2>2, <2>3, <3>1, <3>5, <3>6, <3>7, LineMoves
  <2>5. CASE ~full
    <3>1. PICK more : TellsFirst(file'[LogFile], before[LogFile], <<>>, logged, n + 1, more)
      BY <1>9, <2>3, <2>5
    <3>2. line' = [line EXCEPT !.pc = "flush"]
      BY <1>13, <2>5
    <3>3. line'.pc = "flush"
      BY <1>2, <3>2, LineIs
    <3>4. NoneMissing(n + 1)'
      <4>1. n + 1 + Len(<<>>) = Len(logged)
        BY <1>8
      <4> QED
        BY <1>11, <2>2, <3>3, <4>1 DEF NoneMissing
    <3>5. ContentOK'
      BY <1>5, <1>11, <2>2, <2>3, <3>1, <3>4 DEF ContentOK
    <3> QED
      BY <1>1, <1>2, <1>3, <1>4, <2>2, <2>3, <2>5, <3>2, <3>5, LineMoves
  <2> QED
    BY <2>4, <2>5
<1> QED
  BY <1>12, <1>13 DEF Write

LEMMA WriteRefusedHolds ==
    ASSUME LogInv, WriteRefused
    PROVE  LogInv'
<1>0. LogTypeOK /\ ContentOK
  BY DEF LogInv
<1>1. /\ line.pc = "write" /\ stream[line.to] = "bad" /\ line' = [line EXCEPT !.pc = "print"]
      /\ UNCHANGED <<life, configured, console, logged, environment>>
      /\ stream' = stream /\ buffer' = buffer /\ file' = file
  BY DEF WriteRefused, files
<1>2. line.to = LogFile
  BY <1>1, LineIs
<1>3. before' = before /\ logged' = logged
  BY <1>1 DEF environment
<1>4. ContentOK'
  <2>1. PICK n, new : TellsFirst(file[LogFile], before[LogFile], buffer[LogFile], logged, n, new)
    BY <1>0 DEF ContentOK
  <2>2. NoneMissing(n)'
    BY <1>1, <1>2 DEF NoneMissing
  <2> QED
    BY <1>0, <1>1, <1>3, <2>1, <2>2 DEF ContentOK
<1>5. /\ file' \in [Files -> Seq(Pieces)] /\ buffer' \in [Files -> Seq(Lines)]
      /\ stream' \in [Files -> {"none", "good", "bad", "null"}]
  BY <1>0, <1>1 DEF LogTypeOK
<1> QED
  BY <1>1, <1>4, <1>5, LineMoves

LEMMA FlushHolds ==
    ASSUME LogInv, Flush
    PROVE  LogInv'
<1>0. LogTypeOK /\ ConfigurationOK /\ LineOK /\ ContentOK
  BY DEF LogInv
<1>1. line.pc = "flush" /\ UNCHANGED <<life, configured, console, logged, environment>>
  BY DEF Flush
<1>2. line.pc # "idle" /\ line.to = LogFile /\ InLog /\ line # NoLine
  BY <1>1, LineIs
<1>3. stream[LogFile] = "good"
  BY <1>0, <1>1, <1>2 DEF LineOK
<1>4. FlushNeeded
  BY <1>0, <1>2 DEF ConfigurationOK, FlushNeeded, HasFlag
<1>5. /\ line' = [line EXCEPT !.pc = "roll"]
      /\ ToDisk(LogFile, buffer[LogFile])
      /\ buffer' = IF full THEN buffer ELSE [buffer EXCEPT ![LogFile] = <<>>]
  BY <1>2, <1>4 DEF Flush
<1>6. /\ stream \in [Files -> {"none", "good", "bad", "null"}] /\ buffer \in [Files -> Seq(Lines)]
      /\ buffer[LogFile] \in Seq(Lines)
  BY <1>0, FilesAre DEF LogTypeOK
<1>7. buffer[DefaultLogFile] = <<>> /\ file[DefaultLogFile] = before[DefaultLogFile]
  BY <1>0 DEF ContentOK
<1>8. PICK n, new : TellsFirst(file[LogFile], before[LogFile], buffer[LogFile], logged, n, new) /\ NoneMissing(n)
  BY <1>0 DEF ContentOK
<1>9. before' = before /\ logged' = logged
  BY <1>1 DEF environment
<1>10. line'.pc = "roll"
  BY <1>2, <1>5, LineIs
<1>11. /\ file' \in [Files -> Seq(Pieces)] /\ file'[DefaultLogFile] = file[DefaultLogFile]
       /\ full => /\ stream' = [stream EXCEPT ![LogFile] = "bad"]
                  /\ \E more : TellsFirst(file'[LogFile], before[LogFile], buffer[LogFile], logged, n, more)
       /\ ~full => /\ stream' = stream
                   /\ \E more : TellsFirst(file'[LogFile], before[LogFile], <<>>, logged,
                                           n + Len(buffer[LogFile]), more)
  BY <1>0, <1>5, <1>6, <1>8, DiskWritten
<1>12. CASE full
  <2>1. stream' \in [Files -> {"none", "good", "bad", "null"}] /\ stream'[LogFile] = "bad"
        /\ \A f \in Files : f # LogFile => stream'[f] = stream[f]
    BY <1>6, <1>11, <1>12, FilesAre
  <2>2. buffer' = buffer
    BY <1>5, <1>12
  <2>3. PICK more : TellsFirst(file'[LogFile], before[LogFile], buffer[LogFile], logged, n, more)
    BY <1>11, <1>12
  <2>4. NoneMissing(n)'
    BY <2>1 DEF NoneMissing
  <2>5. ContentOK'
    BY <1>7, <1>9, <1>11, <2>2, <2>3, <2>4 DEF ContentOK
  <2>6. \A f \in Files : stream'[f] = stream[f] \/ (stream[f] = "good" /\ stream'[f] = "bad")
    BY <1>3, <2>1
  <2> QED
    BY <1>1, <1>2, <1>5, <1>6, <1>11, <2>1, <2>2, <2>5, <2>6, LineMoves
<1>13. CASE ~full
  <2>1. buffer' \in [Files -> Seq(Lines)] /\ buffer'[LogFile] = <<>> /\ buffer'[DefaultLogFile] = <<>>
    <3>1. <<>> \in Seq(Lines)
      BY EmptySeq
    <3>2. buffer' = [buffer EXCEPT ![LogFile] = <<>>]
      BY <1>5, <1>13
    <3> QED
      BY <1>6, <1>7, <3>1, <3>2, FilesAre
  <2>2. PICK k : k = n + Len(buffer[LogFile])
    OBVIOUS
  <2>3. PICK more : TellsFirst(file'[LogFile], before[LogFile], <<>>, logged, k, more)
    BY <1>11, <1>13, <2>2
  <2>4. k \in Nat
    BY <2>3, LenProperties, <1>0 DEF TellsFirst, LogTypeOK
  <2>5. stream' = stream
    BY <1>11, <1>13
  <2>6. NoneMissing(k)'
    <3> SUFFICES ASSUME stream[DefaultLogFile] # "null"
                 PROVE  k + Len(<<>>) = Len(logged)
      BY <1>9, <1>10, <2>1, <2>5 DEF NoneMissing
    <3>1. k = Len(logged)
      BY <1>1, <1>2, <1>3, <1>8, <2>2 DEF NoneMissing
    <3> QED
      BY <2>4, <3>1
  <2>7. ContentOK'
    BY <1>7, <1>9, <1>11, <2>1, <2>3, <2>6 DEF ContentOK
  <2> QED
    BY <1>1, <1>2, <1>5, <1>6, <1>11, <2>1, <2>5, <2>7, LineMoves
<1> QED
  BY <1>12, <1>13

LEMMA RollingHolds ==
    ASSUME LogInv, ValidateFileRolling
    PROVE  LogInv'
<1>0. LogTypeOK /\ ContentOK
  BY DEF LogInv
<1>1. /\ line.pc = "roll" /\ line' = [line EXCEPT !.pc = "print"] /\ file' = RolledFile(line.level, file)
      /\ UNCHANGED <<life, configured, console, logged, environment>>
      /\ stream' = stream /\ buffer' = buffer
  BY DEF ValidateFileRolling, environment
<1>2. InLog /\ line.level \in AllLevels /\ line.pc # "idle"
  BY <1>1, LineIs
<1>3. file' = file
  BY <1>1, <1>2, NothingRolled
<1>4. before' = before /\ logged' = logged
  BY <1>1 DEF environment
<1>5. ContentOK'
  <2>1. PICK n, new : TellsFirst(file[LogFile], before[LogFile], buffer[LogFile], logged, n, new) /\ NoneMissing(n)
    BY <1>0 DEF ContentOK
  <2>2. NoneMissing(n)'
    <3>1. line'.pc = "print"
      BY <1>1, <1>2, LineIs
    <3> QED
      BY <1>1, <1>2, <1>4, <2>1, <3>1 DEF NoneMissing
  <2> QED
    BY <1>0, <1>1, <1>3, <1>4, <2>1, <2>2 DEF ContentOK
<1>6. /\ file' \in [Files -> Seq(Pieces)] /\ buffer' \in [Files -> Seq(Lines)]
      /\ stream' \in [Files -> {"none", "good", "bad", "null"}]
  BY <1>0, <1>1, <1>3 DEF LogTypeOK
<1> QED
  BY <1>1, <1>2, <1>5, <1>6, LineMoves

\* Each level that is logged has its color.
LEMMA ColorsAre ==
    ASSUME LogInv, InLog, NEW level \in AllLevels, level # "Fatal", level # "Verbose"
    PROVE  Color(level) = IF TermSupportsColor(env) THEN ColorOf[level] ELSE "plain"
<1>1. HasFlag("ColoredTerminalOutput", flags)
  BY DEF LogInv, ConfigurationOK, HasFlag
<1>2. level \in {"Trace", "Debug", "Error", "Warning", "Info"}
  BY DEF AllLevels
<1>3. CASE ~TermSupportsColor(env)
  BY <1>3 DEF Color
<1>4. CASE TermSupportsColor(env)
  BY <1>1, <1>2, <1>4 DEF Color, ColorOf
<1> QED
  BY <1>3, <1>4

LEMMA PrintLineHolds ==
    ASSUME LogInv, PrintLine
    PROVE  LogInv'
<1>0. LogTypeOK /\ ConfigurationOK /\ LineOK /\ ContentOK /\ ConsoleOK
  BY DEF LogInv
<1>1. /\ line.pc = "print" /\ line' = NoLine /\ life' = life
      /\ typed' = typed /\ flags' = flags /\ stream' = stream /\ buffer' = buffer /\ file' = file /\ logged' = logged
      /\ env' = env /\ full' = full /\ dirs' = dirs /\ refusals' = refusals /\ before' = before
  BY DEF PrintLine, configured, files, environment
<1>2. /\ line # NoLine /\ InLog /\ line.level \in AllLevels
      /\ logged \in Seq(Given) /\ Len(logged) \in Nat \ {0}
      /\ Last(logged) = logged[Len(logged)] /\ Last(logged) \in Given
      /\ line.text = LineOf(Last(logged)) /\ line.level = Last(logged).level
  BY <1>1, LineIs
<1>3. InLog'
  BY <1>1, <1>2 DEF InLog
<1>4. LogTypeOK'
  BY <1>0, <1>1 DEF LogTypeOK
<1>5. ConfigurationOK'
  BY <1>1, <1>2, <1>3, StillConfigured
<1>6. LineOK'
  BY <1>0, <1>1, <1>2, <1>3 DEF LineOK, InLog
<1>7. ContentOK'
  <2>1. PICK n, new : TellsFirst(file[LogFile], before[LogFile], buffer[LogFile], logged, n, new) /\ NoneMissing(n)
    BY <1>0 DEF ContentOK
  <2>2. NoneMissing(n)'
    BY <1>1, <1>2, <2>1 DEF NoneMissing, NoLine
  <2> QED
    BY <1>0, <1>1, <2>1, <2>2 DEF ContentOK
<1>8. ConsoleOK'
  <2> DEFINE k == Len(logged)
             x == PrintedAs(Last(logged), env)
  <2>1. console = PrintedUpTo(k - 1)
    BY <1>0, <1>2 DEF ConsoleOK
  <2>2. console' = Append(console, x)
    <3>1. ToStandardOutput(typed, line.level) = TRUE
      BY <1>0, <1>2 DEF ConfigurationOK, ConfiguredLevel
    <3>2. console' = Append(console, [color |-> Color(line.level), text |-> line.text])
      BY <3>1 DEF PrintLine
    <3>3. line.level # "Fatal" /\ line.level # "Verbose"
      BY <1>2, GivenIs
    <3>4. Color(line.level) = IF TermSupportsColor(env) THEN ColorOf[line.level] ELSE "plain"
      BY <1>2, <3>3, ColorsAre
    <3> QED
      BY <1>2, <3>2, <3>4 DEF PrintedAs
  <2>3. Append(PrintedUpTo(k - 1), x) = PrintedUpTo(k)
    <3> DEFINE P(i) == PrintedAs(logged[i], env)
               S == {P(i) : i \in 1..k}
               a == [i \in 1..(k - 1) |-> P(i)]
               b == [i \in 1..k |-> P(i)]
    <3>1. PrintedUpTo(k - 1) = a /\ PrintedUpTo(k) = b /\ x = P(k)
      BY <1>2 DEF PrintedUpTo
    <3>2. k \in Nat /\ k - 1 \in Nat /\ k \in 1..k /\ \A i \in 1..(k - 1) : i \in 1..k
      BY <1>2
    <3> HIDE DEF P, k, x
    <3>3. a \in Seq(S) /\ Len(a) = k - 1 /\ b \in Seq(S) /\ Len(b) = k /\ P(k) \in S
      BY <3>2, IsASeq
    <3> DEFINE c == Append(a, P(k))
    <3>4. (\A i \in 1..(k - 1) : a[i] = P(i)) /\ \A i \in 1..k : b[i] = P(i)
      OBVIOUS
    <3> HIDE DEF a, b, S
    <3>5. c \in Seq(S) /\ Len(c) = k /\ (\A i \in 1..(k - 1) : c[i] = a[i]) /\ c[k] = P(k)
      BY <3>2, <3>3, AppendProperties
    <3> HIDE DEF c
    <3>6. \A i \in 1..k : c[i] = b[i]
      <4> TAKE i \in 1..k
      <4>1. i = k \/ i \in 1..(k - 1)
        BY <3>2
      <4> QED
        BY <3>4, <3>5, <4>1
    <3>7. c = b
      BY <3>2, <3>3, <3>5, <3>6, SeqEqual
    <3> QED
      BY <3>1, <3>7 DEF c
  <2>4. PrintedUpTo(Len(logged))' = PrintedUpTo(k)
    BY <1>1 DEF PrintedUpTo
  <2>5. life' # "started"
    BY <1>3 DEF InLog
  <2> QED
    BY <1>1, <2>1, <2>2, <2>3, <2>4, <2>5 DEF ConsoleOK
<1> QED
  BY <1>4, <1>5, <1>6, <1>7, <1>8 DEF LogInv

\* A process that ends leaves what it has written; its buffers are gone.
LEMMA EndHolds ==
    ASSUME LogInv, Ends, file' \in [Files -> Seq(Pieces)],
           file'[DefaultLogFile] = before[DefaultLogFile],
           \E n, new : TellsFirst(file'[LogFile], before[LogFile], <<>>, logged, n, new)
    PROVE  LogInv'
<1>0. LogTypeOK /\ ConfigurationOK /\ LineOK /\ ContentOK /\ ConsoleOK
  BY DEF LogInv
<1>1. /\ life' = "down" /\ line' = NoLine
      /\ stream' = [f \in Files |-> "none"] /\ buffer' = [f \in Files |-> <<>>]
      /\ logged' = logged /\ full' = full /\ dirs' = dirs /\ before' = before
  BY DEF Ends, environment
<1>2. LogTypeOK'
  <2>1. <<>> \in Seq(Lines)
    BY EmptySeq
  <2> QED
    BY <1>0, <1>1, <2>1 DEF LogTypeOK
<1>3. ConfigurationOK'
  BY <1>0, <1>1 DEF ConfigurationOK, InLog
<1>4. LineOK'
  BY <1>1 DEF LineOK, InLog
<1>5. ContentOK'
  <2>1. PICK n, new : TellsFirst(file'[LogFile], before[LogFile], <<>>, logged, n, new)
    OBVIOUS
  <2>2. NoneMissing(n)'
    BY <1>1 DEF NoneMissing, InLog
  <2>3. buffer'[LogFile] = <<>> /\ buffer'[DefaultLogFile] = <<>>
    BY <1>1, FilesAre
  <2> QED
    BY <1>1, <2>1, <2>2, <2>3 DEF ContentOK
<1>6. ConsoleOK'
  BY <1>1 DEF ConsoleOK, InLog
<1> QED
  BY <1>2, <1>3, <1>4, <1>5, <1>6 DEF LogInv

LEMMA KillHolds ==
    ASSUME LogInv, Kill
    PROVE  LogInv'
<1>1. file' = file /\ Ends
  BY DEF Kill
<1>2. file \in [Files -> Seq(Pieces)] /\ file[DefaultLogFile] = before[DefaultLogFile]
  BY DEF LogInv, LogTypeOK, ContentOK
<1>3. PICK n, new : TellsFirst(file[LogFile], before[LogFile], buffer[LogFile], logged, n, new)
  BY DEF LogInv, ContentOK
<1>4. TellsFirst(file[LogFile], before[LogFile], <<>>, logged, n, new)
  BY <1>3, BufferLost
<1> QED
  BY <1>1, <1>2, <1>4, EndHolds

LEMMA ExitHolds ==
    ASSUME LogInv, Exit
    PROVE  LogInv'
<1> DEFINE add(f) == [i \in DOMAIN buffer[f] |-> Whole(buffer[f][i])]
<1>1. Ends /\ file' = [f \in Files |-> IF full THEN file[f] ELSE file[f] \o add(f)]
  BY DEF Exit
<1>2. /\ file \in [Files -> Seq(Pieces)] /\ before \in [Files -> Seq(Pieces)]
      /\ buffer \in [Files -> Seq(Lines)] /\ logged \in Seq(Given)
      /\ file[DefaultLogFile] = before[DefaultLogFile] /\ buffer[DefaultLogFile] = <<>>
  BY DEF LogInv, LogTypeOK, ContentOK
<1>3. PICK n, new : TellsFirst(file[LogFile], before[LogFile], buffer[LogFile], logged, n, new)
  BY DEF LogInv, ContentOK
<1>4. \A f \in Files : add(f) \in Seq(Pieces)
  <2> TAKE f \in Files
  <2> DEFINE held == buffer[f]
             F(i) == Whole(held[i])
  <2>1. held \in Seq(Lines)
    BY <1>2
  <2> HIDE DEF held
  <2>2. DOMAIN held = 1..Len(held) /\ Len(held) \in Nat
    BY <2>1, LenProperties
  <2>3. \A i \in 1..Len(held) : F(i) \in Pieces
    <3> TAKE i \in 1..Len(held)
    <3>1. held[i] \in Lines
      BY <2>1, ElementOfSeq
    <3> QED
      BY <3>1 DEF Whole, Pieces
  <2> HIDE DEF F
  <2>4. [i \in 1..Len(held) |-> F(i)] \in Seq(Pieces)
    BY <2>2, <2>3, IsASeq
  <2> QED
    BY <2>2, <2>4 DEF F, held
<1>5. add(DefaultLogFile) = <<>>
  BY <1>2
<1>6. \E more, k : TellsFirst(file[LogFile] \o add(LogFile), before[LogFile], <<>>, logged, k, more)
  <2>1. file[LogFile] \in Seq(Pieces) /\ before[LogFile] \in Seq(Pieces)
    BY <1>2, FilesAre
  <2> QED
    BY <1>2, <1>3, <2>1, BufferAdded
<1> HIDE DEF add
<1>7. CASE full
  <2>1. file' = file
    BY <1>1, <1>2, <1>7
  <2>2. TellsFirst(file[LogFile], before[LogFile], <<>>, logged, n, new)
    BY <1>3, BufferLost
  <2> QED
    BY <1>1, <1>2, <2>1, <2>2, EndHolds
<1>8. CASE ~full
  <2>1. file' = [f \in Files |-> file[f] \o add(f)]
    BY <1>1, <1>8
  <2>2. file' \in [Files -> Seq(Pieces)]
    <3>1. \A f \in Files : file[f] \in Seq(Pieces)
      BY <1>2
    <3>2. \A f \in Files : file[f] \o add(f) \in Seq(Pieces)
      BY <1>4, <3>1, ConcatProperties
    <3> QED
      BY <2>1, <3>2
  <2>3. file'[DefaultLogFile] = before[DefaultLogFile] /\ file'[LogFile] = file[LogFile] \o add(LogFile)
    <3>1. file[DefaultLogFile] \o <<>> = file[DefaultLogFile]
      BY <1>2, FilesAre, ConcatEmptySeq
    <3> QED
      BY <1>2, <1>5, <2>1, <3>1, FilesAre
  <2>4. \E k, more : TellsFirst(file'[LogFile], before[LogFile], <<>>, logged, k, more)
    BY <1>6, <2>3
  <2> QED
    BY <1>1, <2>2, <2>3, <2>4, EndHolds
<1> QED
  BY <1>7, <1>8

\* What the invariant says does not depend on whether the disk is full.
LEMMA SameHolds ==
    ASSUME LogInv, full' \in BOOLEAN,
           UNCHANGED <<life, lives, configured, env, files, dirs, console, line, logged, refusals, before>>
    PROVE  LogInv'
<1>1. /\ life' = life /\ typed' = typed /\ flags' = flags /\ env' = env /\ stream' = stream /\ buffer' = buffer
      /\ file' = file /\ dirs' = dirs /\ console' = console /\ line' = line /\ logged' = logged
      /\ refusals' = refusals /\ before' = before
  BY DEF configured, files
<1>2. LogTypeOK'
  BY <1>1 DEF LogInv, LogTypeOK
<1>3. ConfigurationOK'
  BY <1>1 DEF LogInv, ConfigurationOK, InLog
<1>4. LineOK'
  BY <1>1 DEF LogInv, LineOK, InLog
<1>5. ContentOK'
  <2>1. buffer[DefaultLogFile] = <<>> /\ file[DefaultLogFile] = before[DefaultLogFile]
    BY DEF LogInv, ContentOK
  <2>2. PICK n, new : TellsFirst(file[LogFile], before[LogFile], buffer[LogFile], logged, n, new) /\ NoneMissing(n)
    BY DEF LogInv, ContentOK
  <2>3. NoneMissing(n)'
    BY <1>1, <2>2 DEF NoneMissing, InLog
  <2> QED
    BY <1>1, <2>1, <2>2, <2>3 DEF ContentOK
<1>6. ConsoleOK'
  <2>1. \A n : PrintedUpTo(n)' = PrintedUpTo(n)
    BY <1>1 DEF PrintedUpTo
  <2> QED
    BY <1>1, <2>1 DEF LogInv, ConsoleOK, InLog
<1> QED
  BY <1>2, <1>3, <1>4, <1>5, <1>6 DEF LogInv

LEMMA NextHolds ==
    ASSUME LogInv, [Next]_vars
    PROVE  LogInv'
<1>1. ASSUME NEW environ \in Environments, NEW refused \in SUBSET Asked({DefaultLogFile}),
             StaticInit(environ, refused)
      PROVE  LogInv'
  BY <1>1, StaticInitHolds
<1>2. ASSUME NEW refused \in SUBSET Asked(Files), LoggerInit(refused)
      PROVE  LogInv'
  BY <1>2, LoggerInitHolds
<1>3. ASSUME NEW m \in Messages, Log(m)
      PROVE  LogInv'
  <2>1. InLog /\ InLog' /\ Dispatch(m) /\ m \in Given
    BY <1>3 DEF Log, InLog, Given
  <2> QED
    BY <2>1, DispatchHolds
<1>4. CASE LogStopped
  <2>1. InLog /\ InLog' /\ Dispatch(Stopped) /\ Stopped \in Given
    BY <1>4 DEF LogStopped, InLog, Given
  <2> QED
    BY <2>1, DispatchHolds
<1>5. CASE Write
  BY <1>5, WriteHolds
<1>6. CASE WriteRefused
  BY <1>6, WriteRefusedHolds
<1>7. CASE Flush
  BY <1>7, FlushHolds
<1>8. CASE ValidateFileRolling
  BY <1>8, RollingHolds
<1>9. CASE PrintLine
  BY <1>9, PrintLineHolds
<1>10. CASE Exit
  BY <1>10, ExitHolds
<1>11. CASE Kill
  BY <1>11, KillHolds
<1>12. CASE DiskFills
  <2>1. full' \in BOOLEAN
    BY <1>12 DEF DiskFills
  <2> QED
    BY <1>12, <2>1, SameHolds DEF DiskFills
<1>13. CASE UNCHANGED vars
  <2>1. full' \in BOOLEAN
    BY <1>13 DEF vars, LogInv, LogTypeOK
  <2>2. UNCHANGED <<life, lives, configured, env, files, dirs, console, line, logged, refusals, before>>
    BY <1>13 DEF vars, configured, files
  <2> QED
    BY <2>1, <2>2, SameHolds
<1> QED
  BY <1>1, <1>2, <1>3, <1>4, <1>5, <1>6, <1>7, <1>8, <1>9, <1>10, <1>11, <1>12, <1>13 DEF Next

\* What LogInv says of the configuration, of the line at hand, of the files and of standard
\* output holds at every step, whatever is refused, fills up or is killed.
THEOREM LogInvHolds == Spec => []LogInv
<1>1. Init => LogInv
  BY InitHolds
<1>2. LogInv /\ [Next]_vars => LogInv'
  BY NextHolds
<1> QED
  BY <1>1, <1>2, PTL DEF Spec

-----------------------------------------------------------------------------
(* The theorems *)

LEMMA BehindPrefix ==
    ASSUME NEW S, NEW s \in Seq(S), NEW t \in Seq(S)
    PROVE  SubSeq(s \o t, Len(s) + 1, Len(s \o t)) = t /\ IsPrefix(s, s \o t)
<1> DEFINE c == s \o t
           a == Len(s)
           b == Len(t)
           u == SubSeq(c, a + 1, Len(c))
           v == SubSeq(c, 1, a)
<1>1. a \in Nat /\ b \in Nat
  BY LenProperties
<1>2. c \in Seq(S) /\ Len(c) = a + b /\ (\A i \in 1..a : c[i] = s[i]) /\ \A i \in 1..b : c[a + i] = t[i]
  <2>1. c \in Seq(S) /\ Len(c) = a + b /\ \A i \in 1..(a + b) : c[i] = IF i =< a THEN s[i] ELSE t[i - a]
    BY ConcatProperties
  <2> HIDE DEF a, b, c
  <2>2. \A i \in 1..a : i \in 1..(a + b) /\ i =< a
    BY <1>1
  <2>3. \A i \in 1..b : a + i \in 1..(a + b) /\ ~(a + i =< a) /\ (a + i) - a = i
    BY <1>1
  <2>4. \A i \in 1..b : c[a + i] = t[i]
    <3> TAKE i \in 1..b
    <3> DEFINE j == a + i
    <3>1. j \in 1..(a + b) /\ ~(j =< a) /\ j - a = i
      BY <2>3
    <3> HIDE DEF j
    <3>2. c[j] = t[i]
      BY <2>1, <3>1
    <3> QED
      BY <3>2 DEF j
  <2> QED
    BY <2>1, <2>2, <2>4
<1> HIDE DEF a, b, c
<1>3. u \in Seq(S) /\ Len(u) = b /\ \A i \in 1..b : u[i] = c[a + i]
  <2>1. \A i \in (a + 1)..(a + b) : c[i] \in S
    <3> TAKE i \in (a + 1)..(a + b)
    <3>1. i \in 1..Len(c)
      BY <1>1, <1>2
    <3> QED
      BY <1>2, <3>1, ElementOfSeq
  <2>2. a + 1 \in Int /\ a + b \in Int /\ (a + b) - (a + 1) + 1 = b
        /\ (a + 1 =< a + b => (a + b) - (a + 1) + 1 = b) /\ (~(a + 1 =< a + b) => b = 0)
    BY <1>1
  <2>3. \A i \in 1..b : (a + 1) + i - 1 = a + i
    BY <1>1
  <2>4. /\ SubSeq(c, a + 1, a + b) \in Seq(S)
        /\ Len(SubSeq(c, a + 1, a + b)) = IF a + 1 =< a + b THEN (a + b) - (a + 1) + 1 ELSE 0
        /\ \A i \in 1..((a + b) - (a + 1) + 1) : SubSeq(c, a + 1, a + b)[i] = c[(a + 1) + i - 1]
    BY <2>1, <2>2, SubSeqProperties
  <2> QED
    BY <1>2, <2>2, <2>3, <2>4
<1>4. v = s
  <2>1. \A i \in 1..a : c[i] \in S
    <3> TAKE i \in 1..a
    <3>1. i \in 1..Len(c)
      BY <1>1, <1>2
    <3> QED
      BY <1>2, <3>1, ElementOfSeq
  <2>2. v \in Seq(S) /\ Len(v) = a /\ \A i \in 1..a : v[i] = c[i]
    BY <1>1, <2>1, SubSeqProperties
  <2> HIDE DEF v
  <2> QED
    BY <1>2, <2>2, SeqEqual DEF a
<1> HIDE DEF u
<1>5. u = t
  BY <1>2, <1>3, SeqEqual DEF b
<1>6. IsPrefix(s, c)
  <2>1. v = SubSeq(s, 1, a)
    BY <1>4, SubSeqFull DEF a
  <2>2. DOMAIN s = 1..a /\ DOMAIN c = 1..Len(c)
    BY <1>2, LenProperties DEF a
  <2>3. \A i \in 1..a : s[i] = c[i]
    BY <1>2
  <2> QED
    BY <1>1, <1>2, <1>4, <2>1, <2>2, <2>3 DEF IsPrefix, a
<1> QED
  BY <1>5, <1>6 DEF u, c, a

LEMMA NewLinesAre ==
    ASSUME LogTypeOK, NEW n, NEW new,
           TellsFirst(file[LogFile], before[LogFile], buffer[LogFile], logged, n, new)
    PROVE  /\ NewWholeLines(LogFile) = FirstLines(logged, n)
           /\ IsPrefix(before[LogFile], file[LogFile])
           /\ n \in 0..Len(logged)
<1>1. before[LogFile] \in Seq(Pieces)
  BY FilesAre DEF LogTypeOK
<1>2. /\ n \in 0..Len(logged) /\ new \in Seq(Pieces) /\ file[LogFile] = before[LogFile] \o new
      /\ WholeLines(new) = FirstLines(logged, n)
  BY DEF TellsFirst
<1>3. /\ SubSeq(before[LogFile] \o new, Len(before[LogFile]) + 1, Len(before[LogFile] \o new)) = new
      /\ IsPrefix(before[LogFile], before[LogFile] \o new)
  BY <1>1, <1>2, BehindPrefix
<1> QED
  BY <1>2, <1>3 DEF NewWholeLines

\* What a life leaves in the log is what it logged, in that order, from its beginning and
\* without a gap, each line with its message as it was given, for any messages, times and
\* places, whatever is refused, however often the disk fills up and whenever the process is
\* killed; the default file stays as it was.
THEOREM LogTellsWhatWasLogged == Spec => []FileTellsWhatWasLogged
<1>1. LogInv => FileTellsWhatWasLogged
  <2> SUFFICES ASSUME LogInv PROVE FileTellsWhatWasLogged
    OBVIOUS
  <2>1. LogTypeOK /\ file[DefaultLogFile] = before[DefaultLogFile]
    BY DEF LogInv, ContentOK
  <2>2. PICK n, new : TellsFirst(file[LogFile], before[LogFile], buffer[LogFile], logged, n, new)
    BY DEF LogInv, ContentOK
  <2>3. /\ NewWholeLines(LogFile) = FirstLines(logged, n)
        /\ IsPrefix(before[LogFile], file[LogFile])
        /\ n \in 0..Len(logged)
    BY <2>1, <2>2, NewLinesAre
  <2>4. NewWholeLines(LogFile) = [i \in 1..n |-> LineOf(logged[i])]
    BY <2>3 DEF FirstLines
  <2> QED
    BY <2>1, <2>3, <2>4 DEF FileTellsWhatWasLogged
<1> QED
  BY <1>1, LogInvHolds, PTL

\* When a statement has returned and no write has failed, its line and all before it are in
\* the log, and on standard output in any case, in the color of their level.
THEOREM LogIsWritten == Spec => []WrittenWhenReturned
<1>1. LogInv => WrittenWhenReturned
  <2> SUFFICES ASSUME LogInv, life \in {"ready", "stopping"}, line.pc = "idle"
               PROVE  /\ console = [i \in DOMAIN logged |-> PrintedAs(logged[i], env)]
                      /\ (\A f \in Files : stream[f] = "good") => Len(NewWholeLines(LogFile)) = Len(logged)
    BY DEF WrittenWhenReturned, PrintedAs, ColorOf
  <2>1. LogTypeOK /\ ContentOK /\ InLog /\ line = NoLine /\ logged \in Seq(Given)
    BY LineIs DEF LogInv, InLog, LogTypeOK
  <2>2. console = [i \in DOMAIN logged |-> PrintedAs(logged[i], env)]
    <3>1. console = PrintedUpTo(Len(logged))
      BY <2>1 DEF LogInv, ConsoleOK
    <3>2. DOMAIN logged = 1..Len(logged)
      BY <2>1, LenProperties
    <3> QED
      BY <3>1, <3>2 DEF PrintedUpTo
  <2>3. ASSUME \A f \in Files : stream[f] = "good"
        PROVE  Len(NewWholeLines(LogFile)) = Len(logged)
    <3>1. PICK n, new : TellsFirst(file[LogFile], before[LogFile], buffer[LogFile], logged, n, new) /\ NoneMissing(n)
      BY <2>1 DEF ContentOK
    <3>2. NewWholeLines(LogFile) = FirstLines(logged, n) /\ n \in 0..Len(logged)
      BY <2>1, <3>1, NewLinesAre
    <3>3. n + Len(buffer[LogFile]) = Len(logged) /\ buffer[LogFile] = <<>>
      BY <2>1, <2>3, <3>1, FilesAre DEF NoneMissing, NoLine
    <3>4. n = Len(logged)
      <4>1. n \in Nat /\ Len(<<>>) = 0
        BY <3>2
      <4> QED
        BY <3>3, <4>1
    <3>5. Len(FirstLines(logged, n)) = n
      BY <2>1, <3>2, FirstLinesAre
    <3> QED
      BY <3>2, <3>4, <3>5
  <2> QED
    BY <2>2, <2>3
<1> QED
  BY <1>1, LogInvHolds, PTL

\* After Logger::Init all levels log to the file or none does: all of them when nothing was
\* refused since the start, whatever the path of the log and the directories there are.
THEOREM LogsAllLevelsOrNone == Spec => []AllLevelsOrNone
<1>1. LogInv => AllLevelsOrNone
  <2> SUFFICES ASSUME LogInv, life \in {"ready", "stopping"}, NEW m \in Messages \cup {Stopped}
               PROVE  ToFile(typed, m.level) <=> refusals = {}
    BY DEF AllLevelsOrNone
  <2>1. m.level \in AllLevels
    BY GivenIs DEF Given
  <2>2. /\ ConfiguredLevel(typed, m.level)
        /\ \A f \in Files : stream[f] = "null" <=> typed.reference[f] = "null"
        /\ refusals = {} <=> (stream[LogFile] # "null" /\ stream[DefaultLogFile] # "null")
    BY <2>1 DEF LogInv, ConfigurationOK, InLog
  <2>3. ToFile(typed, m.level) = (typed.reference[LogFile] # "null" /\ typed.reference[DefaultLogFile] # "null")
    BY <2>2 DEF ConfiguredLevel
  <2> QED
    BY <2>2, <2>3, FilesAre
<1> QED
  BY <1>1, LogInvHolds, PTL

=============================================================================
