---------------------------- MODULE SqlParserProofs ----------------------------
(***************************************************************************)
(* Proofs about the parser, for any names, limits and lengths of input:    *)
(* what it accepts is a sentence of the language, with its tree, and it    *)
(* returns an error only where no sentence starts with what it has read.   *)
(***************************************************************************)
EXTENDS SqlParser, SequenceTheorems, WellFoundedInduction, TLAPS

-------------------------------------------------------------------------------
(***************************************************************************)
(* Sequences of sequences and their concatenation                          *)
(***************************************************************************)

\* Induction over the numbers, for the numbers of which something holds.
LEMMA Upwards ==
  ASSUME NEW S \in SUBSET Nat, 0 \in S, \A n \in S : n + 1 \in S
  PROVE  S = Nat
<1> SUFFICES ASSUME Nat \ S # {} PROVE FALSE
  OBVIOUS
<1>1. PICK x \in Nat \ S : \A y \in Nat \ S : ~(<<y, x>> \in OpToRel(<, Nat))
  <2>1. Nat \ S \in SUBSET Nat
    OBVIOUS
  <2> QED  BY <2>1, WFMin, NatLessThanWellFounded, Zenon
<1>2. \A y \in Nat \ S : ~(y < x)
  BY <1>1, Zenon DEF OpToRel
<1>3. x # 0 /\ x - 1 \in Nat /\ x - 1 < x /\ (x - 1) + 1 = x
  <2>1. x \in Nat /\ x # 0
    BY <1>1
  <2> QED  BY <2>1
<1>4. x - 1 \in S
  BY <1>2, <1>3
<1> QED  BY <1>1, <1>3, <1>4

\* Texts, and their concatenation as an operator that the provers take as such.
Text == Seq(Tokens)
Cat(s, t) == s \o t

\* The empty text is one.
LEMMA EmptyText == <<>> \in Text
BY DEF Text

\* A text has a length.
LEMMA TextLen == \A s \in Text : Len(s) \in Nat
BY DEF Text

\* The concatenation of two texts has the tokens of the first and then those of the
\* second.
LEMMA CatType ==
  ASSUME NEW s \in Text, NEW t \in Text
  PROVE  /\ Cat(s, t) \in Text
         /\ Len(Cat(s, t)) = Len(s) + Len(t)
         /\ \A i \in 1 .. Len(s) : Cat(s, t)[i] = s[i]
         /\ \A i \in 1 .. Len(t) : Cat(s, t)[Len(s) + i] = t[i]
BY DEF Text, Cat

\* It does not matter which texts are put together first.
LEMMA CatAssoc ==
  ASSUME NEW s \in Text, NEW t \in Text, NEW u \in Text
  PROVE  Cat(Cat(s, t), u) = Cat(s, Cat(t, u))
BY ConcatAssociative DEF Text, Cat

\* The empty text adds nothing.
LEMMA CatEmpty ==
  ASSUME NEW s \in Text
  PROVE  Cat(s, <<>>) = s /\ Cat(<<>>, s) = s
BY ConcatEmptySeq DEF Text, Cat

\* f holds the concatenations of the first words.
Accumulates(f, ss, n) ==
  \A i \in 1 .. n : f[i] = IF i = 1 THEN ss[1] ELSE Cat(f[i - 1], ss[i])

\* Two such functions are the same.
LEMMA AccumulatesOnce ==
  ASSUME NEW ss, NEW n \in Nat, NEW f, NEW g,
         Accumulates(f, ss, n), Accumulates(g, ss, n)
  PROVE  \A i \in 1 .. n : f[i] = g[i]
<1> DEFINE S == { i \in Nat : i \in 1 .. n => f[i] = g[i] }
<1>1. 0 \in S
  OBVIOUS
<1>2. ASSUME NEW i \in S PROVE i + 1 \in S
  <2>1. CASE i = 0
    BY <2>1 DEF Accumulates
  <2>2. CASE i # 0 /\ i + 1 \in 1 .. n
    <3>1. i \in 1 .. n /\ (i + 1) - 1 = i /\ i + 1 # 1
      BY <2>2
    <3>2. f[i + 1] = Cat(f[i], ss[i + 1])
      BY <2>2, <3>1 DEF Accumulates
    <3>3. g[i + 1] = Cat(g[i], ss[i + 1])
      BY <2>2, <3>1 DEF Accumulates
    <3>4. f[i] = g[i]
      BY <3>1
    <3>5. f[i + 1] = g[i + 1]
      BY <3>2, <3>3, <3>4
    <3> QED  BY <3>5
  <2>3. CASE i + 1 \notin 1 .. n
    BY <2>3
  <2> QED  BY <2>1, <2>2, <2>3
<1>3. S = Nat
  <2>1. S \in SUBSET Nat
    OBVIOUS
  <2> HIDE DEF S
  <2> QED  BY <1>1, <1>2, <2>1, Upwards
<1> QED  BY <1>3

\* There is one, and its values are sequences.
LEMMA AccumulatesSome ==
  ASSUME NEW ss \in Seq(Text), NEW n \in 0 .. Len(ss)
  PROVE  \E f \in [1 .. n -> Text] : Accumulates(f, ss, n)
<1> DEFINE S == { m \in Nat : m <= Len(ss) =>
                    \E f \in [1 .. m -> Text] : Accumulates(f, ss, m) }
<1>1. 0 \in S
  <2>1. <<>> \in [1 .. 0 -> Text] /\ Accumulates(<<>>, ss, 0)
    BY DEF Accumulates
  <2> QED  BY <2>1
<1>2. ASSUME NEW m \in S PROVE m + 1 \in S
  <2> SUFFICES ASSUME m + 1 <= Len(ss)
               PROVE  \E f \in [1 .. m + 1 -> Text] : Accumulates(f, ss, m + 1)
    OBVIOUS
  <2>1. PICK f \in [1 .. m -> Text] : Accumulates(f, ss, m)
    OBVIOUS
  <2>2. m \in Nat /\ \A i \in 1 .. m + 1 : ss[i] \in Text
    OBVIOUS
  <2> DEFINE last == IF m = 0 THEN ss[1] ELSE Cat(f[m], ss[m + 1])
             g == [i \in 1 .. m + 1 |-> IF i = m + 1 THEN last ELSE f[i]]
  <2>3. last \in Text
    <3>1. CASE m = 0
      BY <2>2, <3>1
    <3>2. CASE m # 0
      <4>1. f[m] \in Text /\ ss[m + 1] \in Text
        BY <2>1, <2>2, <3>2
      <4> QED  BY <3>2, <4>1, CatType
    <3> QED  BY <3>1, <3>2
  <2>4. g \in [1 .. m + 1 -> Text]
    BY <2>1, <2>2, <2>3
  <2>5. Accumulates(g, ss, m + 1)
    <3> SUFFICES ASSUME NEW i \in 1 .. m + 1
                 PROVE  g[i] = IF i = 1 THEN ss[1] ELSE Cat(g[i - 1], ss[i])
      BY DEF Accumulates
    <3>1. CASE i = m + 1
      <4>1. i # 1 => i - 1 = m /\ g[i - 1] = f[m] /\ m # 0
        BY <2>2, <3>1
      <4>2. g[i] = last /\ (i = 1 <=> m = 0)
        BY <2>2, <3>1
      <4> QED  BY <3>1, <4>1, <4>2
    <3>2. CASE i # m + 1
      <4>1. i \in 1 .. m /\ g[i] = f[i] /\ (i # 1 => g[i - 1] = f[i - 1])
        BY <2>2, <3>2
      <4> HIDE DEF g
      <4> QED  BY <2>1, <4>1 DEF Accumulates
    <3> QED  BY <3>1, <3>2
  <2> HIDE DEF g, last
  <2> QED  BY <2>4, <2>5
<1>3. S = Nat
  <2>1. S \in SUBSET Nat
    OBVIOUS
  <2> HIDE DEF S
  <2> QED  BY <1>1, <1>2, <2>1, Upwards
<1>4. n \in Nat /\ n <= Len(ss)
  OBVIOUS
<1> QED  BY <1>3, <1>4

\* FlattenSeq is the last value of such a function.
LEMMA FlattenAccumulates ==
  ASSUME NEW ss \in Seq(Text), Len(ss) # 0
  PROVE  \E f \in [1 .. Len(ss) -> Text] :
           Accumulates(f, ss, Len(ss)) /\ FlattenSeq(ss) = f[Len(ss)]
<1> DEFINE n == Len(ss)
           Body(g) == [i \in 1 .. n |-> IF i = 1 THEN ss[i] ELSE Cat(g[i - 1], ss[i])]
           flatten == CHOOSE g : g = Body(g)
<1>1. PICK f \in [1 .. n -> Text] : Accumulates(f, ss, n)
  <2>1. n \in 0 .. Len(ss)
    OBVIOUS
  <2> QED  BY <2>1, AccumulatesSome
<1>2. f = Body(f)
  <2>1. \A i \in 1 .. n : f[i] = Body(f)[i]
    BY <1>1 DEF Accumulates
  <2> QED  BY <1>1, <2>1
<1>3. flatten = Body(flatten)
  BY <1>2
<1>4. FlattenSeq(ss) = flatten[n]
  BY DEF FlattenSeq, Cat
<1> HIDE DEF flatten
<1>5. Accumulates(flatten, ss, n)
  BY <1>3 DEF Accumulates
<1>6. n \in Nat /\ n \in 1 .. n
  OBVIOUS
<1>7. flatten[n] = f[n]
  BY <1>1, <1>5, <1>6, AccumulatesOnce
<1> QED  BY <1>1, <1>4, <1>7

\* No texts make an empty one.
LEMMA FlattenEmpty == FlattenSeq(<<>>) = <<>>
BY DEF FlattenSeq

\* The concatenation of texts is a text.
LEMMA FlattenType ==
  ASSUME NEW ss \in Seq(Text)
  PROVE  FlattenSeq(ss) \in Text
<1>1. CASE Len(ss) = 0
  <2>1. ss = <<>>
    BY <1>1
  <2> QED  BY <2>1, EmptyText, FlattenEmpty
<1>2. CASE Len(ss) # 0
  <2>1. PICK f \in [1 .. Len(ss) -> Text] : FlattenSeq(ss) = f[Len(ss)]
    BY <1>2, FlattenAccumulates
  <2>2. Len(ss) \in 1 .. Len(ss)
    BY <1>2
  <2> QED  BY <2>1, <2>2
<1> QED  BY <1>1, <1>2

\* One more text comes behind the concatenation of the others.
LEMMA FlattenAppend ==
  ASSUME NEW ss \in Seq(Text), NEW w \in Text
  PROVE  FlattenSeq(Append(ss, w)) = Cat(FlattenSeq(ss), w)
<1> DEFINE n == Len(ss)
           more == Append(ss, w)
<1>1. more \in Seq(Text) /\ Len(more) = n + 1 /\ n \in Nat
      /\ (\A i \in 1 .. n : more[i] = ss[i]) /\ more[n + 1] = w
  BY AppendProperties
<1> HIDE DEF more
<1>2. PICK g \in [1 .. n + 1 -> Text] :
        Accumulates(g, more, n + 1) /\ FlattenSeq(more) = g[n + 1]
  BY <1>1, FlattenAccumulates
<1>3. CASE n = 0
  <2>1. ss = <<>>
    BY <1>3
  <2>2. FlattenSeq(more) = w
    BY <1>1, <1>2, <1>3 DEF Accumulates
  <2>3. Cat(FlattenSeq(ss), w) = w
    BY <2>1, FlattenEmpty, CatEmpty
  <2> QED  BY <2>2, <2>3 DEF more
<1>4. CASE n # 0
  <2>1. PICK f \in [1 .. n -> Text] : Accumulates(f, ss, n) /\ FlattenSeq(ss) = f[n]
    BY <1>4, FlattenAccumulates
  <2>2. Accumulates(g, ss, n)
    <3> SUFFICES ASSUME NEW i \in 1 .. n
                 PROVE  g[i] = IF i = 1 THEN ss[1] ELSE Cat(g[i - 1], ss[i])
      BY DEF Accumulates
    <3>1. i \in 1 .. n + 1 /\ more[i] = ss[i] /\ more[1] = ss[1]
      BY <1>1
    <3> QED  BY <1>2, <3>1 DEF Accumulates
  <2>3. g[n] = f[n]
    <3>1. n \in Nat /\ n \in 1 .. n
      BY <1>1, <1>4
    <3>2. Accumulates(f, ss, n)
      BY <2>1
    <3> HIDE DEF n
    <3> QED  BY <2>2, <3>1, <3>2, AccumulatesOnce
  <2>4. g[n + 1] = Cat(g[n], w)
    <3>1. n + 1 \in 1 .. n + 1 /\ n + 1 # 1 /\ (n + 1) - 1 = n
      BY <1>1, <1>4
    <3> QED  BY <1>1, <1>2, <3>1 DEF Accumulates
  <2> QED  BY <1>2, <2>1, <2>3, <2>4 DEF more
<1> QED  BY <1>3, <1>4

\* A sequence is its front and its last element.
LEMMA FrontAndLast ==
  ASSUME NEW T, NEW s \in Seq(T), NEW n \in Nat, Len(s) = n + 1
  PROVE  /\ SubSeq(s, 1, n) \in Seq(T) /\ Len(SubSeq(s, 1, n)) = n
         /\ \A i \in 1 .. n : SubSeq(s, 1, n)[i] = s[i]
         /\ s[n + 1] \in T
         /\ s = Append(SubSeq(s, 1, n), s[n + 1])
         /\ \A k \in 0 .. n : SubSeq(SubSeq(s, 1, n), 1, k) = SubSeq(s, 1, k)
OBVIOUS

\* A text of the sequence comes behind the concatenation of those before it.
LEMMA FlattenSplit ==
  ASSUME NEW ss \in Seq(Text), NEW k \in 0 .. Len(ss) - 1
  PROVE  \E r \in Text :
           FlattenSeq(ss) = Cat(FlattenSeq(SubSeq(ss, 1, k)), Cat(ss[k + 1], r))
<1> DEFINE Splits(s, j) == \E r \in Text :
             FlattenSeq(s) = Cat(FlattenSeq(SubSeq(s, 1, j)), Cat(s[j + 1], r))
           S == { m \in Nat : \A s \in Seq(Text) :
                    Len(s) = m => \A j \in 0 .. m - 1 : Splits(s, j) }
<1>1. 0 \in S
  <2>1. 0 .. 0 - 1 = {}
    OBVIOUS
  <2> HIDE DEF Splits
  <2> QED  BY <2>1
<1>2. ASSUME NEW m \in S PROVE m + 1 \in S
  <2> SUFFICES ASSUME NEW s \in Seq(Text), Len(s) = m + 1, NEW j \in 0 .. m
               PROVE  Splits(s, j)
    <3>1. m \in Nat /\ 0 .. (m + 1) - 1 = 0 .. m
      OBVIOUS
    <3> HIDE DEF Splits
    <3> QED  BY <3>1
  <2> DEFINE front == SubSeq(s, 1, m)
             last == s[m + 1]
             first == SubSeq(s, 1, j)
             next == s[j + 1]
  <2>1. m \in Nat
    OBVIOUS
  <2>2. /\ front \in Seq(Text) /\ Len(front) = m
        /\ \A i \in 1 .. m : front[i] = s[i]
        /\ last \in Text
        /\ s = Append(front, last)
        /\ \A i \in 0 .. m : SubSeq(front, 1, i) = SubSeq(s, 1, i)
    BY <2>1, FrontAndLast
  <2>3. \A i \in 0 .. m - 1 : Splits(front, i)
    <3> HIDE DEF Splits, front
    <3> QED  BY <2>2
  <2>4. first \in Seq(Text) /\ next \in Text
    BY <2>1
  <2>5. SUFFICES \E r \in Text : FlattenSeq(s) = Cat(FlattenSeq(first), Cat(next, r))
    OBVIOUS
  <2>6. FlattenSeq(s) = Cat(FlattenSeq(front), last)
    <3> HIDE DEF front, last
    <3> QED  BY <2>2, FlattenAppend
  <2>7. CASE j = m
    <3>1. first = front /\ next = last
      BY <2>7
    <3>2. last = Cat(last, <<>>)
      BY <2>2, CatEmpty
    <3> HIDE DEF front, last, first, next
    <3> QED  BY <2>6, <3>1, <3>2, EmptyText
  <2>8. CASE j # m
    <3>1. j \in 0 .. m - 1 /\ j + 1 \in 1 .. m
      BY <2>1, <2>8
    <3>2. SubSeq(front, 1, j) = first /\ front[j + 1] = next
      <4> HIDE DEF front
      <4> QED  BY <2>1, <2>2, <3>1
    <3>3. PICK r \in Text : FlattenSeq(front) = Cat(FlattenSeq(first), Cat(next, r))
      BY <2>3, <3>1, <3>2
    <3> DEFINE a == FlattenSeq(first)
    <3>4. a \in Text /\ last \in Text
      <4> HIDE DEF first
      <4> QED  BY <2>2, <2>4, FlattenType
    <3>5. Cat(next, r) \in Text /\ Cat(r, last) \in Text
      BY <2>2, <2>4, CatType
    <3> HIDE DEF front, last, first, next, a
    <3>6. Cat(Cat(a, Cat(next, r)), last) = Cat(a, Cat(Cat(next, r), last))
      BY <3>4, <3>5, CatAssoc
    <3>7. Cat(Cat(next, r), last) = Cat(next, Cat(r, last))
      BY <2>4, <3>4, CatAssoc
    <3> QED  BY <2>6, <3>3, <3>5, <3>6, <3>7 DEF a
  <2> QED  BY <2>7, <2>8
<1>3. S = Nat
  <2>1. S \in SUBSET Nat
    OBVIOUS
  <2> HIDE DEF S
  <2> QED  BY <1>1, <1>2, <2>1, Upwards
<1>4. Len(ss) \in Nat
  OBVIOUS
<1> QED  BY <1>3, <1>4

-------------------------------------------------------------------------------
(***************************************************************************)
(* Reading words off the beginning of a text                               *)
(***************************************************************************)

\* s is how t begins.
Begins(s, t) == Len(s) <= Len(t) /\ \A i \in 1 .. Len(s) : t[i] = s[i]

\* A text begins with all of itself.
LEMMA BeginsItself == \A s \in Text : Begins(s, s)
<1> SUFFICES ASSUME NEW s \in Text PROVE Begins(s, s)
  OBVIOUS
<1>1. Len(s) \in Nat
  BY TextLen
<1>2. Len(s) <= Len(s)
  BY <1>1
<1> QED  BY <1>2 DEF Begins

\* A common beginning can be taken off.
LEMMA BeginsSame ==
  ASSUME NEW a \in Text, NEW b \in Text, NEW c \in Text
  PROVE  Begins(Cat(a, b), Cat(a, c)) <=> Begins(b, c)
<1> DEFINE x == Cat(a, b)
           y == Cat(a, c)
<1>1. Len(a) \in Nat /\ Len(b) \in Nat /\ Len(c) \in Nat
  BY DEF Text
<1>2. /\ Len(x) = Len(a) + Len(b) /\ Len(y) = Len(a) + Len(c)
      /\ \A i \in 1 .. Len(a) : x[i] = a[i] /\ y[i] = a[i]
      /\ \A i \in 1 .. Len(b) : x[Len(a) + i] = b[i]
      /\ \A i \in 1 .. Len(c) : y[Len(a) + i] = c[i]
  BY CatType, ZenonT(40)
<1> HIDE DEF x, y
<1>3. ASSUME Begins(x, y) PROVE Begins(b, c)
  <2>1. Len(b) <= Len(c)
    BY <1>1, <1>2, <1>3 DEF Begins
  <2>2. ASSUME NEW i \in 1 .. Len(b) PROVE c[i] = b[i]
    <3>1. Len(a) + i \in 1 .. Len(x) /\ i \in 1 .. Len(c)
      BY <1>1, <1>2, <2>1
    <3>2. y[Len(a) + i] = x[Len(a) + i]
      BY <1>3, <3>1 DEF Begins
    <3> QED  BY <1>2, <3>1, <3>2
  <2> QED  BY <2>1, <2>2 DEF Begins
<1>4. ASSUME Begins(b, c) PROVE Begins(x, y)
  <2>1. Len(x) <= Len(y) /\ Len(b) <= Len(c)
    BY <1>1, <1>2, <1>4 DEF Begins
  <2>2. ASSUME NEW i \in 1 .. Len(x) PROVE y[i] = x[i]
    <3>1. CASE i \in 1 .. Len(a)
      BY <1>2, <3>1
    <3>2. CASE i \notin 1 .. Len(a)
      <4>1. i - Len(a) \in 1 .. Len(b) /\ i - Len(a) \in 1 .. Len(c)
            /\ Len(a) + (i - Len(a)) = i
        BY <1>1, <1>2, <2>1, <3>2
      <4>2. x[i] = b[i - Len(a)] /\ y[i] = c[i - Len(a)]
        BY <1>2, <4>1
      <4> QED  BY <1>4, <4>1, <4>2 DEF Begins
    <3> QED  BY <3>1, <3>2
  <2> QED  BY <2>1, <2>2 DEF Begins
<1> QED  BY <1>3, <1>4 DEF x, y

\* What begins with more begins with less.
LEMMA BeginsPart ==
  ASSUME NEW a \in Text, NEW b \in Text, NEW c \in Text, Begins(Cat(a, b), c)
  PROVE  Begins(a, c)
<1> DEFINE x == Cat(a, b)
<1>1. Len(a) \in Nat /\ Len(b) \in Nat /\ Len(c) \in Nat
  BY DEF Text
<1>2. Len(x) = Len(a) + Len(b) /\ \A i \in 1 .. Len(a) : x[i] = a[i]
  BY CatType
<1>3. Begins(x, c)
  OBVIOUS
<1> HIDE DEF x
<1> QED  BY <1>1, <1>2, <1>3 DEF Begins

\* Of two beginnings of a text, one begins the other.
LEMMA BeginsEither ==
  ASSUME NEW a \in Text, NEW b \in Text, NEW c \in Text, NEW d \in Text,
         Begins(Cat(a, b), Cat(c, d))
  PROVE  Begins(a, c) \/ Begins(c, a)
<1> DEFINE y == Cat(c, d)
<1>1. Len(a) \in Nat /\ Len(c) \in Nat /\ Len(d) \in Nat
  BY DEF Text
<1>2. y \in Text /\ Len(y) = Len(c) + Len(d) /\ \A i \in 1 .. Len(c) : y[i] = c[i]
  BY CatType
<1>3. Begins(a, y)
  BY <1>2, BeginsPart
<1> HIDE DEF y
<1>4. CASE Len(a) <= Len(c)
  BY <1>1, <1>2, <1>3, <1>4 DEF Begins
<1>5. CASE Len(c) <= Len(a)
  BY <1>1, <1>2, <1>3, <1>5 DEF Begins
<1> QED  BY <1>1, <1>4, <1>5

\* No word begins another one.
PrefixFree(W) == \A v, w \in W : v # <<>> /\ (Begins(v, w) => v = w)

\* If a text of such words and then p is how a text of words and then q begins,
\* the words are the first ones of the latter, and p goes on from there.
LEMMA Decode ==
  ASSUME NEW W \in SUBSET Text, PrefixFree(W), NEW xs \in Seq(W), NEW ys \in Seq(W),
         NEW p \in Text, NEW q \in Text, q # <<>>, \A w \in W : w[1] # q[1],
         Begins(Cat(FlattenSeq(xs), p), Cat(FlattenSeq(ys), q))
  PROVE  /\ Len(xs) <= Len(ys) /\ xs = SubSeq(ys, 1, Len(xs))
         /\ \/ Len(xs) = Len(ys) /\ Begins(p, q)
            \/ /\ Len(xs) < Len(ys)
               /\ \E r \in Text : Begins(p, Cat(ys[Len(xs) + 1], r))
<1> DEFINE x == FlattenSeq(xs)
           y == FlattenSeq(ys)
<1>1. xs \in Seq(Text) /\ ys \in Seq(Text) /\ Len(xs) \in Nat /\ Len(ys) \in Nat
  OBVIOUS
<1>2. x \in Text /\ y \in Text /\ Begins(Cat(x, p), Cat(y, q))
  BY <1>1, FlattenType
<1> DEFINE Same(k) == SubSeq(xs, 1, k) = SubSeq(ys, 1, k)
           S == { k \in Nat : k <= Len(xs) => k <= Len(ys) /\ Same(k) }
\* After k words: the rest of the one, and of the other.
<1>3. ASSUME NEW k \in Nat, k <= Len(xs), k <= Len(ys), Same(k)
      PROVE  \E u, v \in Text :
               /\ Begins(u, v)
               /\ IF k = Len(xs) THEN u = p
                  ELSE \E r \in Text : u = Cat(xs[k + 1], r)
               /\ IF k = Len(ys) THEN v = q
                  ELSE \E r \in Text : v = Cat(ys[k + 1], r)
  <2> DEFINE a == FlattenSeq(SubSeq(xs, 1, k))
  <2>1. a \in Text
    <3>1. SubSeq(xs, 1, k) \in Seq(Text)
      BY <1>1, <1>3
    <3> QED  BY <3>1, FlattenType
  <2>2. a = FlattenSeq(SubSeq(ys, 1, k))
    BY <1>3, Zenon
  <2> HIDE DEF a
  <2>3. PICK u \in Text : /\ Cat(x, p) = Cat(a, u)
                          /\ IF k = Len(xs) THEN u = p
                             ELSE \E r \in Text : u = Cat(xs[k + 1], r)
    <3>1. CASE k = Len(xs)
      <4>1. SubSeq(xs, 1, k) = xs
        BY <1>1, <3>1
      <4>2. a = x
        BY <4>1, Zenon DEF a
      <4> QED  BY <3>1, <4>2
    <3>2. CASE k # Len(xs)
      <4>1. k \in 0 .. Len(xs) - 1
        BY <1>1, <1>3, <3>2
      <4>2. PICK r \in Text : x = Cat(a, Cat(xs[k + 1], r))
        BY <1>1, <4>1, FlattenSplit DEF a
      <4>3. xs[k + 1] \in Text
        BY <1>1, <4>1
      <4> DEFINE w == xs[k + 1]
      <4> HIDE DEF x
      <4>4. Cat(w, r) \in Text /\ Cat(r, p) \in Text /\ w \in Text
        BY <4>3, CatType
      <4> HIDE DEF w
      <4>5. Cat(Cat(a, Cat(w, r)), p) = Cat(a, Cat(Cat(w, r), p))
        BY <2>1, <4>4, CatAssoc
      <4>6. Cat(Cat(w, r), p) = Cat(w, Cat(r, p)) /\ Cat(w, Cat(r, p)) \in Text
        BY <4>4, CatAssoc, CatType
      <4>7. Cat(x, p) = Cat(a, Cat(w, Cat(r, p)))
        BY <4>2, <4>5, <4>6 DEF w
      <4> QED  BY <3>2, <4>4, <4>6, <4>7 DEF w
    <3> QED  BY <3>1, <3>2
  <2>4. PICK v \in Text : /\ Cat(y, q) = Cat(a, v)
                          /\ IF k = Len(ys) THEN v = q
                             ELSE \E r \in Text : v = Cat(ys[k + 1], r)
    <3>1. CASE k = Len(ys)
      <4>1. SubSeq(ys, 1, k) = ys
        BY <1>1, <3>1
      <4>2. a = y
        BY <2>2, <4>1, Zenon
      <4> QED  BY <3>1, <4>2
    <3>2. CASE k # Len(ys)
      <4>1. k \in 0 .. Len(ys) - 1
        BY <1>1, <1>3, <3>2
      <4>2. PICK r \in Text : y = Cat(a, Cat(ys[k + 1], r))
        BY <1>1, <2>2, <4>1, FlattenSplit
      <4>3. ys[k + 1] \in Text
        BY <1>1, <4>1
      <4> DEFINE w == ys[k + 1]
      <4> HIDE DEF y
      <4>4. Cat(w, r) \in Text /\ Cat(r, q) \in Text /\ w \in Text
        BY <4>3, CatType
      <4> HIDE DEF w
      <4>5. Cat(Cat(a, Cat(w, r)), q) = Cat(a, Cat(Cat(w, r), q))
        BY <2>1, <4>4, CatAssoc
      <4>6. Cat(Cat(w, r), q) = Cat(w, Cat(r, q)) /\ Cat(w, Cat(r, q)) \in Text
        BY <4>4, CatAssoc, CatType
      <4>7. Cat(y, q) = Cat(a, Cat(w, Cat(r, q)))
        BY <4>2, <4>5, <4>6 DEF w
      <4> QED  BY <3>2, <4>4, <4>6, <4>7 DEF w
    <3> QED  BY <3>1, <3>2
  <2>5. Begins(u, v)
    BY <1>2, <2>1, <2>3, <2>4, BeginsSame
  <2> QED  BY <2>3, <2>4, <2>5
<1>4. 0 \in S
  <2>1. SubSeq(xs, 1, 0) = <<>> /\ SubSeq(ys, 1, 0) = <<>>
    BY SubSeqEmpty
  <2> QED  BY <1>1, <2>1
<1>5. ASSUME NEW k \in S PROVE k + 1 \in S
  <2> SUFFICES ASSUME k + 1 <= Len(xs) PROVE k + 1 <= Len(ys) /\ Same(k + 1)
    OBVIOUS
  <2>1. k \in Nat /\ k < Len(xs) /\ k <= Len(ys) /\ Same(k) /\ k # Len(xs)
    BY <1>1
  <2>2. PICK u \in Text, v \in Text :
          /\ Begins(u, v)
          /\ \E r \in Text : u = Cat(xs[k + 1], r)
          /\ IF k = Len(ys) THEN v = q ELSE \E r \in Text : v = Cat(ys[k + 1], r)
    <3>1. k <= Len(xs)
      BY <1>1, <2>1
    <3> HIDE DEF S, Same
    <3> QED  BY <1>3, <2>1, <3>1
  <2> DEFINE w == xs[k + 1]
  <2>3. w \in W /\ w \in Text /\ w # <<>>
    <3>1. k + 1 \in 1 .. Len(xs)
      BY <1>1, <2>1
    <3>2. w \in W
      BY <3>1
    <3> QED  BY <3>2 DEF PrefixFree
  <2>4. PICK r \in Text : u = Cat(w, r)
    BY <2>2
  <2> HIDE DEF w
  <2>5. CASE k = Len(ys)
    <3>1. Begins(w, q)
      BY <2>2, <2>3, <2>4, <2>5, BeginsPart
    <3>2. 1 \in 1 .. Len(w)
      BY <2>3 DEF Text
    <3>3. q[1] = w[1]
      BY <3>1, <3>2 DEF Begins
    <3> QED  BY <2>3, <3>3
  <2>6. CASE k # Len(ys)
    <3>1. PICK r2 \in Text : v = Cat(ys[k + 1], r2)
      BY <2>2, <2>6
    <3> DEFINE z == ys[k + 1]
    <3>2. k + 1 \in 1 .. Len(ys) /\ k + 1 \in 1 .. Len(xs)
      BY <1>1, <2>1, <2>6
    <3>3. z \in W /\ z \in Text
      BY <3>2
    <3>4. Begins(u, v) /\ v = Cat(z, r2)
      BY <2>2, <3>1
    <3> HIDE DEF z
    <3>5. Begins(w, z) \/ Begins(z, w)
      BY <2>3, <2>4, <3>3, <3>4, BeginsEither
    <3>6. w = z
      BY <2>3, <3>3, <3>5 DEF PrefixFree
    <3>7. SubSeq(xs, 1, k + 1) = Append(SubSeq(xs, 1, k), w)
          /\ SubSeq(ys, 1, k + 1) = Append(SubSeq(ys, 1, k), z)
      BY <2>1, <3>2 DEF w, z
    <3> QED  BY <1>1, <2>1, <3>2, <3>6, <3>7
  <2> QED  BY <2>5, <2>6
<1>6. S = Nat
  <2>1. S \in SUBSET Nat
    OBVIOUS
  <2> HIDE DEF S
  <2> QED  BY <1>4, <1>5, <2>1, Upwards
<1>7. Len(xs) <= Len(ys) /\ Same(Len(xs))
  BY <1>1, <1>6
<1>8. SubSeq(xs, 1, Len(xs)) = xs
  BY <1>1
<1>9. PICK v \in Text :
        /\ Begins(p, v)
        /\ IF Len(xs) = Len(ys) THEN v = q ELSE \E r \in Text : v = Cat(ys[Len(xs) + 1], r)
  <2>1. Len(xs) <= Len(xs)
    BY <1>1
  <2> HIDE DEF S, Same
  <2> QED  BY <1>1, <1>3, <1>7, <2>1
<1> QED  BY <1>1, <1>7, <1>8, <1>9

-------------------------------------------------------------------------------
(***************************************************************************)
(* The parser's variables                                                  *)
(***************************************************************************)

\* What the types need to be inductive: the parser asks for one token more than
\* the bound only at the end of the input, and fills in a condition it has
\* begun.
TypeInv ==
  /\ TypeOK
  /\ Len(read) = MaxTokens + 1 => currentToken = "eof"
  /\ pc \in {"condOp", "condValue"} => conditions # <<>>

\* The tables, entry by entry: what is expected at each place.
LEMMA ExpectedAt ==
  /\ Expected["CREATE"] = {"CREATE"}  /\ Expected["TABLE"] = {"TABLE"}
  /\ Expected["createName"] = Identifiers  /\ Expected["createOpen"] = {"open"}
  /\ Expected["columnComma"] = {"comma"}  /\ Expected["columnName"] = Identifiers
  /\ Expected["columnType"] = Identifiers  /\ Expected["PRIMARY"] = {"PRIMARY"}
  /\ Expected["KEY"] = {"KEY"}  /\ Expected["pkOpen"] = {"open"}
  /\ Expected["pkName"] = Identifiers  /\ Expected["pkClose"] = {"close"}
  /\ Expected["createClose"] = {"close"}  /\ Expected["INSERT"] = {"INSERT"}
  /\ Expected["INTO"] = {"INTO"}  /\ Expected["insertName"] = Identifiers
  /\ Expected["VALUES"] = {"VALUES"}  /\ Expected["insertOpen"] = {"open"}
  /\ Expected["valueComma"] = {"comma"}  /\ Expected["value"] = Identifiers
  /\ Expected["insertClose"] = {"close"}  /\ Expected["SELECT"] = {"SELECT"}
  /\ Expected["fieldComma"] = {"comma"}  /\ Expected["field"] = Identifiers \cup {"star"}
  /\ Expected["FROM"] = {"FROM"}  /\ Expected["selectName"] = Identifiers
  /\ Expected["WHERE"] = {"WHERE"}  /\ Expected["AND"] = {"AND"}
  /\ Expected["condColumn"] = Identifiers  /\ Expected["condOp"] = {"op"}
  /\ Expected["condValue"] = Identifiers  /\ Expected["semicolon"] = {"semicolon"}
BY DEF Expected

\* Where the parser goes from each place.
LEMMA FollowingAt ==
  /\ Following["CREATE"] = "TABLE"  /\ Following["TABLE"] = "createName"
  /\ Following["createName"] = "createOpen"  /\ Following["createOpen"] = "columns"
  /\ Following["columnComma"] = "column"  /\ Following["columnName"] = "columnType"
  /\ Following["columnType"] = "columns"  /\ Following["PRIMARY"] = "KEY"
  /\ Following["KEY"] = "pkOpen"  /\ Following["pkOpen"] = "pkName"
  /\ Following["pkName"] = "pkClose"  /\ Following["pkClose"] = "columns"
  /\ Following["createClose"] = "accepted"  /\ Following["INSERT"] = "INTO"
  /\ Following["INTO"] = "insertName"  /\ Following["insertName"] = "VALUES"
  /\ Following["VALUES"] = "insertOpen"  /\ Following["insertOpen"] = "row"
  /\ Following["valueComma"] = "value"  /\ Following["value"] = "row"
  /\ Following["insertClose"] = "accepted"  /\ Following["SELECT"] = "fields"
  /\ Following["fieldComma"] = "fieldLimit"  /\ Following["field"] = "fields"
  /\ Following["FROM"] = "selectName"  /\ Following["selectName"] = "afterTable"
  /\ Following["WHERE"] = "conditions"  /\ Following["AND"] = "condLimit"
  /\ Following["condColumn"] = "condOp"  /\ Following["condOp"] = "condValue"
  /\ Following["condValue"] = "conditions"  /\ Following["semicolon"] = "accepted"
BY DEF Following

\* What the tables say of a consume, place by place.
LEMMA Places ==
  /\ ConsumePcs = {"CREATE", "TABLE", "createName", "createOpen", "columnComma",
       "columnName", "columnType", "PRIMARY", "KEY", "pkOpen", "pkName", "pkClose",
       "createClose", "INSERT", "INTO", "insertName", "VALUES", "insertOpen",
       "valueComma", "value", "insertClose", "SELECT", "fieldComma", "field", "FROM",
       "selectName", "WHERE", "AND", "condColumn", "condOp", "condValue", "semicolon"}
  /\ \A p \in ConsumePcs :
       /\ Following[p] \in ConsumePcs \cup BranchPcs \cup Ended
       /\ Following[p] \in {"condOp", "condValue"} <=> p \in {"condColumn", "condOp"}
       /\ p \in {"createName", "insertName", "selectName", "columnName", "value", "pkName",
                 "condColumn", "condValue"} => Expected[p] = Identifiers
       /\ p = "field" => Expected[p] = Identifiers \cup {"star"}
       /\ "eof" \notin Expected[p]
<1>1. ConsumePcs = {"CREATE", "TABLE", "createName", "createOpen", "columnComma",
       "columnName", "columnType", "PRIMARY", "KEY", "pkOpen", "pkName", "pkClose",
       "createClose", "INSERT", "INTO", "insertName", "VALUES", "insertOpen",
       "valueComma", "value", "insertClose", "SELECT", "fieldComma", "field", "FROM",
       "selectName", "WHERE", "AND", "condColumn", "condOp", "condValue", "semicolon"}
  BY DEF ConsumePcs, Expected
<1>2. ASSUME NEW p \in ConsumePcs
      PROVE  /\ Following[p] \in ConsumePcs \cup BranchPcs \cup Ended
             /\ Following[p] \in {"condOp", "condValue"} <=> p \in {"condColumn", "condOp"}
  BY <1>1, FollowingAt DEF BranchPcs, Ended
<1>3. ASSUME NEW p \in ConsumePcs
      PROVE  /\ p \in {"createName", "insertName", "selectName", "columnName", "value", "pkName",
                 "condColumn", "condValue"} => Expected[p] = Identifiers
             /\ p = "field" => Expected[p] = Identifiers \cup {"star"}
  BY ExpectedAt
<1>4. "eof" \notin Identifiers
  BY NamesAssumption DEF Identifiers, Types
<1>5. ASSUME NEW p \in ConsumePcs PROVE "eof" \notin Expected[p]
  <2>1. p \in {"createName", "insertName", "selectName", "columnName", "columnType",
               "value", "pkName", "condColumn", "condValue", "field"}
          => Expected[p] = Identifiers \/ Expected[p] = Identifiers \cup {"star"}
    BY ExpectedAt
  <2>2. /\ "eof" \notin Expected["CREATE"] /\ "eof" \notin Expected["TABLE"]
        /\ "eof" \notin Expected["createOpen"] /\ "eof" \notin Expected["columnComma"]
        /\ "eof" \notin Expected["PRIMARY"] /\ "eof" \notin Expected["KEY"]
        /\ "eof" \notin Expected["pkOpen"] /\ "eof" \notin Expected["pkClose"]
        /\ "eof" \notin Expected["createClose"] /\ "eof" \notin Expected["INSERT"]
        /\ "eof" \notin Expected["INTO"] /\ "eof" \notin Expected["VALUES"]
    BY ExpectedAt
  <2>3. /\ "eof" \notin Expected["insertOpen"] /\ "eof" \notin Expected["valueComma"]
        /\ "eof" \notin Expected["insertClose"] /\ "eof" \notin Expected["SELECT"]
        /\ "eof" \notin Expected["fieldComma"] /\ "eof" \notin Expected["FROM"]
        /\ "eof" \notin Expected["WHERE"] /\ "eof" \notin Expected["AND"]
        /\ "eof" \notin Expected["condOp"] /\ "eof" \notin Expected["semicolon"]
    BY ExpectedAt
  <2> QED  BY <1>1, <1>4, <2>1, <2>2, <2>3
<1> QED  BY <1>1, <1>2, <1>3, <1>5

\* Advance reads a token, unless it stays at the end or at a character that is
\* no token.
LEMMA AdvanceReads ==
  ASSUME TypeInv, Advance
  PROVE  /\ read' \in Seq(Tokens) /\ Len(read') \in 1 .. MaxTokens + 1
         /\ Len(read') = MaxTokens + 1 => read'[Len(read')] = "eof"
         /\ currentToken \in {"eof", "unsupported"} => read' = read
         /\ currentToken \notin {"eof", "unsupported"} =>
              \E token \in Tokens : read' = Append(read, token)
<1>1. /\ read \in Seq(Tokens) /\ Len(read) \in 1 .. MaxTokens + 1 /\ MaxTokens \in Nat
      /\ MaxTokens + 1 = Len(read) => currentToken = "eof"
      /\ currentToken \in Tokens
  <2>1. read \in Seq(Tokens) /\ Len(read) \in 1 .. MaxTokens + 1
        /\ (MaxTokens + 1 = Len(read) => currentToken = "eof")
    BY DEF TypeInv, TypeOK
  <2>2. MaxTokens \in Nat
    BY ParserAssumption
  <2>3. currentToken \in Tokens
    BY <2>1 DEF currentToken
  <2> QED  BY <2>1, <2>2, <2>3
<1>2. "eof" \in Tokens
  BY DEF Tokens
<1>3. PICK token \in NextToken :
        read' = IF token = currentToken /\ token \in {"eof", "unsupported"}
                THEN read ELSE Append(read, token)
  BY DEF Advance
<1>4. CASE currentToken \in {"eof", "unsupported"}
  <2>1. read' = read
    BY <1>3, <1>4 DEF NextToken
  <2> QED  BY <1>1, <1>4, <2>1 DEF currentToken
<1>5. CASE currentToken \notin {"eof", "unsupported"}
  <2>1. token \in Tokens /\ (Len(read) >= MaxTokens => token = "eof")
    BY <1>2, <1>3, <1>5 DEF NextToken
  <2>2. read' = Append(read, token)
    BY <1>3, <1>5
  <2>3. Len(read) <= MaxTokens
    BY <1>1, <1>5
  <2>4. read' \in Seq(Tokens) /\ Len(read') = Len(read) + 1 /\ read'[Len(read')] = token
    BY <1>1, <2>1, <2>2
  <2> QED  BY <1>1, <1>5, <2>1, <2>2, <2>3, <2>4
<1> QED  BY <1>4, <1>5

\* A list stays in its type and within its bound.
LEMMA AppendedType ==
  ASSUME NEW S, NEW list \in Seq(S), Len(list) <= MaxItems, NEW item \in S
  PROVE  Appended(list, item) \in Seq(S) /\ Len(Appended(list, item)) <= MaxItems
<1>1. MaxItems \in Nat /\ Len(list) \in Nat
  BY ParserAssumption
<1> QED  BY <1>1 DEF Appended

\* The types hold when a Parse function is called.
LEMMA TypeInitially == Init => TypeInv
<1> SUFFICES ASSUME Init PROVE TypeInv
  OBVIOUS
<1>1. PICK token \in Tokens : read = <<token>>
  BY DEF Init
<1>2. read \in Seq(Tokens) /\ Len(read) = 1
  BY <1>1
<1>3. MaxTokens \in Nat /\ MaxTokens >= 1 /\ MaxItems \in Nat
  BY ParserAssumption
<1>4. /\ statement \in {"CREATE", "INSERT", "SELECT"} /\ pc = statement
      /\ tableName = Unset /\ items = <<>> /\ pkColumn = Unset /\ conditions = <<>>
  BY DEF Init
<1>5. pc \in ConsumePcs /\ pc \notin {"condOp", "condValue"}
  BY <1>4, Places
<1>6. /\ items \in Seq(Identifiers \cup {"star"}) /\ Len(items) <= MaxItems
      /\ conditions \in Seq(Seq(Identifiers)) /\ Len(conditions) <= MaxItems
  <2>1. \A S : <<>> \in Seq(S)
    BY EmptySeq
  <2>2. <<>> \in Seq(Identifiers \cup {"star"}) /\ <<>> \in Seq(Seq(Identifiers))
    BY <2>1, Zenon
  <2>3. Len(<<>>) = 0 /\ 0 <= MaxItems
    BY <1>3
  <2> QED  BY <1>4, <2>2, <2>3
<1>7. TypeOK
  <2>1. Len(read) \in 1 .. MaxTokens + 1
    BY <1>2, <1>3
  <2>2. tableName \in Identifiers \cup {Unset} /\ pkColumn \in Identifiers \cup {Unset}
    BY <1>4
  <2> QED  BY <1>2, <1>4, <1>5, <1>6, <2>1, <2>2 DEF TypeOK
<1> QED  BY <1>2, <1>3, <1>5, <1>7 DEF TypeInv

\* Every step of the parser keeps the types.
LEMMA TypeStep == TypeInv /\ [Next]_vars => TypeInv'
<1> SUFFICES ASSUME TypeInv, [Next]_vars PROVE TypeInv'
  OBVIOUS
<1>1. CASE Consume
  <2>1. pc \in ConsumePcs /\ currentToken \in Expected[pc] /\ statement' = statement
        /\ Recorded /\ Advance
    BY <1>1 DEF Consume
  <2>2. /\ read' \in Seq(Tokens) /\ Len(read') \in 1 .. MaxTokens + 1
        /\ Len(read') = MaxTokens + 1 => currentToken' = "eof"
    BY <2>1, AdvanceReads DEF currentToken
  <2>3. pc' \in ConsumePcs \cup BranchPcs \cup Ended
    BY <1>1, <2>1, Places DEF Consume, Ended
  <2>4. tableName' \in Identifiers \cup {Unset} /\ pkColumn' \in Identifiers \cup {Unset}
    <3>1. pc \in {"createName", "insertName", "selectName", "pkName"}
            => currentToken \in Identifiers
      BY <2>1, Places
    <3> QED  BY <2>1, <3>1 DEF Recorded, TypeInv, TypeOK
  <2>5. items' \in Seq(Identifiers \cup {"star"}) /\ Len(items') <= MaxItems
    <3>1. CASE pc \in {"columnName", "value", "field"}
      <4>1. currentToken \in Identifiers \cup {"star"}
        BY <2>1, <3>1, Places
      <4>2. items' = Appended(items, currentToken)
        BY <2>1, <3>1 DEF Recorded
      <4>3. items \in Seq(Identifiers \cup {"star"}) /\ Len(items) <= MaxItems
        BY DEF TypeInv, TypeOK
      <4> DEFINE S == Identifiers \cup {"star"}
      <4> HIDE DEF S
      <4>4. Appended(items, currentToken) \in Seq(S)
            /\ Len(Appended(items, currentToken)) <= MaxItems
        BY <4>1, <4>3, AppendedType DEF S
      <4> QED  BY <4>2, <4>4 DEF S
    <3>2. CASE pc \notin {"columnName", "value", "field"}
      BY <2>1, <3>2 DEF Recorded, TypeInv, TypeOK
    <3> QED  BY <3>1, <3>2
  <2>6. /\ conditions' \in Seq(Seq(Identifiers)) /\ Len(conditions') <= MaxItems
        /\ pc' \in {"condOp", "condValue"} => conditions' # <<>>
    <3> DEFINE S == Seq(Identifiers)
    <3>1. conditions \in Seq(S) /\ Len(conditions) <= MaxItems
      BY DEF TypeInv, TypeOK
    <3>2. pc' \in {"condOp", "condValue"} => pc \in {"condColumn", "condOp"}
      BY <1>1, <2>1, Places DEF Consume
    <3>3. CASE pc = "condColumn"
      <4>1. <<currentToken>> \in S
        BY <2>1, <3>3, Places
      <4>2. conditions' = Appended(conditions, <<currentToken>>)
        BY <2>1, <3>3 DEF Recorded
      <4> HIDE DEF S
      <4>3. conditions' \in Seq(S) /\ Len(conditions') <= MaxItems
        BY <3>1, <4>1, <4>2, AppendedType
      <4>4. conditions' # <<>>
        <5>1. CASE Len(conditions) < MaxItems
          BY <3>1, <4>2, <5>1 DEF Appended
        <5>2. CASE ~(Len(conditions) < MaxItems)
          <6>1. conditions' = conditions
            BY <4>2, <5>2 DEF Appended
          <6>2. MaxItems \in Nat /\ MaxItems >= 1
            BY ParserAssumption
          <6>3. Len(conditions) # 0
            BY <3>1, <5>2, <6>2
          <6> QED  BY <6>1, <6>3
        <5> QED  BY <5>1, <5>2
      <4> QED  BY <4>3, <4>4 DEF S
    <3>4. CASE pc = "condValue"
      <4> DEFINE n == Len(conditions)
      <4>1. n \in 1 .. n /\ conditions[n] \in S
        BY <3>1, <3>4 DEF TypeInv
      <4>2. Append(conditions[n], currentToken) \in S
        BY <2>1, <3>4, <4>1, Places
      <4>3. conditions' = [conditions EXCEPT ![n] = Append(conditions[n], currentToken)]
        BY <2>1, <3>4 DEF Recorded
      <4> HIDE DEF S
      <4>4. conditions' \in Seq(S) /\ Len(conditions') = n
        BY <3>1, <4>1, <4>2, <4>3
      <4> QED  BY <3>1, <3>2, <3>4, <4>4 DEF S
    <3>5. CASE pc \notin {"condColumn", "condValue"}
      <4>1. conditions' = conditions
        BY <2>1, <3>5 DEF Recorded
      <4> QED  BY <3>1, <3>2, <3>5, <4>1 DEF TypeInv
    <3> QED  BY <3>3, <3>4, <3>5
  <2>7. statement \in {"CREATE", "INSERT", "SELECT"}
    BY DEF TypeInv, TypeOK
  <2> QED  BY <2>1, <2>2, <2>3, <2>4, <2>5, <2>6, <2>7 DEF TypeInv, TypeOK
<1>2. CASE SyntaxError
  BY <1>2 DEF SyntaxError, TypeInv, TypeOK, Ended, currentToken
<1>3. CASE Branch
  <2>1. UNCHANGED <<read, statement, tableName, items, pkColumn, conditions>>
    BY <1>3 DEF Branch
  <2>2. pc' \in {"rejected", "createClose", "columnComma", "column", "PRIMARY", "columnName",
                 "insertClose", "valueComma", "value", "FROM", "fieldComma", "fieldLimit",
                 "field", "WHERE", "semicolon", "condLimit", "AND", "condColumn"}
    BY <1>3 DEF Branch, BranchPcs, AtColumns, AtColumn, AtRow, AtFields, AtFieldLimit,
                AtAfterTable, AtConditions, AtCondLimit
  <2>3. pc' \in ConsumePcs \cup BranchPcs \cup Ended /\ pc' \notin {"condOp", "condValue"}
    BY <2>2, Places DEF BranchPcs, Ended
  <2> QED  BY <2>1, <2>3 DEF TypeInv, TypeOK, currentToken
<1>4. CASE UNCHANGED vars
  BY <1>4 DEF vars, TypeInv, TypeOK, currentToken
<1> QED  BY <1>1, <1>2, <1>3, <1>4 DEF Next

\* So they hold at every step of a parse.
LEMMA TypeInvariant == Spec => []TypeInv
BY TypeInitially, TypeStep, PTL DEF Spec

\* The parser's variables stay in their types, over every input and up to
\* every bound: of a list it keeps at most MaxItems, and it never asks for a
\* token after the end of the input.
THEOREM ParserTypeCorrect == Spec => []TypeOK
<1>1. TypeInv => TypeOK
  BY DEF TypeInv
<1> QED  BY <1>1, TypeInvariant, PTL

-------------------------------------------------------------------------------
(***************************************************************************)
(* The words of the language                                               *)
(***************************************************************************)

\* What a name is, and what it is not.
LEMMA NamesApart ==
  /\ Idents \subseteq Tokens /\ Keywords \subseteq Tokens /\ Symbols \subseteq Tokens
  /\ "op" \in Tokens /\ "INT" \in Idents
  /\ Identifiers = Idents \cup {"unsupported"}
  /\ Idents \cap (Keywords \cup Symbols) = {}
  /\ "eof" \notin Idents /\ "unsupported" \notin Idents /\ "op" \notin Idents
BY NamesAssumption DEF Idents, Tokens, Identifiers, Types, Keywords, Symbols

\* A token is a text.
LEMMA OneToken == \A a \in Tokens : <<a>> \in Text /\ Cat(<<>>, <<a>>) = <<a>>
<1> SUFFICES ASSUME NEW a \in Tokens PROVE <<a>> \in Text /\ Cat(<<>>, <<a>>) = <<a>>
  OBVIOUS
<1>1. <<a>> \in Text
  BY DEF Text
<1> QED  BY <1>1, CatEmpty

\* A token behind one token.
LEMMA CatOne == \A a, b : Cat(<<a>>, <<b>>) = <<a, b>>
<1> SUFFICES ASSUME NEW a, NEW b PROVE Cat(<<a>>, <<b>>) = <<a, b>>
  OBVIOUS
<1> DEFINE S == {a, b}
<1>1. <<a, b>> \in Seq(S) /\ Len(<<a, b>>) = 2
  OBVIOUS
<1>2. <<a>> \in Seq(S) /\ <<b>> \in Seq(S)
  OBVIOUS
<1>3. <<a>> \o <<b>> \in Seq(S) /\ Len(<<a>> \o <<b>>) = 2
  BY <1>2
<1>4. \A i \in 1 .. 2 : (<<a>> \o <<b>>)[i] = <<a, b>>[i]
  OBVIOUS
<1> QED  BY <1>1, <1>3, <1>4, SeqEqual DEF Cat

\* Two tokens are a text.
LEMMA TwoTokens ==
  \A a, b \in Tokens : <<a, b>> \in Text /\ Cat(<<a>>, <<b>>) = <<a, b>>
<1>1. \A a, b \in Tokens : <<a, b>> \in Text
  BY DEF Text
<1> QED  BY <1>1, CatOne

\* A token behind two.
LEMMA CatTwo == \A a, b, c : Cat(<<a, b>>, <<c>>) = <<a, b, c>>
<1> SUFFICES ASSUME NEW a, NEW b, NEW c PROVE Cat(<<a, b>>, <<c>>) = <<a, b, c>>
  OBVIOUS
<1> DEFINE S == {a, b, c}
<1>1. <<a, b, c>> \in Seq(S) /\ Len(<<a, b, c>>) = 3
  OBVIOUS
<1>2. <<a, b>> \in Seq(S) /\ <<c>> \in Seq(S)
  OBVIOUS
<1>3. <<a, b>> \o <<c>> \in Seq(S) /\ Len(<<a, b>> \o <<c>>) = 3
  BY <1>2
<1>4. \A i \in 1 .. 3 : (<<a, b>> \o <<c>>)[i] = <<a, b, c>>[i]
  OBVIOUS
<1> QED  BY <1>1, <1>3, <1>4, SeqEqual DEF Cat

\* Three tokens are a text.
LEMMA ThreeTokens ==
  \A a, b, c \in Tokens : <<a, b, c>> \in Text /\ Cat(<<a, b>>, <<c>>) = <<a, b, c>>
<1>1. \A a, b, c \in Tokens : <<a, b, c>> \in Text
  BY DEF Text
<1> QED  BY <1>1, CatTwo

\* A token behind three.
LEMMA CatThree == \A a, b, c, d : Cat(<<a, b, c>>, <<d>>) = <<a, b, c, d>>
<1> SUFFICES ASSUME NEW a, NEW b, NEW c, NEW d PROVE Cat(<<a, b, c>>, <<d>>) = <<a, b, c, d>>
  OBVIOUS
<1> DEFINE S == {a, b, c, d}
<1>1. <<a, b, c, d>> \in Seq(S) /\ Len(<<a, b, c, d>>) = 4
  OBVIOUS
<1>2. <<a, b, c>> \in Seq(S) /\ <<d>> \in Seq(S)
  OBVIOUS
<1>3. <<a, b, c>> \o <<d>> \in Seq(S) /\ Len(<<a, b, c>> \o <<d>>) = 4
  BY <1>2
<1>4. \A i \in 1 .. 4 : (<<a, b, c>> \o <<d>>)[i] = <<a, b, c, d>>[i]
  OBVIOUS
<1> QED  BY <1>1, <1>3, <1>4, SeqEqual DEF Cat

\* Four tokens are a text.
LEMMA FourTokens ==
  \A a, b, c, d \in Tokens :
    <<a, b, c, d>> \in Text /\ Cat(<<a, b, c>>, <<d>>) = <<a, b, c, d>>
<1>1. \A a, b, c, d \in Tokens : <<a, b, c, d>> \in Text
  BY DEF Text
<1> QED  BY <1>1, CatThree

\* A token behind four.
LEMMA CatFour == \A a, b, c, d, e : Cat(<<a, b, c, d>>, <<e>>) = <<a, b, c, d, e>>
<1> SUFFICES ASSUME NEW a, NEW b, NEW c, NEW d, NEW e
             PROVE  Cat(<<a, b, c, d>>, <<e>>) = <<a, b, c, d, e>>
  OBVIOUS
<1> DEFINE S == {a, b, c, d, e}
<1>1. <<a, b, c, d, e>> \in Seq(S) /\ Len(<<a, b, c, d, e>>) = 5
  OBVIOUS
<1>2. <<a, b, c, d>> \in Seq(S) /\ <<e>> \in Seq(S)
  OBVIOUS
<1>3. <<a, b, c, d>> \o <<e>> \in Seq(S) /\ Len(<<a, b, c, d>> \o <<e>>) = 5
  BY <1>2
<1>4. \A i \in 1 .. 5 : (<<a, b, c, d>> \o <<e>>)[i] = <<a, b, c, d, e>>[i]
  OBVIOUS
<1> QED  BY <1>1, <1>3, <1>4, SeqEqual DEF Cat

\* Five tokens are a text.
LEMMA FiveTokens ==
  \A a, b, c, d, e \in Tokens :
    <<a, b, c, d, e>> \in Text /\ Cat(<<a, b, c, d>>, <<e>>) = <<a, b, c, d, e>>
<1>1. \A a, b, c, d, e \in Tokens : <<a, b, c, d, e>> \in Text
  BY DEF Text
<1> QED  BY <1>1, CatFour

\* An item of a list of values or fields, as a text.
ItemWords(list) == [i \in DOMAIN list |-> ItemTokens(list[i])]
ItemCode(X) == { ItemTokens(x) : x \in Item(X) }

\* A comma, or none.
Commas(comma) == IF comma THEN <<"comma">> ELSE <<>>

\* How an item is written.
LEMMA ItemText ==
  ASSUME NEW X \in SUBSET Tokens, NEW x \in Item(X)
  PROVE  /\ ItemTokens(x) = Cat(Commas(x.comma), <<x.name>>)
         /\ ItemTokens(x) \in Text /\ x.name \in X /\ x.comma \in BOOLEAN
         /\ x = [comma |-> x.comma, name |-> x.name]
         /\ x.comma => /\ Len(ItemTokens(x)) = 2 /\ ItemTokens(x)[1] = "comma"
                       /\ ItemTokens(x)[2] = x.name
         /\ ~x.comma => Len(ItemTokens(x)) = 1 /\ ItemTokens(x)[1] = x.name
         /\ Len(ItemTokens(x)) \in Nat \ {0}
<1>1. x.name \in Tokens /\ x.name \in X /\ x.comma \in BOOLEAN /\ "comma" \in Tokens
      /\ x = [comma |-> x.comma, name |-> x.name]
  BY DEF Item, Tokens, Symbols
<1>2. ItemTokens(x) = Cat(Commas(x.comma), <<x.name>>)
  BY DEF ItemTokens, Comma, Commas, Cat
<1>3. Cat(<<"comma">>, <<x.name>>) = <<"comma", x.name>> /\ Cat(<<>>, <<x.name>>) = <<x.name>>
      /\ <<x.name>> \in Text /\ <<"comma", x.name>> \in Text
  BY <1>1, OneToken, TwoTokens, CatEmpty
<1>4. CASE x.comma
  <2>1. ItemTokens(x) = <<"comma", x.name>>
    BY <1>2, <1>3, <1>4 DEF Commas
  <2>2. \A n : Len(<<"comma", n>>) = 2 /\ <<"comma", n>>[1] = "comma" /\ <<"comma", n>>[2] = n
    OBVIOUS
  <2>3. Len(ItemTokens(x)) = 2 /\ ItemTokens(x)[1] = "comma" /\ ItemTokens(x)[2] = x.name
    BY <2>1, <2>2, Zenon
  <2>4. 2 \in Nat \ {0}
    OBVIOUS
  <2> QED  BY <1>1, <1>2, <1>3, <1>4, <2>1, <2>3, <2>4, Zenon
<1>5. CASE ~x.comma
  <2>1. ItemTokens(x) = <<x.name>>
    BY <1>2, <1>3, <1>5 DEF Commas
  <2>2. \A n : Len(<<n>>) = 1 /\ <<n>>[1] = n
    OBVIOUS
  <2>3. Len(ItemTokens(x)) = 1 /\ ItemTokens(x)[1] = x.name
    BY <2>1, <2>2, Zenon
  <2>4. 1 \in Nat \ {0}
    OBVIOUS
  <2> QED  BY <1>1, <1>2, <1>3, <1>5, <2>1, <2>3, <2>4, Zenon
<1> QED  BY <1>4, <1>5

\* No item begins another one: where there is no comma there is a name.
LEMMA ItemsPrefixFree ==
  ASSUME NEW X \in SUBSET Tokens, "comma" \notin X
  PROVE  ItemCode(X) \subseteq Text /\ PrefixFree(ItemCode(X))
<1>1. ASSUME NEW x \in Item(X), NEW y \in Item(X), Begins(ItemTokens(x), ItemTokens(y))
      PROVE  x = y
  <2> DEFINE s == ItemTokens(x)
             t == ItemTokens(y)
  <2>1. /\ x.comma \in BOOLEAN /\ x.name \in X /\ x = [comma |-> x.comma, name |-> x.name]
        /\ x.comma => Len(s) = 2 /\ s[1] = "comma" /\ s[2] = x.name
        /\ ~x.comma => Len(s) = 1 /\ s[1] = x.name
    BY ItemText
  <2>2. /\ y.comma \in BOOLEAN /\ y.name \in X /\ y = [comma |-> y.comma, name |-> y.name]
        /\ y.comma => Len(t) = 2 /\ t[1] = "comma" /\ t[2] = y.name
        /\ ~y.comma => Len(t) = 1 /\ t[1] = y.name
    BY ItemText
  <2>3. \A i \in 1 .. Len(s) : t[i] = s[i]
    BY <1>1 DEF Begins
  <2> HIDE DEF s, t
  <2>4. CASE x.comma
    <3> Len(s) = 2
      BY <2>1, <2>4, Zenon
    <3>1. t[1] = s[1] /\ t[2] = s[2]
      BY <2>3
    <3>2. y.comma
      BY <2>1, <2>2, <2>4, <3>1
    <3> QED  BY <2>1, <2>2, <2>4, <3>1, <3>2
  <2>5. CASE ~x.comma
    <3> Len(s) = 1
      BY <2>1, <2>5, Zenon
    <3>1. t[1] = s[1]
      BY <2>3
    <3>2. ~y.comma
      BY <2>1, <2>2, <2>5, <3>1
    <3> QED  BY <2>1, <2>2, <2>5, <3>1, <3>2
  <2> QED  BY <2>4, <2>5
<1>2. ItemCode(X) \subseteq Text
  BY ItemText DEF ItemCode
<1>3. \A x \in Item(X) : ItemTokens(x) # <<>>
  <2> TAKE x \in Item(X)
  <2>1. Len(ItemTokens(x)) # 0
    BY ItemText
  <2>2. Len(<<>>) = 0
    OBVIOUS
  <2> QED  BY <2>1, <2>2, Zenon
<1>4. PrefixFree(ItemCode(X))
  BY <1>1, <1>3 DEF PrefixFree, ItemCode
<1> QED  BY <1>2, <1>4

\* Items, one after the other.
LEMMA ItemsSeq ==
  ASSUME NEW X \in SUBSET Tokens, NEW list \in Seq(Item(X))
  PROVE  /\ ItemWords(list) \in Seq(ItemCode(X)) /\ ItemWords(list) \in Seq(Text)
         /\ Len(ItemWords(list)) = Len(list)
         /\ FlattenSeq(ItemWords(list)) \in Text
<1>1. ItemWords(list) \in Seq(ItemCode(X)) /\ Len(ItemWords(list)) = Len(list)
  BY DEF ItemWords, ItemCode
<1>2. ItemCode(X) \subseteq Text
  BY ItemText DEF ItemCode
<1>3. ItemWords(list) \in Seq(Text)
  BY <1>1, <1>2
<1> QED  BY <1>1, <1>3, FlattenType

\* One more item.
LEMMA ItemsAppend ==
  ASSUME NEW X \in SUBSET Tokens, NEW list \in Seq(Item(X)), NEW x \in Item(X)
  PROVE  /\ ItemWords(Append(list, x)) = Append(ItemWords(list), ItemTokens(x))
         /\ NamesOf(list) \in Seq(X) /\ Len(NamesOf(list)) = Len(list)
         /\ NamesOf(Append(list, x)) = Append(NamesOf(list), x.name)
<1>1. ItemWords(Append(list, x)) = Append(ItemWords(list), ItemTokens(x))
  BY DEF ItemWords
<1>2. NamesOf(list) \in Seq(X) /\ Len(NamesOf(list)) = Len(list)
  <2>1. \A y \in Item(X) : y.name \in X
    BY DEF Item
  <2>2. \A i \in DOMAIN list : list[i] \in Item(X)
    OBVIOUS
  <2>3. \A i \in DOMAIN list : list[i].name \in X
    BY <2>1, <2>2, Zenon
  <2> QED  BY <2>3 DEF NamesOf
<1>3. NamesOf(Append(list, x)) = Append(NamesOf(list), x.name)
  BY DEF NamesOf
<1> QED  BY <1>1, <1>2, <1>3

\* What a text of one token says of one that begins with it.
LEMMA BeginsOne == \A a, t : Begins(<<a>>, t) => Len(t) >= 1 /\ t[1] = a
BY DEF Begins

\* What a text of two tokens says of one that begins with it.
LEMMA BeginsTwo == \A a, b, t : Begins(<<a, b>>, t) => Len(t) >= 2 /\ t[1] = a /\ t[2] = b
BY DEF Begins

\* The same for three tokens.
LEMMA BeginsThree ==
  \A a, b, c, t : Begins(<<a, b, c>>, t) => Len(t) >= 3 /\ t[1] = a /\ t[2] = b /\ t[3] = c
BY DEF Begins

\* The same for four tokens.
LEMMA BeginsFour ==
  \A a, b, c, d, t :
    Begins(<<a, b, c, d>>, t) => Len(t) >= 4 /\ t[1] = a /\ t[2] = b /\ t[3] = c /\ t[4] = d
BY DEF Begins

\* What is neither a name nor a comma starts no item, and ends none.
LEMMA NoItem ==
  ASSUME NEW X \in SUBSET Tokens, NEW c \in Tokens \ X,
         NEW w \in ItemCode(X), NEW r \in Text
  PROVE  /\ c # "comma" => ~Begins(<<c>>, Cat(w, r))
         /\ "comma" \notin X => ~Begins(<<"comma", c>>, Cat(w, r))
<1>1. PICK x \in Item(X) : w = ItemTokens(x)
  BY DEF ItemCode
<1>2. /\ w \in Text /\ x.name \in X /\ x.comma \in BOOLEAN
      /\ x.comma => Len(w) = 2 /\ w[1] = "comma" /\ w[2] = x.name
      /\ ~x.comma => Len(w) = 1 /\ w[1] = x.name
  BY <1>1, ItemText
<1> DEFINE t == Cat(w, r)
<1>3. \A i \in 1 .. Len(w) : t[i] = w[i]
  BY <1>2, CatType
<1> HIDE DEF t
<1>4. /\ x.comma => t[1] = "comma" /\ t[2] = x.name
      /\ ~x.comma => t[1] = x.name
  <2>1. CASE x.comma
    <3> Len(w) = 2
      BY <1>2, <2>1, Zenon
    <3>1. 1 \in 1 .. Len(w) /\ 2 \in 1 .. Len(w)
      OBVIOUS
    <3> QED  BY <1>2, <1>3, <2>1, <3>1
  <2>2. CASE ~x.comma
    <3> Len(w) = 1
      BY <1>2, <2>2, Zenon
    <3>1. 1 \in 1 .. Len(w)
      OBVIOUS
    <3> QED  BY <1>2, <1>3, <2>2, <3>1
  <2> QED  BY <2>1, <2>2
<1>5. Begins(<<c>>, t) => t[1] = c
  BY BeginsOne
<1>6. Begins(<<"comma", c>>, t) => t[1] = "comma" /\ t[2] = c
  BY BeginsTwo
<1>7. (c # "comma" => ~Begins(<<c>>, t)) /\ ("comma" \notin X => ~Begins(<<"comma", c>>, t))
  BY <1>2, <1>4, <1>5, <1>6
<1> QED  BY <1>7 DEF t

\* A text in three parts: how it starts, words, and what comes behind them.
Main(h, ws, p) == Cat(h, Cat(FlattenSeq(ws), p))

\* Such a text, and how it gets longer.
LEMMA MainText ==
  ASSUME NEW h \in Text, NEW ws \in Seq(Text), NEW p \in Text
  PROVE  /\ Main(h, ws, p) \in Text
         /\ Len(Main(h, ws, p)) = Len(h) + Len(FlattenSeq(ws)) + Len(p)
         /\ \A i \in 1 .. Len(h) : Main(h, ws, p)[i] = h[i]
         /\ \A u \in Text : Cat(Main(h, ws, p), u) = Main(h, ws, Cat(p, u))
         /\ Main(h, ws, p) = Main(h, Append(ws, p), <<>>)
<1> DEFINE f == FlattenSeq(ws)
           m == Cat(f, p)
<1>1. f \in Text
  BY FlattenType
<1>2. Len(h) \in Nat /\ Len(f) \in Nat /\ Len(p) \in Nat
  BY <1>1, TextLen
<1>3. FlattenSeq(Append(ws, p)) = m
  BY FlattenAppend
<1> HIDE DEF f
<1>4. m \in Text /\ Len(m) = Len(f) + Len(p)
  BY <1>1, CatType
<1>5. ASSUME NEW u \in Text PROVE Cat(Cat(h, m), u) = Cat(h, Cat(f, Cat(p, u)))
  <2>1. Cat(Cat(h, m), u) = Cat(h, Cat(m, u))
    BY <1>4, CatAssoc
  <2>2. Cat(m, u) = Cat(f, Cat(p, u))
    BY <1>1, CatAssoc
  <2> QED  BY <2>1, <2>2
<1> HIDE DEF m
<1>6. /\ Cat(h, m) \in Text /\ Len(Cat(h, m)) = Len(h) + Len(m)
      /\ \A i \in 1 .. Len(h) : Cat(h, m)[i] = h[i]
  BY <1>4, CatType
<1>7. Cat(m, <<>>) = m
  BY <1>4, CatEmpty
<1>8. Main(h, ws, p) = Cat(h, m) /\ Main(h, Append(ws, p), <<>>) = Cat(h, Cat(m, <<>>))
  BY <1>3 DEF Main, m, f
<1>9. \A u : Main(h, ws, Cat(p, u)) = Cat(h, Cat(f, Cat(p, u)))
  BY DEF Main, f
<1>10. Len(Cat(h, m)) = Len(h) + Len(f) + Len(p)
  BY <1>2, <1>4, <1>6
<1>11. Main(h, ws, p) = Main(h, Append(ws, p), <<>>)
  BY <1>7, <1>8
<1>12. \A u \in Text : Cat(Main(h, ws, p), u) = Main(h, ws, Cat(p, u))
  BY <1>5, <1>8, <1>9
<1> QED  BY <1>6, <1>8, <1>10, <1>11, <1>12 DEF f

\* Without words and with nothing behind, only the start is left.
LEMMA MainStart == \A h \in Text : Main(h, <<>>, <<>>) = h
<1> SUFFICES ASSUME NEW h \in Text PROVE Main(h, <<>>, <<>>) = h
  OBVIOUS
<1>1. Cat(<<>>, <<>>) = <<>> /\ Cat(h, <<>>) = h
  BY EmptyText, CatEmpty
<1> QED  BY <1>1, FlattenEmpty DEF Main

\* A text of at least as many tokens as words, or twice as many.
LEMMA FlattenLen ==
  ASSUME NEW k \in {1, 2}, NEW ss \in Seq(Text), \A i \in DOMAIN ss : Len(ss[i]) >= k
  PROVE  Len(FlattenSeq(ss)) >= k * Len(ss)
<1> DEFINE Long(ts) == (\A i \in DOMAIN ts : Len(ts[i]) >= k)
                         => Len(FlattenSeq(ts)) >= k * Len(ts)
           S == { n \in Nat : \A ts \in Seq(Text) : Len(ts) = n => Long(ts) }
<1>1. 0 \in S
  <2> SUFFICES ASSUME NEW ts \in Seq(Text), Len(ts) = 0 PROVE Long(ts)
    OBVIOUS
  <2>1. ts = <<>>
    OBVIOUS
  <2>2. Len(FlattenSeq(ts)) = 0
    BY <2>1, FlattenEmpty
  <2> QED  BY <2>2
<1>2. ASSUME NEW n \in S PROVE n + 1 \in S
  <2> SUFFICES ASSUME NEW ts \in Seq(Text), Len(ts) = n + 1,
                      \A i \in DOMAIN ts : Len(ts[i]) >= k
               PROVE  Len(FlattenSeq(ts)) >= k * Len(ts)
    OBVIOUS
  <2> DEFINE us == SubSeq(ts, 1, n)
             w == ts[n + 1]
  <2>1. n \in Nat
    OBVIOUS
  <2>2. /\ us \in Seq(Text) /\ Len(us) = n /\ (\A i \in 1 .. n : us[i] = ts[i])
        /\ w \in Text /\ ts = Append(us, w)
    BY <2>1, FrontAndLast
  <2>3. DOMAIN ts = 1 .. n + 1 /\ DOMAIN us = 1 .. n
    BY <2>1, <2>2
  <2>4. Len(w) >= k /\ \A i \in DOMAIN us : Len(us[i]) >= k
    BY <2>1, <2>2, <2>3
  <2> HIDE DEF us, w
  <2>5. Len(FlattenSeq(us)) >= k * n
    BY <2>1, <2>2, <2>4
  <2>6. FlattenSeq(ts) = Cat(FlattenSeq(us), w) /\ FlattenSeq(us) \in Text
    BY <2>2, FlattenAppend, FlattenType
  <2> DEFINE f == FlattenSeq(us)
  <2> HIDE DEF f
  <2>7. Len(Cat(f, w)) = Len(f) + Len(w) /\ Len(f) \in Nat /\ Len(w) \in Nat
    BY <2>2, <2>6, CatType, TextLen DEF f
  <2>8. Len(FlattenSeq(ts)) = Len(f) + Len(w) /\ Len(f) >= k * n
    BY <2>5, <2>6, <2>7 DEF f
  <2>9. CASE k = 1
    BY <2>1, <2>4, <2>7, <2>8, <2>9
  <2>10. CASE k = 2
    BY <2>1, <2>4, <2>7, <2>8, <2>10
  <2> QED  BY <2>9, <2>10
<1>3. S = Nat
  <2>1. S \in SUBSET Nat
    OBVIOUS
  <2> HIDE DEF S
  <2> QED  BY <1>1, <1>2, <2>1, Upwards
<1>4. Len(ss) \in Nat
  OBVIOUS
<1> QED  BY <1>3, <1>4

\* Items have at least a token each.
LEMMA ItemsLen ==
  ASSUME NEW X \in SUBSET Tokens, NEW list \in Seq(Item(X))
  PROVE  Len(FlattenSeq(ItemWords(list))) >= Len(list)
<1> DEFINE ws == ItemWords(list)
<1>1. ws \in Seq(Text) /\ Len(ws) = Len(list) /\ FlattenSeq(ws) \in Text
  BY ItemsSeq
<1>2. \A i \in DOMAIN ws : Len(ws[i]) >= 1
  <2>1. \A y \in Item(X) : Len(ItemTokens(y)) \in Nat \ {0}
    BY ItemText
  <2>2. \A y \in Item(X) : Len(ItemTokens(y)) >= 1
    BY <2>1
  <2>3. \A i \in DOMAIN ws : list[i] \in Item(X) /\ ws[i] = ItemTokens(list[i])
    BY DEF ItemWords
  <2> QED  BY <2>2, <2>3
<1> HIDE DEF ws
<1>3. Len(FlattenSeq(ws)) >= 1 * Len(ws)
  BY <1>1, <1>2, FlattenLen
<1>4. Len(FlattenSeq(ws)) >= Len(list)
  BY <1>1, <1>3
<1> QED  BY <1>4 DEF ws

\* The concatenation of texts has the tokens of these texts.
LEMMA FlattenIn ==
  ASSUME NEW T \in SUBSET Tokens, NEW ss \in Seq(Seq(T))
  PROVE  FlattenSeq(ss) \in Seq(T)
<1> DEFINE S == { n \in Nat : \A ts \in Seq(Seq(T)) : Len(ts) = n => FlattenSeq(ts) \in Seq(T) }
<1>1. 0 \in S
  <2> SUFFICES ASSUME NEW ts \in Seq(Seq(T)), Len(ts) = 0 PROVE FlattenSeq(ts) \in Seq(T)
    OBVIOUS
  <2>1. ts = <<>> /\ <<>> \in Seq(T)
    OBVIOUS
  <2> QED  BY <2>1, FlattenEmpty
<1>2. ASSUME NEW n \in S PROVE n + 1 \in S
  <2> SUFFICES ASSUME NEW ts \in Seq(Seq(T)), Len(ts) = n + 1 PROVE FlattenSeq(ts) \in Seq(T)
    OBVIOUS
  <2> DEFINE us == SubSeq(ts, 1, n)
             w == ts[n + 1]
  <2>1. n \in Nat
    OBVIOUS
  <2>2. us \in Seq(Seq(T)) /\ Len(us) = n /\ w \in Seq(T) /\ ts = Append(us, w)
    BY <2>1, FrontAndLast
  <2> HIDE DEF us, w
  <2>3. FlattenSeq(us) \in Seq(T)
    BY <2>1, <2>2
  <2>4. Seq(T) \subseteq Text
    BY DEF Text
  <2>5. us \in Seq(Text) /\ w \in Text
    BY <2>2, <2>4
  <2>6. FlattenSeq(ts) = FlattenSeq(us) \o w
    BY <2>2, <2>5, FlattenAppend DEF Cat
  <2> QED  BY <2>2, <2>3, <2>6
<1>3. S = Nat
  <2>1. S \in SUBSET Nat
    OBVIOUS
  <2> HIDE DEF S
  <2> QED  BY <1>1, <1>2, <2>1, Upwards
<1>4. Len(ss) \in Nat
  OBVIOUS
<1> QED  BY <1>3, <1>4

\* Of two such texts with the same start, one of which begins the other.
LEMMA MainDecode ==
  ASSUME NEW h \in Text, NEW W \in SUBSET Text, PrefixFree(W),
         NEW xs \in Seq(W), NEW ys \in Seq(W),
         NEW p \in Text, NEW q \in Text, q # <<>>, \A w \in W : w[1] # q[1],
         Begins(Main(h, xs, p), Main(h, ys, q))
  PROVE  /\ Len(xs) <= Len(ys) /\ xs = SubSeq(ys, 1, Len(xs))
         /\ \/ Len(xs) = Len(ys) /\ Begins(p, q)
            \/ /\ Len(xs) < Len(ys)
               /\ \E w \in W, r \in Text : Begins(p, Cat(w, r))
<1> DEFINE x == FlattenSeq(xs)
           y == FlattenSeq(ys)
<1>1. x \in Text /\ y \in Text
  <2>1. xs \in Seq(Text) /\ ys \in Seq(Text)
    OBVIOUS
  <2> QED  BY <2>1, FlattenType
<1>2. Begins(Cat(h, Cat(x, p)), Cat(h, Cat(y, q)))
  BY DEF Main
<1> HIDE DEF x, y
<1>3. Begins(Cat(x, p), Cat(y, q))
  BY <1>1, <1>2, CatType, BeginsSame
<1>4. Begins(Cat(FlattenSeq(xs), p), Cat(FlattenSeq(ys), q))
  BY <1>3 DEF x, y
<1>5. /\ Len(xs) <= Len(ys) /\ xs = SubSeq(ys, 1, Len(xs))
      /\ \/ Len(xs) = Len(ys) /\ Begins(p, q)
         \/ /\ Len(xs) < Len(ys)
            /\ \E r \in Text : Begins(p, Cat(ys[Len(xs) + 1], r))
  BY <1>4, Decode, SMTT(30)
<1>6. Len(xs) < Len(ys) => ys[Len(xs) + 1] \in W
  OBVIOUS
<1> QED  BY <1>5, <1>6

-------------------------------------------------------------------------------
(***************************************************************************)
(* What has been read                                                      *)
(***************************************************************************)

\* The tokens that consume has moved over.
taken == Front(read)

\* The tokeniser is neither at the end nor at a character that is no token.
Live == currentToken \notin {"eof", "unsupported"}

\* No sentence of this kind starts with these tokens.
NoneBegins(kind, tokens) ==
  \A s \in Sentences : s.statement = kind => ~Begins(tokens, s.tokens)

\* What was read are the tokens moved over and the current one.
LEMMA ReadParts ==
  ASSUME TypeInv
  PROVE  /\ read \in Text /\ taken \in Text
         /\ currentToken \in Tokens /\ <<currentToken>> \in Text
         /\ read = Cat(taken, <<currentToken>>)
         /\ Len(read) = Len(taken) + 1 /\ Len(taken) <= MaxTokens
<1>1. read \in Seq(Tokens) /\ Len(read) \in 1 .. MaxTokens + 1 /\ MaxTokens \in Nat
  <2>1. MaxTokens \in Nat
    BY ParserAssumption
  <2> QED  BY <2>1 DEF TypeInv, TypeOK
<1> DEFINE n == Len(read) - 1
<1>2. n \in Nat /\ Len(read) = n + 1 /\ n <= MaxTokens
  BY <1>1
<1> HIDE DEF n
<1>3. /\ SubSeq(read, 1, n) \in Seq(Tokens) /\ Len(SubSeq(read, 1, n)) = n
      /\ read[n + 1] \in Tokens /\ read = Append(SubSeq(read, 1, n), read[n + 1])
  BY <1>1, <1>2, FrontAndLast
<1>4. taken = SubSeq(read, 1, n) /\ currentToken = read[n + 1]
  BY <1>2 DEF taken, Front, currentToken, n
<1>5. read = Append(taken, currentToken) /\ <<currentToken>> \in Seq(Tokens)
  BY <1>3, <1>4
<1>6. Append(taken, currentToken) = taken \o <<currentToken>>
  BY <1>3, <1>4, AppendIsConcat
<1> QED  BY <1>1, <1>2, <1>3, <1>4, <1>5, <1>6 DEF Text, Cat

\* A consume moves over the current token.
LEMMA ConsumeReads ==
  ASSUME TypeInv, Live, Advance
  PROVE  taken' = read /\ (Len(read) >= MaxTokens => ~Live')
<1>1. /\ read \in Seq(Tokens) /\ Len(read) \in Nat /\ MaxTokens \in Nat
      /\ Len(read) = MaxTokens + 1 => ~Live
      /\ Len(read) <= MaxTokens + 1
  <2>1. MaxTokens \in Nat
    BY ParserAssumption
  <2>2. read \in Seq(Tokens) /\ Len(read) \in 1 .. MaxTokens + 1
        /\ (Len(read) = MaxTokens + 1 => currentToken = "eof")
    BY DEF TypeInv, TypeOK
  <2> QED  BY <2>1, <2>2 DEF Live
<1>2. PICK token \in Tokens : read' = Append(read, token)
  BY AdvanceReads DEF Live
<1>3. Len(read') = Len(read) + 1 /\ SubSeq(read', 1, Len(read)) = read
  BY <1>1, <1>2
<1>4. taken' = read
  <2>1. Len(read) \in Nat /\ Len(read') = Len(read) + 1
    BY <1>1, <1>3
  <2>2. Len(read') - 1 = Len(read)
    BY <2>1
  <2> QED  BY <1>3, <2>2 DEF taken, Front
<1>5. Len(read') = MaxTokens + 1 => read'[Len(read')] = "eof"
  BY AdvanceReads
<1>6. Len(read) >= MaxTokens => Len(read') = MaxTokens + 1
  <2>1. Len(read) # MaxTokens + 1 /\ Len(read) <= MaxTokens + 1
        /\ Len(read) \in Nat /\ MaxTokens \in Nat /\ Len(read') = Len(read) + 1
    BY <1>1, <1>3
  <2> QED  BY <2>1
<1> QED  BY <1>4, <1>5, <1>6 DEF Live, currentToken

\* The token behind a beginning.
LEMMA BeginsNext ==
  ASSUME NEW a \in Text, NEW c \in Tokens, NEW t \in Text, Begins(Cat(a, <<c>>), t)
  PROVE  t[Len(a) + 1] = c
<1> DEFINE b == <<c>>
           x == Cat(a, b)
<1>1. b \in Text /\ Len(b) = 1 /\ b[1] = c
  BY DEF Text
<1> HIDE DEF b
<1>2. Len(x) = Len(a) + Len(b) /\ \A i \in 1 .. Len(b) : x[Len(a) + i] = b[i]
  BY <1>1, CatType
<1>3. Len(a) \in Nat
  BY TextLen
<1>4. Begins(x, t)
  BY DEF b
<1> HIDE DEF x
<1>5. Len(a) + 1 \in 1 .. Len(x) /\ x[Len(a) + 1] = c
  BY <1>1, <1>2, <1>3
<1> QED  BY <1>4, <1>5 DEF Begins

\* The lists of the language are the sequences of a bounded length.
LEMMA ListsAre ==
  ASSUME NEW S, NEW n \in Nat
  PROVE  \A l : l \in Lists(S, n) <=> l \in Seq(S) /\ Len(l) <= n
<1>1. ASSUME NEW l \in Lists(S, n) PROVE l \in Seq(S) /\ Len(l) <= n
  <2>1. PICK m \in 0 .. n : l \in [1 .. m -> S]
    BY DEF Lists
  <2>2. m \in Nat /\ l \in Seq(S) /\ Len(l) = m
    BY <2>1
  <2> QED  BY <2>1, <2>2
<1>2. ASSUME NEW l \in Seq(S), Len(l) <= n PROVE l \in Lists(S, n)
  <2>1. Len(l) \in 0 .. n /\ l \in [1 .. Len(l) -> S]
    BY <1>2
  <2> QED  BY <2>1 DEF Lists
<1> QED  BY <1>1, <1>2

\* A beginning of a sentence, as the property counts them.
LEMMA BeginningBegins ==
  ASSUME NEW kind, NEW tokens, <<kind, tokens>> \in Beginnings,
         \A s \in Sentences : s.tokens \in Text
  PROVE  ~NoneBegins(kind, tokens)
<1>1. PICK n \in 1 .. MaxTokens, s \in Sentences :
        <<kind, tokens>> = <<s.statement, SubSeq(s.tokens, 1, Min({n, Len(s.tokens)}))>>
  BY SMTT(30) DEF Beginnings
<1> DEFINE t == s.tokens
           m == Min({n, Len(t)})
<1>2. t \in Text /\ Len(t) \in Nat /\ n \in Nat
  BY TextLen, ParserAssumption
<1> HIDE DEF t
<1>3. m \in {n, Len(t)} /\ m <= Len(t)
  <2>1. \E x \in {n, Len(t)} : \A y \in {n, Len(t)} : x <= y
    <3>1. CASE n <= Len(t)
      BY <1>2, <3>1
    <3>2. CASE Len(t) <= n
      BY <1>2, <3>2
    <3> QED  BY <1>2, <3>1, <3>2
  <2> QED  BY <2>1 DEF Min
<1>4. m \in Nat /\ m <= Len(t)
  BY <1>2, <1>3
<1> HIDE DEF m
<1>5. kind = s.statement /\ tokens = SubSeq(t, 1, m)
  BY <1>1 DEF t, m
<1>6. Len(tokens) = m /\ \A i \in 1 .. m : tokens[i] = t[i]
  BY <1>2, <1>4, <1>5 DEF Text
<1>7. Begins(tokens, t)
  BY <1>4, <1>6 DEF Begins
<1> QED  BY <1>5, <1>7 DEF NoneBegins, t

\* Each kind of sentence is what its name says.
LEMMA SentenceKinds ==
  /\ \A s \in InsertSentences : s.statement = "INSERT"
  /\ \A s \in CreateSentences : s.statement = "CREATE"
  /\ \A s \in SelectSentences : s.statement = "SELECT"
<1>1. /\ \A tb, list : InsertSentence(tb, list).statement = "INSERT"
      /\ \A tb, list : CreateSentence(tb, list).statement = "CREATE"
      /\ \A tb, list, conds : SelectSentence(tb, list, conds).statement = "SELECT"
  BY DEF InsertSentence, CreateSentence, SelectSentence, Sentence
<1>2. \A s \in InsertSentences : s.statement = "INSERT"
  BY <1>1 DEF InsertSentences
<1>3. \A s \in CreateSentences : s.statement = "CREATE"
  BY <1>1 DEF CreateSentences
<1>4. \A s \in SelectSentences : s.statement = "SELECT"
  BY <1>1 DEF SelectSentences
<1> QED  BY <1>2, <1>3, <1>4

-------------------------------------------------------------------------------
(***************************************************************************)
(* INSERT                                                                  *)
(***************************************************************************)

\* What stands in front of a row.
InsertHead(tb) == <<"INSERT", "INTO", tb, "VALUES", "open">>

\* The tokens up to the row, place by place.
InsertStart(place, tb, text) ==
  \/ place = "INSERT" /\ text = <<>>
  \/ place = "INTO" /\ text = <<"INSERT">>
  \/ place = "insertName" /\ text = <<"INSERT", "INTO">>
  \/ place = "VALUES" /\ tb \in Idents /\ text = <<"INSERT", "INTO", tb>>
  \/ place = "insertOpen" /\ tb \in Idents /\ text = <<"INSERT", "INTO", tb, "VALUES">>

\* The part of a value that has been read at a place of the row, or its end.
RowPlace(place, token, part) ==
  \/ place = "row" /\ part = <<>>
  \/ place = "valueComma" /\ part = <<>> /\ token = "comma"
  \/ place = "value" /\ part = Commas(TRUE)
  \/ place = "value" /\ part = Commas(FALSE) /\ token # "comma" /\ token # "close"
  \/ place = "insertClose" /\ part = <<>> /\ token = "close"
  \/ place = "accepted" /\ part = <<"close">>

\* The values that have been read, and the part behind them.
InsertRow(list, part) ==
  /\ taken = Main(InsertHead(tableName), ItemWords(list), part)
  /\ items = NamesOf(list)
  /\ RowPlace(pc, currentToken, part)

\* What an INSERT has read, and what it has made of it.
InsertForm ==
  /\ statement = "INSERT" /\ pkColumn = Unset /\ conditions = <<>>
  /\ \/ InsertStart(pc, tableName, taken) /\ items = <<>>
     \/ /\ tableName \in Idents
        /\ \E list \in Seq(Item(Idents)), part \in Text : InsertRow(list, part)

\* The tokens around a row.
LEMMA InsertWords ==
  /\ Idents \in SUBSET Tokens /\ "INSERT" \in Tokens /\ "INTO" \in Tokens
  /\ "VALUES" \in Tokens /\ "open" \in Tokens /\ "close" \in Tokens /\ "comma" \in Tokens
  /\ "comma" \notin Idents /\ "close" \notin Idents /\ Idents \subseteq Identifiers
  /\ <<"close">> \in Text /\ <<"close">> # <<>> /\ <<"close">>[1] = "close"
<1>1. /\ Idents \in SUBSET Tokens /\ "INSERT" \in Tokens /\ "INTO" \in Tokens
      /\ "VALUES" \in Tokens /\ "open" \in Tokens /\ "close" \in Tokens /\ "comma" \in Tokens
      /\ "comma" \notin Idents /\ "close" \notin Idents /\ Idents \subseteq Identifiers
  BY NamesApart DEF Keywords, Symbols
<1>2. <<"close">> \in Text
  BY <1>1, OneToken
<1>3. <<"close">> # <<>> /\ <<"close">>[1] = "close"
  OBVIOUS
<1> QED  BY <1>1, <1>2, <1>3

\* The tokens in front of a row.
LEMMA InsertHeadIs ==
  ASSUME NEW tb \in Idents
  PROVE  /\ InsertHead(tb) \in Text /\ Len(InsertHead(tb)) = 5
         /\ InsertHead(tb)[1] = "INSERT" /\ InsertHead(tb)[2] = "INTO"
         /\ InsertHead(tb)[3] = tb /\ InsertHead(tb)[4] = "VALUES"
         /\ InsertHead(tb)[5] = "open"
<1>1. tb \in Tokens
  BY InsertWords
<1>2. InsertHead(tb) \in Text
  BY <1>1, InsertWords, FiveTokens DEF InsertHead
<1>3. /\ Len(InsertHead(tb)) = 5
      /\ InsertHead(tb)[1] = "INSERT" /\ InsertHead(tb)[2] = "INTO"
      /\ InsertHead(tb)[3] = tb /\ InsertHead(tb)[4] = "VALUES"
      /\ InsertHead(tb)[5] = "open"
  BY DEF InsertHead
<1> QED  BY <1>2, <1>3

\* An INSERT sentence in its three parts.
LEMMA InsertSentenceOf ==
  ASSUME NEW tb \in Idents, NEW list \in Seq(Item(Idents))
  PROVE  InsertSentence(tb, list)
           = Sentence("INSERT", Main(InsertHead(tb), ItemWords(list), <<"close">>), tb,
                      NamesOf(list), Unset, <<>>)
<1> DEFINE f == FlattenSeq(ItemWords(list))
           t == Cat(Cat(InsertHead(tb), f), <<"close">>)
<1>1. InsertSentence(tb, list) = Sentence("INSERT", t, tb, NamesOf(list), Unset, <<>>)
  BY Zenon DEF InsertSentence, Cat, InsertHead, ItemWords
<1>2. InsertHead(tb) \in Text /\ <<"close">> \in Text
  BY InsertHeadIs, InsertWords
<1>3. f \in Text
  BY InsertWords, ItemsSeq
<1> HIDE DEF f
<1>4. t = Cat(InsertHead(tb), Cat(f, <<"close">>))
  BY <1>2, <1>3, CatAssoc
<1>5. t = Main(InsertHead(tb), ItemWords(list), <<"close">>)
  BY <1>4, Zenon DEF Main, f
<1> HIDE DEF t
<1> QED  BY <1>1, <1>5

\* How the INSERT sentences are written.
LEMMA InsertSentenceIs ==
  ASSUME NEW s \in Sentences, s.statement = "INSERT"
  PROVE  /\ s.tokens \in Text
         /\ \E tb \in Idents, list \in Seq(Item(Idents)) :
              s.tokens = Main(InsertHead(tb), ItemWords(list), <<"close">>)
<1>1. s \in InsertSentences
  <2>1. "INSERT" # "CREATE" /\ "INSERT" # "SELECT"
    OBVIOUS
  <2> QED  BY <2>1, SentenceKinds, Zenon DEF Sentences, SoundCreateSentences
<1>2. PICK tb \in Idents, list \in Lists(Item(Idents), MaxItems) :
        s = InsertSentence(tb, list)
  BY <1>1 DEF InsertSentences
<1>3. list \in Seq(Item(Idents))
  BY ListsAre, ParserAssumption
<1>4. s.tokens = Main(InsertHead(tb), ItemWords(list), <<"close">>)
  BY <1>2, <1>3, InsertSentenceOf DEF Sentence
<1>5. InsertHead(tb) \in Text /\ <<"close">> \in Text
  BY InsertHeadIs, InsertWords
<1>6. ItemWords(list) \in Seq(Text)
  BY <1>3, InsertWords, ItemsSeq
<1>7. s.tokens \in Text
  BY <1>4, <1>5, <1>6, MainText
<1> QED  BY <1>3, <1>4, <1>7

\* A row so far, with one more token behind it, begins an INSERT sentence only
\* where that token goes on with a value, or ends the row.
LEMMA InsertGoesOn ==
  ASSUME NEW s \in Sentences, s.statement = "INSERT", NEW tb \in Idents,
         NEW list \in Seq(Item(Idents)), NEW p \in Text,
         Begins(Main(InsertHead(tb), ItemWords(list), p), s.tokens)
  PROVE  \/ Begins(p, <<"close">>)
         \/ \E w \in ItemCode(Idents), r \in Text : Begins(p, Cat(w, r))
<1>1. PICK tb2 \in Idents, list2 \in Seq(Item(Idents)) :
        s.tokens = Main(InsertHead(tb2), ItemWords(list2), <<"close">>)
  BY InsertSentenceIs
<1> DEFINE h == InsertHead(tb)
           h2 == InsertHead(tb2)
           W == ItemCode(Idents)
           xs == ItemWords(list)
           ys == ItemWords(list2)
           q == <<"close">>
           x == Main(h, xs, p)
           y == Main(h2, ys, q)
<1>2. /\ h \in Text /\ Len(h) = 5 /\ h[3] = tb
      /\ h2 \in Text /\ Len(h2) = 5 /\ h2[3] = tb2
  BY InsertHeadIs
<1>3. Idents \in SUBSET Tokens /\ "comma" \notin Idents
  BY InsertWords
<1>4. W \in SUBSET Text /\ PrefixFree(W)
  BY <1>3, ItemsPrefixFree
<1>5. xs \in Seq(W) /\ ys \in Seq(W) /\ xs \in Seq(Text) /\ ys \in Seq(Text)
  BY <1>3, ItemsSeq
<1>6. q \in Text /\ q # <<>> /\ q[1] = "close"
  BY InsertWords, Zenon
<1>7. \A w \in W : w[1] # q[1]
  <2> SUFFICES ASSUME NEW z \in Item(Idents) PROVE ItemTokens(z)[1] # "close"
    BY <1>6 DEF ItemCode
  <2>1. ItemTokens(z)[1] = "comma" \/ (ItemTokens(z)[1] = z.name /\ z.name \in Idents)
    BY <1>3, ItemText
  <2>2. "comma" # "close"
    OBVIOUS
  <2> QED  BY <2>1, <2>2, <1>6, InsertWords
<1>8. Begins(x, y)
  BY <1>1
<1> HIDE DEF h, h2, W, xs, ys, q
<1>9. /\ x \in Text /\ (\A i \in 1 .. Len(h) : x[i] = h[i])
      /\ Len(x) = Len(h) + Len(FlattenSeq(xs)) + Len(p)
  BY <1>2, <1>5, MainText, ZenonT(40)
<1>10. \A i \in 1 .. Len(h2) : y[i] = h2[i]
  BY <1>2, <1>5, <1>6, MainText
<1>11. Len(FlattenSeq(xs)) \in Nat /\ Len(p) \in Nat
  BY <1>5, FlattenType, TextLen
<1>12. tb2 = tb
  <2> HIDE DEF x, y
  <2>1. 3 \in 1 .. Len(x) /\ 3 \in 1 .. Len(h) /\ 3 \in 1 .. Len(h2)
    BY <1>2, <1>9, <1>11
  <2>2. y[3] = x[3]
    BY <1>8, <2>1 DEF Begins
  <2> QED  BY <1>2, <1>9, <1>10, <2>1, <2>2
<1>13. h2 = h
  BY <1>12 DEF h, h2
<1>14. Begins(Main(h, xs, p), Main(h, ys, q))
  BY <1>8, <1>13
<1>15. Begins(p, q) \/ \E w \in W, r \in Text : Begins(p, Cat(w, r))
  <2> HIDE DEF x, y
  <2> q # <<>> /\ h \in Text /\ q \in Text
    BY <1>2, <1>6
  <2> QED  BY <1>4, <1>5, <1>7, <1>14, MainDecode, SMTT(30)
<1> QED  BY <1>15 DEF W, q

\* Where an INSERT sentence is the same up to its row.
LEMMA InsertSentenceStart ==
  ASSUME NEW s \in Sentences, s.statement = "INSERT"
  PROVE  /\ s.tokens[1] = "INSERT" /\ s.tokens[2] = "INTO" /\ s.tokens[3] \in Idents
         /\ s.tokens[4] = "VALUES" /\ s.tokens[5] = "open"
<1>1. PICK tb \in Idents, list \in Seq(Item(Idents)) :
        s.tokens = Main(InsertHead(tb), ItemWords(list), <<"close">>)
  BY InsertSentenceIs
<1> DEFINE h == InsertHead(tb)
           t == s.tokens
<1>2. h \in Text /\ Len(h) = 5 /\ h[1] = "INSERT" /\ h[2] = "INTO" /\ h[3] = tb
      /\ h[4] = "VALUES" /\ h[5] = "open"
  BY InsertHeadIs
<1>3. <<"close">> \in Text /\ ItemWords(list) \in Seq(Text)
  BY InsertWords, ItemsSeq
<1>4. t = Main(h, ItemWords(list), <<"close">>)
  BY <1>1
<1> HIDE DEF h, t
<1>5. \A i \in 1 .. Len(h) : t[i] = h[i]
  BY <1>2, <1>3, <1>4, MainText
<1>6. t[1] = h[1] /\ t[2] = h[2] /\ t[3] = h[3] /\ t[4] = h[4] /\ t[5] = h[5]
  BY <1>2, <1>5
<1>7. t[1] = "INSERT" /\ t[2] = "INTO" /\ t[3] \in Idents /\ t[4] = "VALUES" /\ t[5] = "open"
  BY <1>2, <1>6
<1> QED  BY <1>7 DEF t

\* At a token that is not the expected one, no INSERT sentence goes on.
LEMMA InsertRejects ==
  ASSUME TypeInv, InsertForm, Live, pc \in ConsumePcs, currentToken \notin Expected[pc]
  PROVE  NoneBegins("INSERT", read)
<1> SUFFICES ASSUME NEW s \in Sentences, s.statement = "INSERT", Begins(read, s.tokens)
             PROVE  FALSE
  BY DEF NoneBegins
<1> DEFINE cur == currentToken
           t == s.tokens
<1>1. taken \in Text /\ cur \in Tokens /\ <<cur>> \in Text /\ read = Cat(taken, <<cur>>)
  BY ReadParts
<1>2. t \in Text
  BY InsertSentenceIs
<1>3. t[1] = "INSERT" /\ t[2] = "INTO" /\ t[3] \in Idents /\ t[4] = "VALUES" /\ t[5] = "open"
  BY InsertSentenceStart
<1>4. cur \notin Expected[pc]
  OBVIOUS
<1> HIDE DEF t
<1>5. t[Len(taken) + 1] = cur
  BY <1>1, <1>2, BeginsNext DEF t
<1> HIDE DEF cur
<1>6. CASE InsertStart(pc, tableName, taken)
  <2>1. ASSUME pc = "INSERT", taken = <<>> PROVE FALSE
    <3>1. cur = t[1]
      BY <1>5, <2>1
    <3> QED  BY <1>3, <1>4, <2>1, <3>1, ExpectedAt
  <2>2. ASSUME pc = "INTO", taken = <<"INSERT">> PROVE FALSE
    <3>1. cur = t[2]
      BY <1>5, <2>2
    <3> QED  BY <1>3, <1>4, <2>2, <3>1, ExpectedAt
  <2>3. ASSUME pc = "insertName", taken = <<"INSERT", "INTO">> PROVE FALSE
    <3>1. cur = t[3]
      BY <1>5, <2>3
    <3> QED  BY <1>3, <1>4, <2>3, <3>1, ExpectedAt, InsertWords
  <2>4. ASSUME pc = "VALUES", taken = <<"INSERT", "INTO", tableName>> PROVE FALSE
    <3>1. cur = t[4]
      BY <1>5, <2>4
    <3> QED  BY <1>3, <1>4, <2>4, <3>1, ExpectedAt
  <2>5. ASSUME pc = "insertOpen", taken = <<"INSERT", "INTO", tableName, "VALUES">>
        PROVE  FALSE
    <3>1. cur = t[5]
      BY <1>5, <2>5
    <3> QED  BY <1>3, <1>4, <2>5, <3>1, ExpectedAt
  <2> QED  BY <1>6, <2>1, <2>2, <2>3, <2>4, <2>5 DEF InsertStart
<1>7. ASSUME tableName \in Idents,
             NEW list \in Seq(Item(Idents)), NEW part \in Text, InsertRow(list, part)
      PROVE  FALSE
  <2> DEFINE p == Cat(part, <<cur>>)
  <2>1. taken = Main(InsertHead(tableName), ItemWords(list), part)
        /\ RowPlace(pc, cur, part)
    BY <1>7 DEF InsertRow, cur
  <2>2. /\ pc = "value" /\ cur \notin Idents
        /\ \/ part = Commas(TRUE)
           \/ part = Commas(FALSE) /\ cur # "comma" /\ cur # "close"
    <3>1. pc # "row" /\ pc # "accepted"
      BY Places
    <3>2. cur = "comma" => pc # "valueComma"
      BY <1>4, ExpectedAt
    <3>3. cur = "close" => pc # "insertClose"
      BY <1>4, ExpectedAt
    <3>4. pc = "value" => cur \notin Idents
      BY <1>4, ExpectedAt, InsertWords
    <3> QED  BY <2>1, <3>1, <3>2, <3>3, <3>4 DEF RowPlace
  <2>3. InsertHead(tableName) \in Text /\ ItemWords(list) \in Seq(Text)
    BY <1>7, InsertHeadIs, InsertWords, ItemsSeq
  <2>4. read = Main(InsertHead(tableName), ItemWords(list), p)
    BY <1>1, <2>1, <2>3, MainText
  <2>5. p \in Text
    BY <1>1, CatType
  <2> HIDE DEF p
  <2>6. \/ Begins(p, <<"close">>)
        \/ \E w \in ItemCode(Idents), r \in Text : Begins(p, Cat(w, r))
    BY <1>7, <2>4, <2>5, InsertGoesOn
  <2>7. cur \in Tokens \ Idents /\ Idents \in SUBSET Tokens /\ "comma" \notin Idents
    BY <1>1, <2>2, InsertWords
  <2>8. CASE part = Commas(TRUE)
    <3>1. p = <<"comma", cur>>
      BY <1>1, <2>8, InsertWords, TwoTokens DEF p, Commas
    <3>2. \A w \in ItemCode(Idents), r \in Text : ~Begins(p, Cat(w, r))
      BY <2>7, <3>1, NoItem
    <3>3. Begins(p, <<"close">>) => <<"close">>[1] = "comma"
      BY <3>1, BeginsTwo
    <3>4. "close" # "comma"
      OBVIOUS
    <3> QED  BY <2>6, <3>2, <3>3, <3>4, InsertWords
  <2>9. CASE part = Commas(FALSE) /\ cur # "comma" /\ cur # "close"
    <3>1. p = <<cur>>
      BY <1>1, <2>9, OneToken DEF p, Commas
    <3>2. \A w \in ItemCode(Idents), r \in Text : ~Begins(p, Cat(w, r))
      BY <2>7, <2>9, <3>1, NoItem
    <3>3. Begins(p, <<"close">>) => <<"close">>[1] = cur
      BY <3>1, BeginsOne
    <3> QED  BY <2>6, <2>9, <3>2, <3>3, InsertWords
  <2> QED  BY <2>2, <2>8, <2>9
<1> QED  BY <1>6, <1>7 DEF InsertForm

\* An INSERT begins with nothing read.
LEMMA InsertBegins == ASSUME Init, statement = "INSERT" PROVE InsertForm
<1>1. PICK token \in Tokens : read = <<token>>
  BY DEF Init
<1>2. Len(read) = 1
  BY <1>1
<1>3. taken = SubSeq(read, 1, 0)
  BY <1>2 DEF taken, Front
<1>4. taken = <<>>
  BY <1>3, SubSeqEmpty
<1>5. pc = "INSERT" /\ items = <<>> /\ pkColumn = Unset /\ conditions = <<>>
  BY DEF Init
<1> QED  BY <1>4, <1>5 DEF InsertForm, InsertStart

\* A branch of the loop looks at the current token only.
LEMMA InsertBranches ==
  ASSUME InsertForm, Branch
  PROVE  InsertForm'
<1>1. pc \in BranchPcs
  BY DEF Branch
<1>2. PICK list \in Seq(Item(Idents)), part \in Text : InsertRow(list, part)
  <2>1. ~InsertStart(pc, tableName, taken)
    BY <1>1 DEF InsertStart, BranchPcs
  <2> QED  BY <2>1 DEF InsertForm
<1>3. pc = "row" /\ part = <<>>
  BY <1>1, <1>2 DEF InsertRow, RowPlace, BranchPcs
<1>4. pc' = AtRow /\ UNCHANGED <<read, statement, tableName, items, pkColumn, conditions>>
  BY <1>3 DEF Branch
<1>5. taken' = taken /\ currentToken' = currentToken
  BY <1>4 DEF taken, currentToken
<1>6. RowPlace(pc', currentToken, part)
  BY <1>3, <1>4 DEF AtRow, RowPlace, Commas
<1>7. InsertRow(list, part)'
  BY <1>2, <1>4, <1>5, <1>6 DEF InsertRow
<1>8. tableName \in Idents
  BY <1>3 DEF InsertForm, InsertStart
<1> QED  BY <1>2, <1>4, <1>7, <1>8 DEF InsertForm

\* What a consume leaves in the syntax tree.
LEMMA ConsumeKeeps ==
  ASSUME Consume
  PROVE  /\ pc \in ConsumePcs /\ currentToken \in Expected[pc] /\ statement' = statement
         /\ Advance
         /\ pc # "columnType" => pc' = Following[pc]
         /\ pc \notin {"createName", "insertName", "selectName"} => tableName' = tableName
         /\ pc \in {"createName", "insertName", "selectName"} => tableName' = currentToken
         /\ pc \notin {"columnName", "value", "field"} => items' = items
         /\ pc \in {"columnName", "value", "field"} => items' = Appended(items, currentToken)
         /\ pc # "pkName" => pkColumn' = pkColumn
         /\ pc = "pkName" => pkColumn' = currentToken
         /\ pc \notin {"condColumn", "condValue"} => conditions' = conditions
<1>1. Recorded
  BY DEF Consume
<1>2. /\ pc \notin {"createName", "insertName", "selectName"} => tableName' = tableName
      /\ pc \in {"createName", "insertName", "selectName"} => tableName' = currentToken
      /\ pc \notin {"columnName", "value", "field"} => items' = items
      /\ pc \in {"columnName", "value", "field"} => items' = Appended(items, currentToken)
      /\ pc # "pkName" => pkColumn' = pkColumn
      /\ pc = "pkName" => pkColumn' = currentToken
      /\ pc \notin {"condColumn", "condValue"} => conditions' = conditions
  BY <1>1 DEF Recorded
<1>3. /\ pc \in ConsumePcs /\ currentToken \in Expected[pc] /\ statement' = statement /\ Advance
      /\ pc # "columnType" => pc' = Following[pc]
  BY DEF Consume
<1> QED  BY <1>2, <1>3

\* A consume leaves the name or value in its place.  A value that no longer fits
\* is the last token of the input.
LEMMA InsertConsumes ==
  ASSUME TypeInv, InsertForm, Live, Consume
  PROVE  InsertForm' \/ (~Live' /\ pc' # "accepted")
<1> DEFINE cur == currentToken
<1>1. /\ taken \in Text /\ cur \in Tokens /\ <<cur>> \in Text /\ read = Cat(taken, <<cur>>)
      /\ Len(read) = Len(taken) + 1
  BY ReadParts
<1>2. pc \in ConsumePcs /\ cur \in Expected[pc] /\ statement' = statement
  BY ConsumeKeeps
<1>3. taken' = Cat(taken, <<cur>>) /\ (Len(read) >= MaxTokens => ~Live')
  BY <1>1, ConsumeReads, ConsumeKeeps
<1>4. cur \in Identifiers => cur \in Idents
  BY NamesApart DEF Live
<1>5. statement = "INSERT" /\ pkColumn = Unset /\ conditions = <<>>
  BY DEF InsertForm
<1>6. CASE InsertStart(pc, tableName, taken) /\ items = <<>>
  <2>1. UNCHANGED <<pkColumn, conditions, items>>
        /\ (pc # "insertName" => tableName' = tableName)
        /\ (pc = "insertName" => tableName' = cur)
        /\ pc' = Following[pc]
    <3>1. pc \in {"INSERT", "INTO", "insertName", "VALUES", "insertOpen"}
      BY <1>6 DEF InsertStart
    <3> QED  BY <3>1, ConsumeKeeps
  <2> HIDE DEF cur
  <2>2. ASSUME pc = "INSERT", taken = <<>> PROVE InsertForm'
    <3>1. cur = "INSERT" /\ pc' = "INTO"
      BY <1>2, <2>1, <2>2, ExpectedAt, FollowingAt
    <3>2. taken' = <<"INSERT">>
      BY <1>1, <1>3, <2>2, <3>1, OneToken
    <3>3. InsertStart(pc, tableName, taken)'
      BY <3>1, <3>2 DEF InsertStart
    <3> QED  BY <1>2, <1>5, <1>6, <2>1, <3>3 DEF InsertForm
  <2>3. ASSUME pc = "INTO", taken = <<"INSERT">> PROVE InsertForm'
    <3>1. cur = "INTO" /\ pc' = "insertName"
      BY <1>2, <2>1, <2>3, ExpectedAt, FollowingAt
    <3>2. taken' = <<"INSERT", "INTO">>
      BY <1>3, <2>3, <3>1, InsertWords, TwoTokens
    <3>3. InsertStart(pc, tableName, taken)'
      BY <3>1, <3>2 DEF InsertStart
    <3> QED  BY <1>2, <1>5, <1>6, <2>1, <3>3 DEF InsertForm
  <2>4. ASSUME pc = "insertName", taken = <<"INSERT", "INTO">> PROVE InsertForm'
    <3>1. cur \in Idents /\ pc' = "VALUES" /\ tableName' = cur
      BY <1>2, <1>4, <2>1, <2>4, ExpectedAt, FollowingAt
    <3>2. taken' = <<"INSERT", "INTO", cur>>
      BY <1>1, <1>3, <2>4, InsertWords, ThreeTokens
    <3>3. InsertStart(pc, tableName, taken)'
      BY <3>1, <3>2 DEF InsertStart
    <3> QED  BY <1>2, <1>5, <1>6, <2>1, <3>3 DEF InsertForm
  <2>5. ASSUME pc = "VALUES", tableName \in Idents, taken = <<"INSERT", "INTO", tableName>>
        PROVE  InsertForm'
    <3>1. cur = "VALUES" /\ pc' = "insertOpen" /\ tableName' = tableName
      BY <1>2, <2>1, <2>5, ExpectedAt, FollowingAt
    <3>2. taken' = <<"INSERT", "INTO", tableName, "VALUES">>
      <4>1. /\ "INSERT" \in Tokens /\ "INTO" \in Tokens /\ tableName \in Tokens
            /\ "VALUES" \in Tokens
        BY <2>5, InsertWords
      <4>2. Cat(<<"INSERT", "INTO", tableName>>, <<"VALUES">>)
              = <<"INSERT", "INTO", tableName, "VALUES">>
        BY CatThree
      <4> QED  BY <1>3, <2>5, <3>1, <4>2
    <3>3. InsertStart(pc, tableName, taken)'
      BY <2>5, <3>1, <3>2 DEF InsertStart
    <3> QED  BY <1>2, <1>5, <1>6, <2>1, <3>3 DEF InsertForm
  <2>6. ASSUME pc = "insertOpen", tableName \in Idents,
               taken = <<"INSERT", "INTO", tableName, "VALUES">>
        PROVE  InsertForm'
    <3>1. cur = "open" /\ pc' = "row" /\ tableName' = tableName
      BY <1>2, <2>1, <2>6, ExpectedAt, FollowingAt
    <3>2. taken' = InsertHead(tableName)
      <4>1. /\ "INSERT" \in Tokens /\ "INTO" \in Tokens /\ tableName \in Tokens
            /\ "VALUES" \in Tokens /\ "open" \in Tokens
        BY <2>6, InsertWords
      <4>2. Cat(<<"INSERT", "INTO", tableName, "VALUES">>, <<"open">>)
              = <<"INSERT", "INTO", tableName, "VALUES", "open">>
        BY CatFour
      <4> QED  BY <1>3, <2>6, <3>1, <4>2 DEF InsertHead
    <3>3. ItemWords(<<>>) = <<>> /\ NamesOf(<<>>) = <<>> /\ <<>> \in Seq(Item(Idents))
      BY DEF ItemWords, NamesOf
    <3>4. Main(InsertHead(tableName), <<>>, <<>>) = InsertHead(tableName)
      BY <2>6, InsertHeadIs, MainStart
    <3>5. RowPlace(pc', currentToken', <<>>)
      BY <3>1 DEF RowPlace
    <3>6. InsertRow(<<>>, <<>>)'
      BY <1>6, <2>1, <3>1, <3>2, <3>3, <3>4, <3>5 DEF InsertRow
    <3>7. tableName' \in Idents /\ <<>> \in Text
      BY <2>6, <3>1, EmptyText
    <3> QED  BY <1>2, <1>5, <2>1, <3>3, <3>6, <3>7 DEF InsertForm
  <2> QED  BY <1>6, <2>2, <2>3, <2>4, <2>5, <2>6 DEF InsertStart
<1>7. ASSUME tableName \in Idents,
             NEW list \in Seq(Item(Idents)), NEW part \in Text, InsertRow(list, part)
      PROVE  InsertForm' \/ (~Live' /\ pc' # "accepted")
  <2> DEFINE h == InsertHead(tableName)
             p == Cat(part, <<cur>>)
  <2>1. taken = Main(h, ItemWords(list), part) /\ items = NamesOf(list)
        /\ RowPlace(pc, cur, part)
    BY <1>7 DEF InsertRow
  <2>2. pc \in {"valueComma", "value", "insertClose"}
    BY <1>2, <2>1, Places DEF RowPlace
  <2>3. h \in Text /\ Len(h) = 5 /\ ItemWords(list) \in Seq(Text)
    BY <1>7, InsertHeadIs, InsertWords, ItemsSeq
  <2>4. taken' = Main(h, ItemWords(list), p)
    BY <1>1, <1>3, <2>1, <2>3, MainText
  <2>5. p \in Text
    BY <1>1, CatType
  <2>6. UNCHANGED <<statement, tableName, pkColumn, conditions>> /\ pc' = Following[pc]
        /\ (pc = "value" => items' = Appended(items, cur))
        /\ (pc # "value" => items' = items)
    BY <2>2, ConsumeKeeps
  <2> HIDE DEF p, cur
  <2>7. ASSUME NEW l \in Seq(Item(Idents)), NEW q \in Text,
               taken' = Main(h, ItemWords(l), q), items' = NamesOf(l),
               RowPlace(pc', currentToken', q)
        PROVE  InsertForm'
    <3>1. InsertRow(l, q)'
      BY <2>6, <2>7 DEF InsertRow
    <3> QED  BY <1>5, <1>7, <2>6, <3>1 DEF InsertForm
  <2> HIDE DEF h
  <2>8. CASE pc = "valueComma"
    <3>1. cur = "comma" /\ pc' = "value"
      BY <1>2, <2>6, <2>8, ExpectedAt, FollowingAt
    <3>2. part = <<>>
      BY <2>1, <2>8 DEF RowPlace
    <3>3. p = Commas(TRUE)
      BY <1>1, <3>1, <3>2, OneToken DEF Commas, p
    <3>4. RowPlace(pc', currentToken', p)
      BY <3>1, <3>3 DEF RowPlace
    <3> QED  BY <1>7, <2>1, <2>4, <2>5, <2>6, <2>7, <2>8, <3>4
  <2>9. CASE pc = "insertClose"
    <3>1. cur = "close" /\ pc' = "accepted"
      BY <1>2, <2>6, <2>9, ExpectedAt, FollowingAt
    <3>2. part = <<>>
      BY <2>1, <2>9 DEF RowPlace
    <3>3. p = <<"close">>
      BY <1>1, <3>1, <3>2, OneToken DEF p
    <3>4. RowPlace(pc', currentToken', p)
      BY <3>1, <3>3 DEF RowPlace
    <3> QED  BY <1>7, <2>1, <2>4, <2>5, <2>6, <2>7, <2>9, <3>4
  <2>10. CASE pc = "value"
    <3>1. cur \in Idents /\ pc' = "row" /\ items' = Appended(items, cur)
      BY <1>2, <1>4, <2>6, <2>10, ExpectedAt, FollowingAt
    <3>2. PICK c \in BOOLEAN : part = Commas(c)
      BY <2>1, <2>10 DEF RowPlace
    <3> DEFINE x == [comma |-> c, name |-> cur]
               more == Append(list, x)
    <3>3. x \in Item(Idents) /\ x.comma = c /\ x.name = cur
      BY <3>1 DEF Item
    <3> HIDE DEF x
    <3>4. ItemTokens(x) = Cat(Commas(c), <<cur>>) /\ ItemTokens(x) \in Text
      BY <3>3, InsertWords, ItemText
    <3>5. p = ItemTokens(x)
      BY <3>2, <3>4 DEF p
    <3>6. /\ ItemWords(more) = Append(ItemWords(list), ItemTokens(x))
          /\ NamesOf(more) = Append(NamesOf(list), cur)
          /\ Len(NamesOf(list)) = Len(list)
      BY <3>3, InsertWords, ItemsAppend
    <3>7. more \in Seq(Item(Idents))
      BY <3>3
    <3> HIDE DEF more
    <3>8. taken' = Main(h, ItemWords(more), <<>>)
      BY <2>3, <2>4, <2>5, <3>5, <3>6, MainText
    <3>9. RowPlace(pc', currentToken', <<>>)
      BY <3>1 DEF RowPlace
    <3>10. CASE Len(items) < MaxItems
      <4>1. items' = NamesOf(more)
        BY <2>1, <3>1, <3>6, <3>10 DEF Appended
      <4> QED  BY <2>7, <3>7, <3>8, <3>9, <4>1, EmptyText
    <3>11. CASE ~(Len(items) < MaxItems)
      <4>1. Len(list) >= MaxItems /\ MaxItems \in Nat /\ MaxTokens <= MaxItems + 6
            /\ MaxTokens \in Nat /\ Len(list) \in Nat
        BY <2>1, <3>6, <3>11, ParserAssumption
      <4>2. Len(FlattenSeq(ItemWords(list))) >= Len(list)
        BY InsertWords, ItemsLen
      <4>3. Len(taken) = Len(h) + Len(FlattenSeq(ItemWords(list))) + Len(part)
        BY <2>1, <2>3, MainText
      <4>4. Len(part) \in Nat /\ Len(FlattenSeq(ItemWords(list))) \in Nat
        BY <2>3, TextLen, FlattenType
      <4>5. Len(read) >= MaxTokens
        BY <1>1, <2>3, <4>1, <4>2, <4>3, <4>4
      <4> QED  BY <1>3, <3>1, <4>5
    <3> QED  BY <3>10, <3>11
  <2> QED  BY <2>2, <2>8, <2>9, <2>10
<1> QED  BY <1>6, <1>7 DEF InsertForm

-------------------------------------------------------------------------------
(***************************************************************************)
(* CREATE                                                                  *)
(***************************************************************************)

\* A column, or a PRIMARY KEY clause, without the comma in front of it.
ElementBody(e) == IF e.pk THEN <<"PRIMARY", "KEY", "open", e.name, "close">>
                          ELSE <<e.name, "INT">>

ElementWords(list) == [i \in DOMAIN list |-> ElementTokens(list[i])]
ElementCode == { ElementTokens(e) : e \in Element }

\* The primary key named last.
PkOf(list) ==
  LET pks == NamesIn(list, TRUE) IN IF pks = <<>> THEN Unset ELSE Last(pks)

\* The tokens of a CREATE, and what is not a name.
LEMMA CreateWords ==
  /\ Idents \in SUBSET Tokens /\ "CREATE" \in Tokens /\ "TABLE" \in Tokens
  /\ "open" \in Tokens /\ "close" \in Tokens /\ "comma" \in Tokens /\ "INT" \in Tokens
  /\ "PRIMARY" \in Tokens /\ "KEY" \in Tokens
  /\ "comma" \notin Idents /\ "close" \notin Idents /\ "PRIMARY" \notin Idents
  /\ "INT" \in Idents /\ Idents \subseteq Identifiers
BY NamesApart DEF Keywords, Symbols

\* How an element is written.
LEMMA ElementText ==
  ASSUME NEW e \in Element
  PROVE  /\ e.comma \in BOOLEAN /\ e.pk \in BOOLEAN /\ e.name \in Idents
         /\ e = [comma |-> e.comma, name |-> e.name, pk |-> e.pk]
         /\ ElementBody(e) \in Text
         /\ ElementTokens(e) = Cat(Commas(e.comma), ElementBody(e))
         /\ ElementTokens(e) \in Text /\ Commas(e.comma) \in Text
<1>1. /\ e.comma \in BOOLEAN /\ e.pk \in BOOLEAN /\ e.name \in Idents
      /\ e = [comma |-> e.comma, name |-> e.name, pk |-> e.pk]
  BY DEF Element
<1>2. e.name \in Tokens
  BY <1>1, CreateWords
<1>3. <<"PRIMARY", "KEY", "open", e.name, "close">> \in Text /\ <<e.name, "INT">> \in Text
  <2>1. <<"PRIMARY", "KEY", "open", e.name, "close">> \in Text
    BY <1>2, CreateWords DEF Text
  <2>2. <<e.name, "INT">> \in Text
    BY <1>2, CreateWords DEF Text
  <2> QED  BY <2>1, <2>2
<1>4. ElementBody(e) \in Text
  BY <1>3 DEF ElementBody
<1>5. ElementTokens(e) = Cat(Commas(e.comma), ElementBody(e))
  BY DEF ElementTokens, ElementBody, Comma, Commas, Cat
<1>6. Commas(e.comma) \in Text
  BY CreateWords, OneToken, EmptyText DEF Commas
<1> QED  BY <1>1, <1>4, <1>5, <1>6, CatType

\* The tokens of an element behind its comma, with more behind them.
LEMMA BodyTokens ==
  ASSUME NEW e \in Element, NEW r \in Text
  PROVE  LET t == Cat(ElementBody(e), r)
         IN  /\ e.pk => /\ t[1] = "PRIMARY" /\ t[2] = "KEY" /\ t[3] = "open"
                        /\ t[4] = e.name /\ t[5] = "close"
             /\ ~e.pk => t[1] = e.name /\ t[2] = "INT"
<1> DEFINE b == ElementBody(e)
           t == Cat(b, r)
<1>1. b \in Text
  BY ElementText
<1>2. \A i \in 1 .. Len(b) : t[i] = b[i]
  BY <1>1, CatType
<1> HIDE DEF t
<1>3. CASE e.pk
  <2>1. b = <<"PRIMARY", "KEY", "open", e.name, "close">>
    BY <1>3, Zenon DEF ElementBody
  <2> HIDE DEF b
  <2>2. /\ Len(b) = 5 /\ b[1] = "PRIMARY" /\ b[2] = "KEY" /\ b[3] = "open"
        /\ b[4] = e.name /\ b[5] = "close"
    BY <2>1
  <2>3. /\ t[1] = b[1] /\ t[2] = b[2] /\ t[3] = b[3] /\ t[4] = b[4] /\ t[5] = b[5]
    <3> Len(b) = 5
      BY <2>2
    <3> QED  BY <1>2
  <2> QED  BY <1>3, <2>2, <2>3 DEF t, b
<1>4. CASE ~e.pk
  <2>1. b = <<e.name, "INT">>
    BY <1>4, Zenon DEF ElementBody
  <2> HIDE DEF b
  <2>2. Len(b) = 2 /\ b[1] = e.name /\ b[2] = "INT"
    BY <2>1
  <2>3. t[1] = b[1] /\ t[2] = b[2]
    <3> Len(b) = 2
      BY <2>2
    <3> QED  BY <1>2
  <2> QED  BY <1>4, <2>2, <2>3 DEF t, b
<1> QED  BY <1>3, <1>4

\* The body of an element is empty nowhere and does not begin with a comma.
LEMMA BodyFirst ==
  ASSUME NEW e \in Element
  PROVE  /\ Len(ElementBody(e)) >= 2 /\ Len(ElementBody(e)) \in Nat
         /\ ElementBody(e)[1] \in Idents \cup {"PRIMARY"}
<1>1. CASE e.pk
  <2>1. ElementBody(e) = <<"PRIMARY", "KEY", "open", e.name, "close">>
    BY <1>1, Zenon DEF ElementBody
  <2> QED  BY <2>1
<1>2. CASE ~e.pk
  <2>1. ElementBody(e) = <<e.name, "INT">> /\ e.name \in Idents
    BY <1>2, ElementText, Zenon DEF ElementBody
  <2> QED  BY <2>1
<1> QED  BY <1>1, <1>2

\* A text that begins with a comma, or with none, and goes on behind it.
LEMMA CommaOrNot ==
  ASSUME NEW c \in BOOLEAN, NEW d \in BOOLEAN, NEW a \in Text, NEW b \in Text,
         Len(a) >= 1, Len(b) >= 1, c \/ a[1] # "comma", d \/ b[1] # "comma",
         Begins(Cat(Commas(c), a), Cat(Commas(d), b))
  PROVE  c = d /\ Begins(a, b)
<1> DEFINE x == Cat(Commas(c), a)
           y == Cat(Commas(d), b)
           k == <<"comma">>
<1>1. k \in Text /\ Len(k) = 1 /\ k[1] = "comma"
  BY CreateWords, OneToken
<1>2. /\ c => Commas(c) = k
      /\ ~c => Commas(c) = <<>>
      /\ d => Commas(d) = k
      /\ ~d => Commas(d) = <<>>
  BY DEF Commas
<1> HIDE DEF k
<1>3. Len(a) \in Nat /\ Len(b) \in Nat
  BY TextLen
<1>4. x[1] = (IF c THEN "comma" ELSE a[1]) /\ Len(x) >= 1
  <2>1. CASE c
    <3>1. x = Cat(k, a)
      BY <1>2, <2>1
    <3>2. Len(Cat(k, a)) = Len(k) + Len(a) /\ \A i \in 1 .. Len(k) : Cat(k, a)[i] = k[i]
      BY <1>1, CatType
    <3>3. x[1] = "comma" /\ Len(x) >= 1
      BY <1>1, <1>3, <3>1, <3>2
    <3> QED  BY <2>1, <3>3
  <2>2. CASE ~c
    <3>1. x = a
      BY <1>2, <2>2, CatEmpty
    <3> QED  BY <2>2, <3>1
  <2> QED  BY <2>1, <2>2
<1>5. y[1] = (IF d THEN "comma" ELSE b[1])
  <2>1. CASE d
    <3>1. y = Cat(k, b)
      BY <1>2, <2>1
    <3>2. \A i \in 1 .. Len(k) : Cat(k, b)[i] = k[i]
      BY <1>1, CatType
    <3>3. y[1] = "comma"
      BY <1>1, <3>1, <3>2
    <3> QED  BY <2>1, <3>3
  <2>2. CASE ~d
    <3>1. y = b
      BY <1>2, <2>2, CatEmpty
    <3> QED  BY <2>2, <3>1
  <2> QED  BY <2>1, <2>2
<1>6. Begins(x, y)
  OBVIOUS
<1>7. x[1] = y[1]
  <2> HIDE DEF x, y
  <2>1. Len(x) \in Int => 1 \in 1 .. Len(x)
    BY <1>4
  <2>2. Len(x) \in Int
    <3>1. x \in Text
      <4>1. Commas(c) \in Text
        BY <1>1, <1>2, EmptyText
      <4> QED  BY <4>1, CatType DEF x
    <3> QED  BY <3>1, TextLen
  <2> QED  BY <1>6, <2>1, <2>2 DEF Begins
<1>8. c = d
  BY <1>4, <1>5, <1>7
<1>9. Commas(c) \in Text
  BY <1>1, <1>2, EmptyText
<1>10. Begins(a, b)
  BY <1>6, <1>8, <1>9, BeginsSame
<1> QED  BY <1>8, <1>10

\* No element begins another one.
LEMMA ElementBegins ==
  ASSUME NEW e \in Element, NEW f \in Element, Begins(ElementTokens(e), ElementTokens(f))
  PROVE  e = f
<1> DEFINE a == ElementBody(e)
           b == ElementBody(f)
<1>1. /\ e.comma \in BOOLEAN /\ e.pk \in BOOLEAN /\ e.name \in Idents
      /\ e = [comma |-> e.comma, name |-> e.name, pk |-> e.pk]
      /\ a \in Text /\ ElementTokens(e) = Cat(Commas(e.comma), a)
  BY ElementText
<1>2. /\ f.comma \in BOOLEAN /\ f.pk \in BOOLEAN /\ f.name \in Idents
      /\ f = [comma |-> f.comma, name |-> f.name, pk |-> f.pk]
      /\ b \in Text /\ ElementTokens(f) = Cat(Commas(f.comma), b)
  BY ElementText
<1>3. /\ Len(a) >= 2 /\ Len(b) >= 2 /\ Len(a) \in Nat /\ Len(b) \in Nat
      /\ a[1] \in Idents \cup {"PRIMARY"} /\ b[1] \in Idents \cup {"PRIMARY"}
  BY BodyFirst
<1>4. e.pk => a[1] = "PRIMARY" /\ a[4] = e.name
  <2>1. e.pk => a = <<"PRIMARY", "KEY", "open", e.name, "close">>
    BY Zenon DEF ElementBody
  <2> QED  BY <2>1
<1>5. ~e.pk => a[1] = e.name
  <2>1. ~e.pk => a = <<e.name, "INT">>
    BY Zenon DEF ElementBody
  <2> QED  BY <2>1
<1>6. f.pk => b[1] = "PRIMARY" /\ b[4] = f.name /\ Len(b) = 5
  <2>1. f.pk => b = <<"PRIMARY", "KEY", "open", f.name, "close">>
    BY Zenon DEF ElementBody
  <2> QED  BY <2>1
<1>7. ~f.pk => b[1] = f.name
  <2>1. ~f.pk => b = <<f.name, "INT">>
    BY Zenon DEF ElementBody
  <2> QED  BY <2>1
<1>8. e.pk => Len(a) = 5
  <2>1. e.pk => a = <<"PRIMARY", "KEY", "open", e.name, "close">>
    BY Zenon DEF ElementBody
  <2> QED  BY <2>1
<1> HIDE DEF a, b
<1>9. e.comma = f.comma /\ Begins(a, b)
  <2>1. a[1] # "comma" /\ b[1] # "comma" /\ Len(a) >= 1 /\ Len(b) >= 1
    BY <1>3, CreateWords
  <2>2. Begins(Cat(Commas(e.comma), a), Cat(Commas(f.comma), b))
    BY <1>1, <1>2
  <2> QED  BY <1>1, <1>2, <2>1, <2>2, CommaOrNot
<1>10. a[1] = b[1]
  BY <1>3, <1>9 DEF Begins
<1>11. e.pk = f.pk
  BY <1>1, <1>2, <1>4, <1>5, <1>6, <1>7, <1>10, CreateWords
<1>12. e.name = f.name
  <2>1. CASE e.pk
    <3>1. 4 \in 1 .. Len(a)
      <4>1. Len(a) = 5
        BY <1>8, <2>1
      <4> QED  BY <4>1
    <3>2. a[4] = b[4]
      BY <1>9, <3>1 DEF Begins
    <3> QED  BY <1>4, <1>6, <1>11, <2>1, <3>2
  <2>2. CASE ~e.pk
    BY <1>5, <1>7, <1>10, <1>11, <2>2
  <2> QED  BY <2>1, <2>2
<1> QED  BY <1>1, <1>2, <1>9, <1>11, <1>12

\* So elements can be read one after the other.
LEMMA ElementsPrefixFree ==
  /\ ElementCode \in SUBSET Text /\ PrefixFree(ElementCode)
  /\ \A e \in Element : Len(ElementTokens(e)) >= 2 /\ ElementTokens(e)[1] # "close"
  /\ \A e, f \in Element : ElementTokens(e) = ElementTokens(f) => e = f
<1>1. ElementCode \in SUBSET Text
  BY ElementText DEF ElementCode
<1>2. \A e \in Element : Len(ElementTokens(e)) >= 2 /\ ElementTokens(e)[1] # "close"
  <2> SUFFICES ASSUME NEW e \in Element
               PROVE  Len(ElementTokens(e)) >= 2 /\ ElementTokens(e)[1] # "close"
    OBVIOUS
  <2> DEFINE b == ElementBody(e)
             k == <<"comma">>
  <2>1. b \in Text /\ Len(b) >= 2 /\ Len(b) \in Nat /\ b[1] # "close"
    BY ElementText, BodyFirst, CreateWords
  <2>2. k \in Text /\ Len(k) = 1 /\ k[1] = "comma" /\ "comma" # "close"
    BY CreateWords, OneToken
  <2>3. e.comma \in BOOLEAN /\ ElementTokens(e) = Cat(Commas(e.comma), b)
    BY ElementText
  <2> HIDE DEF b
  <2>4. CASE e.comma
    <3>1. ElementTokens(e) = Cat(k, b)
      BY <2>3, <2>4 DEF Commas
    <3> HIDE DEF k
    <3>2. Len(Cat(k, b)) = Len(k) + Len(b) /\ \A i \in 1 .. Len(k) : Cat(k, b)[i] = k[i]
      BY <2>1, <2>2, CatType
    <3>3. Len(Cat(k, b)) >= 2 /\ Cat(k, b)[1] = "comma"
      BY <2>1, <2>2, <3>2
    <3> QED  BY <2>2, <3>1, <3>3
  <2>5. CASE ~e.comma
    <3>1. ElementTokens(e) = b
      BY <2>1, <2>3, <2>5, CatEmpty DEF Commas
    <3> QED  BY <2>1, <3>1
  <2> QED  BY <2>3, <2>4, <2>5
<1>3. \A e \in Element : ElementTokens(e) # <<>>
  <2> SUFFICES ASSUME NEW e \in Element, ElementTokens(e) = <<>> PROVE FALSE
    OBVIOUS
  <2>1. Len(ElementTokens(e)) = 0
    OBVIOUS
  <2> QED  BY <1>2, <2>1
<1>4. \A e, f \in Element : Begins(ElementTokens(e), ElementTokens(f)) => e = f
  BY ElementBegins
<1>5. PrefixFree(ElementCode)
  BY <1>3, <1>4 DEF PrefixFree, ElementCode
<1>6. \A e, f \in Element : ElementTokens(e) = ElementTokens(f) => e = f
  BY <1>4, BeginsItself, ElementText
<1> QED  BY <1>1, <1>2, <1>5, <1>6

\* Elements, one after the other.
LEMMA ElementsSeq ==
  ASSUME NEW list \in Seq(Element)
  PROVE  /\ ElementWords(list) \in Seq(ElementCode) /\ ElementWords(list) \in Seq(Text)
         /\ Len(ElementWords(list)) = Len(list)
         /\ FlattenSeq(ElementWords(list)) \in Text
         /\ Len(FlattenSeq(ElementWords(list))) >= 2 * Len(list)
<1> DEFINE ws == ElementWords(list)
<1>1. ws \in Seq(ElementCode) /\ Len(ws) = Len(list)
  BY DEF ElementWords, ElementCode
<1>2. ws \in Seq(Text)
  BY <1>1, ElementsPrefixFree
<1>3. \A i \in DOMAIN ws : Len(ws[i]) >= 2
  <2>1. \A i \in DOMAIN ws : list[i] \in Element /\ ws[i] = ElementTokens(list[i])
    BY DEF ElementWords
  <2> QED  BY <2>1, ElementsPrefixFree
<1> HIDE DEF ws
<1>4. Len(FlattenSeq(ws)) >= 2 * Len(ws)
  BY <1>2, <1>3, FlattenLen
<1>5. FlattenSeq(ws) \in Text
  BY <1>2, FlattenType
<1>6. Len(FlattenSeq(ws)) >= 2 * Len(list)
  BY <1>1, <1>4
<1> QED  BY <1>1, <1>2, <1>5, <1>6 DEF ws

\* Elements written the same are the same.
LEMMA ElementsSame ==
  ASSUME NEW l \in Seq(Element), NEW m \in Seq(Element), ElementWords(l) = ElementWords(m)
  PROVE  l = m
<1>1. Len(l) = Len(m)
  BY ElementsSeq
<1>2. ASSUME NEW i \in 1 .. Len(l) PROVE l[i] = m[i]
  <2>1. i \in DOMAIN l /\ i \in DOMAIN m /\ l[i] \in Element /\ m[i] \in Element
    BY <1>1
  <2>2. ElementWords(l)[i] = ElementTokens(l[i]) /\ ElementWords(m)[i] = ElementTokens(m[i])
    BY <2>1 DEF ElementWords
  <2> QED  BY <2>1, <2>2, ElementsPrefixFree
<1> QED  BY <1>1, <1>2, SeqEqual

\* One more element: its name joins the names of its kind.
LEMMA ElementsAppend ==
  ASSUME NEW list \in Seq(Element), NEW e \in Element
  PROVE  /\ Append(list, e) \in Seq(Element)
         /\ ElementWords(Append(list, e)) = Append(ElementWords(list), ElementTokens(e))
         /\ NamesIn(list, FALSE) \in Text
         /\ NamesIn(Append(list, e), FALSE)
              = IF e.pk THEN NamesIn(list, FALSE) ELSE Append(NamesIn(list, FALSE), e.name)
         /\ PkOf(Append(list, e)) = IF e.pk THEN e.name ELSE PkOf(list)
<1> DEFINE more == Append(list, e)
           Words(l, pk) == [i \in DOMAIN l |-> IF l[i].pk = pk THEN <<l[i].name>> ELSE <<>>]
           w(pk) == IF e.pk = pk THEN <<e.name>> ELSE <<>>
<1>1. more \in Seq(Element) /\ DOMAIN more = 1 .. Len(list) + 1 /\ Len(list) \in Nat
      /\ (\A i \in DOMAIN list : more[i] = list[i]) /\ more[Len(list) + 1] = e
      /\ DOMAIN list = 1 .. Len(list)
  OBVIOUS
<1>2. ElementWords(more) = Append(ElementWords(list), ElementTokens(e))
  BY DEF ElementWords
<1>3. \A f \in Element : f.name \in Tokens /\ f.pk \in BOOLEAN /\ <<f.name>> \in Text
  <2> SUFFICES ASSUME NEW f \in Element
               PROVE  f.name \in Tokens /\ f.pk \in BOOLEAN /\ <<f.name>> \in Text
    OBVIOUS
  <2>1. f.name \in Tokens /\ f.pk \in BOOLEAN
    BY ElementText, CreateWords
  <2> QED  BY <2>1, OneToken
<1>4. ASSUME NEW pk \in BOOLEAN
      PROVE  /\ NamesIn(list, pk) \in Text
             /\ NamesIn(more, pk) = Cat(NamesIn(list, pk), w(pk))
  <2>1. Words(list, pk) \in Seq(Text) /\ w(pk) \in Text
    <3>1. \A i \in DOMAIN list : list[i] \in Element
      OBVIOUS
    <3>2. \A i \in DOMAIN list : Words(list, pk)[i] \in Text
      BY <1>3, <3>1, EmptyText
    <3> QED  BY <1>1, <1>3, <3>2, EmptyText
  <2>2. Words(more, pk) = Append(Words(list, pk), w(pk))
    <3>1. DOMAIN Words(more, pk) = 1 .. Len(list) + 1
          /\ DOMAIN Words(list, pk) = 1 .. Len(list) /\ Len(Words(list, pk)) = Len(list)
      BY <1>1, <2>1
    <3> QED  BY <1>1
  <2>3. NamesIn(list, pk) = FlattenSeq(Words(list, pk))
        /\ NamesIn(more, pk) = FlattenSeq(Words(more, pk))
    BY DEF NamesIn
  <2> HIDE DEF Words, w, more
  <2> QED  BY <2>1, <2>2, <2>3, FlattenAppend, FlattenType
<1>5. e.name \in Tokens /\ e.pk \in BOOLEAN
  BY <1>3
<1>6. ASSUME NEW pk \in BOOLEAN, e.pk = pk
      PROVE  NamesIn(more, pk) = Append(NamesIn(list, pk), e.name)
  <2>1. NamesIn(more, pk) = Cat(NamesIn(list, pk), <<e.name>>) /\ NamesIn(list, pk) \in Text
    BY <1>4, <1>6
  <2> QED  BY <1>5, <2>1, AppendIsConcat DEF Cat, Text
<1>7. ASSUME NEW pk \in BOOLEAN, e.pk # pk PROVE NamesIn(more, pk) = NamesIn(list, pk)
  <2>1. NamesIn(more, pk) = Cat(NamesIn(list, pk), <<>>) /\ NamesIn(list, pk) \in Text
    BY <1>4, <1>7
  <2> QED  BY <2>1, CatEmpty
<1> HIDE DEF more
<1>8. NamesIn(more, FALSE)
        = IF e.pk THEN NamesIn(list, FALSE) ELSE Append(NamesIn(list, FALSE), e.name)
  BY <1>5, <1>6, <1>7
<1>9. PkOf(more) = IF e.pk THEN e.name ELSE PkOf(list)
  <2>1. CASE e.pk
    <3> DEFINE n == NamesIn(list, TRUE)
    <3>1. NamesIn(more, TRUE) = Append(n, e.name) /\ n \in Seq(Tokens)
      BY <1>4, <1>6, <2>1 DEF Text
    <3> HIDE DEF n
    <3>2. Append(n, e.name) # <<>> /\ Last(Append(n, e.name)) = e.name
      BY <1>5, <3>1 DEF Last
    <3> QED  BY <2>1, <3>1, <3>2 DEF PkOf
  <2>2. CASE ~e.pk
    <3>1. NamesIn(more, TRUE) = NamesIn(list, TRUE)
      BY <1>5, <1>7, <2>2
    <3> QED  BY <2>2, <3>1 DEF PkOf
  <2> QED  BY <2>1, <2>2
<1>10. NamesIn(list, FALSE) \in Text
  BY <1>4
<1> QED  BY <1>1, <1>2, <1>8, <1>9, <1>10 DEF more

\* What stands in front of the columns.
CreateHead(tb) == <<"CREATE", "TABLE", tb, "open">>

\* The tokens in front of the columns.
LEMMA CreateHeadIs ==
  ASSUME NEW tb \in Idents
  PROVE  /\ CreateHead(tb) \in Text /\ Len(CreateHead(tb)) = 4
         /\ CreateHead(tb)[1] = "CREATE" /\ CreateHead(tb)[2] = "TABLE"
         /\ CreateHead(tb)[3] = tb /\ CreateHead(tb)[4] = "open"
<1>1. tb \in Tokens
  BY CreateWords
<1>2. CreateHead(tb) \in Text
  BY <1>1, CreateWords DEF CreateHead, Text
<1> QED  BY <1>2 DEF CreateHead

\* There is a column, and the primary key is one of the columns.
Sound(names, pk) == names # <<>> /\ (pk = Unset \/ Contains(names, pk))

\* A CREATE sentence in its three parts.
LEMMA CreateSentenceOf ==
  ASSUME NEW tb \in Idents, NEW list \in Seq(Element)
  PROVE  CreateSentence(tb, list)
           = Sentence("CREATE", Main(CreateHead(tb), ElementWords(list), <<"close">>), tb,
                      NamesIn(list, FALSE), PkOf(list), <<>>)
<1> DEFINE f == FlattenSeq(ElementWords(list))
           t == Cat(Cat(CreateHead(tb), f), <<"close">>)
<1>1. CreateSentence(tb, list)
        = Sentence("CREATE", t, tb, NamesIn(list, FALSE), PkOf(list), <<>>)
  BY Zenon DEF CreateSentence, Cat, CreateHead, ElementWords, PkOf
<1>2. CreateHead(tb) \in Text /\ <<"close">> \in Text
  BY CreateHeadIs, CreateWords, OneToken
<1>3. f \in Text
  BY ElementsSeq
<1> HIDE DEF f
<1>4. t = Cat(CreateHead(tb), Cat(f, <<"close">>))
  BY <1>2, <1>3, CatAssoc
<1>5. t = Main(CreateHead(tb), ElementWords(list), <<"close">>)
  BY <1>4, Zenon DEF Main, f
<1> HIDE DEF t
<1> QED  BY <1>1, <1>5

\* How the CREATE sentences are written.
LEMMA CreateSentenceIs ==
  ASSUME NEW s \in Sentences, s.statement = "CREATE"
  PROVE  /\ s.tokens \in Text
         /\ \E tb \in Idents, list \in Seq(Element) :
              /\ s.tokens = Main(CreateHead(tb), ElementWords(list), <<"close">>)
              /\ Sound(NamesIn(list, FALSE), PkOf(list))
<1>1. s \in SoundCreateSentences
  <2>1. "CREATE" # "INSERT" /\ "CREATE" # "SELECT"
    OBVIOUS
  <2> QED  BY <2>1, SentenceKinds, Zenon DEF Sentences
<1>2. s \in CreateSentences /\ Sound(s.items, s.pkColumn)
  BY <1>1 DEF SoundCreateSentences, Sound
<1>3. PICK tb \in Idents, list \in Lists(Element, (MaxTokens - 5) \div 2) :
        s = CreateSentence(tb, list)
  BY <1>2 DEF CreateSentences
<1>4. list \in Seq(Element)
  <2>1. PICK m \in 0 .. ((MaxTokens - 5) \div 2) : list \in [1 .. m -> Element]
    BY DEF Lists
  <2>2. m \in Nat
    OBVIOUS
  <2> QED  BY <2>1, <2>2
<1> DEFINE t == Main(CreateHead(tb), ElementWords(list), <<"close">>)
           n == NamesIn(list, FALSE)
           k == PkOf(list)
<1>5. s.tokens = t /\ s.items = n /\ s.pkColumn = k
  <2>1. s = Sentence("CREATE", t, tb, n, k, <<>>)
    BY <1>3, <1>4, CreateSentenceOf
  <2> HIDE DEF t, n, k
  <2> QED  BY <2>1 DEF Sentence
<1>6. CreateHead(tb) \in Text /\ <<"close">> \in Text
  BY CreateHeadIs, CreateWords, OneToken
<1>7. s.tokens \in Text
  BY <1>4, <1>5, <1>6, ElementsSeq, MainText
<1> QED  BY <1>2, <1>4, <1>5, <1>7

\* Where a CREATE sentence is the same up to its columns.
LEMMA CreateSentenceStart ==
  ASSUME NEW s \in Sentences, s.statement = "CREATE"
  PROVE  /\ s.tokens[1] = "CREATE" /\ s.tokens[2] = "TABLE" /\ s.tokens[3] \in Idents
         /\ s.tokens[4] = "open"
<1>1. PICK tb \in Idents, list \in Seq(Element) :
        s.tokens = Main(CreateHead(tb), ElementWords(list), <<"close">>)
  BY CreateSentenceIs
<1> DEFINE h == CreateHead(tb)
           t == s.tokens
<1>2. h \in Text /\ Len(h) = 4 /\ h[1] = "CREATE" /\ h[2] = "TABLE" /\ h[3] = tb
      /\ h[4] = "open"
  BY CreateHeadIs
<1>3. <<"close">> \in Text /\ ElementWords(list) \in Seq(Text)
  BY CreateWords, OneToken, ElementsSeq
<1>4. t = Main(h, ElementWords(list), <<"close">>)
  BY <1>1
<1> HIDE DEF h, t
<1>5. \A i \in 1 .. Len(h) : t[i] = h[i]
  BY <1>2, <1>3, <1>4, MainText
<1>6. t[1] = h[1] /\ t[2] = h[2] /\ t[3] = h[3] /\ t[4] = h[4]
  BY <1>2, <1>5
<1>7. t[1] = "CREATE" /\ t[2] = "TABLE" /\ t[3] \in Idents /\ t[4] = "open"
  BY <1>2, <1>6
<1> QED  BY <1>7 DEF t

\* The elements so far, with more behind them, begin a CREATE sentence only where
\* that goes on with an element, or ends a list with a column and its key.
LEMMA CreateGoesOn ==
  ASSUME NEW s \in Sentences, s.statement = "CREATE", NEW tb \in Idents,
         NEW list \in Seq(Element), NEW p \in Text,
         Begins(Main(CreateHead(tb), ElementWords(list), p), s.tokens)
  PROVE  \/ Begins(p, <<"close">>) /\ Sound(NamesIn(list, FALSE), PkOf(list))
         \/ \E e \in Element, r \in Text : Begins(p, Cat(ElementTokens(e), r))
<1>1. PICK tb2 \in Idents, list2 \in Seq(Element) :
        /\ s.tokens = Main(CreateHead(tb2), ElementWords(list2), <<"close">>)
        /\ Sound(NamesIn(list2, FALSE), PkOf(list2))
  BY CreateSentenceIs
<1> DEFINE h == CreateHead(tb)
           h2 == CreateHead(tb2)
           xs == ElementWords(list)
           ys == ElementWords(list2)
           q == <<"close">>
           x == Main(h, xs, p)
           y == Main(h2, ys, q)
<1>2. /\ h \in Text /\ Len(h) = 4 /\ h[3] = tb
      /\ h2 \in Text /\ Len(h2) = 4 /\ h2[3] = tb2
  BY CreateHeadIs
<1>3. ElementCode \in SUBSET Text /\ PrefixFree(ElementCode)
  BY ElementsPrefixFree
<1>4. /\ xs \in Seq(ElementCode) /\ ys \in Seq(ElementCode)
      /\ xs \in Seq(Text) /\ ys \in Seq(Text)
  BY ElementsSeq
<1>5. q \in Text /\ q # <<>> /\ q[1] = "close"
  BY CreateWords, OneToken
<1>6. \A w \in ElementCode : w[1] # q[1]
  BY <1>5, ElementsPrefixFree DEF ElementCode
<1>7. Begins(x, y)
  BY <1>1
<1> HIDE DEF h, h2, xs, ys, q
<1>8. /\ x \in Text /\ (\A i \in 1 .. Len(h) : x[i] = h[i])
      /\ Len(x) = Len(h) + Len(FlattenSeq(xs)) + Len(p)
  BY <1>2, <1>4, MainText, ZenonT(40)
<1>9. \A i \in 1 .. Len(h2) : y[i] = h2[i]
  BY <1>2, <1>4, <1>5, MainText, ZenonT(40)
<1>10. Len(FlattenSeq(xs)) \in Nat /\ Len(p) \in Nat
  BY <1>4, FlattenType, TextLen
<1>11. tb2 = tb
  <2> HIDE DEF x, y
  <2>1. 3 \in 1 .. Len(x) /\ 3 \in 1 .. Len(h) /\ 3 \in 1 .. Len(h2)
    BY <1>2, <1>8, <1>10
  <2>2. y[3] = x[3]
    BY <1>7, <2>1 DEF Begins
  <2> QED  BY <1>2, <1>8, <1>9, <2>1, <2>2
<1>12. h2 = h
  BY <1>11 DEF h, h2
<1>13. Begins(Main(h, xs, p), Main(h, ys, q))
  BY <1>7, <1>12
<1>14. /\ Len(xs) <= Len(ys) /\ xs = SubSeq(ys, 1, Len(xs))
       /\ \/ Len(xs) = Len(ys) /\ Begins(p, q)
          \/ \E w \in ElementCode, r \in Text : Begins(p, Cat(w, r))
  <2> HIDE DEF x, y
  <2> q # <<>> /\ h \in Text /\ q \in Text
    BY <1>2, <1>5
  <2> QED  BY <1>3, <1>4, <1>6, <1>13, MainDecode, SMTT(30)
<1>15. CASE Len(xs) = Len(ys) /\ Begins(p, q)
  <2>1. SubSeq(ys, 1, Len(ys)) = ys
    BY <1>4
  <2>2. xs = ys
    BY <1>14, <1>15, <2>1
  <2>3. list = list2
    BY <2>2, ElementsSame DEF xs, ys
  <2> QED  BY <1>1, <1>15, <2>3 DEF q
<1>16. CASE \E w \in ElementCode, r \in Text : Begins(p, Cat(w, r))
  BY <1>16 DEF ElementCode
<1> QED  BY <1>14, <1>15, <1>16

\* The tokens up to the columns, place by place.
CreateStart(place, tb, text) ==
  \/ place = "CREATE" /\ text = <<>>
  \/ place = "TABLE" /\ text = <<"CREATE">>
  \/ place = "createName" /\ text = <<"CREATE", "TABLE">>
  \/ place = "createOpen" /\ tb \in Idents /\ text = <<"CREATE", "TABLE", tb>>

\* Between two elements, or behind the last: the part that has been read.
BetweenPlace(place, token, part, names, pk) ==
  \/ place = "columns" /\ part = <<>>
  \/ place = "columnComma" /\ part = <<>> /\ token = "comma"
  \/ place = "createClose" /\ part = <<>> /\ token = "close" /\ Sound(names, pk)
  \/ place = "accepted" /\ part = <<"close">> /\ Sound(names, pk)

\* The comma in front of an element is behind the parser, or there is none.
CommaDone(c, token) == c \/ (token # "comma" /\ token # "close")

\* Within an element: the tokens read of it, and the names with its own.
WithinPlace(place, token, c, body, names, pk, its, itsPk) ==
  \/ /\ its = names /\ itsPk = pk
     /\ \/ place = "column" /\ body = <<>> /\ CommaDone(c, token)
        \/ place = "columnName" /\ body = <<>> /\ CommaDone(c, token) /\ token # "PRIMARY"
        \/ place = "PRIMARY" /\ body = <<>> /\ token = "PRIMARY"
        \/ place = "KEY" /\ body = <<"PRIMARY">>
        \/ place = "pkOpen" /\ body = <<"PRIMARY", "KEY">>
        \/ place = "pkName" /\ body = <<"PRIMARY", "KEY", "open">>
  \/ /\ place = "columnType" /\ itsPk = pk
     /\ \E n \in Idents : body = <<n>> /\ its = Append(names, n)
  \/ /\ place = "pkClose" /\ its = names
     /\ \E n \in Idents : body = <<"PRIMARY", "KEY", "open", n>> /\ itsPk = n

\* The elements that have been read, and the part behind them.
CreateBetween(list, part) ==
  /\ taken = Main(CreateHead(tableName), ElementWords(list), part)
  /\ items = NamesIn(list, FALSE) /\ pkColumn = PkOf(list)
  /\ BetweenPlace(pc, currentToken, part, items, pkColumn)

CreateWithin(list, c, body) ==
  /\ taken = Main(CreateHead(tableName), ElementWords(list), Cat(Commas(c), body))
  /\ WithinPlace(pc, currentToken, c, body, NamesIn(list, FALSE), PkOf(list),
                 items, pkColumn)

\* What a CREATE has read, and what it has made of it.
CreateForm ==
  /\ statement = "CREATE" /\ conditions = <<>>
  /\ \/ CreateStart(pc, tableName, taken) /\ items = <<>> /\ pkColumn = Unset
     \/ /\ tableName \in Idents
        /\ \E list \in Seq(Element) :
             /\ Len(NamesIn(list, FALSE)) <= Len(list)
             /\ \/ \E part \in Text : CreateBetween(list, part)
                \/ \E c \in BOOLEAN, body \in Text : CreateWithin(list, c, body)

\* A text that begins an element shows which.
LEMMA BeginsElement ==
  ASSUME NEW c \in BOOLEAN, NEW b \in Text, Len(b) >= 1, c \/ b[1] # "comma",
         NEW e \in Element, NEW r \in Text,
         Begins(Cat(Commas(c), b), Cat(ElementTokens(e), r))
  PROVE  Begins(b, Cat(ElementBody(e), r))
<1> DEFINE a == ElementBody(e)
           k == Commas(e.comma)
<1>1. /\ a \in Text /\ k \in Text /\ e.comma \in BOOLEAN
      /\ ElementTokens(e) = Cat(k, a)
  BY ElementText
<1>2. Len(a) >= 2 /\ Len(a) \in Nat /\ a[1] \in Idents \cup {"PRIMARY"}
  BY BodyFirst
<1> HIDE DEF a, k
<1>3. /\ Cat(Cat(k, a), r) = Cat(k, Cat(a, r)) /\ Cat(a, r) \in Text
      /\ Len(Cat(a, r)) = Len(a) + Len(r) /\ \A i \in 1 .. Len(a) : Cat(a, r)[i] = a[i]
  <2>1. Cat(Cat(k, a), r) = Cat(k, Cat(a, r))
    BY <1>1, CatAssoc
  <2>2. /\ Cat(a, r) \in Text /\ Len(Cat(a, r)) = Len(a) + Len(r)
        /\ \A i \in 1 .. Len(a) : Cat(a, r)[i] = a[i]
    BY <1>1, CatType
  <2> QED  BY <2>1, <2>2
<1>4. Len(r) \in Nat
  BY TextLen
<1>5. Len(Cat(a, r)) >= 1 /\ Cat(a, r)[1] = a[1]
  BY <1>2, <1>3, <1>4
<1>6. Cat(a, r)[1] # "comma"
  BY <1>2, <1>5, CreateWords
<1>7. Begins(Cat(Commas(c), b), Cat(Commas(e.comma), Cat(a, r)))
  BY <1>1, <1>3 DEF k
<1>8. Begins(b, Cat(a, r))
  BY <1>1, <1>3, <1>5, <1>6, <1>7, CommaOrNot
<1> QED  BY <1>8 DEF a

\* The same for five tokens.
LEMMA BeginsFive ==
  \A a, b, c, d, e, t :
    Begins(<<a, b, c, d, e>>, t) =>
      t[1] = a /\ t[2] = b /\ t[3] = c /\ t[4] = d /\ t[5] = e
BY DEF Begins

\* With a token that is not the expected one, the tokens read of an element begin
\* no element, and not the end either.
LEMMA WithinRejects ==
  ASSUME NEW place, NEW token \in Tokens, NEW c \in BOOLEAN, NEW body \in Text,
         NEW names, NEW pk, NEW its, NEW itsPk,
         WithinPlace(place, token, c, body, names, pk, its, itsPk),
         place \in ConsumePcs, place # "PRIMARY",
         token \notin Expected[place] \/ (place = "columnType" /\ token \notin Types),
         token # "unsupported"
  PROVE  /\ ~Begins(Cat(Commas(c), Cat(body, <<token>>)), <<"close">>)
         /\ \A e \in Element, r \in Text :
              ~Begins(Cat(Commas(c), Cat(body, <<token>>)), Cat(ElementTokens(e), r))
<1> DEFINE b == Cat(body, <<token>>)
           k == Commas(c)
<1>1. b \in Text /\ k \in Text
  BY CatType, OneToken, CreateWords, EmptyText DEF Commas
<1>2. /\ Len(b) >= 1 /\ (c \/ b[1] # "comma") /\ (c \/ b[1] # "close")
      /\ \A e \in Element, r \in Text : ~Begins(b, Cat(ElementBody(e), r))
  <2> SUFFICES ASSUME NEW e \in Element, NEW r \in Text
               PROVE  /\ Len(b) >= 1 /\ (c \/ b[1] # "comma") /\ (c \/ b[1] # "close")
                      /\ ~Begins(b, Cat(ElementBody(e), r))
    <3>1. [comma |-> TRUE, name |-> "INT", pk |-> TRUE] \in Element /\ <<>> \in Text
      BY CreateWords, EmptyText DEF Element
    <3> QED  BY <3>1
  <2> DEFINE t == Cat(ElementBody(e), r)
  <2>1. /\ e.pk => /\ t[1] = "PRIMARY" /\ t[2] = "KEY" /\ t[3] = "open"
                   /\ t[4] = e.name /\ t[5] = "close"
        /\ ~e.pk => t[1] = e.name /\ t[2] = "INT"
        /\ e.name \in Idents /\ e.pk \in BOOLEAN
    BY BodyTokens, ElementText
  <2> HIDE DEF t, b
  <2>2. CASE place = "columnName" /\ body = <<>> /\ CommaDone(c, token) /\ token # "PRIMARY"
    <3>1. b = <<token>> /\ token \notin Idents
      BY <2>2, OneToken, ExpectedAt, CreateWords DEF b
    <3>2. Begins(b, t) => t[1] = token
      BY <3>1, BeginsOne
    <3>3. Len(b) = 1 /\ b[1] = token
      BY <3>1
    <3> QED  BY <2>1, <2>2, <3>1, <3>2, <3>3 DEF CommaDone, t
  <2>3. CASE place = "KEY" /\ body = <<"PRIMARY">>
    <3>1. b = <<"PRIMARY", token>> /\ token # "KEY"
      BY <2>3, CatOne, ExpectedAt DEF b
    <3>2. Begins(b, t) => t[1] = "PRIMARY" /\ t[2] = token
      BY <3>1, BeginsTwo
    <3>3. Len(b) = 2 /\ b[1] = "PRIMARY"
      BY <3>1
    <3> QED  BY <2>1, <3>1, <3>2, <3>3, CreateWords DEF t
  <2>4. CASE place = "pkOpen" /\ body = <<"PRIMARY", "KEY">>
    <3>1. b = <<"PRIMARY", "KEY", token>> /\ token # "open"
      BY <2>4, CatTwo, ExpectedAt DEF b
    <3>2. Begins(b, t) => t[1] = "PRIMARY" /\ t[3] = token
      BY <3>1, BeginsThree
    <3>3. Len(b) = 3 /\ b[1] = "PRIMARY"
      BY <3>1
    <3> QED  BY <2>1, <3>1, <3>2, <3>3, CreateWords DEF t
  <2>5. CASE place = "pkName" /\ body = <<"PRIMARY", "KEY", "open">>
    <3>1. b = <<"PRIMARY", "KEY", "open", token>> /\ token \notin Idents
      BY <2>5, CatThree, ExpectedAt, CreateWords DEF b
    <3>2. Begins(b, t) => t[1] = "PRIMARY" /\ t[4] = token
      BY <3>1, BeginsFour
    <3>3. Len(b) = 4 /\ b[1] = "PRIMARY"
      BY <3>1
    <3> QED  BY <2>1, <3>1, <3>2, <3>3, CreateWords DEF t
  <2>6. CASE place = "columnType" /\ \E n \in Idents : body = <<n>>
    <3>1. PICK n \in Idents : body = <<n>>
      BY <2>6
    <3>2. b = <<n, token>> /\ token # "INT"
      <4>1. b = <<n, token>>
        BY <3>1, CatOne DEF b
      <4>2. token # "INT"
        BY <2>6, ExpectedAt, CreateWords DEF Types
      <4> QED  BY <4>1, <4>2
    <3>3. Begins(b, t) => t[1] = n /\ t[2] = token
      BY <3>2, BeginsTwo
    <3>4. Len(b) = 2 /\ b[1] = n
      BY <3>2
    <3> QED  BY <2>1, <3>2, <3>3, <3>4, CreateWords DEF t
  <2>7. CASE place = "pkClose" /\ \E n \in Idents : body = <<"PRIMARY", "KEY", "open", n>>
    <3>1. PICK n \in Idents : body = <<"PRIMARY", "KEY", "open", n>>
      BY <2>7
    <3>2. b = <<"PRIMARY", "KEY", "open", n, token>> /\ token # "close"
      BY <2>7, <3>1, CatFour, ExpectedAt DEF b
    <3>3. Begins(b, t) => t[1] = "PRIMARY" /\ t[5] = token
      BY <3>2, BeginsFive
    <3>4. Len(b) = 5 /\ b[1] = "PRIMARY"
      BY <3>2
    <3> QED  BY <2>1, <3>2, <3>3, <3>4, CreateWords DEF t
  <2>8. place # "column"
    BY Places
  <2> QED  BY <2>2, <2>3, <2>4, <2>5, <2>6, <2>7, <2>8 DEF WithinPlace
<1> HIDE DEF b
<1>3. ASSUME NEW e \in Element, NEW r \in Text, Begins(Cat(k, b), Cat(ElementTokens(e), r))
      PROVE  FALSE
  BY <1>1, <1>2, <1>3, BeginsElement
<1>4. ASSUME Begins(Cat(k, b), <<"close">>) PROVE FALSE
  <2> DEFINE q == <<"close">>
  <2>1. q \in Text /\ Len(q) = 1 /\ q[1] = "close" /\ "close" # "comma"
    BY CreateWords, OneToken
  <2>2. Commas(FALSE) = <<>> /\ Cat(<<>>, q) = q
    BY <2>1, CatEmpty DEF Commas
  <2> HIDE DEF q
  <2>3. Begins(Cat(Commas(c), b), Cat(Commas(FALSE), q))
    BY <1>4, <2>2 DEF q
  <2>4. c = FALSE /\ Begins(b, q)
    <3>1. ASSUME NEW d \in BOOLEAN, d = FALSE PROVE c = d /\ Begins(b, q)
      <4>1. Begins(Cat(Commas(c), b), Cat(Commas(d), q))
        BY <2>3, <3>1
      <4>2. Len(b) >= 1 /\ Len(q) >= 1 /\ (c \/ b[1] # "comma") /\ (d \/ q[1] # "comma")
        BY <1>2, <2>1
      <4> QED  BY <1>1, <2>1, <4>1, <4>2, CommaOrNot
    <3> QED  BY <3>1
  <2>5. q[1] = b[1]
    <3>1. 1 \in 1 .. Len(b)
      BY <1>1, <1>2, TextLen
    <3> QED  BY <2>4, <3>1 DEF Begins
  <2> QED  BY <1>2, <2>1, <2>4, <2>5
<1> QED  BY <1>3, <1>4 DEF b

\* At a token that is not the expected one, at a type that is none, and at the end
\* of the columns without a column or with a key that is none of them, no CREATE
\* sentence goes on.
LEMMA CreateRejects ==
  ASSUME TypeInv, CreateForm, Live,
         \/ /\ pc \in ConsumePcs
            /\ \/ currentToken \notin Expected[pc]
               \/ pc = "columnType" /\ currentToken \notin Types
         \/ pc = "columns" /\ currentToken = "close" /\ ~Sound(items, pkColumn)
  PROVE  NoneBegins("CREATE", read)
<1> SUFFICES ASSUME NEW s \in Sentences, s.statement = "CREATE", Begins(read, s.tokens)
             PROVE  FALSE
  BY DEF NoneBegins
<1> DEFINE cur == currentToken
           t == s.tokens
<1>1. taken \in Text /\ cur \in Tokens /\ <<cur>> \in Text /\ read = Cat(taken, <<cur>>)
  BY ReadParts
<1>2. t \in Text
  BY CreateSentenceIs
<1>3. t[1] = "CREATE" /\ t[2] = "TABLE" /\ t[3] \in Idents /\ t[4] = "open"
  BY CreateSentenceStart
<1>4. \/ /\ pc \in ConsumePcs
         /\ cur \notin Expected[pc] \/ (pc = "columnType" /\ cur \notin Types)
      \/ pc = "columns" /\ cur = "close" /\ ~Sound(items, pkColumn)
  OBVIOUS
<1> HIDE DEF t
<1>5. t[Len(taken) + 1] = cur
  BY <1>1, <1>2, BeginsNext DEF t
<1>6. cur # "unsupported"
  BY DEF Live
<1> HIDE DEF cur
<1>7. CASE CreateStart(pc, tableName, taken)
  <2>1. ASSUME pc = "CREATE", taken = <<>> PROVE FALSE
    <3>1. cur = t[1]
      BY <1>5, <2>1
    <3> QED  BY <1>3, <1>4, <2>1, <3>1, ExpectedAt
  <2>2. ASSUME pc = "TABLE", taken = <<"CREATE">> PROVE FALSE
    <3>1. cur = t[2]
      BY <1>5, <2>2
    <3> QED  BY <1>3, <1>4, <2>2, <3>1, ExpectedAt
  <2>3. ASSUME pc = "createName", taken = <<"CREATE", "TABLE">> PROVE FALSE
    <3>1. cur = t[3]
      BY <1>5, <2>3
    <3> QED  BY <1>3, <1>4, <2>3, <3>1, ExpectedAt, CreateWords
  <2>4. ASSUME pc = "createOpen", taken = <<"CREATE", "TABLE", tableName>> PROVE FALSE
    <3>1. cur = t[4]
      BY <1>5, <2>4
    <3> QED  BY <1>3, <1>4, <2>4, <3>1, ExpectedAt
  <2> QED  BY <1>7, <2>1, <2>2, <2>3, <2>4 DEF CreateStart
<1>8. ASSUME tableName \in Idents, NEW list \in Seq(Element), NEW part \in Text,
             taken = Main(CreateHead(tableName), ElementWords(list), part)
      PROVE  LET p == Cat(part, <<cur>>)
             IN  \/ Begins(p, <<"close">>) /\ Sound(NamesIn(list, FALSE), PkOf(list))
                 \/ \E e \in Element, r \in Text : Begins(p, Cat(ElementTokens(e), r))
  <2> DEFINE p == Cat(part, <<cur>>)
  <2>1. CreateHead(tableName) \in Text /\ ElementWords(list) \in Seq(Text)
    BY <1>8, CreateHeadIs, ElementsSeq
  <2>2. read = Main(CreateHead(tableName), ElementWords(list), p)
    BY <1>1, <1>8, <2>1, MainText
  <2>3. p \in Text
    BY <1>1, CatType
  <2> HIDE DEF p
  <2>4. \/ Begins(p, <<"close">>) /\ Sound(NamesIn(list, FALSE), PkOf(list))
        \/ \E e \in Element, r \in Text : Begins(p, Cat(ElementTokens(e), r))
    BY <1>8, <2>2, <2>3, CreateGoesOn
  <2> QED  BY <2>4 DEF p
<1>9. ASSUME tableName \in Idents, NEW list \in Seq(Element), NEW part \in Text,
             CreateBetween(list, part)
      PROVE  FALSE
  <2>1. /\ taken = Main(CreateHead(tableName), ElementWords(list), part)
        /\ items = NamesIn(list, FALSE) /\ pkColumn = PkOf(list)
        /\ BetweenPlace(pc, cur, part, items, pkColumn)
    BY <1>9 DEF CreateBetween, cur
  <2>2. pc = "columns" /\ cur = "close" /\ ~Sound(items, pkColumn) /\ part = <<>>
    <3>1. pc # "accepted" /\ (pc = "columns" => pc \notin ConsumePcs)
      BY <1>4, Places
    <3>2. ~(pc = "columnComma" /\ cur = "comma") /\ ~(pc = "createClose" /\ cur = "close")
      BY <1>4, ExpectedAt
    <3>3. pc = "columns" /\ part = <<>>
      BY <2>1, <3>1, <3>2 DEF BetweenPlace
    <3> QED  BY <1>4, <3>1, <3>3
  <2>3. Cat(part, <<cur>>) = <<"close">>
    BY <1>1, <2>2, OneToken
  <2>4. \E e \in Element, r \in Text : Begins(<<"close">>, Cat(ElementTokens(e), r))
    BY <1>8, <1>9, <2>1, <2>2, <2>3
  <2>5. PICK e \in Element, r \in Text : Begins(<<"close">>, Cat(ElementTokens(e), r))
    BY <2>4
  <2>6. Cat(ElementTokens(e), r)[1] = "close"
    BY <2>5, BeginsOne
  <2>7. ElementTokens(e) \in Text /\ Len(ElementTokens(e)) >= 2 /\ ElementTokens(e)[1] # "close"
    BY ElementText, ElementsPrefixFree
  <2>8. Cat(ElementTokens(e), r)[1] = ElementTokens(e)[1]
    <3>1. Len(ElementTokens(e)) \in Nat
      BY <2>7, TextLen
    <3>2. 1 \in 1 .. Len(ElementTokens(e))
      BY <2>7, <3>1
    <3> QED  BY <2>7, <3>2, CatType
  <2> QED  BY <2>6, <2>7, <2>8
<1>10. ASSUME tableName \in Idents, NEW list \in Seq(Element), NEW c \in BOOLEAN,
              NEW body \in Text, CreateWithin(list, c, body)
       PROVE  FALSE
  <2> DEFINE k == Commas(c)
             p == Cat(Cat(k, body), <<cur>>)
  <2>1. /\ taken = Main(CreateHead(tableName), ElementWords(list), Cat(k, body))
        /\ WithinPlace(pc, cur, c, body, NamesIn(list, FALSE), PkOf(list), items, pkColumn)
    BY <1>10 DEF CreateWithin, cur
  <2>2. k \in Text /\ Cat(k, body) \in Text
    <3>1. k \in Text
      BY OneToken, CreateWords, EmptyText DEF Commas
    <3> QED  BY <3>1, CatType
  <2>3. p = Cat(k, Cat(body, <<cur>>))
    BY <1>1, <2>2, CatAssoc
  <2>4. \/ Begins(p, <<"close">>)
        \/ \E e \in Element, r \in Text : Begins(p, Cat(ElementTokens(e), r))
    BY <1>8, <1>10, <2>1, <2>2
  <2>5. pc \in ConsumePcs /\ (cur \notin Expected[pc] \/ (pc = "columnType" /\ cur \notin Types))
    BY <1>4, <2>1 DEF WithinPlace
  <2>6. pc # "PRIMARY"
    BY <2>1, <2>5, ExpectedAt DEF WithinPlace
  <2> HIDE DEF k, p
  <2>7. /\ ~Begins(Cat(k, Cat(body, <<cur>>)), <<"close">>)
        /\ \A e \in Element, r \in Text :
             ~Begins(Cat(k, Cat(body, <<cur>>)), Cat(ElementTokens(e), r))
    BY <1>1, <1>6, <2>1, <2>5, <2>6, WithinRejects DEF k
  <2> QED  BY <2>3, <2>4, <2>7
<1> QED  BY <1>7, <1>9, <1>10 DEF CreateForm

\* A CREATE begins with nothing read.
LEMMA CreateBegins == ASSUME Init, statement = "CREATE" PROVE CreateForm
<1>1. PICK token \in Tokens : read = <<token>>
  BY DEF Init
<1>2. Len(read) = 1
  BY <1>1
<1>3. taken = SubSeq(read, 1, 0)
  BY <1>2 DEF taken, Front
<1>4. taken = <<>>
  BY <1>3, SubSeqEmpty
<1>5. pc = "CREATE" /\ items = <<>> /\ pkColumn = Unset /\ conditions = <<>>
  BY DEF Init
<1> QED  BY <1>4, <1>5 DEF CreateForm, CreateStart

\* A branch of the loop looks at the current token only, or at the whole list.
LEMMA CreateBranches ==
  ASSUME CreateForm, Branch
  PROVE  \/ CreateForm'
         \/ /\ pc = "columns" /\ currentToken = "close" /\ ~Sound(items, pkColumn)
            /\ pc' = "rejected"
<1>1. pc \in BranchPcs
  BY DEF Branch
<1>2. UNCHANGED <<read, statement, tableName, items, pkColumn, conditions>>
  BY DEF Branch
<1>3. taken' = taken /\ currentToken' = currentToken
  BY <1>2 DEF taken, currentToken
<1>4. tableName \in Idents
  BY <1>1 DEF CreateForm, CreateStart, BranchPcs
<1>5. ASSUME NEW list \in Seq(Element), Len(NamesIn(list, FALSE)) <= Len(list),
             \/ \E part \in Text : CreateBetween(list, part)'
             \/ \E c \in BOOLEAN, body \in Text : CreateWithin(list, c, body)'
      PROVE  CreateForm'
  <2>1. statement' = "CREATE" /\ conditions' = <<>> /\ tableName' \in Idents
    BY <1>2, <1>4 DEF CreateForm
  <2> QED  BY <1>5, <2>1 DEF CreateForm
<1>6. ASSUME NEW list \in Seq(Element), Len(NamesIn(list, FALSE)) <= Len(list),
             NEW part \in Text, CreateBetween(list, part)
      PROVE  \/ CreateForm'
             \/ /\ pc = "columns" /\ currentToken = "close" /\ ~Sound(items, pkColumn)
                /\ pc' = "rejected"
  <2>1. /\ taken = Main(CreateHead(tableName), ElementWords(list), part)
        /\ items = NamesIn(list, FALSE) /\ pkColumn = PkOf(list)
        /\ BetweenPlace(pc, currentToken, part, items, pkColumn)
    BY <1>6 DEF CreateBetween
  <2>2. pc = "columns" /\ part = <<>>
    BY <1>1, <2>1 DEF BetweenPlace, BranchPcs
  <2>3. pc' = AtColumns
    BY <2>2 DEF Branch
  <2>4. CASE currentToken = "close" /\ Sound(items, pkColumn)
    <3>1. pc' = "createClose"
      BY <2>3, <2>4 DEF AtColumns, Sound
    <3>2. BetweenPlace(pc', currentToken, part, items, pkColumn)
      BY <2>2, <2>4, <3>1 DEF BetweenPlace
    <3>3. CreateBetween(list, part)'
      BY <1>2, <1>3, <2>1, <3>2 DEF CreateBetween
    <3> QED  BY <1>5, <1>6, <3>3
  <2>5. CASE currentToken = "close" /\ ~Sound(items, pkColumn)
    <3>1. pc' = "rejected"
      BY <2>3, <2>5 DEF AtColumns, Sound
    <3> QED  BY <2>2, <2>5, <3>1
  <2>6. CASE currentToken = "comma"
    <3>1. pc' = "columnComma"
      BY <2>3, <2>6 DEF AtColumns
    <3>2. BetweenPlace(pc', currentToken, part, items, pkColumn)
      BY <2>2, <2>6, <3>1 DEF BetweenPlace
    <3>3. CreateBetween(list, part)'
      BY <1>2, <1>3, <2>1, <3>2 DEF CreateBetween
    <3> QED  BY <1>5, <1>6, <3>3
  <2>7. CASE currentToken # "close" /\ currentToken # "comma"
    <3>1. pc' = "column"
      BY <2>3, <2>7 DEF AtColumns
    <3>2. WithinPlace(pc', currentToken, FALSE, <<>>, items, pkColumn, items, pkColumn)
      BY <2>7, <3>1 DEF WithinPlace, CommaDone
    <3>3. Cat(Commas(FALSE), <<>>) = part /\ <<>> \in Text
      BY <2>2, EmptyText, CatEmpty DEF Commas
    <3>4. CreateWithin(list, FALSE, <<>>)'
      BY <1>2, <1>3, <2>1, <3>2, <3>3 DEF CreateWithin
    <3> QED  BY <1>5, <1>6, <3>3, <3>4
  <2> QED  BY <2>4, <2>5, <2>6, <2>7
<1>7. ASSUME NEW list \in Seq(Element), Len(NamesIn(list, FALSE)) <= Len(list),
             NEW c \in BOOLEAN, NEW body \in Text, CreateWithin(list, c, body)
      PROVE  CreateForm'
  <2>1. /\ taken = Main(CreateHead(tableName), ElementWords(list), Cat(Commas(c), body))
        /\ WithinPlace(pc, currentToken, c, body, NamesIn(list, FALSE), PkOf(list),
                       items, pkColumn)
    BY <1>7 DEF CreateWithin
  <2>2. /\ pc = "column" /\ body = <<>> /\ CommaDone(c, currentToken)
        /\ items = NamesIn(list, FALSE) /\ pkColumn = PkOf(list)
    BY <1>1, <2>1 DEF WithinPlace, BranchPcs
  <2>3. pc' = AtColumn
    BY <2>2 DEF Branch
  <2>4. WithinPlace(pc', currentToken, c, body, NamesIn(list, FALSE), PkOf(list),
                    items, pkColumn)
    BY <2>2, <2>3 DEF AtColumn, WithinPlace
  <2>5. CreateWithin(list, c, body)'
    BY <1>2, <1>3, <2>1, <2>4 DEF CreateWithin
  <2> QED  BY <1>5, <1>7, <2>5
<1>8. ~CreateStart(pc, tableName, taken)
  BY <1>1 DEF CreateStart, BranchPcs
<1> QED  BY <1>6, <1>7, <1>8 DEF CreateForm

\* A consume up to the columns.
LEMMA CreateStarts ==
  ASSUME TypeInv, Live, Consume, statement = "CREATE", conditions = <<>>,
         CreateStart(pc, tableName, taken), items = <<>>, pkColumn = Unset
  PROVE  CreateForm'
<1> DEFINE cur == currentToken
<1>1. cur \in Tokens /\ cur \in Expected[pc] /\ statement' = "CREATE"
  BY ReadParts, ConsumeKeeps
<1>2. taken' = Cat(taken, <<cur>>)
  BY ReadParts, ConsumeReads, ConsumeKeeps
<1>3. cur \in Identifiers => cur \in Idents
  BY NamesApart DEF Live
<1>4. /\ pkColumn' = Unset /\ conditions' = <<>> /\ items' = <<>>
      /\ (pc # "createName" => tableName' = tableName)
      /\ (pc = "createName" => tableName' = cur)
      /\ pc' = Following[pc]
  <2>1. pc \in {"CREATE", "TABLE", "createName", "createOpen"}
    BY DEF CreateStart
  <2> QED  BY <2>1, ConsumeKeeps
<1> HIDE DEF cur
<1>5. ASSUME CreateStart(pc', tableName', taken') PROVE CreateForm'
  BY <1>1, <1>4, <1>5 DEF CreateForm
<1>6. ASSUME pc = "CREATE", taken = <<>> PROVE CreateForm'
  <2>1. cur = "CREATE" /\ pc' = "TABLE"
    BY <1>1, <1>4, <1>6, ExpectedAt, FollowingAt
  <2>2. taken' = <<"CREATE">>
    BY <1>1, <1>2, <1>6, <2>1, OneToken
  <2> QED  BY <1>5, <2>1, <2>2 DEF CreateStart
<1>7. ASSUME pc = "TABLE", taken = <<"CREATE">> PROVE CreateForm'
  <2>1. cur = "TABLE" /\ pc' = "createName"
    BY <1>1, <1>4, <1>7, ExpectedAt, FollowingAt
  <2>2. taken' = <<"CREATE", "TABLE">>
    BY <1>2, <1>7, <2>1, CatOne
  <2> QED  BY <1>5, <2>1, <2>2 DEF CreateStart
<1>8. ASSUME pc = "createName", taken = <<"CREATE", "TABLE">> PROVE CreateForm'
  <2>1. cur \in Idents /\ pc' = "createOpen" /\ tableName' = cur
    BY <1>1, <1>3, <1>4, <1>8, ExpectedAt, FollowingAt
  <2>2. taken' = <<"CREATE", "TABLE", cur>>
    BY <1>2, <1>8, CatTwo
  <2> QED  BY <1>5, <2>1, <2>2 DEF CreateStart
<1>9. ASSUME pc = "createOpen", tableName \in Idents,
             taken = <<"CREATE", "TABLE", tableName>>
      PROVE  CreateForm'
  <2>1. cur = "open" /\ pc' = "columns" /\ tableName' = tableName
    BY <1>1, <1>4, <1>9, ExpectedAt, FollowingAt
  <2>2. taken' = CreateHead(tableName)
    BY <1>2, <1>9, <2>1, CatThree DEF CreateHead
  <2>3. ElementWords(<<>>) = <<>> /\ <<>> \in Seq(Element)
    BY DEF ElementWords
  <2>4. NamesIn(<<>>, FALSE) = <<>> /\ PkOf(<<>>) = Unset
    <3>1. ASSUME NEW pk \in BOOLEAN PROVE NamesIn(<<>>, pk) = <<>>
      <4> DEFINE none == <<>>
                 ws == [i \in DOMAIN none |-> IF none[i].pk = pk THEN <<none[i].name>>
                                                                ELSE <<>>]
      <4>1. ws = <<>>
        OBVIOUS
      <4>2. NamesIn(none, pk) = FlattenSeq(ws)
        BY DEF NamesIn
      <4> HIDE DEF ws
      <4> QED  BY <4>1, <4>2, FlattenEmpty
    <3> QED  BY <3>1 DEF PkOf
  <2>5. Main(CreateHead(tableName), <<>>, <<>>) = CreateHead(tableName)
    BY <1>9, CreateHeadIs, MainStart
  <2>6. BetweenPlace(pc', currentToken', <<>>, items', pkColumn')
    BY <2>1 DEF BetweenPlace
  <2>7. CreateBetween(<<>>, <<>>)'
    BY <1>4, <2>1, <2>2, <2>3, <2>4, <2>5, <2>6 DEF CreateBetween
  <2>8. tableName' \in Idents /\ <<>> \in Text /\ Len(NamesIn(<<>>, FALSE)) <= Len(<<>>)
    <3>1. \A none : none = <<>> => Len(none) <= Len(<<>>)
      OBVIOUS
    <3>2. Len(NamesIn(<<>>, FALSE)) <= Len(<<>>)
      BY <2>4, <3>1
    <3> QED  BY <1>9, <2>1, <3>2, EmptyText
  <2> QED  BY <1>1, <1>4, <2>3, <2>7, <2>8 DEF CreateForm
<1> QED  BY <1>6, <1>7, <1>8, <1>9 DEF CreateStart

\* A consume between two elements takes the comma, or ends the list.
LEMMA CreateBetweens ==
  ASSUME TypeInv, Live, Consume, statement = "CREATE", conditions = <<>>,
         tableName \in Idents, NEW list \in Seq(Element),
         Len(NamesIn(list, FALSE)) <= Len(list),
         NEW part \in Text, CreateBetween(list, part)
  PROVE  CreateForm'
<1> DEFINE cur == currentToken
           h == CreateHead(tableName)
<1>1. cur \in Tokens /\ <<cur>> \in Text /\ cur \in Expected[pc] /\ pc \in ConsumePcs
      /\ statement' = "CREATE"
  BY ReadParts, ConsumeKeeps
<1>2. taken' = Cat(taken, <<cur>>)
  BY ReadParts, ConsumeReads, ConsumeKeeps
<1>3. /\ taken = Main(h, ElementWords(list), part)
      /\ items = NamesIn(list, FALSE) /\ pkColumn = PkOf(list)
      /\ BetweenPlace(pc, cur, part, items, pkColumn)
  BY DEF CreateBetween
<1>4. pc \in {"columnComma", "createClose"} /\ part = <<>>
      /\ (pc = "createClose" => Sound(items, pkColumn))
  BY <1>1, <1>3, Places DEF BetweenPlace
<1>5. UNCHANGED <<tableName, items, pkColumn, conditions>> /\ pc' = Following[pc]
  BY <1>4, ConsumeKeeps
<1> HIDE DEF cur
<1>6. h \in Text /\ ElementWords(list) \in Seq(Text)
  BY CreateHeadIs, ElementsSeq
<1>7. taken' = Main(h, ElementWords(list), <<cur>>)
  <2>1. Cat(<<>>, <<cur>>) = <<cur>> /\ <<>> \in Text
    BY <1>1, OneToken, EmptyText
  <2>2. taken = Main(h, ElementWords(list), <<>>)
    BY <1>3, <1>4
  <2>3. Cat(Main(h, ElementWords(list), <<>>), <<cur>>)
          = Main(h, ElementWords(list), Cat(<<>>, <<cur>>))
    BY <1>1, <1>6, <2>1, MainText
  <2> QED  BY <1>2, <2>1, <2>2, <2>3
<1>8. CASE pc = "columnComma"
  <2>1. cur = "comma" /\ pc' = "column"
    BY <1>1, <1>5, <1>8, ExpectedAt, FollowingAt
  <2>2. Cat(Commas(TRUE), <<>>) = <<"comma">>
    BY CreateWords, OneToken, CatEmpty DEF Commas
  <2>3. WithinPlace(pc', currentToken', TRUE, <<>>, items, pkColumn, items, pkColumn)
    BY <2>1 DEF WithinPlace, CommaDone
  <2>4. CreateWithin(list, TRUE, <<>>)'
    BY <1>3, <1>5, <1>7, <2>1, <2>2, <2>3 DEF CreateWithin
  <2> QED  BY <1>1, <1>5, <2>4, EmptyText DEF CreateForm
<1>9. CASE pc = "createClose"
  <2>1. cur = "close" /\ pc' = "accepted"
    BY <1>1, <1>5, <1>9, ExpectedAt, FollowingAt
  <2>2. BetweenPlace(pc', currentToken', <<"close">>, items, pkColumn)
    BY <1>4, <1>9, <2>1 DEF BetweenPlace
  <2>3. CreateBetween(list, <<"close">>)'
    BY <1>3, <1>5, <1>7, <2>1, <2>2 DEF CreateBetween
  <2> QED  BY <1>1, <1>5, <2>1, <2>3 DEF CreateForm
<1> QED  BY <1>4, <1>8, <1>9

\* A consume within an element takes one more token of it; the last one makes it
\* one of the elements read.  A column that no longer fits is the last token of
\* the input.
LEMMA CreateWithins ==
  ASSUME TypeInv, Live, Consume, statement = "CREATE", conditions = <<>>,
         tableName \in Idents, NEW list \in Seq(Element),
         Len(NamesIn(list, FALSE)) <= Len(list),
         NEW c \in BOOLEAN, NEW body \in Text, CreateWithin(list, c, body),
         pc # "columnType" \/ currentToken \in Types
  PROVE  CreateForm' \/ (~Live' /\ pc' # "accepted")
<1> DEFINE cur == currentToken
           h == CreateHead(tableName)
           k == Commas(c)
           b == Cat(body, <<cur>>)
           names == NamesIn(list, FALSE)
           pk == PkOf(list)
<1>1. /\ cur \in Tokens /\ <<cur>> \in Text /\ cur \in Expected[pc] /\ pc \in ConsumePcs
      /\ statement' = "CREATE" /\ taken \in Text /\ Len(read) = Len(taken) + 1
  BY ReadParts, ConsumeKeeps
<1>2. taken' = Cat(taken, <<cur>>) /\ (Len(read) >= MaxTokens => ~Live')
  BY ReadParts, ConsumeReads, ConsumeKeeps
<1>3. /\ taken = Main(h, ElementWords(list), Cat(k, body))
      /\ WithinPlace(pc, cur, c, body, names, pk, items, pkColumn)
  BY DEF CreateWithin
<1>4. cur \in Identifiers => cur \in Idents
  BY NamesApart DEF Live
<1>5. pc # "columnType" \/ cur = "INT"
  BY DEF Types
<1>6. /\ UNCHANGED <<tableName, conditions>>
      /\ (pc = "columnName" => items' = Appended(items, cur))
      /\ (pc # "columnName" => items' = items)
      /\ (pc = "pkName" => pkColumn' = cur) /\ (pc # "pkName" => pkColumn' = pkColumn)
      /\ pc' = Following[pc]
  <2>1. pc \in {"columnName", "PRIMARY", "KEY", "pkOpen", "pkName", "columnType", "pkClose"}
    BY <1>1, <1>3, Places DEF WithinPlace
  <2>2. /\ UNCHANGED <<tableName, conditions>>
        /\ (pc = "columnName" => items' = Appended(items, cur))
        /\ (pc # "columnName" => items' = items)
        /\ (pc = "pkName" => pkColumn' = cur) /\ (pc # "pkName" => pkColumn' = pkColumn)
    BY <2>1, ConsumeKeeps
  <2>3. pc' = Following[pc]
    BY <1>5 DEF Consume, Types
  <2> QED  BY <2>2, <2>3
<1> HIDE DEF cur
<1>7. k \in Text /\ h \in Text /\ ElementWords(list) \in Seq(Text) /\ b \in Text
  <2>1. k \in Text
    BY OneToken, CreateWords, EmptyText DEF Commas
  <2> QED  BY <1>1, <2>1, CatType, CreateHeadIs, ElementsSeq
<1>8. taken' = Main(h, ElementWords(list), Cat(k, b))
  <2>1. Cat(k, body) \in Text
    BY <1>7, CatType
  <2>2. Cat(Cat(k, body), <<cur>>) = Cat(k, b)
    BY <1>1, <1>7, CatAssoc
  <2>3. taken' = Main(h, ElementWords(list), Cat(Cat(k, body), <<cur>>))
    BY <1>1, <1>2, <1>3, <1>7, <2>1, MainText
  <2> QED  BY <2>2, <2>3
<1> HIDE DEF k, b
<1>9. ASSUME NEW q \in Text, q = b,
             WithinPlace(pc', currentToken', c, q, names, pk, items', pkColumn')
      PROVE  CreateForm'
  <2>1. CreateWithin(list, c, q)'
    BY <1>6, <1>8, <1>9 DEF CreateWithin, k
  <2> QED  BY <1>1, <1>6, <1>9, <2>1 DEF CreateForm
<1>10. ASSUME NEW e \in Element, e.comma = c, ElementBody(e) = b, pc' = "columns",
              items' = IF e.pk THEN names ELSE Append(names, e.name),
              pkColumn' = IF e.pk THEN e.name ELSE pk
       PROVE  CreateForm'
  <2> DEFINE more == Append(list, e)
  <2>1. ElementTokens(e) = Cat(k, b) /\ ElementTokens(e) \in Text /\ e.pk \in BOOLEAN
    BY <1>10, ElementText DEF k
  <2>2. /\ more \in Seq(Element)
        /\ ElementWords(more) = Append(ElementWords(list), ElementTokens(e))
        /\ NamesIn(more, FALSE) = items' /\ PkOf(more) = pkColumn'
    BY <1>10, ElementsAppend
  <2>3. taken' = Main(h, ElementWords(more), <<>>)
    BY <1>7, <1>8, <2>1, <2>2, MainText
  <2>4. Len(items') <= Len(more)
    <3>1. Len(more) = Len(list) + 1 /\ Len(list) \in Nat
      OBVIOUS
    <3>2. names \in Text
      BY ElementsAppend
    <3>3. Len(names) \in Nat /\ Len(Append(names, e.name)) = Len(names) + 1
      <4>1. e.name \in Tokens
        BY ElementText, CreateWords
      <4> HIDE DEF names
      <4> QED  BY <3>2, <4>1 DEF Text
    <3>4. Len(items') = Len(names) \/ Len(items') = Len(names) + 1
      <4>1. e.pk \in BOOLEAN
        BY ElementText
      <4>2. CASE e.pk
        BY <1>10, <4>2
      <4>3. CASE ~e.pk
        BY <1>10, <3>3, <4>3
      <4> QED  BY <4>1, <4>2, <4>3
    <3>5. Len(names) <= Len(list)
      OBVIOUS
    <3> HIDE DEF more, names
    <3> QED  BY <3>1, <3>3, <3>4, <3>5
  <2> HIDE DEF more
  <2>5. BetweenPlace(pc', currentToken', <<>>, items', pkColumn')
    BY <1>10 DEF BetweenPlace
  <2>6. CreateBetween(more, <<>>)'
    BY <1>6, <2>2, <2>3, <2>5 DEF CreateBetween
  <2> QED  BY <1>1, <1>6, <2>2, <2>4, <2>6, EmptyText DEF CreateForm
<1> HIDE DEF h, names, pk
<1>11. CASE pc = "columnName"
  <2>1. cur \in Idents /\ pc' = "columnType" /\ items' = Appended(items, cur)
        /\ pkColumn' = pkColumn
    BY <1>1, <1>4, <1>6, <1>11, ExpectedAt, FollowingAt
  <2>2. items = names /\ pkColumn = pk /\ body = <<>>
    BY <1>3, <1>11 DEF WithinPlace
  <2>3. b = <<cur>>
    BY <1>1, <2>2, OneToken DEF b
  <2>4. CASE Len(items) < MaxItems
    <3>1. items' = Append(names, cur)
      BY <2>1, <2>2, <2>4 DEF Appended
    <3>2. WithinPlace(pc', currentToken', c, b, names, pk, items', pkColumn')
      BY <2>1, <2>2, <2>3, <3>1 DEF WithinPlace
    <3> QED  BY <1>7, <1>9, <3>2
  <2>5. CASE ~(Len(items) < MaxItems)
    <3>1. /\ MaxItems \in Nat /\ MaxItems >= 1 /\ MaxTokens <= MaxItems + 6
          /\ MaxTokens \in Nat /\ Len(list) \in Nat
      BY ParserAssumption
    <3>2. Len(items) \in Nat /\ Len(items) <= Len(list)
      <4>1. Len(names) <= Len(list)
        BY DEF names
      <4>2. items \in Seq(Identifiers \cup {"star"})
        BY DEF TypeInv, TypeOK
      <4> QED  BY <2>2, <4>1, <4>2
    <3>3. Len(FlattenSeq(ElementWords(list))) >= 2 * Len(list)
          /\ Len(FlattenSeq(ElementWords(list))) \in Nat
      BY ElementsSeq, TextLen
    <3>4. Len(taken) = Len(h) + Len(FlattenSeq(ElementWords(list))) + Len(Cat(k, body))
      <4>1. Cat(k, body) \in Text
        BY <1>7, CatType
      <4> QED  BY <1>3, <1>7, <4>1, MainText
    <3>5. Len(h) = 4 /\ Len(Cat(k, body)) \in Nat
      <4>1. Cat(k, body) \in Text
        BY <1>7, CatType
      <4>2. Len(h) = 4
        BY CreateHeadIs DEF h
      <4> QED  BY <4>1, <4>2, TextLen
    <3>6. Len(read) >= MaxTokens
      BY <1>1, <2>5, <3>1, <3>2, <3>3, <3>4, <3>5
    <3> QED  BY <1>2, <2>1, <3>6
  <2> QED  BY <2>4, <2>5
<1>12. CASE pc = "PRIMARY"
  <2>1. cur = "PRIMARY" /\ pc' = "KEY" /\ items' = items /\ pkColumn' = pkColumn
    BY <1>1, <1>6, <1>12, ExpectedAt, FollowingAt
  <2>2. items = names /\ pkColumn = pk /\ body = <<>>
    BY <1>3, <1>12 DEF WithinPlace
  <2>3. b = <<"PRIMARY">>
    BY <1>1, <2>1, <2>2, OneToken DEF b
  <2>4. WithinPlace(pc', currentToken', c, b, names, pk, items', pkColumn')
    BY <2>1, <2>2, <2>3 DEF WithinPlace
  <2> QED  BY <1>7, <1>9, <2>4
<1>13. CASE pc = "KEY"
  <2>1. cur = "KEY" /\ pc' = "pkOpen" /\ items' = items /\ pkColumn' = pkColumn
    BY <1>1, <1>6, <1>13, ExpectedAt, FollowingAt
  <2>2. items = names /\ pkColumn = pk /\ body = <<"PRIMARY">>
    BY <1>3, <1>13 DEF WithinPlace
  <2>3. b = <<"PRIMARY", "KEY">>
    BY <2>1, <2>2, CatOne DEF b
  <2>4. WithinPlace(pc', currentToken', c, b, names, pk, items', pkColumn')
    BY <2>1, <2>2, <2>3 DEF WithinPlace
  <2> QED  BY <1>7, <1>9, <2>4
<1>14. CASE pc = "pkOpen"
  <2>1. cur = "open" /\ pc' = "pkName" /\ items' = items /\ pkColumn' = pkColumn
    BY <1>1, <1>6, <1>14, ExpectedAt, FollowingAt
  <2>2. items = names /\ pkColumn = pk /\ body = <<"PRIMARY", "KEY">>
    BY <1>3, <1>14 DEF WithinPlace
  <2>3. b = <<"PRIMARY", "KEY", "open">>
    BY <2>1, <2>2, CatTwo DEF b
  <2>4. WithinPlace(pc', currentToken', c, b, names, pk, items', pkColumn')
    BY <2>1, <2>2, <2>3 DEF WithinPlace
  <2> QED  BY <1>7, <1>9, <2>4
<1>15. CASE pc = "pkName"
  <2>1. cur \in Idents /\ pc' = "pkClose" /\ items' = items /\ pkColumn' = cur
    BY <1>1, <1>4, <1>6, <1>15, ExpectedAt, FollowingAt
  <2>2. items = names /\ body = <<"PRIMARY", "KEY", "open">>
    BY <1>3, <1>15 DEF WithinPlace
  <2>3. b = <<"PRIMARY", "KEY", "open", cur>>
    BY <2>2, CatThree DEF b
  <2>4. WithinPlace(pc', currentToken', c, b, names, pk, items', pkColumn')
    BY <2>1, <2>2, <2>3 DEF WithinPlace
  <2> QED  BY <1>7, <1>9, <2>4
<1>16. CASE pc = "columnType"
  <2>1. cur = "INT" /\ pc' = "columns" /\ items' = items /\ pkColumn' = pkColumn
    BY <1>5, <1>6, <1>16, FollowingAt
  <2>2. PICK n \in Idents : body = <<n>> /\ items = Append(names, n) /\ pkColumn = pk
    BY <1>3, <1>16 DEF WithinPlace
  <2>3. b = <<n, "INT">>
    BY <2>1, <2>2, CatOne DEF b
  <2> DEFINE e == [comma |-> c, name |-> n, pk |-> FALSE]
  <2>4. e \in Element /\ e.comma = c /\ e.name = n /\ e.pk = FALSE
    BY DEF Element
  <2> HIDE DEF e
  <2>5. ElementBody(e) = b
    BY <2>3, <2>4 DEF ElementBody
  <2> QED  BY <1>10, <2>1, <2>2, <2>4, <2>5
<1>17. CASE pc = "pkClose"
  <2>1. cur = "close" /\ pc' = "columns" /\ items' = items /\ pkColumn' = pkColumn
    BY <1>1, <1>6, <1>17, ExpectedAt, FollowingAt
  <2>2. PICK n \in Idents : body = <<"PRIMARY", "KEY", "open", n>> /\ pkColumn = n
    BY <1>3, <1>17 DEF WithinPlace
  <2>3. b = <<"PRIMARY", "KEY", "open", n, "close">> /\ items = names
    BY <1>3, <1>17, <2>1, <2>2, CatFour DEF b, WithinPlace
  <2> DEFINE e == [comma |-> c, name |-> n, pk |-> TRUE]
  <2>4. e \in Element /\ e.comma = c /\ e.name = n /\ e.pk = TRUE
    BY DEF Element
  <2> HIDE DEF e
  <2>5. ElementBody(e) = b
    BY <2>3, <2>4 DEF ElementBody
  <2> QED  BY <1>10, <2>1, <2>2, <2>3, <2>4, <2>5
<1>18. pc \in {"columnName", "PRIMARY", "KEY", "pkOpen", "pkName", "columnType", "pkClose"}
  BY <1>1, <1>3, Places DEF WithinPlace
<1> QED  BY <1>11, <1>12, <1>13, <1>14, <1>15, <1>16, <1>17, <1>18

\* So a consume leaves a CREATE in its place, but for a type that is none.
LEMMA CreateConsumes ==
  ASSUME TypeInv, CreateForm, Live, Consume,
         pc # "columnType" \/ currentToken \in Types
  PROVE  CreateForm' \/ (~Live' /\ pc' # "accepted")
<1>1. statement = "CREATE" /\ conditions = <<>>
  BY DEF CreateForm
<1>2. CASE CreateStart(pc, tableName, taken) /\ items = <<>> /\ pkColumn = Unset
  BY <1>1, <1>2, CreateStarts
<1>3. ASSUME tableName \in Idents, NEW list \in Seq(Element),
             Len(NamesIn(list, FALSE)) <= Len(list)
      PROVE  /\ \A part \in Text : CreateBetween(list, part) => CreateForm'
             /\ \A c \in BOOLEAN, body \in Text :
                  CreateWithin(list, c, body) => CreateForm' \/ (~Live' /\ pc' # "accepted")
  <2>1. ASSUME NEW part \in Text, CreateBetween(list, part) PROVE CreateForm'
    BY <1>1, <1>3, <2>1, CreateBetweens
  <2>2. ASSUME NEW c \in BOOLEAN, NEW body \in Text, CreateWithin(list, c, body)
        PROVE  CreateForm' \/ (~Live' /\ pc' # "accepted")
    BY <1>1, <1>3, <2>2, CreateWithins
  <2> QED  BY <2>1, <2>2
<1> QED  BY <1>2, <1>3 DEF CreateForm

-------------------------------------------------------------------------------
(***************************************************************************)
(* SELECT                                                                  *)
(***************************************************************************)

\* What a field may be: a name, or the star.
Fields == Idents \cup {"star"}

\* A condition, as a text: the first is written with another keyword.
CondWords(conds) ==
  [i \in DOMAIN conds |-> <<IF i = 1 THEN "WHERE" ELSE "AND", conds[i][1], "op", conds[i][2]>>]
CondCode ==
  { w \in Text : /\ Len(w) = 4 /\ w[1] \in {"WHERE", "AND"}
                 /\ w[2] \in Idents /\ w[3] = "op" /\ w[4] \in Idents }
CondKeyword(conds) == IF conds = <<>> THEN "WHERE" ELSE "AND"

\* The tokens of a SELECT, and what is not a name.
LEMMA SelectWords ==
  /\ Idents \in SUBSET Tokens /\ Fields \in SUBSET Tokens /\ Idents \subseteq Fields
  /\ "SELECT" \in Tokens /\ "FROM" \in Tokens /\ "WHERE" \in Tokens /\ "AND" \in Tokens
  /\ "comma" \in Tokens /\ "semicolon" \in Tokens /\ "op" \in Tokens
  /\ "comma" \notin Fields /\ "FROM" \notin Fields /\ "semicolon" \notin Idents
  /\ <<"semicolon">> \in Text /\ <<"semicolon">> # <<>> /\ <<"semicolon">>[1] = "semicolon"
  /\ Fields \subseteq Identifiers \cup {"star"}
<1>1. /\ "SELECT" \in Tokens /\ "FROM" \in Tokens /\ "WHERE" \in Tokens /\ "AND" \in Tokens
      /\ "comma" \in Tokens /\ "semicolon" \in Tokens /\ "star" \in Tokens
  BY NamesApart DEF Keywords, Symbols
<1>2. "comma" \notin Idents /\ "FROM" \notin Idents /\ "semicolon" \notin Idents
  BY NamesApart DEF Keywords, Symbols
<1>3. "comma" # "star" /\ "FROM" # "star"
  OBVIOUS
<1>4. <<"semicolon">> \in Text
  BY <1>1, OneToken
<1>5. <<"semicolon">> # <<>> /\ <<"semicolon">>[1] = "semicolon"
  OBVIOUS
<1> QED  BY <1>1, <1>2, <1>3, <1>4, <1>5, NamesApart DEF Fields

\* Conditions can be read one after the other.
LEMMA CondsPrefixFree == CondCode \in SUBSET Text /\ PrefixFree(CondCode)
<1>1. CondCode \in SUBSET Text
  BY DEF CondCode
<1>2. ASSUME NEW v \in CondCode, NEW w \in CondCode
      PROVE  v # <<>> /\ (Begins(v, w) => v = w)
  <2>1. v \in Seq(Tokens) /\ w \in Seq(Tokens) /\ Len(v) = 4 /\ Len(w) = 4
    BY DEF CondCode, Text
  <2>2. ASSUME Begins(v, w) PROVE v = w
    <3>1. \A i \in 1 .. 4 : w[i] = v[i]
      BY <2>1, <2>2 DEF Begins
    <3> QED  BY <2>1, <3>1
  <2> QED  BY <2>1, <2>2
<1> QED  BY <1>1, <1>2 DEF PrefixFree

\* A condition as a word.
LEMMA CondText ==
  ASSUME NEW k \in {"WHERE", "AND"}, NEW c \in Idents, NEW v \in Idents
  PROVE  <<k, c, "op", v>> \in CondCode
<1>1. k \in Tokens /\ c \in Tokens /\ "op" \in Tokens /\ v \in Tokens
  BY SelectWords
<1> DEFINE w == <<k, c, "op", v>>
<1>2. w \in Text
  BY <1>1, FourTokens
<1>3. Len(w) = 4 /\ w[1] = k /\ w[2] = c /\ w[3] = "op" /\ w[4] = v
  OBVIOUS
<1> HIDE DEF w
<1>4. w \in CondCode
  BY <1>2, <1>3 DEF CondCode
<1> QED  BY <1>4 DEF w

\* Conditions, one after the other.
LEMMA CondsSeq ==
  ASSUME NEW conds \in Seq(Idents \X Idents)
  PROVE  /\ CondWords(conds) \in Seq(CondCode) /\ CondWords(conds) \in Seq(Text)
         /\ Len(CondWords(conds)) = Len(conds)
         /\ FlattenSeq(CondWords(conds)) \in Text
         /\ \A i \in DOMAIN conds :
              CondWords(conds)[i][1] = IF i = 1 THEN "WHERE" ELSE "AND"
<1> DEFINE ws == CondWords(conds)
<1>1. DOMAIN ws = 1 .. Len(conds) /\ Len(conds) \in Nat /\ DOMAIN conds = 1 .. Len(conds)
  BY DEF CondWords
<1>2. ASSUME NEW i \in DOMAIN conds
      PROVE  ws[i] \in CondCode /\ ws[i][1] = IF i = 1 THEN "WHERE" ELSE "AND"
  <2> DEFINE k == IF i = 1 THEN "WHERE" ELSE "AND"
             c == conds[i][1]
             v == conds[i][2]
  <2>1. ws[i] = <<k, c, "op", v>>
    BY DEF CondWords
  <2>2. c \in Idents /\ v \in Idents
    <3>1. conds[i] \in Idents \X Idents
      OBVIOUS
    <3> QED  BY <3>1
  <2>3. k \in {"WHERE", "AND"}
    OBVIOUS
  <2> HIDE DEF ws, k, c, v
  <2>4. ws[i] \in CondCode
    BY <2>1, <2>2, <2>3, CondText
  <2>5. ws[i][1] = k
    BY <2>1
  <2> QED  BY <2>4, <2>5 DEF k
<1> HIDE DEF ws
<1>3. ws \in Seq(CondCode)
  <2>1. \E n \in Nat : ws \in [1 .. n -> CondCode]
    <3>1. ws = [i \in 1 .. Len(conds) |-> ws[i]]
      BY <1>1 DEF ws, CondWords
    <3> QED  BY <1>1, <1>2, <3>1
  <2> QED  BY <2>1
<1>4. ws \in Seq(Text)
  BY <1>3, CondsPrefixFree
<1>5. Len(ws) = Len(conds)
  BY <1>1, <1>3
<1> QED  BY <1>1, <1>2, <1>3, <1>4, <1>5, FlattenType DEF ws

\* One more condition.
LEMMA CondsAppend ==
  ASSUME NEW conds \in Seq(Idents \X Idents), NEW c \in Idents, NEW v \in Idents
  PROVE  /\ Append(conds, <<c, v>>) \in Seq(Idents \X Idents)
         /\ CondWords(Append(conds, <<c, v>>))
              = Append(CondWords(conds), <<CondKeyword(conds), c, "op", v>>)
<1> DEFINE more == Append(conds, <<c, v>>)
           n == Len(conds)
           w == <<CondKeyword(conds), c, "op", v>>
           us == CondWords(more)
           vs == Append(CondWords(conds), w)
<1>1. /\ more \in Seq(Idents \X Idents) /\ n \in Nat /\ DOMAIN more = 1 .. n + 1
      /\ (\A i \in 1 .. n : more[i] = conds[i]) /\ more[n + 1] = <<c, v>>
  OBVIOUS
<1>2. CondWords(conds) \in Seq(Text) /\ Len(CondWords(conds)) = n
  BY CondsSeq
<1>3. w \in Text
  <2>1. CondKeyword(conds) \in {"WHERE", "AND"}
    BY DEF CondKeyword
  <2>2. w \in CondCode
    BY <2>1, CondText
  <2> QED  BY <2>2, CondsPrefixFree
<1> HIDE DEF w
<1>4. /\ vs \in Seq(Text) /\ Len(vs) = n + 1 /\ vs[n + 1] = w
      /\ \A i \in 1 .. n : vs[i] = CondWords(conds)[i]
  BY <1>1, <1>2, <1>3
<1>5. us \in Seq(Text) /\ Len(us) = n + 1
  <2>1. Len(more) = n + 1
    OBVIOUS
  <2> HIDE DEF more
  <2> QED  BY <1>1, <2>1, CondsSeq
<1>6. ASSUME NEW i \in 1 .. n PROVE us[i] = vs[i]
  <2>1. us[i] = <<IF i = 1 THEN "WHERE" ELSE "AND", more[i][1], "op", more[i][2]>>
    BY <1>1 DEF CondWords
  <2>2. CondWords(conds)[i]
          = <<IF i = 1 THEN "WHERE" ELSE "AND", conds[i][1], "op", conds[i][2]>>
    BY <1>1 DEF CondWords
  <2> HIDE DEF us, vs, more
  <2> QED  BY <1>1, <1>4, <2>1, <2>2
<1>7. us[n + 1] = vs[n + 1]
  <2>1. us[n + 1]
          = <<IF n + 1 = 1 THEN "WHERE" ELSE "AND", more[n + 1][1], "op", more[n + 1][2]>>
    BY <1>1 DEF CondWords
  <2>2. (n + 1 = 1) <=> (conds = <<>>)
    OBVIOUS
  <2>3. more[n + 1][1] = c /\ more[n + 1][2] = v
    BY <1>1
  <2>4. (IF n + 1 = 1 THEN "WHERE" ELSE "AND") = CondKeyword(conds)
    BY <2>2 DEF CondKeyword
  <2> HIDE DEF us, vs, more
  <2>5. us[n + 1] = <<CondKeyword(conds), c, "op", v>>
    BY <2>1, <2>3, <2>4, Zenon
  <2> QED  BY <1>4, <2>5 DEF w
<1>8. us = vs
  <2> HIDE DEF us, vs
  <2>1. \A i \in 1 .. n + 1 : us[i] = vs[i]
    BY <1>1, <1>6, <1>7
  <2> QED  BY <1>4, <1>5, <2>1
<1> QED  BY <1>1, <1>8 DEF w

\* What stands behind the fields.
SelectTail(tb, conds, q) == Main(<<"FROM", tb>>, CondWords(conds), q)

\* It starts with the table's name.
LEMMA TailIs ==
  ASSUME NEW tb \in Idents, NEW conds \in Seq(Idents \X Idents), NEW q \in Text
  PROVE  /\ SelectTail(tb, conds, q) \in Text /\ Len(SelectTail(tb, conds, q)) >= 2
         /\ SelectTail(tb, conds, q)[1] = "FROM" /\ SelectTail(tb, conds, q)[2] = tb
         /\ <<"FROM", tb>> \in Text
<1> DEFINE h == <<"FROM", tb>>
           ws == CondWords(conds)
<1>1. h \in Text
  <2>1. "FROM" \in Tokens /\ tb \in Tokens
    BY SelectWords
  <2> QED  BY <2>1, TwoTokens
<1>2. Len(h) = 2 /\ h[1] = "FROM" /\ h[2] = tb
  OBVIOUS
<1>3. ws \in Seq(Text)
  BY CondsSeq
<1> HIDE DEF h, ws
<1>4. /\ Main(h, ws, q) \in Text
      /\ Len(Main(h, ws, q)) = Len(h) + Len(FlattenSeq(ws)) + Len(q)
      /\ \A i \in 1 .. Len(h) : Main(h, ws, q)[i] = h[i]
  BY <1>1, <1>3, MainText
<1>5. Len(FlattenSeq(ws)) \in Nat /\ Len(q) \in Nat
  BY <1>3, FlattenType, TextLen
<1>6. Len(Main(h, ws, q)) >= 2
  BY <1>2, <1>4, <1>5
<1>7. Main(h, ws, q)[1] = "FROM" /\ Main(h, ws, q)[2] = tb
  BY <1>2, <1>4
<1> QED  BY <1>1, <1>4, <1>6, <1>7, Zenon DEF SelectTail, h, ws

\* The word in front of the table's name.
LEMMA TailFirst ==
  ASSUME NEW tb \in Idents, NEW conds \in Seq(Idents \X Idents), NEW q \in Text
  PROVE  SelectTail(tb, conds, q)[1] = "FROM"
BY TailIs, ZenonT(40)

\* The table's name.
LEMMA TailSecond ==
  ASSUME NEW tb \in Idents, NEW conds \in Seq(Idents \X Idents), NEW q \in Text
  PROVE  SelectTail(tb, conds, q)[2] = tb
BY TailIs

\* More behind it comes behind its end.
LEMMA TailGrows ==
  ASSUME NEW tb \in Idents, NEW conds \in Seq(Idents \X Idents), NEW q \in Text,
         NEW u \in Text
  PROVE  Cat(SelectTail(tb, conds, q), u) = SelectTail(tb, conds, Cat(q, u))
<1>1. <<"FROM", tb>> \in Text /\ CondWords(conds) \in Seq(Text)
  BY TailIs, CondsSeq
<1> QED  BY <1>1, MainText DEF SelectTail

\* A SELECT sentence in its three parts.
LEMMA SelectSentenceOf ==
  ASSUME NEW tb \in Idents, NEW list \in Seq(Item(Fields)),
         NEW conds \in Seq(Idents \X Idents)
  PROVE  SelectSentence(tb, list, conds)
           = Sentence("SELECT",
                      Main(<<"SELECT">>, ItemWords(list),
                           SelectTail(tb, conds, <<"semicolon">>)),
                      tb, NamesOf(list), Unset, conds)
<1> DEFINE f == FlattenSeq(ItemWords(list))
           g == FlattenSeq(CondWords(conds))
           q == <<"semicolon">>
           k == <<"SELECT">>
           h == <<"FROM", tb>>
           t == Cat(Cat(Cat(Cat(k, f), h), g), q)
<1>1. SelectSentence(tb, list, conds)
        = Sentence("SELECT", t, tb, NamesOf(list), Unset, conds)
  <2>1. ConditionTokens(conds) = g
    BY Zenon DEF ConditionTokens, CondWords
  <2>2. FlattenSeq([i \in DOMAIN list |-> ItemTokens(list[i])]) = f
    BY Zenon DEF ItemWords
  <2> HIDE DEF f, g
  <2>3. t = <<"SELECT">> \o f \o <<"FROM", tb>> \o g \o <<"semicolon">>
    BY Zenon DEF Cat
  <2> HIDE DEF t
  <2> QED  BY <2>1, <2>2, <2>3, Zenon DEF SelectSentence
<1>2. f \in Text /\ g \in Text
  BY SelectWords, ItemsSeq, CondsSeq
<1>3. q \in Text /\ k \in Text /\ h \in Text
  <2>1. "SELECT" \in Tokens /\ "FROM" \in Tokens /\ tb \in Tokens /\ q \in Text
    BY SelectWords
  <2> QED  BY <2>1, OneToken, TwoTokens
<1> HIDE DEF f, g, q, k, h
<1>4. t = Cat(k, Cat(f, Cat(h, Cat(g, q))))
  <2>1. /\ Cat(k, f) \in Text /\ Cat(g, q) \in Text /\ Cat(h, Cat(g, q)) \in Text
        /\ Cat(Cat(k, f), h) \in Text
    BY <1>2, <1>3, CatType
  <2>2. t = Cat(Cat(Cat(k, f), h), Cat(g, q))
    BY <1>2, <1>3, <2>1, CatAssoc
  <2>3. Cat(Cat(Cat(k, f), h), Cat(g, q)) = Cat(Cat(k, f), Cat(h, Cat(g, q)))
    BY <1>3, <2>1, CatAssoc
  <2>4. Cat(Cat(k, f), Cat(h, Cat(g, q))) = Cat(k, Cat(f, Cat(h, Cat(g, q))))
    BY <1>2, <1>3, <2>1, CatAssoc
  <2> QED  BY <2>2, <2>3, <2>4
<1>5. t = Main(k, ItemWords(list), SelectTail(tb, conds, q))
  BY <1>4, Zenon DEF Main, SelectTail, f, g, h
<1> HIDE DEF t
<1> QED  BY <1>1, <1>5, Zenon DEF q, k

\* How the SELECT sentences are written.
LEMMA SelectSentenceIs ==
  ASSUME NEW s \in Sentences, s.statement = "SELECT"
  PROVE  /\ s.tokens \in Text
         /\ \E tb \in Idents, list \in Seq(Item(Fields)), conds \in Seq(Idents \X Idents) :
              /\ s.tokens = Main(<<"SELECT">>, ItemWords(list),
                                 SelectTail(tb, conds, <<"semicolon">>))
              /\ Len(list) \in 1 .. ColumnsSelectLimit /\ Len(conds) <= ConditionsLimit
<1>1. s \in SelectSentences
  <2>1. "SELECT" # "CREATE" /\ "SELECT" # "INSERT"
    OBVIOUS
  <2> QED  BY <2>1, SentenceKinds, Zenon DEF Sentences, SoundCreateSentences
<1>2. PICK tb \in Idents, list \in FieldLists, conds \in ConditionLists :
        s = SelectSentence(tb, list, conds)
  BY <1>1 DEF SelectSentences
<1>3. list \in Seq(Item(Fields)) /\ Len(list) <= ColumnsSelectLimit /\ list # <<>>
  BY ListsAre, ParserAssumption DEF Fields, FieldLists
<1>4. conds \in Seq(Idents \X Idents) /\ Len(conds) <= ConditionsLimit
  BY ListsAre, ParserAssumption DEF ConditionLists
<1>5. Len(list) \in 1 .. ColumnsSelectLimit
  BY <1>3, ParserAssumption
<1> DEFINE q == <<"semicolon">>
           k == <<"SELECT">>
<1>6. s.tokens = Main(k, ItemWords(list), SelectTail(tb, conds, q))
  BY <1>2, <1>3, <1>4, SelectSentenceOf DEF Sentence
<1>7. q \in Text /\ k \in Text
  BY SelectWords, OneToken
<1> HIDE DEF q, k
<1>8. SelectTail(tb, conds, q) \in Text
  BY <1>4, <1>7, TailIs
<1>9. ItemWords(list) \in Seq(Text)
  BY <1>3, SelectWords, ItemsSeq
<1>10. s.tokens \in Text
  BY <1>6, <1>7, <1>8, <1>9, MainText
<1> QED  BY <1>3, <1>4, <1>5, <1>6, <1>10 DEF q, k

\* p goes on behind some conditions as more conditions do, or as their end.
CondsFollow(p, conds, conds2) ==
  \/ Begins(p, <<"semicolon">>)
  \/ /\ Len(conds) < Len(conds2)
     /\ \E w \in CondCode, r \in Text : w[1] = CondKeyword(conds) /\ Begins(p, Cat(w, r))

\* Conditions so far, with more behind them, begin what stands behind the fields
\* only where that goes on with a condition, or ends them.
LEMMA CondsGoOn ==
  ASSUME NEW tb \in Idents, NEW tb2 \in Idents, NEW conds \in Seq(Idents \X Idents),
         NEW conds2 \in Seq(Idents \X Idents), NEW p \in Text,
         Begins(SelectTail(tb, conds, p), SelectTail(tb2, conds2, <<"semicolon">>))
  PROVE  CondsFollow(p, conds, conds2)
<1> DEFINE q == <<"semicolon">>
           W == CondCode
           xs == CondWords(conds)
           ys == CondWords(conds2)
           h == <<"FROM", tb>>
           x == FlattenSeq(xs)
           y == FlattenSeq(ys)
<1>1. W \in SUBSET Text /\ PrefixFree(W)
  BY CondsPrefixFree
<1>2. /\ xs \in Seq(W) /\ ys \in Seq(W) /\ x \in Text /\ y \in Text
      /\ Len(xs) = Len(conds) /\ Len(ys) = Len(conds2)
      /\ \A i \in DOMAIN conds2 : ys[i][1] = IF i = 1 THEN "WHERE" ELSE "AND"
  BY CondsSeq
<1>3. q \in Text /\ q # <<>> /\ q[1] = "semicolon" /\ h \in Text
  BY SelectWords, TailIs
<1>4. \A w \in W : w[1] # q[1]
  BY <1>3 DEF CondCode
<1>5. tb2 = tb
  <2> DEFINE s == SelectTail(tb, conds, p)
             t == SelectTail(tb2, conds2, q)
  <2>1. s \in Text /\ Len(s) >= 2 /\ s[2] = tb
    BY TailIs
  <2>2. t[2] = tb2
    <3>1. \A r \in Text : SelectTail(tb2, conds2, r)[2] = tb2
      BY TailIs
    <3> QED  BY <1>3, <3>1
  <2>3. Len(s) \in Nat
    BY <2>1, TextLen
  <2>4. 2 \in 1 .. Len(s)
    BY <2>1, <2>3
  <2>5. Begins(s, t)
    OBVIOUS
  <2> HIDE DEF s, t
  <2>6. t[2] = s[2]
    BY <2>4, <2>5 DEF Begins
  <2> QED  BY <2>1, <2>2, <2>6
<1>6. Begins(Cat(h, Cat(x, p)), Cat(h, Cat(y, q)))
  BY <1>5 DEF SelectTail, Main
<1> HIDE DEF x, y, xs, ys, q, h, W
<1>7. Begins(Cat(x, p), Cat(y, q))
  BY <1>2, <1>3, <1>6, CatType, BeginsSame
<1>8. Begins(Cat(FlattenSeq(xs), p), Cat(FlattenSeq(ys), q))
  BY <1>7 DEF x, y
<1>9. \/ Len(xs) = Len(ys) /\ Begins(p, q)
      \/ /\ Len(xs) < Len(ys)
         /\ \E r \in Text : Begins(p, Cat(ys[Len(xs) + 1], r))
  BY <1>1, <1>2, <1>3, <1>4, <1>8, Decode, SMTT(30)
<1>10. CASE Len(xs) < Len(ys)
  <2> DEFINE n == Len(conds) + 1
             w == ys[n]
  <2>1. Len(conds) \in Nat /\ Len(conds2) \in Nat /\ DOMAIN conds2 = 1 .. Len(conds2)
        /\ (conds = <<>> <=> Len(conds) = 0)
    OBVIOUS
  <2>2. n \in DOMAIN conds2 /\ n \in 1 .. Len(ys) /\ Len(conds) < Len(conds2)
    BY <1>2, <1>10, <2>1
  <2>3. w \in W
    BY <1>2, <2>2
  <2>4. w[1] = CondKeyword(conds)
    BY <1>2, <2>1, <2>2 DEF CondKeyword
  <2>5. Len(xs) # Len(ys) /\ Len(xs) + 1 = n
    BY <1>2, <2>1, <2>2
  <2>6. \E r \in Text : Begins(p, Cat(w, r))
    BY <1>9, <2>5
  <2> HIDE DEF w, n
  <2>7. Len(conds) < Len(conds2)
        /\ \E v \in CondCode, r \in Text : v[1] = CondKeyword(conds) /\ Begins(p, Cat(v, r))
    BY <2>2, <2>3, <2>4, <2>6 DEF W
  <2> QED  BY <2>7, Zenon DEF CondsFollow
<1>11. CASE Len(xs) = Len(ys) /\ Begins(p, q)
  BY <1>11, Zenon DEF q, CondsFollow
<1> QED  BY <1>9, <1>10, <1>11

\* The fields so far, with more behind them, begin a SELECT sentence only where that
\* goes on with a field, or with what stands behind the fields.
LEMMA FieldsGoOn ==
  ASSUME NEW s \in Sentences, s.statement = "SELECT",
         NEW list \in Seq(Item(Fields)), NEW p \in Text,
         Begins(Main(<<"SELECT">>, ItemWords(list), p), s.tokens)
  PROVE  \/ /\ Len(list) >= 1
            /\ \E tb \in Idents, conds \in Seq(Idents \X Idents) :
                 /\ Len(conds) <= ConditionsLimit
                 /\ Begins(p, SelectTail(tb, conds, <<"semicolon">>))
         \/ /\ Len(list) < ColumnsSelectLimit
            /\ \E w \in ItemCode(Fields), r \in Text : Begins(p, Cat(w, r))
<1>1. PICK tb \in Idents, list2 \in Seq(Item(Fields)), conds \in Seq(Idents \X Idents) :
        /\ s.tokens = Main(<<"SELECT">>, ItemWords(list2),
                           SelectTail(tb, conds, <<"semicolon">>))
        /\ Len(list2) \in 1 .. ColumnsSelectLimit /\ Len(conds) <= ConditionsLimit
  BY SelectSentenceIs
<1> DEFINE h == <<"SELECT">>
           W == ItemCode(Fields)
           xs == ItemWords(list)
           ys == ItemWords(list2)
           q == SelectTail(tb, conds, <<"semicolon">>)
<1>2. h \in Text
  BY SelectWords, OneToken
<1>3. Fields \in SUBSET Tokens /\ "comma" \notin Fields
  BY SelectWords
<1>4. W \in SUBSET Text /\ PrefixFree(W)
  BY <1>3, ItemsPrefixFree
<1>5. xs \in Seq(W) /\ ys \in Seq(W) /\ Len(xs) = Len(list) /\ Len(ys) = Len(list2)
  BY <1>3, ItemsSeq
<1>6. q \in Text /\ q # <<>> /\ q[1] = "FROM"
  <2> DEFINE u == <<"semicolon">>
  <2>1. u \in Text
    BY SelectWords
  <2>2. q \in Text /\ Len(q) >= 2 /\ q[1] = "FROM"
    <3>1. ASSUME NEW r \in Text
          PROVE  /\ SelectTail(tb, conds, r) \in Text
                 /\ Len(SelectTail(tb, conds, r)) >= 2
                 /\ SelectTail(tb, conds, r)[1] = "FROM"
      <4> HIDE DEF q, h, W, xs, ys, u
      <4>1. tb \in Idents /\ conds \in Seq(Idents \X Idents)
        OBVIOUS
      <4>2. SelectTail(tb, conds, r) \in Text
        BY <4>1, TailIs
      <4>3. Len(SelectTail(tb, conds, r)) >= 2
        BY <4>1, TailIs
      <4>4. SelectTail(tb, conds, r)[1] = "FROM"
        BY <4>1, TailFirst
      <4> QED  BY <4>2, <4>3, <4>4
    <3> QED  BY <2>1, <3>1
  <2> HIDE DEF q
  <2>3. q # <<>>
    <3>1. ASSUME q = <<>> PROVE Len(q) = 0
      BY <3>1
    <3> QED  BY <2>2, <3>1
  <2> QED  BY <2>2, <2>3
<1>7. \A w \in W : w[1] # q[1]
  <2> SUFFICES ASSUME NEW z \in Item(Fields) PROVE ItemTokens(z)[1] # "FROM"
    BY <1>6 DEF ItemCode
  <2>1. ItemTokens(z)[1] = "comma" \/ (ItemTokens(z)[1] = z.name /\ z.name \in Fields)
    BY <1>3, ItemText
  <2>2. "comma" # "FROM"
    OBVIOUS
  <2> QED  BY <2>1, <2>2, SelectWords
<1>8. Begins(Main(h, xs, p), Main(h, ys, q))
  BY <1>1
<1>9. Len(list) \in Nat /\ Len(list2) \in Nat /\ ColumnsSelectLimit \in Nat
  BY ParserAssumption
<1> HIDE DEF h, W, xs, ys, q
<1>10. \/ Len(xs) = Len(ys) /\ Begins(p, q)
       \/ Len(xs) < Len(ys) /\ \E w \in W, r \in Text : Begins(p, Cat(w, r))
  <2>1. xs \in Seq(W) /\ ys \in Seq(W)
    BY <1>5
  <2>2. q \in Text /\ q # <<>> /\ \A w \in W : w[1] # q[1]
    BY <1>6, <1>7
  <2> QED  BY <1>2, <1>4, <1>8, <2>1, <2>2, MainDecode, SMTT(30)
<1>11. CASE Len(xs) = Len(ys) /\ Begins(p, q)
  BY <1>1, <1>5, <1>9, <1>11 DEF q
<1>12. CASE Len(xs) < Len(ys) /\ \E w \in W, r \in Text : Begins(p, Cat(w, r))
  <2>1. Len(list) < ColumnsSelectLimit
    BY <1>1, <1>5, <1>9, <1>12
  <2> QED  BY <1>12, <2>1 DEF W
<1> QED  BY <1>10, <1>11, <1>12

\* The part of a field that has been read, or of what ends the fields; n fields
\* have been read before.
FieldPlace(place, token, part, n) ==
  \/ place = "fields" /\ part = <<>>
  \/ place = "fieldComma" /\ part = <<>> /\ token = "comma"
  \/ /\ place = "fieldLimit" \/ (place = "field" /\ n < ColumnsSelectLimit)
     /\ \/ part = Commas(TRUE)
        \/ part = Commas(FALSE) /\ token # "comma" /\ token # "FROM"
  \/ place = "FROM" /\ part = <<>> /\ token = "FROM" /\ n >= 1
  \/ place = "selectName" /\ part = <<"FROM">> /\ n >= 1

\* The part of a condition that has been read, or of what ends the conditions, and
\* the conditions of the syntax tree: the last one may have no value yet.
CondPlace(place, token, conds, part, its) ==
  \/ /\ its = conds
     /\ \/ place = "afterTable" /\ conds = <<>> /\ part = <<>>
        \/ place = "WHERE" /\ conds = <<>> /\ part = <<>> /\ token = "WHERE"
        \/ place = "conditions" /\ conds = <<>> /\ part = <<"WHERE">>
        \/ place = "conditions" /\ conds # <<>> /\ part = <<>>
        \/ place = "AND" /\ conds # <<>> /\ part = <<>> /\ token # "semicolon"
        \/ /\ place = "condLimit" \/ (place = "condColumn" /\ Len(conds) < ConditionsLimit)
           /\ part = <<CondKeyword(conds)>>
        \/ /\ place = "semicolon" /\ part = <<>>
           /\ IF conds = <<>> THEN token # "WHERE" ELSE token = "semicolon"
        \/ place = "accepted" /\ part = <<"semicolon">>
  \/ /\ Len(conds) < ConditionsLimit
     /\ \E c \in Idents :
          /\ its = Append(conds, <<c>>)
          /\ \/ place = "condOp" /\ part = <<CondKeyword(conds), c>>
             \/ place = "condValue" /\ part = <<CondKeyword(conds), c, "op">>

\* The fields that have been read, and the part behind them.
SelectFields(list, part) ==
  /\ taken = Main(<<"SELECT">>, ItemWords(list), part)
  /\ FieldPlace(pc, currentToken, part, Len(list))
  /\ conditions = <<>>

\* The fields and the conditions that have been read, and the part behind them.
SelectConds(list, conds, part) ==
  /\ taken = Main(<<"SELECT">>, ItemWords(list), SelectTail(tableName, conds, part))
  /\ CondPlace(pc, currentToken, conds, part, conditions)
  /\ tableName \in Idents /\ Len(list) >= 1 /\ Len(conds) <= ConditionsLimit

\* What a SELECT has read, and what it has made of it.
SelectForm ==
  /\ statement = "SELECT" /\ pkColumn = Unset
  /\ \/ pc = "SELECT" /\ taken = <<>> /\ items = <<>> /\ conditions = <<>>
     \/ \E list \in Seq(Item(Fields)) :
          /\ items = NamesOf(list) /\ Len(list) <= ColumnsSelectLimit
          /\ \/ \E part \in Text : SelectFields(list, part)
             \/ \E conds \in Seq(Idents \X Idents), part \in Text :
                  SelectConds(list, conds, part)

\* A field starts with a comma or a name, a condition with its keyword.
LEMMA FieldFirst ==
  ASSUME NEW w \in ItemCode(Fields), NEW r \in Text
  PROVE  Cat(w, r)[1] # "FROM"
<1>1. PICK x \in Item(Fields) : w = ItemTokens(x)
  BY DEF ItemCode
<1>2. /\ w \in Text /\ Len(w) \in Nat \ {0}
      /\ w[1] = "comma" \/ (w[1] = x.name /\ x.name \in Fields)
  BY <1>1, SelectWords, ItemText
<1>3. w[1] # "FROM"
  <2>1. "comma" # "FROM"
    OBVIOUS
  <2> QED  BY <1>2, <2>1, SelectWords
<1>4. 1 \in 1 .. Len(w)
  BY <1>2
<1>5. Cat(w, r)[1] = w[1]
  BY <1>2, <1>4, CatType
<1> QED  BY <1>3, <1>5

\* The tokens of a condition, with more behind them.
LEMMA CondTokens ==
  ASSUME NEW w \in CondCode, NEW r \in Text
  PROVE  /\ Cat(w, r)[1] = w[1] /\ Cat(w, r)[2] \in Idents
         /\ Cat(w, r)[3] = "op" /\ Cat(w, r)[4] \in Idents
<1>1. w \in Text /\ Len(w) = 4 /\ w[2] \in Idents /\ w[3] = "op" /\ w[4] \in Idents
  BY DEF CondCode
<1>2. \A i \in 1 .. Len(w) : Cat(w, r)[i] = w[i]
  BY <1>1, CatType
<1> QED  BY <1>1, <1>2

\* Where a SELECT among its fields goes wrong, nothing it has read and not what
\* stands behind it begins a field, or what stands behind the fields.
LEMMA FieldsReject ==
  ASSUME TypeInv, NEW list \in Seq(Item(Fields)), NEW part \in Text, NEW token \in Tokens,
         NEW place, FieldPlace(place, token, part, Len(list)),
         \/ place \in ConsumePcs /\ token \notin Expected[place]
         \/ place = "fields" /\ token = "FROM" /\ list = <<>>
         \/ place = "fieldLimit" /\ Len(list) = ColumnsSelectLimit,
         token # "unsupported"
  PROVE  LET p == Cat(part, <<token>>)
         IN  /\ Len(list) >= 1 =>
                  \A tb \in Idents, conds \in Seq(Idents \X Idents) :
                    ~Begins(p, SelectTail(tb, conds, <<"semicolon">>))
             /\ Len(list) < ColumnsSelectLimit =>
                  \A w \in ItemCode(Fields), r \in Text : ~Begins(p, Cat(w, r))
<1> DEFINE p == Cat(part, <<token>>)
<1>1. ASSUME NEW tb \in Idents, NEW conds \in Seq(Idents \X Idents)
      PROVE  /\ SelectTail(tb, conds, <<"semicolon">>)[1] = "FROM"
             /\ SelectTail(tb, conds, <<"semicolon">>)[2] \in Idents
  <2>1. \A q \in Text : SelectTail(tb, conds, q)[1] = "FROM"
    BY TailFirst
  <2>2. \A q \in Text : SelectTail(tb, conds, q)[2] \in Idents
    BY TailSecond
  <2>3. <<"semicolon">> \in Text
    BY SelectWords
  <2> QED  BY <2>1, <2>2, <2>3
<1>2. place = "field" => token \notin Fields
  BY ExpectedAt, SelectWords, Places DEF Fields, FieldPlace
<1>3. place = "selectName" => token \notin Idents
  BY ExpectedAt, Places, InsertWords
<1>4. Fields \in SUBSET Tokens /\ "comma" \notin Fields /\ "FROM" \notin Fields
      /\ "FROM" # "comma" /\ "FROM" \in Tokens
  BY SelectWords
<1>5. place # "fieldComma" /\ place # "FROM"
  BY ExpectedAt DEF FieldPlace
<1>6. CASE /\ place \in {"field", "fieldLimit"}
           /\ place = "fieldLimit" => Len(list) = ColumnsSelectLimit
           /\ part = Commas(TRUE)
  <2>1. p = <<"comma", token>>
    BY <1>6, CatOne DEF Commas
  <2>2. \A t : Begins(p, t) => t[1] = "comma"
    BY <2>1, BeginsTwo
  <2>3. Len(list) < ColumnsSelectLimit =>
          \A w \in ItemCode(Fields), r \in Text : ~Begins(p, Cat(w, r))
    <3>1. CASE place = "field"
      <4>1. token \in Tokens \ Fields
        BY <1>2, <3>1
      <4>2. \A w \in ItemCode(Fields), r \in Text : ~Begins(<<"comma", token>>, Cat(w, r))
        BY <1>4, <4>1, NoItem
      <4> QED  BY <2>1, <4>2
    <3>2. CASE place = "fieldLimit"
      <4>1. ~(Len(list) < ColumnsSelectLimit)
        BY <1>6, <3>2, ParserAssumption
      <4> QED  BY <4>1
    <3> QED  BY <1>6, <3>1, <3>2
  <2> HIDE DEF p
  <2>4. \A tb \in Idents, conds \in Seq(Idents \X Idents) :
          ~Begins(p, SelectTail(tb, conds, <<"semicolon">>))
    BY <1>1, <1>4, <2>2
  <2> QED  BY <2>3, <2>4 DEF p
<1>7. CASE /\ place \in {"field", "fieldLimit"}
           /\ place = "fieldLimit" => Len(list) = ColumnsSelectLimit
           /\ part = Commas(FALSE) /\ token # "comma" /\ token # "FROM"
  <2>1. p = <<token>>
    BY <1>7, OneToken DEF Commas
  <2>2. \A t : Begins(p, t) => t[1] = token
    BY <2>1, BeginsOne
  <2>3. Len(list) < ColumnsSelectLimit =>
          \A w \in ItemCode(Fields), r \in Text : ~Begins(p, Cat(w, r))
    <3>1. CASE place = "field"
      <4>1. token \in Tokens \ Fields
        BY <1>2, <3>1
      <4>2. \A w \in ItemCode(Fields), r \in Text : ~Begins(<<token>>, Cat(w, r))
        BY <1>4, <1>7, <4>1, NoItem
      <4> QED  BY <2>1, <4>2
    <3>2. CASE place = "fieldLimit"
      <4>1. ~(Len(list) < ColumnsSelectLimit)
        BY <1>7, <3>2, ParserAssumption
      <4> QED  BY <4>1
    <3> QED  BY <1>7, <3>1, <3>2
  <2> HIDE DEF p
  <2>4. \A tb \in Idents, conds \in Seq(Idents \X Idents) :
          ~Begins(p, SelectTail(tb, conds, <<"semicolon">>))
    BY <1>1, <1>7, <2>2
  <2> QED  BY <2>3, <2>4 DEF p
<1>8. CASE place = "selectName" /\ part = <<"FROM">>
  <2>1. p = <<"FROM", token>>
    BY <1>8, CatOne
  <2>2. \A t : Begins(p, t) => t[1] = "FROM" /\ t[2] = token
    BY <2>1, BeginsTwo
  <2> HIDE DEF p
  <2>3. \A w \in ItemCode(Fields), r \in Text : ~Begins(p, Cat(w, r))
    BY <2>2, FieldFirst
  <2>4. \A tb \in Idents, conds \in Seq(Idents \X Idents) :
          ~Begins(p, SelectTail(tb, conds, <<"semicolon">>))
    BY <1>1, <1>3, <1>8, <2>2
  <2> QED  BY <2>3, <2>4 DEF p
<1>9. CASE place = "fields" /\ part = <<>>
  <2>1. list = <<>> /\ token = "FROM"
    BY <1>9, Places
  <2>2. Len(list) = 0
    BY <2>1
  <2>3. p = <<"FROM">>
    BY <1>9, <2>1, OneToken
  <2>4. \A t : Begins(p, t) => t[1] = "FROM"
    BY <2>3, BeginsOne
  <2> HIDE DEF p
  <2>5. \A w \in ItemCode(Fields), r \in Text : ~Begins(p, Cat(w, r))
    BY <2>4, FieldFirst
  <2> QED  BY <2>2, <2>5 DEF p
<1>10. place = "fieldLimit" => Len(list) = ColumnsSelectLimit
  BY Places
<1> HIDE DEF p
<1> QED  BY <1>5, <1>6, <1>7, <1>8, <1>9, <1>10 DEF FieldPlace, p

\* Where a SELECT among its conditions goes wrong, nothing it has read and not what
\* stands behind it begins a condition, or the end.
LEMMA CondsReject ==
  ASSUME NEW conds \in Seq(Idents \X Idents), NEW part \in Text, NEW token \in Tokens,
         NEW place, NEW its, CondPlace(place, token, conds, part, its),
         \/ place \in ConsumePcs /\ token \notin Expected[place]
         \/ place = "conditions" /\ token = "semicolon" /\ its = <<>>
         \/ place = "condLimit" /\ Len(its) = ConditionsLimit,
         token # "unsupported"
  PROVE  LET p == Cat(part, <<token>>)
         IN  /\ ~Begins(p, <<"semicolon">>)
             /\ Len(conds) < ConditionsLimit =>
                  \A w \in CondCode, r \in Text :
                    w[1] = CondKeyword(conds) => ~Begins(p, Cat(w, r))
<1> DEFINE p == Cat(part, <<token>>)
           k == CondKeyword(conds)
           q == <<"semicolon">>
<1>1. k \in {"WHERE", "AND"} /\ (conds = <<>> => k = "WHERE") /\ (conds # <<>> => k = "AND")
  BY DEF CondKeyword
<1>2. q[1] = "semicolon" /\ Len(q) = 1
  OBVIOUS
<1>3. \A w \in CondCode, r \in Text :
        /\ Cat(w, r)[1] = w[1] /\ Cat(w, r)[2] \in Idents
        /\ Cat(w, r)[3] = "op" /\ Cat(w, r)[4] \in Idents
  BY CondTokens
<1>4. Idents \subseteq Identifiers /\ "semicolon" \notin Idents
  BY InsertWords, SelectWords
<1> HIDE DEF k, q
<1>5. CASE /\ place = "condLimit" \/ place = "condColumn"
           /\ place = "condLimit" => its = conds
           /\ part = <<k>>
  <2>1. p = <<k, token>>
    BY <1>5, CatOne
  <2>2. \A t : Begins(p, t) => t[1] = k /\ t[2] = token
    BY <2>1, BeginsTwo
  <2>3. Len(conds) < ConditionsLimit =>
          \A w \in CondCode, r \in Text : w[1] = k => ~Begins(p, Cat(w, r))
    <3>1. CASE place = "condColumn"
      <4>1. token \notin Idents
        BY <1>4, <3>1, ExpectedAt
      <4> HIDE DEF p
      <4> QED  BY <1>3, <2>2, <4>1
    <3>2. CASE place = "condLimit"
      <4>1. Len(conds) = ConditionsLimit
        BY <1>5, <3>2, Places
      <4>2. ~(Len(conds) < ConditionsLimit)
        BY <4>1, ParserAssumption
      <4> QED  BY <4>2
    <3> QED  BY <1>5, <3>1, <3>2
  <2> HIDE DEF p
  <2>4. ~Begins(p, q)
    BY <1>1, <1>2, <2>2
  <2> QED  BY <2>3, <2>4 DEF p, k, q
<1>6. CASE place = "conditions" /\ conds = <<>> /\ its = conds /\ part = <<"WHERE">>
  <2>1. token = "semicolon"
    BY <1>6, Places
  <2>2. p = <<"WHERE", token>>
    BY <1>6, CatOne
  <2>3. \A t : Begins(p, t) => t[1] = "WHERE" /\ t[2] = token
    BY <2>2, BeginsTwo
  <2> HIDE DEF p
  <2>4. ~Begins(p, q)
    BY <1>2, <2>3
  <2>5. \A w \in CondCode, r \in Text : ~Begins(p, Cat(w, r))
    BY <1>3, <1>4, <2>1, <2>3
  <2> QED  BY <2>4, <2>5 DEF p, q
<1>7. CASE /\ place \in {"AND", "semicolon"} /\ part = <<>>
           /\ place = "AND" => token # "semicolon" /\ conds # <<>>
           /\ place = "semicolon" => conds = <<>> /\ token # "WHERE"
  <2>1. token # "semicolon" /\ token # k
    <3>1. place = "AND" => token # "AND"
      BY ExpectedAt, Places
    <3>2. place = "semicolon" => token # "semicolon"
      BY ExpectedAt, Places
    <3> QED  BY <1>1, <1>7, <3>1, <3>2
  <2>2. p = <<token>>
    BY <1>7, OneToken
  <2>3. \A t : Begins(p, t) => t[1] = token
    BY <2>2, BeginsOne
  <2> HIDE DEF p
  <2>4. ~Begins(p, q)
    BY <1>2, <2>1, <2>3
  <2>5. \A w \in CondCode, r \in Text : w[1] = k => ~Begins(p, Cat(w, r))
    BY <1>3, <2>1, <2>3
  <2> QED  BY <2>4, <2>5 DEF p, q, k
<1>8. ASSUME NEW c \in Idents, place = "condOp", part = <<k, c>>
      PROVE  /\ ~Begins(p, q)
             /\ \A w \in CondCode, r \in Text : ~Begins(p, Cat(w, r))
  <2>1. token # "op"
    BY <1>8, ExpectedAt
  <2>2. p = <<k, c, token>>
    BY <1>8, CatTwo
  <2>3. \A t : Begins(p, t) => t[1] = k /\ t[3] = token
    BY <2>2, BeginsThree
  <2> HIDE DEF p
  <2>4. ~Begins(p, q)
    BY <1>1, <1>2, <2>3
  <2>5. \A w \in CondCode, r \in Text : ~Begins(p, Cat(w, r))
    BY <1>3, <2>1, <2>3
  <2> QED  BY <2>4, <2>5
<1>9. ASSUME NEW c \in Idents, place = "condValue", part = <<k, c, "op">>
      PROVE  /\ ~Begins(p, q)
             /\ \A w \in CondCode, r \in Text : ~Begins(p, Cat(w, r))
  <2>1. token \notin Idents
    BY <1>4, <1>9, ExpectedAt
  <2>2. p = <<k, c, "op", token>>
    BY <1>9, CatThree
  <2>3. \A t : Begins(p, t) => t[1] = k /\ t[4] = token
    BY <2>2, BeginsFour
  <2> HIDE DEF p
  <2>4. ~Begins(p, q)
    BY <1>1, <1>2, <2>3
  <2>5. \A w \in CondCode, r \in Text : ~Begins(p, Cat(w, r))
    BY <1>3, <2>1, <2>3
  <2> QED  BY <2>4, <2>5
<1>10. /\ place # "afterTable" /\ place # "WHERE" /\ place # "accepted"
       /\ ~(place = "conditions" /\ conds # <<>> /\ its = conds)
       /\ ~(place = "semicolon" /\ token = "semicolon")
  <2>1. place # "afterTable" /\ place # "accepted"
    BY Places
  <2>2. place # "WHERE"
    BY ExpectedAt DEF CondPlace
  <2>3. ~(place = "conditions" /\ conds # <<>> /\ its = conds)
    BY Places
  <2>4. ~(place = "semicolon" /\ token = "semicolon")
    BY ExpectedAt
  <2> QED  BY <2>1, <2>2, <2>3, <2>4
<1> HIDE DEF p
<1> QED  BY <1>5, <1>6, <1>7, <1>8, <1>9, <1>10 DEF CondPlace, p, k, q

\* At a token that is not the expected one, at the end of an empty list and at one
\* more item than a list may have, no SELECT sentence goes on.
LEMMA SelectRejects ==
  ASSUME TypeInv, SelectForm, Live,
         \/ pc \in ConsumePcs /\ currentToken \notin Expected[pc]
         \/ pc = "fields" /\ currentToken = "FROM" /\ items = <<>>
         \/ pc = "fieldLimit" /\ Len(items) = ColumnsSelectLimit
         \/ pc = "conditions" /\ currentToken = "semicolon" /\ conditions = <<>>
         \/ pc = "condLimit" /\ Len(conditions) = ConditionsLimit
  PROVE  NoneBegins("SELECT", read)
<1> SUFFICES ASSUME NEW s \in Sentences, s.statement = "SELECT", Begins(read, s.tokens)
             PROVE  FALSE
  BY DEF NoneBegins
<1> DEFINE cur == currentToken
<1>1. /\ taken \in Text /\ cur \in Tokens /\ <<cur>> \in Text /\ read = Cat(taken, <<cur>>)
      /\ cur # "unsupported"
  BY ReadParts DEF Live
<1>2. \/ pc \in ConsumePcs /\ cur \notin Expected[pc]
      \/ pc = "fields" /\ cur = "FROM" /\ items = <<>>
      \/ pc = "fieldLimit" /\ Len(items) = ColumnsSelectLimit
      \/ pc = "conditions" /\ cur = "semicolon" /\ conditions = <<>>
      \/ pc = "condLimit" /\ Len(conditions) = ConditionsLimit
  OBVIOUS
<1>3. <<"SELECT">> \in Text
  BY SelectWords, OneToken
<1> DEFINE h == <<"SELECT">>
<1> HIDE DEF h
<1>4. CASE pc = "SELECT" /\ taken = <<>>
  <2>1. cur # "SELECT"
    BY <1>2, <1>4, ExpectedAt
  <2>2. read = <<cur>>
    BY <1>1, <1>4, OneToken
  <2>3. s.tokens[1] = cur
    <3> HIDE DEF cur
    <3> QED  BY <2>2, BeginsOne
  <2>4. PICK tb \in Idents, list \in Seq(Item(Fields)), conds \in Seq(Idents \X Idents) :
          s.tokens = Main(h, ItemWords(list), SelectTail(tb, conds, <<"semicolon">>))
    BY SelectSentenceIs DEF h
  <2>5. ItemWords(list) \in Seq(Text) /\ SelectTail(tb, conds, <<"semicolon">>) \in Text
    BY SelectWords, ItemsSeq, TailIs
  <2> DEFINE q == SelectTail(tb, conds, <<"semicolon">>)
  <2> HIDE DEF q
  <2>6. \A i \in 1 .. Len(h) : s.tokens[i] = h[i]
    <3>1. s.tokens = Main(h, ItemWords(list), q) /\ q \in Text /\ h \in Text
      BY <1>3, <2>4, <2>5 DEF q, h
    <3> QED  BY <2>5, <3>1, MainText
  <2>7. Len(h) = 1 /\ h[1] = "SELECT"
    BY DEF h
  <2> QED  BY <2>1, <2>3, <2>6, <2>7
<1>5. ASSUME NEW list \in Seq(Item(Fields)), NEW part \in Text, SelectFields(list, part),
             items = NamesOf(list)
      PROVE  FALSE
  <2> DEFINE p == Cat(part, <<cur>>)
  <2>1. /\ taken = Main(h, ItemWords(list), part)
        /\ FieldPlace(pc, cur, part, Len(list))
    BY <1>5 DEF SelectFields, h
  <2>2. Len(items) = Len(list) /\ (items = <<>> => list = <<>>)
    <3>1. Len(NamesOf(list)) = Len(list)
      BY DEF NamesOf
    <3>2. NamesOf(list) = <<>> => list = <<>>
      BY <3>1
    <3> QED  BY <1>5, <3>1, <3>2
  <2>3. \/ pc \in ConsumePcs /\ cur \notin Expected[pc]
        \/ pc = "fields" /\ cur = "FROM" /\ list = <<>>
        \/ pc = "fieldLimit" /\ Len(list) = ColumnsSelectLimit
    BY <1>2, <2>1, <2>2 DEF FieldPlace
  <2>4. p \in Text /\ ItemWords(list) \in Seq(Text)
    BY <1>1, SelectWords, CatType, ItemsSeq
  <2>5. read = Main(h, ItemWords(list), p)
    BY <1>1, <1>3, <2>1, <2>4, MainText DEF h
  <2> HIDE DEF cur
  <2>6. /\ Len(list) >= 1 =>
             \A tb \in Idents, conds \in Seq(Idents \X Idents) :
               ~Begins(p, SelectTail(tb, conds, <<"semicolon">>))
        /\ Len(list) < ColumnsSelectLimit =>
             \A w \in ItemCode(Fields), r \in Text : ~Begins(p, Cat(w, r))
    BY <1>1, <2>1, <2>3, FieldsReject
  <2> HIDE DEF p
  <2>7. Begins(Main(<<"SELECT">>, ItemWords(list), p), s.tokens)
    BY <2>5 DEF h
  <2> QED  BY <2>4, <2>6, <2>7, FieldsGoOn
<1>6. ASSUME NEW list \in Seq(Item(Fields)), NEW conds \in Seq(Idents \X Idents),
             NEW part \in Text, SelectConds(list, conds, part)
      PROVE  FALSE
  <2> DEFINE b == Cat(part, <<cur>>)
             p == SelectTail(tableName, conds, b)
  <2>1. /\ taken = Main(h, ItemWords(list), SelectTail(tableName, conds, part))
        /\ CondPlace(pc, cur, conds, part, conditions) /\ tableName \in Idents
    BY <1>6 DEF SelectConds, h
  <2>2. b \in Text /\ ItemWords(list) \in Seq(Text)
    BY <1>1, SelectWords, CatType, ItemsSeq
  <2>3. /\ p \in Text /\ SelectTail(tableName, conds, part) \in Text
        /\ Cat(SelectTail(tableName, conds, part), <<cur>>) = p
        /\ Len(p) >= 2
    <3> HIDE DEF b, cur
    <3>1. p \in Text /\ Len(p) >= 2
      BY <2>1, <2>2, TailIs
    <3>2. SelectTail(tableName, conds, part) \in Text
      BY <2>1, TailIs
    <3>3. Cat(SelectTail(tableName, conds, part), <<cur>>) = p
      BY <1>1, <2>1, TailGrows, ZenonT(40) DEF b
    <3> QED  BY <3>1, <3>2, <3>3
  <2>4. read = Main(h, ItemWords(list), p)
    <3> DEFINE t == SelectTail(tableName, conds, part)
    <3> HIDE DEF t, p, cur
    <3>1. taken = Main(h, ItemWords(list), t) /\ Cat(t, <<cur>>) = p /\ t \in Text
      BY <2>1, <2>3 DEF t
    <3> QED  BY <1>1, <1>3, <2>2, <3>1, MainText DEF h
  <2>5. p[1] = "FROM"
    <3> HIDE DEF b
    <3> QED  BY <2>1, <2>2, TailFirst
  <2>6. \/ pc \in ConsumePcs /\ cur \notin Expected[pc]
        \/ pc = "conditions" /\ cur = "semicolon" /\ conditions = <<>>
        \/ pc = "condLimit" /\ Len(conditions) = ConditionsLimit
    BY <1>2, <2>1 DEF CondPlace
  <2> HIDE DEF cur
  <2>7. /\ ~Begins(b, <<"semicolon">>)
        /\ Len(conds) < ConditionsLimit =>
             \A w \in CondCode, r \in Text :
               w[1] = CondKeyword(conds) => ~Begins(b, Cat(w, r))
    BY <1>1, <2>1, <2>6, CondsReject
  <2> HIDE DEF b, p
  <2>8. Begins(Main(<<"SELECT">>, ItemWords(list), p), s.tokens)
    BY <2>4 DEF h
  <2>9. \/ \E tb \in Idents, conds2 \in Seq(Idents \X Idents) :
             /\ Len(conds2) <= ConditionsLimit
             /\ Begins(p, SelectTail(tb, conds2, <<"semicolon">>))
        \/ \E w \in ItemCode(Fields), r \in Text : Begins(p, Cat(w, r))
    BY <2>3, <2>8, FieldsGoOn
  <2>10. ASSUME NEW w \in ItemCode(Fields), NEW r \in Text, Begins(p, Cat(w, r)) PROVE FALSE
    <3>1. Len(p) \in Nat
      BY <2>3, TextLen
    <3>2. Cat(w, r)[1] = p[1]
      BY <2>3, <2>10, <3>1 DEF Begins
    <3> QED  BY <2>5, <3>2, FieldFirst
  <2>11. ASSUME NEW tb \in Idents, NEW conds2 \in Seq(Idents \X Idents),
                Len(conds2) <= ConditionsLimit,
                Begins(p, SelectTail(tb, conds2, <<"semicolon">>))
         PROVE  FALSE
    <3>1. \/ Begins(b, <<"semicolon">>)
          \/ /\ Len(conds) < Len(conds2)
             /\ \E w \in CondCode, r \in Text :
                  w[1] = CondKeyword(conds) /\ Begins(b, Cat(w, r))
      <4>1. /\ tableName \in Idents /\ b \in Text
            /\ Begins(SelectTail(tableName, conds, b), SelectTail(tb, conds2, <<"semicolon">>))
        BY <2>1, <2>2, <2>11 DEF p
      <4>2. ASSUME NEW tb3 \in Idents, tb3 = tableName
            PROVE  CondsFollow(b, conds, conds2)
        <5>1. Begins(SelectTail(tb3, conds, b), SelectTail(tb, conds2, <<"semicolon">>))
          BY <4>1, <4>2
        <5> QED  BY <4>1, <5>1, CondsGoOn
      <4> QED  BY <4>1, <4>2 DEF CondsFollow
    <3>2. Len(conds) < Len(conds2) => Len(conds) < ConditionsLimit
      BY <2>11, ParserAssumption
    <3> QED  BY <2>7, <3>1, <3>2
  <2> QED  BY <2>9, <2>10, <2>11
<1> HIDE DEF cur
<1> QED  BY <1>4, <1>5, <1>6 DEF SelectForm

\* A SELECT begins with nothing read.
LEMMA SelectBegins == ASSUME Init, statement = "SELECT" PROVE SelectForm
<1>1. PICK token \in Tokens : read = <<token>>
  BY DEF Init
<1>2. Len(read) = 1
  BY <1>1
<1>3. taken = SubSeq(read, 1, 0)
  BY <1>2 DEF taken, Front
<1>4. taken = <<>>
  BY <1>3, SubSeqEmpty
<1>5. pc = "SELECT" /\ items = <<>> /\ pkColumn = Unset /\ conditions = <<>>
  BY DEF Init
<1> QED  BY <1>4, <1>5 DEF SelectForm

\* The fields, and what is kept of them.
LEMMA FieldsKept ==
  ASSUME NEW list \in Seq(Item(Fields))
  PROVE  /\ Len(NamesOf(list)) = Len(list) /\ Len(list) \in Nat
         /\ NamesOf(list) = <<>> <=> Len(list) = 0
<1>1. Len(list) \in Nat /\ DOMAIN list = 1 .. Len(list)
  OBVIOUS
<1>2. \A x \in Item(Fields) : x.name \in Fields
  BY DEF Item
<1>3. NamesOf(list) \in Seq(Fields) /\ Len(NamesOf(list)) = Len(list)
  <2>1. \A i \in DOMAIN list : list[i] \in Item(Fields)
    OBVIOUS
  <2>2. \A i \in DOMAIN list : list[i].name \in Fields
    BY <1>2, <2>1, Zenon
  <2> QED  BY <1>1, <2>2 DEF NamesOf
<1> QED  BY <1>1, <1>3

\* A branch of the loops looks at the current token, or at the length of a list.
LEMMA SelectBranches ==
  ASSUME SelectForm, Branch
  PROVE  \/ SelectForm'
         \/ /\ pc' = "rejected"
            /\ \/ pc = "fields" /\ currentToken = "FROM" /\ items = <<>>
               \/ pc = "fieldLimit" /\ Len(items) = ColumnsSelectLimit
               \/ pc = "conditions" /\ currentToken = "semicolon" /\ conditions = <<>>
               \/ pc = "condLimit" /\ Len(conditions) = ConditionsLimit
<1>1. pc \in BranchPcs
  BY DEF Branch
<1>2. UNCHANGED <<read, statement, tableName, items, pkColumn, conditions>>
  BY DEF Branch
<1>3. taken' = taken /\ currentToken' = currentToken
  BY <1>2 DEF taken, currentToken
<1>4. statement = "SELECT" /\ pkColumn = Unset
  BY DEF SelectForm
<1>5. ASSUME NEW list \in Seq(Item(Fields)), items = NamesOf(list),
             Len(list) <= ColumnsSelectLimit,
             NEW part \in Text, SelectFields(list, part)
      PROVE  \/ SelectForm'
             \/ /\ pc' = "rejected"
                /\ \/ pc = "fields" /\ currentToken = "FROM" /\ items = <<>>
                   \/ pc = "fieldLimit" /\ Len(items) = ColumnsSelectLimit
  <2>1. /\ taken = Main(<<"SELECT">>, ItemWords(list), part)
        /\ FieldPlace(pc, currentToken, part, Len(list)) /\ conditions = <<>>
    BY <1>5 DEF SelectFields
  <2>2. Len(items) = Len(list) /\ Len(list) \in Nat /\ (items = <<>> <=> Len(list) = 0)
    BY <1>5, FieldsKept
  <2>3. ASSUME FieldPlace(pc', currentToken, part, Len(list)) PROVE SelectForm'
    <3>1. SelectFields(list, part)'
      BY <1>2, <1>3, <2>1, <2>3 DEF SelectFields
    <3> QED  BY <1>2, <1>4, <1>5, <3>1 DEF SelectForm
  <2>4. CASE pc = "fields"
    <3>1. part = <<>> /\ pc' = AtFields
      BY <2>1, <2>4 DEF FieldPlace, Branch
    <3>2. CASE currentToken = "FROM"
      <4>1. CASE items = <<>>
        BY <2>4, <3>1, <3>2, <4>1 DEF AtFields
      <4>2. CASE items # <<>>
        <5>1. pc' = "FROM" /\ Len(list) >= 1
          BY <2>2, <3>1, <3>2, <4>2 DEF AtFields
        <5> QED  BY <2>3, <3>1, <3>2, <5>1 DEF FieldPlace
      <4> QED  BY <4>1, <4>2
    <3>3. CASE currentToken = "comma"
      <4>1. pc' = "fieldComma"
        BY <3>1, <3>3 DEF AtFields
      <4> QED  BY <2>3, <3>1, <3>3, <4>1 DEF FieldPlace
    <3>4. CASE currentToken # "FROM" /\ currentToken # "comma"
      <4>1. pc' = "fieldLimit"
        BY <3>1, <3>4 DEF AtFields
      <4> QED  BY <2>3, <3>1, <3>4, <4>1 DEF FieldPlace, Commas
    <3> QED  BY <3>2, <3>3, <3>4
  <2>5. CASE pc = "fieldLimit"
    <3>1. pc' = AtFieldLimit
      BY <2>5 DEF Branch
    <3>2. CASE Len(items) = ColumnsSelectLimit
      BY <2>5, <3>1, <3>2 DEF AtFieldLimit
    <3>3. CASE Len(items) # ColumnsSelectLimit
      <4>1. pc' = "field" /\ Len(list) < ColumnsSelectLimit
        BY <1>5, <2>2, <3>1, <3>3, ParserAssumption DEF AtFieldLimit
      <4>2. \/ part = Commas(TRUE)
            \/ part = Commas(FALSE) /\ currentToken # "comma" /\ currentToken # "FROM"
        BY <2>1, <2>5 DEF FieldPlace
      <4> QED  BY <2>3, <4>1, <4>2 DEF FieldPlace
    <3> QED  BY <3>2, <3>3
  <2>6. pc = "fields" \/ pc = "fieldLimit"
    BY <1>1, <2>1 DEF FieldPlace, BranchPcs
  <2> QED  BY <2>4, <2>5, <2>6
<1>6. ASSUME NEW list \in Seq(Item(Fields)), items = NamesOf(list),
             Len(list) <= ColumnsSelectLimit, NEW conds \in Seq(Idents \X Idents),
             NEW part \in Text, SelectConds(list, conds, part)
      PROVE  \/ SelectForm'
             \/ /\ pc' = "rejected"
                /\ \/ pc = "conditions" /\ currentToken = "semicolon" /\ conditions = <<>>
                   \/ pc = "condLimit" /\ Len(conditions) = ConditionsLimit
  <2>1. /\ taken = Main(<<"SELECT">>, ItemWords(list), SelectTail(tableName, conds, part))
        /\ CondPlace(pc, currentToken, conds, part, conditions)
        /\ tableName \in Idents /\ Len(list) >= 1 /\ Len(conds) <= ConditionsLimit
    BY <1>6 DEF SelectConds
  <2>2. ASSUME CondPlace(pc', currentToken, conds, part, conditions) PROVE SelectForm'
    <3>1. SelectConds(list, conds, part)'
      BY <1>2, <1>3, <2>1, <2>2 DEF SelectConds
    <3> QED  BY <1>2, <1>4, <1>6, <3>1 DEF SelectForm
  <2>3. pc \in {"afterTable", "conditions", "condLimit"} /\ conditions = conds
    BY <1>1, <2>1 DEF CondPlace, BranchPcs
  <2>4. CASE pc = "afterTable"
    <3>1. conds = <<>> /\ part = <<>> /\ pc' = AtAfterTable
      BY <2>1, <2>4 DEF CondPlace, Branch
    <3>2. CASE currentToken = "WHERE"
      <4>1. pc' = "WHERE"
        BY <3>1, <3>2 DEF AtAfterTable
      <4> QED  BY <2>2, <2>3, <3>1, <3>2, <4>1 DEF CondPlace
    <3>3. CASE currentToken # "WHERE"
      <4>1. pc' = "semicolon"
        BY <3>1, <3>3 DEF AtAfterTable
      <4> QED  BY <2>2, <2>3, <3>1, <3>3, <4>1 DEF CondPlace
    <3> QED  BY <3>2, <3>3
  <2>5. CASE pc = "conditions"
    <3>1. pc' = AtConditions
      BY <2>5 DEF Branch
    <3>2. (conds = <<>> => part = <<"WHERE">>) /\ (conds # <<>> => part = <<>>)
      BY <2>1, <2>5 DEF CondPlace
    <3>3. CASE currentToken = "semicolon" /\ conds = <<>>
      BY <2>3, <2>5, <3>1, <3>3 DEF AtConditions
    <3>4. CASE currentToken = "semicolon" /\ conds # <<>>
      <4>1. pc' = "semicolon"
        BY <2>3, <3>1, <3>4 DEF AtConditions
      <4> QED  BY <2>2, <2>3, <3>2, <3>4, <4>1 DEF CondPlace
    <3>5. CASE currentToken # "semicolon" /\ conds = <<>>
      <4>1. pc' = "condLimit"
        BY <2>3, <3>1, <3>5 DEF AtConditions
      <4> QED  BY <2>2, <2>3, <3>2, <3>5, <4>1 DEF CondPlace, CondKeyword
    <3>6. CASE currentToken # "semicolon" /\ conds # <<>>
      <4>1. pc' = "AND"
        BY <2>3, <3>1, <3>6 DEF AtConditions
      <4> QED  BY <2>2, <2>3, <3>2, <3>6, <4>1 DEF CondPlace
    <3> QED  BY <3>3, <3>4, <3>5, <3>6
  <2>6. CASE pc = "condLimit"
    <3>1. pc' = AtCondLimit /\ part = <<CondKeyword(conds)>>
      BY <2>1, <2>6 DEF Branch, CondPlace
    <3>2. CASE Len(conds) = ConditionsLimit
      BY <2>3, <2>6, <3>1, <3>2 DEF AtCondLimit
    <3>3. CASE Len(conds) # ConditionsLimit
      <4>1. pc' = "condColumn" /\ Len(conds) < ConditionsLimit
        <5>1. Len(conds) \in Nat
          OBVIOUS
        <5> QED  BY <2>1, <2>3, <3>1, <3>3, <5>1, ParserAssumption DEF AtCondLimit
      <4> QED  BY <2>2, <2>3, <3>1, <4>1 DEF CondPlace
    <3> QED  BY <3>2, <3>3
  <2> QED  BY <2>3, <2>4, <2>5, <2>6
<1>7. pc # "SELECT"
  BY <1>1 DEF BranchPcs
<1> QED  BY <1>5, <1>6, <1>7 DEF SelectForm

\* What a consume leaves of the conditions.
LEMMA ConsumeConds ==
  ASSUME Consume
  PROVE  /\ pc = "condColumn" => conditions' = Appended(conditions, <<currentToken>>)
         /\ pc = "condValue" =>
              conditions' = [conditions EXCEPT ![Len(conditions)] = Append(@, currentToken)]
BY DEF Consume, Recorded

\* A consume among the fields.
LEMMA FieldsConsume ==
  ASSUME TypeInv, Live, Consume, statement = "SELECT", pkColumn = Unset,
         NEW list \in Seq(Item(Fields)), items = NamesOf(list),
         Len(list) <= ColumnsSelectLimit,
         NEW part \in Text, SelectFields(list, part)
  PROVE  SelectForm'
<1> DEFINE cur == currentToken
           h == <<"SELECT">>
           p == Cat(part, <<cur>>)
<1>1. /\ cur \in Tokens /\ <<cur>> \in Text /\ cur \in Expected[pc] /\ pc \in ConsumePcs
      /\ statement' = "SELECT" /\ taken' = Cat(taken, <<cur>>)
  BY ReadParts, ConsumeKeeps, ConsumeReads
<1>2. /\ taken = Main(h, ItemWords(list), part)
      /\ FieldPlace(pc, cur, part, Len(list)) /\ conditions = <<>>
  BY DEF SelectFields
<1>3. Len(items) = Len(list) /\ Len(list) \in Nat
  BY FieldsKept
<1>4. pc \in {"fieldComma", "field", "FROM", "selectName"}
  BY <1>1, <1>2, Places DEF FieldPlace
<1>5. /\ pkColumn' = Unset /\ conditions' = <<>> /\ pc' = Following[pc]
      /\ (pc = "field" => items' = Appended(items, cur))
      /\ (pc # "field" => items' = items)
      /\ (pc = "selectName" => tableName' = cur)
  BY <1>2, <1>4, ConsumeKeeps
<1>6. cur \in Identifiers => cur \in Idents
  BY NamesApart DEF Live
<1>7. h \in Text /\ ItemWords(list) \in Seq(Text) /\ p \in Text
  BY <1>1, SelectWords, OneToken, CatType, ItemsSeq
<1> HIDE DEF h
<1>8. taken' = Main(h, ItemWords(list), p)
  BY <1>1, <1>2, <1>7, MainText
<1> HIDE DEF p, cur
<1>9. ASSUME NEW l \in Seq(Item(Fields)), NEW q \in Text, taken' = Main(h, ItemWords(l), q),
             FieldPlace(pc', currentToken', q, Len(l)), items' = NamesOf(l),
             Len(l) <= ColumnsSelectLimit
      PROVE  SelectForm'
  <2>1. SelectFields(l, q)'
    BY <1>5, <1>9 DEF SelectFields, h
  <2> QED  BY <1>1, <1>5, <1>9, <2>1 DEF SelectForm
<1>10. CASE pc = "fieldComma"
  <2>1. cur = "comma" /\ pc' = "fieldLimit" /\ items' = NamesOf(list)
    BY <1>1, <1>5, <1>10, ExpectedAt, FollowingAt
  <2>2. p = Commas(TRUE)
    BY <1>1, <1>2, <1>10, <2>1, OneToken DEF p, FieldPlace, Commas
  <2>3. FieldPlace(pc', currentToken', p, Len(list))
    BY <2>1, <2>2 DEF FieldPlace
  <2> QED  BY <1>7, <1>8, <1>9, <2>1, <2>3
<1>11. CASE pc = "FROM"
  <2>1. cur = "FROM" /\ pc' = "selectName" /\ items' = NamesOf(list)
    BY <1>1, <1>5, <1>11, ExpectedAt, FollowingAt
  <2>2. part = <<>> /\ Len(list) >= 1
    BY <1>2, <1>11 DEF FieldPlace
  <2>3. p = <<"FROM">>
    BY <1>1, <2>1, <2>2, OneToken DEF p
  <2>4. FieldPlace(pc', currentToken', p, Len(list))
    BY <2>1, <2>2, <2>3 DEF FieldPlace
  <2> QED  BY <1>7, <1>8, <1>9, <2>1, <2>4
<1>12. CASE pc = "field"
  <2>1. cur \in Fields /\ pc' = "fields" /\ items' = Appended(items, cur)
    <3>1. cur \in Identifiers \cup {"star"}
      BY <1>1, <1>12, ExpectedAt
    <3> QED  BY <1>5, <1>6, <1>12, <3>1, FollowingAt DEF Fields
  <2>2. Len(list) < ColumnsSelectLimit
    BY <1>2, <1>12 DEF FieldPlace
  <2>3. PICK c \in BOOLEAN : part = Commas(c)
    BY <1>2, <1>12 DEF FieldPlace
  <2> DEFINE x == [comma |-> c, name |-> cur]
             more == Append(list, x)
  <2>4. x \in Item(Fields) /\ x.comma = c /\ x.name = cur
    BY <2>1 DEF Item
  <2> HIDE DEF x
  <2>5. ItemTokens(x) = Cat(Commas(c), <<cur>>) /\ ItemTokens(x) \in Text
    BY <2>4, SelectWords, ItemText
  <2>6. p = ItemTokens(x)
    BY <2>3, <2>5 DEF p
  <2>7. /\ ItemWords(more) = Append(ItemWords(list), ItemTokens(x))
        /\ NamesOf(more) = Append(NamesOf(list), cur)
    BY <2>4, SelectWords, ItemsAppend
  <2>8. more \in Seq(Item(Fields)) /\ Len(more) = Len(list) + 1
    BY <2>4
  <2> HIDE DEF more
  <2>9. taken' = Main(h, ItemWords(more), <<>>)
    BY <1>7, <1>8, <2>6, <2>7, MainText
  <2>10. FieldPlace(pc', currentToken', <<>>, Len(more))
    BY <2>1 DEF FieldPlace
  <2>11. items' = NamesOf(more)
    <3>1. Len(items) < MaxItems
      BY <1>3, <2>2, ParserAssumption
    <3> QED  BY <2>1, <2>7, <3>1 DEF Appended
  <2>12. Len(more) <= ColumnsSelectLimit
    BY <1>3, <2>2, <2>8, ParserAssumption
  <2> QED  BY <1>9, <2>8, <2>9, <2>10, <2>11, <2>12, EmptyText
<1>13. CASE pc = "selectName"
  <2>1. cur \in Idents /\ pc' = "afterTable" /\ items' = NamesOf(list) /\ tableName' = cur
    BY <1>1, <1>5, <1>6, <1>13, ExpectedAt, FollowingAt
  <2>2. part = <<"FROM">> /\ Len(list) >= 1
    BY <1>2, <1>13 DEF FieldPlace
  <2>3. p = <<"FROM", cur>>
    BY <2>2, CatOne DEF p
  <2>4. SelectTail(cur, <<>>, <<>>) = p
    <3>1. CondWords(<<>>) = <<>>
      BY DEF CondWords
    <3>2. Main(p, <<>>, <<>>) = p
      BY <1>7, MainStart
    <3> QED  BY <2>3, <3>1, <3>2 DEF SelectTail
  <2>5. CondPlace(pc', currentToken', <<>>, <<>>, <<>>)
    BY <2>1 DEF CondPlace
  <2>6. Len(<<>>) <= ConditionsLimit
    BY ParserAssumption
  <2>7. SelectConds(list, <<>>, <<>>)'
    BY <1>5, <1>8, <2>1, <2>2, <2>4, <2>5, <2>6 DEF SelectConds, h
  <2>8. <<>> \in Seq(Idents \X Idents) /\ <<>> \in Text
    BY EmptyText
  <2> QED  BY <1>1, <1>5, <2>1, <2>7, <2>8 DEF SelectForm
<1> QED  BY <1>4, <1>10, <1>11, <1>12, <1>13

\* A consume behind the table's name.
LEMMA CondsConsume ==
  ASSUME TypeInv, Live, Consume, statement = "SELECT", pkColumn = Unset,
         NEW list \in Seq(Item(Fields)), items = NamesOf(list),
         Len(list) <= ColumnsSelectLimit, NEW conds \in Seq(Idents \X Idents),
         NEW part \in Text, SelectConds(list, conds, part)
  PROVE  SelectForm'
<1> DEFINE cur == currentToken
           h == <<"SELECT">>
           p == Cat(part, <<cur>>)
           k == CondKeyword(conds)
           tail == SelectTail(tableName, conds, p)
<1>1. /\ cur \in Tokens /\ <<cur>> \in Text /\ cur \in Expected[pc] /\ pc \in ConsumePcs
      /\ statement' = "SELECT" /\ taken' = Cat(taken, <<cur>>) /\ taken \in Text
  BY ReadParts, ConsumeKeeps, ConsumeReads
<1>2. /\ taken = Main(h, ItemWords(list), SelectTail(tableName, conds, part))
      /\ CondPlace(pc, cur, conds, part, conditions)
      /\ tableName \in Idents /\ Len(list) >= 1 /\ Len(conds) <= ConditionsLimit
  BY DEF SelectConds
<1>3. pc \in {"WHERE", "AND", "condColumn", "condOp", "condValue", "semicolon"}
  BY <1>1, <1>2, Places DEF CondPlace
<1>4. /\ UNCHANGED <<tableName, items, pkColumn>> /\ pc' = Following[pc]
      /\ (pc \notin {"condColumn", "condValue"} => conditions' = conditions)
      /\ (pc = "condColumn" => conditions' = Appended(conditions, <<cur>>))
      /\ (pc = "condValue" =>
            conditions' = [conditions EXCEPT ![Len(conditions)] = Append(@, cur)])
  BY <1>3, ConsumeKeeps, ConsumeConds
<1>5. cur \in Identifiers => cur \in Idents
  BY NamesApart DEF Live
<1>6. h \in Text /\ ItemWords(list) \in Seq(Text) /\ p \in Text
  BY <1>1, SelectWords, OneToken, CatType, ItemsSeq
<1> HIDE DEF h, cur
<1>7. taken' = Main(h, ItemWords(list), tail)
  <2> DEFINE t == SelectTail(tableName, conds, part)
  <2>1. t \in Text
    BY <1>2, TailIs
  <2>2. Cat(t, <<cur>>) = tail
    BY <1>1, <1>2, TailGrows, SMTT(30)
  <2> HIDE DEF t, tail
  <2>3. taken = Main(h, ItemWords(list), t)
    BY <1>2 DEF t
  <2> QED  BY <1>1, <1>6, <2>1, <2>2, <2>3, MainText
<1> HIDE DEF p
<1>8. ASSUME NEW cs \in Seq(Idents \X Idents), NEW q \in Text,
             tail = SelectTail(tableName, cs, q), Len(cs) <= ConditionsLimit,
             CondPlace(pc', currentToken', cs, q, conditions')
      PROVE  SelectForm'
  <2>1. taken' = Main(h, ItemWords(list), SelectTail(tableName', cs, q))
    BY <1>4, <1>7, <1>8
  <2>2. SelectConds(list, cs, q)'
    BY <1>2, <1>4, <1>8, <2>1 DEF SelectConds, h
  <2> QED  BY <1>1, <1>4, <1>8, <2>2 DEF SelectForm
<1>9. ASSUME CondPlace(pc', currentToken', conds, p, conditions') PROVE SelectForm'
  <2> HIDE DEF tail
  <2>1. tail = SelectTail(tableName, conds, p)
    BY DEF tail
  <2> QED  BY <1>2, <1>6, <1>8, <1>9, <2>1
<1> HIDE DEF tail, k
<1>10. CASE pc = "WHERE"
  <2>1. cur = "WHERE" /\ pc' = "conditions" /\ conditions' = conditions
    BY <1>1, <1>4, <1>10, ExpectedAt, FollowingAt
  <2>2. conds = <<>> /\ part = <<>> /\ conditions = conds
    BY <1>2, <1>10 DEF CondPlace
  <2>3. p = <<"WHERE">>
    BY <1>1, <2>1, <2>2, OneToken DEF p
  <2>4. CondPlace(pc', currentToken', conds, p, conditions')
    BY <2>1, <2>2, <2>3 DEF CondPlace
  <2> QED  BY <1>9, <2>4
<1>11. CASE pc = "AND"
  <2>1. cur = "AND" /\ pc' = "condLimit" /\ conditions' = conditions
    BY <1>1, <1>4, <1>11, ExpectedAt, FollowingAt
  <2>2. conds # <<>> /\ part = <<>> /\ conditions = conds
    BY <1>2, <1>11 DEF CondPlace
  <2>3. p = <<CondKeyword(conds)>>
    BY <1>1, <2>1, <2>2, OneToken DEF p, CondKeyword
  <2>4. CondPlace(pc', currentToken', conds, p, conditions')
    BY <2>1, <2>2, <2>3 DEF CondPlace
  <2> QED  BY <1>9, <2>4
<1>12. CASE pc = "condColumn"
  <2>1. cur \in Idents /\ pc' = "condOp" /\ conditions' = Appended(conditions, <<cur>>)
    BY <1>1, <1>4, <1>5, <1>12, ExpectedAt, FollowingAt
  <2>2. part = <<k>> /\ conditions = conds /\ Len(conds) < ConditionsLimit
    BY <1>2, <1>12 DEF CondPlace, k
  <2>3. p = <<k, cur>>
    BY <2>2, CatOne DEF p
  <2>4. conditions' = Append(conds, <<cur>>)
    <3>1. Len(conds) \in Nat
      OBVIOUS
    <3>2. Len(conds) < MaxItems
      BY <2>2, <3>1, ParserAssumption
    <3> QED  BY <2>1, <2>2, <3>2 DEF Appended
  <2>5. CondPlace(pc', currentToken', conds, p, conditions')
    BY <2>1, <2>2, <2>3, <2>4 DEF CondPlace, k
  <2> QED  BY <1>9, <2>5
<1>13. CASE pc = "condOp"
  <2>1. cur = "op" /\ pc' = "condValue" /\ conditions' = conditions
    BY <1>1, <1>4, <1>13, ExpectedAt, FollowingAt
  <2>2. PICK c \in Idents : conditions = Append(conds, <<c>>) /\ part = <<k, c>>
    BY <1>2, <1>13 DEF CondPlace, k
  <2>3. Len(conds) < ConditionsLimit
    BY <1>2, <1>13 DEF CondPlace
  <2>4. p = <<k, c, "op">>
    BY <2>1, <2>2, CatTwo DEF p
  <2>5. CondPlace(pc', currentToken', conds, p, conditions')
    BY <2>1, <2>2, <2>3, <2>4 DEF CondPlace, k
  <2> QED  BY <1>9, <2>5
<1>14. CASE pc = "condValue"
  <2>1. cur \in Idents /\ pc' = "conditions"
    BY <1>1, <1>4, <1>5, <1>14, ExpectedAt, FollowingAt
  <2>2. PICK c \in Idents : conditions = Append(conds, <<c>>) /\ part = <<k, c, "op">>
    BY <1>2, <1>14 DEF CondPlace, k
  <2>3. Len(conds) < ConditionsLimit /\ Len(conds) \in Nat
    BY <1>2, <1>14 DEF CondPlace
  <2>4. p = <<k, c, "op", cur>>
    BY <2>2, CatThree DEF p
  <2> DEFINE more == Append(conds, <<c, cur>>)
  <2>5. conditions' = more
    <3> DEFINE its == Append(conds, <<c>>)
               n == Len(conds)
    <3>1. Len(its) = n + 1 /\ its[n + 1] = <<c>> /\ DOMAIN its = 1 .. n + 1
          /\ \A i \in 1 .. n : its[i] = conds[i]
      BY <2>3
    <3>2. Append(<<c>>, cur) = <<c, cur>>
      <4>1. <<c>> \in Seq(Idents)
        OBVIOUS
      <4>2. Append(<<c>>, cur) = <<c>> \o <<cur>>
        BY <2>1, <4>1, AppendIsConcat
      <4> QED  BY <4>2, CatOne DEF Cat
    <3> HIDE DEF its
    <3>3. conditions' = [its EXCEPT ![n + 1] = <<c, cur>>]
      <4>1. conditions' = [its EXCEPT ![Len(its)] = Append(its[Len(its)], cur)]
        BY <1>4, <1>14, <2>2 DEF its
      <4> QED  BY <3>1, <3>2, <4>1
    <3>4. [its EXCEPT ![n + 1] = <<c, cur>>]
            = [i \in 1 .. n + 1 |-> IF i = n + 1 THEN <<c, cur>> ELSE its[i]]
      BY <3>1
    <3>5. more = [i \in 1 .. n + 1 |-> IF i = n + 1 THEN <<c, cur>> ELSE conds[i]]
      BY <2>3
    <3>6. \A i \in 1 .. n + 1 : i # n + 1 => its[i] = conds[i]
      BY <2>3, <3>1
    <3> QED  BY <3>3, <3>4, <3>5, <3>6
  <2>6. more \in Seq(Idents \X Idents) /\ CondWords(more) = Append(CondWords(conds), p)
    BY <2>1, <2>4, CondsAppend DEF k
  <2>7. more # <<>> /\ Len(more) <= ConditionsLimit
    <3>1. Len(more) = Len(conds) + 1
      OBVIOUS
    <3>2. more # <<>>
      BY SMTT(30)
    <3> QED  BY <2>3, <3>1, <3>2, ParserAssumption
  <2> HIDE DEF more
  <2>8. tail = SelectTail(tableName, more, <<>>)
    <3>1. <<"FROM", tableName>> \in Text /\ CondWords(conds) \in Seq(Text)
      BY <1>2, EmptyText, TailIs, CondsSeq
    <3>2. Main(<<"FROM", tableName>>, CondWords(conds), p)
            = Main(<<"FROM", tableName>>, Append(CondWords(conds), p), <<>>)
      BY <1>6, <3>1, MainText
    <3> QED  BY <2>6, <3>2 DEF tail, SelectTail
  <2>9. CondPlace(pc', currentToken', more, <<>>, conditions')
    BY <2>1, <2>5, <2>7 DEF CondPlace
  <2> QED  BY <1>8, <2>6, <2>7, <2>8, <2>9, EmptyText
<1>15. CASE pc = "semicolon"
  <2>1. cur = "semicolon" /\ pc' = "accepted" /\ conditions' = conditions
    BY <1>1, <1>4, <1>15, ExpectedAt, FollowingAt
  <2>2. part = <<>> /\ conditions = conds
    BY <1>2, <1>15 DEF CondPlace
  <2>3. p = <<"semicolon">>
    BY <1>1, <2>1, <2>2, OneToken DEF p
  <2>4. CondPlace(pc', currentToken', conds, p, conditions')
    BY <2>1, <2>2, <2>3 DEF CondPlace
  <2> QED  BY <1>9, <2>4
<1> QED  BY <1>3, <1>10, <1>11, <1>12, <1>13, <1>14, <1>15

\* So a consume leaves a SELECT in its place.
LEMMA SelectConsumes ==
  ASSUME TypeInv, SelectForm, Live, Consume
  PROVE  SelectForm'
<1>1. statement = "SELECT" /\ pkColumn = Unset
  BY DEF SelectForm
<1>2. CASE pc = "SELECT" /\ taken = <<>> /\ items = <<>> /\ conditions = <<>>
  <2> DEFINE cur == currentToken
  <2>1. cur \in Expected[pc] /\ cur \in Tokens /\ statement' = "SELECT"
        /\ taken' = Cat(taken, <<cur>>)
    BY <1>1, ReadParts, ConsumeKeeps, ConsumeReads
  <2>2. items' = <<>> /\ conditions' = <<>> /\ pkColumn' = Unset /\ pc' = Following[pc]
    BY <1>1, <1>2, ConsumeKeeps
  <2> HIDE DEF cur
  <2>3. cur = "SELECT" /\ pc' = "fields"
    BY <1>2, <2>1, <2>2, ExpectedAt, FollowingAt
  <2>4. taken' = <<"SELECT">> /\ <<"SELECT">> \in Text
    BY <1>2, <2>1, <2>3, OneToken
  <2>5. ItemWords(<<>>) = <<>> /\ NamesOf(<<>>) = <<>> /\ <<>> \in Seq(Item(Fields))
    BY DEF ItemWords, NamesOf
  <2>6. Main(<<"SELECT">>, <<>>, <<>>) = <<"SELECT">>
    BY <2>4, MainStart
  <2>7. FieldPlace(pc', currentToken', <<>>, Len(<<>>))
    BY <2>3 DEF FieldPlace
  <2>8. SelectFields(<<>>, <<>>)'
    BY <2>2, <2>4, <2>5, <2>6, <2>7 DEF SelectFields
  <2>9. Len(<<>>) <= ColumnsSelectLimit
    BY ParserAssumption
  <2> QED  BY <2>1, <2>2, <2>5, <2>8, <2>9, EmptyText DEF SelectForm
<1>3. ASSUME NEW list \in Seq(Item(Fields)), items = NamesOf(list),
             Len(list) <= ColumnsSelectLimit, NEW part \in Text, SelectFields(list, part)
      PROVE  SelectForm'
  BY <1>1, <1>3, FieldsConsume
<1>4. ASSUME NEW list \in Seq(Item(Fields)), items = NamesOf(list),
             Len(list) <= ColumnsSelectLimit, NEW conds \in Seq(Idents \X Idents),
             NEW part \in Text, SelectConds(list, conds, part)
      PROVE  SelectForm'
  BY <1>1, <1>4, CondsConsume
<1> QED  BY <1>2, <1>3, <1>4 DEF SelectForm

-------------------------------------------------------------------------------
(***************************************************************************)
(* Everything that is accepted, and everything that is rejected            *)
(***************************************************************************)

\* The tokens of sentences: not the end, and not a character that is no token.
Words == Tokens \ {"eof", "unsupported"}

\* The names, the keywords and the symbols are such words.
LEMMA WordsAre ==
  /\ Words \in SUBSET Tokens /\ Idents \in SUBSET Words /\ Fields \in SUBSET Words
  /\ Keywords \subseteq Words /\ Symbols \subseteq Words /\ "op" \in Words
<1>1. "eof" \notin Keywords \cup Symbols /\ "unsupported" \notin Keywords \cup Symbols
  BY DEF Keywords, Symbols
<1>2. "op" # "eof" /\ "op" # "unsupported" /\ "star" \in Symbols
  BY DEF Symbols
<1> QED  BY <1>1, <1>2, NamesApart DEF Words, Fields

\* A text of words only.
LEMMA MainIn ==
  ASSUME NEW h \in Seq(Words), NEW ws \in Seq(Seq(Words)), NEW p \in Seq(Words)
  PROVE  Main(h, ws, p) \in Seq(Words)
<1>1. FlattenSeq(ws) \in Seq(Words)
  BY WordsAre, FlattenIn
<1> DEFINE f == FlattenSeq(ws)
<1> HIDE DEF f
<1>2. f \o p \in Seq(Words)
  BY <1>1 DEF f
<1>3. h \o (f \o p) \in Seq(Words)
  BY <1>2
<1> QED  BY <1>3 DEF Main, Cat, f

\* Items are texts of words.
LEMMA ItemsIn ==
  ASSUME NEW X \in SUBSET Words, NEW list \in Seq(Item(X))
  PROVE  ItemWords(list) \in Seq(Seq(Words))
<1>1. ASSUME NEW x \in Item(X) PROVE ItemTokens(x) \in Seq(Words)
  <2>1. x.name \in Words /\ "comma" \in Words
    BY WordsAre DEF Item, Symbols
  <2>2. Commas(x.comma) \in Seq(Words) /\ <<x.name>> \in Seq(Words)
    BY <2>1 DEF Commas
  <2>3. ItemTokens(x) = Commas(x.comma) \o <<x.name>>
    BY DEF ItemTokens, Comma, Commas
  <2> QED  BY <2>2, <2>3
<1>2. \A i \in DOMAIN list : list[i] \in Item(X)
  OBVIOUS
<1>3. \A i \in DOMAIN list : ItemTokens(list[i]) \in Seq(Words)
  BY <1>1, <1>2
<1>4. DOMAIN list = 1 .. Len(list) /\ Len(list) \in Nat
  OBVIOUS
<1> QED  BY <1>3, <1>4 DEF ItemWords

\* Elements are texts of words.
LEMMA ElementsIn ==
  ASSUME NEW list \in Seq(Element)
  PROVE  ElementWords(list) \in Seq(Seq(Words))
<1>1. ASSUME NEW e \in Element PROVE ElementTokens(e) \in Seq(Words)
  <2>1. /\ e.name \in Words /\ "comma" \in Words /\ "PRIMARY" \in Words /\ "KEY" \in Words
        /\ "open" \in Words /\ "close" \in Words /\ "INT" \in Words
    BY WordsAre, NamesApart DEF Element, Symbols, Keywords
  <2>2. Commas(e.comma) \in Seq(Words) /\ ElementBody(e) \in Seq(Words)
    BY <2>1 DEF Commas, ElementBody
  <2>3. ElementTokens(e) = Commas(e.comma) \o ElementBody(e)
    BY ElementText DEF Cat
  <2> QED  BY <2>2, <2>3
<1>2. \A i \in DOMAIN list : list[i] \in Element
  OBVIOUS
<1>3. \A i \in DOMAIN list : ElementTokens(list[i]) \in Seq(Words)
  BY <1>1, <1>2
<1>4. DOMAIN list = 1 .. Len(list) /\ Len(list) \in Nat
  OBVIOUS
<1> QED  BY <1>3, <1>4 DEF ElementWords

\* Conditions are texts of words.
LEMMA CondsIn ==
  ASSUME NEW conds \in Seq(Idents \X Idents)
  PROVE  CondWords(conds) \in Seq(Seq(Words))
<1>1. ASSUME NEW w \in CondCode PROVE w \in Seq(Words)
  <2>1. w \in Seq(Tokens) /\ Len(w) = 4 /\ w[1] \in {"WHERE", "AND"}
        /\ w[2] \in Idents /\ w[3] = "op" /\ w[4] \in Idents
    BY DEF CondCode, Text
  <2>2. w[1] \in Words /\ w[2] \in Words /\ w[3] \in Words /\ w[4] \in Words
    BY <2>1, WordsAre DEF Keywords
  <2>3. \A i \in 1 .. 4 : w[i] \in Words
    BY <2>2
  <2>4. w = [i \in 1 .. 4 |-> w[i]]
    BY <2>1
  <2>5. [i \in 1 .. 4 |-> w[i]] \in Seq(Words)
    BY <2>3
  <2> QED  BY <2>4, <2>5
<1>2. CondWords(conds) \in Seq(CondCode)
  BY CondsSeq
<1> QED  BY <1>1, <1>2

\* So are the sentences.
LEMMA SentenceWords ==
  ASSUME NEW s \in Sentences
  PROVE  s.tokens \in Seq(Words) /\ s.tokens \in Text
<1>1. s.statement \in {"INSERT", "CREATE", "SELECT"}
  BY SentenceKinds DEF Sentences, SoundCreateSentences
<1>2. s.tokens \in Seq(Words) => s.tokens \in Text
  BY WordsAre DEF Text
<1>3. CASE s.statement = "INSERT"
  <2>1. PICK tb \in Idents, list \in Seq(Item(Idents)) :
          s.tokens = Main(InsertHead(tb), ItemWords(list), <<"close">>)
    BY <1>3, InsertSentenceIs
  <2>2. InsertHead(tb) \in Seq(Words) /\ <<"close">> \in Seq(Words)
    <3>1. /\ tb \in Words /\ "INSERT" \in Words /\ "INTO" \in Words /\ "VALUES" \in Words
          /\ "open" \in Words /\ "close" \in Words
      BY WordsAre DEF Keywords, Symbols
    <3> QED  BY <3>1 DEF InsertHead
  <2>3. ItemWords(list) \in Seq(Seq(Words))
    BY WordsAre, ItemsIn
  <2> QED  BY <1>2, <2>1, <2>2, <2>3, MainIn
<1>4. CASE s.statement = "CREATE"
  <2>1. PICK tb \in Idents, list \in Seq(Element) :
          s.tokens = Main(CreateHead(tb), ElementWords(list), <<"close">>)
    BY <1>4, CreateSentenceIs
  <2>2. CreateHead(tb) \in Seq(Words) /\ <<"close">> \in Seq(Words)
    <3>1. /\ tb \in Words /\ "CREATE" \in Words /\ "TABLE" \in Words
          /\ "open" \in Words /\ "close" \in Words
      BY WordsAre DEF Keywords, Symbols
    <3> QED  BY <3>1 DEF CreateHead
  <2> QED  BY <1>2, <2>1, <2>2, ElementsIn, MainIn
<1>5. CASE s.statement = "SELECT"
  <2> DEFINE q == <<"semicolon">>
             h == <<"SELECT">>
  <2>1. PICK tb \in Idents, list \in Seq(Item(Fields)), conds \in Seq(Idents \X Idents) :
          s.tokens = Main(h, ItemWords(list), SelectTail(tb, conds, q))
    BY <1>5, SelectSentenceIs
  <2> DEFINE f == <<"FROM", tb>>
  <2>2. f \in Seq(Words) /\ h \in Seq(Words) /\ q \in Seq(Words)
    <3>1. tb \in Words /\ "SELECT" \in Words /\ "FROM" \in Words /\ "semicolon" \in Words
      BY WordsAre DEF Keywords, Symbols
    <3> QED  BY <3>1
  <2>3. ItemWords(list) \in Seq(Seq(Words)) /\ CondWords(conds) \in Seq(Seq(Words))
    BY WordsAre, ItemsIn, CondsIn
  <2>4. SelectTail(tb, conds, q) = Main(f, CondWords(conds), q)
    BY DEF SelectTail
  <2> HIDE DEF f, h, q
  <2>5. SelectTail(tb, conds, q) \in Seq(Words)
    BY <2>2, <2>3, <2>4, MainIn
  <2> QED  BY <1>2, <2>1, <2>2, <2>3, <2>5, MainIn
<1> QED  BY <1>1, <1>3, <1>4, <1>5

\* Once the tokeniser does not move on, no sentence starts with what was read.
LEMMA DeadBegins ==
  ASSUME NEW r \in Seq(Tokens), Len(r) >= 1, r[Len(r)] \in {"eof", "unsupported"}, NEW kind
  PROVE  NoneBegins(kind, r)
<1> SUFFICES ASSUME NEW s \in Sentences, Begins(r, s.tokens) PROVE FALSE
  BY DEF NoneBegins
<1> DEFINE t == s.tokens
<1>1. t \in Seq(Words)
  BY SentenceWords
<1>2. Begins(r, t)
  OBVIOUS
<1> HIDE DEF t
<1>3. Len(r) \in Nat /\ Len(t) \in Nat
  BY <1>1
<1>4. Len(r) \in 1 .. Len(t) /\ Len(r) \in 1 .. Len(r)
  BY <1>2, <1>3 DEF Begins
<1>5. t[Len(r)] = r[Len(r)] /\ t[Len(r)] \in Words
  BY <1>1, <1>2, <1>4 DEF Begins
<1> QED  BY <1>5 DEF Words

\* Where the tokeniser does not move on, the parser does not accept.
LEMMA DeadStays ==
  ASSUME TypeInv, ~Live, pc # "accepted", Next
  PROVE  ~Live' /\ pc' # "accepted"
<1>1. CASE Consume
  <2>1. Advance /\ pc \in ConsumePcs /\ currentToken \in Expected[pc]
    BY <1>1, ConsumeKeeps
  <2>2. read' = read
    BY <2>1, AdvanceReads DEF Live
  <2>3. ~Live'
    BY <2>2 DEF Live, currentToken
  <2>4. pc \notin {"createClose", "insertClose", "semicolon"}
    <3>1. "eof" # "close" /\ "unsupported" # "close" /\ "eof" # "semicolon"
          /\ "unsupported" # "semicolon"
      OBVIOUS
    <3> QED  BY <2>1, <3>1, ExpectedAt DEF Live
  <2>5. pc = "columnType" => pc' # "accepted"
    BY <1>1, FollowingAt DEF Consume
  <2>6. pc # "columnType" => pc' = Following[pc]
    BY <1>1, ConsumeKeeps
  <2>7. \A p \in ConsumePcs :
          p \notin {"createClose", "insertClose", "semicolon"} => Following[p] # "accepted"
    BY Places, FollowingAt
  <2> QED  BY <2>1, <2>3, <2>4, <2>5, <2>6, <2>7
<1>2. CASE SyntaxError
  BY <1>2 DEF SyntaxError, Live, currentToken
<1>3. CASE Branch
  <2>1. ~Live'
    BY <1>3 DEF Branch, Live, currentToken
  <2>2. AtColumns # "accepted" /\ AtColumn # "accepted" /\ AtRow # "accepted"
    BY DEF AtColumns, AtColumn, AtRow
  <2>3. AtFields # "accepted" /\ AtFieldLimit # "accepted" /\ AtAfterTable # "accepted"
    BY DEF AtFields, AtFieldLimit, AtAfterTable
  <2>4. AtConditions # "accepted" /\ AtCondLimit # "accepted"
    <3>1. AtConditions \in {"rejected", "semicolon", "condLimit", "AND"}
      BY DEF AtConditions
    <3> QED  BY <3>1 DEF AtCondLimit
  <2>5. pc' \in {AtColumns, AtColumn, AtRow, AtFields, AtFieldLimit, AtAfterTable,
                 AtConditions, AtCondLimit}
    BY <1>3 DEF Branch, BranchPcs
  <2> QED  BY <2>1, <2>2, <2>3, <2>4, <2>5
<1> QED  BY <1>1, <1>2, <1>3 DEF Next

\* What has been read has the form of a statement, unless it is no statement: the
\* tokeniser does not move on, or no sentence starts so.
Settled == pc = "rejected" /\ NoneBegins(statement, read)
Dead    == ~Live /\ pc # "accepted"

ParserInv ==
  /\ TypeInv
  /\ Dead \/ Settled \/ InsertForm \/ CreateForm \/ SelectForm

\* It begins so.
LEMMA ParserInitially == Init => ParserInv
<1> SUFFICES ASSUME Init PROVE ParserInv
  OBVIOUS
<1>1. TypeInv
  BY TypeInitially
<1>2. statement \in {"CREATE", "INSERT", "SELECT"}
  BY DEF Init
<1> QED  BY <1>1, <1>2, InsertBegins, CreateBegins, SelectBegins DEF ParserInv

\* The forms speak of the variables only.
LEMMA ParserStutters == ParserInv /\ UNCHANGED vars => ParserInv'
<1> SUFFICES ASSUME ParserInv, UNCHANGED vars PROVE ParserInv'
  OBVIOUS
<1>1. UNCHANGED <<read, pc, statement, tableName, items, pkColumn, conditions>>
  BY DEF vars
<1>2. taken' = taken /\ currentToken' = currentToken
  BY <1>1 DEF taken, currentToken
<1>3. TypeInv'
  BY TypeStep DEF ParserInv
<1>4. Dead => Dead'
  BY <1>1, <1>2 DEF Dead, Live
<1>5. Settled => Settled'
  <2>1. Settled' <=> pc' = "rejected" /\ NoneBegins(statement', read')
    BY DEF Settled, NoneBegins
  <2> QED  BY <1>1, <2>1 DEF Settled
<1>6. InsertForm => InsertForm'
  <2>1. \A list, part : InsertRow(list, part) => InsertRow(list, part)'
    BY <1>1, <1>2 DEF InsertRow
  <2> QED  BY <1>1, <1>2, <2>1 DEF InsertForm
<1>7. CreateForm => CreateForm'
  <2>1. \A list, part : CreateBetween(list, part) => CreateBetween(list, part)'
    BY <1>1, <1>2 DEF CreateBetween
  <2>2. \A list, c, body : CreateWithin(list, c, body) => CreateWithin(list, c, body)'
    BY <1>1, <1>2 DEF CreateWithin
  <2> QED  BY <1>1, <1>2, <2>1, <2>2 DEF CreateForm
<1>8. SelectForm => SelectForm'
  <2>1. \A list, part : SelectFields(list, part) => SelectFields(list, part)'
    BY <1>1, <1>2 DEF SelectFields
  <2>2. \A list, conds, part :
          SelectConds(list, conds, part) => SelectConds(list, conds, part)'
    BY <1>1, <1>2 DEF SelectConds
  <2> QED  BY <1>1, <1>2, <2>1, <2>2 DEF SelectForm
<1> QED  BY <1>3, <1>4, <1>5, <1>6, <1>7, <1>8 DEF ParserInv

\* A type that is none ends a CREATE, and no sentence starts with it.
LEMMA TypeRejects ==
  ASSUME TypeInv, CreateForm, Live, Consume, pc = "columnType", currentToken \notin Types
  PROVE  Settled'
<1>1. pc \in ConsumePcs /\ Advance /\ statement' = statement /\ statement = "CREATE"
  BY ConsumeKeeps DEF CreateForm
<1>2. pc' = "rejected"
  BY DEF Consume
<1>3. NoneBegins("CREATE", read)
  BY <1>1, CreateRejects
<1>4. PICK token \in Tokens : read' = Append(read, token)
  BY <1>1, AdvanceReads DEF Live
<1>5. read \in Text /\ <<token>> \in Text /\ read' = Cat(read, <<token>>)
  BY <1>4, ReadParts, OneToken DEF Cat, Text
<1>6. ASSUME NEW s \in Sentences, s.statement = "CREATE" PROVE ~Begins(read', s.tokens)
  <2>1. SUFFICES ASSUME Begins(read', s.tokens) PROVE FALSE
    OBVIOUS
  <2>2. s.tokens \in Text /\ Begins(Cat(read, <<token>>), s.tokens)
    BY <1>5, <2>1, SentenceWords
  <2>3. Begins(read, s.tokens)
    BY <1>5, <2>2, BeginsPart
  <2> QED  BY <1>3, <1>6, <2>3 DEF NoneBegins
<1>7. NoneBegins("CREATE", read')
  BY <1>6 DEF NoneBegins
<1> QED  BY <1>1, <1>2, <1>7 DEF Settled, NoneBegins

\* An error leaves the tokens that have been read.
LEMMA ErrorSettles ==
  ASSUME pc' = "rejected", read' = read, statement' = statement, NoneBegins(statement, read)
  PROVE  Settled'
<1>1. NoneBegins(statement', read')
  OBVIOUS
<1> QED  BY <1>1 DEF Settled, NoneBegins

\* A step of a statement of each kind leaves it in its form, or ends it.
LEMMA FormStep ==
  ASSUME TypeInv, Live, InsertForm \/ CreateForm \/ SelectForm, Next
  PROVE  Dead' \/ Settled' \/ InsertForm' \/ CreateForm' \/ SelectForm'
<1>1. CASE Consume
  <2>1. CASE InsertForm
    BY <1>1, <2>1, InsertConsumes DEF Dead
  <2>2. CASE CreateForm /\ (pc # "columnType" \/ currentToken \in Types)
    BY <1>1, <2>2, CreateConsumes DEF Dead
  <2>3. CASE CreateForm /\ pc = "columnType" /\ currentToken \notin Types
    BY <1>1, <2>3, TypeRejects
  <2>4. CASE SelectForm
    BY <1>1, <2>4, SelectConsumes
  <2> QED  BY <2>1, <2>2, <2>3, <2>4
<1>2. CASE SyntaxError
  <2>1. /\ pc \in ConsumePcs /\ currentToken \notin Expected[pc]
        /\ pc' = "rejected" /\ read' = read /\ statement' = statement
    BY <1>2 DEF SyntaxError
  <2>2. InsertForm => NoneBegins("INSERT", read) /\ statement = "INSERT"
    BY <2>1, InsertRejects DEF InsertForm
  <2>3. CreateForm => NoneBegins("CREATE", read) /\ statement = "CREATE"
    BY <2>1, CreateRejects DEF CreateForm
  <2>4. SelectForm => NoneBegins("SELECT", read) /\ statement = "SELECT"
    BY <2>1, SelectRejects DEF SelectForm
  <2>5. NoneBegins(statement, read)
    BY <2>2, <2>3, <2>4
  <2> QED  BY <2>1, <2>5, ErrorSettles
<1>3. CASE Branch
  <2>1. read' = read /\ statement' = statement
    BY <1>3 DEF Branch
  <2>2. CASE InsertForm
    BY <1>3, <2>2, InsertBranches
  <2>3. CASE CreateForm
    <3>1. CASE CreateForm'
      BY <3>1
    <3>2. CASE /\ pc = "columns" /\ currentToken = "close" /\ ~Sound(items, pkColumn)
               /\ pc' = "rejected"
      <4>1. NoneBegins("CREATE", read) /\ statement = "CREATE"
        BY <2>3, <3>2, CreateRejects DEF CreateForm
      <4> QED  BY <2>1, <3>2, <4>1, ErrorSettles
    <3> QED  BY <1>3, <2>3, <3>1, <3>2, CreateBranches
  <2>4. CASE SelectForm
    <3>1. CASE SelectForm'
      BY <3>1
    <3>2. CASE /\ pc' = "rejected"
               /\ \/ pc = "fields" /\ currentToken = "FROM" /\ items = <<>>
                  \/ pc = "fieldLimit" /\ Len(items) = ColumnsSelectLimit
                  \/ pc = "conditions" /\ currentToken = "semicolon" /\ conditions = <<>>
                  \/ pc = "condLimit" /\ Len(conditions) = ConditionsLimit
      <4>1. NoneBegins("SELECT", read) /\ statement = "SELECT"
        BY <2>4, <3>2, SelectRejects DEF SelectForm
      <4> QED  BY <2>1, <3>2, <4>1, ErrorSettles
    <3> QED  BY <1>3, <2>4, <3>1, <3>2, SelectBranches
  <2> QED  BY <2>2, <2>3, <2>4
<1> QED  BY <1>1, <1>2, <1>3 DEF Next

\* A parser that has returned does not go on.
LEMMA EndedStays == pc \in Ended => ~Next
<1>1. "accepted" \notin BranchPcs /\ "rejected" \notin BranchPcs
  BY DEF BranchPcs
<1>2. "accepted" \notin ConsumePcs /\ "rejected" \notin ConsumePcs
  BY Places
<1> QED  BY <1>1, <1>2 DEF Ended, Next, Consume, SyntaxError, Branch

\* Every step of the parser keeps to that.
LEMMA ParserStep == ParserInv /\ [Next]_vars => ParserInv'
<1>1. CASE UNCHANGED vars
  BY <1>1, ParserStutters
<1>2. CASE ParserInv /\ Next
  <2>1. TypeInv /\ TypeInv'
    BY <1>2, TypeStep DEF ParserInv
  <2>2. pc # "accepted" /\ ~Settled
    BY <1>2, EndedStays DEF Ended, Settled
  <2>3. CASE Live
    <3>1. InsertForm \/ CreateForm \/ SelectForm
      BY <1>2, <2>2, <2>3 DEF ParserInv, Dead
    <3> QED  BY <1>2, <2>1, <2>3, <3>1, FormStep DEF ParserInv
  <2>4. CASE ~Live
    BY <1>2, <2>1, <2>2, <2>4, DeadStays DEF ParserInv, Dead
  <2> QED  BY <2>3, <2>4
<1> QED  BY <1>1, <1>2

\* So what has been read always has the form of a statement, or is none.
LEMMA ParserInvariant == Spec => []ParserInv
  BY ParserInitially, ParserStep, PTL DEF Spec

\* An INSERT that is accepted is a sentence.
LEMMA InsertAccepts ==
  ASSUME TypeInv, InsertForm, pc = "accepted"
  PROVE  Sentence(statement, taken, tableName, items, pkColumn, conditions) \in Sentences
<1>1. PICK list \in Seq(Item(Idents)), part \in Text : InsertRow(list, part)
  BY DEF InsertForm, InsertStart
<1>2. tableName \in Idents /\ statement = "INSERT" /\ pkColumn = Unset /\ conditions = <<>>
  BY DEF InsertForm, InsertStart
<1>3. part = <<"close">>
  BY <1>1 DEF InsertRow, RowPlace
<1>4. taken = Main(InsertHead(tableName), ItemWords(list), <<"close">>) /\ items = NamesOf(list)
  BY <1>1, <1>3 DEF InsertRow
<1>5. InsertSentence(tableName, list)
        = Sentence(statement, taken, tableName, items, pkColumn, conditions)
  BY <1>2, <1>4, InsertSentenceOf, Zenon
<1>6. list \in Lists(Item(Idents), MaxItems)
  <2>1. Len(NamesOf(list)) = Len(list)
    <3>1. \E x : x \in Item(Idents)
      <4>1. [comma |-> TRUE, name |-> tableName] \in Item(Idents)
        BY <1>2 DEF Item
      <4> QED  BY <4>1
    <3> QED  BY <3>1, InsertWords, ItemsAppend
  <2>2. Len(items) <= MaxItems
    BY DEF TypeInv, TypeOK
  <2> QED  BY <1>4, <2>1, <2>2, ListsAre, ParserAssumption
<1>7. InsertSentence(tableName, list) \in InsertSentences
  BY <1>2, <1>6 DEF InsertSentences
<1> QED  BY <1>5, <1>7 DEF Sentences

\* A CREATE that is accepted is a sentence.
LEMMA CreateAccepts ==
  ASSUME TypeInv, CreateForm, pc = "accepted"
  PROVE  Sentence(statement, taken, tableName, items, pkColumn, conditions) \in Sentences
<1>1. PICK list \in Seq(Element), part \in Text : CreateBetween(list, part)
  BY DEF CreateForm, CreateStart, CreateWithin, WithinPlace
<1>2. tableName \in Idents /\ statement = "CREATE" /\ conditions = <<>>
  BY DEF CreateForm, CreateStart
<1>3. part = <<"close">> /\ Sound(items, pkColumn)
  BY <1>1 DEF CreateBetween, BetweenPlace
<1>4. /\ taken = Main(CreateHead(tableName), ElementWords(list), <<"close">>)
      /\ items = NamesIn(list, FALSE) /\ pkColumn = PkOf(list)
  BY <1>1, <1>3 DEF CreateBetween
<1> DEFINE s == Sentence(statement, taken, tableName, items, pkColumn, conditions)
<1>5. CreateSentence(tableName, list) = s
  BY <1>2, <1>4, CreateSentenceOf, Zenon
<1>6. list \in Lists(Element, (MaxTokens - 5) \div 2)
  <2> DEFINE f == FlattenSeq(ElementWords(list))
             p == <<"close">>
  <2>1. ElementWords(list) \in Seq(Text) /\ Len(f) >= 2 * Len(list) /\ f \in Text
    BY ElementsSeq
  <2>2. CreateHead(tableName) \in Text /\ Len(CreateHead(tableName)) = 4 /\ p \in Text
        /\ Len(p) = 1
    BY <1>2, CreateHeadIs, CreateWords, OneToken
  <2>3. taken = Main(CreateHead(tableName), ElementWords(list), p)
    BY <1>4
  <2> HIDE DEF p
  <2>4. Len(taken) = 4 + Len(f) + 1
    <3> DEFINE h == CreateHead(tableName)
               ws == ElementWords(list)
    <3>1. h \in Text /\ ws \in Seq(Text) /\ p \in Text
      BY <2>1, <2>2
    <3>2. taken = Main(h, ws, p) /\ Len(h) = 4 /\ Len(p) = 1 /\ f = FlattenSeq(ws)
      BY <2>2, <2>3 DEF f
    <3> HIDE DEF h, ws
    <3>3. Len(Main(h, ws, p)) = Len(h) + Len(FlattenSeq(ws)) + Len(p)
      BY <3>1, MainText
    <3> QED  BY <3>2, <3>3
  <2>5. Len(taken) <= MaxTokens
    BY ReadParts
  <2> HIDE DEF f
  <2>6. Len(list) \in Nat /\ Len(f) \in Nat /\ MaxTokens \in Nat
    BY <2>1, TextLen, ParserAssumption
  <2>7. 2 * Len(list) <= MaxTokens - 5
    BY <2>1, <2>4, <2>5, <2>6
  <2>8. Len(list) <= (MaxTokens - 5) \div 2 /\ (MaxTokens - 5) \div 2 \in Nat
    BY <2>6, <2>7
  <2> QED  BY <2>8, ListsAre
<1>7. s \in CreateSentences
  BY <1>2, <1>5, <1>6 DEF CreateSentences
<1>8. s.items = items /\ s.pkColumn = pkColumn
  BY DEF Sentence
<1> HIDE DEF s
<1>9. s \in SoundCreateSentences
  BY <1>3, <1>7, <1>8 DEF SoundCreateSentences, Sound
<1> QED  BY <1>9 DEF Sentences, s

\* A SELECT that is accepted is a sentence.
LEMMA SelectAccepts ==
  ASSUME TypeInv, SelectForm, pc = "accepted"
  PROVE  Sentence(statement, taken, tableName, items, pkColumn, conditions) \in Sentences
<1>1. PICK list \in Seq(Item(Fields)) :
        /\ items = NamesOf(list) /\ Len(list) <= ColumnsSelectLimit
        /\ \E conds \in Seq(Idents \X Idents), part \in Text : SelectConds(list, conds, part)
  BY DEF SelectForm, SelectFields, FieldPlace
<1>2. PICK conds \in Seq(Idents \X Idents), part \in Text : SelectConds(list, conds, part)
  BY <1>1
<1>3. statement = "SELECT" /\ pkColumn = Unset
  BY DEF SelectForm
<1>4. /\ taken = Main(<<"SELECT">>, ItemWords(list), SelectTail(tableName, conds, part))
      /\ CondPlace(pc, currentToken, conds, part, conditions)
      /\ tableName \in Idents /\ Len(list) >= 1 /\ Len(conds) <= ConditionsLimit
  BY <1>2 DEF SelectConds
<1>5. part = <<"semicolon">> /\ conditions = conds
  BY <1>4 DEF CondPlace
<1>6. taken = Main(<<"SELECT">>, ItemWords(list), SelectTail(tableName, conds, <<"semicolon">>))
  BY <1>4, <1>5
<1>7. SelectSentence(tableName, list, conds)
        = Sentence(statement, taken, tableName, items, pkColumn, conditions)
  BY <1>1, <1>3, <1>4, <1>5, <1>6, SelectSentenceOf, Zenon
<1>8. list \in FieldLists
  <2>1. list # <<>>
    BY <1>4
  <2>2. list \in Lists(Item(Fields), ColumnsSelectLimit)
    BY <1>1, ListsAre, ParserAssumption
  <2> QED  BY <2>1, <2>2 DEF FieldLists, Fields
<1>9. conds \in ConditionLists
  BY <1>4, ListsAre, ParserAssumption DEF ConditionLists
<1>10. SelectSentence(tableName, list, conds) \in SelectSentences
  BY <1>4, <1>8, <1>9 DEF SelectSentences
<1> QED  BY <1>7, <1>10 DEF Sentences

\* What the parser accepts is a sentence of the language, and the syntax tree it
\* returns is what that sentence means: for any names and limits, and over inputs of
\* any length.
THEOREM ParserAccepts == Spec => []AcceptsSentences
<1>1. ParserInv => AcceptsSentences
  <2>1. SUFFICES ASSUME ParserInv, pc = "accepted"
                 PROVE  Sentence(statement, taken, tableName, items, pkColumn, conditions)
                          \in Sentences
    BY DEF AcceptsSentences, taken
  <2>2. TypeInv /\ (InsertForm \/ CreateForm \/ SelectForm)
    BY <2>1 DEF ParserInv, Dead, Settled
  <2> QED  BY <2>1, <2>2, InsertAccepts, CreateAccepts, SelectAccepts
<1> QED  BY <1>1, ParserInvariant, PTL

\* The parser returns an error only for tokens that no sentence of the language
\* starts with.
THEOREM ParserRejects == Spec => []RejectsOnlyOthers
<1>1. ParserInv => RejectsOnlyOthers
  <2>1. SUFFICES ASSUME ParserInv, pc = "rejected" PROVE NoneBegins(statement, read)
    BY BeginningBegins, SentenceWords DEF RejectsOnlyOthers
  <2>2. ~InsertForm
    BY <2>1 DEF InsertForm, InsertStart, InsertRow, RowPlace
  <2>3. ~CreateForm
    BY <2>1 DEF CreateForm, CreateStart, CreateBetween, BetweenPlace, CreateWithin, WithinPlace
  <2>4. ~SelectForm
    BY <2>1 DEF SelectForm, SelectFields, FieldPlace, SelectConds, CondPlace
  <2>5. CASE Settled
    BY <2>5 DEF Settled
  <2>6. CASE Dead
    <3>1. read \in Seq(Tokens) /\ Len(read) >= 1
      BY <2>1 DEF ParserInv, TypeInv, TypeOK
    <3> QED  BY <2>6, <3>1, DeadBegins DEF Dead, Live, currentToken
  <2> QED  BY <2>1, <2>2, <2>3, <2>4, <2>5, <2>6 DEF ParserInv
<1> QED  BY <1>1, ParserInvariant, PTL
===============================================================================
