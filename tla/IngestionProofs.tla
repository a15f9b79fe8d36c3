-------------------------- MODULE IngestionProofs --------------------------
(***************************************************************************)
(* What the store holds, whatever the sources, the runs and their overlaps *)
(* (Ingestion), for every kind of source, any number of files, jobs and    *)
(* versions and every chunk size: rows whose vectors are those of their    *)
(* texts, documents whose chunks are exactly their text.                   *)
(*                                                                         *)
(* First FlattenSeq: what it does to concatenations, and where an element  *)
(* of the k-th sequence comes to lie.  Then the chunkers: SplitLongText    *)
(* loses no sentence, so the chunks of every kind hold their document.     *)
(* Then the save: the vector that is stored with a chunk is the one at     *)
(* embedding_index, which is the chunk's own.                              *)
(***************************************************************************)
EXTENDS Ingestion, NaturalsInduction, WellFoundedInduction, SequenceTheorems,
        FiniteSetTheorems, TLAPS

-----------------------------------------------------------------------------
(* Induction *)

\* A set of numbers that holds 0 and every successor holds them all.
LEMMA NatInduct ==
    ASSUME NEW S, 0 \in S, \A n \in Nat : n \in S => n + 1 \in S
    PROVE  Nat \subseteq S
<1> DEFINE R == OpToRel(<, Nat)
           T == Nat \ S
<1>1. SUFFICES ASSUME T # {} PROVE FALSE
  OBVIOUS
<1>2. IsWellFoundedOn(R, Nat)
  BY NatLessThanWellFounded
<1>3. \A x, y \in Nat : x < y => <<x, y>> \in R
  BY DEF OpToRel
<1> HIDE DEF R
<1>4. PICK x \in T : \A y \in T : <<y, x>> \notin R
  BY <1>1, <1>2, WFMin
<1>5. x # 0 /\ x - 1 \in Nat /\ x = (x - 1) + 1 /\ x - 1 < x
  BY <1>4
<1>6. x - 1 \in S
  BY <1>3, <1>4, <1>5
<1> QED
  BY <1>4, <1>5, <1>6

\* A set that holds the empty sequence and every sequence one element longer
\* than one it holds, holds them all.
LEMMA SeqInduct ==
    ASSUME NEW T, NEW S, << >> \in S,
           \A s \in Seq(T), x \in T : s \in S => Append(s, x) \in S
    PROVE  Seq(T) \subseteq S
<1> DEFINE N == {n \in Nat : \A s \in Seq(T) : Len(s) = n => s \in S}
<1>1. 0 \in N
  <2>1. \A s \in Seq(T) : Len(s) = 0 => s = << >>
    OBVIOUS
  <2> QED
    BY <2>1
<1>2. ASSUME NEW n \in Nat, n \in N PROVE n + 1 \in N
  <2>1. SUFFICES ASSUME NEW s \in Seq(T), Len(s) = n + 1 PROVE s \in S
    OBVIOUS
  <2> DEFINE front == SubSeq(s, 1, n)
  <2>2. front \in Seq(T) /\ Len(front) = n /\ s[n + 1] \in T
    BY <2>1
  <2>3. s = Append(front, s[n + 1])
    BY <2>1, <2>2
  <2>4. front \in S
    BY <1>2, <2>2
  <2> HIDE DEF front
  <2> QED
    BY <2>2, <2>3, <2>4
<1>3. Nat \subseteq N
  <2> HIDE DEF N
  <2> QED
    BY <1>1, <1>2, NatInduct
<1> QED
  BY <1>3

-----------------------------------------------------------------------------
(* FlattenSeq *)

\* The values its recursion goes through, up to n.
Flattens(s, n, f) ==
    f = [i \in 1..n |-> IF i = 1 THEN s[i] ELSE f[i - 1] \o s[i]]

\* They exist, ...
LEMMA FlattensExists ==
    ASSUME NEW s, NEW n \in Nat
    PROVE  \E f : Flattens(s, n, f)
<1> DEFINE N == {m \in Nat : \E f : Flattens(s, m, f)}
<1>1. 0 \in N
  <2>1. Flattens(s, 0, [i \in 1..0 |-> << >>])
    BY DEF Flattens
  <2> QED
    BY <2>1
<1>2. ASSUME NEW m \in Nat, m \in N PROVE m + 1 \in N
  <2>1. PICK f : Flattens(s, m, f)
    BY <1>2
  <2>2. \A i \in 1..m : f[i] = IF i = 1 THEN s[i] ELSE f[i - 1] \o s[i]
    BY <2>1 DEF Flattens
  <2> DEFINE g == [i \in 1..m + 1 |-> IF i <= m THEN f[i]
                     ELSE IF i = 1 THEN s[i] ELSE f[i - 1] \o s[i]]
  <2>3. ASSUME NEW i \in 1..m + 1
        PROVE  g[i] = IF i = 1 THEN s[i] ELSE g[i - 1] \o s[i]
    <3>1. CASE i = 1
      BY <2>2, <3>1
    <3>2. CASE i # 1 /\ i <= m
      <4>1. i \in 1..m /\ i - 1 \in 1..m + 1 /\ i - 1 <= m
        BY <3>2
      <4>2. g[i] = f[i] /\ g[i - 1] = f[i - 1]
        BY <4>1
      <4> QED
        BY <2>2, <3>2, <4>1, <4>2
    <3>3. CASE i # 1 /\ ~(i <= m)
      <4>1. i - 1 \in 1..m + 1 /\ i - 1 <= m
        BY <3>3
      <4>2. g[i] = f[i - 1] \o s[i] /\ g[i - 1] = f[i - 1]
        BY <3>3, <4>1
      <4> QED
        BY <3>3, <4>2
    <3> QED
      BY <3>1, <3>2, <3>3
  <2>4. DOMAIN g = 1..m + 1 /\ g = [i \in 1..m + 1 |-> g[i]]
    OBVIOUS
  <2> HIDE DEF g
  <2>5. Flattens(s, m + 1, g)
    BY <2>3, <2>4 DEF Flattens
  <2> QED
    BY <2>5
<1>3. Nat \subseteq N
  <2> HIDE DEF N
  <2> QED
    BY <1>1, <1>2, NatInduct
<1> QED
  BY <1>3

\* ... and the last one is the result.
LEMMA FlattenSeqIs ==
    ASSUME NEW s, Len(s) \in Nat
    PROVE  \E f : /\ Flattens(s, Len(s), f)
                  /\ FlattenSeq(s) = IF Len(s) = 0 THEN s ELSE f[Len(s)]
<1> DEFINE n == Len(s)
           f == CHOOSE g : g = [i \in 1..n |->
                    IF i = 1 THEN s[i] ELSE g[i - 1] \o s[i]]
<1>1. \E g : g = [i \in 1..n |-> IF i = 1 THEN s[i] ELSE g[i - 1] \o s[i]]
  BY FlattensExists DEF Flattens
<1>2. f = [i \in 1..n |-> IF i = 1 THEN s[i] ELSE f[i - 1] \o s[i]]
  BY <1>1
<1>3. FlattenSeq(s) = IF n = 0 THEN s ELSE f[n]
  BY DEF FlattenSeq
<1> HIDE DEF f
<1> QED
  BY <1>2, <1>3 DEF Flattens

\* Nothing flattens to nothing.
LEMMA FlattenEmpty == FlattenSeq(<< >>) = << >>
  <1>1. Len(<< >>) = 0
    OBVIOUS
  <1> QED BY <1>1 DEF FlattenSeq

\* One sequence more at the end.
LEMMA FlattenAppend ==
    ASSUME NEW T, NEW s \in Seq(Seq(T)), NEW a \in Seq(T)
    PROVE  FlattenSeq(Append(s, a)) = FlattenSeq(s) \o a
<1> DEFINE e == Append(s, a)
           n == Len(s)
<1>1. /\ n \in Nat /\ Len(e) = n + 1 /\ e[n + 1] = a
      /\ \A i \in 1..n : e[i] = s[i]
  OBVIOUS
<1> HIDE DEF e
<1>2. PICK f : Flattens(s, n, f) /\ FlattenSeq(s) = IF n = 0 THEN s ELSE f[n]
  BY <1>1, FlattenSeqIs
<1>3. Len(e) \in Nat /\ Len(e) # 0
  BY <1>1
<1>4. PICK g : Flattens(e, n + 1, g) /\ FlattenSeq(e) = g[n + 1]
  BY <1>1, <1>3, FlattenSeqIs
<1>5. \A i \in 1..n : f[i] = IF i = 1 THEN s[i] ELSE f[i - 1] \o s[i]
  BY <1>2 DEF Flattens
<1>6. \A i \in 1..n + 1 : g[i] = IF i = 1 THEN e[i] ELSE g[i - 1] \o e[i]
  BY <1>4 DEF Flattens
<1> DEFINE N == {i \in Nat : i + 1 \in 1..n => f[i + 1] = g[i + 1]}
<1>7. 0 \in N
  BY <1>1, <1>5, <1>6
<1>8. ASSUME NEW i \in Nat, i \in N PROVE i + 1 \in N
  <2>1. SUFFICES ASSUME (i + 1) + 1 \in 1..n
                 PROVE  f[(i + 1) + 1] = g[(i + 1) + 1]
    OBVIOUS
  <2> DEFINE k == (i + 1) + 1
  <2>2. /\ k \in 1..n /\ k \in 1..n + 1 /\ k # 1 /\ k - 1 = i + 1
        /\ i + 1 \in 1..n
    BY <1>1, <2>1
  <2>3. f[i + 1] = g[i + 1]
    BY <1>8, <2>2
  <2> HIDE DEF k
  <2>4. f[k] = f[k - 1] \o s[k] /\ g[k] = g[k - 1] \o e[k] /\ e[k] = s[k]
    BY <1>1, <1>5, <1>6, <2>2
  <2>5. f[k] = g[k]
    BY <2>2, <2>3, <2>4
  <2> QED
    BY <2>5 DEF k
<1>9. Nat \subseteq N
  <2> HIDE DEF N
  <2> QED
    BY <1>7, <1>8, NatInduct
<1>10. CASE n = 0
  <2>1. s = << >> /\ g[1] = a
    BY <1>1, <1>6, <1>10
  <2>2. FlattenSeq(s) = << >>
    BY <2>1, FlattenEmpty
  <2>3. << >> \o a = a
    OBVIOUS
  <2> QED
    BY <1>4, <1>10, <2>1, <2>2, <2>3 DEF e
<1>11. CASE n # 0
  <2>1. /\ n - 1 \in Nat /\ (n - 1) + 1 = n /\ n \in 1..n
        /\ n + 1 \in 1..n + 1 /\ n + 1 # 1 /\ (n + 1) - 1 = n
    BY <1>1, <1>11
  <2>2. f[n] = g[n]
    <3>1. n - 1 \in N
      BY <1>9, <2>1
    <3> QED
      BY <2>1, <3>1
  <2>3. g[n + 1] = g[n] \o a
    BY <1>1, <1>6, <2>1
  <2> QED
    BY <1>2, <1>4, <1>11, <2>2, <2>3 DEF e
<1> QED
  BY <1>10, <1>11

\* Concatenation, known by what follows about it only.
Cat(a, b) == a \o b

\* The elements of s are those of a and then those of b.
IsParts(s, a, b) ==
    /\ Len(s) = Len(a) + Len(b)
    /\ \A i \in 1..Len(a) : s[i] = a[i]
    /\ \A i \in 1..Len(b) : s[Len(a) + i] = b[i]

\* A concatenation has the elements of both, in this order.
LEMMA CatIs ==
    ASSUME NEW T, NEW a \in Seq(T), NEW b \in Seq(T)
    PROVE  Cat(a, b) \in Seq(T) /\ IsParts(Cat(a, b), a, b)
  BY DEF Cat, IsParts

\* Only the concatenation has.
LEMMA IsCat ==
    ASSUME NEW T, NEW s \in Seq(T), NEW a \in Seq(T), NEW b \in Seq(T),
           IsParts(s, a, b)
    PROVE  s = Cat(a, b)
<1>1. PICK r \in Seq(T) : r = Cat(a, b) /\ IsParts(r, a, b)
  BY CatIs
<1>2. ASSUME NEW i \in 1..Len(s) PROVE s[i] = r[i]
  <2>1. CASE i <= Len(a)
    <3>1. i \in 1..Len(a)
      BY <2>1
    <3> QED
      BY <1>1, <3>1 DEF IsParts
  <2>2. CASE ~(i <= Len(a))
    <3>1. i - Len(a) \in 1..Len(b) /\ Len(a) + (i - Len(a)) = i
      BY <2>2 DEF IsParts
    <3> QED
      BY <1>1, <3>1 DEF IsParts
  <2> QED
    BY <2>1, <2>2
<1>3. Len(s) = Len(r)
  BY <1>1 DEF IsParts
<1>4. s = r
  BY <1>1, <1>2, <1>3, SeqEqual
<1> QED
  BY <1>1, <1>4

\* The empty sequence adds nothing.
LEMMA CatEmpty ==
    ASSUME NEW T, NEW a \in Seq(T)
    PROVE  Cat(a, << >>) = a /\ Cat(<< >>, a) = a
  BY DEF Cat

\* Appending to the second is appending to the whole.
LEMMA CatAppend ==
    ASSUME NEW T, NEW a \in Seq(T), NEW b \in Seq(T), NEW x \in T
    PROVE  Cat(a, Append(b, x)) = Append(Cat(a, b), x)
  BY DEF Cat

\* One element is appended.
LEMMA CatOne ==
    ASSUME NEW T, NEW a \in Seq(T), NEW x \in T
    PROVE  Cat(a, <<x>>) = Append(a, x)
  BY DEF Cat

\* Concatenation is associative.
LEMMA CatRegrouped ==
    ASSUME NEW T, NEW a \in Seq(T), NEW b \in Seq(T), NEW c \in Seq(T)
    PROVE  Cat(Cat(a, b), c) = Cat(a, Cat(b, c))
  BY DEF Cat

\* FlattenAppend, said of Cat.
LEMMA FlattenCat ==
    ASSUME NEW T, NEW s \in Seq(Seq(T)), NEW a \in Seq(T)
    PROVE  FlattenSeq(Append(s, a)) = Cat(FlattenSeq(s), a)
  BY FlattenAppend DEF Cat

\* A sequence of sequences gives a sequence.
LEMMA FlattenType ==
    ASSUME NEW T, NEW s \in Seq(Seq(T))
    PROVE  FlattenSeq(s) \in Seq(T)
<1> DEFINE S == {q \in Seq(Seq(T)) : FlattenSeq(q) \in Seq(T)}
<1>1. << >> \in S
  <2>1. << >> \in Seq(Seq(T)) /\ << >> \in Seq(T)
    OBVIOUS
  <2> QED
    BY <2>1, FlattenEmpty
<1>2. ASSUME NEW q \in Seq(Seq(T)), NEW x \in Seq(T), q \in S
      PROVE  Append(q, x) \in S
  <2>1. FlattenSeq(Append(q, x)) = Cat(FlattenSeq(q), x)
    BY FlattenCat
  <2>2. FlattenSeq(q) \in Seq(T)
    BY <1>2
  <2>3. Cat(FlattenSeq(q), x) \in Seq(T)
    BY <2>2, CatIs
  <2>4. Append(q, x) \in Seq(Seq(T))
    OBVIOUS
  <2> QED
    BY <2>1, <2>3, <2>4
<1>3. Seq(Seq(T)) \subseteq S
  <2> HIDE DEF S
  <2> QED
    BY <1>1, <1>2, SeqInduct
<1> QED
  BY <1>3

\* One after the other.
LEMMA FlattenConcat ==
    ASSUME NEW T, NEW s \in Seq(Seq(T)), NEW r \in Seq(Seq(T))
    PROVE  FlattenSeq(Cat(s, r)) = Cat(FlattenSeq(s), FlattenSeq(r))
<1> DEFINE S == {q \in Seq(Seq(T)) :
                  FlattenSeq(Cat(s, q)) = Cat(FlattenSeq(s), FlattenSeq(q))}
<1>0. FlattenSeq(s) \in Seq(T)
  BY FlattenType
<1>1. << >> \in S
  <2>1. Cat(s, << >>) = s /\ Cat(FlattenSeq(s), << >>) = FlattenSeq(s)
    BY <1>0, CatEmpty
  <2>2. << >> \in Seq(Seq(T))
    OBVIOUS
  <2> QED
    BY <2>1, <2>2, FlattenEmpty
<1>2. ASSUME NEW q \in Seq(Seq(T)), NEW x \in Seq(T), q \in S
      PROVE  Append(q, x) \in S
  <2>1. FlattenSeq(Append(q, x)) = Cat(FlattenSeq(q), x)
    BY FlattenCat
  <2>2. Cat(s, q) \in Seq(Seq(T))
    BY CatIs
  <2>3. Cat(s, Append(q, x)) = Append(Cat(s, q), x)
    BY CatAppend
  <2>4. FlattenSeq(Append(Cat(s, q), x)) = Cat(FlattenSeq(Cat(s, q)), x)
    BY <2>2, FlattenCat
  <2>5. FlattenSeq(q) \in Seq(T)
    BY FlattenType
  <2>6. Cat(Cat(FlattenSeq(s), FlattenSeq(q)), x)
          = Cat(FlattenSeq(s), Cat(FlattenSeq(q), x))
    BY <1>0, <2>5, CatRegrouped
  <2>7. FlattenSeq(Cat(s, q)) = Cat(FlattenSeq(s), FlattenSeq(q))
    BY <1>2
  <2>8. Append(q, x) \in Seq(Seq(T))
    OBVIOUS
  <2> QED
    BY <2>1, <2>3, <2>4, <2>6, <2>7, <2>8
<1>3. Seq(Seq(T)) \subseteq S
  <2> HIDE DEF S
  <2> QED
    BY <1>1, <1>2, SeqInduct
<1> QED
  BY <1>3

\* One sequence alone.
LEMMA FlattenOne ==
    ASSUME NEW T, NEW a \in Seq(T)
    PROVE  FlattenSeq(<<a>>) = a
  <1>1. <<a>> = Append(<< >>, a) /\ << >> \in Seq(Seq(T))
    OBVIOUS
  <1>2. FlattenSeq(Append(<< >>, a)) = Cat(<< >>, a)
    BY <1>1, FlattenCat, FlattenEmpty
  <1> QED BY <1>1, <1>2, CatEmpty

\* Nothing but empty sequences give an empty one.
LEMMA FlattenBlanks ==
    ASSUME NEW T, NEW s \in Seq(Seq(T)), \A i \in 1..Len(s) : s[i] = << >>
    PROVE  FlattenSeq(s) = << >>
<1> DEFINE S == {q \in Seq(Seq(T)) :
                    (\A i \in 1..Len(q) : q[i] = << >>)
                        => FlattenSeq(q) = << >>}
<1>1. << >> \in S
  <2>1. << >> \in Seq(Seq(T))
    OBVIOUS
  <2> QED
    BY <2>1, FlattenEmpty
<1>2. ASSUME NEW q \in Seq(Seq(T)), NEW x \in Seq(T), q \in S
      PROVE  Append(q, x) \in S
  <2> DEFINE e == Append(q, x)
  <2>1. /\ e \in Seq(Seq(T)) /\ Len(e) = Len(q) + 1 /\ Len(q) \in Nat
        /\ e[Len(q) + 1] = x /\ \A i \in 1..Len(q) : e[i] = q[i]
    OBVIOUS
  <2>2. FlattenSeq(e) = Cat(FlattenSeq(q), x)
    BY FlattenCat
  <2> HIDE DEF e
  <2>3. ASSUME \A i \in 1..Len(e) : e[i] = << >>
        PROVE  FlattenSeq(e) = << >>
    <3>1. x = << >> /\ \A i \in 1..Len(q) : q[i] = << >>
      BY <2>1, <2>3
    <3>2. FlattenSeq(q) = << >>
      BY <1>2, <3>1
    <3>3. Cat(<< >>, << >>) = << >>
      BY <3>1, CatEmpty
    <3> QED
      BY <2>2, <3>1, <3>2, <3>3
  <2> QED
    BY <2>1, <2>3 DEF e
<1>3. Seq(Seq(T)) \subseteq S
  <2> HIDE DEF S
  <2> QED
    BY <1>1, <1>2, SeqInduct
<1> QED
  BY <1>3

\* Where the elements of the k-th sequence come to lie: after those of the
\* sequences before it.
LEMMA FlattenAt ==
    ASSUME NEW T, NEW s \in Seq(Seq(T)), NEW before \in Seq(Seq(T)),
           Len(before) = Len(s), NEW k \in 1..Len(s),
           \A i \in 1..Len(s) : before[i] = IF i < k THEN s[i] ELSE << >>,
           NEW j \in 1..Len(s[k])
    PROVE  /\ FlattenSeq(s)[Len(FlattenSeq(before)) + j] = s[k][j]
           /\ Len(FlattenSeq(before)) + j \in DOMAIN FlattenSeq(s)
<1> DEFINE n == Len(s)
           front == [i \in 1..k - 1 |-> s[i]]
           back == [i \in 1..n - k |-> s[k + i]]
           blanks == [i \in 1..n - k + 1 |-> before[k - 1 + i]]
           e == Append(front, s[k])
           a == FlattenSeq(front)
           b == FlattenSeq(back)
           c == s[k]
           d == Cat(a, c)
<1>1. n \in Nat /\ k \in Nat /\ k <= n /\ 1 <= k /\ c \in Seq(T)
  OBVIOUS
<1>2. /\ front \in Seq(Seq(T)) /\ Len(front) = k - 1
      /\ \A i \in 1..k - 1 : front[i] = s[i]
  BY <1>1
<1>3. /\ back \in Seq(Seq(T)) /\ Len(back) = n - k
      /\ \A i \in 1..n - k : back[i] = s[k + i]
  BY <1>1
<1>4. /\ blanks \in Seq(Seq(T)) /\ Len(blanks) = n - k + 1
      /\ \A i \in 1..n - k + 1 : blanks[i] = before[k - 1 + i]
  BY <1>1
<1> HIDE DEF n, front, back, blanks, c
<1>5. /\ e \in Seq(Seq(T)) /\ Len(e) = k /\ e[k] = s[k]
      /\ \A i \in 1..k - 1 : e[i] = s[i]
  BY <1>1, <1>2
<1> HIDE DEF e
<1>6. s = Cat(e, back)
  <2>1. \A i \in 1..Len(e) : s[i] = e[i]
    <3>1. \A i \in 1..k : i = k \/ i \in 1..k - 1
      BY <1>1
    <3> QED
      BY <1>5, <3>1
  <2>2. Len(s) = Len(e) + Len(back)
    BY <1>1, <1>3, <1>5 DEF n
  <2>3. \A i \in 1..Len(back) : s[Len(e) + i] = back[i]
    BY <1>3, <1>5
  <2> QED
    <3>1. IsParts(s, e, back)
      BY <2>1, <2>2, <2>3 DEF IsParts
    <3> QED
      BY <1>3, <1>5, <3>1, IsCat
<1>7. before = Cat(front, blanks)
  <2>1. \A i \in 1..Len(front) : before[i] = front[i]
    <3>1. \A i \in 1..k - 1 : i \in 1..Len(s) /\ i < k
      BY <1>1 DEF n
    <3> QED
      BY <1>2, <3>1
  <2>2. Len(before) = Len(front) + Len(blanks)
    BY <1>1, <1>2, <1>4 DEF n
  <2>3. \A i \in 1..Len(blanks) : before[Len(front) + i] = blanks[i]
    BY <1>2, <1>4
  <2> QED
    <3>1. IsParts(before, front, blanks)
      BY <2>1, <2>2, <2>3 DEF IsParts
    <3> QED
      BY <1>2, <1>4, <3>1, IsCat
<1>8. a \in Seq(T) /\ b \in Seq(T)
  BY <1>2, <1>3, FlattenType
<1>9. FlattenSeq(s) = Cat(d, b)
  <2>1. FlattenSeq(Cat(e, back)) = Cat(FlattenSeq(e), b)
    BY <1>3, <1>5, FlattenConcat
  <2>2. FlattenSeq(e) = d
    BY <1>1, <1>2, FlattenCat DEF e, c
  <2> QED
    BY <1>6, <2>1, <2>2
<1>10. FlattenSeq(before) = a
  <2>1. \A i \in 1..Len(blanks) : blanks[i] = << >>
    <3>1. ASSUME NEW i \in 1..Len(blanks) PROVE blanks[i] = << >>
      <4>1. k - 1 + i \in 1..Len(s) /\ ~(k - 1 + i < k) /\ i \in 1..n - k + 1
        BY <1>1, <1>4 DEF n
      <4> QED
        BY <1>4, <4>1
    <3> QED
      BY <3>1
  <2>2. FlattenSeq(blanks) = << >>
    BY <1>4, <2>1, FlattenBlanks
  <2>3. FlattenSeq(Cat(front, blanks)) = Cat(a, << >>)
    BY <1>2, <1>4, <2>2, FlattenConcat
  <2>4. Cat(a, << >>) = a
    BY <1>8, CatEmpty
  <2> QED
    BY <1>7, <2>3, <2>4
<1> HIDE DEF a, b
<1>11. /\ d \in Seq(T) /\ Len(d) = Len(a) + Len(c)
       /\ \A i \in 1..Len(c) : d[Len(a) + i] = c[i]
  <2>1. d \in Seq(T) /\ IsParts(d, a, c)
    BY <1>1, <1>8, CatIs
  <2> QED
    BY <2>1 DEF IsParts
<1> HIDE DEF d
<1>12. /\ Cat(d, b) \in Seq(T) /\ Len(Cat(d, b)) = Len(d) + Len(b)
       /\ \A i \in 1..Len(d) : Cat(d, b)[i] = d[i]
  <2>1. Cat(d, b) \in Seq(T) /\ IsParts(Cat(d, b), d, b)
    BY <1>8, <1>11, CatIs
  <2> QED
    BY <2>1 DEF IsParts
<1>13. j \in 1..Len(c)
  BY DEF c
<1>14. Len(a) + j \in 1..Len(d) /\ d[Len(a) + j] = c[j]
  BY <1>1, <1>8, <1>11, <1>13
<1>15. /\ Cat(d, b)[Len(a) + j] = c[j]
       /\ Len(a) + j \in DOMAIN Cat(d, b)
  <2>1. Len(b) \in Nat /\ Len(d) \in Nat
    BY <1>8, <1>11
  <2>2. DOMAIN Cat(d, b) = 1..Len(d) + Len(b)
    BY <1>12
  <2>3. Len(a) + j \in 1..Len(d) + Len(b)
    BY <1>14, <2>1
  <2> QED
    BY <1>12, <1>14, <2>2, <2>3
<1> QED
  BY <1>9, <1>10, <1>15 DEF c

-----------------------------------------------------------------------------
(* The texts of chunks *)

\* The image of a sequence under a function.
Mapped(m, s) == [i \in DOMAIN s |-> m[s[i]]]

\* The image is as long and goes element by element.
LEMMA MappedType ==
    ASSUME NEW X, NEW Y, NEW m \in [X -> Y], NEW s \in Seq(X)
    PROVE  /\ Mapped(m, s) \in Seq(Y) /\ Len(Mapped(m, s)) = Len(s)
           /\ \A i \in 1..Len(s) : Mapped(m, s)[i] = m[s[i]]
  BY DEF Mapped

\* The image of a concatenation.
LEMMA MappedConcat ==
    ASSUME NEW X, NEW m, DOMAIN m = X, NEW s \in Seq(X), NEW r \in Seq(X)
    PROVE  Mapped(m, Cat(s, r)) = Cat(Mapped(m, s), Mapped(m, r))
<1>1. PICK e \in Seq(X) : e = Cat(s, r) /\ IsParts(e, s, r)
  BY CatIs
<1> DEFINE Y == {m[x] : x \in X}
           ms == Mapped(m, s)
           mr == Mapped(m, r)
           me == Mapped(m, e)
<1>2. /\ me \in Seq(Y) /\ Len(me) = Len(e)
      /\ \A i \in 1..Len(e) : me[i] = m[e[i]]
  BY <1>1 DEF Mapped
<1>3. /\ ms \in Seq(Y) /\ Len(ms) = Len(s)
      /\ \A i \in 1..Len(s) : ms[i] = m[s[i]]
  BY DEF Mapped
<1>4. /\ mr \in Seq(Y) /\ Len(mr) = Len(r)
      /\ \A i \in 1..Len(r) : mr[i] = m[r[i]]
  BY DEF Mapped
<1> HIDE DEF Y, me, ms, mr
<1>5. Len(s) \in Nat /\ Len(r) \in Nat /\ Len(e) = Len(s) + Len(r)
  BY <1>1 DEF IsParts
<1>6. \A i \in 1..Len(ms) : me[i] = ms[i]
  BY <1>1, <1>2, <1>3, <1>5 DEF IsParts
<1>7. \A i \in 1..Len(mr) : me[Len(ms) + i] = mr[i]
  <2>1. ASSUME NEW i \in 1..Len(r) PROVE me[Len(s) + i] = mr[i]
    <3>1. Len(s) + i \in 1..Len(e)
      BY <1>5
    <3>2. e[Len(s) + i] = r[i]
      BY <1>1 DEF IsParts
    <3> QED
      BY <1>2, <1>4, <3>1, <3>2
  <2> QED
    BY <1>3, <1>4, <2>1
<1>8. IsParts(me, ms, mr)
  BY <1>2, <1>3, <1>4, <1>5, <1>6, <1>7 DEF IsParts
<1>9. me = Cat(ms, mr)
  BY <1>2, <1>3, <1>4, <1>8, IsCat
<1> QED
  BY <1>1, <1>9 DEF me, ms, mr

\* The image of nothing.
LEMMA MappedEmpty ==
    ASSUME NEW m
    PROVE  Mapped(m, << >>) = << >>
  BY DEF Mapped

\* The image of one element more.
LEMMA MappedAppend ==
    ASSUME NEW X, NEW m, DOMAIN m = X, NEW s \in Seq(X), NEW x \in X
    PROVE  Mapped(m, Append(s, x)) = Append(Mapped(m, s), m[x])
<1> DEFINE Y == {m[z] : z \in X}
           e == Append(s, x)
           ms == Mapped(m, s)
           me == Mapped(m, e)
           y == m[x]
           rhs == Append(ms, y)
<1>1. /\ e \in Seq(X) /\ Len(e) = Len(s) + 1 /\ Len(s) \in Nat
      /\ e[Len(s) + 1] = x /\ \A i \in 1..Len(s) : e[i] = s[i]
  OBVIOUS
<1> HIDE DEF e
<1>2. me \in Seq(Y) /\ Len(me) = Len(e) /\ \A i \in 1..Len(e) : me[i] = m[e[i]]
  BY <1>1 DEF Mapped
<1>3. ms \in Seq(Y) /\ Len(ms) = Len(s) /\ \A i \in 1..Len(s) : ms[i] = m[s[i]]
  BY DEF Mapped
<1>4. y \in Y
  OBVIOUS
<1> HIDE DEF Y, me, ms
<1>5. me[Len(s) + 1] = y
  BY <1>1, <1>2
<1> HIDE DEF y
<1>6. /\ rhs \in Seq(Y) /\ Len(rhs) = Len(s) + 1
      /\ rhs[Len(s) + 1] = y /\ \A i \in 1..Len(s) : rhs[i] = ms[i]
  BY <1>1, <1>3, <1>4
<1> HIDE DEF rhs
<1>7. ASSUME NEW i \in 1..Len(s) + 1 PROVE me[i] = rhs[i]
  <2>1. CASE i \in 1..Len(s)
    BY <1>1, <1>2, <1>3, <1>6, <2>1
  <2>2. CASE i = Len(s) + 1
    BY <1>5, <1>6, <2>2
  <2> QED
    BY <1>1, <2>1, <2>2
<1>8. me = rhs
  BY <1>1, <1>2, <1>6, <1>7, SeqEqual
<1> QED
  BY <1>8 DEF me, rhs, e, ms, y

\* A text is a sequence of sentences, a sentence its number of characters.
Sentences == Nat \ {0}

Texts == Seq(Sentences)

\* The texts of many sequences of chunks are the texts of the first sequence,
\* then those of the second, and so on.
LEMMA FlattenMapped ==
    ASSUME NEW X, NEW m \in [X -> Texts],
           NEW joined \in [Seq(X) -> Texts],
           \A s \in Seq(X) : joined[s] = FlattenSeq(Mapped(m, s)),
           NEW ss \in Seq(Seq(X))
    PROVE  FlattenSeq(Mapped(m, FlattenSeq(ss)))
             = FlattenSeq(Mapped(joined, ss))
<1> DEFINE S == {q \in Seq(Seq(X)) :
                  FlattenSeq(Mapped(m, FlattenSeq(q)))
                    = FlattenSeq(Mapped(joined, q))}
<1>1. << >> \in S
  <2>1. << >> \in Seq(Seq(X))
    OBVIOUS
  <2> QED
    BY <2>1, FlattenEmpty, MappedEmpty
<1>2. \A s \in Seq(X) : Mapped(m, s) \in Seq(Texts)
  BY MappedType
<1>3. \A s, r \in Seq(X) : Mapped(m, Cat(s, r)) = Cat(Mapped(m, s), Mapped(m, r))
  BY MappedConcat
<1>4. \A q \in Seq(Seq(X)) : Mapped(joined, q) \in Seq(Texts)
  BY MappedType
<1>5. \A q \in Seq(Seq(X)), x \in Seq(X) :
          Mapped(joined, Append(q, x)) = Append(Mapped(joined, q), joined[x])
  BY MappedAppend
<1>6. ASSUME NEW q \in Seq(Seq(X)), NEW x \in Seq(X), q \in S
      PROVE  Append(q, x) \in S
  <2> DEFINE flat == FlattenSeq(q)
             y == joined[x]
  <2>1. FlattenSeq(Append(q, x)) = Cat(flat, x)
    BY FlattenCat
  <2>2. flat \in Seq(X)
    BY FlattenType
  <2>3. FlattenSeq(Mapped(m, flat)) = FlattenSeq(Mapped(joined, q))
    BY <1>6
  <2>4. y \in Texts /\ y = FlattenSeq(Mapped(m, x))
    OBVIOUS
  <2> HIDE DEF flat, y
  <2>5. Mapped(m, Cat(flat, x)) = Cat(Mapped(m, flat), Mapped(m, x))
    BY <1>3, <2>2
  <2>6. Mapped(m, flat) \in Seq(Texts) /\ Mapped(m, x) \in Seq(Texts)
    BY <1>2, <2>2
  <2>7. FlattenSeq(Cat(Mapped(m, flat), Mapped(m, x)))
          = Cat(FlattenSeq(Mapped(m, flat)), y)
    BY <2>4, <2>6, FlattenConcat DEF Texts
  <2>8. Mapped(joined, Append(q, x)) = Append(Mapped(joined, q), y)
    BY <1>5 DEF y
  <2>9. FlattenSeq(Append(Mapped(joined, q), y))
          = Cat(FlattenSeq(Mapped(joined, q)), y)
    <3>1. Mapped(joined, q) \in Seq(Texts)
      BY <1>4
    <3> QED
      BY <2>4, <3>1, FlattenCat DEF Texts
  <2>10. Append(q, x) \in Seq(Seq(X))
    OBVIOUS
  <2> QED
    BY <2>1, <2>3, <2>5, <2>7, <2>8, <2>9, <2>10
<1>7. Seq(Seq(X)) \subseteq S
  <2> HIDE DEF S
  <2> QED
    BY <1>1, <1>6, SeqInduct
<1> QED
  BY <1>7

-----------------------------------------------------------------------------
(* SplitLongText *)

\* The texts of pieces, the repeated ends left out.
TextsOf(pieces) == [i \in DOMAIN pieces |-> pieces[i].text]

\* A sequence of pieces, whatever repeated ends they begin with.
ArePieces(pieces) ==
    /\ Len(pieces) \in Nat /\ DOMAIN pieces = 1..Len(pieces)
    /\ TextsOf(pieces) \in Seq(Texts)

\* What a cut is after some sentences.
IsCut(cut, S) ==
    /\ cut = [done |-> cut.done, current |-> cut.current]
    /\ cut.current = Piece(cut.current.after, cut.current.carry,
                           cut.current.text)
    /\ cut.done \in Seq(S)

\* One more piece.
LEMMA TextsOfAppend ==
    ASSUME NEW S, NEW done \in Seq(S), NEW p,
           TextsOf(done) \in Seq(Texts), p.text \in Texts
    PROVE  TextsOf(Append(done, p)) = Append(TextsOf(done), p.text)
<1> DEFINE R == S \cup {p}
           e == Append(done, p)
           t == TextsOf(done)
           u == p.text
           te == TextsOf(e)
           rhs == Append(t, u)
<1>1. done \in Seq(R)
  OBVIOUS
<1>2. p \in R
  OBVIOUS
<1> HIDE DEF R
<1>3. /\ e \in Seq(R) /\ Len(e) = Len(done) + 1 /\ Len(done) \in Nat
      /\ e[Len(done) + 1] = p /\ \A i \in 1..Len(done) : e[i] = done[i]
  BY <1>1, <1>2
<1> HIDE DEF e
<1>4. /\ Len(t) = Len(done) /\ \A i \in 1..Len(done) : t[i] = done[i].text
  BY <1>1 DEF TextsOf
<1>5. /\ DOMAIN te = 1..Len(done) + 1
      /\ te = [i \in 1..Len(done) + 1 |-> te[i]]
      /\ \A i \in 1..Len(done) + 1 : te[i] = e[i].text
  BY <1>3 DEF TextsOf
<1> HIDE DEF t, u, te
<1>6. /\ rhs \in Seq(Texts) /\ Len(rhs) = Len(done) + 1
      /\ rhs[Len(done) + 1] = u /\ \A i \in 1..Len(done) : rhs[i] = t[i]
  BY <1>3, <1>4 DEF t, u
<1> HIDE DEF rhs
<1>7. ASSUME NEW i \in 1..Len(done) + 1 PROVE te[i] = rhs[i]
  <2>1. CASE i \in 1..Len(done)
    BY <1>3, <1>4, <1>5, <1>6, <2>1
  <2>2. CASE i = Len(done) + 1
    BY <1>3, <1>5, <1>6, <2>2 DEF u
  <2> QED
    BY <1>3, <2>1, <2>2
<1>8. rhs = [i \in 1..Len(done) + 1 |-> rhs[i]]
  BY <1>6
<1>9. te = rhs
  BY <1>5, <1>7, <1>8
<1> QED
  BY <1>9 DEF te, rhs, e, t, u

\* A sentence is either added to the current piece or begins another one.
LEMMA NextSentenceAdds ==
    ASSUME NEW S, NEW cut, IsCut(cut, S), NEW x
    PROVE  \/ NextSentence(cut, x) =
                 [done |-> cut.done,
                  current |-> Piece(cut.current.after, cut.current.carry,
                                    Append(cut.current.text, x))]
           \/ \E carry : NextSentence(cut, x) =
                 [done |-> Append(cut.done, cut.current),
                  current |-> Piece(cut.current.text, carry, <<x>>)]
<1> DEFINE c == cut.current
           d == cut.done
           long == Append(c.text, x)
           longer == [c EXCEPT !.text = Append(@, x)]
<1>1. c = Piece(c.after, c.carry, c.text) /\ cut = [done |-> d, current |-> c]
  BY DEF IsCut
<1> HIDE DEF c, d
<1>2. longer = Piece(c.after, c.carry, long)
  BY <1>1 DEF Piece
<1> DEFINE k == IF Size(c) < Overlap THEN Size(c) ELSE Overlap
           first == [cut EXCEPT !.current = longer]
           other == [done |-> Append(d, c),
                     current |-> Piece(c.text, k, <<x>>)]
<1>3. NextSentence(cut, x) = first \/ NextSentence(cut, x) = other
  BY DEF NextSentence, c, d
<1> HIDE DEF longer, k, long
<1>4. first = [done |-> d, current |-> Piece(c.after, c.carry, long)]
  BY <1>1, <1>2
<1> QED
  BY <1>3, <1>4 DEF c, d, long

\* A cut of these sentences loses none of them.
Cuts(cut, S, text) ==
    /\ IsCut(cut, S)
    /\ TextsOf(cut.done) \in Seq(Texts) /\ cut.current.text \in Texts
    /\ FlattenSeq(Append(TextsOf(cut.done), cut.current.text)) = text

\* Texts are concatenated in any grouping.
LEMMA TextsRegrouped ==
    ASSUME NEW a \in Texts, NEW b \in Texts, NEW c \in Texts
    PROVE  Cat(Cat(a, b), c) = Cat(a, Cat(b, c))
  BY CatRegrouped DEF Texts

\* A sentence more is still a text.
LEMMA TextsAppend ==
    ASSUME NEW a \in Texts, NEW x \in Sentences
    PROVE  Append(a, x) \in Texts /\ Cat(a, <<x>>) = Append(a, x)
<1>1. Append(a, x) \in Texts
  BY DEF Texts
<1>2. Cat(a, <<x>>) = Append(a, x)
  BY CatOne DEF Texts
<1> QED
  BY <1>1, <1>2

\* One sentence more is not lost either.
LEMMA CutStep ==
    ASSUME NEW S, NEW cut, NEW text \in Texts, NEW x \in Sentences,
           Cuts(cut, S, text), cut.current \in S
    PROVE  Cuts(NextSentence(cut, x), S, Append(text, x))
<1> DEFINE c == cut.current
           d == cut.done
           td == TextsOf(d)
           u == c.text
           next == NextSentence(cut, x)
           one == <<x>>
<1>1. IsCut(cut, S) /\ c \in S /\ d \in Seq(S)
  BY DEF Cuts, IsCut
<1>2. td \in Seq(Texts) /\ u \in Texts /\ FlattenSeq(Append(td, u)) = text
  BY DEF Cuts
<1>3. one \in Texts
  BY DEF Texts
<1>4. Cat(text, one) = Append(text, x)
  BY TextsAppend
<1> DEFINE v == Append(u, x)
<1> HIDE DEF td, u
<1>5. v \in Texts /\ v = Cat(u, one)
  BY <1>2, TextsAppend
<1> HIDE DEF one, v
<1>6. CASE next = [done |-> d,
                   current |-> Piece(c.after, c.carry, Append(c.text, x))]
  <2> DEFINE p == Piece(c.after, c.carry, v)
  <2>2. next = [done |-> d, current |-> p]
    BY <1>6 DEF v, u
  <2>3. p.after = c.after /\ p.carry = c.carry /\ p.text = v
    BY DEF Piece
  <2> HIDE DEF p, next
  <2>4. next.done = d /\ next.current = p
    BY <2>2
  <2>5. IsCut(next, S)
    BY <1>1, <2>2, <2>3, <2>4 DEF IsCut, p
  <2>6. FlattenSeq(Append(td, v)) = Append(text, x)
    <3>1. FlattenSeq(Append(td, v)) = Cat(FlattenSeq(td), v)
      BY <1>2, <1>5, FlattenCat DEF Texts
    <3>2. FlattenSeq(Append(td, u)) = Cat(FlattenSeq(td), u)
      BY <1>2, FlattenCat DEF Texts
    <3>3. FlattenSeq(td) \in Texts
      BY <1>2, FlattenType DEF Texts
    <3>4. Cat(Cat(FlattenSeq(td), u), one) = Cat(FlattenSeq(td), Cat(u, one))
      BY <1>2, <1>3, <3>3, TextsRegrouped
    <3> QED
      BY <1>2, <1>4, <1>5, <3>1, <3>2, <3>4
  <2> QED
    BY <1>2, <1>5, <2>3, <2>4, <2>5, <2>6 DEF Cuts, td, next
<1>7. ASSUME NEW carry, next = [done |-> Append(d, c),
                                current |-> Piece(c.text, carry, <<x>>)]
      PROVE  Cuts(next, S, Append(text, x))
  <2> DEFINE e == Append(d, c)
             p == Piece(u, carry, one)
  <2>1. e \in Seq(S)
    BY <1>1
  <2>2. TextsOf(e) = Append(td, u)
    BY <1>1, <1>2, TextsOfAppend DEF td, u
  <2> HIDE DEF e
  <2>3. next = [done |-> e, current |-> p]
    BY <1>7 DEF e, u, one
  <2>4. p.after = u /\ p.carry = carry /\ p.text = one
    BY DEF Piece
  <2> HIDE DEF p, next
  <2>5. next.done = e /\ next.current = p
    BY <2>3
  <2>6. IsCut(next, S)
    BY <2>1, <2>3, <2>4, <2>5 DEF IsCut, p
  <2> DEFINE te == TextsOf(e)
  <2>7. te \in Seq(Texts)
    BY <1>2, <2>2
  <2>8. FlattenSeq(te) = text
    BY <1>2, <2>2
  <2> HIDE DEF te
  <2>9. FlattenSeq(Append(te, one)) = Append(text, x)
    <3>1. FlattenSeq(Append(te, one)) = Cat(FlattenSeq(te), one)
      BY <1>3, <2>7, FlattenCat DEF Texts
    <3> QED
      BY <1>4, <2>8, <3>1
  <2> QED
    BY <1>3, <2>4, <2>5, <2>6, <2>7, <2>9 DEF Cuts, te, next
<1> QED
  BY <1>1, <1>6, <1>7, NextSentenceAdds

\* The cuts CutOf goes through, up to n sentences.
CutsUpTo(text, n, f) ==
    f = [m \in 0..n |->
            IF m = 0 THEN [done |-> << >>, current |-> Piece(<< >>, 0, << >>)]
                     ELSE NextSentence(f[m - 1], text[m])]

\* The recursion of CutOf is defined for every length.
LEMMA CutsExist ==
    ASSUME NEW text, NEW n \in Nat
    PROVE  \E f : CutsUpTo(text, n, f)
<1> DEFINE nothing == [done |-> << >>, current |-> Piece(<< >>, 0, << >>)]
           N == {m \in Nat : \E f : CutsUpTo(text, m, f)}
<1>1. 0 \in N
  <2> DEFINE g == [i \in 0..0 |-> nothing]
  <2> HIDE DEF nothing
  <2>1. g = [i \in 0..0 |-> IF i = 0 THEN nothing
                                     ELSE NextSentence(g[i - 1], text[i])]
    OBVIOUS
  <2>2. CutsUpTo(text, 0, g)
    BY <2>1 DEF CutsUpTo, nothing
  <2> QED
    BY <2>2
<1>2. ASSUME NEW m \in Nat, m \in N PROVE m + 1 \in N
  <2>1. PICK f : CutsUpTo(text, m, f)
    BY <1>2
  <2>2. \A i \in 0..m : f[i] = IF i = 0 THEN nothing
                                        ELSE NextSentence(f[i - 1], text[i])
    BY <2>1 DEF CutsUpTo
  <2> HIDE DEF nothing
  <2> DEFINE g == [i \in 0..m + 1 |-> IF i <= m THEN f[i]
                     ELSE NextSentence(f[i - 1], text[i])]
  <2>3. ASSUME NEW i \in 0..m + 1
        PROVE  g[i] = IF i = 0 THEN nothing
                               ELSE NextSentence(g[i - 1], text[i])
    <3>1. CASE i = 0
      BY <2>2, <3>1
    <3>2. CASE i # 0 /\ i <= m
      <4>1. i \in 0..m /\ i - 1 \in 0..m + 1 /\ i - 1 <= m
        BY <3>2
      <4>2. g[i] = f[i] /\ g[i - 1] = f[i - 1]
        BY <4>1
      <4> QED
        BY <2>2, <3>2, <4>1, <4>2
    <3>3. CASE i # 0 /\ ~(i <= m)
      <4>1. i - 1 \in 0..m + 1 /\ i - 1 <= m
        BY <3>3
      <4>2. g[i] = NextSentence(f[i - 1], text[i]) /\ g[i - 1] = f[i - 1]
        BY <3>3, <4>1
      <4> QED
        BY <3>3, <4>2
    <3> QED
      BY <3>1, <3>2, <3>3
  <2>4. DOMAIN g = 0..m + 1 /\ g = [i \in 0..m + 1 |-> g[i]]
    OBVIOUS
  <2> HIDE DEF g
  <2>5. CutsUpTo(text, m + 1, g)
    BY <2>3, <2>4 DEF CutsUpTo, nothing
  <2> QED
    BY <2>5
<1>3. Nat \subseteq N
  <2> HIDE DEF N
  <2> QED
    BY <1>1, <1>2, NatInduct
<1> QED
  BY <1>3

\* CutOf is the last of these cuts.
LEMMA CutOfIs ==
    ASSUME NEW text, Len(text) \in Nat
    PROVE  \E f : CutsUpTo(text, Len(text), f) /\ CutOf(text) = f[Len(text)]
<1> DEFINE n == Len(text)
           f == CHOOSE g : g = [m \in 0..n |->
                  IF m = 0
                  THEN [done |-> << >>, current |-> Piece(<< >>, 0, << >>)]
                  ELSE NextSentence(g[m - 1], text[m])]
<1>1. \E g : g = [m \in 0..n |->
                IF m = 0
                THEN [done |-> << >>, current |-> Piece(<< >>, 0, << >>)]
                ELSE NextSentence(g[m - 1], text[m])]
  BY CutsExist DEF CutsUpTo
<1>2. f = [m \in 0..n |->
             IF m = 0 THEN [done |-> << >>, current |-> Piece(<< >>, 0, << >>)]
             ELSE NextSentence(f[m - 1], text[m])]
  BY <1>1
<1>3. CutOf(text) = f[n]
  BY DEF CutOf
<1> HIDE DEF f
<1> QED
  BY <1>2, <1>3 DEF CutsUpTo

\* All sentences are in the pieces at the end, in their order.
LEMMA CutOfCuts ==
    ASSUME NEW text \in Texts
    PROVE  \E S : Cuts(CutOf(text), S, text) /\ CutOf(text).current \in S
<1> DEFINE n == Len(text)
           nothing == [done |-> << >>, current |-> Piece(<< >>, 0, << >>)]
<1>1. n \in Nat
  BY DEF Texts
<1>2. PICK f : CutsUpTo(text, n, f) /\ CutOf(text) = f[n]
  BY <1>1, CutOfIs
<1>3. \A m \in 0..n : f[m] = IF m = 0 THEN nothing
                                      ELSE NextSentence(f[m - 1], text[m])
  BY <1>2 DEF CutsUpTo
<1> DEFINE S == {f[m].current : m \in 0..n}
           prefix(m) == SubSeq(text, 1, m)
           N == {m \in Nat : m \in 0..n => Cuts(f[m], S, prefix(m))}
<1>4. 0 \in N
  <2>1. f[0] = nothing
    BY <1>1, <1>3
  <2>2. nothing.done = << >> /\ nothing.current = Piece(<< >>, 0, << >>)
    OBVIOUS
  <2> DEFINE p == Piece(<< >>, 0, << >>)
  <2>3. p.after = << >> /\ p.carry = 0 /\ p.text = << >>
    BY DEF Piece
  <2> HIDE DEF p, S
  <2>4. IsCut(nothing, S)
    BY <2>2, <2>3 DEF IsCut, p
  <2>5. TextsOf(<< >>) = << >>
    BY DEF TextsOf
  <2>6. << >> \in Texts /\ << >> \in Seq(Texts)
    BY DEF Texts
  <2>7. Append(<< >>, << >>) = << << >> >>
    OBVIOUS
  <2>8. FlattenSeq(<< << >> >>) = << >>
    BY <2>6, FlattenOne DEF Texts
  <2>9. prefix(0) = << >>
    BY DEF Texts
  <2> HIDE DEF nothing, prefix
  <2>10. Cuts(nothing, S, prefix(0))
    BY <2>2, <2>3, <2>4, <2>5, <2>6, <2>7, <2>8, <2>9 DEF Cuts, p
  <2> QED
    BY <2>1, <2>10
<1>5. ASSUME NEW m \in Nat, m \in N PROVE m + 1 \in N
  <2>1. SUFFICES ASSUME m + 1 \in 0..n
                 PROVE  Cuts(f[m + 1], S, prefix(m + 1))
    OBVIOUS
  <2>2. m \in 0..n /\ m + 1 \in 1..n /\ (m + 1) - 1 = m /\ m + 1 # 0
    BY <1>1, <2>1
  <2>3. f[m + 1] = NextSentence(f[m], text[m + 1])
    BY <1>3, <2>1, <2>2
  <2>4. Cuts(f[m], S, prefix(m)) /\ f[m].current \in S
    BY <1>5, <2>2
  <2>5. /\ text[m + 1] \in Sentences /\ prefix(m) \in Texts
        /\ prefix(m + 1) = Append(prefix(m), text[m + 1])
    BY <2>2 DEF Texts
  <2> HIDE DEF S, prefix
  <2> QED
    BY <2>3, <2>4, <2>5, CutStep
<1>6. Nat \subseteq N
  <2> HIDE DEF N
  <2> QED
    BY <1>4, <1>5, NatInduct
<1>7. Cuts(f[n], S, prefix(n)) /\ f[n].current \in S
  <2>1. n \in N /\ n \in 0..n
    <3> HIDE DEF N
    <3> QED
      BY <1>1, <1>6
  <2> QED
    BY <2>1
<1>8. prefix(n) = text
  BY DEF Texts
<1> HIDE DEF S, prefix
<1> QED
  BY <1>2, <1>7, <1>8

\* The pieces of a text hold the text.
LEMMA SplitKeeps ==
    ASSUME NEW text \in Texts
    PROVE  /\ ArePieces(SplitLongText(text))
           /\ FlattenSeq(TextsOf(SplitLongText(text))) = text
<1> DEFINE pieces == SplitLongText(text)
<1>1. CASE text = << >>
  <2>1. pieces = << >>
    BY <1>1 DEF SplitLongText
  <2>2. TextsOf(<< >>) = << >>
    BY DEF TextsOf
  <2>3. ArePieces(<< >>)
    <3>1. /\ Len(<< >>) = 0 /\ DOMAIN << >> = 1..0
          /\ << >> \in Seq(Texts)
      OBVIOUS
    <3> QED
      BY <2>2, <3>1 DEF ArePieces
  <2> QED
    BY <1>1, <2>1, <2>2, <2>3, FlattenEmpty
<1>2. CASE text # << >> /\ Chars(text) <= MaxCharacters
  <2> DEFINE p == Piece(<< >>, 0, text)
             q == <<p>>
  <2>1. pieces = q
    BY <1>2 DEF SplitLongText
  <2>2. p.text = text
    BY DEF Piece
  <2> HIDE DEF p
  <2>3. TextsOf(q) = <<text>> /\ Len(q) \in Nat /\ DOMAIN q = 1..Len(q)
    BY <2>2 DEF TextsOf
  <2>4. <<text>> \in Seq(Texts)
    OBVIOUS
  <2>5. FlattenSeq(<<text>>) = text
    BY FlattenOne DEF Texts
  <2> HIDE DEF pieces, q
  <2> QED
    BY <2>1, <2>3, <2>4, <2>5 DEF ArePieces, pieces
<1>3. CASE text # << >> /\ ~(Chars(text) <= MaxCharacters)
  <2> DEFINE cut == CutOf(text)
             d == cut.done
             c == cut.current
             td == TextsOf(d)
             u == c.text
  <2>1. PICK S : Cuts(cut, S, text) /\ c \in S
    BY CutOfCuts
  <2>2. /\ d \in Seq(S) /\ c \in S /\ td \in Seq(Texts) /\ u \in Texts
        /\ FlattenSeq(Append(td, u)) = text
    BY <2>1 DEF Cuts, IsCut
  <2>3. pieces = Append(d, c)
    BY <1>3 DEF SplitLongText
  <2>4. TextsOf(Append(d, c)) = Append(td, u)
    BY <2>2, TextsOfAppend
  <2> HIDE DEF d, c
  <2>5. /\ Len(Append(d, c)) \in Nat
        /\ DOMAIN Append(d, c) = 1..Len(Append(d, c))
    BY <2>2
  <2> HIDE DEF td, u, pieces
  <2>6. Append(td, u) \in Seq(Texts)
    BY <2>2
  <2> QED
    BY <2>2, <2>3, <2>4, <2>5, <2>6 DEF ArePieces, pieces
<1> QED
  BY <1>1, <1>2, <1>3

-----------------------------------------------------------------------------
(* Sections and chunks *)

\* The texts of chunks, the repeated ends left out.
PieceTexts(chs) == [i \in DOMAIN chs |-> chs[i].piece.text]

\* The texts of these sections are texts.
AreSections(sections) ==
    /\ sections \in Seq(Range(sections))
    /\ \A i \in DOMAIN sections : sections[i].text \in Texts

\* The chunks hold the text of the sections, under this header or none.
Hold(chs, header, sections) ==
    /\ chs \in Seq(Range(chs))
    /\ \A i \in DOMAIN chs : chs[i].header \in {NoHeader, header}
    /\ FlattenSeq(PieceTexts(chs)) = FlattenSeq(TextsOf(sections))

\* A sequence is one over its own elements.
LEMMA SeqOverRange ==
    ASSUME NEW T, NEW s \in Seq(T)
    PROVE  s \in Seq(Range(s))
<1> DEFINE R == Range(s)
<1>1. /\ Len(s) \in Nat /\ DOMAIN s = 1..Len(s)
      /\ s = [i \in 1..Len(s) |-> s[i]]
  OBVIOUS
<1>2. \A i \in 1..Len(s) : s[i] \in R
  BY <1>1 DEF Range
<1> HIDE DEF R
<1>3. s \in Seq(R)
  BY <1>1, <1>2
<1> QED
  BY <1>3 DEF R

\* The elements of a sequence.
LEMMA SeqElement ==
    ASSUME NEW T, NEW s \in Seq(T), NEW i \in DOMAIN s
    PROVE  s[i] \in T
  OBVIOUS

\* Sections whose texts are texts.
LEMMA SectionsAre ==
    ASSUME NEW Titles, NEW sections \in Seq([title: Titles, text: Texts])
    PROVE  AreSections(sections)
<1>1. sections \in Seq(Range(sections))
  BY SeqOverRange
<1>2. \A i \in DOMAIN sections : sections[i].text \in Texts
  <2>1. ASSUME NEW i \in DOMAIN sections PROVE sections[i].text \in Texts
    <3>1. sections[i] \in [title: Titles, text: Texts]
      BY SeqElement
    <3> QED
      BY <3>1
  <2> QED
    BY <2>1
<1> QED
  BY <1>1, <1>2 DEF AreSections

\* The parts that are kept are texts.
LEMMA NonEmptyType ==
    ASSUME NEW parts \in Seq(Texts)
    PROVE  NonEmpty(parts) \in Seq(Texts)
<1> DEFINE one(i) == IF parts[i] = << >> THEN << >> ELSE <<parts[i]>>
           ss == [i \in DOMAIN parts |-> one(i)]
<1>1. ss \in Seq(Seq(Texts))
  <2>1. \A i \in DOMAIN parts : one(i) \in Seq(Texts)
    <3>1. \A i \in DOMAIN parts : parts[i] \in Texts
      OBVIOUS
    <3>2. << >> \in Seq(Texts) /\ \A t \in Texts : <<t>> \in Seq(Texts)
      OBVIOUS
    <3> QED
      BY <3>1, <3>2
  <2> HIDE DEF one
  <2> QED
    BY <2>1
<1>2. FlattenSeq(ss) \in Seq(Texts)
  <2> HIDE DEF ss
  <2> QED
    BY <1>1, FlattenType
<1> QED
  BY <1>2 DEF NonEmpty

\* The sections that are kept are sections.
LEMMA WithTextType ==
    ASSUME NEW R, NEW sections \in Seq(R)
    PROVE  WithText(sections) \in Seq(R)
<1> DEFINE one(i) == IF sections[i].text = << >> THEN << >>
                                                 ELSE <<sections[i]>>
           ss == [i \in DOMAIN sections |-> one(i)]
<1>1. ss \in Seq(Seq(R))
  <2>1. \A i \in DOMAIN sections : one(i) \in Seq(R)
    <3>1. \A i \in DOMAIN sections : sections[i] \in R
      OBVIOUS
    <3>2. << >> \in Seq(R) /\ \A t \in R : <<t>> \in Seq(R)
      OBVIOUS
    <3> QED
      BY <3>1, <3>2
  <2> HIDE DEF one
  <2> QED
    BY <2>1
<1>2. FlattenSeq(ss) \in Seq(R)
  <2> HIDE DEF ss
  <2> QED
    BY <1>1, FlattenType
<1> QED
  BY <1>2 DEF WithText

\* A section is a record.
LEMMA SectionType ==
    ASSUME NEW Titles, NEW title \in Titles, NEW text \in Texts
    PROVE  Section(title, text) \in [title: Titles, text: Texts]
  BY DEF Section

\* The texts of a source file.
LEMMA PartsType ==
    ASSUME NEW v \in Versions
    PROVE  Contents[v].parts \in Seq(Texts)
  BY CorpusAssumption DEF Texts, Sentences

\* Texts one after the other are a text.
LEMMA FlatText ==
    ASSUME NEW parts \in Seq(Texts)
    PROVE  FlattenSeq(parts) \in Texts
  BY FlattenType DEF Texts

\* parse_articles and normalize_statute_xml read sections.
LEMMA StatuteSectionsAre ==
    ASSUME NEW v \in Versions
    PROVE  AreSections(StatuteSections(Contents[v]))
<1> DEFINE parts == Contents[v].parts
           kept == NonEmpty(parts)
           articles == [i \in DOMAIN kept |-> Section("article", kept[i])]
<1>1. kept \in Seq(Texts)
  BY PartsType, NonEmptyType
<1>2. articles \in Seq([title: {"article"}, text: Texts])
  <2> DEFINE R == [title: {"article"}, text: Texts]
  <2> HIDE DEF kept
  <2>1. \A i \in DOMAIN kept : Section("article", kept[i]) \in R
    BY <1>1 DEF Section
  <2> HIDE DEF R
  <2>2. articles \in Seq(R)
    BY <1>1, <2>1
  <2> QED
    BY <2>2 DEF R
<1>3. << >> \in Seq([title: {"article"}, text: Texts])
  OBVIOUS
<1>4. StatuteSections(Contents[v]) \in Seq([title: {"article"}, text: Texts])
  BY <1>2, <1>3 DEF StatuteSections, Articles
<1> QED
  BY <1>4, SectionsAre

\* normalize_precedent_xml reads sections.
LEMMA PrecedentSectionsAre ==
    ASSUME NEW v \in Versions
    PROVE  AreSections(PrecedentSections(Contents[v]))
<1> DEFINE parts == Contents[v].parts
           all == [i \in DOMAIN parts |-> Section(i, parts[i])]
           R == [title: Nat, text: Texts]
<1>1. parts \in Seq(Texts)
  BY PartsType
<1> HIDE DEF parts
<1>2. all \in Seq(R)
  <2>1. \A i \in DOMAIN parts : Section(i, parts[i]) \in R
    BY <1>1 DEF Section
  <2> HIDE DEF R
  <2> QED
    BY <1>1, <2>1
<1> HIDE DEF all, R
<1>3. WithText(all) \in Seq(R) /\ << >> \in Seq(R)
  BY <1>2, WithTextType
<1>4. PrecedentSections(Contents[v]) \in Seq(R)
  BY <1>3 DEF PrecedentSections, all, parts
<1> QED
  BY <1>4, SectionsAre DEF R

\* normalize_precedent_pdf reads sections.
LEMMA JudgmentSectionsAre ==
    ASSUME NEW v \in Versions
    PROVE  AreSections(JudgmentSections(Contents[v]))
<1> DEFINE R == [title: {"holding", "reasoning"}, text: Texts]
           version == Contents[v]
           parts == version.parts
<1>1. parts \in Seq(Texts)
  BY PartsType
<1>2. << >> \in Seq(R)
  OBVIOUS
<1>3. CASE PdfText(version) # << >>
  <2> DEFINE order == Head(parts)
             reasons == FlattenSeq(Tail(parts))
             whole == PdfText(version)
             said == IF reasons = << >> THEN whole ELSE reasons
             both == <<Section("holding", order), Section("reasoning", said)>>
  <2>1. parts # << >>
    BY <1>3, FlattenEmpty DEF PdfText
  <2>2. order \in Texts /\ Tail(parts) \in Seq(Texts)
    BY <1>1, <2>1
  <2>3. reasons \in Texts
    BY <2>2, FlatText
  <2>4. whole \in Texts
    BY <1>1, FlatText DEF PdfText
  <2> HIDE DEF order, reasons, whole
  <2>5. Section("holding", order) \in R /\ Section("reasoning", said) \in R
    BY <2>2, <2>3, <2>4 DEF Section
  <2>6. both \in Seq(R)
    <3> HIDE DEF R, said
    <3> QED
      BY <2>5
  <2> HIDE DEF R, both
  <2>7. WithText(both) \in Seq(R)
    BY <2>6, WithTextType
  <2>8. PdfSections(version) = WithText(both)
    BY DEF PdfSections, both, order, reasons, whole
  <2> QED
    BY <1>2, <2>7, <2>8, SectionsAre DEF JudgmentSections, R
<1>4. CASE PdfText(version) = << >>
  BY <1>2, <1>4, SectionsAre DEF JudgmentSections
<1> QED
  BY <1>3, <1>4

\* A source that is read as one section.
LEMMA OneSection ==
    ASSUME NEW title, NEW text \in Texts
    PROVE  AreSections(<<Section(title, text)>>)
<1>1. Section(title, text) \in [title: {title}, text: Texts]
  BY SectionType
<1>2. <<Section(title, text)>> \in Seq([title: {title}, text: Texts])
  BY <1>1
<1> QED
  BY <1>2, SectionsAre

\* What the chunkers make of sections holds their text.
LEMMA StatuteChunksHold ==
    ASSUME NEW header, NEW sections, AreSections(sections)
    PROVE  Hold(StatuteChunks(header, sections), header, sections)
<1> DEFINE chs == StatuteChunks(header, sections)
           n == Len(sections)
           one(i) == Chunk(header, "article", Piece(<< >>, 0, sections[i].text))
<1>1. n \in Nat /\ DOMAIN sections = 1..n
  BY DEF AreSections
<1>2. \A i \in 1..n : /\ one(i).header = header
                      /\ one(i).piece.text = sections[i].text
  BY DEF Chunk, Piece
<1>3. chs = [i \in 1..n |-> one(i)]
  BY <1>1 DEF StatuteChunks
<1> HIDE DEF one, chs, n
<1>4. chs \in Seq({one(i) : i \in 1..n})
  BY <1>1, <1>3
<1>5. DOMAIN chs = 1..n /\ \A i \in 1..n : chs[i] = one(i)
  BY <1>3
<1>6. PieceTexts(chs) = TextsOf(sections)
  BY <1>1, <1>2, <1>5 DEF PieceTexts, TextsOf
<1>7. \A i \in DOMAIN chs : chs[i].header \in {NoHeader, header}
  BY <1>2, <1>5
<1> QED
  BY <1>4, <1>6, <1>7, SeqOverRange DEF Hold, chs

\* The same for a source that is one section and one chunk.
LEMMA OneChunkHolds ==
    ASSUME NEW header, NEW title, NEW sections, Len(sections) = 1,
           DOMAIN sections = {1}
    PROVE  Hold(<<Chunk(header, title, Piece(<< >>, 0, sections[1].text))>>,
                header, sections)
<1> DEFINE c == Chunk(header, title, Piece(<< >>, 0, sections[1].text))
           chs == <<c>>
<1>1. c.header = header /\ c.piece.text = sections[1].text
  BY DEF Chunk, Piece
<1> HIDE DEF c
<1>2. chs \in Seq({c}) /\ DOMAIN chs = {1} /\ chs[1] = c
  OBVIOUS
<1> HIDE DEF chs
<1>3. PieceTexts(chs) = TextsOf(sections)
  BY <1>1, <1>2 DEF PieceTexts, TextsOf
<1>4. \A i \in DOMAIN chs : chs[i].header \in {NoHeader, header}
  BY <1>1, <1>2
<1> QED
  BY <1>2, <1>3, <1>4, SeqOverRange DEF Hold, chs, c

\* The chunks of pieces, under one title.
ChunksOfPieces(header, title, pieces) ==
    [i \in DOMAIN pieces |-> Chunk(header, title, pieces[i])]

\* Chunks hold the texts of pieces, under one header.
HoldPieces(chs, header, pieces) ==
    /\ chs \in Seq(Range(chs))
    /\ \A i \in DOMAIN chs : chs[i].header = header
    /\ PieceTexts(chs) = TextsOf(pieces)

\* Chunks made of pieces hold the pieces.
LEMMA PiecesAreHeld ==
    ASSUME NEW header, NEW title, NEW pieces, ArePieces(pieces)
    PROVE  HoldPieces(ChunksOfPieces(header, title, pieces), header, pieces)
<1> DEFINE n == Len(pieces)
           chs == ChunksOfPieces(header, title, pieces)
           one(i) == Chunk(header, title, pieces[i])
<1>1. n \in Nat /\ DOMAIN pieces = 1..n
  BY DEF ArePieces
<1>2. \A i \in 1..n : /\ one(i).header = header
                      /\ one(i).piece.text = pieces[i].text
  BY DEF Chunk
<1>3. chs = [i \in 1..n |-> one(i)]
  BY <1>1 DEF ChunksOfPieces
<1> HIDE DEF one, n, chs
<1>4. chs \in Seq({one(i) : i \in 1..n})
  BY <1>1, <1>3
<1>5. DOMAIN chs = 1..n /\ \A i \in 1..n : chs[i] = one(i)
  BY <1>3
<1>6. PieceTexts(chs) = TextsOf(pieces)
  BY <1>1, <1>2, <1>5 DEF PieceTexts, TextsOf
<1>7. \A i \in DOMAIN chs : chs[i].header = header
  BY <1>2, <1>5
<1> QED
  BY <1>4, <1>6, <1>7, SeqOverRange DEF HoldPieces, chs

\* The pieces of the casebook hold the one section of the case.
LEMMA GuidelineChunksHold ==
    ASSUME NEW header, NEW sections, AreSections(sections),
           Len(sections) = 1, DOMAIN sections = {1}
    PROVE  Hold(GuidelineChunks(header, sections), header, sections)
<1> DEFINE text == sections[1].text
           pieces == SplitGuideline(text)
           chs == GuidelineChunks(header, sections)
<1>1. text \in Texts
  BY DEF AreSections
<1>2. ArePieces(pieces) /\ FlattenSeq(TextsOf(pieces)) = text
  BY <1>1, SplitKeeps DEF SplitGuideline
<1>3. chs = ChunksOfPieces(header, "legal_aid_case", pieces)
  BY DEF GuidelineChunks, ChunksOfPieces
<1> HIDE DEF chs, pieces
<1>4. HoldPieces(chs, header, pieces)
  BY <1>2, <1>3, PiecesAreHeld
<1>5. TextsOf(sections) = <<text>>
  BY DEF TextsOf
<1>6. FlattenSeq(<<text>>) = text
  BY <1>1, FlattenOne DEF Texts
<1> QED
  BY <1>2, <1>4, <1>5, <1>6 DEF Hold, HoldPieces, chs

\* Chunk by chunk, section after section.
LEMMA PrecedentChunksHold ==
    ASSUME NEW header, NEW sections, AreSections(sections)
    PROVE  Hold(PrecedentChunks(header, sections), header, sections)
<1> DEFINE n == Len(sections)
           css == [i \in DOMAIN sections |->
                     ChunksOfSection(header, sections[i])]
           X == UNION {Range(css[i]) : i \in 1..n}
           m == [x \in X |-> x.piece.text]
           joined == [s \in Seq(X) |-> FlattenSeq(Mapped(m, s))]
           chs == FlattenSeq(css)
<1>1. /\ n \in Nat /\ DOMAIN sections = 1..n
      /\ \A i \in 1..n : sections[i].text \in Texts
  BY DEF AreSections
<1>2. ASSUME NEW i \in 1..n
      PROVE  /\ css[i] \in Seq(Range(css[i]))
             /\ \A j \in DOMAIN css[i] : css[i][j].header = header
             /\ PieceTexts(css[i]) \in Seq(Texts)
             /\ FlattenSeq(PieceTexts(css[i])) = sections[i].text
  <2> DEFINE pieces == SplitLongText(sections[i].text)
             c == css[i]
  <2>1. ArePieces(pieces) /\ FlattenSeq(TextsOf(pieces)) = sections[i].text
    BY <1>1, SplitKeeps
  <2>2. c = ChunksOfPieces(header, sections[i].title, pieces)
    BY <1>1 DEF ChunksOfSection, ChunksOfPieces
  <2> HIDE DEF c, pieces
  <2>3. HoldPieces(c, header, pieces)
    BY <2>1, <2>2, PiecesAreHeld
  <2>4. PieceTexts(c) \in Seq(Texts)
    BY <2>1, <2>3 DEF ArePieces, HoldPieces
  <2> QED
    BY <2>1, <2>3, <2>4 DEF HoldPieces, c
<1>3. css = [i \in 1..n |-> css[i]] /\ DOMAIN css = 1..n
  BY <1>1
<1>4. PrecedentChunks(header, sections) = chs
  BY DEF PrecedentChunks
<1> HIDE DEF css
<1>5. \A i \in 1..n : css[i] \in Seq(X)
  <2>1. ASSUME NEW i \in 1..n PROVE css[i] \in Seq(X)
    <3> DEFINE c == css[i]
               R == Range(c)
    <3>1. R \subseteq X /\ c \in Seq(R)
      BY <1>2
    <3> HIDE DEF c, R, X
    <3>2. c \in Seq(X)
      BY <3>1
    <3> QED
      BY <3>2 DEF c
  <2> QED
    BY <2>1
<1>6. css \in Seq(Seq(X))
  <2> HIDE DEF X
  <2> QED
    BY <1>1, <1>3, <1>5
<1>7. \A x \in X : x.header = header /\ x.piece.text \in Texts
  <2>1. ASSUME NEW x \in X PROVE x.header = header /\ x.piece.text \in Texts
    <3>1. PICK i \in 1..n : x \in Range(css[i])
      OBVIOUS
    <3> DEFINE c == css[i]
    <3>2. PICK j \in DOMAIN c : x = c[j]
      BY <3>1 DEF Range
    <3>3. PieceTexts(c)[j] = x.piece.text /\ j \in DOMAIN PieceTexts(c)
      BY <3>2 DEF PieceTexts
    <3>4. PieceTexts(c) \in Seq(Texts)
      BY <1>2
    <3>5. PieceTexts(c)[j] \in Texts
      BY <3>3, <3>4, SeqElement
    <3> QED
      BY <1>2, <3>2, <3>3, <3>5
  <2> QED
    BY <2>1
<1>8. m \in [X -> Texts] /\ DOMAIN m = X
  BY <1>7
<1>9. chs \in Seq(X)
  BY <1>6, FlattenType
<1>10. \A s \in Seq(X) : Mapped(m, s) = PieceTexts(s)
  <2>1. ASSUME NEW s \in Seq(X) PROVE Mapped(m, s) = PieceTexts(s)
    <3>1. \A i \in DOMAIN s : s[i] \in X
      BY SeqElement
    <3> HIDE DEF X
    <3> QED
      BY <3>1 DEF Mapped, PieceTexts
  <2> QED
    BY <2>1
<1> HIDE DEF m, X
<1>11. /\ joined \in [Seq(X) -> Texts] /\ DOMAIN joined = Seq(X)
       /\ \A s \in Seq(X) : joined[s] = FlattenSeq(Mapped(m, s))
  <2>1. ASSUME NEW s \in Seq(X) PROVE FlattenSeq(Mapped(m, s)) \in Texts
    <3>1. Mapped(m, s) \in Seq(Texts)
      BY <1>8, MappedType
    <3> QED
      BY <3>1, FlatText
  <2> QED
    BY <2>1
<1> HIDE DEF joined
<1>12. FlattenSeq(Mapped(m, chs)) = FlattenSeq(Mapped(joined, css))
  BY <1>6, <1>8, <1>11, FlattenMapped
<1>13. Mapped(joined, css) = TextsOf(sections)
  <2>1. \A i \in 1..n : joined[css[i]] = sections[i].text
    BY <1>2, <1>5, <1>10, <1>11
  <2> QED
    BY <1>1, <1>3, <2>1 DEF Mapped, TextsOf
<1>14. \A i \in DOMAIN chs : chs[i].header = header
  BY <1>7, <1>9, SeqElement
<1>15. chs \in Seq(Range(chs))
  BY <1>9, SeqOverRange
<1> HIDE DEF chs
<1> QED
  BY <1>4, <1>9, <1>10, <1>12, <1>13, <1>14, <1>15 DEF Hold

\* Whatever the kind, the chunks of a source that is read hold its document.
LEMMA ChunksHold ==
    ASSUME NEW k \in Kinds, NEW v \in Versions, SectionsOf[k][v] # << >>
    PROVE  /\ Hold(ChunksOf[k][v], DocumentOf[k][v].header,
                   DocumentOf[k][v].sections)
           /\ k = "consumer" =>
                 Hold(ChunksOf[k][v], NoHeader, DocumentOf[k][v].sections)
<1> DEFINE sections == SectionsOf[k][v]
           header == Contents[v].header
           chs == ChunksOfSections(k, header, sections)
<1>1. /\ ChunksOf[k][v] = chs
      /\ DocumentOf[k][v].header = header
      /\ DocumentOf[k][v].sections = sections
  BY DEF ChunksOf, DocumentOf
<1>2. Contents[v].parts \in Seq(Texts)
  BY PartsType
<1>3. CASE k = "law"
  <2>1. sections = StatuteSections(Contents[v])
    BY <1>3 DEF SectionsOf
  <2>2. AreSections(sections)
    BY <2>1, StatuteSectionsAre
  <2>3. chs = StatuteChunks(header, sections)
    BY <1>3 DEF ChunksOfSections
  <2> QED
    BY <1>1, <1>3, <2>2, <2>3, StatuteChunksHold
<1>4. CASE k = "case_api" \/ k = "case_file"
  <2>1. AreSections(sections)
    <3>1. CASE k = "case_api"
      BY <3>1, PrecedentSectionsAre DEF SectionsOf
    <3>2. CASE k = "case_file"
      BY <3>2, JudgmentSectionsAre DEF SectionsOf
    <3> QED
      BY <1>4, <3>1, <3>2
  <2>2. chs = PrecedentChunks(header, sections)
    BY <1>4 DEF ChunksOfSections
  <2> QED
    BY <1>1, <1>4, <2>1, <2>2, PrecedentChunksHold
<1>5. CASE k = "casebook"
  <2> DEFINE pages == FlattenSeq(LogicalPages(Contents[v]))
             preface == Contents[v].preface
             text == preface \o pages
  <2>1. text \in Texts
    <3>1. pages \in Texts
      BY <1>2, NonEmptyType, FlatText DEF LogicalPages
    <3>2. preface \in Texts
      BY CorpusAssumption DEF Texts, Sentences
    <3> HIDE DEF pages, preface
    <3> QED
      BY <3>1, <3>2, ConcatProperties DEF Texts
  <2> HIDE DEF text
  <2>2. sections = <<Section("legal_aid_case", text)>>
    BY <1>5 DEF SectionsOf, GuidelineSections, text
  <2>3. AreSections(sections)
    BY <2>1, <2>2, OneSection
  <2>4. Len(sections) = 1 /\ DOMAIN sections = {1}
    BY <2>2
  <2>5. chs = GuidelineChunks(header, sections)
    BY <1>5 DEF ChunksOfSections
  <2> QED
    BY <1>1, <1>5, <2>3, <2>4, <2>5, GuidelineChunksHold
<1>6. CASE k = "consumer"
  <2>1. sections = <<Section("question_answer",
                             FlattenSeq(Contents[v].parts))>>
    BY <1>6 DEF SectionsOf, ConsultationSections
  <2>2. Len(sections) = 1 /\ DOMAIN sections = {1}
    BY <2>1
  <2>3. chs = <<Chunk(NoHeader, "question_answer",
                      Piece(<< >>, 0, sections[1].text))>>
    BY <1>6 DEF ChunksOfSections, ConsumerReliefChunk
  <2> HIDE DEF sections, chs
  <2>4. Hold(chs, NoHeader, sections)
    BY <2>2, <2>3, OneChunkHolds
  <2>5. Hold(chs, header, sections)
    BY <2>4 DEF Hold
  <2> QED
    BY <1>1, <2>4, <2>5
<1>7. CASE k = "labor"
  <2>1. sections = <<Section("decision_summary",
                             FlattenSeq(Contents[v].parts))>>
    BY <1>7 DEF SectionsOf, DecisionSections
  <2>2. Len(sections) = 1 /\ DOMAIN sections = {1}
    BY <2>1
  <2>3. chs = <<Chunk(NoHeader, "decision_summary",
                      Piece(<< >>, 0, sections[1].text))>>
    BY <1>7 DEF ChunksOfSections, LaborDecisionChunk
  <2> HIDE DEF sections, chs
  <2>4. Hold(chs, NoHeader, sections)
    BY <2>2, <2>3, OneChunkHolds
  <2>5. Hold(chs, header, sections)
    BY <2>4 DEF Hold
  <2> QED
    BY <1>1, <1>7, <2>4, <2>5
<1> QED
  BY <1>3, <1>4, <1>5, <1>6, <1>7, CorpusAssumption DEF AllKinds

-----------------------------------------------------------------------------
(* Rows                                                                     *)

\* The rows of a document hold its text: ChunksMatchDocument, of one document.
Matches(rows, document) ==
    LET n == Cardinality(DOMAIN rows)
        row(i) == rows[i - 1].content
    IN /\ DOMAIN rows = 0..(n - 1)
       /\ \A i \in 1..n : row(i).header \in {NoHeader, document.header}
       /\ FlattenSeq([i \in 1..n |-> row(i).piece.text])
            = FlattenSeq([i \in DOMAIN document.sections |->
                             document.sections[i].text])

\* The rows are these chunks.
Store(rows, chs) ==
    /\ DOMAIN rows = 0..(Len(chs) - 1)
    /\ \A i \in DOMAIN rows : rows[i].content = chs[i + 1]

\* Rows that are the chunks of a document hold its text.
LEMMA StoredChunksMatch ==
    ASSUME NEW rows, NEW chs, NEW document, Store(rows, chs),
           Hold(chs, document.header, document.sections)
    PROVE  Matches(rows, document)
<1> DEFINE n == Len(chs)
           row(i) == rows[i - 1].content
<1>1. chs \in Seq(Range(chs))
  BY DEF Hold
<1>2. n \in Nat /\ DOMAIN chs = 1..n
  BY <1>1
<1>3. DOMAIN rows = 0..(n - 1)
  BY DEF Store
<1>4. Cardinality(0..(n - 1)) = n
  <2>1. Cardinality(0..(n - 1)) = IF 0 > n - 1 THEN 0 ELSE (n - 1) - 0 + 1
    BY <1>2, FS_Interval
  <2> QED
    BY <1>2, <2>1
<1>5. \A i \in 1..n : row(i) = chs[i]
  <2>1. ASSUME NEW i \in 1..n PROVE row(i) = chs[i]
    <3>1. i - 1 \in 0..(n - 1) /\ (i - 1) + 1 = i
      BY <1>2
    <3>2. rows[i - 1].content = chs[(i - 1) + 1]
      BY <1>3, <3>1 DEF Store
    <3> QED
      BY <3>1, <3>2
  <2> QED
    BY <2>1
<1>6. \A i \in 1..n : row(i).header \in {NoHeader, document.header}
  BY <1>2, <1>5 DEF Hold
<1>7. [i \in 1..n |-> row(i).piece.text] = PieceTexts(chs)
  BY <1>2, <1>5 DEF PieceTexts
<1>8. FlattenSeq(PieceTexts(chs)) = FlattenSeq(TextsOf(document.sections))
  BY DEF Hold
<1> HIDE DEF n, row
<1>9. /\ DOMAIN rows = 0..(n - 1)
      /\ \A i \in 1..n : row(i).header \in {NoHeader, document.header}
      /\ FlattenSeq([i \in 1..n |-> row(i).piece.text])
           = FlattenSeq([i \in DOMAIN document.sections |->
                            document.sections[i].text])
  BY <1>3, <1>6, <1>7, <1>8 DEF TextsOf
<1>10. Cardinality(DOMAIN rows) = n
  BY <1>3, <1>4
<1> QED
  BY <1>9, <1>10 DEF Matches, row

-----------------------------------------------------------------------------
(* The invariant                                                            *)

\* What a run has read: versions that normalize to something.
IsRead(read) ==
    /\ DOMAIN read \subseteq Files
    /\ read \in [DOMAIN read -> Versions]
    /\ \A f \in DOMAIN read : SectionsOf[kind][read[f]] # <<>>

\* What a run may hold: a version of each of some files.
Reads == UNION {[S -> Versions] : S \in SUBSET Files}

\* The states of a run.
Runs ==
    [at: {"idle", "choose", "embed", "commit"}, with_embeddings: BOOLEAN,
     embedded: BOOLEAN, read: Reads]

\* Every stored document is what the normalizer made of some version.
Normalized == {DocumentOf[kind][v] : v \in Versions}

\* The type invariant.
IngestionTyped ==
    /\ kind \in Kinds
    /\ raw \in [Files -> Versions \cup {"absent", "partial"}]
    /\ DOMAIN documents \subseteq Files
    /\ documents \in [DOMAIN documents -> Normalized]
    /\ DOMAIN chunks = Files
    /\ jobs \in [Jobs -> Runs]
    /\ edits \in 0..MaxEdits

\* No run holds a file that its normalizer refused.
ReadsAreLegible == \A j \in Jobs : IsRead(jobs[j].read)

\* EmbeddingMatchesText, of the rows of one document.
Faithful(rows) ==
    \A i \in DOMAIN rows :
        rows[i].embedding \in {NoVector, Vector(rows[i].content)}

\* The stored rows, document by document.
RowsSound ==
    /\ \A f \in Files : Faithful(chunks[f])
    /\ \A f \in DOMAIN documents : Matches(chunks[f], documents[f])

\* The inductive invariant.
IngestionInv ==
    /\ IngestionTyped
    /\ ReadsAreLegible
    /\ RowsSound

\* These are the two properties.
LEMMA RowsSoundIs ==
    RowsSound <=> EmbeddingMatchesText /\ ChunksMatchDocument
<1>1. (\A f \in Files : Faithful(chunks[f])) <=> EmbeddingMatchesText
  BY DEF Faithful, EmbeddingMatchesText
<1>2. (\A f \in DOMAIN documents : Matches(chunks[f], documents[f]))
        <=> ChunksMatchDocument
  BY DEF Matches, ChunksMatchDocument
<1> QED
  BY <1>1, <1>2 DEF RowsSound

-----------------------------------------------------------------------------
(* Reading                                                                  *)

\* What is read is typed.
LEMMA ReadType ==
    ASSUME NEW read, IsRead(read)
    PROVE  read \in Reads
<1> DEFINE S == DOMAIN read
<1>1. S \in SUBSET Files /\ read \in [S -> Versions]
  BY DEF IsRead
<1> HIDE DEF S
<1> QED
  BY <1>1 DEF Reads

\* What is read of legible files.
LEMMA ReadAllIsRead ==
    ASSUME NEW fs \in SUBSET Files, \A f \in fs : Legible(f)
    PROVE  IsRead(ReadAll(fs))
<1>1. DOMAIN ReadAll(fs) = fs /\ \A f \in fs : ReadAll(fs)[f] = raw[f]
  BY DEF ReadAll
<1>2. ReadAll(fs) \in [fs -> Versions]
  BY DEF ReadAll, Legible
<1> HIDE DEF ReadAll
<1> QED
  BY <1>1, <1>2 DEF IsRead, Legible

\* Whatever the script, what it loads is legible.
LEMMA LoadsAreReads ==
    ASSUME kind \in Kinds, NEW scope \in SUBSET Files,
           NEW read \in Loads(scope)
    PROVE  IsRead(read)
<1>1. \E fs \in SUBSET Files :
         read = ReadAll(fs) /\ \A f \in fs : Legible(f)
  <2>1. CASE kind = "law"
    BY <2>1 DEF Loads, LoadStatutes
  <2>2. CASE kind \in {"case_api", "case_file"}
    BY <2>2 DEF Loads, LoadPrecedents
  <2>3. CASE kind = "casebook"
    BY <2>3 DEF Loads, LoadGuidelines, Listed
  <2>4. CASE kind = "consumer"
    BY <2>4 DEF Loads, LoadConsultations
  <2>5. CASE kind = "labor"
    BY <2>5 DEF Loads, LoadDecisions
  <2> QED
    BY <2>1, <2>2, <2>3, <2>4, <2>5, CorpusAssumption DEF AllKinds
<1> QED
  BY <1>1, ReadAllIsRead

\* --only-new leaves a part of what was read.
LEMMA ChosenIsRead ==
    ASSUME NEW read, IsRead(read)
    PROVE  IsRead(Chosen(read))
<1> DEFINE S == {g \in DOMAIN read : ~Done(g, read[g])}
<1>1. Chosen(read) = [f \in S |-> read[f]]
  BY DEF Chosen, NewOrIncompleteCases, NewOrIncompleteGuidelines, NotDone
<1>2. S \subseteq DOMAIN read
  OBVIOUS
<1> HIDE DEF S
<1>3. /\ DOMAIN Chosen(read) = S
      /\ \A f \in S : Chosen(read)[f] = read[f]
      /\ Chosen(read) \in [S -> Versions]
  BY <1>1, <1>2 DEF IsRead
<1> QED
  BY <1>2, <1>3 DEF IsRead

\* A run that is over has read nothing.
LEMMA IdleIsRun == Idle \in Runs /\ IsRead(Idle.read)
<1>1. IsRead(<< >>)
  BY DEF IsRead
<1>2. << >> \in Reads
  BY <1>1, ReadType
<1> QED
  BY <1>1, <1>2 DEF Idle, Runs

\* The last step of every script is always asked for.
LEMMA FirstAskedType ==
    ASSUME kind \in Kinds, NEW arguments
    PROVE  FirstAsked(Main, arguments) \in {"choose", "embed", "commit"}
<1> DEFINE Asked(step) == /\ step = "choose" => arguments.only_new
                          /\ step = "embed" => arguments.with_embeddings
           I == {i \in 1..Len(Main) : Asked(Main[i])}
<1>1. Main \in {<<"embed", "commit">>, <<"choose", "embed", "commit">>}
  BY CorpusAssumption DEF Main, LawMain, CaseMain, GuidelineMain,
     DecisionMain, ConsultationMain, AllKinds
<1>2. PICK steps \in {<<"embed", "commit">>,
                      <<"choose", "embed", "commit">>} : steps = Main
  BY <1>1
<1>3. /\ Len(steps) \in 2..3 /\ steps[Len(steps)] = "commit"
      /\ \A i \in 1..Len(steps) : steps[i] \in {"choose", "embed", "commit"}
  <2>1. CASE steps = <<"embed", "commit">>
    <3>1. Len(steps) = 2 /\ steps[1] = "embed" /\ steps[2] = "commit"
      BY <2>1
    <3>2. \A i \in 1..Len(steps) : i = 1 \/ i = 2
      BY <3>1
    <3> QED
      BY <3>1, <3>2
  <2>2. CASE steps = <<"choose", "embed", "commit">>
    <3>1. /\ Len(steps) = 3 /\ steps[1] = "choose" /\ steps[2] = "embed"
          /\ steps[3] = "commit"
      BY <2>2
    <3>2. \A i \in 1..Len(steps) : i = 1 \/ i = 2 \/ i = 3
      BY <3>1
    <3> QED
      BY <3>1, <3>2
  <2> QED
    BY <2>1, <2>2
<1>4. Len(steps) \in I /\ I \subseteq 1..Len(steps)
  BY <1>2, <1>3
<1>5. FirstAsked(Main, arguments) = steps[IF I # {} THEN Min(I) ELSE 0]
  BY <1>2 DEF FirstAsked, SelectInSeq
<1> HIDE DEF I
<1>6. \E x \in I : \A y \in I : x =< y
  <2>1. \A x \in I : x = 1 \/ x = 2 \/ x = 3
    BY <1>3, <1>4
  <2> QED
    BY <1>4, <2>1
<1>7. Min(I) \in I
  BY <1>6 DEF Min
<1> QED
  BY <1>3, <1>4, <1>5, <1>7

-----------------------------------------------------------------------------
(* Embedding and saving                                                     *)

\* Every script makes one vector of every chunk, in order.
LEMMA VectorsAre ==
    ASSUME NEW read, NEW vectors \in VectorsOf(read), kind \in Kinds
    PROVE  vectors = Vectors(read)
  BY CorpusAssumption DEF VectorsOf, LawVectors, CaseVectors,
     GuidelineVectors, ConsultationVectors, AllKinds

\* The chunks of what is read, in the order in which they are embedded.
ChunksInOrder(read) ==
    [f \in Files |-> IF f \in DOMAIN read THEN ChunksRead(read, f) ELSE <<>>]

\* The chunks of a file that was read hold its document.
LEMMA ChunksReadType ==
    ASSUME kind \in Kinds, NEW read, IsRead(read), NEW f \in DOMAIN read
    PROVE  /\ Hold(ChunksRead(read, f), DocumentOf[kind][read[f]].header,
                   DocumentOf[kind][read[f]].sections)
           /\ kind = "consumer" =>
                 Hold(ChunksRead(read, f), NoHeader,
                      DocumentOf[kind][read[f]].sections)
           /\ ChunksRead(read, f) \in Seq(Range(ChunksRead(read, f)))
<1>1. read[f] \in Versions /\ SectionsOf[kind][read[f]] # << >>
  BY DEF IsRead
<1>2. /\ Hold(ChunksOf[kind][read[f]], DocumentOf[kind][read[f]].header,
              DocumentOf[kind][read[f]].sections)
      /\ kind = "consumer" =>
            Hold(ChunksOf[kind][read[f]], NoHeader,
                 DocumentOf[kind][read[f]].sections)
  BY <1>1, ChunksHold
<1> QED
  BY <1>2 DEF ChunksRead, Hold

\* A function on 1..n is a sequence.
LEMMA SeqOfFunction ==
    ASSUME NEW T, NEW n \in Nat, NEW s, s = [i \in 1..n |-> s[i]],
           \A i \in 1..n : s[i] \in T
    PROVE  s \in Seq(T) /\ Len(s) = n
  OBVIOUS

\* embedding_index finds the vector of the very chunk it is stored with: the
\* chunks of a file lie behind those of all files read before it.
LEMMA OffsetFinds ==
    ASSUME kind \in Kinds, NEW read, IsRead(read), NEW f \in DOMAIN read,
           NEW j \in 1..Len(ChunksRead(read, f))
    PROVE  /\ Offset(read, f) + j \in DOMAIN AllChunks(read)
           /\ AllChunks(read)[Offset(read, f) + j] = ChunksRead(read, f)[j]
           /\ Offset(read, f) \in Nat
<1> DEFINE X == UNION {Range(ChunksRead(read, g)) : g \in DOMAIN read}
           s == ChunksInOrder(read)
           earlier == [g \in {h \in DOMAIN read : h < f} |-> read[g]]
           before == ChunksInOrder(earlier)
           n == Cardinality(Files)
<1>1. n \in Nat /\ Files = 1..n /\ DOMAIN read \subseteq Files /\ f \in 1..n
  BY IngestionAssumption, FS_CardinalityType DEF IsRead
<1>2. \A g \in DOMAIN read : ChunksRead(read, g) \in Seq(X)
  <2>1. ASSUME NEW g \in DOMAIN read PROVE ChunksRead(read, g) \in Seq(X)
    <3> DEFINE c == ChunksRead(read, g)
               R == Range(c)
    <3>1. c \in Seq(R) /\ R \subseteq X
      BY ChunksReadType
    <3> HIDE DEF c, R, X
    <3> QED
      BY <3>1 DEF c
  <2> QED
    BY <2>1
<1>3. /\ DOMAIN earlier = {h \in DOMAIN read : h < f}
      /\ \A g \in DOMAIN earlier : ChunksRead(earlier, g) = ChunksRead(read, g)
  BY DEF ChunksRead
<1> HIDE DEF X, earlier, n
<1>4. \A g \in 1..n : s[g] = IF g \in DOMAIN read THEN ChunksRead(read, g)
                                                  ELSE << >>
  BY <1>1 DEF ChunksInOrder
<1>5. \A g \in 1..n : before[g] = IF g < f THEN s[g] ELSE << >>
  BY <1>1, <1>3, <1>4 DEF ChunksInOrder
<1>6. DOMAIN s = 1..n /\ DOMAIN before = 1..n
  BY <1>1 DEF ChunksInOrder
<1>7. s = [g \in 1..n |-> s[g]] /\ before = [g \in 1..n |-> before[g]]
  BY <1>1 DEF ChunksInOrder
<1>8. AllChunks(read) = FlattenSeq(s)
  BY DEF AllChunks, ChunksInOrder
<1>9. Offset(read, f) = Len(FlattenSeq(before))
  BY DEF Offset, AllChunks, ChunksInOrder, earlier
<1> HIDE DEF s, before
<1>10. \A g \in 1..n : s[g] \in Seq(X) /\ before[g] \in Seq(X)
  <2>1. << >> \in Seq(X)
    OBVIOUS
  <2>2. ASSUME NEW g \in 1..n PROVE s[g] \in Seq(X)
    <3>1. CASE g \in DOMAIN read
      BY <1>2, <1>4, <3>1
    <3>2. CASE g \notin DOMAIN read
      BY <1>4, <2>1, <3>2
    <3> QED
      BY <3>1, <3>2
  <2>3. ASSUME NEW g \in 1..n PROVE before[g] \in Seq(X)
    <3>1. CASE g < f
      BY <1>5, <2>2, <3>1
    <3>2. CASE ~(g < f)
      BY <1>5, <2>1, <3>2
    <3> QED
      BY <3>1, <3>2
  <2> QED
    BY <2>2, <2>3
<1>11. /\ s \in Seq(Seq(X)) /\ Len(s) = n
       /\ before \in Seq(Seq(X)) /\ Len(before) = n
  BY <1>1, <1>7, <1>10, SeqOfFunction
<1>12. s[f] = ChunksRead(read, f)
  BY <1>1, <1>4
<1>13. j \in 1..Len(s[f])
  BY <1>12
<1>14. /\ FlattenSeq(s)[Len(FlattenSeq(before)) + j] = s[f][j]
       /\ Len(FlattenSeq(before)) + j \in DOMAIN FlattenSeq(s)
  BY <1>1, <1>5, <1>11, <1>13, FlattenAt
<1>15. Len(FlattenSeq(before)) \in Nat
  BY <1>11, FlattenType
<1> QED
  BY <1>8, <1>9, <1>12, <1>14, <1>15

\* What is sent holds the chunks, and vectors of these chunks.
LEMMA SentIs ==
    ASSUME kind \in Kinds, NEW read, IsRead(read), NEW f \in DOMAIN read,
           NEW vectors \in {<< >>, Vectors(read)}
    PROVE  /\ Store(Sent(read, vectors, f), ChunksRead(read, f))
           /\ Faithful(Sent(read, vectors, f))
           /\ \A i \in DOMAIN Sent(read, vectors, f) :
                 Sent(read, vectors, f)[i] =
                    [content |-> Sent(read, vectors, f)[i].content,
                     embedding |-> Sent(read, vectors, f)[i].embedding]
<1> DEFINE rows == Sent(read, vectors, f)
           c == ChunksRead(read, f)
           o == Offset(read, f)
<1>1. /\ DOMAIN rows = 0..(Len(c) - 1)
      /\ \A i \in DOMAIN rows :
            rows[i] = [content |-> c[i + 1],
                       embedding |-> IF vectors = << >> THEN NoVector
                                     ELSE vectors[o + i + 1]]
  BY DEF Sent
<1> HIDE DEF rows
<1>2. Store(rows, c)
  BY <1>1 DEF Store
<1>3. Faithful(rows)
  <2>1. ASSUME NEW i \in DOMAIN rows, vectors # << >>
        PROVE  rows[i].embedding = Vector(rows[i].content)
    <3>1. vectors = Vectors(read)
      BY <2>1
    <3>2. Len(c) \in Nat
      BY ChunksReadType
    <3>3. i + 1 \in 1..Len(c)
      BY <1>1, <3>2
    <3>4. /\ o + (i + 1) \in DOMAIN AllChunks(read)
          /\ AllChunks(read)[o + (i + 1)] = c[i + 1]
          /\ o \in Nat
      BY <3>3, OffsetFinds
    <3>5. o + (i + 1) = o + i + 1
      BY <1>1, <3>2, <3>4
    <3>6. vectors[o + i + 1] = Vector(c[i + 1])
      BY <3>1, <3>4, <3>5 DEF Vectors
    <3> QED
      BY <1>1, <2>1, <3>6
  <2> QED
    BY <1>1, <2>1 DEF Faithful
<1>4. \A i \in DOMAIN rows :
         rows[i] = [content |-> rows[i].content,
                    embedding |-> rows[i].embedding]
  BY <1>1
<1> QED
  BY <1>2, <1>3, <1>4 DEF rows

\* The upsert keeps the texts that are sent, and a vector only beside the text
\* it was made of.
LEMMA UpsertSound ==
    ASSUME NEW old, NEW new, NEW chs, Faithful(old), Faithful(new),
           Store(new, chs),
           \A i \in DOMAIN new :
              new[i] = [content |-> new[i].content,
                        embedding |-> new[i].embedding]
    PROVE  /\ Store(UpsertedChunks(old, new), chs)
           /\ Faithful(UpsertedChunks(old, new))
<1> DEFINE rows == UpsertedChunks(old, new)
<1>1. /\ DOMAIN rows = DOMAIN new
      /\ \A i \in DOMAIN new :
            rows[i] = IF i \in DOMAIN old THEN Upserted(old[i], new[i])
                                          ELSE new[i]
  BY DEF UpsertedChunks
<1> HIDE DEF rows
<1>2. ASSUME NEW i \in DOMAIN new
      PROVE  /\ rows[i].content = new[i].content
             /\ rows[i].embedding \in {NoVector, Vector(new[i].content)}
  <2>1. new[i].embedding \in {NoVector, Vector(new[i].content)}
    BY DEF Faithful
  <2>2. CASE i \in DOMAIN old
    <3>1. old[i].embedding \in {NoVector, Vector(old[i].content)}
      BY <2>2 DEF Faithful
    <3>2. /\ rows[i].content = new[i].content
          /\ rows[i].embedding = UpsertedEmbedding(old[i], new[i])
      BY <1>1, <2>2 DEF Upserted
    <3> QED
      BY <2>1, <3>1, <3>2 DEF UpsertedEmbedding
  <2>3. CASE i \notin DOMAIN old
    BY <1>1, <2>1, <2>3
  <2> QED
    BY <2>2, <2>3
<1> QED
  BY <1>1, <1>2 DEF Store, Faithful, rows

\* Documents that are saved are what the normalizer made of versions.
LEMMA DocumentsSaved ==
    ASSUME IngestionTyped, NEW read, IsRead(read),
           NEW files \in SUBSET DOMAIN read,
           documents' = DocumentsWith(files, read), kind' = kind
    PROVE  /\ DOMAIN documents' = files \cup DOMAIN documents
           /\ (DOMAIN documents \subseteq Files)'
           /\ (documents \in [DOMAIN documents -> Normalized])'
           /\ \A f \in files : documents'[f] = DocumentOf[kind][read[f]]
           /\ \A f \in DOMAIN documents \ files : documents'[f] = documents[f]
<1>1. /\ DOMAIN documents' = files \cup DOMAIN documents
      /\ \A f \in files \cup DOMAIN documents :
            documents'[f] = IF f \in files THEN DocumentOf[kind][read[f]]
                                           ELSE documents[f]
      /\ documents' = [f \in DOMAIN documents' |-> documents'[f]]
  BY DEF DocumentsWith
<1>2. \A f \in files : DocumentOf[kind][read[f]] \in Normalized
  BY DEF IsRead, Normalized
<1>3. \A f \in DOMAIN documents : documents[f] \in Normalized
  BY DEF IngestionTyped
<1>4. Normalized' = Normalized
  BY DEF Normalized
<1>5. \A f \in DOMAIN documents' : documents'[f] \in Normalized
  BY <1>1, <1>2, <1>3
<1>6. documents' \in [DOMAIN documents' -> Normalized]
  BY <1>1, <1>5
<1>7. DOMAIN documents' \subseteq Files
  BY <1>1 DEF IsRead, IngestionTyped
<1> QED
  BY <1>1, <1>4, <1>6, <1>7

\* The scripts that upsert.
LEMMA SaveUpsertedSound ==
    ASSUME IngestionInv, NEW read, IsRead(read), kind' = kind,
           NEW vectors \in {<< >>, Vectors(read)},
           SaveUpserted(read, vectors)
    PROVE  /\ RowsSound' /\ DOMAIN chunks' = Files
           /\ (DOMAIN documents \subseteq Files)'
           /\ (documents \in [DOMAIN documents -> Normalized])'
<1>1. kind \in Kinds /\ IngestionTyped /\ RowsSound
  BY DEF IngestionInv, IngestionTyped
<1>2. /\ DOMAIN documents' = DOMAIN read \cup DOMAIN documents
      /\ (DOMAIN documents \subseteq Files)'
      /\ (documents \in [DOMAIN documents -> Normalized])'
      /\ \A f \in DOMAIN read : documents'[f] = DocumentOf[kind][read[f]]
      /\ \A f \in DOMAIN documents \ DOMAIN read :
            documents'[f] = documents[f]
  BY <1>1, DocumentsSaved DEF SaveUpserted
<1>3. /\ DOMAIN chunks' = Files
      /\ \A f \in Files :
            chunks'[f] = IF f \in DOMAIN read
                         THEN UpsertedChunks(chunks[f],
                                             Sent(read, vectors, f))
                         ELSE chunks[f]
  BY DEF SaveUpserted
<1>4. ASSUME NEW f \in DOMAIN read
      PROVE  Faithful(chunks'[f]) /\ Matches(chunks'[f], documents'[f])
  <2> DEFINE new == Sent(read, vectors, f)
  <2>1. f \in Files
    BY DEF IsRead
  <2>2. /\ Store(new, ChunksRead(read, f)) /\ Faithful(new)
        /\ \A i \in DOMAIN new :
              new[i] = [content |-> new[i].content,
                        embedding |-> new[i].embedding]
    BY <1>1, SentIs
  <2> HIDE DEF new
  <2>3. Faithful(chunks[f])
    BY <1>1, <2>1 DEF RowsSound
  <2>4. chunks'[f] = UpsertedChunks(chunks[f], new)
    BY <1>3, <2>1 DEF new
  <2>5. Store(chunks'[f], ChunksRead(read, f)) /\ Faithful(chunks'[f])
    BY <2>2, <2>3, <2>4, UpsertSound
  <2>6. Hold(ChunksRead(read, f), documents'[f].header, documents'[f].sections)
    BY <1>1, <1>2, ChunksReadType
  <2> QED
    BY <2>5, <2>6, StoredChunksMatch
<1>5. \A f \in Files : Faithful(chunks'[f])
  BY <1>1, <1>3, <1>4 DEF RowsSound
<1>6. \A f \in DOMAIN documents' : Matches(chunks'[f], documents'[f])
  <2>1. ASSUME NEW f \in DOMAIN documents \ DOMAIN read
        PROVE  Matches(chunks'[f], documents'[f])
    <3>1. f \in Files
      BY <1>1 DEF IngestionTyped
    <3>2. chunks'[f] = chunks[f] /\ documents'[f] = documents[f]
      BY <1>2, <1>3, <3>1
    <3> QED
      BY <1>1, <3>2 DEF RowsSound
  <2> QED
    BY <1>2, <1>4, <2>1
<1> QED
  BY <1>2, <1>3, <1>5, <1>6 DEF RowsSound

\* The consumer script: what it leaves alone already holds the text.
LEMMA SaveConsultationsSound ==
    ASSUME IngestionInv, NEW read, IsRead(read), kind' = kind,
           NEW vectors \in {<< >>, Vectors(read)},
           SaveConsultations(read, vectors)
    PROVE  /\ RowsSound' /\ DOMAIN chunks' = Files
           /\ (DOMAIN documents \subseteq Files)'
           /\ (documents \in [DOMAIN documents -> Normalized])'
<1>1. /\ kind \in Kinds /\ IngestionTyped /\ RowsSound /\ kind = "consumer"
  BY DEF IngestionInv, IngestionTyped, SaveConsultations
<1>2. PICK changed \in SUBSET DOMAIN read :
         /\ changed = {f \in DOMAIN read :
                          \/ f \notin DOMAIN documents
                          \/ documents[f].sections
                               # DocumentOf[kind][read[f]].sections}
         /\ documents' = DocumentsWith(changed, read)
         /\ chunks' = [f \in Files |->
               IF f \in changed \/ (f \in DOMAIN read /\ chunks[f] = << >>)
               THEN Sent(read, vectors, f)
               ELSE chunks[f]]
  BY DEF SaveConsultations
<1>3. /\ DOMAIN documents' = changed \cup DOMAIN documents
      /\ (DOMAIN documents \subseteq Files)'
      /\ (documents \in [DOMAIN documents -> Normalized])'
      /\ \A f \in changed : documents'[f] = DocumentOf[kind][read[f]]
      /\ \A f \in DOMAIN documents \ changed : documents'[f] = documents[f]
  BY <1>1, <1>2, DocumentsSaved
<1>4. /\ DOMAIN chunks' = Files
      /\ \A f \in Files :
            chunks'[f] = IF f \in changed
                              \/ (f \in DOMAIN read /\ chunks[f] = << >>)
                         THEN Sent(read, vectors, f)
                         ELSE chunks[f]
  BY <1>2
<1>5. ASSUME NEW f \in DOMAIN read
      PROVE  /\ Faithful(Sent(read, vectors, f))
             /\ Matches(Sent(read, vectors, f), documents'[f])
  <2> DEFINE new == Sent(read, vectors, f)
             chs == ChunksRead(read, f)
  <2>1. Store(new, chs) /\ Faithful(new)
    BY <1>1, SentIs
  <2>2. Hold(chs, NoHeader, DocumentOf[kind][read[f]].sections)
    BY <1>1, ChunksReadType
  <2>3. documents'[f].sections = DocumentOf[kind][read[f]].sections
    <3>1. CASE f \in changed
      BY <1>3, <3>1
    <3>2. CASE f \notin changed
      BY <1>2, <1>3, <3>2
    <3> QED
      BY <3>1, <3>2
  <2> HIDE DEF new, chs
  <2>4. Hold(chs, documents'[f].header, documents'[f].sections)
    BY <2>2, <2>3 DEF Hold
  <2>5. Matches(new, documents'[f])
    BY <2>1, <2>4, StoredChunksMatch
  <2> QED
    BY <2>1, <2>5 DEF new
<1>6. \A f \in Files : Faithful(chunks'[f])
  BY <1>1, <1>2, <1>4, <1>5 DEF RowsSound
<1>7. ASSUME NEW f \in DOMAIN documents'
      PROVE  Matches(chunks'[f], documents'[f])
  <2>1. f \in Files
    BY <1>3
  <2>2. CASE f \in changed \/ (f \in DOMAIN read /\ chunks[f] = << >>)
    BY <1>2, <1>4, <1>5, <2>1, <2>2
  <2>3. CASE ~(f \in changed \/ (f \in DOMAIN read /\ chunks[f] = << >>))
    <3>1. chunks'[f] = chunks[f] /\ documents'[f] = documents[f]
      BY <1>3, <1>4, <2>1, <2>3
    <3>2. f \in DOMAIN documents
      BY <1>3, <2>3
    <3> QED
      BY <1>1, <3>1, <3>2 DEF RowsSound
  <2> QED
    BY <2>2, <2>3
<1> QED
  BY <1>3, <1>4, <1>6, <1>7 DEF RowsSound

\* The transaction of a run keeps the rows sound.
LEMMA SaveSound ==
    ASSUME IngestionInv, NEW read, IsRead(read), kind' = kind,
           NEW vectors \in {<< >>, Vectors(read)}, Save(read, vectors)
    PROVE  /\ RowsSound' /\ DOMAIN chunks' = Files
           /\ (DOMAIN documents \subseteq Files)'
           /\ (documents \in [DOMAIN documents -> Normalized])'
<1>1. CASE SaveConsultations(read, vectors)
  BY <1>1, SaveConsultationsSound
<1>2. CASE SaveUpserted(read, vectors)
  BY <1>2, SaveUpsertedSound
<1> QED
  BY <1>1, <1>2 DEF Save, SaveCases, SaveStatutes, SaveGuidelines

-----------------------------------------------------------------------------
(* The theorems                                                             *)

\* A step that leaves the store alone leaves it sound.
LEMMA StoreKept ==
    ASSUME IngestionInv, UNCHANGED <<kind, documents, chunks>>
    PROVE  /\ RowsSound' /\ kind' \in Kinds
           /\ DOMAIN chunks' = Files
           /\ (DOMAIN documents \subseteq Files)'
           /\ (documents \in [DOMAIN documents -> Normalized])'
<1>1. Normalized' = Normalized
  BY DEF Normalized
<1> QED
  BY <1>1 DEF IngestionInv, IngestionTyped, RowsSound

\* Steps of the sources.
LEMMA SourceStep ==
    ASSUME IngestionInv, NEW f \in Files,
           CollectLaw(f) \/ CollectCase(f) \/ Place(f) \/ Discard(f)
    PROVE  IngestionInv'
<1>1. UNCHANGED <<kind, documents, chunks, jobs>>
  BY DEF CollectLaw, CollectCase, Place, Discard, Collected
<1>2. Published[f] \subseteq Versions
  BY IngestionAssumption
<1>3. (raw \in [Files -> Versions \cup {"absent", "partial"}])'
  <2>1. raw \in [Files -> Versions \cup {"absent", "partial"}]
    BY DEF IngestionInv, IngestionTyped
  <2>2. \E outcome \in Versions \cup {"absent", "partial"} :
           raw' = [raw EXCEPT ![f] = outcome]
    BY <1>2 DEF CollectLaw, CollectCase, Place, Discard, Collected, ExactLaw,
       FetchedPrecedent, Answers
  <2> QED
    BY <2>1, <2>2
<1>4. (edits \in 0..MaxEdits)'
  <2>1. edits \in 0..MaxEdits
    BY DEF IngestionInv, IngestionTyped
  <2>2. edits' = edits \/ (edits < MaxEdits /\ edits' = edits + 1)
    BY DEF CollectLaw, CollectCase, Place, Discard, Collected
  <2> QED
    BY <2>1, <2>2, IngestionAssumption
<1>5. IngestionTyped'
  <2>1. Runs' = Runs
    BY DEF Runs, Reads
  <2> QED
    BY <1>1, <1>3, <1>4, <2>1, StoreKept DEF IngestionInv, IngestionTyped
<1>6. ReadsAreLegible'
  BY <1>1 DEF IngestionInv, ReadsAreLegible, IsRead
<1> QED
  BY <1>1, <1>5, <1>6, StoreKept DEF IngestionInv

\* A step in which one run goes on, with what it read.
LEMMA JobStep ==
    ASSUME IngestionInv, NEW j \in Jobs, NEW job \in Runs, IsRead(job.read),
           jobs' = [jobs EXCEPT ![j] = job], kind' = kind,
           raw' = raw, edits' = edits, RowsSound', DOMAIN chunks' = Files,
           (DOMAIN documents \subseteq Files)',
           (documents \in [DOMAIN documents -> Normalized])'
    PROVE  IngestionInv'
<1>1. jobs \in [Jobs -> Runs] /\ ReadsAreLegible
  BY DEF IngestionInv, IngestionTyped
<1>2. jobs' \in [Jobs -> Runs]
  BY <1>1
<1>3. Runs' = Runs
  BY DEF Runs, Reads
<1>4. IngestionTyped'
  BY <1>2, <1>3 DEF IngestionInv, IngestionTyped
<1>5. ReadsAreLegible'
  <2>1. ASSUME NEW i \in Jobs PROVE IsRead(jobs'[i].read)
    <3>1. jobs'[i] = IF i = j THEN job ELSE jobs[i]
      BY <1>1
    <3> QED
      BY <1>1, <3>1 DEF ReadsAreLegible
  <2> QED
    BY <2>1 DEF ReadsAreLegible, IsRead
<1> QED
  BY <1>4, <1>5 DEF IngestionInv

\* A run starts.
LEMMA StartStep ==
    ASSUME IngestionInv, NEW j \in Jobs, NEW arguments \in Arguments,
           Start(j, arguments)
    PROVE  IngestionInv'
<1>1. kind \in Kinds
  BY DEF IngestionInv, IngestionTyped
<1>2. /\ arguments.scope \in SUBSET Files
      /\ arguments.with_embeddings \in BOOLEAN
  <2>1. arguments \in
          [scope: Selections, only_new: BOOLEAN, with_embeddings: BOOLEAN]
    BY <1>1, CorpusAssumption DEF Arguments, LawArguments, CaseArguments,
       GuidelineArguments, DecisionArguments, ConsultationArguments, AllKinds
  <2> QED
    BY <2>1, IngestionAssumption
<1>3. PICK read \in Loads(arguments.scope) :
         jobs' = [jobs EXCEPT ![j] =
                     [at |-> FirstAsked(Main, arguments),
                      with_embeddings |-> arguments.with_embeddings,
                      embedded |-> FALSE,
                      read |-> read]]
  BY DEF Start
<1> DEFINE job == [at |-> FirstAsked(Main, arguments),
                   with_embeddings |-> arguments.with_embeddings,
                   embedded |-> FALSE,
                   read |-> read]
<1>4. IsRead(read) /\ read \in Reads
  BY <1>1, <1>2, LoadsAreReads, ReadType
<1>5. FirstAsked(Main, arguments) \in {"idle", "choose", "embed", "commit"}
  BY <1>1, FirstAskedType
<1>6. job \in Runs /\ IsRead(job.read)
  BY <1>2, <1>4, <1>5 DEF Runs
<1>7. jobs' = [jobs EXCEPT ![j] = job]
  BY <1>3
<1>8. UNCHANGED <<kind, raw, documents, chunks, edits>>
  BY DEF Start
<1> HIDE DEF job
<1> QED
  BY <1>6, <1>7, <1>8, StoreKept, JobStep

\* A run leaves out what is done.
LEMMA ChooseStep ==
    ASSUME IngestionInv, NEW j \in Jobs, Choose(j)
    PROVE  IngestionInv'
<1> DEFINE chosen == Chosen(jobs[j].read)
           next == IF jobs[j].with_embeddings THEN "embed" ELSE "commit"
           job == IF chosen = << >> THEN Idle
                  ELSE [jobs[j] EXCEPT !.at = next, !.read = chosen]
<1>1. jobs \in [Jobs -> Runs] /\ IsRead(jobs[j].read)
  BY DEF IngestionInv, IngestionTyped, ReadsAreLegible
<1>2. IsRead(chosen) /\ chosen \in Reads
  BY <1>1, ChosenIsRead, ReadType
<1>3. jobs' = [jobs EXCEPT ![j] = job]
  BY <1>1 DEF Choose
<1> HIDE DEF chosen
<1>4. job \in Runs /\ IsRead(job.read)
  <2>1. CASE chosen = << >>
    BY <2>1, IdleIsRun
  <2>2. CASE chosen # << >>
    BY <1>1, <1>2, <2>2 DEF Runs
  <2> QED
    BY <2>1, <2>2
<1>5. UNCHANGED <<kind, raw, documents, chunks, edits>>
  BY DEF Choose
<1> HIDE DEF job
<1> QED
  BY <1>3, <1>4, <1>5, StoreKept, JobStep

\* A run has its vectors, or gives up.
LEMMA EmbedStep ==
    ASSUME IngestionInv, NEW j \in Jobs, Embed(j)
    PROVE  IngestionInv'
<1> DEFINE job == IF VectorsOf(jobs[j].read) = {} THEN Idle
                  ELSE [jobs[j] EXCEPT !.at = "commit", !.embedded = TRUE]
<1>1. jobs \in [Jobs -> Runs] /\ IsRead(jobs[j].read)
  BY DEF IngestionInv, IngestionTyped, ReadsAreLegible
<1>2. jobs' = [jobs EXCEPT ![j] = job]
  BY <1>1 DEF Embed
<1>3. job \in Runs /\ IsRead(job.read)
  <2>1. CASE VectorsOf(jobs[j].read) = {}
    BY <2>1, IdleIsRun
  <2>2. CASE VectorsOf(jobs[j].read) # {}
    BY <1>1, <2>2 DEF Runs
  <2> QED
    BY <2>1, <2>2
<1>4. UNCHANGED <<kind, raw, documents, chunks, edits>>
  BY DEF Embed
<1> HIDE DEF job
<1> QED
  BY <1>2, <1>3, <1>4, StoreKept, JobStep

\* The transaction of a run.
LEMMA CommitStep ==
    ASSUME IngestionInv, NEW j \in Jobs, Commit(j)
    PROVE  IngestionInv'
<1> DEFINE read == jobs[j].read
<1>1. /\ kind \in Kinds /\ IsRead(read)
      /\ jobs' = [jobs EXCEPT ![j] = Idle]
      /\ UNCHANGED <<kind, raw, edits>>
  BY DEF Commit, IngestionInv, IngestionTyped, ReadsAreLegible
<1>2. PICK vectors \in IF jobs[j].embedded THEN VectorsOf(read) ELSE {<< >>} :
         Save(read, vectors)
  BY DEF Commit
<1> HIDE DEF read
<1>3. vectors \in {<< >>, Vectors(read)}
  BY <1>1, <1>2, VectorsAre
<1>4. /\ RowsSound' /\ DOMAIN chunks' = Files
      /\ (DOMAIN documents \subseteq Files)'
      /\ (documents \in [DOMAIN documents -> Normalized])'
  BY <1>1, <1>2, <1>3, SaveSound
<1> QED
  BY <1>1, <1>4, IdleIsRun, JobStep

\* A run is rolled back.
LEMMA AbortStep ==
    ASSUME IngestionInv, NEW j \in Jobs, Abort(j)
    PROVE  IngestionInv'
<1>1. /\ jobs' = [jobs EXCEPT ![j] = Idle]
      /\ UNCHANGED <<kind, raw, documents, chunks, edits>>
  BY DEF Abort
<1> QED
  BY <1>1, StoreKept, IdleIsRun, JobStep

\* Nothing is stored and no run is under way.
LEMMA IngestionInit == Init => IngestionInv
<1> SUFFICES ASSUME Init PROVE IngestionInv
  OBVIOUS
<1>1. << >> \in [DOMAIN << >> -> Normalized] /\ DOMAIN << >> \subseteq Files
  OBVIOUS
<1>2. jobs \in [Jobs -> Runs] /\ \A j \in Jobs : jobs[j] = Idle
  BY IdleIsRun DEF Init
<1>3. IngestionTyped
  BY <1>1, <1>2, IngestionAssumption DEF Init, IngestionTyped
<1>4. ReadsAreLegible
  BY <1>2, IdleIsRun DEF ReadsAreLegible
<1>5. RowsSound
  BY DEF Init, RowsSound, Faithful
<1> QED
  BY <1>3, <1>4, <1>5 DEF IngestionInv

\* The invariant holds: what the scripts store is always whole documents of
\* versions that were read, in rows whose vectors are those of their texts.
THEOREM IngestionIsSound == Spec => []IngestionInv
<1>1. IngestionInv /\ [Next]_vars => IngestionInv'
  <2> SUFFICES ASSUME IngestionInv, [Next]_vars PROVE IngestionInv'
    OBVIOUS
  <2>1. ASSUME NEW f \in Files,
               CollectLaw(f) \/ CollectCase(f) \/ Place(f) \/ Discard(f)
        PROVE  IngestionInv'
    BY <2>1, SourceStep
  <2>2. ASSUME NEW j \in Jobs, NEW arguments \in Arguments,
               Start(j, arguments)
        PROVE  IngestionInv'
    BY <2>2, StartStep
  <2>3. ASSUME NEW j \in Jobs, Choose(j) PROVE IngestionInv'
    BY <2>3, ChooseStep
  <2>4. ASSUME NEW j \in Jobs, Embed(j) PROVE IngestionInv'
    BY <2>4, EmbedStep
  <2>5. ASSUME NEW j \in Jobs, Commit(j) PROVE IngestionInv'
    BY <2>5, CommitStep
  <2>6. ASSUME NEW j \in Jobs, Abort(j) PROVE IngestionInv'
    BY <2>6, AbortStep
  <2>7. CASE UNCHANGED vars
    <3>1. UNCHANGED <<kind, raw, documents, chunks, jobs, edits>>
      BY <2>7 DEF vars
    <3>2. IngestionTyped' /\ ReadsAreLegible'
      BY <3>1, StoreKept DEF IngestionInv, IngestionTyped, ReadsAreLegible,
         IsRead, Runs, Reads
    <3> QED
      BY <3>1, <3>2, StoreKept DEF IngestionInv
  <2> QED
    BY <2>1, <2>2, <2>3, <2>4, <2>5, <2>6, <2>7 DEF Next
<1> QED
  BY <1>1, IngestionInit, PTL DEF Spec

\* Every stored document is what the normalizer of its kind makes of a version
\* of its source, and a run holds versions of files that exist.
THEOREM IngestionTypedAlways == Spec => []IngestionTyped
<1>1. IngestionInv => IngestionTyped
  BY DEF IngestionInv
<1> QED
  BY <1>1, IngestionIsSound, PTL

\* A stored vector was made of the text stored beside it.
THEOREM EmbeddingsMatchTexts == Spec => []EmbeddingMatchesText
<1>1. IngestionInv => EmbeddingMatchesText
  BY RowsSoundIs DEF IngestionInv
<1> QED
  BY <1>1, IngestionIsSound, PTL

\* The chunks of a document are exactly its text.
THEOREM ChunksMatchDocuments == Spec => []ChunksMatchDocument
<1>1. IngestionInv => ChunksMatchDocument
  BY RowsSoundIs DEF IngestionInv
<1> QED
  BY <1>1, IngestionIsSound, PTL

=============================================================================
