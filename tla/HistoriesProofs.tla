-------------------------- MODULE HistoriesProofs --------------------------
(***************************************************************************)
(* What the histories of a user keep, proved for any number of calls.      *)
(* The proofs rest on what Kept selects, which is recursive: its facts are *)
(* proved by induction over sets of numbers and of sequences, since the    *)
(* induction theorems of the library take an operator.                     *)
(***************************************************************************)
EXTENDS Histories, NaturalsInduction, WellFoundedInduction, SequenceTheorems, TLAPS

-----------------------------------------------------------------------------
(* Induction *)

\* A set of numbers that holds 0 and every successor holds them all.
LEMMA NatInduct ==
    ASSUME NEW S, 0 \in S, \A n \in Nat : n \in S => n + 1 \in S
    PROVE  Nat \subseteq S
<1> DEFINE R == OpToRel(<, Nat)
           T == Nat \ S
<1>1. SUFFICES ASSUME T # {} PROVE FALSE
  OBVIOUS
<1>2. IsWellFoundedOn(R, Nat)
  BY NatLessThanWellFounded
<1>3. \A x, y \in Nat : x < y => <<x, y>> \in R
  BY DEF OpToRel
<1> HIDE DEF R
<1>4. PICK x \in T : \A y \in T : <<y, x>> \notin R
  BY <1>1, <1>2, WFMin
<1>5. x # 0 /\ x - 1 \in Nat /\ x = (x - 1) + 1 /\ x - 1 < x
  BY <1>4
<1>6. x - 1 \in S
  BY <1>3, <1>4, <1>5
<1> QED
  BY <1>4, <1>5, <1>6

\* A set that holds the empty sequence and every sequence one element longer
\* than one it holds, holds them all.
LEMMA SeqInduct ==
    ASSUME NEW T, NEW S, << >> \in S,
           \A s \in Seq(T), x \in T : s \in S => Append(s, x) \in S
    PROVE  Seq(T) \subseteq S
<1> DEFINE N == {n \in Nat : \A s \in Seq(T) : Len(s) = n => s \in S}
<1>1. 0 \in N
  <2>1. \A s \in Seq(T) : Len(s) = 0 => s = << >>
    OBVIOUS
  <2> QED
    BY <2>1
<1>2. ASSUME NEW n \in Nat, n \in N PROVE n + 1 \in N
  <2>1. SUFFICES ASSUME NEW s \in Seq(T), Len(s) = n + 1 PROVE s \in S
    OBVIOUS
  <2> DEFINE front == SubSeq(s, 1, n)
  <2>2. front \in Seq(T) /\ Len(front) = n /\ s[n + 1] \in T
    BY <2>1
  <2>3. s = Append(front, s[n + 1])
    BY <2>1, <2>2
  <2>4. front \in S
    BY <1>2, <2>2
  <2> HIDE DEF front
  <2> QED
    BY <2>2, <2>3, <2>4
<1>3. Nat \subseteq N
  <2> HIDE DEF N
  <2> QED
    BY <1>1, <1>2, NatInduct
<1> QED
  BY <1>3

-----------------------------------------------------------------------------
(* Kept *)

\* The values that the recursion of Kept goes through.
Selects(s, S, f) ==
    f = [n \in 0..Len(s) |->
            IF n = 0 THEN << >>
            ELSE IF s[n] \in S THEN Append(f[n - 1], s[n])
            ELSE f[n - 1]]

\* They exist, ...
LEMMA SelectsExists ==
    ASSUME NEW T, NEW S, NEW s \in Seq(T)
    PROVE  \E f : Selects(s, S, f)
<1> DEFINE P == {q \in Seq(T) : \E f : Selects(q, S, f)}
<1>1. << >> \in P
  <2>1. Selects(<< >>, S, [n \in 0..0 |-> << >>])
    BY DEF Selects
  <2> QED
    BY <2>1
<1>2. ASSUME NEW q \in Seq(T), NEW x \in T, q \in P
      PROVE  Append(q, x) \in P
  <2>1. PICK f : Selects(q, S, f)
    BY <1>2
  <2> DEFINE m == Len(q)
             e == Append(q, x)
             g == [n \in 0..m + 1 |-> IF n <= m THEN f[n]
                     ELSE IF x \in S THEN Append(f[m], x) ELSE f[m]]
  <2>2. /\ m \in Nat /\ e \in Seq(T) /\ Len(e) = m + 1 /\ e[m + 1] = x
        /\ \A n \in 1..m : e[n] = q[n]
    OBVIOUS
  <2>3. \A n \in 0..m : f[n] = IF n = 0 THEN << >>
            ELSE IF q[n] \in S THEN Append(f[n - 1], q[n]) ELSE f[n - 1]
    BY <2>1 DEF Selects
  <2>4. \A n \in 0..m + 1 : g[n] = IF n = 0 THEN << >>
            ELSE IF e[n] \in S THEN Append(g[n - 1], e[n]) ELSE g[n - 1]
    <3> HIDE DEF m, e
    <3>1. g[0] = << >>
      BY <2>2, <2>3
    <3>2. ASSUME NEW n \in 1..m
          PROVE  g[n] = IF e[n] \in S THEN Append(g[n - 1], e[n]) ELSE g[n - 1]
      <4>1. g[n] = f[n] /\ g[n - 1] = f[n - 1] /\ e[n] = q[n] /\ n # 0
        BY <2>2
      <4> QED
        BY <2>3, <4>1
    <3>3. g[m + 1] = IF e[m + 1] \in S THEN Append(g[m], e[m + 1]) ELSE g[m]
      BY <2>2
    <3>4. /\ \A n \in 0..m + 1 : n = 0 \/ n \in 1..m \/ n = m + 1
          /\ (m + 1) - 1 = m /\ m + 1 # 0 /\ 0 \notin 1..m
      BY <2>2
    <3> HIDE DEF g
    <3> QED
      BY <3>1, <3>2, <3>3, <3>4
  <2>5. g = [n \in 0..Len(e) |->
               IF n = 0 THEN << >>
               ELSE IF e[n] \in S THEN Append(g[n - 1], e[n]) ELSE g[n - 1]]
    <3> HIDE DEF e
    <3>1. DOMAIN g = 0..Len(e)
      BY <2>2
    <3>2. g = [n \in 0..Len(e) |-> g[n]]
      BY <3>1, <2>2
    <3> HIDE DEF g
    <3> QED
      BY <2>2, <2>4, <3>2
  <2>6. Selects(e, S, g)
    <3> HIDE DEF g, e
    <3> QED
      BY <2>5 DEF Selects
  <2> QED
    BY <2>2, <2>6
<1>3. Seq(T) \subseteq P
  <2> HIDE DEF P
  <2> QED
    BY <1>1, <1>2, SeqInduct
<1> QED
  BY <1>3

\* ... and those of a sequence agree with those of a longer one.
LEMMA SelectsAgree ==
    ASSUME NEW T, NEW S, NEW s \in Seq(T), NEW e \in Seq(T),
           Len(s) <= Len(e), \A n \in 1..Len(s) : s[n] = e[n],
           NEW f, Selects(s, S, f), NEW g, Selects(e, S, g)
    PROVE  f[Len(s)] = g[Len(s)]
<1> DEFINE N == {n \in Nat : n <= Len(s) => f[n] = g[n]}
<1>1. \A n \in 0..Len(s) : f[n] = IF n = 0 THEN << >>
          ELSE IF s[n] \in S THEN Append(f[n - 1], s[n]) ELSE f[n - 1]
  BY DEF Selects
<1>2. \A n \in 0..Len(e) : g[n] = IF n = 0 THEN << >>
          ELSE IF e[n] \in S THEN Append(g[n - 1], e[n]) ELSE g[n - 1]
  BY DEF Selects
<1>3. 0 \in N
  <2>1. 0 \in 0..Len(s) /\ 0 \in 0..Len(e)
    OBVIOUS
  <2> QED
    BY <1>1, <1>2, <2>1
<1>4. ASSUME NEW n \in Nat, n \in N PROVE n + 1 \in N
  <2>1. SUFFICES ASSUME n + 1 <= Len(s) PROVE f[n + 1] = g[n + 1]
    OBVIOUS
  <2>2. /\ n + 1 \in 0..Len(s) /\ n + 1 \in 0..Len(e) /\ n + 1 # 0
        /\ (n + 1) - 1 = n /\ s[n + 1] = e[n + 1] /\ f[n] = g[n]
    BY <1>4, <2>1
  <2> QED
    BY <1>1, <1>2, <2>2
<1>5. Nat \subseteq N
  <2> HIDE DEF N
  <2> QED
    BY <1>3, <1>4, NatInduct
<1> QED
  BY <1>5

\* Kept is the last of them.
LEMMA KeptSelects ==
    ASSUME NEW T, NEW S, NEW s \in Seq(T)
    PROVE  \E f : Selects(s, S, f) /\ Kept(s, S) = f[Len(s)]
<1> DEFINE f == CHOOSE f : Selects(s, S, f)
<1>1. Selects(s, S, f)
  BY SelectsExists
<1>2. Kept(s, S) = f[Len(s)]
  BY DEF Kept, Selects
<1> QED
  BY <1>1, <1>2

\* Nothing is selected from nothing.
LEMMA KeptEmpty ==
    ASSUME NEW S
    PROVE  Kept(<< >>, S) = << >>
<1>1. << >> \in Seq({}) /\ Len(<< >>) = 0
  OBVIOUS
<1>2. PICK f : Selects(<< >>, S, f) /\ Kept(<< >>, S) = f[0]
  BY <1>1, KeptSelects
<1> QED
  BY <1>1, <1>2 DEF Selects

\* A longer sequence adds its last element if it is selected.
LEMMA KeptAppend ==
    ASSUME NEW T, NEW S, NEW s \in Seq(T), NEW x \in T
    PROVE  Kept(Append(s, x), S) =
              IF x \in S THEN Append(Kept(s, S), x) ELSE Kept(s, S)
<1> DEFINE e == Append(s, x)
<1>1. /\ e \in Seq(T) /\ Len(s) \in Nat /\ Len(e) = Len(s) + 1
      /\ e[Len(e)] = x /\ \A n \in 1..Len(s) : s[n] = e[n]
  OBVIOUS
<1> HIDE DEF e
<1>2. PICK f : Selects(s, S, f) /\ Kept(s, S) = f[Len(s)]
  BY KeptSelects
<1>3. PICK g : Selects(e, S, g) /\ Kept(e, S) = g[Len(e)]
  BY <1>1, KeptSelects
<1>4. f[Len(s)] = g[Len(s)]
  BY <1>1, <1>2, <1>3, SelectsAgree
<1>5. g[Len(e)] = IF x \in S THEN Append(g[Len(s)], x) ELSE g[Len(s)]
  <2>1. \A n \in 0..Len(e) : g[n] = IF n = 0 THEN << >>
            ELSE IF e[n] \in S THEN Append(g[n - 1], e[n]) ELSE g[n - 1]
    BY <1>3 DEF Selects
  <2>2. Len(e) \in 0..Len(e) /\ Len(e) # 0 /\ Len(e) - 1 = Len(s)
    BY <1>1
  <2> QED
    BY <1>1, <2>1, <2>2
<1> QED
  BY <1>2, <1>3, <1>4, <1>5 DEF e

\* It selects, of the elements there are, those in the set, and all of them.
LEMMA KeptElements ==
    ASSUME NEW T, NEW S, NEW s \in Seq(T)
    PROVE  /\ Kept(s, S) \in Seq(T)
           /\ \A i \in 1..Len(s) : s[i] \in S =>
                 \E j \in 1..Len(Kept(s, S)) : Kept(s, S)[j] = s[i]
           /\ \A j \in 1..Len(Kept(s, S)) :
                 /\ Kept(s, S)[j] \in S
                 /\ \E i \in 1..Len(s) : s[i] = Kept(s, S)[j]
<1> DEFINE Good(q, k) ==
              /\ k \in Seq(T)
              /\ \A i \in 1..Len(q) : q[i] \in S =>
                    \E j \in 1..Len(k) : k[j] = q[i]
              /\ \A j \in 1..Len(k) :
                    k[j] \in S /\ \E i \in 1..Len(q) : q[i] = k[j]
           P == {q \in Seq(T) : Good(q, Kept(q, S))}
<1>1. << >> \in P
  <2>1. Good(<< >>, << >>) /\ << >> \in Seq(T)
    OBVIOUS
  <2> HIDE DEF Good
  <2> QED
    BY <2>1, KeptEmpty
<1>2. ASSUME NEW q \in Seq(T), NEW x \in T, q \in P
      PROVE  Append(q, x) \in P
  <2> DEFINE e == Append(q, x)
  <2>1. ASSUME NEW k, Good(q, k), x \in S PROVE Good(e, Append(k, x))
    <3> DEFINE l == Append(k, x)
    <3>1. /\ e \in Seq(T) /\ Len(e) = Len(q) + 1 /\ e[Len(e)] = x
          /\ \A i \in 1..Len(q) : e[i] = q[i]
      OBVIOUS
    <3>2. /\ l \in Seq(T) /\ Len(l) = Len(k) + 1 /\ l[Len(l)] = x
          /\ \A i \in 1..Len(k) : l[i] = k[i]
      BY <2>1
    <3> HIDE DEF e, l
    <3>3. Len(q) \in Nat /\ Len(k) \in Nat
      BY <2>1
    <3>4. ASSUME NEW i \in 1..Len(e), e[i] \in S
          PROVE  \E j \in 1..Len(l) : l[j] = e[i]
      <4>1. CASE i = Len(e)
        BY <3>1, <3>2, <3>3, <4>1
      <4>2. CASE i # Len(e)
        <5>1. i \in 1..Len(q) /\ q[i] = e[i]
          BY <3>1, <3>3, <4>2
        <5>2. PICK j \in 1..Len(k) : k[j] = q[i]
          BY <2>1, <3>4, <5>1
        <5>3. j \in 1..Len(l) /\ l[j] = e[i]
          BY <3>2, <3>3, <5>1, <5>2
        <5> QED
          BY <5>3
      <4> QED
        BY <4>1, <4>2
    <3>5. ASSUME NEW j \in 1..Len(l)
          PROVE  l[j] \in S /\ \E i \in 1..Len(e) : e[i] = l[j]
      <4>1. CASE j = Len(l)
        BY <2>1, <3>1, <3>2, <3>3, <4>1
      <4>2. CASE j # Len(l)
        <5>1. j \in 1..Len(k) /\ l[j] = k[j]
          BY <3>2, <3>3, <4>2
        <5>2. k[j] \in S /\ \E i \in 1..Len(q) : q[i] = k[j]
          BY <2>1, <5>1
        <5>3. \A i \in 1..Len(q) : i \in 1..Len(e) /\ e[i] = q[i]
          BY <3>1, <3>3
        <5> QED
          BY <5>1, <5>2, <5>3
      <4> QED
        BY <4>1, <4>2
    <3> QED
      BY <3>2, <3>4, <3>5 DEF l
  <2>2. ASSUME NEW k, Good(q, k), x \notin S PROVE Good(e, k)
    <3>1. /\ e \in Seq(T) /\ Len(e) = Len(q) + 1 /\ e[Len(e)] = x
          /\ \A i \in 1..Len(q) : e[i] = q[i]
      OBVIOUS
    <3> HIDE DEF e
    <3>2. Len(q) \in Nat
      OBVIOUS
    <3>3. \A i \in 1..Len(q) : i \in 1..Len(e) /\ e[i] = q[i]
      BY <3>1, <3>2
    <3>4. \A i \in 1..Len(e) : e[i] \in S => i \in 1..Len(q)
      BY <2>2, <3>1, <3>2
    <3> QED
      BY <2>2, <3>3, <3>4
  <2>3. e \in Seq(T)
    OBVIOUS
  <2>4. Good(q, Kept(q, S))
    BY <1>2
  <2>5. Kept(e, S) = IF x \in S THEN Append(Kept(q, S), x) ELSE Kept(q, S)
    BY KeptAppend
  <2> HIDE DEF Good, e
  <2>6. Good(e, Kept(e, S))
    BY <2>1, <2>2, <2>4, <2>5
  <2> QED
    BY <2>3, <2>6 DEF e
<1>3. Seq(T) \subseteq P
  <2> HIDE DEF P
  <2> QED
    BY <1>1, <1>2, SeqInduct
<1> QED
  BY <1>3

\* Nothing is selected where there is nothing to select.
LEMMA KeptNone ==
    ASSUME NEW T, NEW S, NEW s \in Seq(T),
           \A i \in 1..Len(s) : s[i] \notin S
    PROVE  Kept(s, S) = << >>
<1> DEFINE k == Kept(s, S)
<1>1. /\ k \in Seq(T)
      /\ \A j \in 1..Len(k) : k[j] \in S /\ \E i \in 1..Len(s) : s[i] = k[j]
  BY KeptElements
<1> HIDE DEF k
<1>2. ~ 1 \in 1..Len(k)
  BY <1>1
<1>3. Len(k) \in Nat
  BY <1>1
<1>4. Len(k) = 0
  BY <1>2, <1>3
<1> QED
  BY <1>1, <1>4 DEF k

\* The selection from two sequences, one after the other.
LEMMA KeptConcat ==
    ASSUME NEW T, NEW S, NEW s \in Seq(T), NEW t \in Seq(T)
    PROVE  Kept(s \o t, S) = Kept(s, S) \o Kept(t, S)
<1> DEFINE P == {q \in Seq(T) : Kept(s \o q, S) = Kept(s, S) \o Kept(q, S)}
<1>1. << >> \in P
  <2>1. s \o << >> = s /\ << >> \in Seq(T)
    OBVIOUS
  <2>2. Kept(s, S) \in Seq(T)
    BY KeptElements
  <2>3. Kept(s, S) \o << >> = Kept(s, S)
    BY <2>2
  <2> QED
    BY <2>1, <2>3, KeptEmpty
<1>2. ASSUME NEW q \in Seq(T), NEW x \in T, q \in P
      PROVE  Append(q, x) \in P
  <2>1. /\ Append(q, x) \in Seq(T) /\ s \o q \in Seq(T)
        /\ s \o Append(q, x) = Append(s \o q, x)
    OBVIOUS
  <2>2. Kept(s, S) \in Seq(T) /\ Kept(q, S) \in Seq(T)
    BY KeptElements
  <2>3. Kept(s, S) \o Append(Kept(q, S), x) = Append(Kept(s, S) \o Kept(q, S), x)
    BY <2>2
  <2>4. Kept(s \o q, S) = Kept(s, S) \o Kept(q, S)
    BY <1>2
  <2>5. Kept(Append(s \o q, x), S) = Kept(s, S) \o Kept(Append(q, x), S)
    <3>1. Kept(Append(q, x), S) =
             IF x \in S THEN Append(Kept(q, S), x) ELSE Kept(q, S)
      BY KeptAppend
    <3> DEFINE sq == s \o q
    <3>2. sq \in Seq(T)
      OBVIOUS
    <3> HIDE DEF sq
    <3>3. Kept(Append(sq, x), S) =
             IF x \in S THEN Append(Kept(sq, S), x) ELSE Kept(sq, S)
      BY <3>2, KeptAppend
    <3> QED
      BY <2>3, <2>4, <3>1, <3>3 DEF sq
  <2> QED
    BY <2>1, <2>5
<1>3. Seq(T) \subseteq P
  <2> HIDE DEF P
  <2> QED
    BY <1>1, <1>2, SeqInduct
<1> QED
  BY <1>3

\* To select from a selection that has them all is to select at once.
LEMMA KeptKept ==
    ASSUME NEW T, NEW S, NEW W, \A x \in T : x \in S => x \in W,
           NEW s \in Seq(T)
    PROVE  Kept(Kept(s, W), S) = Kept(s, S)
<1> DEFINE P == {q \in Seq(T) : Kept(Kept(q, W), S) = Kept(q, S)}
<1>1. << >> \in P
  <2>1. << >> \in Seq(T)
    OBVIOUS
  <2> QED
    BY <2>1, KeptEmpty
<1>2. ASSUME NEW q \in Seq(T), NEW x \in T, q \in P
      PROVE  Append(q, x) \in P
  <2>1. Append(q, x) \in Seq(T)
    OBVIOUS
  <2>2. Kept(q, W) \in Seq(T)
    BY KeptElements
  <2>3. Kept(Kept(q, W), S) = Kept(q, S)
    BY <1>2
  <2>4. Kept(Kept(Append(q, x), W), S) = Kept(Append(q, x), S)
    <3>1. CASE x \in W
      <4>1. Kept(Append(q, x), W) = Append(Kept(q, W), x)
        BY <3>1, KeptAppend
      <4>2. Kept(Append(Kept(q, W), x), S) =
              IF x \in S THEN Append(Kept(q, S), x) ELSE Kept(q, S)
        BY <2>2, <2>3, KeptAppend
      <4> QED
        BY <4>1, <4>2, KeptAppend
    <3>2. CASE x \notin W
      <4>1. Kept(Append(q, x), W) = Kept(q, W) /\ Kept(Append(q, x), S) = Kept(q, S)
        BY <3>2, KeptAppend
      <4> QED
        BY <2>3, <4>1
    <3> QED
      BY <3>1, <3>2
  <2> QED
    BY <2>1, <2>4
<1>3. Seq(T) \subseteq P
  <2> HIDE DEF P
  <2> QED
    BY <1>1, <1>2, SeqInduct
<1> QED
  BY <1>3

-----------------------------------------------------------------------------
(* The temporary history of a guest *)

SaveRecords ==
    [at: {"idle", "get", "eval", "saved", "contended", "failed"},
     run: Runs, attempt: Nat, base: Seq(Records)]

GuestTyped ==
    /\ stored \in Seq(Records)
    /\ saves \in [Savers -> SaveRecords]
    /\ late \subseteq [record: Records, base: Seq(Records)]
    /\ reported \subseteq Records

GuestInv ==
    /\ GuestTyped
    /\ ReportedIsKept

\* What putting a record in front makes of a list.
LEMMA PrependedFacts ==
    ASSUME NEW record \in Records, NEW base \in Seq(Records)
    PROVE  /\ Prepended(record, base) \in Seq(Records)
           /\ Len(Prepended(record, base)) > 0
           /\ Head(Prepended(record, base)) = record
           /\ Tail(Prepended(record, base)) =
                 Kept(base, OfOtherRuns(record.run))
           /\ \A i \in 1..Len(base) :
                 \E j \in 1..Len(Prepended(record, base)) :
                    Prepended(record, base)[j].run = base[i].run
<1> DEFINE rest == Kept(base, OfOtherRuns(record.run))
           all  == <<record>> \o rest
<1>1. /\ rest \in Seq(Records)
      /\ \A i \in 1..Len(base) : base[i] \in OfOtherRuns(record.run) =>
            \E j \in 1..Len(rest) : rest[j] = base[i]
  BY KeptElements
<1> HIDE DEF rest
<1>2. /\ all \in Seq(Records) /\ Len(all) = Len(rest) + 1
      /\ all[1] = record /\ \A j \in 1..Len(rest) : all[j + 1] = rest[j]
  BY <1>1
<1>3. Head(all) = record /\ Tail(all) = rest
  BY <1>1
<1>4. ASSUME NEW i \in 1..Len(base)
      PROVE  \E j \in 1..Len(all) : all[j].run = base[i].run
  <2> HIDE DEF all
  <2>1. Len(rest) \in Nat /\ base[i] \in Records
    BY <1>1
  <2>2. CASE base[i].run = record.run
    BY <1>2, <2>1, <2>2
  <2>3. CASE base[i].run # record.run
    <3>1. PICK j \in 1..Len(rest) : rest[j] = base[i]
      BY <1>1, <2>1, <2>3 DEF OfOtherRuns
    <3>2. j + 1 \in 1..Len(all) /\ all[j + 1] = base[i]
      BY <1>2, <2>1, <3>1
    <3> QED
      BY <3>2
  <2> QED
    BY <2>2, <2>3
<1>5. Prepended(record, base) = all
  BY DEF Prepended, rest
<1>6. Len(all) > 0
  BY <1>1, <1>2
<1> HIDE DEF all
<1> QED
  BY <1>2, <1>3, <1>4, <1>5, <1>6 DEF rest

\* A script keeps the lists' type and every run that was there, and either
\* changes nothing or puts its record in front.
LEMMA ScriptFacts ==
    ASSUME GuestTyped, NEW record \in Records, NEW base \in Seq(Records),
           Script(record, base)
    PROVE  /\ stored' \in Seq(Records)
           /\ \A i \in DOMAIN stored :
                 \E j \in DOMAIN stored' : stored'[j].run = stored[i].run
           /\ Unchanged(base) =>
                 \E j \in DOMAIN stored' : stored'[j].run = record.run
           /\ stored' # stored => stored' = Prepended(record, stored)
<1>1. stored \in Seq(Records)
  BY DEF GuestTyped
<1>2. CASE Unchanged(base)
  <2> DEFINE new == Prepended(record, stored)
  <2>1. stored' = new
    BY <1>2 DEF Script, Unchanged
  <2>2. /\ new \in Seq(Records) /\ Len(new) > 0 /\ Head(new) = record
        /\ \A i \in 1..Len(stored) :
              \E j \in 1..Len(new) : new[j].run = stored[i].run
    BY <1>1, PrependedFacts
  <2> HIDE DEF new
  <2>3. 1 \in DOMAIN new /\ new[1].run = record.run
    BY <2>2
  <2>4. DOMAIN stored = 1..Len(stored) /\ DOMAIN new = 1..Len(new)
    BY <1>1, <2>2
  <2> QED
    BY <2>1, <2>2, <2>3, <2>4 DEF new
<1>3. CASE ~Unchanged(base)
  BY <1>1, <1>3 DEF Script
<1> QED
  BY <1>2, <1>3

\* Whoever sends a script sends a record of the guest and a list of them.
LEMMA SavesTyped ==
    ASSUME GuestTyped, NEW s \in Savers
    PROVE  /\ RecordOf(s) \in Records
           /\ saves[s].base \in Seq(Records)
           /\ saves[s].attempt \in Nat
BY DEF GuestTyped, SaveRecords, RecordOf, Records

\* A call that goes on keeps its type.
LEMMA GotoTyped ==
    ASSUME GuestTyped, NEW s \in Savers,
           NEW position \in {"get", "eval", "saved", "contended", "failed"},
           Goto(s, position)
    PROVE  saves' \in [Savers -> SaveRecords]
<1>1. saves[s] \in SaveRecords /\ saves \in [Savers -> SaveRecords]
  BY DEF GuestTyped
<1>2. [saves[s] EXCEPT !.at = position] \in SaveRecords
  BY <1>1 DEF SaveRecords
<1>3. saves' = [saves EXCEPT ![s] = [saves[s] EXCEPT !.at = position]]
  BY <1>1 DEF Goto
<1> HIDE DEF SaveRecords
<1> QED
  BY <1>1, <1>2, <1>3

\* A guest's save that tries again is still a save.
LEMMA RetryTyped ==
    ASSUME GuestTyped, NEW s \in Savers, Retry(s)
    PROVE  saves' \in [Savers -> SaveRecords]
<1>1. CASE Goto(s, "contended")
  BY <1>1, GotoTyped
<1>2. CASE saves' = [saves EXCEPT ![s].at = "get", ![s].attempt = @ + 1,
                                  ![s].base = << >>]
  <2>1. saves[s] \in SaveRecords /\ saves \in [Savers -> SaveRecords]
    BY DEF GuestTyped
  <2> DEFINE again  == [saves[s] EXCEPT !.at = "get"]
             second == [again EXCEPT !.attempt = saves[s].attempt + 1]
             empty  == [second EXCEPT !.base = << >>]
  <2>2. again \in SaveRecords /\ saves[s].attempt + 1 \in Nat
    BY <2>1 DEF SaveRecords
  <2>3. saves' = [saves EXCEPT ![s] = empty]
    BY <1>2, <2>1
  <2> HIDE DEF again
  <2>4. second \in SaveRecords
    BY <2>2 DEF SaveRecords
  <2> HIDE DEF second
  <2>5. << >> \in Seq(Records)
    OBVIOUS
  <2>6. empty \in SaveRecords
    BY <2>4, <2>5 DEF SaveRecords
  <2> HIDE DEF empty
  <2> QED
    BY <2>1, <2>3, <2>6
<1> QED
  BY <1>1, <1>2 DEF Retry

\* Every step of a guest's calls keeps what was reported.
LEMMA GuestStep ==
    ASSUME GuestInv, Next
    PROVE  GuestInv'
<1> USE DEF GuestInv
<1>1. ASSUME NEW s \in Savers, Begin(s) PROVE GuestInv'
  <2>1. saves' \in [Savers -> SaveRecords]
    BY <1>1, GotoTyped DEF Begin
  <2> QED
    BY <1>1, <2>1 DEF GuestTyped, ReportedIsKept, Begin
<1>2. ASSUME NEW s \in Savers, Read(s) PROVE GuestInv'
  <2> DEFINE new == [saves[s] EXCEPT !.at = "eval", !.base = stored]
  <2>1. saves[s] \in SaveRecords /\ saves \in [Savers -> SaveRecords]
    BY DEF GuestTyped
  <2>2. new \in SaveRecords
    BY <2>1 DEF SaveRecords, GuestTyped
  <2>3. saves' = [saves EXCEPT ![s] = new]
    BY <1>2, <2>1 DEF Read
  <2> HIDE DEF new
  <2>4. saves' \in [Savers -> SaveRecords]
    BY <2>1, <2>2, <2>3
  <2> QED
    BY <1>2, <2>4 DEF GuestTyped, ReportedIsKept, Read
<1>3. ASSUME NEW s \in Savers, Save(s) PROVE GuestInv'
  <2> DEFINE base == saves[s].base
  <2>1. RecordOf(s) \in Records /\ base \in Seq(Records)
        /\ saves[s].attempt \in Nat
    BY SavesTyped
  <2>2. Script(RecordOf(s), base)
    BY <1>3 DEF Save
  <2>3. /\ stored' \in Seq(Records)
        /\ \A i \in DOMAIN stored :
              \E j \in DOMAIN stored' : stored'[j].run = stored[i].run
        /\ Unchanged(base) =>
              \E j \in DOMAIN stored' : stored'[j].run = RecordOf(s).run
    BY <2>1, <2>2, ScriptFacts
  <2>4. /\ late' = late
        /\ \/ reported' = reported
           \/ /\ Unchanged(base)
              /\ reported' = reported \cup {RecordOf(s)}
    BY <1>3 DEF Save
  <2>5. saves' \in [Savers -> SaveRecords]
    BY <1>3, GotoTyped, RetryTyped DEF Save
  <2>6. GuestTyped'
    BY <2>1, <2>3, <2>4, <2>5 DEF GuestTyped
  <2>7. ReportedIsKept'
    BY <2>3, <2>4 DEF ReportedIsKept
  <2> QED
    BY <2>6, <2>7
<1>4. ASSUME NEW s \in Savers, SaveUnanswered(s) PROVE GuestInv'
  <2>1. RecordOf(s) \in Records /\ saves[s].base \in Seq(Records)
    BY SavesTyped
  <2>2. Script(RecordOf(s), saves[s].base) /\ UNCHANGED <<saves, late, reported>>
    BY <1>4 DEF SaveUnanswered
  <2>3. /\ stored' \in Seq(Records)
        /\ \A i \in DOMAIN stored :
              \E j \in DOMAIN stored' : stored'[j].run = stored[i].run
    BY <2>1, <2>2, ScriptFacts
  <2> QED
    BY <2>2, <2>3 DEF GuestTyped, ReportedIsKept
<1>5. ASSUME NEW s \in Savers, Fail(s) PROVE GuestInv'
  <2>1. RecordOf(s) \in Records /\ saves[s].base \in Seq(Records)
    BY SavesTyped
  <2>2. saves' \in [Savers -> SaveRecords]
    BY <1>5, GotoTyped DEF Fail
  <2>3. late' \subseteq [record: Records, base: Seq(Records)]
    BY <1>5, <2>1 DEF Fail, GuestTyped
  <2> QED
    BY <1>5, <2>2, <2>3 DEF GuestTyped, ReportedIsKept, Fail
<1>6. ASSUME NEW e \in late, LateScript(e) PROVE GuestInv'
  <2>1. e.record \in Records /\ e.base \in Seq(Records)
    BY DEF GuestTyped
  <2>2. Script(e.record, e.base)
    BY <1>6 DEF LateScript
  <2>3. /\ stored' \in Seq(Records)
        /\ \A i \in DOMAIN stored :
              \E j \in DOMAIN stored' : stored'[j].run = stored[i].run
    BY <2>1, <2>2, ScriptFacts
  <2> QED
    BY <1>6, <2>3 DEF GuestTyped, ReportedIsKept, LateScript
<1>7. CASE Clear
  BY <1>7 DEF GuestTyped, ReportedIsKept, Clear
<1>8. CASE Expire
  BY <1>8 DEF GuestTyped, ReportedIsKept, Expire
<1> QED
  BY <1>1, <1>2, <1>3, <1>4, <1>5, <1>6, <1>7, <1>8 DEF Next

\* Every step changes the list as one save, or one emptying, at once.
LEMMA GuestStepIsAtomic ==
    ASSUME GuestTyped, Next, stored' \notin {stored, << >>}
    PROVE  Tail(stored') = Kept(stored, OfOtherRuns(Head(stored').run))
<1>1. PICK record \in Records, base \in Seq(Records) : Script(record, base)
  <2>1. ASSUME NEW s \in Savers, Save(s) \/ SaveUnanswered(s)
        PROVE  \E record \in Records, base \in Seq(Records) : Script(record, base)
    BY <2>1, SavesTyped DEF Save, SaveUnanswered
  <2>2. ASSUME NEW e \in late, LateScript(e)
        PROVE  \E record \in Records, base \in Seq(Records) : Script(record, base)
    BY <2>2 DEF LateScript, GuestTyped
  <2>3. ASSUME NEW s \in Savers, Begin(s) \/ Read(s) \/ Fail(s)
        PROVE  stored' = stored
    BY <2>3 DEF Begin, Read, Fail
  <2>4. Clear \/ Expire => stored' = << >>
    BY DEF Clear, Expire
  <2> QED
    BY <2>1, <2>2, <2>3, <2>4 DEF Next
<1>2. stored' = Prepended(record, stored) /\ stored \in Seq(Records)
  BY <1>1, ScriptFacts DEF GuestTyped
<1> QED
  BY <1>2, PrependedFacts

\* The invariant of the guest's history.
LEMMA GuestInvariant == HistorySpec => []GuestInv
<1>1. HistoryInit => GuestInv
  <2> SUFFICES ASSUME Init PROVE GuestInv
    BY DEF HistoryInit, GuestIdle
  <2>1. saves \in [Savers -> SaveRecords]
    <3>1. 1 \in Nat /\ << >> \in Seq(Records)
      OBVIOUS
    <3>2. [at: {"idle"}, run: Runs, attempt: {1}, base: {<< >>}]
             \subseteq SaveRecords
      BY <3>1 DEF SaveRecords
    <3> QED
      BY <3>2 DEF Init
  <2> QED
    BY <2>1 DEF Init, GuestInv, GuestTyped, ReportedIsKept
<1>2. GuestInv /\ [HistoryNext]_allVars => GuestInv'
  <2> SUFFICES ASSUME GuestInv, [HistoryNext]_allVars PROVE GuestInv'
    OBVIOUS
  <2>1. CASE Next
    BY <2>1, GuestStep
  <2>2. CASE UNCHANGED vars
    BY <2>2 DEF vars, GuestInv, GuestTyped, ReportedIsKept
  <2> QED
    BY <2>1, <2>2 DEF HistoryNext, allVars
<1> QED
  BY <1>1, <1>2, PTL DEF HistorySpec

\* A reported save stays in the history until it is cleared or expires,
\* whatever calls of whatever processes overlap.
THEOREM ReportedSavesAreKept == HistorySpec => []ReportedIsKept
<1>1. GuestInv => ReportedIsKept
  BY DEF GuestInv
<1> QED
  BY <1>1, GuestInvariant, PTL

\* The list of a guest changes in whole saves only.
THEOREM UpdatesAreAtomic == HistorySpec => AtomicUpdates
<1>1. GuestInv /\ [HistoryNext]_allVars =>
         [stored' \notin {stored, << >>} =>
            Tail(stored') = Kept(stored, OfOtherRuns(Head(stored').run))]_vars
  <2> SUFFICES ASSUME GuestInv, [HistoryNext]_allVars,
                      stored' \notin {stored, << >>}
               PROVE  Tail(stored') =
                         Kept(stored, OfOtherRuns(Head(stored').run))
    OBVIOUS
  <2>1. Next
    BY DEF HistoryNext, allVars, vars
  <2> QED
    BY <2>1, GuestStepIsAtomic DEF GuestInv
<1> QED
  BY <1>1, GuestInvariant, PTL DEF HistorySpec, AtomicUpdates

-----------------------------------------------------------------------------
(* The saved history of members *)

Rows == [id: 1..MaxId, owner: Members, category: {"analysis", "legal_terms"}]

CallRecords ==
    [at: {"idle", "acquire", "first", "second", "commit", "analysing",
          "shown", "done", "refused"},
     does: {"nothing", "context", "open", "delete", "save"},
     by: Members \cup {"none"},
     key: Answers \cup {"none"},
     id: 0..MaxId,
     row: Rows \cup {NoRow},
     got: Seq(Lines)]

MemberTyped ==
    /\ DOMAIN rows \subseteq Answers
    /\ rows \in [DOMAIN rows -> Rows]
    /\ lines \in Seq(Lines)
    /\ lastId \in 0..MaxId
    /\ calls \in [Callers -> CallRecords]

\* No two conversations have the same id, and none an id to come.
OwnIds ==
    /\ \A k \in DOMAIN rows : rows[k].id <= lastId
    /\ \A k, l \in DOMAIN rows : rows[k].id = rows[l].id => k = l

\* What a caller has in hand agrees with what it does: a transaction with a
\* row is about to commit it, for the member who asked, and what was read is
\* this member's.
Consistent(c, call) ==
    /\ call.does \in {"context", "save"} =>
          call.key \in Answers /\ call.by = Author[call.key]
    /\ call.at = "analysing" => call.does = "context"
    /\ call.row # NoRow <=> call.at = "commit"
    /\ call.at = "commit" => /\ call.does = "save"
                             /\ call.row.owner = call.by
                             /\ call.row.id <= lastId
    /\ call.at = "second" => call.does \in {"context", "open"}
    /\ call.at \in {"idle", "acquire", "first", "second", "commit"} =>
          call.got = << >>
    /\ \A n \in DOMAIN call.got : Author[call.got[n].key] = call.by
    /\ c \in Analyses /\ call.at = "analysing" /\ call.id # NoId =>
          call.got # << >>

CallsConsistent == \A c \in Callers : Consistent(c, calls[c])

\* The rows of transactions under way are of different answers, have ids of
\* their own, and agree with what is stored.
TransactionsApart ==
    /\ \A c, d \in Callers :
          calls[c].row # NoRow /\ calls[d].row # NoRow /\ c # d =>
             /\ calls[c].key # calls[d].key
             /\ calls[c].row.id # calls[d].row.id
    /\ \A c \in Callers, k \in DOMAIN rows :
          calls[c].row # NoRow =>
             /\ k = calls[c].key => rows[k] = calls[c].row
             /\ k # calls[c].key => rows[k].id # calls[c].row.id

\* Between the two SELECTs the conversation may be deleted, but nobody else
\* gets its id.
NobodyElses(call) ==
    call.at = "second" =>
       /\ call.id <= lastId
       /\ \A k \in DOMAIN rows : rows[k].id = call.id => rows[k].owner = call.by
       /\ \A d \in Callers :
             calls[d].row # NoRow /\ calls[d].row.id = call.id =>
                calls[d].row.owner = call.by

ReadersApart == \A c \in Callers : NobodyElses(calls[c])

MemberInv ==
    /\ MemberTyped
    /\ OwnIds
    /\ CallsConsistent
    /\ TransactionsApart
    /\ ReadersApart
    /\ SavedIsWhole

\* A stored message is of the answer of the conversation it is in.
LEMMA LineOfRow ==
    ASSUME MemberTyped, SavedIsWhole, NEW n \in 1..Len(lines)
    PROVE  /\ lines[n] \in Lines
           /\ lines[n].key \in DOMAIN rows
           /\ rows[lines[n].key].id = lines[n].in
<1>1. lines \in Seq(Lines) /\ lines[n] \in Lines /\ n \in DOMAIN lines
  BY DEF MemberTyped
<1>2. PICK k \in DOMAIN rows : rows[k].id = lines[n].in
  BY <1>1 DEF SavedIsWhole
<1> DEFINE S   == {line \in Lines : line.in = rows[k].id}
           all == Kept(lines, S)
<1>3. all = <<[in |-> rows[k].id, key |-> k, role |-> "user"],
              [in |-> rows[k].id, key |-> k, role |-> "assistant"]>>
  BY DEF SavedIsWhole, LinesOf
<1>4. lines[n] \in S
  BY <1>1, <1>2
<1> HIDE DEF S
<1>5. \E j \in 1..Len(all) : all[j] = lines[n]
  <2>1. lines \in Seq(Lines)
    BY <1>1
  <2>2. /\ all \in Seq(Lines)
        /\ \A i \in 1..Len(lines) : lines[i] \in S =>
              \E j \in 1..Len(all) : all[j] = lines[i]
        /\ \A j \in 1..Len(all) :
              /\ all[j] \in S
              /\ \E i \in 1..Len(lines) : lines[i] = all[j]
    BY <2>1, KeptElements
  <2> QED
    BY <1>4, <2>2
<1> HIDE DEF all
<1>6. lines[n].key = k
  BY <1>3, <1>5
<1> QED
  BY <1>1, <1>2, <1>6

\* The question and the answer of a stored conversation are stored.
LEMMA RowHasLines ==
    ASSUME MemberTyped, SavedIsWhole, NEW k \in DOMAIN rows
    PROVE  \A role_ \in {"user", "assistant"} : \E n \in 1..Len(lines) :
              lines[n].key = k /\ lines[n].role = role_
<1>1. lines \in Seq(Lines)
  BY DEF MemberTyped
<1> DEFINE S   == {line \in Lines : line.in = rows[k].id}
           all == Kept(lines, S)
<1>2. all = <<[in |-> rows[k].id, key |-> k, role |-> "user"],
              [in |-> rows[k].id, key |-> k, role |-> "assistant"]>>
  BY DEF SavedIsWhole, LinesOf
<1> HIDE DEF S
<1>3. \A j \in 1..Len(all) : \E n \in 1..Len(lines) : lines[n] = all[j]
  BY <1>1, KeptElements
<1> HIDE DEF all
<1>4. 1 \in 1..Len(all) /\ 2 \in 1..Len(all)
  BY <1>2
<1>5. /\ all[1].key = k /\ all[1].role = "user"
      /\ all[2].key = k /\ all[2].role = "assistant"
  BY <1>2
<1> QED
  BY <1>3, <1>4, <1>5

\* A step of one caller that opens no transaction and changes nothing stored.
LEMMA CallStep ==
    ASSUME MemberInv, NEW c \in Callers, NEW new \in CallRecords,
           calls' = [calls EXCEPT ![c] = new],
           UNCHANGED <<rows, lines, lastId>>,
           new.row = NoRow, Consistent(c, new), NobodyElses(new)
    PROVE  MemberInv'
<1> USE DEF MemberInv
<1>1. /\ calls \in [Callers -> CallRecords] /\ calls' \in [Callers -> CallRecords]
      /\ calls'[c] = new
      /\ \A d \in Callers : d # c => calls'[d] = calls[d]
  BY DEF MemberTyped
<1>2. MemberTyped'
  BY <1>1 DEF MemberTyped
<1>3. OwnIds'
  BY DEF OwnIds
<1>4. CallsConsistent'
  BY <1>1 DEF CallsConsistent, Consistent
<1>5. \A d \in Callers : calls'[d].row # NoRow => calls'[d] = calls[d] /\ d # c
  BY <1>1
<1>6. TransactionsApart'
  BY <1>5 DEF TransactionsApart
<1>7. ReadersApart'
  <2> SUFFICES ASSUME NEW d \in Callers PROVE NobodyElses(calls[d])'
    BY DEF ReadersApart
  <2>1. NobodyElses(calls'[d])
    BY <1>1 DEF ReadersApart
  <2> QED
    BY <1>5, <2>1 DEF NobodyElses
<1>8. SavedIsWhole'
  BY DEF SavedIsWhole, LinesOf
<1> QED
  BY <1>2, <1>3, <1>4, <1>6, <1>7, <1>8

\* The end of a call leaves nothing in hand.
LEMMA EndFacts ==
    ASSUME MemberTyped, NEW c \in Callers, NEW outcome, End(c, outcome)
    PROVE  \E new \in CallRecords :
              /\ calls' = [calls EXCEPT ![c] = new]
              /\ new.at \in {"refused", "idle", "done"}
              /\ new.does = "nothing" /\ new.row = NoRow /\ new.got = << >>
<1> DEFINE at_ == IF outcome = "refused" THEN "refused"
                  ELSE IF c \in Requests THEN "idle" ELSE "done"
           id_ == IF c \in TermChats THEN calls[c].id ELSE NoId
           new == [at |-> at_, does |-> "nothing", by |-> "none",
                   key |-> "none", id |-> id_, row |-> NoRow, got |-> << >>]
<1>1. at_ \in {"refused", "idle", "done"}
  OBVIOUS
<1>2. id_ \in 0..MaxId
  BY MemberAssumption DEF MemberTyped, CallRecords, NoId
<1>3. [Idle EXCEPT !.at = at_, !.id = id_] = new
  <2> HIDE DEF at_, id_
  <2> DEFINE ended == [Idle EXCEPT !.at = at_]
  <2>1. ended = [at |-> at_, does |-> "nothing", by |-> "none", key |-> "none",
                 id |-> NoId, row |-> NoRow, got |-> << >>]
    BY DEF Idle
  <2> HIDE DEF ended
  <2>2. [ended EXCEPT !.id = id_] = new
    BY <2>1
  <2> QED
    BY <2>2 DEF ended
<1>4. calls' = [calls EXCEPT ![c] = new]
  BY <1>3 DEF End
<1> HIDE DEF at_, id_
<1>5. << >> \in Seq(Lines)
  OBVIOUS
<1>6. new \in CallRecords
  BY <1>1, <1>2, <1>5 DEF CallRecords
<1>7. /\ new.at \in {"refused", "idle", "done"}
      /\ new.does = "nothing" /\ new.row = NoRow /\ new.got = << >>
  BY <1>1
<1> HIDE DEF new
<1> QED
  BY <1>4, <1>6, <1>7

\* A call that ends, with or without its answer, has nothing in hand.
LEMMA EndStep ==
    ASSUME MemberInv, NEW c \in Callers, NEW outcome, End(c, outcome),
           UNCHANGED <<rows, lines, lastId>>
    PROVE  MemberInv'
<1>1. PICK new \in CallRecords :
         /\ calls' = [calls EXCEPT ![c] = new]
         /\ new.at \in {"refused", "idle", "done"}
         /\ new.does = "nothing" /\ new.row = NoRow /\ new.got = << >>
  BY EndFacts DEF MemberInv
<1>2. Consistent(c, new) /\ NobodyElses(new)
  BY <1>1 DEF Consistent, NobodyElses
<1> QED
  BY <1>1, <1>2, CallStep

\* A call that only moves on, with the same work in hand.
LEMMA MoveStep ==
    ASSUME MemberInv, NEW c \in Callers,
           NEW position \in {"first", "second"}, MoveTo(c, position),
           UNCHANGED <<rows, lines, lastId>>,
           calls[c].at \in {"acquire", "first"},
           position = "second" =>
              /\ calls[c].does \in {"context", "open"}
              /\ NobodyElses([calls[c] EXCEPT !.at = "second"])
    PROVE  MemberInv'
<1> DEFINE new == [calls[c] EXCEPT !.at = position]
<1>1. /\ calls[c] \in CallRecords /\ calls \in [Callers -> CallRecords]
      /\ Consistent(c, calls[c])
  BY DEF MemberInv, MemberTyped, CallsConsistent
<1>2. new \in CallRecords
  BY <1>1 DEF CallRecords
<1>3. calls' = [calls EXCEPT ![c] = new]
  BY <1>1 DEF MoveTo
<1>4. /\ new.at = position /\ new.does = calls[c].does /\ new.by = calls[c].by
      /\ new.key = calls[c].key /\ new.id = calls[c].id
      /\ new.row = calls[c].row /\ new.got = calls[c].got
  BY <1>1 DEF CallRecords
<1>5. NobodyElses(new)
  BY <1>4 DEF NobodyElses
<1> HIDE DEF new
<1>6. new.row = NoRow /\ new.got = << >>
  BY <1>1, <1>4 DEF Consistent
<1>7. Consistent(c, new)
  BY <1>1, <1>4, <1>6 DEF Consistent
<1> QED
  BY <1>2, <1>3, <1>5, <1>6, <1>7, CallStep

\* A call of which some fields are written, in the order the actions write
\* them.
AskedCall(r, does_, by_, key_, id_, at_) ==
    [r EXCEPT !.does = does_, !.by = by_, !.key = key_, !.id = id_, !.at = at_]

PressedCall(r, does_, by_, key_, at_, id_) ==
    [r EXCEPT !.does = does_, !.by = by_, !.key = key_, !.at = at_, !.id = id_]

OpenedCall(r, does_, by_, id_, at_) ==
    [r EXCEPT !.does = does_, !.by = by_, !.id = id_, !.at = at_]

ReadCall(r, at_, got_) == [r EXCEPT !.at = at_, !.got = got_]

AnsweredCall(r, at_, does_, got_) ==
    [r EXCEPT !.at = at_, !.does = does_, !.got = got_]

WrittenCall(r, at_, row_) == [r EXCEPT !.at = at_, !.row = row_]

\* What a call is once a request has started it, field by field.
LEMMA Written ==
    ASSUME NEW r \in CallRecords,
           NEW at_, NEW does_, NEW by_, NEW key_, NEW id_
    PROVE  /\ AskedCall(r, does_, by_, key_, id_, at_) =
              [at |-> at_, does |-> does_, by |-> by_, key |-> key_,
               id |-> id_, row |-> r.row, got |-> r.got]
           /\ PressedCall(r, does_, by_, key_, at_, id_) =
              [at |-> at_, does |-> does_, by |-> by_, key |-> key_,
               id |-> id_, row |-> r.row, got |-> r.got]
           /\ OpenedCall(r, does_, by_, id_, at_) =
              [at |-> at_, does |-> does_, by |-> by_, key |-> r.key,
               id |-> id_, row |-> r.row, got |-> r.got]
<1>1. r = [at |-> r.at, does |-> r.does, by |-> r.by, key |-> r.key,
           id |-> r.id, row |-> r.row, got |-> r.got]
  BY DEF CallRecords
<1> DEFINE one == [r EXCEPT !.does = does_]
           two == [one EXCEPT !.by = by_]
<1>2. one = [at |-> r.at, does |-> does_, by |-> r.by, key |-> r.key,
             id |-> r.id, row |-> r.row, got |-> r.got]
  BY <1>1
<1> HIDE DEF one
<1>3. two = [at |-> r.at, does |-> does_, by |-> by_, key |-> r.key,
             id |-> r.id, row |-> r.row, got |-> r.got]
  BY <1>2
<1> HIDE DEF two
<1> DEFINE three == [two EXCEPT !.key = key_]
<1>4. three = [at |-> r.at, does |-> does_, by |-> by_, key |-> key_,
               id |-> r.id, row |-> r.row, got |-> r.got]
  BY <1>3
<1> HIDE DEF three
<1> DEFINE four == [three EXCEPT !.id = id_]
           last == [three EXCEPT !.at = at_]
           open == [two EXCEPT !.id = id_]
<1>5. four = [at |-> r.at, does |-> does_, by |-> by_, key |-> key_,
              id |-> id_, row |-> r.row, got |-> r.got]
  BY <1>4
<1>6. last = [at |-> at_, does |-> does_, by |-> by_, key |-> key_,
              id |-> r.id, row |-> r.row, got |-> r.got]
  BY <1>4
<1>7. open = [at |-> r.at, does |-> does_, by |-> by_, key |-> r.key,
              id |-> id_, row |-> r.row, got |-> r.got]
  BY <1>3
<1> HIDE DEF four, last, open
<1>8. /\ [four EXCEPT !.at = at_] =
              [at |-> at_, does |-> does_, by |-> by_, key |-> key_,
               id |-> id_, row |-> r.row, got |-> r.got]
      /\ [last EXCEPT !.id = id_] =
              [at |-> at_, does |-> does_, by |-> by_, key |-> key_,
               id |-> id_, row |-> r.row, got |-> r.got]
      /\ [open EXCEPT !.at = at_] =
              [at |-> at_, does |-> does_, by |-> by_, key |-> r.key,
               id |-> id_, row |-> r.row, got |-> r.got]
  BY <1>5, <1>6, <1>7
<1> QED
  BY <1>8 DEF one, two, three, four, last, open,
              AskedCall, PressedCall, OpenedCall

\* What a call is once it has read or been answered, field by field.
LEMMA Rewritten ==
    ASSUME NEW r \in CallRecords, NEW at_, NEW does_, NEW row_, NEW got_
    PROVE  /\ ReadCall(r, at_, got_) =
              [at |-> at_, does |-> r.does, by |-> r.by, key |-> r.key,
               id |-> r.id, row |-> r.row, got |-> got_]
           /\ AnsweredCall(r, at_, does_, got_) =
              [at |-> at_, does |-> does_, by |-> r.by, key |-> r.key,
               id |-> r.id, row |-> r.row, got |-> got_]
           /\ WrittenCall(r, at_, row_) =
              [at |-> at_, does |-> r.does, by |-> r.by, key |-> r.key,
               id |-> r.id, row |-> row_, got |-> r.got]
<1>1. r = [at |-> r.at, does |-> r.does, by |-> r.by, key |-> r.key,
           id |-> r.id, row |-> r.row, got |-> r.got]
  BY DEF CallRecords
<1> DEFINE one == [r EXCEPT !.at = at_]
           two == [one EXCEPT !.does = does_]
<1>2. one = [at |-> at_, does |-> r.does, by |-> r.by, key |-> r.key,
             id |-> r.id, row |-> r.row, got |-> r.got]
  BY <1>1
<1> HIDE DEF one
<1>3. two = [at |-> at_, does |-> does_, by |-> r.by, key |-> r.key,
             id |-> r.id, row |-> r.row, got |-> r.got]
  BY <1>2
<1> HIDE DEF two
<1>4. /\ [one EXCEPT !.got = got_] =
              [at |-> at_, does |-> r.does, by |-> r.by, key |-> r.key,
               id |-> r.id, row |-> r.row, got |-> got_]
      /\ [one EXCEPT !.row = row_] =
              [at |-> at_, does |-> r.does, by |-> r.by, key |-> r.key,
               id |-> r.id, row |-> row_, got |-> r.got]
  BY <1>2
<1>5. [two EXCEPT !.got = got_] =
              [at |-> at_, does |-> does_, by |-> r.by, key |-> r.key,
               id |-> r.id, row |-> r.row, got |-> got_]
  BY <1>3
<1> QED
  BY <1>4, <1>5 DEF one, two, ReadCall, AnsweredCall, WrittenCall

\* The parts of the invariant about one caller.
LEMMA CallFacts ==
    ASSUME MemberInv, NEW c \in Callers
    PROVE  /\ calls \in [Callers -> CallRecords]
           /\ calls[c] \in CallRecords
           /\ Consistent(c, calls[c])
           /\ NobodyElses(calls[c])
BY DEF MemberInv, MemberTyped, CallsConsistent, ReadersApart

\* A question may name any conversation; whose it is, is found out later.
LEMMA AskStep ==
    ASSUME MemberInv, NEW k \in Answers, NEW i \in 0..lastId, Ask(k, i)
    PROVE  MemberInv'
<1>1. k \in Callers /\ Author[k] \in Members /\ i \in 0..MaxId
  BY MemberAssumption DEF Callers, MemberInv, MemberTyped
<1>2. calls \in [Callers -> CallRecords] /\ calls[k] \in CallRecords
      /\ Consistent(k, calls[k]) /\ calls[k].at = "idle"
  BY <1>1, CallFacts DEF Ask
<1> DEFINE at_ == IF i = NoId THEN "analysing" ELSE "acquire"
           new == [at |-> at_, does |-> "context", by |-> Author[k], key |-> k,
                   id |-> i, row |-> calls[k].row, got |-> calls[k].got]
<1>3. calls' = [calls EXCEPT ![k] =
                  AskedCall(calls[k], "context", Author[k], k, i, at_)]
  BY DEF Ask, AskedCall
<1> HIDE DEF at_
<1>4. calls' = [calls EXCEPT ![k] = new]
  <2>1. AskedCall(calls[k], "context", Author[k], k, i, at_) = new
    BY <1>2, Written
  <2> QED
    BY <1>3, <2>1
<1>5. at_ \in {"analysing", "acquire"} /\ (at_ = "analysing" => i = NoId)
  BY DEF at_
<1>6. calls[k].row = NoRow /\ calls[k].got = << >>
  BY <1>2 DEF Consistent
<1>7. << >> \in Seq(Lines)
  OBVIOUS
<1>8. new \in CallRecords
  BY <1>1, <1>5, <1>6, <1>7 DEF CallRecords
<1>9. new.row = NoRow /\ Consistent(k, new) /\ NobodyElses(new)
  BY <1>5, <1>6 DEF Consistent, NobodyElses
<1> HIDE DEF new
<1> QED
  BY <1>1, <1>4, <1>8, <1>9, CallStep DEF Ask

\* The button saves an answer for the member who asked for it.
LEMMA PressSaveStep ==
    ASSUME MemberInv, NEW c \in Requests, NEW m \in Members, NEW k \in Answers,
           PressSave(c, m, k)
    PROVE  MemberInv'
<1>1. c \in Callers /\ m = Author[k]
  BY DEF Callers, PressSave, MaySave
<1>2. calls \in [Callers -> CallRecords] /\ calls[c] \in CallRecords
      /\ Consistent(c, calls[c]) /\ calls[c].at = "idle"
  BY <1>1, CallFacts DEF PressSave
<1> DEFINE id_ == IF k \in TermChats THEN calls[k].id ELSE NoId
           new == [at |-> "acquire", does |-> "save", by |-> m, key |-> k,
                   id |-> id_, row |-> calls[c].row, got |-> calls[c].got]
<1>3. calls' = [calls EXCEPT ![c] =
                  PressedCall(calls[c], "save", m, k, "acquire", id_)]
  BY DEF PressSave, PressedCall
<1>4. id_ \in 0..MaxId
  BY <1>2, MemberAssumption DEF CallRecords, NoId, Callers, Answers
<1> HIDE DEF id_
<1>5. calls' = [calls EXCEPT ![c] = new]
  <2>1. PressedCall(calls[c], "save", m, k, "acquire", id_) = new
    BY <1>2, Written
  <2> QED
    BY <1>3, <2>1
<1>6. calls[c].row = NoRow /\ calls[c].got = << >>
  BY <1>2 DEF Consistent
<1>7. << >> \in Seq(Lines)
  OBVIOUS
<1>8. new \in CallRecords
  BY <1>4, <1>6, <1>7 DEF CallRecords
<1>9. new.row = NoRow /\ Consistent(c, new) /\ NobodyElses(new)
  BY <1>1, <1>6 DEF Consistent, NobodyElses
<1> HIDE DEF new
<1> QED
  BY <1>1, <1>5, <1>8, <1>9, CallStep DEF PressSave

\* A request to open or to delete may name any conversation.
LEMMA OpenOrDeleteStep ==
    ASSUME MemberInv, NEW c \in Requests, NEW m \in Members,
           NEW i \in 1..lastId, NEW does_ \in {"open", "delete"},
           OpenOrDelete(c, m, i, does_)
    PROVE  MemberInv'
<1>1. c \in Callers /\ i \in 0..MaxId
  BY MemberAssumption DEF Callers, MemberInv, MemberTyped
<1>2. calls \in [Callers -> CallRecords] /\ calls[c] \in CallRecords
      /\ Consistent(c, calls[c]) /\ calls[c].at = "idle"
  BY <1>1, CallFacts DEF OpenOrDelete
<1> DEFINE new == [at |-> "acquire", does |-> does_, by |-> m,
                   key |-> calls[c].key, id |-> i,
                   row |-> calls[c].row, got |-> calls[c].got]
<1>3. calls' = [calls EXCEPT ![c] =
                  OpenedCall(calls[c], does_, m, i, "acquire")]
  BY DEF OpenOrDelete, OpenedCall
<1>4. calls' = [calls EXCEPT ![c] = new]
  <2>1. OpenedCall(calls[c], does_, m, i, "acquire") = new
    BY <1>2, Written
  <2> QED
    BY <1>3, <2>1
<1>5. calls[c].row = NoRow /\ calls[c].got = << >>
  BY <1>2 DEF Consistent
<1>6. << >> \in Seq(Lines) /\ calls[c].key \in Answers \cup {"none"}
  BY <1>2 DEF CallRecords
<1>7. new \in CallRecords
  BY <1>1, <1>5, <1>6 DEF CallRecords
<1>8. new.row = NoRow /\ Consistent(c, new) /\ NobodyElses(new)
  BY <1>5 DEF Consistent, NobodyElses
<1> HIDE DEF new
<1> QED
  BY <1>1, <1>4, <1>7, <1>8, CallStep DEF OpenOrDelete

\* What a member reads of a conversation that is nobody else's is this
\* member's.
LEMMA ReadIsOwn ==
    ASSUME MemberInv, NEW c \in Callers, calls[c].at = "second",
           NEW n \in 1..Len(lines), lines[n].in = calls[c].id
    PROVE  Author[lines[n].key] = calls[c].by
<1>1. lines[n].key \in DOMAIN rows /\ rows[lines[n].key].id = calls[c].id
  BY LineOfRow DEF MemberInv
<1>2. rows[lines[n].key].owner = calls[c].by
  BY <1>1, CallFacts DEF NobodyElses
<1>3. rows[lines[n].key].owner = Author[lines[n].key]
  BY <1>1 DEF MemberInv, SavedIsWhole
<1> QED
  BY <1>2, <1>3

\* The messages of a conversation are stored messages of it.
LEMMA LinesOfFacts ==
    ASSUME MemberTyped, NEW i
    PROVE  /\ LinesOf(i) \in Seq(Lines)
           /\ \A j \in 1..Len(LinesOf(i)) :
                 /\ LinesOf(i)[j].in = i
                 /\ \E n \in 1..Len(lines) : lines[n] = LinesOf(i)[j]
<1> DEFINE S   == {line \in Lines : line.in = i}
           all == Kept(lines, S)
<1>1. lines \in Seq(Lines) /\ LinesOf(i) = all /\ \A x \in S : x.in = i
  BY DEF MemberTyped, LinesOf
<1> HIDE DEF S
<1>2. /\ all \in Seq(Lines)
      /\ \A j \in 1..Len(all) :
            all[j] \in S /\ \E n \in 1..Len(lines) : lines[n] = all[j]
  BY <1>1, KeptElements
<1> HIDE DEF all
<1> QED
  BY <1>1, <1>2

\* The context of a follow-up is made of lines of its conversation.
LEMMA ContextFacts ==
    ASSUME MemberTyped, NEW i
    PROVE  /\ ContextOf(i) \in Seq(Lines)
           /\ \A j \in 1..Len(ContextOf(i)) :
                 \E n \in 1..Len(lines) :
                    lines[n] = ContextOf(i)[j] /\ lines[n].in = i
<1>1. PICK S : ContextOf(i) = Kept(LinesOf(i), S)
  BY DEF ContextOf
<1> DEFINE all     == LinesOf(i)
           context == Kept(all, S)
<1>2. /\ all \in Seq(Lines)
      /\ \A j \in 1..Len(all) :
            all[j].in = i /\ \E n \in 1..Len(lines) : lines[n] = all[j]
  BY LinesOfFacts
<1> HIDE DEF all
<1>3. /\ context \in Seq(Lines)
      /\ \A j \in 1..Len(context) : \E n \in 1..Len(all) : all[n] = context[j]
  BY <1>2, KeptElements
<1> HIDE DEF context
<1>4. \A j \in 1..Len(context) : \E n \in 1..Len(lines) :
         lines[n] = context[j] /\ lines[n].in = i
  <2> SUFFICES ASSUME NEW j \in 1..Len(context)
               PROVE  \E n \in 1..Len(lines) :
                         lines[n] = context[j] /\ lines[n].in = i
    OBVIOUS
  <2>1. PICK m \in 1..Len(all) : all[m] = context[j]
    BY <1>3
  <2> QED
    BY <1>2, <2>1
<1>5. ContextOf(i) = context
  BY <1>1 DEF context, all
<1> QED
  BY <1>3, <1>4, <1>5

\* Reading the messages, of a follow-up or of the history page.
LEMMA ReadStep ==
    ASSUME MemberInv, NEW c \in Callers, calls[c].at = "second",
           NEW got_ \in Seq(Lines),
           \A j \in 1..Len(got_) : \E n \in 1..Len(lines) :
              lines[n] = got_[j] /\ lines[n].in = calls[c].id,
           NEW at_ \in {"analysing", "shown"},
           at_ = "analysing" => calls[c].does = "context",
           at_ = "analysing" /\ c \in Analyses => got_ # << >>,
           calls' = [calls EXCEPT ![c].at = at_, ![c].got = got_],
           UNCHANGED <<rows, lines, lastId>>
    PROVE  MemberInv'
<1>1. calls \in [Callers -> CallRecords] /\ calls[c] \in CallRecords
      /\ Consistent(c, calls[c])
  BY CallFacts
<1> DEFINE new == [at |-> at_, does |-> calls[c].does, by |-> calls[c].by,
                   key |-> calls[c].key, id |-> calls[c].id,
                   row |-> calls[c].row, got |-> got_]
<1>2. calls' = [calls EXCEPT ![c] = ReadCall(calls[c], at_, got_)]
  BY <1>1 DEF ReadCall
<1>3. calls' = [calls EXCEPT ![c] = new]
  <2>1. ReadCall(calls[c], at_, got_) = new
    BY <1>1, Rewritten
  <2> QED
    BY <1>2, <2>1
<1>4. calls[c].row = NoRow
  BY <1>1 DEF Consistent
<1>5. new \in CallRecords
  BY <1>1 DEF CallRecords
<1>6. ASSUME NEW j \in 1..Len(got_)
      PROVE  Author[got_[j].key] = calls[c].by
  <2>1. PICK n \in 1..Len(lines) : lines[n] = got_[j] /\ lines[n].in = calls[c].id
    OBVIOUS
  <2>2. Author[lines[n].key] = calls[c].by
    BY <2>1, ReadIsOwn
  <2> QED
    BY <2>1, <2>2
<1>7. DOMAIN got_ = 1..Len(got_)
  OBVIOUS
<1>8. new.row = NoRow /\ Consistent(c, new) /\ NobodyElses(new)
  BY <1>1, <1>4, <1>6, <1>7 DEF Consistent, NobodyElses
<1> HIDE DEF new
<1> QED
  BY <1>3, <1>5, <1>8, CallStep

\* A follow-up takes its context from the conversation it read.
LEMMA ReadContextStep ==
    ASSUME MemberInv, NEW k \in Callers, ReadContext(k)
    PROVE  MemberInv'
<1>1. calls[k].at = "second" /\ calls[k].does = "context"
      /\ UNCHANGED <<rows, lines, lastId>>
  BY DEF ReadContext, Is
<1> DEFINE context == ContextOf(calls[k].id)
<1>2. /\ context \in Seq(Lines)
      /\ \A j \in 1..Len(context) : \E n \in 1..Len(lines) :
            lines[n] = context[j] /\ lines[n].in = calls[k].id
  BY ContextFacts DEF MemberInv
<1>3. CASE ContextAccepted(k, context)
  <2>1. calls' = [calls EXCEPT ![k].at = "analysing", ![k].got = context]
    BY <1>3 DEF ReadContext
  <2>2. k \in Analyses => context # << >>
    BY <1>3 DEF ContextAccepted
  <2> HIDE DEF context
  <2> QED
    BY <1>1, <1>2, <2>1, <2>2, ReadStep
<1>4. CASE ~ContextAccepted(k, context)
  <2>1. End(k, "failed")
    BY <1>4 DEF ReadContext, Fails
  <2> QED
    BY <1>1, <2>1, EndStep
<1> QED
  BY <1>3, <1>4

\* A page takes its lines from the conversation it read.
LEMMA ReadLinesStep ==
    ASSUME MemberInv, NEW c \in Callers, ReadLines(c)
    PROVE  MemberInv'
<1>1. calls[c].at = "second" /\ UNCHANGED <<rows, lines, lastId>>
  BY DEF ReadLines, Is
<1> DEFINE all == LinesOf(calls[c].id)
<1>2. /\ all \in Seq(Lines)
      /\ \A j \in 1..Len(all) : \E n \in 1..Len(lines) :
            lines[n] = all[j] /\ lines[n].in = calls[c].id
  BY LinesOfFacts DEF MemberInv
<1>3. calls' = [calls EXCEPT ![c].at = "shown", ![c].got = all]
  BY DEF ReadLines
<1> HIDE DEF all
<1> QED
  BY <1>1, <1>2, <1>3, ReadStep

\* An answered question is saved for the member who asked it.
LEMMA AnsweredStep ==
    ASSUME MemberInv, NEW k \in Callers, Answered(k)
    PROVE  MemberInv'
<1>1. calls \in [Callers -> CallRecords] /\ calls[k] \in CallRecords
      /\ Consistent(k, calls[k]) /\ calls[k].at = "analysing"
  BY CallFacts DEF Answered
<1> DEFINE new == [at |-> "acquire", does |-> "save", by |-> calls[k].by,
                   key |-> calls[k].key, id |-> calls[k].id,
                   row |-> calls[k].row, got |-> << >>]
<1>2. calls' = [calls EXCEPT ![k] =
                  AnsweredCall(calls[k], "acquire", "save", << >>)]
  BY <1>1 DEF Answered, AnsweredCall
<1>3. calls' = [calls EXCEPT ![k] = new]
  <2>1. AnsweredCall(calls[k], "acquire", "save", << >>) = new
    BY <1>1, Rewritten
  <2> QED
    BY <1>2, <2>1
<1>4. calls[k].row = NoRow
  BY <1>1 DEF Consistent
<1>5. << >> \in Seq(Lines)
  OBVIOUS
<1>6. new \in CallRecords
  BY <1>1, <1>5 DEF CallRecords
<1>7. new.row = NoRow /\ Consistent(k, new) /\ NobodyElses(new)
  BY <1>1, <1>4 DEF Consistent, NobodyElses
<1> HIDE DEF new
<1> QED
  BY <1>3, <1>6, <1>7, CallStep DEF Answered

\* The row that is found is the member's own, and no other has or gets its id.
LEMMA FindRowStep ==
    ASSUME MemberInv, NEW c \in Callers, FindRow(c)
    PROVE  MemberInv'
<1>1. /\ calls[c].does \in {"context", "open"} /\ calls[c].at = "first"
      /\ UNCHANGED <<rows, lines, lastId>>
  BY DEF FindRow
<1>2. CASE Fails(c)
  BY <1>1, <1>2, EndStep DEF Fails
<1>3. ASSUME NEW k \in Owned(calls[c].by, calls[c].id), MoveTo(c, "second")
      PROVE  MemberInv'
  <2> DEFINE new == [calls[c] EXCEPT !.at = "second"]
  <2>1. /\ k \in DOMAIN rows /\ rows[k].id = calls[c].id
        /\ rows[k].owner = calls[c].by
    BY <1>3 DEF Owned
  <2>2. new.id = calls[c].id /\ new.by = calls[c].by
    BY CallFacts DEF CallRecords
  <2>3. calls[c].id <= lastId
    BY <2>1 DEF MemberInv, OwnIds
  <2>4. \A l \in DOMAIN rows : rows[l].id = calls[c].id => l = k
    BY <2>1 DEF MemberInv, OwnIds
  <2>5. ASSUME NEW d \in Callers, calls[d].row # NoRow,
               calls[d].row.id = calls[c].id
        PROVE  calls[d].row.owner = calls[c].by
    BY <2>1, <2>5 DEF MemberInv, TransactionsApart
  <2>6. NobodyElses(new)
    <3> HIDE DEF new
    <3> QED
      BY <2>1, <2>2, <2>3, <2>4, <2>5 DEF NobodyElses
  <2> QED
    BY <1>1, <1>3, <2>6, MoveStep
<1> QED
  BY <1>2, <1>3 DEF FindRow

\* The row of a transaction is the stored one of its answer, or has a new id.
LEMMA UpsertStep ==
    ASSUME MemberInv, NEW c \in Callers, Upsert(c)
    PROVE  MemberInv'
<1> DEFINE k   == calls[c].key
           row == IF k \in DOMAIN rows THEN rows[k]
                  ELSE [id |-> lastId + 1, owner |-> calls[c].by,
                        category |-> CategoryOf(k)]
           fits == k \in DOMAIN rows \/ lastId < MaxId
<1>1. /\ calls[c].does = "save" /\ calls[c].at = "first" /\ ~Locked(k)
      /\ UNCHANGED <<rows, lines>>
  BY DEF Upsert, Is
<1>2. CASE (End(c, "refused") \/ End(c, "failed")) /\ UNCHANGED lastId
  BY <1>1, <1>2, EndStep
<1>3. CASE /\ row.owner = calls[c].by /\ fits
           /\ calls' = [calls EXCEPT ![c].at = "commit", ![c].row = row]
           /\ lastId' = IF k \in DOMAIN rows THEN lastId ELSE lastId + 1
  <2>1. /\ calls \in [Callers -> CallRecords] /\ calls[c] \in CallRecords
        /\ Consistent(c, calls[c])
    BY CallFacts
  <2>2. k \in Answers /\ calls[c].by = Author[k] /\ calls[c].by \in Members
    BY <1>1, <2>1, MemberAssumption DEF Consistent
  <2>3. /\ lastId \in 0..MaxId /\ lastId' \in 0..MaxId /\ lastId <= lastId'
        /\ row \in Rows /\ row.owner = calls[c].by /\ row.id <= lastId'
        /\ row.id \in Nat
    <3>1. MaxId \in Nat /\ lastId \in 0..MaxId
      BY MemberAssumption DEF MemberInv, MemberTyped
    <3>2. CASE k \in DOMAIN rows
      <4>1. row = rows[k] /\ lastId' = lastId
        BY <1>3, <3>2
      <4>2. rows[k] \in Rows /\ rows[k].id <= lastId
        BY <3>2 DEF MemberInv, MemberTyped, OwnIds
      <4>3. rows[k].id \in Nat
        BY <3>1, <4>2 DEF Rows
      <4> HIDE DEF row
      <4> QED
        BY <1>3, <3>1, <4>1, <4>2, <4>3
    <3>3. CASE k \notin DOMAIN rows
      <4>1. row = [id |-> lastId + 1, owner |-> calls[c].by,
                   category |-> CategoryOf(k)]
        BY <3>3
      <4>2. lastId' = lastId + 1 /\ lastId < MaxId
        BY <1>3, <3>3
      <4>3. CategoryOf(k) \in {"analysis", "legal_terms"}
        BY DEF CategoryOf
      <4>4. lastId + 1 \in 1..MaxId
        BY <3>1, <4>2
      <4> HIDE DEF row
      <4> QED
        BY <2>2, <3>1, <4>1, <4>2, <4>3, <4>4 DEF Rows
    <3> QED
      BY <3>2, <3>3
  <2>4. /\ k \in DOMAIN rows => row = rows[k]
        /\ k \notin DOMAIN rows => row.id = lastId + 1
    OBVIOUS
  <2> HIDE DEF row, fits
  <2> DEFINE new == [at |-> "commit", does |-> calls[c].does,
                     by |-> calls[c].by, key |-> calls[c].key,
                     id |-> calls[c].id, row |-> row, got |-> calls[c].got]
  <2>5. calls' = [calls EXCEPT ![c] = new]
    <3>1. calls' = [calls EXCEPT ![c] = WrittenCall(calls[c], "commit", row)]
      BY <1>3, <2>1 DEF WrittenCall
    <3>2. WrittenCall(calls[c], "commit", row) = new
      BY <2>1, Rewritten
    <3> QED
      BY <3>1, <3>2
  <2>6. new \in CallRecords
    BY <2>1, <2>3 DEF CallRecords
  <2>7. row # NoRow
    BY <2>3, MemberAssumption DEF Rows, NoRow, NoId
  <2>8. /\ new.at = "commit" /\ new.does = "save" /\ new.by = calls[c].by
        /\ new.key = k /\ new.row = row /\ new.got = calls[c].got
    BY <1>1
  <2>9. new.got = << >>
    BY <1>1, <2>1, <2>8 DEF Consistent
  <2> HIDE DEF new
  <2>10. /\ calls' \in [Callers -> CallRecords] /\ calls'[c] = new
         /\ \A d \in Callers : d # c => calls'[d] = calls[d]
    BY <2>1, <2>5, <2>6
  <2>11. MemberTyped'
    BY <1>1, <2>3, <2>10 DEF MemberInv, MemberTyped
  <2>12. \A l \in DOMAIN rows : rows[l].id <= lastId /\ rows[l].id \in Nat
    BY MemberAssumption DEF MemberInv, MemberTyped, OwnIds, Rows
  <2>13. \A d \in Callers : calls[d].row # NoRow =>
            calls[d].row.id <= lastId /\ calls[d].row.id \in Nat
    BY MemberAssumption DEF MemberInv, MemberTyped, CallsConsistent, Consistent,
                            CallRecords, Rows
  <2>14. OwnIds'
    BY <1>1, <2>3, <2>12 DEF MemberInv, OwnIds
  <2>15. CallsConsistent'
    <3> SUFFICES ASSUME NEW d \in Callers PROVE Consistent(d, calls[d])'
      BY DEF CallsConsistent
    <3>1. CASE d = c
      BY <2>2, <2>3, <2>7, <2>8, <2>9, <2>10, <3>1 DEF Consistent
    <3>2. CASE d # c
      <4>1. Consistent(d, calls[d])
        BY DEF MemberInv, CallsConsistent
      <4>2. calls[d].row # NoRow => calls[d].row.id <= lastId'
        BY <2>3, <2>13
      <4> QED
        BY <2>10, <3>2, <4>1, <4>2 DEF Consistent
    <3> QED
      BY <3>1, <3>2
  <2>16. \A d \in Callers : calls[d].row # NoRow => calls[d].key # k
    BY <1>1 DEF Locked
  <2>17. \A d \in Callers : calls[d].row # NoRow => calls[d].row.id # row.id
    BY <2>3, <2>4, <2>13, <2>16 DEF MemberInv, TransactionsApart
  <2>18. \A l \in DOMAIN rows : (l = k => rows[l] = row)
                                /\ (l # k => rows[l].id # row.id)
    BY <2>3, <2>4, <2>12 DEF MemberInv, OwnIds
  <2>19. TransactionsApart'
    BY <1>1, <2>8, <2>10, <2>16, <2>17, <2>18 DEF MemberInv, TransactionsApart
  <2>20. ReadersApart'
    <3> SUFFICES ASSUME NEW d \in Callers PROVE NobodyElses(calls[d])'
      BY DEF ReadersApart
    <3>1. CASE d = c
      BY <2>8, <2>10, <3>1 DEF NobodyElses
    <3>2. CASE d # c
      <4>1. NobodyElses(calls[d])
        BY DEF MemberInv, ReadersApart
      <4>2. calls[d].id \in Nat
        BY <2>1, MemberAssumption DEF CallRecords
      <4>3. calls[d].at = "second" /\ row.id = calls[d].id =>
               row.owner = calls[d].by
        BY <2>3, <2>4, <4>1, <4>2 DEF NobodyElses
      <4>4. calls[d].at = "second" => calls[d].id <= lastId'
        BY <2>3, <4>1, <4>2 DEF NobodyElses
      <4> QED
        BY <1>1, <2>8, <2>10, <3>2, <4>1, <4>3, <4>4 DEF NobodyElses
    <3> QED
      BY <3>1, <3>2
  <2>21. SavedIsWhole'
    BY <1>1 DEF MemberInv, SavedIsWhole, LinesOf
  <2> QED
    BY <2>11, <2>14, <2>15, <2>19, <2>20, <2>21 DEF MemberInv
<1> QED
  BY <1>2, <1>3 DEF Upsert

\* The end of a call leaves the callers and, if no row that is stored
\* disturbs them, the transactions and readers as they were.
LEMMA EndKeeps ==
    ASSUME MemberInv, NEW c \in Callers, NEW outcome, End(c, outcome),
           UNCHANGED lastId
    PROVE  /\ calls' \in [Callers -> CallRecords]
           /\ CallsConsistent'
           /\ \A d \in Callers : calls'[d].row # NoRow =>
                 calls'[d] = calls[d] /\ d # c
           /\ \A d \in Callers : calls'[d].at = "second" =>
                 calls'[d] = calls[d]
<1>1. PICK new \in CallRecords :
         /\ calls' = [calls EXCEPT ![c] = new]
         /\ new.at \in {"refused", "idle", "done"}
         /\ new.does = "nothing" /\ new.row = NoRow /\ new.got = << >>
  BY EndFacts DEF MemberInv
<1>2. calls \in [Callers -> CallRecords]
  BY CallFacts
<1>3. /\ calls' \in [Callers -> CallRecords] /\ calls'[c] = new
      /\ \A d \in Callers : d # c => calls'[d] = calls[d]
  BY <1>1, <1>2
<1>4. CallsConsistent'
  <2> SUFFICES ASSUME NEW d \in Callers PROVE Consistent(d, calls[d])'
    BY DEF CallsConsistent
  <2>1. CASE d = c
    BY <1>1, <1>3, <2>1 DEF Consistent
  <2>2. CASE d # c
    BY <1>3, <2>2, CallFacts DEF Consistent
  <2> QED
    BY <2>1, <2>2
<1> QED
  BY <1>1, <1>3, <1>4

\* A deleted conversation goes with its messages, and no others go.
LEMMA DeleteStep ==
    ASSUME MemberInv, NEW c \in Callers, Delete(c)
    PROVE  MemberInv'
<1> DEFINE found == Owned(calls[c].by, calls[c].id)
           W     == {line \in Lines : \A k \in found : line.in # rows[k].id}
<1>1. /\ rows' = [k \in DOMAIN rows \ found |-> rows[k]]
      /\ lines' = Kept(lines, W)
      /\ End(c, "ok") /\ lastId' = lastId
  BY DEF Delete
<1>2. /\ DOMAIN rows' = DOMAIN rows \ found
      /\ \A k \in DOMAIN rows' : k \in DOMAIN rows /\ k \notin found
                                  /\ rows'[k] = rows[k]
  BY <1>1
<1>3. found \subseteq DOMAIN rows
  BY DEF Owned
<1> HIDE DEF found
<1>4. lines \in Seq(Lines) /\ \A k \in DOMAIN rows : rows[k] \in Rows
  BY DEF MemberInv, MemberTyped
<1>5. /\ lines' \in Seq(Lines)
      /\ \A j \in 1..Len(lines') :
            lines'[j] \in W /\ \E n \in 1..Len(lines) : lines[n] = lines'[j]
  <2> HIDE DEF W
  <2> DEFINE left == Kept(lines, W)
  <2>1. /\ left \in Seq(Lines)
        /\ \A j \in 1..Len(left) :
              left[j] \in W /\ \E n \in 1..Len(lines) : lines[n] = left[j]
    BY <1>4, KeptElements
  <2>2. lines' = left
    BY <1>1
  <2> HIDE DEF left
  <2> QED
    BY <2>1, <2>2
<1>6. /\ calls' \in [Callers -> CallRecords]
      /\ CallsConsistent'
      /\ \A d \in Callers : calls'[d].row # NoRow => calls'[d] = calls[d]
      /\ \A d \in Callers : calls'[d].at = "second" => calls'[d] = calls[d]
  BY <1>1, EndKeeps
<1>7. MemberTyped'
  BY <1>1, <1>2, <1>4, <1>5, <1>6 DEF MemberInv, MemberTyped
<1>8. OwnIds'
  BY <1>1, <1>2 DEF MemberInv, OwnIds
<1>9. TransactionsApart'
  <2>1. ASSUME NEW d \in Callers, NEW e \in Callers, calls'[d].row # NoRow,
               calls'[e].row # NoRow, d # e
        PROVE  calls'[d].key # calls'[e].key
               /\ calls'[d].row.id # calls'[e].row.id
    BY <1>6, <2>1 DEF MemberInv, TransactionsApart
  <2>2. ASSUME NEW d \in Callers, NEW k \in DOMAIN rows', calls'[d].row # NoRow
        PROVE  /\ k = calls'[d].key => rows'[k] = calls'[d].row
               /\ k # calls'[d].key => rows'[k].id # calls'[d].row.id
    BY <1>2, <1>6, <2>2 DEF MemberInv, TransactionsApart
  <2> QED
    BY <2>1, <2>2 DEF TransactionsApart
<1>10. ReadersApart'
  <2> SUFFICES ASSUME NEW d \in Callers, calls'[d].at = "second"
               PROVE  NobodyElses(calls[d])'
    BY DEF ReadersApart, NobodyElses
  <2>1. calls'[d] = calls[d] /\ NobodyElses(calls[d])
    BY <1>6, CallFacts
  <2>2. /\ calls[d].id <= lastId'
        /\ \A k \in DOMAIN rows' : rows'[k].id = calls[d].id =>
              rows'[k].owner = calls[d].by
    BY <1>1, <1>2, <2>1 DEF NobodyElses
  <2>3. \A e \in Callers :
           calls'[e].row # NoRow /\ calls'[e].row.id = calls[d].id =>
              calls'[e].row.owner = calls[d].by
    BY <1>6, <2>1 DEF NobodyElses
  <2> QED
    BY <2>1, <2>2, <2>3 DEF NobodyElses
<1>11. SavedIsWhole'
  <2>1. ASSUME NEW k \in DOMAIN rows'
        PROVE  /\ rows'[k].owner = Author[k]
               /\ LinesOf(rows[k].id)' =
                     <<[in |-> rows'[k].id, key |-> k, role |-> "user"],
                       [in |-> rows'[k].id, key |-> k, role |-> "assistant"]>>
    <3> DEFINE S == {line \in Lines : line.in = rows[k].id}
    <3>1. k \in DOMAIN rows /\ k \notin found /\ rows'[k] = rows[k]
      BY <1>2
    <3>2. \A l \in found : rows[l].id # rows[k].id
      BY <1>3, <3>1 DEF MemberInv, OwnIds
    <3>3. \A x \in Lines : x \in S => x \in W
      BY <3>2
    <3>4. LinesOf(rows[k].id)' = Kept(lines', S)
      BY <3>1 DEF LinesOf
    <3>5. LinesOf(rows[k].id) = Kept(lines, S)
      BY DEF LinesOf
    <3> HIDE DEF S, W
    <3>6. Kept(Kept(lines, W), S) = Kept(lines, S)
      BY <1>4, <3>3, KeptKept
    <3>7. /\ rows[k].owner = Author[k]
          /\ LinesOf(rows[k].id) =
                <<[in |-> rows[k].id, key |-> k, role |-> "user"],
                  [in |-> rows[k].id, key |-> k, role |-> "assistant"]>>
      BY <3>1 DEF MemberInv, SavedIsWhole
    <3> QED
      BY <1>1, <3>1, <3>4, <3>5, <3>6, <3>7
  <2>2. ASSUME NEW j \in DOMAIN lines'
        PROVE  \E k \in DOMAIN rows' : rows'[k].id = lines'[j].in
    <3>1. j \in 1..Len(lines')
      BY <1>5
    <3>2. PICK n \in 1..Len(lines) : lines[n] = lines'[j]
      BY <1>5, <3>1
    <3>3. n \in DOMAIN lines
      BY <1>4
    <3>4. PICK k \in DOMAIN rows : rows[k].id = lines[n].in
      BY <3>3 DEF MemberInv, SavedIsWhole
    <3>5. lines'[j] \in W
      BY <1>5, <3>1
    <3>6. k \notin found
      BY <3>2, <3>4, <3>5
    <3> QED
      BY <1>1, <3>2, <3>4, <3>6
  <2> QED
    BY <2>1, <2>2 DEF SavedIsWhole
<1> QED
  BY <1>7, <1>8, <1>6, <1>9, <1>10, <1>11 DEF MemberInv

\* The selection from two messages.
LEMMA KeptPair ==
    ASSUME NEW T, NEW S, NEW x \in T, NEW y \in T
    PROVE  /\ x \in S /\ y \in S => Kept(<<x, y>>, S) = <<x, y>>
           /\ x \notin S /\ y \notin S => Kept(<<x, y>>, S) = << >>
<1> DEFINE none == << >>
           one  == Append(none, x)
           both == Append(one, y)
<1>1. none \in Seq(T)
  OBVIOUS
<1>2. Len(none) = 0 /\ Kept(none, S) = none
  BY KeptEmpty
<1> HIDE DEF none
<1>3. one \in Seq(T)
  BY <1>1
<1>4. Kept(one, S) = IF x \in S THEN Append(Kept(none, S), x) ELSE Kept(none, S)
  BY <1>1, KeptAppend
<1>5. Len(one) = 1 /\ one[1] = x
  BY <1>1, <1>2
<1> HIDE DEF one
<1>6. Kept(both, S) = IF y \in S THEN Append(Kept(one, S), y) ELSE Kept(one, S)
  BY <1>3, KeptAppend
<1>7. /\ both \in Seq(T) /\ Len(both) = Len(one) + 1
      /\ both[Len(one) + 1] = y /\ \A i \in 1..Len(one) : both[i] = one[i]
  BY <1>3
<1> HIDE DEF both
<1>8. Len(both) = 2 /\ both[1] = x /\ both[2] = y
  BY <1>5, <1>7
<1>9. /\ x \in S /\ y \in S => Kept(both, S) = both
      /\ x \notin S /\ y \notin S => Kept(both, S) = none
  BY <1>2, <1>4, <1>6 DEF one, both
<1>10. both = <<x, y>>
  <2>1. <<x, y>> \in Seq(T) /\ Len(<<x, y>>) = 2
    OBVIOUS
  <2>2. \A i \in 1..2 : both[i] = <<x, y>>[i]
    BY <1>8
  <2> QED
    BY <1>7, <1>8, <2>1, <2>2, SeqEqual
<1> QED
  BY <1>9, <1>10 DEF none

\* The messages of a conversation that is stored are there already; those of
\* a new one are not.
LEMMA AddedFacts ==
    ASSUME MemberInv, NEW c \in Callers, Is(c, "save", "commit")
    PROVE  /\ Line(c, "user") \in Lines /\ Line(c, "assistant") \in Lines
           /\ calls[c].key \in DOMAIN rows => Added(c) = << >>
           /\ calls[c].key \notin DOMAIN rows =>
                 Added(c) = <<Line(c, "user"), Line(c, "assistant")>>
<1> DEFINE u == Line(c, "user")
           a == Line(c, "assistant")
           S == {new \in Lines : \A n \in DOMAIN lines :
                    <<lines[n].key, lines[n].role>> # <<new.key, new.role>>}
<1>1. /\ calls[c].key \in Answers /\ calls[c].row \in Rows
  <2>1. calls[c] \in CallRecords /\ Consistent(c, calls[c])
    BY CallFacts
  <2>2. calls[c].does = "save" /\ calls[c].at = "commit"
    BY DEF Is
  <2> QED
    BY <2>1, <2>2 DEF Consistent, CallRecords
<1>2. calls[c].row.id \in 0..MaxId
  BY <1>1, MemberAssumption DEF Rows
<1>3. u \in Lines /\ a \in Lines
  BY <1>1, <1>2 DEF Line, Lines
<1>4. /\ u.key = calls[c].key /\ u.role = "user"
      /\ a.key = calls[c].key /\ a.role = "assistant"
  BY DEF Line
<1>5. lines \in Seq(Lines) /\ DOMAIN lines = 1..Len(lines)
  BY DEF MemberInv, MemberTyped
<1>6. Added(c) = Kept(<<u, a>>, S)
  BY DEF Added
<1> HIDE DEF u, a
<1>7. ASSUME calls[c].key \in DOMAIN rows
      PROVE  Added(c) = << >>
  <2>1. \A role_ \in {"user", "assistant"} : \E n \in 1..Len(lines) :
           lines[n].key = calls[c].key /\ lines[n].role = role_
    BY <1>7, RowHasLines DEF MemberInv
  <2>2. PICK n \in 1..Len(lines) :
           lines[n].key = calls[c].key /\ lines[n].role = "user"
    BY <2>1
  <2>3. PICK m \in 1..Len(lines) :
           lines[m].key = calls[c].key /\ lines[m].role = "assistant"
    BY <2>1
  <2>4. u \notin S
    BY <1>4, <1>5, <2>2
  <2>5. a \notin S
    BY <1>4, <1>5, <2>3
  <2> HIDE DEF S
  <2> QED
    BY <1>3, <1>6, <2>4, <2>5, KeptPair
<1>8. ASSUME calls[c].key \notin DOMAIN rows
      PROVE  Added(c) = <<u, a>>
  <2>1. \A n \in DOMAIN lines : lines[n].key # calls[c].key
    BY <1>5, <1>8, LineOfRow DEF MemberInv
  <2>2. u \in S /\ a \in S
    BY <1>3, <1>4, <2>1
  <2> HIDE DEF S
  <2> QED
    BY <1>3, <1>6, <2>2, KeptPair
<1> QED
  BY <1>3, <1>7, <1>8 DEF u, a

\* A commit stores a whole conversation or finds it stored.
LEMMA CommittedStep ==
    ASSUME MemberInv, NEW c \in Callers, Is(c, "save", "commit"), Committed(c),
           NEW outcome, End(c, outcome), UNCHANGED lastId
    PROVE  MemberInv'
<1> DEFINE k   == calls[c].key
           row == calls[c].row
           u   == Line(c, "user")
           a   == Line(c, "assistant")
<1>1. /\ k \in Answers /\ row \in Rows /\ row # NoRow
      /\ row.owner = Author[k] /\ row.id <= lastId
  <2>1. calls[c] \in CallRecords /\ Consistent(c, calls[c])
    BY CallFacts
  <2>2. calls[c].does = "save" /\ calls[c].at = "commit"
    BY DEF Is
  <2> QED
    BY <2>1, <2>2 DEF Consistent, CallRecords
<1>2. /\ DOMAIN rows' = DOMAIN rows \cup {k} /\ rows'[k] = row
      /\ rows' \in [DOMAIN rows' -> Rows]
      /\ \A l \in DOMAIN rows : l # k => rows'[l] = rows[l]
  <2>1. rows' = [l \in DOMAIN rows \cup {k} |-> IF l = k THEN row ELSE rows[l]]
    BY DEF Committed, RowsWith
  <2>2. \A l \in DOMAIN rows : rows[l] \in Rows
    BY DEF MemberInv, MemberTyped
  <2> QED
    BY <1>1, <2>1, <2>2
<1>3. /\ u \in Lines /\ a \in Lines
      /\ k \in DOMAIN rows => Added(c) = << >>
      /\ k \notin DOMAIN rows => Added(c) = <<u, a>>
  BY AddedFacts
<1>4. u.in = row.id /\ a.in = row.id
      /\ u = [in |-> row.id, key |-> k, role |-> "user"]
      /\ a = [in |-> row.id, key |-> k, role |-> "assistant"]
  BY DEF Line
<1>5. lines' = lines \o Added(c)
  BY DEF Committed
<1>6. lines \in Seq(Lines) /\ DOMAIN lines = 1..Len(lines)
  BY DEF MemberInv, MemberTyped
<1>7. /\ \A d \in Callers, l \in DOMAIN rows : calls[d].row # NoRow =>
            /\ l = calls[d].key => rows[l] = calls[d].row
            /\ l # calls[d].key => rows[l].id # calls[d].row.id
      /\ \A d \in Callers : calls[d].row # NoRow /\ d # c =>
            calls[d].key # k /\ calls[d].row.id # row.id
  BY <1>1 DEF MemberInv, TransactionsApart
<1>8. \A l \in DOMAIN rows :
         (l = k => rows[l] = row) /\ (l # k => rows[l].id # row.id)
  BY <1>1, <1>7
<1> HIDE DEF k, row, u, a
<1>9. /\ calls' \in [Callers -> CallRecords]
      /\ CallsConsistent'
      /\ \A d \in Callers : calls'[d].row # NoRow =>
            calls'[d] = calls[d] /\ d # c
      /\ \A d \in Callers : calls'[d].at = "second" => calls'[d] = calls[d]
  BY EndKeeps
<1>10. <<u, a>> \in Seq(Lines) /\ lines' \in Seq(Lines)
  <2>1. << >> \in Seq(Lines) /\ <<u, a>> \in Seq(Lines)
    BY <1>3
  <2>2. Added(c) \in Seq(Lines)
    BY <1>3, <2>1
  <2> QED
    BY <1>5, <1>6, <2>1, <2>2
<1>11. MemberTyped'
  BY <1>1, <1>2, <1>9, <1>10 DEF MemberInv, MemberTyped
<1>12. OwnIds'
  BY <1>1, <1>2, <1>8 DEF MemberInv, OwnIds
<1>13. TransactionsApart'
  <2>1. ASSUME NEW d \in Callers, NEW e \in Callers, calls'[d].row # NoRow,
               calls'[e].row # NoRow, d # e
        PROVE  calls'[d].key # calls'[e].key
               /\ calls'[d].row.id # calls'[e].row.id
    BY <1>9, <2>1 DEF MemberInv, TransactionsApart
  <2>2. ASSUME NEW d \in Callers, NEW l \in DOMAIN rows', calls'[d].row # NoRow
        PROVE  /\ l = calls'[d].key => rows'[l] = calls'[d].row
               /\ l # calls'[d].key => rows'[l].id # calls'[d].row.id
    <3>1. calls'[d] = calls[d] /\ d # c
      BY <1>9, <2>2
    <3>2. CASE l = k
      BY <1>2, <1>7, <2>2, <3>1, <3>2
    <3>3. CASE l # k
      BY <1>2, <1>7, <2>2, <3>1, <3>3
    <3> QED
      BY <3>2, <3>3
  <2> QED
    BY <2>1, <2>2 DEF TransactionsApart
<1>14. ReadersApart'
  <2> SUFFICES ASSUME NEW d \in Callers, calls'[d].at = "second"
               PROVE  NobodyElses(calls[d])'
    BY DEF ReadersApart, NobodyElses
  <2>1. calls'[d] = calls[d] /\ NobodyElses(calls[d])
    BY <1>9, CallFacts
  <2>2. calls[d].id <= lastId'
    BY <2>1, <1>9 DEF NobodyElses
  <2>3. row.id = calls[d].id => row.owner = calls[d].by
    BY <1>1, <1>9, <2>1 DEF NobodyElses, row
  <2>4. \A l \in DOMAIN rows' : rows'[l].id = calls[d].id =>
           rows'[l].owner = calls[d].by
    BY <1>2, <1>9, <2>1, <2>3 DEF NobodyElses
  <2>5. \A e \in Callers :
           calls'[e].row # NoRow /\ calls'[e].row.id = calls[d].id =>
              calls'[e].row.owner = calls[d].by
    BY <1>9, <2>1 DEF NobodyElses
  <2> QED
    BY <2>1, <2>2, <2>4, <2>5 DEF NobodyElses
<1>15. SavedIsWhole'
  <2>1. CASE k \in DOMAIN rows
    <3>1. lines' = lines
      BY <1>3, <1>5, <1>6, <2>1
    <3>2. \A l \in DOMAIN rows : rows'[l] = rows[l]
      BY <1>2, <1>8
    <3>3. DOMAIN rows' = DOMAIN rows
      BY <1>2, <2>1
    <3> QED
      BY <3>1, <3>2, <3>3 DEF MemberInv, SavedIsWhole, LinesOf
  <2>2. CASE k \notin DOMAIN rows
    <3> DEFINE pair == <<u, a>>
    <3>1. lines' = lines \o pair /\ pair \in Seq(Lines)
      BY <1>3, <1>5, <1>10, <2>2
    <3>2. ASSUME NEW l \in DOMAIN rows'
          PROVE  /\ rows'[l].owner = Author[l]
                 /\ LinesOf(rows[l].id)' =
                       <<[in |-> rows'[l].id, key |-> l, role |-> "user"],
                         [in |-> rows'[l].id, key |-> l, role |-> "assistant"]>>
      <4> DEFINE S == {line \in Lines : line.in = rows'[l].id}
      <4>1. LinesOf(rows[l].id)' = Kept(lines', S)
        BY DEF LinesOf
      <4>2. (u \in S <=> row.id = rows'[l].id) /\ (a \in S <=> row.id = rows'[l].id)
        BY <1>3, <1>4
      <4>3. CASE l = k
        <5>1. \A n \in 1..Len(lines) : lines[n] \notin S
          <6> SUFFICES ASSUME NEW n \in 1..Len(lines) PROVE lines[n].in # rows'[l].id
            OBVIOUS
          <6>1. PICK m \in DOMAIN rows : rows[m].id = lines[n].in
            BY <1>6 DEF MemberInv, SavedIsWhole
          <6> QED
            BY <1>2, <1>8, <2>2, <4>3, <6>1
        <5>2. u \in S /\ a \in S
          BY <1>2, <4>2, <4>3
        <5> HIDE DEF S, pair
        <5>3. Kept(lines, S) = << >>
          BY <1>6, <5>1, KeptNone
        <5>4. Kept(pair, S) = pair
          BY <1>3, <5>2, KeptPair DEF pair
        <5>5. Kept(lines \o pair, S) = Kept(lines, S) \o Kept(pair, S)
          BY <1>6, <3>1, KeptConcat
        <5>6. << >> \o pair = pair
          BY <3>1
        <5>7. Kept(lines', S) = pair
          BY <3>1, <5>3, <5>4, <5>5, <5>6
        <5> QED
          BY <1>1, <1>2, <1>4, <4>1, <4>3, <5>7 DEF pair
      <4>4. CASE l # k
        <5>1. l \in DOMAIN rows /\ rows'[l] = rows[l] /\ rows[l].id # row.id
          BY <1>2, <1>8, <4>4
        <5>2. u \notin S /\ a \notin S
          BY <4>2, <5>1
        <5>3. LinesOf(rows[l].id) = Kept(lines, S)
          BY <5>1 DEF LinesOf
        <5> HIDE DEF S, pair
        <5>4. Kept(pair, S) = << >>
          BY <1>3, <5>2, KeptPair DEF pair
        <5>5. Kept(lines \o pair, S) = Kept(lines, S) \o Kept(pair, S)
          BY <1>6, <3>1, KeptConcat
        <5>6. Kept(lines, S) \in Seq(Lines)
          BY <1>6, KeptElements
        <5>7. Kept(lines, S) \o << >> = Kept(lines, S)
          BY <5>6
        <5>8. Kept(lines', S) = LinesOf(rows[l].id)
          BY <3>1, <5>3, <5>4, <5>5, <5>7
        <5>9. /\ rows[l].owner = Author[l]
              /\ LinesOf(rows[l].id) =
                    <<[in |-> rows[l].id, key |-> l, role |-> "user"],
                      [in |-> rows[l].id, key |-> l, role |-> "assistant"]>>
          BY <5>1 DEF MemberInv, SavedIsWhole
        <5> QED
          BY <4>1, <5>1, <5>8, <5>9
      <4> QED
        BY <4>3, <4>4
    <3>3. ASSUME NEW j \in DOMAIN lines'
          PROVE  \E l \in DOMAIN rows' : rows'[l].id = lines'[j].in
      <4> DEFINE all == lines \o pair
      <4>1. /\ lines' = all /\ Len(pair) = 2 /\ pair[1] = u /\ pair[2] = a
        BY <3>1
      <4> HIDE DEF pair
      <4>2. /\ all \in Seq(Lines) /\ Len(all) = Len(lines) + Len(pair)
            /\ \A n \in 1..Len(lines) : all[n] = lines[n]
            /\ \A n \in 1..Len(pair) : all[Len(lines) + n] = pair[n]
        BY <1>6, <3>1
      <4> HIDE DEF all
      <4>3. j \in 1..Len(all) /\ Len(lines) \in Nat
        BY <1>6, <4>1, <4>2
      <4>4. \/ j \in 1..Len(lines) /\ all[j] = lines[j]
            \/ all[j] = u \/ all[j] = a
        BY <4>1, <4>2, <4>3
      <4>5. CASE all[j] = u \/ all[j] = a
        BY <1>2, <1>4, <4>1, <4>5
      <4>6. CASE j \in 1..Len(lines) /\ all[j] = lines[j]
        <5>1. PICK l \in DOMAIN rows : rows[l].id = lines[j].in
          BY <1>6, <4>6 DEF MemberInv, SavedIsWhole
        <5>2. l \in DOMAIN rows' /\ rows'[l] = rows[l]
          BY <1>2, <2>2, <5>1
        <5> QED
          BY <4>1, <4>6, <5>1, <5>2
      <4> QED
        BY <4>4, <4>5, <4>6
    <3> QED
      BY <3>2, <3>3 DEF SavedIsWhole
  <2> QED
    BY <2>1, <2>2
<1> QED
  BY <1>9, <1>11, <1>12, <1>13, <1>14, <1>15 DEF MemberInv

\* Every step of a caller keeps the invariant.
LEMMA WorkStep ==
    ASSUME MemberInv, NEW c \in Callers, Work(c)
    PROVE  MemberInv'
<1>1. CASE Acquire(c)
  BY <1>1, MoveStep DEF Acquire
<1>2. CASE FindRow(c)
  BY <1>2, FindRowStep
<1>3. CASE ReadContext(c)
  BY <1>3, ReadContextStep
<1>4. CASE ReadLines(c)
  BY <1>4, ReadLinesStep
<1>5. CASE Shown(c)
  BY <1>5, EndStep DEF Shown
<1>6. CASE Answered(c)
  BY <1>6, AnsweredStep
<1>7. CASE AnsweredUnsaved(c)
  BY <1>7, EndStep DEF AnsweredUnsaved
<1>8. CASE Unanswered(c)
  BY <1>8, EndStep DEF Unanswered, Fails
<1>9. CASE Delete(c)
  BY <1>9, DeleteStep
<1>10. CASE Upsert(c)
  BY <1>10, UpsertStep
<1>11. CASE UpdateContinued(c)
  BY <1>11, EndStep DEF UpdateContinued, Fails
<1>12. CASE Commit(c)
  BY <1>12, CommittedStep DEF Commit
<1>13. CASE Break(c)
  <2>1. End(c, "failed") /\ UNCHANGED lastId
    BY <1>13 DEF Break, Fails
  <2>2. CASE RolledBack(c)
    BY <2>1, <2>2, EndStep DEF RolledBack
  <2>3. CASE Is(c, "save", "commit") /\ Committed(c)
    BY <2>1, <2>3, CommittedStep
  <2> QED
    BY <1>13, <2>2, <2>3 DEF Break
<1> QED
  BY <1>1, <1>2, <1>3, <1>4, <1>5, <1>6, <1>7, <1>8, <1>9, <1>10, <1>11, <1>12,
     <1>13 DEF Work

\* At the start nothing is saved and every call is idle.
LEMMA MembersStart ==
    ASSUME MemberInit
    PROVE  MemberInv
<1>1. /\ rows = << >> /\ lines = << >> /\ lastId = 0
      /\ calls = [c \in Callers |-> Idle]
  BY DEF MemberInit
<1>2. DOMAIN rows = {} /\ DOMAIN lines = {} /\ rows \in [{} -> Rows]
  BY <1>1
<1>3. /\ Idle.at = "idle" /\ Idle.does = "nothing" /\ Idle.row = NoRow
      /\ Idle.got = << >>
  BY DEF Idle
<1>4. Idle \in CallRecords
  <2>1. << >> \in Seq(Lines) /\ NoId \in 0..MaxId
    BY MemberAssumption DEF NoId
  <2> QED
    BY <2>1 DEF Idle, CallRecords
<1>5. \A c \in Callers : calls[c] = Idle
  BY <1>1
<1>6. MemberTyped
  <2>1. << >> \in Seq(Lines) /\ 0 \in 0..MaxId
    BY MemberAssumption
  <2> QED
    BY <1>1, <1>2, <1>4, <2>1 DEF MemberTyped
<1> HIDE DEF Idle
<1>7. CallsConsistent
  BY <1>3, <1>5 DEF CallsConsistent, Consistent
<1>8. OwnIds /\ TransactionsApart /\ ReadersApart /\ SavedIsWhole
  BY <1>2, <1>3, <1>5 DEF OwnIds, TransactionsApart, ReadersApart, NobodyElses,
                          SavedIsWhole
<1> QED
  BY <1>6, <1>7, <1>8 DEF MemberInv

\* The invariant of the members' history.
LEMMA MemberInvariant == HistorySpec => []MemberInv
<1>1. HistoryInit => MemberInv
  BY MembersStart DEF HistoryInit
<1>2. MemberInv /\ [HistoryNext]_allVars => MemberInv'
  <2> SUFFICES ASSUME MemberInv, [HistoryNext]_allVars PROVE MemberInv'
    OBVIOUS
  <2>1. CASE UNCHANGED memberVars
    BY <2>1 DEF memberVars, MemberInv, MemberTyped, OwnIds, CallsConsistent,
                Consistent, TransactionsApart, ReadersApart, NobodyElses,
                SavedIsWhole, LinesOf
  <2>2. CASE MemberNext
    BY <2>2, AskStep, PressSaveStep, OpenOrDeleteStep, WorkStep DEF MemberNext
  <2> QED
    BY <2>1, <2>2 DEF HistoryNext, allVars
<1> QED
  BY <1>1, <1>2, PTL DEF HistorySpec

\* What is stored is always whole conversations, each its author's, however
\* saves, repetitions, lost connections and deletions overlap.
THEOREM SavedConversationsAreWhole == HistorySpec => []SavedIsWhole
<1>1. MemberInv => SavedIsWhole
  BY DEF MemberInv
<1> QED
  BY <1>1, MemberInvariant, PTL

\* A follow-up question is analysed with its conversation or not at all, and
\* nobody reads what is another member's.
THEOREM FollowUpsAreTheMembersOwn == HistorySpec => []FollowUpsHaveTheirContext
<1>1. MemberInv => FollowUpsHaveTheirContext
  BY DEF MemberInv, CallsConsistent, Consistent, FollowUpsHaveTheirContext
<1> QED
  BY <1>1, MemberInvariant, PTL
=============================================================================
