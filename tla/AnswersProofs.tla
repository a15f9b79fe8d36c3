---------------------------- MODULE AnswersProofs ----------------------------
(***************************************************************************)
(* What a question is answered with (Answers), for any corpora, settings   *)
(* and budgets: the model's answer cites text its documents have, and a    *)
(* search leaves out no candidate that is better in both respects.         *)
(*                                                                         *)
(* First rankings: a place for every member and a member for every place,  *)
(* from which finite sets of numbers have maxima.  Then the rows of the    *)
(* candidate queries, each at a place of its own, their merge and the      *)
(* order of the merged documents.  Then the windows, which end inside the  *)
(* text and before no exception, and what may be cited.  Then the steps;   *)
(* last, why the better candidate is ahead and when progress is reported.  *)
(***************************************************************************)
EXTENDS Answers, NaturalsInduction, WellFoundedInduction, FiniteSetTheorems, TLAPS

-----------------------------------------------------------------------------
(* Ranking *)

\* f and tie are integers on S and together tell its members apart.
Orders(S, f, tie) ==
    /\ IsFiniteSet(S)
    /\ \A x \in S : f[x] \in Int /\ tie[x] \in Int
    /\ \A x, y \in S : f[x] = f[y] /\ tie[x] = tie[y] => x = y

\* A member has a place among the first Cardinality(S).
LEMMA PlaceType ==
    ASSUME NEW S, NEW f, NEW tie, Orders(S, f, tie), NEW x \in S
    PROVE  /\ IsFiniteSet(Ahead(x, S, f, tie))
           /\ Place(x, S, f, tie) \in 1 .. Cardinality(S)
<1> DEFINE A == Ahead(x, S, f, tie)
<1>1. A \subseteq S \ {x}
  BY DEF Ahead, Orders
<1>2. IsFiniteSet(S) /\ S \ {x} \subseteq S
  BY DEF Orders
<1>3. IsFiniteSet(S \ {x}) /\ Cardinality(S \ {x}) = Cardinality(S) - 1
  BY <1>2, FS_RemoveElement
<1> HIDE DEF A
<1>4. IsFiniteSet(A) /\ Cardinality(A) <= Cardinality(S) - 1
  BY <1>1, <1>3, FS_Subset
<1>5. Cardinality(A) \in Nat /\ Cardinality(S) \in Nat
  BY <1>2, <1>4, FS_CardinalityType
<1>6. Place(x, S, f, tie) = Cardinality(A) + 1
  BY DEF Place, A
<1> QED
  BY <1>4, <1>5, <1>6 DEF A

\* Whoever is ahead has a lower place.
LEMMA PlaceRises ==
    ASSUME NEW S, NEW f, NEW tie, Orders(S, f, tie), NEW x \in S, NEW y \in S,
           x \in Ahead(y, S, f, tie)
    PROVE  Place(x, S, f, tie) < Place(y, S, f, tie)
<1> DEFINE A == Ahead(x, S, f, tie)
           B == Ahead(y, S, f, tie)
<1>1. x \notin A /\ A \cup {x} \subseteq B
  <2>1. /\ f[x] \in Int /\ f[y] \in Int /\ tie[x] \in Int /\ tie[y] \in Int
        /\ \A z \in S : f[z] \in Int /\ tie[z] \in Int
    BY DEF Orders
  <2>2. x \notin A
    BY <2>1 DEF Ahead
  <2>3. ASSUME NEW z \in A PROVE z \in B
    <3>1. z \in S /\ (f[z] > f[x] \/ (f[z] = f[x] /\ tie[z] < tie[x]))
      BY <2>3 DEF Ahead
    <3>2. f[x] > f[y] \/ (f[x] = f[y] /\ tie[x] < tie[y])
      BY DEF Ahead
    <3>3. f[z] > f[y] \/ (f[z] = f[y] /\ tie[z] < tie[y])
      BY <2>1, <3>1, <3>2
    <3> QED
      BY <3>1, <3>3 DEF Ahead
  <2> QED
    BY <2>2, <2>3
<1>2. IsFiniteSet(A) /\ IsFiniteSet(B)
  BY PlaceType
<1>3. Place(x, S, f, tie) = Cardinality(A) + 1 /\ Place(y, S, f, tie) = Cardinality(B) + 1
  BY DEF Place
<1> HIDE DEF A, B
<1>4. IsFiniteSet(A \cup {x}) /\ Cardinality(A \cup {x}) = Cardinality(A) + 1
  BY <1>1, <1>2, FS_AddElement
<1>5. Cardinality(A \cup {x}) <= Cardinality(B)
  BY <1>1, <1>2, FS_Subset
<1>6. Cardinality(A) \in Nat /\ Cardinality(B) \in Nat
  BY <1>2, FS_CardinalityType
<1> QED
  BY <1>3, <1>4, <1>5, <1>6

\* Different members, one of them is ahead.
LEMMA AheadTotal ==
    ASSUME NEW S, NEW f, NEW tie, Orders(S, f, tie), NEW x \in S, NEW y \in S, x # y
    PROVE  x \in Ahead(y, S, f, tie) \/ y \in Ahead(x, S, f, tie)
  BY DEF Orders, Ahead

\* No two have the same place, ...
LEMMA PlaceApart ==
    ASSUME NEW S, NEW f, NEW tie, Orders(S, f, tie), NEW x \in S, NEW y \in S,
           Place(x, S, f, tie) = Place(y, S, f, tie)
    PROVE  x = y
<1>1. Place(x, S, f, tie) \in Int /\ Place(y, S, f, tie) \in Int
  BY PlaceType
<1>2. SUFFICES ASSUME x # y PROVE FALSE
  OBVIOUS
<1>3. CASE x \in Ahead(y, S, f, tie)
  BY <1>1, <1>3, PlaceRises
<1>4. CASE y \in Ahead(x, S, f, tie)
  BY <1>1, <1>4, PlaceRises
<1> QED
  BY <1>2, <1>3, <1>4, AheadTotal

\* ... and every place is taken.
LEMMA PlaceTaken ==
    ASSUME NEW S, NEW f, NEW tie, Orders(S, f, tie), NEW i \in 1 .. Cardinality(S)
    PROVE  \E x \in S : Place(x, S, f, tie) = i
<1> DEFINE n == Cardinality(S)
           place(x) == Place(x, S, f, tie)
           g == [x \in S |-> place(x)]
<1>1. IsFiniteSet(S) /\ n \in Nat
  BY FS_CardinalityType DEF Orders
<1>2. \A x \in S : place(x) \in 1 .. n
  BY PlaceType
<1>3. \A x, y \in S : place(x) = place(y) => x = y
  BY PlaceApart
<1> HIDE DEF place, n
<1>4. g \in Injection(S, 1 .. n)
  BY <1>2, <1>3 DEF Injection, IsInjective
<1>5. IsFiniteSet(1 .. n) /\ Cardinality(1 .. n) = n
  BY <1>1, FS_Interval
<1>6. g \in Surjection(S, 1 .. n)
  <2> HIDE DEF g
  <2> QED
    BY <1>4, <1>5, FS_Injection DEF n
<1>7. \E x \in S : g[x] = i
  BY <1>6 DEF Surjection, n
<1> QED
  BY <1>7 DEF place

\* The ranking is made of the members, each at its place.
LEMMA RankedByIs ==
    ASSUME NEW S, NEW f, NEW tie, Orders(S, f, tie)
    PROVE  /\ RankedBy(S, f, tie) \in Seq(S)
           /\ Len(RankedBy(S, f, tie)) = Cardinality(S)
           /\ DOMAIN RankedBy(S, f, tie) = 1 .. Cardinality(S)
           /\ \A i \in 1 .. Cardinality(S) :
                Place(RankedBy(S, f, tie)[i], S, f, tie) = i
<1> DEFINE n == Cardinality(S)
           R == RankedBy(S, f, tie)
<1>1. n \in Nat
  BY FS_CardinalityType DEF Orders
<1>2. R = [i \in 1 .. n |-> CHOOSE x \in S : Place(x, S, f, tie) = i]
  BY DEF RankedBy
<1>3. ASSUME NEW i \in 1 .. n PROVE R[i] \in S /\ Place(R[i], S, f, tie) = i
  <2>1. \E x \in S : Place(x, S, f, tie) = i
    BY PlaceTaken
  <2>2. R[i] = CHOOSE x \in S : Place(x, S, f, tie) = i
    BY <1>2
  <2> HIDE DEF R
  <2> QED
    BY <2>1, <2>2
<1>4. R = [i \in 1 .. n |-> R[i]]
  BY <1>2
<1> HIDE DEF R, n
<1>5. R \in Seq(S) /\ Len(R) = n /\ DOMAIN R = 1 .. n
  BY <1>1, <1>3, <1>4
<1> QED
  BY <1>3, <1>5 DEF R, n

-----------------------------------------------------------------------------
(* Maxima: what is first in a ranking has nothing ahead of it *)

\* A finite set ordered by f has a highest member.
LEMMA HighestExists ==
    ASSUME NEW S, IsFiniteSet(S), S # {}, NEW f, \A x \in S : f[x] \in Int,
           \A x, y \in S : f[x] = f[y] => x = y
    PROVE  \E x \in S : \A y \in S : f[y] <= f[x]
<1> DEFINE tie == [x \in S |-> 0]
<1>1. Orders(S, f, tie)
  BY DEF Orders
<1> HIDE DEF tie
<1>2. Cardinality(S) \in Nat /\ Cardinality(S) # 0
  BY FS_CardinalityType, FS_EmptySet
<1>3. PICK x \in S : Place(x, S, f, tie) = 1
  BY <1>1, <1>2, PlaceTaken
<1>4. Ahead(x, S, f, tie) = {}
  BY <1>1, <1>3, PlaceType, FS_CardinalityType, FS_EmptySet DEF Place
<1>5. \A y \in S : ~(f[y] > f[x])
  BY <1>4 DEF Ahead
<1> QED
  BY <1>5

\* A finite set of integers has a maximum.
LEMMA MaxIs ==
    ASSUME NEW S, S \subseteq Int, IsFiniteSet(S), S # {}
    PROVE  Max(S) \in S /\ \A y \in S : y <= Max(S)
<1> DEFINE f == [x \in S |-> x]
<1>1. \E x \in S : \A y \in S : f[y] <= f[x]
  <2>1. /\ \A x \in S : f[x] \in Int
        /\ \A x, y \in S : f[x] = f[y] => x = y
    OBVIOUS
  <2> HIDE DEF f
  <2> QED
    BY <2>1, HighestExists
<1>2. \E x \in S : \A y \in S : x >= y
  BY <1>1
<1> QED
  BY <1>2 DEF Max

\* The best of scores is one of them or 0.
LEMMA BestIs ==
    ASSUME NEW S, S \subseteq Int, IsFiniteSet(S)
    PROVE  /\ Best(S) \in Nat /\ Best(S) \in S \cup {0}
           /\ \A y \in S : y <= Best(S)
<1>1. IsFiniteSet(S \cup {0}) /\ S \cup {0} \subseteq Int
  BY FS_AddElement
<1>2. Max(S \cup {0}) \in S \cup {0} /\ \A y \in S \cup {0} : y <= Max(S \cup {0})
  BY <1>1, MaxIs
<1> DEFINE m == Max(S \cup {0})
<1>3. m \in Int /\ 0 <= m /\ \A y \in S : y <= m
  <2> HIDE DEF m
  <2>1. m \in S \cup {0} /\ \A y \in S \cup {0} : y <= m
    BY <1>2 DEF m
  <2> QED
    BY <2>1
<1> HIDE DEF m
<1>4. Best(S) = m /\ m \in S \cup {0}
  BY <1>2 DEF Best, m
<1> QED
  BY <1>3, <1>4

-----------------------------------------------------------------------------
(* Candidates *)

\* What a finite set is mapped onto is finite.
LEMMA ImageFinite ==
    ASSUME NEW S, IsFiniteSet(S), NEW T, NEW h, \A y \in T : \E x \in S : h[x] = y
    PROVE  IsFiniteSet(T)
<1> DEFINE R == {x \in S : h[x] \in T}
           g == [x \in R |-> h[x]]
<1>1. IsFiniteSet(R)
  BY FS_Subset
<1>2. g \in Surjection(R, T)
  BY DEF Surjection
<1> HIDE DEF R, g
<1> QED
  BY <1>1, <1>2, FS_Surjection

\* The statements of a search: 0 is the vector search, t that of term t.
Statements == Terms \cup {0}

\* Rows of statement l: where each lies among all rows, and what it stands for.
AreRowsOf(rows, l, corpus) ==
    /\ \A r \in rows :
        /\ \E p \in 1 .. CandidateLimit : r.at = l * CandidateLimit + p
        /\ r.chunk \in corpus /\ r.doc = r.chunk.doc
        /\ r.near \in Nat /\ r.match \in Nat
    /\ \A r, s \in rows : r.at = s.at => r = s

\* The places of chunks are numbers that tell them apart.
LEMMA PlacesAre ==
    ASSUME NEW corpus, IsCorpus(corpus), NEW S, S \subseteq corpus
    PROVE  /\ IsFiniteSet(S)
           /\ \A c \in S : Places(S)[c] \in Int
           /\ \A c, e \in S : Places(S)[c] = Places(S)[e] => c = e
<1> DEFINE f == [o \in S |-> -o.doc]
           tie == [o \in S |-> o.n]
<1>1. IsFiniteSet(S)
  BY FS_Subset DEF IsCorpus
<1>2. \A c \in S : f[c] = -c.doc /\ tie[c] = c.n /\ c.doc \in Nat /\ c.n \in Nat
  BY DEF IsCorpus
<1>3. \A c, e \in S : c.doc = e.doc /\ c.n = e.n => c = e
  BY DEF IsCorpus
<1>4. \A c \in S : Places(S)[c] = Place(c, S, f, tie)
  BY DEF Places
<1> HIDE DEF f, tie
<1>5. Orders(S, f, tie)
  BY <1>1, <1>2, <1>3 DEF Orders
<1> QED
  BY <1>1, <1>4, <1>5, PlaceType, PlaceApart

\* The vector search.
LEMMA VectorRowsAre ==
    ASSUME NEW corpus, IsCorpus(corpus), NEW types
    PROVE  /\ AreRowsOf(VectorRows(corpus, types), 0, corpus)
           /\ \A r \in VectorRows(corpus, types) : r.match = 0 /\ r.chunk.type \in types
<1> DEFINE kept == {c \in corpus : /\ c.type \in types
                                   /\ c.near # Chunkless
                                   /\ types = {"law"} => c.near # Unembedded}
           f == [k \in kept |-> k.near]
           place(c) == Place(c, kept, f, Places(kept))
           row(c) == [at |-> place(c), doc |-> c.doc, chunk |-> c,
                      near |-> Best({c.near}), match |-> 0]
           rows == {row(c) : c \in {c \in kept : place(c) <= CandidateLimit}}
<1>1. VectorRows(corpus, types) = rows
  BY DEF VectorRows
<1>2. /\ kept \subseteq corpus /\ \A c \in kept : c.near \in Int /\ f[c] = c.near
      /\ \A c \in kept : c.type \in types
  BY DEF IsCorpus
<1> HIDE DEF kept, f
<1>3. Orders(kept, f, Places(kept))
  BY <1>2, PlacesAre DEF Orders
<1>4. \A c \in kept : place(c) \in Nat /\ place(c) >= 1
  BY <1>3, PlaceType
<1>5. \A c, e \in kept : place(c) = place(e) => c = e
  BY <1>3, PlaceApart
<1>6. \A c \in kept : Best({c.near}) \in Nat
  BY <1>2, BestIs, FS_Singleton
<1> HIDE DEF place
<1>7. ASSUME NEW r \in rows
      PROVE  /\ \E p \in 1 .. CandidateLimit : r.at = 0 * CandidateLimit + p
             /\ r.chunk \in corpus /\ r.doc = r.chunk.doc
             /\ r.near \in Nat /\ r.match = 0 /\ r.chunk.type \in types
  <2>1. PICK c \in kept : place(c) <= CandidateLimit /\ r = row(c)
    OBVIOUS
  <2>2. r.at = place(c) /\ r.doc = c.doc /\ r.chunk = c /\ r.near = Best({c.near}) /\ r.match = 0
    BY <2>1
  <2>3. place(c) \in 1 .. CandidateLimit /\ r.at = 0 * CandidateLimit + place(c)
    BY <1>4, <2>1, <2>2, RetrievalAssumption
  <2> QED
    BY <1>2, <1>6, <2>2, <2>3
<1>8. ASSUME NEW r \in rows, NEW s \in rows, r.at = s.at PROVE r = s
  <2>1. PICK c \in kept : r = row(c)
    OBVIOUS
  <2>2. PICK e \in kept : s = row(e)
    OBVIOUS
  <2>3. r.at = place(c) /\ s.at = place(e)
    BY <2>1, <2>2
  <2> QED
    BY <1>5, <1>8, <2>1, <2>2, <2>3
<1> HIDE DEF rows
<1> QED
  BY <1>1, <1>7, <1>8 DEF AreRowsOf

\* The keyword search for one term.
LEMMA TermRowsAre ==
    ASSUME NEW corpus, IsCorpus(corpus), NEW types, NEW t \in Terms
    PROVE  /\ AreRowsOf(TermRows(corpus, types, t), t, corpus)
           /\ \A r \in TermRows(corpus, types, t) : r.near = 0 /\ r.chunk.type \in types
<1> DEFINE hits == {c \in corpus : c.type \in types /\ c.found[t] > 0}
           best == {c \in hits : \A h \in hits : h.doc = c.doc =>
                      h.found[t] < c.found[t] \/ (h.found[t] = c.found[t] /\ c.n <= h.n)}
           f == [b \in best |-> b.found[t]]
           tie == [b \in best |-> b.doc]
           place(c) == Place(c, best, f, tie)
           row(c) == [at |-> t * CandidateLimit + place(c), doc |-> c.doc, chunk |-> c,
                      near |-> 0, match |-> c.found[t]]
           rows == {row(c) : c \in {c \in best : place(c) <= CandidateLimit}}
<1>1. TermRows(corpus, types, t) = rows
  BY DEF TermRows
<1>2. /\ best \subseteq corpus /\ IsFiniteSet(corpus)
      /\ \A c \in best : /\ c.found[t] \in Nat /\ c.doc \in Nat /\ c.n \in Nat
                         /\ f[c] = c.found[t] /\ tie[c] = c.doc /\ c.type \in types
  BY DEF IsCorpus
<1>3. \A c, e \in best : c.doc = e.doc => c = e
  <2>1. ASSUME NEW c \in best, NEW e \in best, c.doc = e.doc PROVE c = e
    <3>1. e.found[t] < c.found[t] \/ (e.found[t] = c.found[t] /\ c.n <= e.n)
      BY <2>1
    <3>2. c.found[t] < e.found[t] \/ (c.found[t] = e.found[t] /\ e.n <= c.n)
      BY <2>1
    <3>3. c.n = e.n
      <4>1. c.found[t] \in Nat /\ e.found[t] \in Nat /\ c.n \in Nat /\ e.n \in Nat
        BY <1>2
      <4> HIDE DEF best
      <4> QED
        BY <3>1, <3>2, <4>1
    <3>4. c \in corpus /\ e \in corpus
      BY <1>2
    <3> HIDE DEF best
    <3> QED
      BY <2>1, <3>3, <3>4 DEF IsCorpus
  <2> QED
    BY <2>1
<1> HIDE DEF best, f, tie
<1>4. Orders(best, f, tie)
  BY <1>2, <1>3, FS_Subset DEF Orders
<1>5. \A c \in best : place(c) \in Nat /\ place(c) >= 1
  BY <1>4, PlaceType
<1>6. \A c, e \in best : place(c) = place(e) => c = e
  BY <1>4, PlaceApart
<1>7. t * CandidateLimit \in Nat /\ CandidateLimit \in Nat
  BY RetrievalAssumption
<1> HIDE DEF place
<1>8. ASSUME NEW r \in rows
      PROVE  /\ \E p \in 1 .. CandidateLimit : r.at = t * CandidateLimit + p
             /\ r.chunk \in corpus /\ r.doc = r.chunk.doc
             /\ r.near = 0 /\ r.match \in Nat /\ r.chunk.type \in types
  <2>1. PICK c \in best : place(c) <= CandidateLimit /\ r = row(c)
    OBVIOUS
  <2>2. /\ r.at = t * CandidateLimit + place(c) /\ r.doc = c.doc /\ r.chunk = c
        /\ r.near = 0 /\ r.match = c.found[t]
    BY <2>1
  <2>3. place(c) \in 1 .. CandidateLimit
    BY <1>5, <1>7, <2>1
  <2> QED
    BY <1>2, <2>2, <2>3
<1>9. ASSUME NEW r \in rows, NEW s \in rows, r.at = s.at PROVE r = s
  <2>1. PICK c \in best : r = row(c)
    OBVIOUS
  <2>2. PICK e \in best : s = row(e)
    OBVIOUS
  <2>3. r.at = t * CandidateLimit + place(c) /\ s.at = t * CandidateLimit + place(e)
    BY <2>1, <2>2
  <2> DEFINE k == t * CandidateLimit
  <2>4. place(c) = place(e)
    <3>1. k \in Nat /\ r.at = k + place(c) /\ s.at = k + place(e)
      BY <1>7, <2>3
    <3> HIDE DEF k
    <3>2. \A a, b \in Nat : k + a = k + b => a = b
      BY <3>1
    <3>3. place(c) \in Nat /\ place(e) \in Nat /\ k + place(c) = k + place(e)
      BY <1>5, <1>9, <3>1
    <3> QED
      BY <3>2, <3>3
  <2> QED
    BY <1>6, <2>1, <2>2, <2>4
<1> HIDE DEF rows
<1> QED
  BY <1>1, <1>8, <1>9 DEF AreRowsOf

\* Rows at different places; this many places suffice for them.
AreRows(rows, corpus) ==
    /\ IsFiniteSet(rows)
    /\ \A r \in rows : /\ r.at \in Int /\ r.chunk \in corpus /\ r.doc = r.chunk.doc
                       /\ r.near \in Nat /\ r.match \in Nat
    /\ \A r, s \in rows : r.at = s.at => r = s

\* A number of two digits has only these two.
LEMMA Digits ==
    ASSUME NEW w \in Nat, NEW k \in Nat, NEW l \in Nat, NEW p \in 1 .. w, NEW q \in 1 .. w,
           k * w + p = l * w + q
    PROVE  k = l /\ p = q
<1>1. ASSUME NEW a \in Nat, NEW b \in Nat, NEW x \in 1 .. w, NEW y \in 1 .. w, a < b
      PROVE  a * w + x < b * w + y
  <2>1. PICK c \in Nat : b = a + 1 + c
    <3>1. b - a - 1 \in Nat /\ b = a + 1 + (b - a - 1)
      BY <1>1
    <3> QED
      BY <3>1
  <2>2. b * w = a * w + w + c * w
    BY <2>1
  <2>3. c * w \in Nat /\ a * w \in Nat
    OBVIOUS
  <2> DEFINE aw == a * w
             bw == b * w
             cw == c * w
  <2> HIDE DEF aw, bw, cw
  <2>4. bw = aw + w + cw /\ aw \in Nat /\ cw \in Nat
    BY <2>2, <2>3 DEF aw, bw, cw
  <2>5. aw + x < bw + y
    BY <2>4
  <2> QED
    BY <2>5 DEF aw, bw
<1>2. k * w \in Nat /\ l * w \in Nat
  OBVIOUS
<1>3. ~(k < l) /\ ~(l < k)
  BY <1>1, <1>2
<1>4. k = l
  BY <1>3
<1> DEFINE m == k * w
<1>5. m \in Nat /\ m + p = m + q
  BY <1>2, <1>4
<1> HIDE DEF m
<1>6. p = q
  BY <1>5
<1> QED
  BY <1>4, <1>6

\* All rows of a search.
LEMMA RowsAre ==
    ASSUME NEW corpus, IsCorpus(corpus), NEW types
    PROVE  AreRows(VectorRows(corpus, types) \cup KeywordRows(corpus, types), corpus)
<1> DEFINE rowsOf(l) == IF l = 0 THEN VectorRows(corpus, types) ELSE TermRows(corpus, types, l)
           rows == VectorRows(corpus, types) \cup KeywordRows(corpus, types)
           w == CandidateLimit
<1>1. /\ Statements \subseteq Nat /\ IsFiniteSet(Statements) /\ w \in Nat
      /\ 0 \notin Terms
  BY RetrievalAssumption, FS_AddElement DEF Statements
<1>2. \A l \in Statements : AreRowsOf(rowsOf(l), l, corpus)
  BY <1>1, VectorRowsAre, TermRowsAre DEF Statements
<1>3. \A r \in rows : \E l \in Statements : r \in rowsOf(l)
  <2>1. ASSUME NEW r \in VectorRows(corpus, types) PROVE 0 \in Statements /\ r \in rowsOf(0)
    BY <2>1 DEF Statements
  <2>2. ASSUME NEW r \in KeywordRows(corpus, types)
        PROVE  \E l \in Statements : r \in rowsOf(l)
    <3>1. PICK t \in Terms : r \in TermRows(corpus, types, t)
      BY <2>2 DEF KeywordRows
    <3>2. t # 0 /\ t \in Statements
      BY <1>1 DEF Statements
    <3> QED
      BY <3>1, <3>2
  <2> HIDE DEF rowsOf
  <2> QED
    BY <2>1, <2>2
<1> HIDE DEF rows, rowsOf
<1>4. ASSUME NEW r \in rows
      PROVE  \E l \in Statements, p \in 1 .. w :
                /\ r \in rowsOf(l) /\ r.at = l * w + p
                /\ r.chunk \in corpus /\ r.doc = r.chunk.doc
                /\ r.near \in Nat /\ r.match \in Nat
  <2>1. PICK l \in Statements : r \in rowsOf(l)
    BY <1>3
  <2>2. AreRowsOf(rowsOf(l), l, corpus)
    BY <1>2
  <2>3. PICK p \in 1 .. w : r.at = l * w + p
    BY <2>1, <2>2 DEF AreRowsOf
  <2>4. /\ r.chunk \in corpus /\ r.doc = r.chunk.doc
        /\ r.near \in Nat /\ r.match \in Nat
    BY <2>1, <2>2 DEF AreRowsOf
  <2> QED
    BY <2>1, <2>3, <2>4
<1>5. ASSUME NEW r \in rows, NEW s \in rows, r.at = s.at PROVE r = s
  <2>1. PICK l \in Statements, p \in 1 .. w : r \in rowsOf(l) /\ r.at = l * w + p
    BY <1>4
  <2>2. PICK k \in Statements, q \in 1 .. w : s \in rowsOf(k) /\ s.at = k * w + q
    BY <1>4
  <2>3. l \in Nat /\ k \in Nat /\ w \in Nat /\ l * w + p = k * w + q
    BY <1>1, <1>5, <2>1, <2>2
  <2>4. l = k
    <3> HIDE DEF w
    <3> QED
      BY <2>3, Digits
  <2>5. AreRowsOf(rowsOf(l), l, corpus) /\ r \in rowsOf(l) /\ s \in rowsOf(l)
    BY <1>2, <2>1, <2>2, <2>4
  <2> QED
    BY <1>5, <2>5 DEF AreRowsOf
<1>6. \A l \in Statements, p \in 1 .. w : l * w + p \in Int
  <2>1. \A l \in Nat : l * w \in Nat
    BY <1>1
  <2> QED
    BY <1>1, <2>1
<1>7. IsFiniteSet(rows)
  <2> DEFINE P == Statements \X (1 .. w)
             h == [q \in P |-> CHOOSE r \in rows : r.at = q[1] * w + q[2]]
  <2>1. IsFiniteSet(P)
    <3>1. IsFiniteSet(1 .. w)
      BY <1>1, FS_Interval
    <3> QED
      BY <1>1, <3>1, FS_Product
  <2>2. ASSUME NEW r \in rows PROVE \E q \in P : h[q] = r
    <3>1. PICK l \in Statements, p \in 1 .. w : r.at = l * w + p
      BY <1>4
    <3>2. <<l, p>> \in P /\ h[<<l, p>>] = CHOOSE s \in rows : s.at = l * w + p
      OBVIOUS
    <3>3. h[<<l, p>>] \in rows /\ h[<<l, p>>].at = l * w + p
      <4> HIDE DEF h
      <4> QED
        BY <3>1, <3>2
    <3> HIDE DEF h, P
    <3>4. h[<<l, p>>] = r
      BY <1>5, <3>1, <3>3
    <3> QED
      BY <3>2, <3>4
  <2> HIDE DEF h, P
  <2> QED
    BY <2>1, <2>2, ImageFinite
<1>8. \A r \in rows : /\ r.at \in Int /\ r.chunk \in corpus /\ r.doc = r.chunk.doc
                     /\ r.near \in Nat /\ r.match \in Nat
  BY <1>4, <1>6
<1>9. AreRows(rows, corpus)
  BY <1>5, <1>7, <1>8 DEF AreRows
<1> QED
  BY <1>9 DEF rows

-----------------------------------------------------------------------------
(* The merge *)

\* A merged document is one of the corpus, and no two came at one place.
AreMerged(merged, corpus) ==
    /\ IsFiniteSet(DOMAIN merged)
    /\ \A d \in DOMAIN merged :
        /\ d \in Nat /\ merged[d].at \in Int
        /\ merged[d].chunk \in corpus /\ merged[d].chunk.doc = d
        /\ merged[d].near \in Nat /\ merged[d].match \in Nat
    /\ \A d, e \in DOMAIN merged : merged[d].at = merged[e].at => d = e

\* Of rows at different places one is the first.
LEMMA FirstIs ==
    ASSUME NEW rows, NEW corpus, AreRows(rows, corpus), rows # {}
    PROVE  First(rows) \in rows
<1> DEFINE f == [r \in rows |-> -r.at]
<1>1. /\ \A r \in rows : f[r] \in Int /\ f[r] = -r.at /\ r.at \in Int
      /\ \A r, s \in rows : f[r] = f[s] => r = s
      /\ IsFiniteSet(rows)
  BY DEF AreRows
<1> HIDE DEF f
<1>2. PICK r \in rows : \A s \in rows : f[s] <= f[r]
  BY <1>1, HighestExists
<1>3. \A s \in rows : r.at <= s.at
  BY <1>1, <1>2
<1> QED
  BY <1>3 DEF First

\* The best of a field of finitely many rows.
LEMMA BestOfRows ==
    ASSUME NEW rows, IsFiniteSet(rows), \A r \in rows : r.near \in Nat /\ r.match \in Nat
    PROVE  /\ IsFiniteSet({r.near : r \in rows}) /\ {r.near : r \in rows} \subseteq Int
           /\ IsFiniteSet({r.match : r \in rows}) /\ {r.match : r \in rows} \subseteq Int
           /\ Best({r.near : r \in rows}) \in Nat
           /\ Best({r.match : r \in rows}) \in Nat
<1> DEFINE A == {r.near : r \in rows}
           B == {r.match : r \in rows}
           f == [r \in rows |-> r.near]
           g == [r \in rows |-> r.match]
<1>1. A \subseteq Int /\ B \subseteq Int
  OBVIOUS
<1>2. \A y \in A : \E r \in rows : f[r] = y
  OBVIOUS
<1>3. \A y \in B : \E r \in rows : g[r] = y
  OBVIOUS
<1> HIDE DEF A, B, f, g
<1>4. IsFiniteSet(A)
  BY <1>2, ImageFinite
<1>5. IsFiniteSet(B)
  BY <1>3, ImageFinite
<1>6. Best(A) \in Nat /\ Best(B) \in Nat
  BY <1>1, <1>4, <1>5, BestIs
<1> QED
  BY <1>1, <1>4, <1>5, <1>6 DEF A, B

\* Every document of the rows is merged from its own.
LEMMA MergedAre ==
    ASSUME NEW corpus, IsCorpus(corpus), NEW rows, AreRows(rows, corpus)
    PROVE  AreMerged(Merged(rows), corpus)
<1> DEFINE docs == {r.doc : r \in rows}
           m == Merged(rows)
           h == [r \in rows |-> r.doc]
<1>1. DOMAIN m = docs
  BY DEF Merged
<1>2. IsFiniteSet(docs)
  <2>1. \A d \in docs : \E r \in rows : h[r] = d
    OBVIOUS
  <2>2. IsFiniteSet(rows)
    BY DEF AreRows
  <2> HIDE DEF docs, h
  <2> QED
    BY <2>1, <2>2, ImageFinite
<1>3. ASSUME NEW d \in docs
      PROVE  /\ First(Of(d, rows)) \in rows /\ First(Of(d, rows)).doc = d
             /\ m[d].at = First(Of(d, rows)).at /\ m[d].chunk = First(Of(d, rows)).chunk
             /\ m[d].near \in Nat /\ m[d].match \in Nat
  <2> DEFINE own == Of(d, rows)
  <2>1. own \subseteq rows /\ own # {} /\ \A r \in own : r.doc = d
    BY DEF Of
  <2>2. m[d] = [at |-> First(own).at, chunk |-> First(own).chunk,
                near |-> Best({r.near : r \in own}), match |-> KeywordScore(own)]
    BY DEF Merged
  <2> HIDE DEF own, m
  <2>3. AreRows(own, corpus)
    <3>1. IsFiniteSet(own)
      BY <2>1, FS_Subset DEF AreRows
    <3> QED
      BY <2>1, <3>1 DEF AreRows
  <2>4. First(own) \in own
    BY <2>1, <2>3, FirstIs
  <2>5. Best({r.near : r \in own}) \in Nat /\ Best({r.match : r \in own}) \in Nat
    BY <2>3, BestOfRows DEF AreRows
  <2>6. /\ m[d].at = First(own).at /\ m[d].chunk = First(own).chunk
        /\ m[d].near = Best({r.near : r \in own}) /\ m[d].match = Best({r.match : r \in own})
    BY <2>2 DEF KeywordScore
  <2>7. First(own) \in rows /\ First(own).doc = d
    BY <2>1, <2>4
  <2> QED
    BY <2>5, <2>6, <2>7 DEF own
<1> HIDE DEF m
<1>4. ASSUME NEW d \in docs
      PROVE  /\ d \in Nat /\ m[d].at \in Int /\ m[d].chunk \in corpus /\ m[d].chunk.doc = d
             /\ m[d].near \in Nat /\ m[d].match \in Nat
  <2>1. \A c \in corpus : c.doc \in Nat
    BY DEF IsCorpus
  <2> QED
    BY <1>3, <2>1 DEF AreRows
<1>5. ASSUME NEW d \in docs, NEW e \in docs, m[d].at = m[e].at PROVE d = e
  <2>1. First(Of(d, rows)) = First(Of(e, rows))
    BY <1>3, <1>5 DEF AreRows
  <2> QED
    BY <1>3, <2>1
<1> HIDE DEF docs
<1> QED
  BY <1>1, <1>2, <1>4, <1>5 DEF AreMerged, m

-----------------------------------------------------------------------------
(* The ranking of the merged documents *)

\* The first k of a sequence.
LEMMA TopIs ==
    ASSUME NEW T, NEW s \in Seq(T), NEW k \in Nat
    PROVE  /\ Top(s, k) \in Seq(T) /\ Len(Top(s, k)) <= k
           /\ Len(Top(s, k)) \in {k, Len(s)} /\ Len(Top(s, k)) <= Len(s)
           /\ DOMAIN Top(s, k) = 1 .. Len(Top(s, k))
           /\ \A i \in 1 .. Len(Top(s, k)) : Top(s, k)[i] = s[i] /\ i \in 1 .. Len(s)
<1> DEFINE m == Min({k, Len(s)})
<1>1. Len(s) \in Nat
  OBVIOUS
<1>2. m \in {k, Len(s)} /\ m <= k /\ m <= Len(s)
  <2>1. \E x \in {k, Len(s)} : \A y \in {k, Len(s)} : x <= y
    BY <1>1
  <2>2. m \in {k, Len(s)} /\ \A y \in {k, Len(s)} : m <= y
    BY <2>1 DEF Min
  <2> QED
    BY <2>2
<1>3. Top(s, k) = SubSeq(s, 1, m)
  BY DEF Top
<1> HIDE DEF m
<1>4. m \in Nat
  BY <1>1, <1>2
<1>5. /\ SubSeq(s, 1, m) \in Seq(T) /\ Len(SubSeq(s, 1, m)) = m
      /\ \A i \in 1 .. m : SubSeq(s, 1, m)[i] = s[i] /\ i \in 1 .. Len(s)
  BY <1>1, <1>2, <1>4
<1>6. DOMAIN SubSeq(s, 1, m) = 1 .. m
  BY <1>5
<1> QED
  BY <1>2, <1>3, <1>5, <1>6

\* Scores of finitely many documents order them.
AreScores(score) ==
    IsFiniteSet(DOMAIN score) /\ \A d \in DOMAIN score : d \in Nat /\ score[d] \in Nat

\* The unit of the reciprocal ranks is the square of a product of two ranks
\* and more.
LEMMA UnitIs ==
    ASSUME NEW n \in Nat
    PROVE  Unit(n) \in Nat /\ Unit(n) >= (RrfK + n) * (RrfK + n)
<1> DEFINE m == RrfK + n
<1>1. m \in Nat /\ m >= 1
  BY RetrievalAssumption
<1>2. Unit(n) = 2 * m * m * m * m
  BY DEF Unit
<1> HIDE DEF m
<1> DEFINE q == m * m
<1>3. q \in Nat /\ q >= 1
  BY <1>1
<1>4. 2 * m * m * m * m = 2 * (q * q)
  BY <1>1
<1> HIDE DEF q
<1>5. q * q \in Nat /\ q * q >= q
  BY <1>3
<1>6. Unit(n) \in Nat /\ Unit(n) >= q
  BY <1>2, <1>4, <1>5, <1>3
<1> QED
  BY <1>6 DEF q, m

\* The rank of a document among those with a score.
LEMMA RankIs ==
    ASSUME NEW score, AreScores(score), NEW d \in DOMAIN score
    PROVE  /\ Orders(DOMAIN score, score, [e \in DOMAIN score |-> e])
           /\ Cardinality(DOMAIN score) \in Nat
           /\ Place(d, DOMAIN score, score, [e \in DOMAIN score |-> e])
                    \in 1 .. Cardinality(DOMAIN score)
<1> DEFINE tie == [e \in DOMAIN score |-> e]
<1>1. \A e \in DOMAIN score : tie[e] = e
  OBVIOUS
<1> HIDE DEF tie
<1>2. Orders(DOMAIN score, score, tie)
  BY <1>1 DEF Orders, AreScores
<1>3. Place(d, DOMAIN score, score, tie) \in 1 .. Cardinality(DOMAIN score)
  BY <1>2, PlaceType
<1>4. Cardinality(DOMAIN score) \in Nat
  BY FS_CardinalityType DEF AreScores
<1> QED
  BY <1>2, <1>3, <1>4 DEF tie

\* A reciprocal rank is a number.
LEMMA ReciprocalType ==
    ASSUME NEW score, AreScores(score), NEW d \in DOMAIN score
    PROVE  Reciprocal(d, score) \in Int
<1> DEFINE p == Place(d, DOMAIN score, score, [e \in DOMAIN score |-> e])
           u == Unit(Cardinality(DOMAIN score))
<1>1. p \in Nat /\ p >= 1 /\ u \in Nat
  BY RankIs, UnitIs
<1>2. Reciprocal(d, score) = IF score[d] = 0 THEN 0 ELSE u \div (RrfK + p)
  BY DEF Reciprocal
<1> HIDE DEF p, u
<1>3. RrfK + p \in Nat /\ RrfK + p > 0
  BY <1>1, RetrievalAssumption
<1>4. u \div (RrfK + p) \in Int
  BY <1>1, <1>3
<1> QED
  BY <1>2, <1>4

\* The scores of merged documents.
NearOf(merged) == [e \in DOMAIN merged |-> merged[e].near]
MatchOf(merged) == [e \in DOMAIN merged |-> merged[e].match]

\* They are scores.
LEMMA ScoresAre ==
    ASSUME NEW merged, NEW corpus, AreMerged(merged, corpus)
    PROVE  /\ AreScores(NearOf(merged)) /\ AreScores(MatchOf(merged))
           /\ DOMAIN NearOf(merged) = DOMAIN merged /\ DOMAIN MatchOf(merged) = DOMAIN merged
           /\ \A d \in DOMAIN merged :
                /\ NearOf(merged)[d] = merged[d].near /\ MatchOf(merged)[d] = merged[d].match
                /\ Weighted(merged[d]) \in Nat
                /\ Fused(d, merged) = Reciprocal(d, NearOf(merged)) + Reciprocal(d, MatchOf(merged))
                /\ Fused(d, merged) \in Int
<1> DEFINE a == NearOf(merged)
           b == MatchOf(merged)
<1>1. /\ DOMAIN a = DOMAIN merged /\ DOMAIN b = DOMAIN merged
      /\ \A d \in DOMAIN merged : a[d] = merged[d].near /\ b[d] = merged[d].match
  BY DEF NearOf, MatchOf
<1>2. \A d \in DOMAIN merged : Fused(d, merged) = Reciprocal(d, a) + Reciprocal(d, b)
  BY DEF Fused, NearOf, MatchOf
<1> HIDE DEF a, b
<1>3. AreScores(a) /\ AreScores(b)
  BY <1>1 DEF AreScores, AreMerged
<1>4. \A d \in DOMAIN merged : Reciprocal(d, a) \in Int /\ Reciprocal(d, b) \in Int
  BY <1>1, <1>3, ReciprocalType
<1>5. ASSUME NEW d \in DOMAIN merged PROVE Weighted(merged[d]) \in Nat
  <2>1. merged[d].near \in Nat /\ merged[d].match \in Nat
    BY DEF AreMerged
  <2> QED
    BY <2>1, RetrievalAssumption DEF Weighted
<1> QED
  BY <1>1, <1>2, <1>3, <1>4, <1>5 DEF a, b

\* What is returned: the first of the order by ranking score.
LEMMA RankedIs ==
    ASSUME NEW merged, NEW corpus, AreMerged(merged, corpus), NEW k \in Nat, NEW fusion,
           NEW filtered
    PROVE  LET S == Passed(merged, filtered)
               f == RankingScore(merged, fusion)
               tie == [d \in DOMAIN merged |-> merged[d].at]
               docs == Ranked(merged, k, fusion, filtered)
           IN  /\ Orders(S, f, tie)
               /\ docs \in Seq(S) /\ DOMAIN docs = 1 .. Len(docs)
               /\ Len(docs) <= k /\ Len(docs) \in {k, Cardinality(S)}
               /\ Len(docs) <= Cardinality(S)
               /\ \A i \in 1 .. Len(docs) : Place(docs[i], S, f, tie) = i
<1> DEFINE S == Passed(merged, filtered)
           f == RankingScore(merged, fusion)
           tie == [d \in DOMAIN merged |-> merged[d].at]
           docs == Ranked(merged, k, fusion, filtered)
           all == RankedBy(S, f, tie)
<1>1. S \subseteq DOMAIN merged
  BY DEF Passed
<1>2. ASSUME NEW d \in DOMAIN merged PROVE f[d] \in Int
  <2>1. f[d] = IF fusion = "rrf" THEN Fused(d, merged) ELSE Weighted(merged[d])
    BY DEF RankingScore
  <2> QED
    BY <2>1, ScoresAre
<1>3. \A d \in DOMAIN merged : tie[d] = merged[d].at
  OBVIOUS
<1>4. docs = Top(all, k)
  BY DEF Ranked
<1> HIDE DEF S, f, tie, docs
<1>5. Orders(S, f, tie)
  <2>1. IsFiniteSet(S)
    BY <1>1, FS_Subset DEF AreMerged
  <2> QED
    BY <1>1, <1>2, <1>3, <2>1 DEF Orders, AreMerged
<1>6. /\ all \in Seq(S) /\ Len(all) = Cardinality(S)
      /\ \A i \in 1 .. Cardinality(S) : Place(all[i], S, f, tie) = i
  BY <1>5, RankedByIs
<1> HIDE DEF all
<1>7. /\ docs \in Seq(S) /\ DOMAIN docs = 1 .. Len(docs)
      /\ Len(docs) <= k /\ Len(docs) \in {k, Cardinality(S)} /\ Len(docs) <= Cardinality(S)
      /\ \A i \in 1 .. Len(docs) : docs[i] = all[i] /\ i \in 1 .. Cardinality(S)
  BY <1>4, <1>6, TopIs
<1>8. \A i \in 1 .. Len(docs) : Place(docs[i], S, f, tie) = i
  BY <1>6, <1>7
<1> QED
  BY <1>5, <1>7, <1>8 DEF S, f, tie, docs

\* What a search returns: documents of the corpus, with their text.
Evidences == [id : Types \X Nat, score : Int, text : Texts]

\* A function on 1..n is a sequence.
LEMMA SeqOfFunction ==
    ASSUME NEW T, NEW n \in Nat, NEW s, s = [i \in 1 .. n |-> s[i]],
           \A i \in 1 .. n : s[i] \in T
    PROVE  s \in Seq(T) /\ Len(s) = n
  OBVIOUS

\* The elements of a sequence.
LEMMA SeqElement ==
    ASSUME NEW T, NEW s \in Seq(T), NEW i \in DOMAIN s
    PROVE  s[i] \in T
  OBVIOUS

\* The request's search of one kind.
LEMMA SearchedIs ==
    ASSUME IsCorpus(request.corpus), NEW tool
    PROVE  LET merged == Merged(VectorRows(request.corpus, SourceTypes(tool)) \cup
                                KeywordRows(request.corpus, SourceTypes(tool)))
               docs == Ranked(merged, TopK, request.fusion, request.filtered)
           IN  /\ AreMerged(merged, request.corpus)
               /\ Searched(tool) \in Seq(Evidences)
               /\ Len(Searched(tool)) = Len(docs) /\ Len(Searched(tool)) <= TopK
               /\ \A i \in 1 .. Len(docs) : Searched(tool)[i].id[2] = docs[i]
<1> DEFINE corpus == request.corpus
           types == SourceTypes(tool)
           all == VectorRows(corpus, types) \cup KeywordRows(corpus, types)
           merged == Merged(all)
           docs == Ranked(merged, TopK, request.fusion, request.filtered)
           rows == HybridSearched(corpus, types, TopK, request.fusion, request.filtered)
           s == Searched(tool)
<1>1. s = [i \in DOMAIN rows |-> [id |-> <<rows[i].type, rows[i].doc>>,
                                  score |-> rows[i].score, text |-> rows[i].text]]
  BY DEF Searched
<1>2. rows = [i \in DOMAIN docs |-> [doc |-> docs[i], type |-> merged[docs[i]].chunk.type,
                                     score |-> Weighted(merged[docs[i]]),
                                     text |-> merged[docs[i]].chunk.text]]
  BY DEF HybridSearched
<1> HIDE DEF rows, s, types
<1>3. AreRows(all, corpus)
  BY RowsAre
<1> HIDE DEF all
<1>4. AreMerged(merged, corpus)
  BY <1>3, MergedAre
<1> HIDE DEF merged
<1>5. /\ docs \in Seq(Passed(merged, request.filtered)) /\ DOMAIN docs = 1 .. Len(docs)
      /\ Len(docs) <= TopK /\ Len(docs) \in Nat
  <2>1. TopK \in Nat
    BY AnswersAssumption
  <2> DEFINE S == Passed(merged, request.filtered)
  <2>2. docs \in Seq(S) /\ DOMAIN docs = 1 .. Len(docs) /\ Len(docs) <= TopK
    BY <1>4, <2>1, RankedIs
  <2> HIDE DEF docs, S
  <2>3. Len(docs) \in Nat
    BY <2>2
  <2> QED
    BY <2>2, <2>3 DEF S
<1> HIDE DEF docs, corpus
<1>6. ASSUME NEW i \in 1 .. Len(docs)
      PROVE  /\ s[i] \in Evidences /\ s[i].id[2] = docs[i]
  <2> DEFINE d == docs[i]
             c == merged[d].chunk
  <2>1. d \in DOMAIN merged
    BY <1>5 DEF Passed
  <2>2. d \in Nat /\ c \in corpus
    BY <1>4, <2>1 DEF AreMerged
  <2>3. c.type \in Types /\ c.text \in Texts
    BY <2>2 DEF IsCorpus, corpus
  <2>4. Weighted(merged[d]) \in Int
    BY <1>4, <2>1, ScoresAre
  <2>5. rows[i] = [doc |-> d, type |-> c.type, score |-> Weighted(merged[d]), text |-> c.text]
    BY <1>2, <1>5
  <2>6. i \in DOMAIN rows
    BY <1>2, <1>5
  <2> HIDE DEF d, c
  <2>7. /\ rows[i].doc = d /\ rows[i].type = c.type
        /\ rows[i].score = Weighted(merged[d]) /\ rows[i].text = c.text
    BY <2>5
  <2>8. s[i] = [id |-> <<c.type, d>>, score |-> Weighted(merged[d]), text |-> c.text]
    BY <1>1, <2>6, <2>7
  <2>9. s[i] \in Evidences
    BY <2>2, <2>3, <2>4, <2>8 DEF Evidences
  <2>10. s[i].id[2] = d
    BY <2>8
  <2> QED
    BY <2>9, <2>10 DEF d
<1>7. s = [i \in 1 .. Len(docs) |-> s[i]]
  BY <1>1, <1>2, <1>5
<1>8. s \in Seq(Evidences) /\ Len(s) = Len(docs)
  BY <1>5, <1>6, <1>7, SeqOfFunction
<1> QED
  BY <1>4, <1>5, <1>6, <1>8 DEF s, docs, merged, all, types, corpus

-----------------------------------------------------------------------------
(* Windows *)

\* A set of numbers that holds 0, and with a number the next one, holds all.
LEMMA NatInduct ==
    ASSUME NEW S, 0 \in S, \A n \in Nat : n \in S => n + 1 \in S
    PROVE  Nat \subseteq S
<1> DEFINE R == OpToRel(<, Nat)
           T == Nat \ S
<1>1. SUFFICES ASSUME T # {} PROVE FALSE
  OBVIOUS
<1>2. IsWellFoundedOn(R, Nat)
  BY NatLessThanWellFounded
<1>3. \A x, y \in Nat : x < y => <<x, y>> \in R
  BY DEF OpToRel
<1> HIDE DEF R
<1>4. PICK x \in T : \A y \in T : <<y, x>> \notin R
  BY <1>1, <1>2, WFMin
<1>5. x # 0 /\ x - 1 \in Nat /\ x = (x - 1) + 1 /\ x - 1 < x
  BY <1>4
<1>6. x - 1 \in S
  BY <1>3, <1>4, <1>5
<1> QED
  BY <1>4, <1>5, <1>6

\* A window ends inside the text, and no exception follows it.
LEMMA WindowIs ==
    ASSUME NEW text \in Texts, NEW i \in 1 .. Len(text)
    PROVE  /\ Window(text, i)[2] \in 1 .. Len(text)
           /\ Window(text, i)[2] < Len(text) => ~text[Window(text, i)[2] + 1].proviso
<1> DEFINE n == Len(text)
           right == Min({i + 1, n})
           reach == {r \in right .. n : \A s \in right + 1 .. r : text[s].proviso}
           last == Max(reach)
<1>1. n \in Nat /\ i \in 1 .. n
  BY DEF Texts
<1>2. Window(text, i)[2] = last
  BY DEF Window
<1> HIDE DEF n
<1>3. right \in 1 .. n
  <2>1. \E x \in {i + 1, n} : \A y \in {i + 1, n} : x <= y
    BY <1>1
  <2>2. right \in {i + 1, n} /\ \A y \in {i + 1, n} : right <= y
    BY <2>1 DEF Min
  <2> QED
    BY <1>1, <2>2
<1> HIDE DEF right
<1>4. reach \subseteq right .. n /\ right \in reach
  BY <1>1, <1>3
<1>5. IsFiniteSet(reach) /\ reach \subseteq Int /\ reach # {}
  <2>1. IsFiniteSet(right .. n) /\ right .. n \subseteq Int
    BY <1>1, <1>3, FS_Interval
  <2> HIDE DEF reach
  <2> QED
    BY <1>4, <2>1, FS_Subset
<1>6. last \in reach /\ \A y \in reach : y <= last
  <2> HIDE DEF reach
  <2> QED
    BY <1>5, MaxIs
<1> HIDE DEF last
<1>7. last \in 1 .. n
  BY <1>1, <1>3, <1>6
<1>8. ASSUME last < n, text[last + 1].proviso PROVE FALSE
  <2>1. last + 1 \in right .. n
    BY <1>1, <1>3, <1>6, <1>7, <1>8
  <2>2. ASSUME NEW s \in right + 1 .. last + 1 PROVE text[s].proviso
    <3>1. CASE s = last + 1
      BY <1>8, <3>1
    <3>2. CASE s # last + 1
      <4>1. s \in right + 1 .. last
        BY <1>3, <1>7, <3>2
      <4> QED
        BY <1>6, <4>1
    <3> QED
      BY <3>1, <3>2
  <2>3. last + 1 \in reach
    BY <2>1, <2>2
  <2>4. last + 1 <= last
    BY <1>6, <2>3
  <2> QED
    BY <1>7, <2>4
<1> QED
  BY <1>2, <1>7, <1>8 DEF n

\* The windows chosen up to the n-th sentence of the order.
ChosenUpTo(text, order, n, f) ==
    f = [m \in 0 .. n |-> IF m = 0 THEN {} ELSE With(Window(text, order[m]), f[m - 1])]

\* The recursion of Windows is defined for every length.
LEMMA ChosenExists ==
    ASSUME NEW text, NEW order, NEW n \in Nat
    PROVE  \E f : ChosenUpTo(text, order, n, f)
<1> DEFINE N == {m \in Nat : \E f : ChosenUpTo(text, order, m, f)}
           more(m, before) == With(Window(text, order[m]), before)
<1>1. 0 \in N
  <2> DEFINE g == [i \in 0 .. 0 |-> {}]
  <2>1. g = [i \in 0 .. 0 |-> IF i = 0 THEN {} ELSE With(Window(text, order[i]), g[i - 1])]
    OBVIOUS
  <2>2. ChosenUpTo(text, order, 0, g)
    BY <2>1 DEF ChosenUpTo
  <2> QED
    BY <2>2
<1>2. ASSUME NEW m \in Nat, m \in N PROVE m + 1 \in N
  <2>1. PICK f : ChosenUpTo(text, order, m, f)
    BY <1>2
  <2>2. \A i \in 0 .. m : f[i] = IF i = 0 THEN {} ELSE more(i, f[i - 1])
    BY <2>1 DEF ChosenUpTo
  <2> HIDE DEF more
  <2> DEFINE g == [i \in 0 .. m + 1 |-> IF i <= m THEN f[i] ELSE more(i, f[i - 1])]
  <2>3. ASSUME NEW i \in 0 .. m + 1
        PROVE  g[i] = IF i = 0 THEN {} ELSE more(i, g[i - 1])
    <3>1. CASE i = 0
      BY <2>2, <3>1
    <3>2. CASE i # 0 /\ i <= m
      <4>1. i \in 0 .. m /\ i - 1 \in 0 .. m + 1 /\ i - 1 <= m
        BY <3>2
      <4>2. g[i] = f[i] /\ g[i - 1] = f[i - 1]
        BY <4>1
      <4> QED
        BY <2>2, <3>2, <4>1, <4>2
    <3>3. CASE i # 0 /\ ~(i <= m)
      <4>1. i - 1 \in 0 .. m + 1 /\ i - 1 <= m
        BY <3>3
      <4>2. g[i] = more(i, f[i - 1]) /\ g[i - 1] = f[i - 1]
        BY <3>3, <4>1
      <4> QED
        BY <3>3, <4>2
    <3> QED
      BY <3>1, <3>2, <3>3
  <2>4. DOMAIN g = 0 .. m + 1 /\ g = [i \in 0 .. m + 1 |-> g[i]]
    OBVIOUS
  <2> HIDE DEF g
  <2>5. ChosenUpTo(text, order, m + 1, g)
    BY <2>3, <2>4 DEF ChosenUpTo, more
  <2> QED
    BY <2>5
<1>3. Nat \subseteq N
  <2> HIDE DEF N
  <2> QED
    BY <1>1, <1>2, NatInduct
<1> QED
  BY <1>3

\* What a text is made of.
LEMMA TextIs ==
    ASSUME NEW text \in Texts
    PROVE  /\ Len(text) \in Nat /\ DOMAIN text = 1 .. Len(text)
           /\ \A i \in 1 .. Len(text) : text[i].hits \in Int
<1>1. Len(text) \in Nat /\ DOMAIN text = 1 .. Len(text)
  BY DEF Texts
<1>2. ASSUME NEW i \in 1 .. Len(text) PROVE text[i].hits \in Int
  <2> DEFINE T == [hits : Nat, proviso : BOOLEAN]
  <2>1. text \in Seq(T)
    BY DEF Texts
  <2> HIDE DEF T
  <2>2. text[i] \in T
    BY <2>1
  <2> QED
    BY <2>2 DEF T
<1> QED
  BY <1>1, <1>2

\* Every window is the one of a sentence.
LEMMA WindowsAre ==
    ASSUME NEW text \in Texts, NEW w \in Windows(text)
    PROVE  \E i \in 1 .. Len(text) : w = Window(text, i)
<1> DEFINE n == Len(text)
           f == [i \in DOMAIN text |-> text[i].hits]
           tie == [i \in DOMAIN text |-> i]
           order == RankedBy(DOMAIN text, f, tie)
           chosen == CHOOSE g : g = [m \in 0 .. n |->
                        IF m = 0 THEN {} ELSE With(Window(text, order[m]), g[m - 1])]
           all == {Window(text, i) : i \in 1 .. n}
<1>1. /\ n \in Nat /\ DOMAIN text = 1 .. n
      /\ \A i \in 1 .. n : text[i].hits \in Int
  BY TextIs
<1>2. Windows(text) = chosen[n]
  BY DEF Windows
<1>3. /\ Orders(1 .. n, f, tie) /\ IsFiniteSet(1 .. n) /\ Cardinality(1 .. n) = n
  <2>1. IsFiniteSet(1 .. n) /\ Cardinality(1 .. n) = n
    BY <1>1, FS_Interval
  <2>2. \A i \in 1 .. n : f[i] \in Int /\ tie[i] = i
    BY <1>1
  <2> HIDE DEF f, tie, n
  <2> QED
    BY <1>1, <2>1, <2>2 DEF Orders
<1> HIDE DEF f, tie
<1>4. \A m \in 1 .. n : order[m] \in 1 .. n
  <2>1. order \in Seq(1 .. n) /\ Len(order) = n
    BY <1>1, <1>3, RankedByIs
  <2> HIDE DEF order
  <2> QED
    BY <2>1
<1> HIDE DEF order
<1>5. \A m \in 0 .. n : chosen[m] = IF m = 0 THEN {} ELSE With(Window(text, order[m]), chosen[m - 1])
  <2>1. \E g : g = [m \in 0 .. n |->
                      IF m = 0 THEN {} ELSE With(Window(text, order[m]), g[m - 1])]
    <3> HIDE DEF n
    <3>1. \E g : ChosenUpTo(text, order, n, g)
      BY <1>1, ChosenExists
    <3> QED
      BY <3>1 DEF ChosenUpTo
  <2>2. chosen = [m \in 0 .. n |->
                    IF m = 0 THEN {} ELSE With(Window(text, order[m]), chosen[m - 1])]
    BY <2>1
  <2> HIDE DEF chosen
  <2> QED
    BY <2>2
<1> HIDE DEF chosen
<1> DEFINE N == {m \in Nat : m \in 0 .. n => chosen[m] \subseteq all}
<1>6. 0 \in N
  BY <1>1, <1>5
<1>7. ASSUME NEW m \in Nat, m \in N PROVE m + 1 \in N
  <2>1. SUFFICES ASSUME m + 1 \in 0 .. n PROVE chosen[m + 1] \subseteq all
    OBVIOUS
  <2>2. m \in 0 .. n /\ m + 1 \in 1 .. n /\ (m + 1) - 1 = m /\ m + 1 # 0
    BY <1>1, <2>1
  <2>3. chosen[m + 1] = With(Window(text, order[m + 1]), chosen[m])
    BY <1>5, <2>1, <2>2
  <2>4. chosen[m] \subseteq all /\ Window(text, order[m + 1]) \in all
    BY <1>4, <1>7, <2>2
  <2> HIDE DEF all
  <2> QED
    BY <2>3, <2>4 DEF With
<1>8. Nat \subseteq N
  <2> HIDE DEF N
  <2> QED
    BY <1>6, <1>7, NatInduct
<1>9. chosen[n] \subseteq all
  <2>1. n \in N /\ n \in 0 .. n
    <3> HIDE DEF N
    <3> QED
      BY <1>1, <1>8
  <2> QED
    BY <2>1
<1> QED
  BY <1>2, <1>9

-----------------------------------------------------------------------------
(* Evidence and what may be cited of it *)

\* The tools a request selects.
LEMMA SelectedAre ==
    /\ Len(SelectedTools) \in Nat \ {0}
    /\ DOMAIN SelectedTools = 1 .. Len(SelectedTools)
    /\ \A i \in DOMAIN SelectedTools : SelectedTools[i] \in ToolNames
    /\ Tasks \subseteq ToolNames
<1>1. CASE request.category = "consumer"
  <2>1. SelectedTools = <<"search_laws", "search_consultations", "search_cases">>
    BY <1>1 DEF SelectedTools
  <2> QED
    BY <2>1 DEF ToolNames, Tasks, Range
<1>2. CASE request.category # "consumer"
  <2>1. SelectedTools = <<"search_cases", "search_legal_documents">>
    BY <1>2 DEF SelectedTools
  <2> QED
    BY <2>1 DEF ToolNames, Tasks, Range
<1> QED
  BY <1>1, <1>2

\* A search's results: up to TopK documents.
AreResults(s) == s \in Seq(Evidences) /\ Len(s) <= TopK

\* A ranking lists everything.
LEMMA RankedByAll ==
    ASSUME NEW S, NEW f, NEW tie, Orders(S, f, tie), NEW x \in S
    PROVE  \E i \in DOMAIN RankedBy(S, f, tie) : RankedBy(S, f, tie)[i] = x
<1> DEFINE i == Place(x, S, f, tie)
           R == RankedBy(S, f, tie)
<1>1. i \in 1 .. Cardinality(S)
  BY PlaceType
<1>2. R \in Seq(S) /\ i \in DOMAIN R /\ Place(R[i], S, f, tie) = i
  BY <1>1, RankedByIs
<1> HIDE DEF R
<1>3. R[i] \in S
  BY <1>2, SeqElement
<1> QED
  BY <1>2, <1>3, PlaceApart DEF R

\* The merged evidence is evidence the tools found, and all of it.
LEMMA DeduplicatedIs ==
    ASSUME \A t \in ToolNames : AreResults(found[t])
    PROVE  /\ Deduplicated \in Seq(Evidences)
           /\ \A t \in Tasks : Ids(found[t]) \subseteq Ids(Deduplicated)
<1> DEFINE places == UNION {{<<i, j>> : j \in DOMAIN found[SelectedTools[i]]} :
                                i \in DOMAIN SelectedTools}
           item(p) == found[SelectedTools[p[1]]][p[2]]
           number(p) == p[1] * TopK + p[2]
           firsts == {p \in places : \A q \in places :
                         item(q).id = item(p).id => number(p) <= number(q)}
           zero == [p \in firsts |-> 0]
           tie == [p \in firsts |-> number(p)]
           order == RankedBy(firsts, zero, tie)
           s == Deduplicated
<1>1. s = [i \in DOMAIN order |-> item(order[i])]
  BY DEF Deduplicated
<1>2. TopK \in Nat
  BY AnswersAssumption
<1>3. PICK n \in Nat : DOMAIN SelectedTools \subseteq 1 .. n
  BY SelectedAre
<1>4. ASSUME NEW p \in places
      PROVE  /\ p \in (1 .. n) \X (1 .. TopK) /\ item(p) \in Evidences
  <2>1. PICK i \in DOMAIN SelectedTools : p \in {<<i, j>> : j \in DOMAIN found[SelectedTools[i]]}
    OBVIOUS
  <2>2. PICK j \in DOMAIN found[SelectedTools[i]] : p = <<i, j>>
    BY <2>1
  <2> DEFINE r == found[SelectedTools[i]]
  <2>3. i \in 1 .. n /\ AreResults(r)
    BY <1>3, SelectedAre
  <2> HIDE DEF r
  <2>4. j \in 1 .. Len(r) /\ Len(r) \in Nat /\ Len(r) <= TopK /\ r[j] \in Evidences
    BY <2>2, <2>3 DEF AreResults, r
  <2>5. j \in 1 .. TopK
    BY <1>2, <2>4
  <2>6. item(p) = r[j]
    BY <2>2 DEF r
  <2> QED
    BY <2>2, <2>3, <2>4, <2>5, <2>6
<1> HIDE DEF places, item
<1>5. /\ firsts \subseteq places
      /\ \A p \in places : p \in firsts <=>
            \A q \in places : item(q).id = item(p).id => number(p) <= number(q)
  OBVIOUS
<1> HIDE DEF firsts
<1>6. /\ \A p \in places : number(p) \in Int
      /\ \A p \in firsts : zero[p] = 0 /\ tie[p] = number(p)
  <2>1. ASSUME NEW p \in places PROVE number(p) \in Int
    <3>1. p[1] \in Nat /\ p[2] \in Nat
      BY <1>4
    <3> QED
      BY <1>2, <3>1
  <2> HIDE DEF number
  <2> QED
    BY <2>1
<1>7. \A p, q \in places : number(p) = number(q) => p = q
  <2>1. ASSUME NEW p \in places, NEW q \in places, number(p) = number(q) PROVE p = q
    <3>1. p \in (1 .. n) \X (1 .. TopK) /\ q \in (1 .. n) \X (1 .. TopK)
      BY <1>4
    <3>2. /\ p[1] \in Nat /\ q[1] \in Nat /\ p[2] \in 1 .. TopK /\ q[2] \in 1 .. TopK
          /\ p = <<p[1], p[2]>> /\ q = <<q[1], q[2]>>
      BY <3>1
    <3>3. p[1] = q[1] /\ p[2] = q[2]
      BY <1>2, <2>1, <3>2, Digits
    <3> QED
      BY <3>2, <3>3
  <2> QED
    BY <2>1
<1> HIDE DEF number, zero, tie
<1>8. IsFiniteSet(places) /\ IsFiniteSet(firsts)
  <2> DEFINE P == (1 .. n) \X (1 .. TopK)
  <2>1. IsFiniteSet(1 .. n) /\ IsFiniteSet(1 .. TopK)
    BY <1>2, FS_Interval
  <2>2. IsFiniteSet(P)
    BY <2>1, FS_Product
  <2>3. places \subseteq P
    BY <1>4
  <2> HIDE DEF P
  <2> QED
    BY <1>5, <2>2, <2>3, FS_Subset
<1>9. Orders(firsts, zero, tie)
  BY <1>5, <1>6, <1>7, <1>8 DEF Orders
<1>10. order \in Seq(firsts) /\ \A p \in firsts : \E i \in DOMAIN order : order[i] = p
  BY <1>9, RankedByIs, RankedByAll
<1> HIDE DEF order
<1>11. Len(order) \in Nat /\ DOMAIN order = 1 .. Len(order)
       /\ \A i \in 1 .. Len(order) : order[i] \in firsts
  BY <1>10
<1> HIDE DEF s
<1>12. s = [i \in 1 .. Len(order) |-> s[i]]
  BY <1>1, <1>11
<1>13. \A i \in 1 .. Len(order) : s[i] \in Evidences
  BY <1>1, <1>4, <1>5, <1>11
<1>14. ASSUME NEW p \in places
       PROVE  item(p).id \in Ids(s)
  <2> DEFINE same == {q \in places : item(q).id = item(p).id}
             f == [q \in same |-> -number(q)]
  <2>1. IsFiniteSet(same) /\ p \in same
    BY <1>8, FS_Subset
  <2>2. \A q \in same : q \in places /\ item(q).id = item(p).id
    OBVIOUS
  <2>3. \A q \in same : f[q] = -number(q)
    OBVIOUS
  <2>4. \A q \in places : item(q).id = item(p).id => q \in same
    OBVIOUS
  <2> HIDE DEF same, f
  <2>5. /\ \A q \in same : f[q] \in Int
        /\ \A q, r \in same : f[q] = f[r] => q = r
    BY <1>6, <1>7, <2>2, <2>3
  <2>6. PICK q \in same : \A r \in same : f[r] <= f[q]
    BY <2>1, <2>5, HighestExists
  <2>7. \A r \in same : number(q) <= number(r)
    BY <1>6, <2>2, <2>3, <2>6
  <2>8. q \in firsts
    BY <1>5, <2>2, <2>4, <2>7
  <2>9. PICK i \in DOMAIN order : order[i] = q
    BY <1>10, <2>8
  <2>10. i \in DOMAIN s /\ s[i].id = item(p).id
    BY <1>1, <2>2, <2>9
  <2> QED
    BY <2>10 DEF Ids
<1>15. ASSUME NEW t \in Tasks, NEW j \in DOMAIN found[t]
       PROVE  found[t][j].id \in Ids(s)
  <2>1. PICK i \in DOMAIN SelectedTools : SelectedTools[i] = t
    BY DEF Tasks, Range
  <2>2. <<i, j>> \in places /\ item(<<i, j>>) = found[t][j]
    BY <2>1 DEF places, item
  <2> QED
    BY <1>14, <2>2
<1>16. \A t \in Tasks : Ids(found[t]) \subseteq Ids(s)
  BY <1>15 DEF Ids
<1> QED
  BY <1>11, <1>12, <1>13, <1>16, SeqOfFunction DEF s

\* A citation of text that a document of the evidence has.
Grounded(cites) ==
    \E e \in Range(evidence) :
        /\ e.id = cites.id
        /\ cites.to <= Len(e.text)
        /\ request.mode = "quotes" => cites.to <= Visible
        /\ request.mode # "quotes" => KeepsExceptions(cites, e.text)

\* The documents in the context are some of the evidence.
LEMMA ContextIsEvidence == ContextDocuments \subseteq DOMAIN evidence
  BY DEF ContextDocuments

\* Whatever a draft may cite is grounded.
LEMMA CitableIsGrounded ==
    ASSUME evidence \in Seq(Evidences), NEW c \in Citable
    PROVE  Grounded(c)
<1>1. ASSUME NEW i \in DOMAIN evidence
      PROVE  evidence[i] \in Range(evidence) /\ evidence[i].text \in Texts
  <2>1. evidence[i] \in Evidences
    OBVIOUS
  <2> QED
    BY <2>1 DEF Evidences, Range
<1>2. CASE request.mode = "quotes"
  <2>1. c \in Quotations
    BY <1>2 DEF Citable
  <2>2. PICK i \in DOMAIN evidence :
          c \in {[id |-> evidence[i].id, from |-> r[1], to |-> r[2]] :
                    r \in {r \in (1 .. Visible) \X (1 .. Visible) :
                             r[1] <= r[2] /\ r[2] <= Len(evidence[i].text)}}
    BY <2>1 DEF Quotations
  <2>3. PICK r \in (1 .. Visible) \X (1 .. Visible) :
          /\ r[2] <= Len(evidence[i].text)
          /\ c = [id |-> evidence[i].id, from |-> r[1], to |-> r[2]]
    BY <2>2
  <2>4. c.id = evidence[i].id /\ c.to = r[2] /\ r[2] <= Visible
    BY <2>3, AnswersAssumption
  <2> QED
    BY <1>1, <1>2, <2>3, <2>4 DEF Grounded
<1>3. CASE request.mode # "quotes"
  <2>1. c \in Spans
    BY <1>3 DEF Citable
  <2>2. PICK i \in ContextDocuments :
          c \in {[id |-> evidence[i].id, from |-> w[1], to |-> w[2]] :
                    w \in Windows(evidence[i].text)}
    BY <2>1 DEF Spans
  <2>3. PICK w \in Windows(evidence[i].text) :
          c = [id |-> evidence[i].id, from |-> w[1], to |-> w[2]]
    BY <2>2
  <2>4. i \in DOMAIN evidence
    BY ContextIsEvidence
  <2> DEFINE text == evidence[i].text
  <2>5. text \in Texts
    BY <1>1, <2>4
  <2>6. PICK k \in 1 .. Len(text) : w = Window(text, k)
    BY <2>5, WindowsAre
  <2>7. w[2] \in 1 .. Len(text) /\ (w[2] < Len(text) => ~text[w[2] + 1].proviso)
    BY <2>5, <2>6, WindowIs
  <2>8. c.id = evidence[i].id /\ c.to = w[2]
    BY <2>3
  <2>9. c.to <= Len(text) /\ KeepsExceptions(c, text)
    BY <2>7, <2>8 DEF KeepsExceptions
  <2> QED
    BY <1>1, <1>3, <2>4, <2>8, <2>9 DEF Grounded
<1> QED
  BY <1>2, <1>3

-----------------------------------------------------------------------------
(* Drafts and reviews *)

\* Claims that may be shown: each grounded, the documents used the cited ones.
Shows(d) ==
    /\ d.claims # << >>
    /\ d.used = Cited(d.claims)
    /\ \A i \in DOMAIN d.claims : Grounded(d.claims[i].cites)

\* A draft under review: its claims named by their index.
Stands(d) ==
    /\ Shows(d)
    /\ \E n \in Nat : DOMAIN d.claims = 1 .. n
    /\ \A i \in DOMAIN d.claims : d.claims[i].name = i

\* What the model may answer, as claims.
LEMMA DraftIs ==
    ASSUME NEW d \in Drafts
    PROVE  /\ d = [claims |-> d.claims, used |-> d.used]
           /\ \/ d.claims = << >>
              \/ /\ \E n \in Nat : DOMAIN d.claims = 1 .. n
                 /\ \A i \in DOMAIN d.claims : d.claims[i].name = i
<1> DEFINE offered == Citable \cup {Invented} \cup
                        (IF request.mode = "quotes" THEN CutOff ELSE {})
           claims == UNION {{c \in [1 .. n -> [name : 1 .. n, cites : offered]] :
                              \A i \in 1 .. n : c[i].name = i} : n \in 1 .. MaxClaims}
           used == {{}, {Invented.id}} \cup {Ids(evidence)}
<1>1. Drafts = IF request.mode = "quotes"
               THEN [claims : claims \cup {<< >>}, used : used]
               ELSE {[claims |-> c, used |-> Cited(c)] : c \in claims}
  BY DEF Drafts
<1> HIDE DEF offered
<1>2. ASSUME NEW c \in claims
      PROVE  (\E n \in Nat : DOMAIN c = 1 .. n) /\ \A i \in DOMAIN c : c[i].name = i
  <2>1. PICK n \in 1 .. MaxClaims : c \in {e \in [1 .. n -> [name : 1 .. n, cites : offered]] :
                                  \A i \in 1 .. n : e[i].name = i}
    OBVIOUS
  <2>2. DOMAIN c = 1 .. n /\ \A i \in 1 .. n : c[i].name = i
    BY <2>1
  <2>3. n \in Nat
    BY <2>1, AnswersAssumption
  <2> QED
    BY <2>2, <2>3
<1> HIDE DEF claims, used
<1>3. CASE request.mode = "quotes"
  <2>1. d \in [claims : claims \cup {<< >>}, used : used]
    BY <1>1, <1>3
  <2>2. d = [claims |-> d.claims, used |-> d.used] /\ d.claims \in claims \cup {<< >>}
    BY <2>1
  <2> QED
    BY <1>2, <2>2
<1>4. CASE request.mode # "quotes"
  <2>1. PICK c \in claims : d = [claims |-> c, used |-> Cited(c)]
    BY <1>1, <1>4
  <2>2. d = [claims |-> d.claims, used |-> d.used] /\ d.claims = c
    BY <2>1
  <2> QED
    BY <1>2, <2>2
<1> QED
  BY <1>3, <1>4

\* A valid draft stands once its used documents are the cited ones.
LEMMA ValidStands ==
    ASSUME evidence \in Seq(Evidences), NEW d \in Drafts, Valid(d)
    PROVE  Stands(Normalized(d))
<1> DEFINE e == Normalized(d)
<1>1. e.claims = d.claims /\ e.used = Cited(d.claims)
  <2> DEFINE c == d.claims
             u == d.used
  <2>1. d = [claims |-> c, used |-> u]
    BY DraftIs
  <2> HIDE DEF c, u
  <2>2. e = [claims |-> c, used |-> Cited(d.claims)]
    BY <2>1 DEF Normalized
  <2>3. e.claims = c /\ e.used = Cited(d.claims)
    BY <2>2
  <2> QED
    BY <2>3 DEF c
<1>2. d.claims # << >> /\ \A i \in DOMAIN d.claims : d.claims[i].cites \in Citable
  BY DEF Valid
<1>3. /\ \E n \in Nat : DOMAIN d.claims = 1 .. n
      /\ \A i \in DOMAIN d.claims : d.claims[i].name = i
  BY <1>2, DraftIs
<1>4. \A i \in DOMAIN d.claims : Grounded(d.claims[i].cites)
  BY <1>2, CitableIsGrounded
<1> HIDE DEF e
<1> QED
  BY <1>1, <1>2, <1>3, <1>4 DEF Stands, Shows, e

\* The claims a review supports can be shown, if there are any, and it supports
\* each of them.
LEMMA RetainedShows ==
    ASSUME NEW d, Stands(d), NEW review \in Reviews(d), Approved(review) # {}
    PROVE  /\ Shows(Retained(d, review))
           /\ \A i \in DOMAIN Retained(d, review).claims :
                Retained(d, review).claims[i].name \in SupportedClaims(review)
<1> DEFINE A == Approved(review)
           zero == [n \in A |-> 0]
           tie == [n \in A |-> n]
           kept == InOrder(A)
           claims == [i \in DOMAIN kept |-> d.claims[kept[i]]]
           e == Retained(d, review)
<1>1. PICK n \in Nat : DOMAIN d.claims = 1 .. n
  BY DEF Stands
<1>2. A \subseteq DOMAIN d.claims /\ A = SupportedClaims(review)
  BY DEF Approved, SupportedClaims, Reviews
<1>3. e.claims = claims /\ e.used = Cited(claims)
  BY DEF Retained
<1> HIDE DEF e
<1>4. kept = RankedBy(A, zero, tie) /\ \A a \in A : zero[a] = 0 /\ tie[a] = a
  BY DEF InOrder
<1> HIDE DEF A, zero, tie
<1>5. IsFiniteSet(A) /\ A \subseteq Int
  <2>1. IsFiniteSet(1 .. n)
    BY FS_Interval
  <2> QED
    BY <1>1, <1>2, <2>1, FS_Subset
<1>6. Orders(A, zero, tie)
  BY <1>4, <1>5 DEF Orders
<1>7. kept \in Seq(A) /\ DOMAIN kept = 1 .. Cardinality(A)
  BY <1>4, <1>6, RankedByIs
<1>8. Cardinality(A) \in Nat /\ Cardinality(A) # 0
  BY <1>5, FS_CardinalityType, FS_EmptySet DEF A
<1>9. \A i \in DOMAIN kept : kept[i] \in A
  BY <1>7, SeqElement
<1> HIDE DEF kept
<1>10. DOMAIN claims = DOMAIN kept /\ \A i \in DOMAIN kept : claims[i] = d.claims[kept[i]]
  OBVIOUS
<1> HIDE DEF claims
<1>11. claims # << >>
  <2>1. 1 \in DOMAIN claims
    BY <1>7, <1>8, <1>10
  <2> QED
    BY <2>1
<1>12. \A i \in DOMAIN claims : Grounded(claims[i].cites) /\ claims[i].name \in A
  BY <1>2, <1>9, <1>10 DEF Stands, Shows
<1> QED
  BY <1>2, <1>3, <1>11, <1>12 DEF Shows, e

-----------------------------------------------------------------------------
(* The invariant *)

\* A tool's results are those of its search, or not there yet.
FoundIsSearched ==
    /\ found = [t \in ToolNames |-> found[t]]
    /\ \A t \in ToolNames : found[t] \in {<< >>, Searched(t)}

\* A request is answered once, the evidence is what the tools found, and a
\* draft under review cites it.
AnswersInv ==
    /\ request \in Requests
    /\ FoundIsSearched
    /\ evidence \in Seq(Evidences)
    /\ step = "reviewing" => Stands(draft)
    /\ response.status # "none" => step = "answered"
    /\ AnswerIsGrounded

\* What the tools found are results.
LEMMA FoundAre ==
    ASSUME AnswersInv
    PROVE  \A t \in ToolNames : AreResults(found[t])
<1>1. IsCorpus(request.corpus) /\ TopK \in Nat
  BY AnswersAssumption DEF AnswersInv
<1>2. AreResults(<< >>)
  BY <1>1 DEF AreResults
<1>3. \A t \in ToolNames : AreResults(Searched(t))
  BY <1>1, SearchedIs DEF AreResults
<1> QED
  BY <1>2, <1>3 DEF AnswersInv, FoundIsSearched

\* What is searched for depends on the request only.
LEMMA SearchedKept ==
    ASSUME request' = request, NEW t
    PROVE  Searched(t)' = Searched(t)
  BY DEF Searched

\* Results stay.
LEMMA FoundKept ==
    ASSUME FoundIsSearched, request' = request, found' = found
    PROVE  FoundIsSearched'
  BY SearchedKept DEF FoundIsSearched

\* Results of one tool arrive.
LEMMA FoundMore ==
    ASSUME FoundIsSearched, request' = request, NEW t \in ToolNames,
           found' = [found EXCEPT ![t] = Searched(t)]
    PROVE  FoundIsSearched'
<1>1. DOMAIN found = ToolNames
  BY DEF FoundIsSearched
<1>2. found'[t] = Searched(t) /\ \A u \in ToolNames : u # t => found'[u] = found[u]
  BY <1>1
<1>3. found' = [u \in ToolNames |-> found'[u]]
  BY <1>1
<1>4. \A u \in ToolNames : found'[u] \in {<< >>, Searched(u)}
  BY <1>2 DEF FoundIsSearched
<1> QED
  BY <1>3, <1>4, SearchedKept DEF FoundIsSearched

\* A draft that stands goes on standing.
LEMMA StandsKept ==
    ASSUME NEW d, Stands(d), request' = request, evidence' = evidence
    PROVE  Stands(d)'
  BY DEF Stands, Shows, Grounded

\* A step that answers nothing.
LEMMA NothingAnswered ==
    ASSUME AnswersInv, request' = request, FoundIsSearched', evidence' = evidence,
           draft' = draft, judged' = judged, response' = response,
           step' = step \/ (step # "answered" /\ step' # "reviewing")
    PROVE  AnswersInv'
<1>1. request' \in Requests /\ evidence' \in Seq(Evidences)
  BY DEF AnswersInv
<1>2. (step = "reviewing" => Stands(draft))'
  <2>1. SUFFICES ASSUME step' = "reviewing" PROVE Stands(draft)'
    OBVIOUS
  <2>2. Stands(draft)
    BY <2>1 DEF AnswersInv
  <2> QED
    BY <2>2 DEF Stands, Shows, Grounded
<1>3. (response.status # "none" => step = "answered")'
  BY DEF AnswersInv
<1>4. AnswerIsGrounded'
  BY DEF AnswersInv, AnswerIsGrounded, Documents
<1> QED
  BY <1>1, <1>2, <1>3, <1>4 DEF AnswersInv

\* A step that answers, given that the answer is grounded.
LEMMA Answered ==
    ASSUME AnswersInv, request' = request, FoundIsSearched', evidence' = evidence,
           NEW status, NEW documents, NEW d, Respond(status, documents, d),
           AnswerIsGrounded'
    PROVE  AnswersInv'
<1>1. request' \in Requests /\ evidence' \in Seq(Evidences)
  BY DEF AnswersInv
<1>2. step' = "answered"
  BY DEF Respond
<1> QED
  BY <1>1, <1>2 DEF AnswersInv

\* What a response consists of.
LEMMA ResponseIs ==
    ASSUME NEW status, NEW documents, NEW d, Respond(status, documents, d)
    PROVE  /\ response'.status = status /\ response'.documents = documents
           /\ response'.claims = d.claims /\ response'.used = d.used
  BY DEF Respond

\* An answer that is neither the model's nor the fallback's.
LEMMA OtherAnswer ==
    ASSUME AnswersInv, request' = request, FoundIsSearched', evidence' = evidence,
           NEW status, NEW documents, NEW d, Respond(status, documents, d),
           status # "llm", status # "fallback"
    PROVE  AnswersInv'
<1>1. AnswerIsGrounded'
  BY ResponseIs DEF AnswerIsGrounded
<1> QED
  BY <1>1, Answered

\* The response is made, or the callback before it has failed.
LEMMA CompleteIs ==
    ASSUME NEW status, NEW d, Complete(status, d)
    PROVE  Respond(status, evidence, d) \/ (step' = "failed" /\ response' = response)
  BY DEF Complete, Fail

\* A response that is never made answers nothing.
LEMMA CallbackFailed ==
    ASSUME AnswersInv, request' = request, found' = found, evidence' = evidence,
           step \in {"generating", "reviewing"}, step' = "failed", response' = response
    PROVE  AnswersInv'
<1>1. response.status = "none"
  BY DEF AnswersInv
<1>2. FoundIsSearched'
  BY FoundKept DEF AnswersInv
<1>3. AnswerIsGrounded'
  BY <1>1 DEF AnswerIsGrounded
<1> QED
  BY <1>1, <1>2, <1>3 DEF AnswersInv

\* The fallback is shown.
LEMMA FallbackShown ==
    ASSUME AnswersInv, request' = request, found' = found, evidence' = evidence,
           Respond("fallback", evidence, FallbackDraft)
    PROVE  AnswersInv'
<1>1. Respond("fallback", evidence, FallbackDraft)
  OBVIOUS
<1>2. /\ response'.status = "fallback" /\ response'.documents = evidence
      /\ response'.claims = FallbackDraft.claims /\ response'.used = FallbackDraft.used
  BY <1>1, ResponseIs
<1>3. FallbackDraft.claims = << >> /\ FallbackDraft.used = Ids(evidence)
  BY DEF FallbackDraft
<1>4. AnswerIsGrounded'
  BY <1>2, <1>3 DEF AnswerIsGrounded, Ids
<1>5. FoundIsSearched'
  BY FoundKept DEF AnswersInv
<1> QED
  BY <1>1, <1>4, <1>5, Answered

\* The fallback.
LEMMA FallbackAnswer ==
    ASSUME AnswersInv, request' = request, found' = found, evidence' = evidence, Fallback,
           step \in {"generating", "reviewing"}
    PROVE  AnswersInv'
<1>1. \/ Respond("fallback", evidence, FallbackDraft)
      \/ step' = "failed" /\ response' = response
  BY CompleteIs DEF Fallback
<1> QED
  BY <1>1, FallbackShown, CallbackFailed

\* The model's answer.
LEMMA ModelAnswer ==
    ASSUME AnswersInv, request' = request, found' = found, evidence' = evidence,
           NEW d, Respond("llm", evidence, d), Shows(d),
           request.mode = "verified" =>
                \A i \in DOMAIN d.claims : d.claims[i].name \in judged'
    PROVE  AnswersInv'
<1>1. /\ response'.status = "llm" /\ response'.documents = evidence
      /\ response'.claims = d.claims /\ response'.used = d.used
  BY ResponseIs
<1>2. Documents' = Range(evidence)
  BY <1>1 DEF Documents
<1>3. d.claims # << >> /\ d.used = Cited(d.claims)
  BY DEF Shows
<1>4. response'.claims # << >> /\ response'.used = Cited(response'.claims)
  BY <1>1, <1>3
<1>5. ASSUME NEW i \in DOMAIN response'.claims
      PROVE  LET claim == response'.claims[i]
             IN  /\ \E e \in Documents' :
                     /\ e.id = claim.cites.id
                     /\ claim.cites.to <= Len(e.text)
                     /\ request'.mode = "quotes" => claim.cites.to <= Visible
                     /\ request'.mode # "quotes" => KeepsExceptions(claim.cites, e.text)
                 /\ request'.mode = "verified" => claim.name \in judged'
  <2>1. Grounded(d.claims[i].cites)
    BY <1>1, <1>5 DEF Shows
  <2>2. request.mode = "verified" => d.claims[i].name \in judged'
    BY <1>1, <1>5
  <2> QED
    BY <1>1, <1>2, <2>1, <2>2 DEF Grounded
<1>6. AnswerIsGrounded'
  BY <1>1, <1>4, <1>5 DEF AnswerIsGrounded
<1>7. FoundIsSearched'
  BY FoundKept DEF AnswersInv
<1> QED
  BY <1>6, <1>7, Answered

\* At the start nothing is found or answered.
LEMMA AnswersInit == Init => AnswersInv
<1> SUFFICES ASSUME Init PROVE AnswersInv
  OBVIOUS
<1>1. found = [t \in ToolNames |-> << >>] /\ evidence = << >> /\ request \in Requests
  BY DEF Init
<1>2. response.status = "none"
  BY DEF Init, NoResponse
<1>3. FoundIsSearched
  BY <1>1 DEF FoundIsSearched
<1>4. step # "reviewing"
  BY DEF Init
<1> QED
  BY <1>1, <1>2, <1>3, <1>4 DEF AnswersInv, AnswerIsGrounded

-----------------------------------------------------------------------------
(* Steps *)

\* The steps before the evidence is merged.
LEMMA SearchSteps ==
    ASSUME AnswersInv,
           \/ Interrupted \/ Assess \/ Select \/ Unwind \/ Unwound
           \/ \E t \in ToolNames : Receive(t) \/ BeginReport(t) \/ EndReport(t) \/ Cancelled(t)
    PROVE  AnswersInv'
<1>1. FoundIsSearched
  BY DEF AnswersInv
<1>2. CASE Interrupted
  BY <1>1, <1>2, FoundKept, NothingAnswered DEF Interrupted, Fail
<1>3. CASE Assess
  <2>1. request' = request /\ found' = found /\ evidence' = evidence /\ draft' = draft
        /\ judged' = judged /\ step = "intake"
    BY <1>3 DEF Assess
  <2>2. FoundIsSearched'
    BY <1>1, <2>1, FoundKept
  <2>3. \/ step' \in {"selecting", "failed"} /\ response' = response
        \/ step' = step /\ response' = response
        \/ Respond("clarification", << >>, NoDraft)
    BY <1>3 DEF Assess, Fail
  <2>4. CASE Respond("clarification", << >>, NoDraft)
    BY <2>1, <2>2, <2>4, OtherAnswer
  <2>5. CASE (step' \in {"selecting", "failed"} \/ step' = step) /\ response' = response
    BY <2>1, <2>2, <2>5, NothingAnswered
  <2> QED
    BY <2>3, <2>4, <2>5
<1>4. CASE Select
  BY <1>1, <1>4, FoundKept, NothingAnswered DEF Select, Fail
<1>5. CASE Unwind
  BY <1>1, <1>5, FoundKept, NothingAnswered DEF Unwind
<1>6. CASE Unwound
  BY <1>1, <1>6, FoundKept, NothingAnswered DEF Unwound, Fail
<1>7. ASSUME NEW t \in ToolNames, Receive(t) PROVE AnswersInv'
  <2>1. request' = request /\ evidence' = evidence /\ draft' = draft /\ judged' = judged
        /\ response' = response /\ step' = step
    BY <1>7 DEF Receive
  <2>2. found' = found \/ found' = [found EXCEPT ![t] = Searched(t)]
    BY <1>7 DEF Receive
  <2>3. FoundIsSearched'
    BY <1>1, <2>1, <2>2, FoundKept, FoundMore
  <2> QED
    BY <2>1, <2>3, NothingAnswered
<1>8. ASSUME NEW t \in ToolNames, BeginReport(t) PROVE AnswersInv'
  BY <1>1, <1>8, FoundKept, NothingAnswered DEF BeginReport
<1>9. ASSUME NEW t \in ToolNames, EndReport(t) PROVE AnswersInv'
  BY <1>1, <1>9, FoundKept, NothingAnswered DEF EndReport
<1>10. ASSUME NEW t \in ToolNames, Cancelled(t) PROVE AnswersInv'
  BY <1>1, <1>10, FoundKept, NothingAnswered DEF Cancelled
<1> QED
  BY <1>2, <1>3, <1>4, <1>5, <1>6, <1>7, <1>8, <1>9, <1>10

\* The evidence of all tools.
LEMMA MergeStep ==
    ASSUME AnswersInv, Merge
    PROVE  AnswersInv'
<1>1. /\ request' = request /\ found' = found /\ response' = response /\ judged' = judged
      /\ evidence' = Deduplicated /\ step = "searching" /\ step' \in {"generating", "failed"}
  BY DEF Merge, Fail
<1>2. Deduplicated \in Seq(Evidences)
  BY FoundAre, DeduplicatedIs
<1>3. FoundIsSearched'
  BY <1>1, FoundKept DEF AnswersInv
<1>4. AnswerIsGrounded'
  BY <1>1 DEF AnswersInv, AnswerIsGrounded, Documents
<1> QED
  BY <1>1, <1>2, <1>3, <1>4 DEF AnswersInv

\* The model writes a draft.
LEMMA WriteStep ==
    ASSUME AnswersInv, Write
    PROVE  AnswersInv'
<1>1. /\ request' = request /\ found' = found /\ evidence' = evidence /\ judged' = judged
      /\ step = "generating"
  BY DEF Write
<1>2. PICK d \in Drafts :
        /\ Valid(d)
        /\ IF request.mode = "verified"
           THEN step' = "reviewing" /\ draft' = Normalized(d) /\ response' = response
           ELSE Complete("llm", Normalized(d))
  BY DEF Write
<1>3. evidence \in Seq(Evidences) /\ FoundIsSearched
  BY DEF AnswersInv
<1> DEFINE e == Normalized(d)
<1>4. Stands(e)
  BY <1>2, <1>3, ValidStands
<1>5. e.claims = Normalized(d).claims
  OBVIOUS
<1>6. CASE request.mode = "verified"
  <2>1. step' = "reviewing" /\ draft' = e /\ response' = response
    BY <1>2, <1>6
  <2> HIDE DEF e
  <2>2. Stands(draft)'
    BY <1>1, <1>4, <2>1 DEF Stands, Shows, Grounded
  <2>3. FoundIsSearched'
    BY <1>1, <1>3, FoundKept
  <2>4. response.status = "none"
    BY <1>1 DEF AnswersInv
  <2>5. AnswerIsGrounded'
    BY <1>1, <2>1 DEF AnswersInv, AnswerIsGrounded, Documents
  <2> QED
    BY <1>1, <2>1, <2>2, <2>3, <2>4, <2>5 DEF AnswersInv
<1>7. CASE request.mode # "verified"
  <2>1. Complete("llm", e)
    BY <1>2, <1>7
  <2>2. Shows(e)
    BY <1>4 DEF Stands
  <2> HIDE DEF e
  <2>3. Respond("llm", evidence, e) \/ (step' = "failed" /\ response' = response)
    BY <2>1, CompleteIs
  <2> QED
    BY <1>1, <1>7, <2>2, <2>3, ModelAnswer, CallbackFailed
<1> QED
  BY <1>6, <1>7

\* A review.
LEMMA ReviewStep ==
    ASSUME AnswersInv, Review
    PROVE  AnswersInv'
<1>1. request' = request /\ found' = found /\ evidence' = evidence /\ step = "reviewing"
  BY DEF Review
<1>2. PICK review \in Reviews(draft) :
        IF Approved(review) # DOMAIN draft.claims /\ MayRepair
        THEN step' = "generating" /\ judged' = judged /\ response' = response
        ELSE /\ judged' = SupportedClaims(review)
             /\ IF Approved(review) = {} THEN Fallback
                ELSE Complete("llm", Retained(draft, review))
  BY DEF Review
<1>3. Stands(draft) /\ FoundIsSearched
  BY <1>1 DEF AnswersInv
<1>4. CASE step' = "generating" /\ judged' = judged /\ response' = response
  <2>1. FoundIsSearched'
    BY <1>1, <1>3, FoundKept
  <2>2. AnswerIsGrounded'
    BY <1>1, <1>4 DEF AnswersInv, AnswerIsGrounded, Documents
  <2> QED
    BY <1>1, <1>4, <2>1, <2>2 DEF AnswersInv
<1>5. CASE Fallback
  BY <1>1, <1>5, FallbackAnswer
<1>6. CASE /\ Approved(review) # {} /\ judged' = SupportedClaims(review)
           /\ Complete("llm", Retained(draft, review))
  <2> DEFINE e == Retained(draft, review)
  <2>1. Shows(e) /\ \A i \in DOMAIN e.claims : e.claims[i].name \in judged'
    BY <1>3, <1>6, RetainedShows
  <2>2. Complete("llm", e)
    BY <1>6
  <2> HIDE DEF e
  <2>3. Respond("llm", evidence, e) \/ (step' = "failed" /\ response' = response)
    BY <2>2, CompleteIs
  <2> QED
    BY <1>1, <2>1, <2>3, ModelAnswer, CallbackFailed
<1> QED
  BY <1>2, <1>4, <1>5, <1>6

\* The steps that answer without a model, and those of other requests.
LEMMA OtherSteps ==
    ASSUME AnswersInv,
           AnswerWithoutModel \/ ReviewFails \/ SearchOne
    PROVE  AnswersInv'
<1>1. FoundIsSearched
  BY DEF AnswersInv
<1>2. CASE AnswerWithoutModel
  BY <1>2, FallbackAnswer DEF AnswerWithoutModel
<1>3. CASE ReviewFails
  BY <1>3, FallbackAnswer DEF ReviewFails
<1>4. CASE SearchOne
  <2>1. request' = request /\ evidence' = evidence /\ draft' = draft /\ judged' = judged
        /\ step = "search"
    BY <1>4 DEF SearchOne
  <2>2. CASE Fail /\ found' = found /\ response' = response
    BY <1>1, <2>1, <2>2, FoundKept, NothingAnswered DEF Fail
  <2>3. ASSUME NEW tool \in ToolNames, found' = [found EXCEPT ![tool] = Searched(tool)],
               Respond("found", Searched(tool), NoDraft)
        PROVE  AnswersInv'
    <3>1. FoundIsSearched'
      BY <1>1, <2>1, <2>3, FoundMore
    <3> QED
      BY <2>1, <2>3, <3>1, OtherAnswer
  <2> QED
    BY <1>4, <2>2, <2>3 DEF SearchOne
<1> QED
  BY <1>2, <1>3, <1>4

\* The evidence is what the tools found, a draft under review cites it, and so
\* does every answer: every step keeps it that way.
THEOREM AnswersAreSound == Spec => []AnswersInv
<1>1. AnswersInv /\ [Next]_vars => AnswersInv'
  <2> SUFFICES ASSUME AnswersInv, [Next]_vars PROVE AnswersInv'
    OBVIOUS
  <2>1. CASE UNCHANGED vars
    <3>1. FoundIsSearched'
      BY <2>1, FoundKept DEF AnswersInv, vars
    <3> QED
      BY <2>1, <3>1, NothingAnswered DEF vars
  <2>2. CASE Next
    BY <2>2, SearchSteps, MergeStep, WriteStep, ReviewStep, OtherSteps DEF Next
  <2> QED
    BY <2>1, <2>2
<1> QED
  BY <1>1, AnswersInit, PTL DEF Spec

\* AnswerIsGrounded of the run, for any corpora, budgets and settings: an answer
\* of the model cites text that the documents shown with it have, exceptions
\* included, and with verification on every claim is one the last review
\* supports (_generate_answer, build_context, retain_supported).
THEOREM AnswersAreGrounded == Spec => []AnswerIsGrounded
<1>1. AnswersInv => AnswerIsGrounded
  BY DEF AnswersInv
<1> QED
  BY <1>1, AnswersAreSound, PTL

-----------------------------------------------------------------------------
(* The better candidate is ranked higher *)

\* A quotient falls when the divisor rises, if the dividend is large enough.
LEMMA QuotientFalls ==
    ASSUME NEW u \in Nat, NEW a \in Nat \ {0}, NEW b \in Nat, a < b, a * b <= u
    PROVE  u \div b < u \div a
<1> DEFINE q == u \div a
           s == u \div b
<1>1. /\ q \in Nat /\ s \in Nat /\ u < q * a + a
      /\ s * b <= u /\ u < s * b + b
  OBVIOUS
<1> HIDE DEF q, s
<1>2. SUFFICES ASSUME q <= s PROVE FALSE
  BY <1>1 DEF q, s
<1>3. \A x, y, z \in Nat : x <= y => x * z <= y * z
  OBVIOUS
<1>4. PICK c \in Nat : b = a + 1 + c
  <2>1. b - a - 1 \in Nat /\ b = a + 1 + (b - a - 1)
    OBVIOUS
  <2> QED
    BY <2>1
<1> DEFINE sa == s * a
           sb == s * b
           qa == q * a
           sc == s * c
<1>5. sb = sa + s + sc /\ sa \in Nat /\ sb \in Nat /\ qa \in Nat /\ sc \in Nat
  BY <1>1, <1>4
<1>6. qa <= sa
  BY <1>1, <1>2, <1>3
<1>7. sb <= u /\ u < qa + a /\ u < sb + b
  BY <1>1
<1> HIDE DEF sa, sb, qa, sc
<1>8. s + 1 <= a
  BY <1>1, <1>5, <1>6, <1>7
<1>9. (s + 1) * b <= a * b
  BY <1>1, <1>3, <1>8
<1>10. (s + 1) * b = sb + b
  BY <1>1 DEF sb
<1>11. a * b \in Nat
  OBVIOUS
<1> QED
  BY <1>5, <1>7, <1>9, <1>10, <1>11

\* The higher score has the higher reciprocal rank.
LEMMA ReciprocalRises ==
    ASSUME NEW score, AreScores(score), NEW d \in DOMAIN score, NEW e \in DOMAIN score,
           score[d] > score[e]
    PROVE  Reciprocal(d, score) > Reciprocal(e, score)
<1> DEFINE S == DOMAIN score
           tie == [x \in S |-> x]
           n == Cardinality(S)
           p == Place(d, S, score, tie)
           q == Place(e, S, score, tie)
           u == Unit(n)
<1>1. Orders(S, score, tie) /\ n \in Nat /\ p \in 1 .. n /\ q \in 1 .. n
  BY RankIs
<1>2. score[d] \in Nat /\ score[e] \in Nat /\ score[d] # 0
  BY DEF AreScores
<1>3. /\ Reciprocal(d, score) = u \div (RrfK + p)
      /\ Reciprocal(e, score) = IF score[e] = 0 THEN 0 ELSE u \div (RrfK + q)
  BY <1>2 DEF Reciprocal
<1>4. u \in Nat /\ u >= (RrfK + n) * (RrfK + n)
  BY <1>1, UnitIs
<1> HIDE DEF tie
<1>5. p < q
  <2>1. d \in Ahead(e, S, score, tie)
    BY DEF Ahead
  <2> QED
    BY <1>1, <2>1, PlaceRises
<1> HIDE DEF S, n, p, q, u
<1> DEFINE a == RrfK + p
           b == RrfK + q
           m == RrfK + n
<1>6. a \in Nat \ {0} /\ b \in Nat /\ m \in Nat /\ a < b /\ b <= m
  BY <1>1, <1>5, RetrievalAssumption
<1>7. Reciprocal(d, score) = u \div a /\ u >= m * m
  BY <1>3, <1>4
<1>8. Reciprocal(e, score) \in {0, u \div b}
  BY <1>3
<1> HIDE DEF a, b, m
<1>9. a * b <= u
  <2>1. \A x, y, z \in Nat : x <= y => x * z <= y * z /\ z * x <= z * y
    OBVIOUS
  <2>2. a * b <= m * b /\ m * b <= m * m
    BY <1>6, <2>1
  <2>3. a * b \in Nat /\ m * b \in Nat /\ m * m \in Nat
    BY <1>6
  <2> QED
    BY <1>4, <1>7, <2>2, <2>3
<1>10. u \div b < u \div a
  BY <1>4, <1>6, <1>9, QuotientFalls
<1>11. u \div b \in Nat /\ u \div a \in Nat
  BY <1>4, <1>6
<1> QED
  BY <1>7, <1>8, <1>10, <1>11

\* Nearer and matching better is ranked higher, and passes wherever the other does.
LEMMA BetterIsAhead ==
    ASSUME NEW merged, NEW corpus, AreMerged(merged, corpus), NEW fusion, NEW filtered,
           NEW d \in DOMAIN merged, NEW e \in Passed(merged, filtered),
           merged[d].near > merged[e].near, merged[d].match > merged[e].match
    PROVE  /\ d \in Passed(merged, filtered)
           /\ RankingScore(merged, fusion)[d] > RankingScore(merged, fusion)[e]
<1>1. e \in DOMAIN merged
  BY DEF Passed
<1>2. /\ merged[d].near \in Nat /\ merged[e].near \in Nat
      /\ merged[d].match \in Nat /\ merged[e].match \in Nat
  BY <1>1 DEF AreMerged
<1>3. Weighted(merged[d]) > Weighted(merged[e])
  <2> DEFINE v == VectorWeight
             w == KeywordWeight
  <2>1. v \in Nat /\ w \in Nat /\ v + w = 10
    BY RetrievalAssumption
  <2>2. \A x, y, z \in Nat : x > y => z * x >= z * y + z
    <3>1. ASSUME NEW x \in Nat, NEW y \in Nat, NEW z \in Nat, x > y
          PROVE  z * x >= z * y + z
      <4>1. PICK c \in Nat : x = y + 1 + c
        <5>1. x - y - 1 \in Nat /\ x = y + 1 + (x - y - 1)
          BY <3>1
        <5> QED
          BY <5>1
      <4>2. z * x = z * y + z + z * c /\ z * c \in Nat /\ z * y \in Nat
        BY <4>1
      <4> QED
        BY <4>2
    <3> QED
      BY <3>1
  <2> DEFINE a == v * merged[d].near
             b == v * merged[e].near
             f == w * merged[d].match
             g == w * merged[e].match
  <2>3. a >= b + v /\ f >= g + w
    BY <1>2, <2>1, <2>2
  <2>4. a \in Nat /\ b \in Nat /\ f \in Nat /\ g \in Nat
    BY <1>2, <2>1
  <2>5. Weighted(merged[d]) = a + f /\ Weighted(merged[e]) = b + g
    BY DEF Weighted
  <2> HIDE DEF a, b, f, g, v, w
  <2> QED
    BY <2>1, <2>3, <2>4, <2>5
<1>4. Weighted(merged[d]) \in Nat /\ Weighted(merged[e]) \in Nat
  BY <1>1, ScoresAre
<1>5. d \in Passed(merged, filtered)
  <2>1. filtered => Weighted(merged[e]) >= Threshold
    BY DEF Passed
  <2>2. filtered => Weighted(merged[d]) >= Threshold
    BY <1>3, <1>4, <2>1, RetrievalAssumption
  <2> QED
    BY <2>2 DEF Passed
<1>6. Fused(d, merged) > Fused(e, merged)
  <2> DEFINE a == NearOf(merged)
             b == MatchOf(merged)
  <2>1. /\ AreScores(a) /\ AreScores(b) /\ DOMAIN a = DOMAIN merged /\ DOMAIN b = DOMAIN merged
        /\ a[d] = merged[d].near /\ a[e] = merged[e].near
        /\ b[d] = merged[d].match /\ b[e] = merged[e].match
        /\ Fused(d, merged) = Reciprocal(d, a) + Reciprocal(d, b)
        /\ Fused(e, merged) = Reciprocal(e, a) + Reciprocal(e, b)
    BY <1>1, ScoresAre
  <2> HIDE DEF a, b
  <2>2. Reciprocal(d, a) > Reciprocal(e, a) /\ Reciprocal(d, b) > Reciprocal(e, b)
    BY <1>1, <2>1, ReciprocalRises
  <2>3. /\ Reciprocal(d, a) \in Int /\ Reciprocal(e, a) \in Int
        /\ Reciprocal(d, b) \in Int /\ Reciprocal(e, b) \in Int
    BY <1>1, <2>1, ReciprocalType
  <2> QED
    BY <2>1, <2>2, <2>3
<1>7. /\ RankingScore(merged, fusion)[d] = IF fusion = "rrf" THEN Fused(d, merged)
                                           ELSE Weighted(merged[d])
      /\ RankingScore(merged, fusion)[e] = IF fusion = "rrf" THEN Fused(e, merged)
                                           ELSE Weighted(merged[e])
  BY <1>1 DEF RankingScore
<1> QED
  BY <1>3, <1>5, <1>6, <1>7

\* Different documents, and none that is left out is better in both respects.
AreBest(docs, k, merged) ==
    LET returned == {docs[i] : i \in 1 .. Len(docs)}
    IN  /\ Len(docs) \in Nat /\ Len(docs) <= k /\ Cardinality(returned) = Len(docs)
        /\ returned \subseteq DOMAIN merged
        /\ \A d \in DOMAIN merged \ returned, e \in returned :
             ~(merged[d].near > merged[e].near /\ merged[d].match > merged[e].match)

\* So is what the ranking returns.
LEMMA RankedBest ==
    ASSUME NEW merged, NEW corpus, AreMerged(merged, corpus), NEW k \in Nat, NEW fusion,
           NEW filtered
    PROVE  AreBest(Ranked(merged, k, fusion, filtered), k, merged)
<1> DEFINE S == Passed(merged, filtered)
           f == RankingScore(merged, fusion)
           tie == [d \in DOMAIN merged |-> merged[d].at]
           docs == Ranked(merged, k, fusion, filtered)
           returned == {docs[i] : i \in 1 .. Len(docs)}
           g == [i \in 1 .. Len(docs) |-> docs[i]]
<1>1. /\ Orders(S, f, tie) /\ docs \in Seq(S) /\ Len(docs) <= k /\ Len(docs) <= Cardinality(S)
      /\ \A i \in 1 .. Len(docs) : Place(docs[i], S, f, tie) = i
  BY RankedIs
<1>2. S \subseteq DOMAIN merged
  BY DEF Passed
<1> HIDE DEF S, f, tie, docs
<1>3. Len(docs) \in Nat /\ \A i \in 1 .. Len(docs) : docs[i] \in S
  BY <1>1
<1>4. Cardinality(returned) = Len(docs)
  <2>1. g \in Surjection(1 .. Len(docs), returned)
    BY DEF Surjection
  <2>2. g \in Injection(1 .. Len(docs), returned)
    <3>1. \A i, j \in 1 .. Len(docs) : docs[i] = docs[j] => i = j
      BY <1>1
    <3> QED
      BY <3>1 DEF Injection, IsInjective
  <2>3. IsFiniteSet(1 .. Len(docs)) /\ Cardinality(1 .. Len(docs)) = Len(docs)
    BY <1>3, FS_Interval
  <2> HIDE DEF g, returned
  <2> QED
    BY <2>1, <2>2, <2>3, FS_Surjection
<1>5. returned \subseteq DOMAIN merged
  BY <1>2, <1>3
<1>6. ASSUME NEW d \in DOMAIN merged, NEW i \in 1 .. Len(docs),
             merged[d].near > merged[docs[i]].near, merged[d].match > merged[docs[i]].match
      PROVE  d \in returned
  <2> DEFINE e == docs[i]
  <2>1. e \in S
    BY <1>3
  <2>2. d \in S /\ f[d] > f[e]
    BY <1>6, <2>1, BetterIsAhead DEF S, f
  <2>3. d \in Ahead(e, S, f, tie)
    BY <2>2 DEF Ahead
  <2> DEFINE p == Place(d, S, f, tie)
  <2>4. p < i
    <3>1. Place(e, S, f, tie) = i
      BY <1>1
    <3> QED
      BY <1>1, <2>1, <2>2, <2>3, <3>1, PlaceRises
  <2>5. p \in Nat /\ p >= 1
    BY <1>1, <2>2, PlaceType
  <2>6. p \in 1 .. Len(docs)
    BY <1>3, <2>4, <2>5
  <2>7. Place(docs[p], S, f, tie) = p /\ docs[p] \in S
    BY <1>1, <1>3, <2>6
  <2>8. docs[p] = d
    BY <1>1, <2>2, <2>7, PlaceApart
  <2> QED
    BY <2>6, <2>8
<1> QED
  BY <1>1, <1>3, <1>4, <1>5, <1>6 DEF AreBest, docs

\* The scores of a merged document are its best ones.
LEMMA MergedScores ==
    ASSUME NEW corpus, IsCorpus(corpus), NEW types
    PROVE  LET vector  == VectorRows(corpus, types)
               keyword == KeywordRows(corpus, types)
               merged  == Merged(vector \cup keyword)
           IN  /\ DOMAIN merged = {r.doc : r \in vector \cup keyword}
               /\ \A d \in DOMAIN merged : /\ merged[d].near = BestNear(d, vector)
                                          /\ merged[d].match = BestMatch(d, keyword)
<1> DEFINE vector  == VectorRows(corpus, types)
           keyword == KeywordRows(corpus, types)
           all     == vector \cup keyword
           merged  == Merged(all)
<1>1. \A r \in vector : r.match = 0
  BY VectorRowsAre
<1>2. \A r \in keyword : r.near = 0
  BY TermRowsAre DEF KeywordRows
<1> HIDE DEF vector, keyword
<1>3. DOMAIN merged = {r.doc : r \in all}
  BY DEF Merged
<1>4. ASSUME NEW d \in DOMAIN merged
      PROVE  merged[d].near = BestNear(d, vector) /\ merged[d].match = BestMatch(d, keyword)
  <2> DEFINE own == Of(d, all)
             v == Of(d, vector)
             w == Of(d, keyword)
  <2>1. own = v \cup w /\ v \subseteq vector /\ w \subseteq keyword
    BY DEF Of
  <2>2. merged[d].near = Best({r.near : r \in own}) /\ merged[d].match = Best({r.match : r \in own})
    BY <1>3 DEF Merged, KeywordScore
  <2> HIDE DEF own, v, w
  <2>3. {r.near : r \in own} \cup {0} = {r.near : r \in v} \cup {0}
    BY <1>2, <2>1
  <2>4. {r.match : r \in own} \cup {0} = {r.match : r \in w} \cup {0}
    BY <1>1, <2>1
  <2>5. Best({r.near : r \in own}) = Best({r.near : r \in v})
    BY <2>3 DEF Best
  <2>6. Best({r.match : r \in own}) = Best({r.match : r \in w})
    BY <2>4 DEF Best
  <2> QED
    BY <2>2, <2>5, <2>6 DEF BestNear, BestMatch, v, w
<1> QED
  BY <1>3, <1>4 DEF vector, keyword

\* BestCandidatesFirst of the run, for any corpora, weights and limits, with
\* either fusion: a search returns different documents, at most top_k, and none
\* of the candidates it leaves out is both nearer and matching better than one
\* it returns (_merge_search_results).
THEOREM BestAreFirst == Spec => []BestCandidatesFirst
<1>1. AnswersInv => BestCandidatesFirst
  <2> SUFFICES ASSUME AnswersInv, NEW t \in ToolNames, found[t] # << >>
               PROVE  LET vector   == VectorRows(request.corpus, SourceTypes(t))
                          keyword  == KeywordRows(request.corpus, SourceTypes(t))
                          returned == {found[t][i].id[2] : i \in DOMAIN found[t]}
                      IN  /\ Cardinality(returned) = Len(found[t]) /\ Len(found[t]) <= TopK
                          /\ \A d \in {r.doc : r \in vector \cup keyword} \ returned :
                              \A e \in returned : ~(/\ BestNear(d, vector) > BestNear(e, vector)
                                                    /\ BestMatch(d, keyword) > BestMatch(e, keyword))
    BY DEF BestCandidatesFirst
  <2> DEFINE corpus  == request.corpus
             vector  == VectorRows(corpus, SourceTypes(t))
             keyword == KeywordRows(corpus, SourceTypes(t))
             merged  == Merged(vector \cup keyword)
             docs    == Ranked(merged, TopK, request.fusion, request.filtered)
             s       == found[t]
             given   == {docs[i] : i \in 1 .. Len(docs)}
             returned == {s[i].id[2] : i \in DOMAIN s}
  <2>1. IsCorpus(corpus) /\ TopK \in Nat
    BY AnswersAssumption DEF AnswersInv
  <2>2. s = Searched(t)
    BY DEF AnswersInv, FoundIsSearched
  <2>3. /\ AreMerged(merged, corpus) /\ s \in Seq(Evidences) /\ Len(s) = Len(docs)
        /\ \A i \in 1 .. Len(docs) : s[i].id[2] = docs[i]
    BY <2>1, <2>2, SearchedIs
  <2>4. /\ DOMAIN merged = {r.doc : r \in vector \cup keyword}
        /\ \A d \in DOMAIN merged : /\ merged[d].near = BestNear(d, vector)
                                   /\ merged[d].match = BestMatch(d, keyword)
    BY <2>1, MergedScores
  <2> HIDE DEF corpus, vector, keyword, merged
  <2>5. /\ Len(docs) \in Nat /\ Len(docs) <= TopK /\ Cardinality(given) = Len(docs)
        /\ given \subseteq DOMAIN merged
        /\ \A d \in DOMAIN merged \ given, e \in given :
             ~(merged[d].near > merged[e].near /\ merged[d].match > merged[e].match)
    <3>1. AreBest(docs, TopK, merged)
      BY <2>1, <2>3, RankedBest
    <3> HIDE DEF docs
    <3> QED
      BY <3>1 DEF AreBest
  <2> HIDE DEF docs, s
  <2>6. DOMAIN s = 1 .. Len(docs)
    BY <2>3
  <2>7. returned = given
    BY <2>3, <2>6
  <2> HIDE DEF returned, given
  <2>8. /\ Cardinality(returned) = Len(s) /\ Len(s) <= TopK
        /\ \A d \in {r.doc : r \in vector \cup keyword} \ returned :
            \A e \in returned : ~(/\ BestNear(d, vector) > BestNear(e, vector)
                                  /\ BestMatch(d, keyword) > BestMatch(e, keyword))
    BY <2>3, <2>4, <2>5, <2>7
  <2> QED
    BY <2>8 DEF returned, s, vector, keyword, corpus
<1> QED
  BY <1>1, AnswersAreSound, PTL

-----------------------------------------------------------------------------
(* Progress *)

States == {"waiting", "running", "found", "reporting", "done", "failed",
           "cancelling", "cancelled"}

\* What the callback may be told.
Stages == {"tool_selected", "tool_completed", "generation_started",
           "generation_completed"}
Tellings == Stages \X (ToolNames \cup {"none", "llm", "fallback"})

\* What the state of one tool's task says of the request's step and of the
\* events: a task in its search or its callback belongs to that step, a tool
\* was reported when its task is done, and not before its callback has run.
TaskInv(t) ==
    /\ call[t] \in {"running", "found", "reporting"} => step = "searching"
    /\ call[t] = "cancelling" => step = "unwinding"
    /\ step \in {"intake", "selecting"} => call[t] = "waiting"
    /\ t \notin Tasks => call[t] = "waiting"
    /\ Reported(t) => call[t] \in {"done", "failed", "cancelled"}
    /\ call[t] = "done" => Reported(t)
    /\ OnceAtMost(t)

\* The tools announced so far, in their order.
Announcing ==
    /\ step = "intake" => events = << >>
    /\ step = "selecting" =>
        /\ Len(events) < Len(SelectedTools)
        /\ \A i \in 1 .. Len(events) : events[i] = <<"tool_selected", SelectedTools[i]>>
    /\ step \in {"searching", "unwinding"} => Announced

ProgressInv ==
    /\ call \in [ToolNames -> States]
    /\ events \in Seq(Tellings)
    /\ Announcing
    /\ \A t \in ToolNames : TaskInv(t)

\* The tools depend on the request only.
LEMMA TasksKept ==
    ASSUME request' = request
    PROVE  SelectedTools' = SelectedTools /\ Tasks' = Tasks
  BY DEF SelectedTools, Tasks

\* One more event: what was told stays.
LEMMA ToldIs ==
    ASSUME events \in Seq(Tellings), NEW stage, NEW tool, <<stage, tool>> \in Tellings,
           Told(stage, tool)
    PROVE  /\ events' \in Seq(Tellings) /\ Len(events') = Len(events) + 1
           /\ Len(events) \in Nat
           /\ \A i \in 1 .. Len(events) : events'[i] = events[i]
           /\ events'[Len(events) + 1] = <<stage, tool>>
<1> DEFINE e == <<stage, tool>>
           T == Tellings
<1>1. events' = Append(events, e) /\ e \in T /\ events \in Seq(T)
  BY DEF Told
<1> HIDE DEF e, T
<1>2. /\ events' \in Seq(T) /\ Len(events') = Len(events) + 1
      /\ Len(events) \in Nat
      /\ \A i \in 1 .. Len(events) : events'[i] = events[i]
      /\ events'[Len(events) + 1] = e
  BY <1>1
<1> QED
  BY <1>2 DEF e, T

\* Which tools were reported then.
LEMMA ToldReports ==
    ASSUME events \in Seq(Tellings), NEW stage, NEW tool, <<stage, tool>> \in Tellings,
           Told(stage, tool), NEW t
    PROVE  /\ Reported(t)' <=> Reported(t) \/ <<stage, tool>> = Completed(t)
           /\ OnceAtMost(t) /\ (Reported(t) => <<stage, tool>> # Completed(t)) => OnceAtMost(t)'
<1> DEFINE n == Len(events)
           e == <<stage, tool>>
           c == Completed(t)
<1>1. /\ DOMAIN events' = 1 .. n + 1 /\ DOMAIN events = 1 .. n /\ n \in Nat
      /\ \A i \in 1 .. n : events'[i] = events[i]
      /\ events'[n + 1] = e
  <2>1. DOMAIN events = 1 .. n
    OBVIOUS
  <2>2. /\ events' \in Seq(Tellings) /\ Len(events') = n + 1 /\ n \in Nat
        /\ \A i \in 1 .. n : events'[i] = events[i]
        /\ events'[n + 1] = e
    BY ToldIs
  <2>3. DOMAIN events' = 1 .. Len(events')
    BY <2>2
  <2> QED
    BY <2>1, <2>2, <2>3
<1>2. c' = c
  BY DEF Completed
<1> HIDE DEF n, e, c
<1>3. Reported(t) <=> \E i \in 1 .. n : events[i] = c
  BY <1>1 DEF Reported, c
<1>4. Reported(t)' <=> \E i \in 1 .. n + 1 : events'[i] = c
  BY <1>1, <1>2 DEF Reported, c
<1>5. Reported(t)' <=> Reported(t) \/ e = c
  <2>1. ASSUME NEW i \in 1 .. n + 1, events'[i] = c
        PROVE  Reported(t) \/ e = c
    <3>1. CASE i = n + 1
      BY <1>1, <2>1, <3>1
    <3>2. CASE i # n + 1
      <4>1. i \in 1 .. n
        BY <1>1, <3>2
      <4> QED
        BY <1>1, <1>3, <2>1, <4>1
    <3> QED
      BY <3>1, <3>2
  <2>2. ASSUME NEW i \in 1 .. n, events[i] = c
        PROVE  Reported(t)'
    <3>1. i \in 1 .. n + 1 /\ events'[i] = c
      BY <1>1, <2>2
    <3> QED
      BY <1>4, <3>1
  <2>3. ASSUME e = c PROVE Reported(t)'
    <3>1. n + 1 \in 1 .. n + 1
      BY <1>1
    <3> QED
      BY <1>1, <1>4, <2>3, <3>1
  <2> QED
    BY <1>3, <1>4, <2>1, <2>2, <2>3
<1>6. ASSUME OnceAtMost(t), Reported(t) => e # c
      PROVE  OnceAtMost(t)'
  <2>1. ASSUME NEW i \in 1 .. n + 1, NEW j \in 1 .. n + 1, events'[i] = c, events'[j] = c
        PROVE  i = j
    <3>1. \A k \in 1 .. n + 1 : k # n + 1 => k \in 1 .. n
      BY <1>1
    <3>2. CASE i = n + 1 \/ j = n + 1
      <4>1. e = c
        BY <1>1, <2>1, <3>2
      <4>2. \A k \in 1 .. n : events[k] # c
        BY <1>3, <1>6, <4>1
      <4> QED
        BY <1>1, <2>1, <3>1, <4>2
    <3>3. CASE i # n + 1 /\ j # n + 1
      <4>1. i \in 1 .. n /\ j \in 1 .. n /\ events[i] = c /\ events[j] = c
        BY <1>1, <2>1, <3>1, <3>3
      <4> QED
        BY <1>1, <1>6, <4>1 DEF OnceAtMost, c
    <3> QED
      BY <3>2, <3>3
  <2> QED
    BY <1>1, <1>2, <2>1 DEF OnceAtMost, c
<1> QED
  BY <1>5, <1>6 DEF e, c

\* A tool that is not reported now was told of once and stays so.
LEMMA SameEvents ==
    ASSUME events' = events, NEW t
    PROVE  Reported(t)' = Reported(t) /\ OnceAtMost(t)' = OnceAtMost(t)
  BY DEF Reported, OnceAtMost, Completed

\* A step that reports no tool: no event, or one of another stage.
Quiet ==
    \/ events' = events
    \/ \E stage \in Stages \ {"tool_completed"}, tool \in ToolNames \cup {"none", "llm", "fallback"} :
            Told(stage, tool)

\* Such a step reports nothing new.
LEMMA QuietIs ==
    ASSUME events \in Seq(Tellings), Quiet, NEW t
    PROVE  /\ events' \in Seq(Tellings)
           /\ Reported(t)' <=> Reported(t)
           /\ OnceAtMost(t) => OnceAtMost(t)'
<1>1. CASE events' = events
  BY <1>1, SameEvents
<1>2. ASSUME NEW stage \in Stages \ {"tool_completed"},
             NEW tool \in ToolNames \cup {"none", "llm", "fallback"}, Told(stage, tool)
      PROVE  /\ events' \in Seq(Tellings)
             /\ Reported(t)' <=> Reported(t)
             /\ OnceAtMost(t) => OnceAtMost(t)'
  <2>1. <<stage, tool>> \in Tellings
    BY DEF Tellings
  <2>2. <<stage, tool>> # Completed(t)
    BY DEF Completed
  <2> QED
    BY <1>2, <2>1, <2>2, ToldIs, ToldReports
<1> QED
  BY <1>1, <1>2 DEF Quiet

\* No task is at work.
Idle == \A t \in ToolNames : call[t] \notin {"running", "found", "reporting", "cancelling"}

\* Outside the searches none is.
LEMMA IdleOutside ==
    ASSUME ProgressInv, step \notin {"searching", "unwinding"}
    PROVE  Idle
  BY DEF ProgressInv, TaskInv, Idle

\* A step beyond the searches.
LEMMA Later ==
    ASSUME ProgressInv, Idle, request' = request, call' = call, Quiet,
           step' \notin {"intake", "selecting", "searching", "unwinding"}
    PROVE  ProgressInv'
<1>1. call' \in [ToolNames -> States] /\ events \in Seq(Tellings)
  BY DEF ProgressInv
<1>2. events' \in Seq(Tellings)
  BY <1>1, QuietIs
<1>3. Announcing'
  BY DEF Announcing
<1>4. ASSUME NEW t \in ToolNames PROVE TaskInv(t)'
  <2>1. TaskInv(t) /\ call[t] \notin {"running", "found", "reporting", "cancelling"}
    BY DEF ProgressInv, Idle
  <2>2. (Reported(t)' <=> Reported(t)) /\ (OnceAtMost(t) => OnceAtMost(t)') /\ Tasks' = Tasks
    BY <1>1, QuietIs, TasksKept
  <2> QED
    BY <2>1, <2>2 DEF TaskInv
<1> QED
  BY <1>1, <1>2, <1>3, <1>4 DEF ProgressInv

\* A step of the searches in which only the task of t moves.
LEMMA OneTask ==
    ASSUME ProgressInv, request' = request, step' = step, NEW t \in ToolNames,
           NEW s \in States, call' = [call EXCEPT ![t] = s],
           step \in {"searching", "unwinding"},
           s \in {"running", "found", "reporting"} => step = "searching",
           s = "cancelling" => step = "unwinding",
           t \notin Tasks => s = "waiting",
           events' = events \/ (Told("tool_completed", t) /\ ~Reported(t)),
           Reported(t)' => s \in {"done", "failed", "cancelled"},
           s = "done" => Reported(t)'
    PROVE  ProgressInv'
<1>1. /\ call \in [ToolNames -> States] /\ events \in Seq(Tellings) /\ Announced
      /\ \A u \in ToolNames : TaskInv(u)
  BY DEF ProgressInv, Announcing
<1>2. call' \in [ToolNames -> States] /\ call'[t] = s
      /\ \A u \in ToolNames : u # t => call'[u] = call[u]
  BY <1>1
<1>3. <<"tool_completed", t>> \in Tellings
  BY DEF Tellings, Stages
<1>4. /\ events' \in Seq(Tellings)
      /\ \A i \in DOMAIN events : i \in DOMAIN events' /\ events'[i] = events[i]
  <2>1. CASE events' = events
    BY <1>1, <2>1
  <2>2. CASE Told("tool_completed", t)
    <3>1. /\ events' \in Seq(Tellings) /\ Len(events') = Len(events) + 1
          /\ Len(events) \in Nat
          /\ \A i \in 1 .. Len(events) : events'[i] = events[i]
      BY <1>1, <1>3, <2>2, ToldIs
    <3>2. DOMAIN events = 1 .. Len(events) /\ DOMAIN events' = 1 .. Len(events')
      BY <1>1, <3>1
    <3> QED
      BY <3>1, <3>2
  <2> QED
    BY <2>1, <2>2
<1>5. Announced'
  BY <1>1, <1>4, TasksKept DEF Announced
<1>6. Announcing'
  BY <1>5 DEF Announcing
<1>7. ASSUME NEW u \in ToolNames
      PROVE  /\ u # t => (Reported(u)' <=> Reported(u))
             /\ OnceAtMost(u)'
  <2>1. CASE events' = events
    BY <1>1, <2>1, SameEvents DEF TaskInv
  <2>2. CASE Told("tool_completed", t) /\ ~Reported(t)
    <3>1. u # t => <<"tool_completed", t>> # Completed(u)
      BY DEF Completed
    <3> QED
      BY <1>1, <1>3, <2>2, <3>1, ToldReports DEF TaskInv
  <2> QED
    BY <2>1, <2>2
<1>8. ASSUME NEW u \in ToolNames PROVE TaskInv(u)'
  <2>1. TaskInv(u) /\ Tasks' = Tasks /\ OnceAtMost(u)'
    BY <1>1, <1>7, TasksKept
  <2>2. CASE u = t
    BY <1>2, <2>1, <2>2 DEF TaskInv
  <2>3. CASE u # t
    BY <1>2, <1>7, <2>1, <2>3 DEF TaskInv
  <2> QED
    BY <2>2, <2>3
<1> QED
  BY <1>2, <1>4, <1>6, <1>8 DEF ProgressInv

\* No task has begun.
LEMMA ProgressInit == Init => ProgressInv
<1> SUFFICES ASSUME Init PROVE ProgressInv
  OBVIOUS
<1>1. call = [t \in ToolNames |-> "waiting"] /\ events = << >>
  BY DEF Init
<1>2. step \in {"intake", "search"}
  BY DEF Init
<1>3. call \in [ToolNames -> States]
  BY <1>1 DEF States
<1>4. DOMAIN events = {} /\ events \in Seq(Tellings)
  BY <1>1
<1>5. ASSUME NEW t \in ToolNames PROVE TaskInv(t)
  BY <1>1, <1>2, <1>4 DEF TaskInv, Reported, OnceAtMost
<1>6. Announcing
  BY <1>1, <1>2 DEF Announcing
<1> QED
  BY <1>3, <1>4, <1>5, <1>6 DEF ProgressInv

\* Intake.
LEMMA ProgressAssess ==
    ASSUME ProgressInv, Assess
    PROVE  ProgressInv'
<1>1. /\ step = "intake" /\ request' = request /\ call' = call /\ events' = events
      /\ step' \in {"intake", "selecting", "answered", "failed"}
  BY DEF Assess, Respond, Fail
<1>2. CASE step' \in {"answered", "failed"}
  BY <1>1, <1>2, IdleOutside, Later DEF Quiet
<1>3. CASE step' \in {"intake", "selecting"}
  <2>1. events = << >> /\ events' = << >>
    BY <1>1 DEF ProgressInv, Announcing
  <2>2. Len(events') = 0
    BY <2>1
  <2>3. Announcing'
    BY <1>1, <1>3, <2>1, <2>2, TasksKept, SelectedAre DEF Announcing
  <2>4. ASSUME NEW t \in ToolNames PROVE TaskInv(t)'
    <3>1. TaskInv(t) /\ Tasks' = Tasks /\ Reported(t)' = Reported(t) /\ OnceAtMost(t)' = OnceAtMost(t)
      BY <1>1, TasksKept, SameEvents DEF ProgressInv
    <3> QED
      BY <1>1, <1>3, <3>1 DEF TaskInv
  <2> QED
    BY <1>1, <2>3, <2>4 DEF ProgressInv
<1> QED
  BY <1>1, <1>2, <1>3

\* One more tool announced; after the last one all are called.
LEMMA ProgressSelect ==
    ASSUME ProgressInv, Select
    PROVE  ProgressInv'
<1> DEFINE n == Len(events) + 1
           tool == SelectedTools[n]
<1>1. /\ step = "selecting" /\ request' = request /\ Told("tool_selected", tool)
      /\ \/ n < Len(SelectedTools) /\ step' = step /\ call' = call
         \/ /\ n = Len(SelectedTools) /\ step' = "searching"
            /\ call' = [t \in ToolNames |-> IF t \in Tasks THEN "running" ELSE "waiting"]
         \/ Fail /\ call' = call
  BY DEF Select
<1>2. /\ events \in Seq(Tellings) /\ Len(events) < Len(SelectedTools)
      /\ \A i \in 1 .. Len(events) : events[i] = <<"tool_selected", SelectedTools[i]>>
      /\ Len(events) \in Nat /\ DOMAIN events = 1 .. Len(events)
  BY <1>1 DEF ProgressInv, Announcing
<1>3. n \in DOMAIN SelectedTools /\ tool \in ToolNames /\ Tasks \subseteq ToolNames
  BY <1>2, SelectedAre
<1>4. Quiet
  BY <1>1, <1>3 DEF Quiet, Stages
<1>5. /\ events' \in Seq(Tellings) /\ Len(events') = n
      /\ \A i \in 1 .. n : events'[i] = <<"tool_selected", SelectedTools[i]>>
      /\ DOMAIN events' = 1 .. n
  <2>1. <<"tool_selected", tool>> \in Tellings
    BY <1>3 DEF Tellings, Stages
  <2>2. /\ events' \in Seq(Tellings) /\ Len(events') = n
        /\ \A i \in 1 .. Len(events) : events'[i] = events[i]
        /\ events'[n] = <<"tool_selected", tool>>
    BY <1>1, <1>2, <2>1, ToldIs
  <2>3. DOMAIN events' = 1 .. Len(events')
    BY <2>2
  <2>4. ASSUME NEW i \in 1 .. n PROVE events'[i] = <<"tool_selected", SelectedTools[i]>>
    <3>1. i = n \/ i \in 1 .. Len(events)
      BY <1>2
    <3> QED
      BY <1>2, <2>2, <3>1
  <2> QED
    BY <2>2, <2>3, <2>4
<1>6. \A t \in ToolNames : /\ (Reported(t)' <=> Reported(t)) /\ (OnceAtMost(t) => OnceAtMost(t)')
                           /\ TaskInv(t) /\ call[t] = "waiting"
  BY <1>1, <1>2, <1>4, QuietIs DEF ProgressInv, TaskInv
<1>7. SelectedTools' = SelectedTools /\ Tasks' = Tasks
  BY <1>1, TasksKept
<1> HIDE DEF n, tool
<1>8. CASE n < Len(SelectedTools) /\ step' = step /\ call' = call
  <2>1. Announcing'
    BY <1>1, <1>5, <1>7, <1>8 DEF Announcing
  <2>2. \A t \in ToolNames : TaskInv(t)'
    BY <1>1, <1>6, <1>7, <1>8 DEF TaskInv
  <2> QED
    BY <1>5, <1>8, <2>1, <2>2 DEF ProgressInv
<1>9. CASE /\ n = Len(SelectedTools) /\ step' = "searching"
           /\ call' = [t \in ToolNames |-> IF t \in Tasks THEN "running" ELSE "waiting"]
  <2>1. Announced'
    BY <1>5, <1>7, <1>9, SelectedAre DEF Announced
  <2>2. Announcing'
    BY <1>9, <2>1 DEF Announcing
  <2>3. \A t \in ToolNames : TaskInv(t)'
    BY <1>6, <1>7, <1>9 DEF TaskInv
  <2>4. call' \in [ToolNames -> States]
    BY <1>9 DEF States
  <2> QED
    BY <1>5, <2>2, <2>3, <2>4 DEF ProgressInv
<1>10. CASE Fail /\ call' = call
  BY <1>1, <1>4, <1>10, IdleOutside, Later DEF Fail
<1> QED
  BY <1>1, <1>8, <1>9, <1>10 DEF n, tool

\* The tasks: a tool is reported by its own callback only, and by it once.
LEMMA ProgressTask ==
    ASSUME ProgressInv, NEW t \in ToolNames,
           Receive(t) \/ BeginReport(t) \/ EndReport(t) \/ Cancelled(t)
    PROVE  ProgressInv'
<1>1. TaskInv(t) /\ events \in Seq(Tellings)
  BY DEF ProgressInv
<1>2. <<"tool_completed", t>> \in Tellings
  BY DEF Tellings, Stages
<1>3. Told("tool_completed", t) => Reported(t)'
  BY <1>1, <1>2, ToldReports DEF Completed
<1>4. events' = events => Reported(t)' = Reported(t)
  BY SameEvents
<1>5. CASE Receive(t)
  <2>1. /\ call[t] = "running" /\ request' = request /\ step' = step /\ events' = events
        /\ \E s \in {"failed", "found"} : call' = [call EXCEPT ![t] = s]
    BY <1>5 DEF Receive
  <2>2. step = "searching" /\ t \in Tasks /\ ~Reported(t)'
    BY <1>1, <1>4, <2>1 DEF TaskInv
  <2> QED
    BY <2>1, <2>2, OneTask DEF States
<1>6. CASE BeginReport(t)
  <2>1. /\ call[t] = "found" /\ request' = request /\ step' = step /\ events' = events
        /\ call' = [call EXCEPT ![t] = "reporting"]
    BY <1>6 DEF BeginReport
  <2>2. step = "searching" /\ t \in Tasks /\ ~Reported(t)'
    BY <1>1, <1>4, <2>1 DEF TaskInv
  <2> QED
    BY <2>1, <2>2, OneTask DEF States
<1>7. CASE EndReport(t)
  <2>1. /\ call[t] = "reporting" /\ request' = request /\ step' = step
        /\ \/ Told("tool_completed", t) /\ call' = [call EXCEPT ![t] = "done"]
           \/ /\ call' = [call EXCEPT ![t] = "failed"]
              /\ Told("tool_completed", t) \/ events' = events
    BY <1>7 DEF EndReport
  <2>2. step = "searching" /\ t \in Tasks /\ ~Reported(t)
    BY <1>1, <2>1 DEF TaskInv
  <2> QED
    BY <1>3, <2>1, <2>2, OneTask DEF States
<1>8. CASE Cancelled(t)
  <2>1. /\ call[t] = "cancelling" /\ request' = request /\ step' = step
        /\ Told("tool_completed", t) \/ events' = events
        /\ call' = [call EXCEPT ![t] = "cancelled"]
    BY <1>8 DEF Cancelled
  <2>2. step = "unwinding" /\ t \in Tasks /\ ~Reported(t)
    BY <1>1, <2>1 DEF TaskInv
  <2> QED
    BY <2>1, <2>2, OneTask DEF States
<1> QED
  BY <1>5, <1>6, <1>7, <1>8

\* Cancelling reports nothing.
LEMMA ProgressUnwind ==
    ASSUME ProgressInv, Unwind
    PROVE  ProgressInv'
<1>1. /\ step = "searching" /\ step' = "unwinding" /\ request' = request /\ events' = events
      /\ call' = [t \in ToolNames |-> IF t \in Tasks /\ ~Ended(t) THEN "cancelling" ELSE call[t]]
  BY DEF Unwind
<1>2. call' \in [ToolNames -> States]
  BY <1>1 DEF ProgressInv, States
<1>3. Announcing'
  BY <1>1, TasksKept DEF ProgressInv, Announcing, Announced
<1>4. ASSUME NEW t \in ToolNames PROVE TaskInv(t)'
  <2>1. /\ TaskInv(t) /\ Tasks' = Tasks /\ call[t] \in States
        /\ Reported(t)' = Reported(t) /\ OnceAtMost(t)' = OnceAtMost(t)
    BY <1>1, TasksKept, SameEvents DEF ProgressInv
  <2>2. CASE t \in Tasks /\ ~Ended(t)
    <3>1. call'[t] = "cancelling" /\ ~Reported(t)
      BY <1>1, <2>1, <2>2 DEF TaskInv, Ended
    <3> QED
      BY <1>1, <2>1, <2>2, <3>1 DEF TaskInv
  <2>3. CASE ~(t \in Tasks /\ ~Ended(t))
    <3>1. call'[t] = call[t]
      BY <1>1, <2>3
    <3>2. call[t] \in {"done", "failed", "cancelled", "waiting"}
      BY <2>1, <2>3 DEF TaskInv, Ended
    <3> QED
      BY <1>1, <2>1, <3>1, <3>2 DEF TaskInv
  <2> QED
    BY <2>2, <2>3
<1> QED
  BY <1>1, <1>2, <1>3, <1>4 DEF ProgressInv

\* Every other step lies beyond the searches.
LEMMA ProgressLater ==
    ASSUME ProgressInv,
           \/ Interrupted \/ Unwound \/ Merge \/ AnswerWithoutModel \/ Write \/ Review
           \/ ReviewFails \/ SearchOne
    PROVE  ProgressInv'
<1>1. request' = request /\ call' = call
  BY DEF Interrupted, Unwound, Merge, AnswerWithoutModel, Write, Review, ReviewFails,
         SearchOne
<1>2. step' \in {"answered", "failed", "generating", "reviewing"}
  BY DEF Interrupted, Unwound, Merge, AnswerWithoutModel, Write, Review, ReviewFails,
         SearchOne, Fail, Fallback, Complete, Respond
<1>3. Quiet
  BY DEF Interrupted, Unwound, Merge, AnswerWithoutModel, Write, Review, ReviewFails,
         SearchOne, Fallback, Complete, Quiet, Stages
<1>4. Idle
  <2>1. CASE step \notin {"searching", "unwinding"}
    BY <2>1, IdleOutside
  <2>2. CASE step \in {"searching", "unwinding"}
    <3>1. \A t \in Tasks : call[t] \in {"done", "failed", "cancelled"}
      BY <2>2 DEF Interrupted, Unwound, Merge, AnswerWithoutModel, Write, Review, ReviewFails,
                  SearchOne, AllOver, Ended
    <3>2. \A t \in ToolNames \ Tasks : call[t] = "waiting"
      BY DEF ProgressInv, TaskInv
    <3> QED
      BY <3>1, <3>2 DEF Idle
  <2> QED
    BY <2>1, <2>2
<1> QED
  BY <1>1, <1>2, <1>3, <1>4, Later

\* What was told of the tools goes with what their tasks are doing: every step
\* keeps it that way.
THEOREM ProgressIsSound == Spec => []ProgressInv
<1>1. ProgressInv /\ [Next]_vars => ProgressInv'
  <2> SUFFICES ASSUME ProgressInv, [Next]_vars PROVE ProgressInv'
    OBVIOUS
  <2>1. CASE UNCHANGED vars
    <3>1. /\ request' = request /\ step' = step /\ call' = call /\ events' = events
      BY <2>1 DEF vars
    <3>2. SelectedTools' = SelectedTools /\ Tasks' = Tasks
      BY <3>1, TasksKept
    <3>3. Announcing'
      BY <3>1, <3>2 DEF ProgressInv, Announcing, Announced
    <3>4. \A t \in ToolNames : TaskInv(t)'
      BY <3>1, <3>2, SameEvents DEF ProgressInv, TaskInv
    <3> QED
      BY <3>1, <3>3, <3>4 DEF ProgressInv
  <2>2. CASE Next
    BY <2>2, ProgressAssess, ProgressSelect, ProgressTask, ProgressUnwind, ProgressLater DEF Next
  <2> QED
    BY <2>1, <2>2
<1> QED
  BY <1>1, ProgressInit, PTL DEF Spec

\* Outside the searches nothing is reported.
LEMMA QuietOutside ==
    ASSUME ProgressInv, Next, step \notin {"searching", "unwinding"}
    PROVE  Quiet /\ ~Over
<1>1. \A t \in ToolNames : ~(Receive(t) \/ BeginReport(t) \/ EndReport(t) \/ Cancelled(t))
  BY IdleOutside DEF Idle, Receive, BeginReport, EndReport, Cancelled
<1>2. CASE Select
  <2>1. /\ step = "selecting" /\ Told("tool_selected", SelectedTools[Len(events) + 1])
    BY <1>2 DEF Select
  <2>2. SelectedTools[Len(events) + 1] \in ToolNames
    <3>1. Len(events) \in Nat /\ Len(events) < Len(SelectedTools)
      BY <2>1 DEF ProgressInv, Announcing
    <3> QED
      BY <3>1, SelectedAre
  <2> QED
    BY <2>1, <2>2 DEF Quiet, Stages, Over
<1>3. CASE \/ Interrupted \/ Assess \/ AnswerWithoutModel \/ Write \/ Review \/ ReviewFails
           \/ SearchOne
  BY <1>3 DEF Interrupted, Assess, AnswerWithoutModel, Write, Review, ReviewFails,
              SearchOne, Fallback, Complete, Quiet, Stages, Over
<1> QED
  BY <1>1, <1>2, <1>3 DEF Next, Unwind, Unwound, Merge

\* The step to generation is the merge.
LEMMA MergedIs ==
    ASSUME AnswersInv, ProgressInv, Next, step = "searching", step' = "generating",
           NEW t \in Tasks
    PROVE  Reported(t) /\ Ids(found[t]) \subseteq Ids(evidence')
<1>1. Merge
  BY DEF Next, Interrupted, Assess, Select, Unwind, Unwound, Receive, BeginReport, EndReport,
         Cancelled, AnswerWithoutModel, Write, Review, ReviewFails, SearchOne
<1>2. call[t] = "done" /\ evidence' = Deduplicated
  BY <1>1 DEF Merge
<1>3. t \in ToolNames
  BY SelectedAre
<1>4. Reported(t)
  BY <1>2, <1>3 DEF ProgressInv, TaskInv
<1>5. Ids(found[t]) \subseteq Ids(Deduplicated)
  BY FoundAre, DeduplicatedIs
<1>6. Ids(evidence') = Ids(Deduplicated)
  BY <1>2
<1> QED
  BY <1>4, <1>5, <1>6

\* ProgressInOrder of the run, for any corpora and settings and whichever tasks
\* fail, hang or are cancelled: a tool reports after all are announced, once,
\* never after the analysis has moved on, and nothing it found is lost in the
\* merge (LegalAgentRuntime.run with callback_lock and gather).
THEOREM ProgressIsInOrder == Spec => ProgressInOrder
<1>1. ASSUME AnswersInv, ProgressInv, ProgressInv', [Next]_vars
      PROVE  [/\ Over => UNCHANGED events
              /\ \A t \in Tasks :
                    /\ Reported(t)' /\ ~Reported(t) =>
                          step \in {"searching", "unwinding"} /\ Announced
                    /\ OnceAtMost(t)'
                    /\ step = "searching" /\ step' = "generating" =>
                          Reported(t) /\ Ids(found[t]) \subseteq Ids(evidence')]_vars
  <2>1. SUFFICES ASSUME Next
                 PROVE  /\ Over => UNCHANGED events
                        /\ \A t \in Tasks :
                            /\ Reported(t)' /\ ~Reported(t) =>
                                  step \in {"searching", "unwinding"} /\ Announced
                            /\ OnceAtMost(t)'
                            /\ step = "searching" /\ step' = "generating" =>
                                  Reported(t) /\ Ids(found[t]) \subseteq Ids(evidence')
    BY <1>1
  <2>2. Over => UNCHANGED events
    BY <1>1, <2>1, QuietOutside DEF Over
  <2>3. ASSUME NEW t \in Tasks, Reported(t)' /\ ~Reported(t)
        PROVE  step \in {"searching", "unwinding"} /\ Announced
    <3>1. events \in Seq(Tellings)
      BY <1>1 DEF ProgressInv
    <3>2. step \in {"searching", "unwinding"}
      BY <1>1, <2>1, <2>3, <3>1, QuietOutside, QuietIs
    <3> QED
      BY <1>1, <3>2 DEF ProgressInv, Announcing
  <2>4. ASSUME NEW t \in Tasks PROVE OnceAtMost(t)'
    BY <1>1, SelectedAre DEF ProgressInv, TaskInv
  <2>5. ASSUME NEW t \in Tasks, step = "searching" /\ step' = "generating"
        PROVE  Reported(t) /\ Ids(found[t]) \subseteq Ids(evidence')
    BY <1>1, <2>1, <2>5, MergedIs
  <2> QED
    BY <2>2, <2>3, <2>4, <2>5
<1> QED
  BY <1>1, AnswersAreSound, ProgressIsSound, PTL DEF Spec, ProgressInOrder

=============================================================================
