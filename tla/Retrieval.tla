------------------------------ MODULE Retrieval ------------------------------
(***************************************************************************)
(* What a search finds: the candidate queries of legal_mcp's               *)
(* LegalRepository and their merge in LegalSearchService.                  *)
(*                                                                         *)
(* A corpus is the set of the chunks of one category.  A chunk is a record *)
(* [doc, n, type, near, found, text]: n is its chunk_index, near how close *)
(* its embedding is to the question's, in tenths, Unembedded if it has     *)
(* none, and found[t] how well the t-th query term matches it or its       *)
(* document, 0 not at all.  A document without chunks is a record of its   *)
(* own whose near is Chunkless.  The weights are tenths.  The database     *)
(* orders equal distances as it likes; here the lower document comes first.*)
(***************************************************************************)
EXTENDS Integers, Sequences, FiniteSets, FiniteSetsExt

CONSTANTS
    Terms,          \* the indexes of extract_query_terms, at most 8
    VectorWeight, KeywordWeight,
    Threshold,      \* of the weighted score, in hundredths
    RrfK,
    CandidateLimit  \* max(top_k * 3, retrieval_top_k)

\* The settings in their ranges (config.py:37-54).
ASSUME RetrievalAssumption ==
    /\ Terms \subseteq Nat \ {0} /\ IsFiniteSet(Terms)
    /\ VectorWeight \in Nat /\ KeywordWeight \in Nat
    /\ VectorWeight + KeywordWeight = 10
    /\ Threshold \in Nat
    /\ RrfK \in Nat \ {0}
    /\ CandidateLimit \in Nat

Unembedded == -1
Chunkless == -2
Types == {"law", "case", "consultation"}

Best(scores) == Max(scores \cup {0})
Top(s, k) == SubSeq(s, 1, Min({k, Len(s)}))

\* The members of S ahead of x by falling f, equal ones by rising tie.
Ahead(x, S, f, tie) ==
    {y \in S : f[y] > f[x] \/ (f[y] = f[x] /\ tie[y] < tie[x])}

Place(x, S, f, tie) == Cardinality(Ahead(x, S, f, tie)) + 1

\* S in this order; f and tie together tell its members apart.
RankedBy(S, f, tie) ==
    [i \in 1 .. Cardinality(S) |-> CHOOSE x \in S : Place(x, S, f, tie) = i]

InOrder(numbers) == RankedBy(numbers, [n \in numbers |-> 0], [n \in numbers |-> n])

\* Chunks by document and chunk_index.
Places(chunks) ==
    [c \in chunks |-> Place(c, chunks, [o \in chunks |-> -o.doc], [o \in chunks |-> o.n])]

-----------------------------------------------------------------------------
(* Candidates: rows with the place "at" where the merge meets them *)

\* ORDER BY c.embedding <=> ... LIMIT: the nearest chunks, those without an
\* embedding last.  Only the search for laws leaves them out.  Documents are
\* joined to their chunks: one without any has no row.
VectorRows(corpus, types) ==
    LET kept == {c \in corpus : /\ c.type \in types
                                /\ c.near # Chunkless
                                /\ types = {"law"} => c.near # Unembedded}
        place(c) == Place(c, kept, [k \in kept |-> k.near], Places(kept))
    IN  {[at |-> place(c), doc |-> c.doc, chunk |-> c, near |-> Best({c.near}), match |-> 0] :
            c \in {c \in kept : place(c) <= CandidateLimit}}

\* One statement for each term: every matching document with its best chunk,
\* the first of equals, or with its own content if it has no chunks (LEFT JOIN).
TermRows(corpus, types, t) ==
    LET hits == {c \in corpus : c.type \in types /\ c.found[t] > 0}
        best == {c \in hits : \A h \in hits : h.doc = c.doc =>
                    h.found[t] < c.found[t] \/ (h.found[t] = c.found[t] /\ c.n <= h.n)}
        place(c) == Place(c, best, [b \in best |-> b.found[t]], [b \in best |-> b.doc])
    IN  {[at |-> t * CandidateLimit + place(c), doc |-> c.doc, chunk |-> c,
          near |-> 0, match |-> c.found[t]] :
            c \in {c \in best : place(c) <= CandidateLimit}}

KeywordRows(corpus, types) == UNION {TermRows(corpus, types, t) : t \in Terms}

-----------------------------------------------------------------------------
(* _merge_search_results *)

First(rows) == CHOOSE r \in rows : \A s \in rows : r.at <= s.at

\* Mutant: the row of the last term overwrites the others.
LastKeywordScore(rows) == (CHOOSE r \in rows : \A s \in rows : s.at <= r.at).match

\* The keyword score of a document is its best over the terms.
KeywordScore(rows) == Best({r.match : r \in rows})

Of(d, rows) == {r \in rows : r.doc = d}

\* The content of the best vector row, or else of the first keyword row; "at"
\* is where the dict "merged" got the document.
Merged(rows) ==
    [d \in {r.doc : r \in rows} |->
        [at    |-> First(Of(d, rows)).at,
         chunk |-> First(Of(d, rows)).chunk,
         near  |-> Best({r.near : r \in Of(d, rows)}),
         match |-> KeywordScore(Of(d, rows))]]

Weighted(score) == VectorWeight * score.near + KeywordWeight * score.match

\* What 1 counts for in the reciprocal ranks of n documents: enough that the
\* rounding reverses no two different sums of two of them.
Unit(n) == LET m == RrfK + n IN 2 * m * m * m * m

\* Documents with a score of 0 have no rank, and it adds nothing.  Equal scores
\* stand in the order of the documents, whose ids the code compares as strings.
Reciprocal(d, score) ==
    IF score[d] = 0 THEN 0
    ELSE Unit(Cardinality(DOMAIN score)) \div
            (RrfK + Place(d, DOMAIN score, score, [e \in DOMAIN score |-> e]))

Fused(d, merged) ==
    Reciprocal(d, [e \in DOMAIN merged |-> merged[e].near]) +
    Reciprocal(d, [e \in DOMAIN merged |-> merged[e].match])

\* The relevance gate.
Passed(merged, filtered) ==
    {d \in DOMAIN merged : filtered => Weighted(merged[d]) >= Threshold}

\* ranking_score
RankingScore(merged, fusion) ==
    [d \in DOMAIN merged |-> IF fusion = "rrf" THEN Fused(d, merged)
                             ELSE Weighted(merged[d])]

\* The stable sort by ranking_score and the cut.
Ranked(merged, k, fusion, filtered) ==
    Top(RankedBy(Passed(merged, filtered), RankingScore(merged, fusion),
                 [d \in DOMAIN merged |-> merged[d].at]), k)

\* _hybrid_search_uncached: the k documents found with their scores and text.
HybridSearched(corpus, types, k, fusion, filtered) ==
    LET merged == Merged(VectorRows(corpus, types) \cup KeywordRows(corpus, types))
        docs   == Ranked(merged, k, fusion, filtered)
    IN  [i \in DOMAIN docs |->
            [doc   |-> docs[i],
             type  |-> merged[docs[i]].chunk.type,
             score |-> Weighted(merged[docs[i]]),
             text  |-> merged[docs[i]].chunk.text]]

=============================================================================
