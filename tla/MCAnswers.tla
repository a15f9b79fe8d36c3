------------------------------ MODULE MCAnswers ------------------------------
(* Small corpora for Answers: sentences, chunks and requests *)
EXTENDS Answers

S(hits)  == [hits |-> hits, proviso |-> FALSE]
But(hits) == [hits |-> hits, proviso |-> TRUE]

Chunk(doc, n, type, near, hits, text) ==
    [doc |-> doc, n |-> n, type |-> type, near |-> near, found |-> hits, text |-> text]

Rule   == <<S(0), S(2), S(0), But(0)>>
Short  == <<S(1)>>
Long   == <<S(0), S(2), S(0), But(0), But(0)>>

\* Two chunks of one case; a case only keywords find; a law not embedded yet
\* and one without chunks.
Mixed == {Chunk(1, 1, "case", 9, <<0, 0>>, Short), Chunk(1, 2, "case", 8, <<5, 10>>, Rule),
          Chunk(2, 1, "case", 5, <<8, 0>>, Short), Chunk(3, 1, "case", 6, <<10, 5>>, Rule),
          Chunk(4, 1, "law", 7, <<6, 0>>, Rule), Chunk(5, 1, "law", Unembedded, <<10, 0>>, Long),
          Chunk(6, 1, "law", Chunkless, <<0, 8>>, Short)}

\* A window of this law does not fit the budget; the consultation's does.
Tight == {Chunk(1, 1, "law", 7, <<0, 6>>, Long),
          Chunk(2, 1, "consultation", 6, <<0, 6>>, Rule)}

Empty == {}

MCRequests ==
    [kind : {"question"}, corpus : {Mixed, Empty}, category : {"labor", "consumer"},
     mode : {"verified"}, fusion : {"weighted", "rrf"}, filtered : BOOLEAN]
    \cup
    [kind : {"question"}, corpus : {Tight}, category : {"consumer"},
     mode : {"quotes", "spans", "verified"}, fusion : {"weighted"}, filtered : {FALSE}]
    \cup
    [kind : {"search"}, corpus : {Mixed, Tight}, category : {"consumer"},
     mode : {"spans"}, fusion : {"weighted", "rrf"}, filtered : {TRUE}]

=============================================================================
