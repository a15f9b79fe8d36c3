----------------------------- MODULE Ingestion -----------------------------
(***************************************************************************)
(* The corpus of one kind of source (database/scripts): files are          *)
(* collected or replaced, and operators run its ingestion script again and *)
(* again, with and without --only-new and --with-embeddings, perhaps two   *)
(* at a time.  A run reads all its files, asks the database which of them  *)
(* are already done (--only-new), embeds the chunks of the others and      *)
(* saves them in one transaction.                                          *)
(*                                                                         *)
(* The transaction is a single step: its first statement for a document    *)
(* locks the row of that document until the commit.  Runs without          *)
(* --load-db change nothing and are left out.  Every file is a document of *)
(* its own: two files of one external_id (two PDFs named after the same    *)
(* court and case number) are left out.                                    *)
(***************************************************************************)
EXTENDS Corpus, FiniteSets, FiniteSetsExt

CONSTANTS
    Files,          \* the source files or rows, 1..n in the order they are read
    Published,      \* [Files -> the versions a source ever has]
    Selections,     \* the files that --law, --category and --limit can select
    Jobs,           \* runs of the script that may overlap
    Repairer,       \* the job that runs it as its documentation says
    MaxEdits        \* bounds how often a file is replaced or deleted

ASSUME IngestionAssumption ==
    /\ IsFiniteSet(Files) /\ Files = 1..Cardinality(Files)
    /\ Published \in [Files -> SUBSET Versions]
    /\ Selections \subseteq SUBSET Files /\ Files \in Selections
    /\ Repairer \in Jobs
    /\ Versions \cap {"absent", "partial"} = {}
    /\ MaxEdits \in Nat

VARIABLES
    kind,           \* the kind of source, chosen once: the precedent script's
                    \* --source all, two kinds in one transaction, is left out
    raw,            \* the files under database/raw: a version, or ...
    documents,      \* legal_documents: [some of Files -> document]
    chunks,         \* legal_chunks: [Files -> [some indices -> row]]
    jobs,           \* the runs of the script
    edits           \* replacements and deletions so far

vars == <<kind, raw, documents, chunks, jobs, edits>>

\* An embedding is the set of the one text it was made of; NULL is empty.
NoVector == {}

Vector(chunk) == {chunk}

Idle == [at |-> "idle", with_embeddings |-> FALSE, embedded |-> FALSE,
         read |-> <<>>]

Init ==
    /\ kind \in Kinds
    /\ raw = [f \in Files |-> "absent"]
    /\ documents = <<>>
    /\ chunks = [f \in Files |-> <<>>]
    /\ jobs = [j \in Jobs |-> Idle]
    /\ edits = 0

-----------------------------------------------------------------------------
(* Sources                                                                  *)

Collected(f, outcome) ==
    /\ raw' = [raw EXCEPT ![f] = outcome]
    /\ UNCHANGED <<kind, documents, chunks, jobs, edits>>

\* What the law service may answer for f.
Answers(f) == Published[f] \cup {"error page", "another law"}

\* find_exact_law: only the law of exactly this name is fetched, and a page of
\* HTML is no law.
ExactLaw(f) == Answers(f) \ {"error page", "another law"}

\* fetch_precedent_xml refuses what is not a precedent.
FetchedPrecedent(f) == Answers(f) \ {"error page", "another law"}

\* main of collect_laws_once: a file that is there and not empty is not
\* fetched again.  The file is written in place, so that a crash leaves a
\* part of it; the part of no bytes counts as absent here.
CollectLaw(f) ==
    /\ kind = "law" /\ raw[f] = "absent"
    /\ \E outcome \in ExactLaw(f) \cup {"partial"} : Collected(f, outcome)

\* main of collect_cases_once: any file that is there is skipped.
CollectCase(f) ==
    /\ kind = "case_api" /\ raw[f] = "absent"
    /\ \E outcome \in FetchedPrecedent(f) \cup {"partial"} :
          Collected(f, outcome)

\* An operator puts a downloaded file in its place.
Place(f) ==
    /\ kind \notin {"law", "case_api"}
    /\ \E v \in Published[f] \ {raw[f]} : raw' = [raw EXCEPT ![f] = v]
    /\ edits < MaxEdits \/ raw[f] = "absent"
    /\ edits' = IF raw[f] = "absent" THEN edits ELSE edits + 1
    /\ UNCHANGED <<kind, documents, chunks, jobs>>

\* An operator deletes a collected file so that it is fetched again.
Discard(f) ==
    /\ kind \in {"law", "case_api"}
    /\ raw[f] # "absent" /\ edits < MaxEdits
    /\ raw' = [raw EXCEPT ![f] = "absent"]
    /\ edits' = edits + 1
    /\ UNCHANGED <<kind, documents, chunks, jobs>>

-----------------------------------------------------------------------------
(* Reading: what a run takes from the files it was told to read, or nothing *)
(* when the script gives up.                                                *)

Legible(f) == raw[f] \in Versions /\ SectionsOf[kind][raw[f]] # <<>>

ReadAll(fs) == [f \in fs |-> raw[f]]

\* load_statutes: every selected law must be there and be readable.
LoadStatutes(scope) ==
    IF \A f \in scope : Legible(f) THEN {ReadAll(scope)} ELSE {}

\* load_precedents: the files that are there, all of them readable.
LoadPrecedents(scope) ==
    LET found == {f \in scope : raw[f] # "absent"}
    IN IF found # {} /\ \A f \in found : Legible(f)
       THEN {ReadAll(found)} ELSE {}

\* load_manifest: the cases of the casebook that are enabled.
Listed(scope) == {f \in scope : raw[f] # "absent"}

\* normalize_documents and build_chunks of the casebook, whose chunks are
\* validated as they are built.
LoadGuidelines(scope) ==
    IF /\ Listed(scope) # {}
       /\ \A f \in Listed(scope) :
             /\ Legible(f)
             /\ \A i \in DOMAIN ChunksOf[kind][raw[f]] :
                   Embeddable(ChunksOf[kind][raw[f]][i])
    THEN {ReadAll(Listed(scope))} ELSE {}

\* The rows of the consumer agency; an incomplete one stops the script.
LoadConsultations(scope) ==
    LET rows == {f \in scope : raw[f] # "absent"}
    IN IF \A f \in rows : Legible(f) THEN {ReadAll(rows)} ELSE {}

\* The rows of the labor committee; an incomplete one is skipped.
LoadDecisions(scope) == {ReadAll({f \in scope : Legible(f)})}

Loads(scope) ==
    CASE kind = "law" -> LoadStatutes(scope)
      [] kind \in {"case_api", "case_file"} -> LoadPrecedents(scope)
      [] kind = "casebook" -> LoadGuidelines(scope)
      [] kind = "consumer" -> LoadConsultations(scope)
      [] kind = "labor" -> LoadDecisions(scope)

-----------------------------------------------------------------------------
(* --only-new                                                               *)

ChunksRead(read, f) == ChunksOf[kind][read[f]]

FullyEmbedded(f) ==
    /\ DOMAIN chunks[f] # {}
    /\ \A i \in DOMAIN chunks[f] : chunks[f][i].embedding # NoVector

\* Mutant: a document with the same text counts as done.
SameTextIsDone(f, v) ==
    f \in DOMAIN documents
      /\ documents[f].sections = DocumentOf[kind][v].sections

Done(f, v) ==
    /\ f \in DOMAIN documents
    /\ documents[f].sections = DocumentOf[kind][v].sections
    /\ FullyEmbedded(f)

NotDone(read) == [f \in {g \in DOMAIN read : ~Done(g, read[g])} |-> read[f]]

\* filter_new_or_incomplete_documents, of documents of type CASE
NewOrIncompleteCases(read) == NotDone(read)

\* filter_new_or_incomplete, of documents of type GUIDELINE
NewOrIncompleteGuidelines(read) == NotDone(read)

-----------------------------------------------------------------------------
(* Embedding: the vectors of all chunks in one sequence, or none when the   *)
(* quality check stops the script.                                          *)

AllChunks(read) ==
    FlattenSeq([f \in Files |->
                   IF f \in DOMAIN read THEN ChunksRead(read, f) ELSE <<>>])

Vectors(read) ==
    LET all == AllChunks(read) IN [i \in DOMAIN all |-> Vector(all[i])]

AllEmbeddable(read) ==
    LET all == AllChunks(read) IN \A i \in DOMAIN all : Embeddable(all[i])

\* embed_chunks of the cases, also used for labor: validates every chunk
\* before the first request.
CaseVectors(read) ==
    IF AllEmbeddable(read) THEN {Vectors(read)} ELSE {}

\* embed_chunks of the laws and of the casebook, and the loop of the consumer
\* script, do not.
LawVectors(read) == {Vectors(read)}

GuidelineVectors(read) == {Vectors(read)}

ConsultationVectors(read) == {Vectors(read)}

VectorsOf(read) ==
    CASE kind = "law" -> LawVectors(read)
      [] kind \in {"case_api", "case_file", "labor"} -> CaseVectors(read)
      [] kind = "casebook" -> GuidelineVectors(read)
      [] kind = "consumer" -> ConsultationVectors(read)

-----------------------------------------------------------------------------
(* Saving                                                                   *)

\* embedding_index when the chunks of f are reached.
Offset(read, f) ==
    Len(AllChunks([g \in {h \in DOMAIN read : h < f} |-> read[g]]))

\* What is sent for the chunks of f, from index 0.
Sent(read, vectors, f) ==
    LET offset == Offset(read, f)
        found == ChunksRead(read, f)
    IN [i \in 0..(Len(found) - 1) |->
           [content   |-> found[i + 1],
            embedding |-> IF vectors = <<>> THEN NoVector
                          ELSE vectors[offset + i + 1]]]

\* Mutant: an old vector is kept although the text is new.
CoalescedEmbedding(old, new) ==
    IF new.embedding # NoVector THEN new.embedding ELSE old.embedding

\* The CASE of ON CONFLICT (document_id, chunk_index) DO UPDATE.
UpsertedEmbedding(old, new) ==
    IF old.content # new.content THEN new.embedding
    ELSE IF new.embedding # NoVector THEN new.embedding ELSE old.embedding

Upserted(old, new) == [new EXCEPT !.embedding = UpsertedEmbedding(old, new)]

\* Mutant: rows beyond the last chunk stay.
UpsertedUnpruned(old, new) ==
    [i \in DOMAIN new |-> IF i \in DOMAIN old THEN Upserted(old[i], new[i])
                                              ELSE new[i]] @@ old

\* Every chunk is upserted and the rows beyond the last one are deleted.
UpsertedChunks(old, new) ==
    [i \in DOMAIN new |-> IF i \in DOMAIN old THEN Upserted(old[i], new[i])
                                              ELSE new[i]]

\* The rows of these files are inserted or overwritten.
DocumentsWith(files, read) ==
    [f \in files \cup DOMAIN documents |->
        IF f \in files THEN DocumentOf[kind][read[f]] ELSE documents[f]]

\* save_to_database of the three scripts that upsert
SaveUpserted(read, vectors) ==
    /\ documents' = DocumentsWith(DOMAIN read, read)
    /\ chunks' = [f \in Files |->
                     IF f \in DOMAIN read
                     THEN UpsertedChunks(chunks[f], Sent(read, vectors, f))
                     ELSE chunks[f]]

SaveCases(read, vectors) ==
    kind \in {"case_api", "case_file", "labor"} /\ SaveUpserted(read, vectors)

SaveStatutes(read, vectors) == kind = "law" /\ SaveUpserted(read, vectors)

SaveGuidelines(read, vectors) ==
    kind = "casebook" /\ SaveUpserted(read, vectors)

\* The consumer script: a document with the same text is not touched and its
\* chunk, if it is there, not either.
SaveConsultations(read, vectors) ==
    LET changed == {f \in DOMAIN read :
                       \/ f \notin DOMAIN documents
                       \/ documents[f].sections
                            # DocumentOf[kind][read[f]].sections}
    IN /\ kind = "consumer"
       /\ documents' = DocumentsWith(changed, read)
       /\ chunks' = [f \in Files |->
             IF f \in changed \/ (f \in DOMAIN read /\ chunks[f] = <<>>)
             THEN Sent(read, vectors, f)
             ELSE chunks[f]]

Save(read, vectors) ==
    \/ SaveCases(read, vectors) \/ SaveStatutes(read, vectors)
    \/ SaveGuidelines(read, vectors) \/ SaveConsultations(read, vectors)

-----------------------------------------------------------------------------
(* A run of the script of the kind: its arguments and its steps             *)

\* parse_args of the scripts; --load-db is always given here.
LawArguments ==
    [scope: Selections, only_new: {FALSE}, with_embeddings: BOOLEAN]

CaseArguments ==
    [scope: Selections, only_new: BOOLEAN, with_embeddings: BOOLEAN]

GuidelineArguments ==
    [scope: Selections, only_new: BOOLEAN, with_embeddings: BOOLEAN]

DecisionArguments ==
    [scope: Selections, only_new: {FALSE}, with_embeddings: BOOLEAN]

ConsultationArguments ==
    [scope: Selections, only_new: {FALSE}, with_embeddings: BOOLEAN]

Arguments ==
    CASE kind = "law" -> LawArguments
      [] kind \in {"case_api", "case_file"} -> CaseArguments
      [] kind = "casebook" -> GuidelineArguments
      [] kind = "labor" -> DecisionArguments
      [] kind = "consumer" -> ConsultationArguments

\* What an operator passes who follows the documentation.
Documented(arguments) ==
    /\ arguments.scope = Files
    /\ arguments.with_embeddings
    /\ kind \in {"case_api", "case_file", "casebook"} => arguments.only_new

\* main of each script: the steps after its files are read.
LawMain == <<"embed", "commit">>

CaseMain == <<"choose", "embed", "commit">>

GuidelineMain == <<"choose", "embed", "commit">>

DecisionMain == <<"embed", "commit">>

ConsultationMain == <<"embed", "commit">>

Main ==
    CASE kind = "law" -> LawMain
      [] kind \in {"case_api", "case_file"} -> CaseMain
      [] kind = "casebook" -> GuidelineMain
      [] kind = "labor" -> DecisionMain
      [] kind = "consumer" -> ConsultationMain

\* The first of these steps that the arguments ask for.
FirstAsked(steps, arguments) ==
    steps[SelectInSeq(steps, LAMBDA step :
              /\ step = "choose" => arguments.only_new
              /\ step = "embed" => arguments.with_embeddings)]

\* The script starts and reads its files.
Start(j, arguments) ==
    /\ jobs[j].at = "idle"
    /\ arguments \in Arguments
    /\ j = Repairer => Documented(arguments)
    /\ \E read \in Loads(arguments.scope) :
          jobs' = [jobs EXCEPT ![j] =
                      [at |-> FirstAsked(Main, arguments),
                       with_embeddings |-> arguments.with_embeddings,
                       embedded |-> FALSE,
                       read |-> read]]
    /\ UNCHANGED <<kind, raw, documents, chunks, edits>>

Chosen(read) == IF kind = "casebook" THEN NewOrIncompleteGuidelines(read)
                                     ELSE NewOrIncompleteCases(read)

\* Nothing to do ends the run.
Choose(j) ==
    /\ jobs[j].at = "choose"
    /\ LET chosen == Chosen(jobs[j].read)
           next == IF jobs[j].with_embeddings THEN "embed" ELSE "commit"
       IN jobs' = [jobs EXCEPT ![j] =
                      IF chosen = <<>> THEN Idle
                      ELSE [@ EXCEPT !.at = next, !.read = chosen]]
    /\ UNCHANGED <<kind, raw, documents, chunks, edits>>

\* The embeddings arrive, or the quality check stops the script.
Embed(j) ==
    /\ jobs[j].at = "embed"
    /\ jobs' = [jobs EXCEPT ![j] =
                   IF VectorsOf(@.read) = {} THEN Idle
                   ELSE [@ EXCEPT !.at = "commit", !.embedded = TRUE]]
    /\ UNCHANGED <<kind, raw, documents, chunks, edits>>

\* The transaction commits.
Commit(j) ==
    /\ jobs[j].at = "commit"
    /\ \E vectors \in IF jobs[j].embedded THEN VectorsOf(jobs[j].read)
                                          ELSE {<<>>} :
          Save(jobs[j].read, vectors)
    /\ jobs' = [jobs EXCEPT ![j] = Idle]
    /\ UNCHANGED <<kind, raw, edits>>

\* The embedding service or the database raises, or the process is killed: what
\* was not committed is rolled back.
Abort(j) ==
    /\ jobs[j].at # "idle"
    /\ jobs' = [jobs EXCEPT ![j] = Idle]
    /\ UNCHANGED <<kind, raw, documents, chunks, edits>>

Next ==
    \/ \E f \in Files : CollectLaw(f) \/ CollectCase(f) \/ Place(f) \/ Discard(f)
    \/ \E j \in Jobs :
        \/ \E arguments \in Arguments : Start(j, arguments)
        \/ Choose(j) \/ Embed(j) \/ Commit(j) \/ Abort(j)

Spec == Init /\ [][Next]_vars

\* One operator keeps running the script on all files, with embeddings and
\* with --only-new where there is one; the services it needs answer now and
\* then.
FairSpec ==
    /\ Spec
    /\ SF_vars(\E arguments \in Arguments : Start(Repairer, arguments))
    /\ SF_vars(Choose(Repairer))
    /\ SF_vars(Embed(Repairer))
    /\ SF_vars(Commit(Repairer))

-----------------------------------------------------------------------------
(* Properties                                                               *)

\* A stored vector was made of the text stored beside it, whatever runs with
\* and without embeddings, old files and new ones were interleaved: a search by
\* meaning never finds a text by what used to be written there.
EmbeddingMatchesText ==
    \A f \in Files : \A i \in DOMAIN chunks[f] :
        chunks[f][i].embedding \in {NoVector, Vector(chunks[f][i].content)}

\* The texts of the chunks of a document, without what they repeat, are
\* exactly the document: no sentence is lost or stale, none comes twice, and
\* the header is the document's.
ChunksMatchDocument ==
    \A f \in DOMAIN documents :
        LET n == Cardinality(DOMAIN chunks[f])
            row(i) == chunks[f][i - 1].content
        IN /\ DOMAIN chunks[f] = 0..(n - 1)
           /\ \A i \in 1..n : row(i).header \in {NoHeader, documents[f].header}
           /\ FlattenSeq([i \in 1..n |-> row(i).piece.text])
                = FlattenSeq([i \in DOMAIN documents[f].sections |->
                                 documents[f].sections[i].text])

\* The files can be ingested: none is truncated or refused, no text garbled.
Ingestible ==
    \A f \in Files :
        /\ Legible(f)
        /\ \A i \in DOMAIN ChunksOf[kind][raw[f]] :
              Embeddable(ChunksOf[kind][raw[f]][i])

\* Every file is stored as it is, every chunk with a vector.  The consumer
\* script never adds a vector to a chunk that it stored without one.
Mirrors ==
    \A f \in Files :
        /\ raw[f] \in Versions
        /\ f \in DOMAIN documents
        /\ documents[f].sections = SectionsOf[kind][raw[f]]
        /\ kind = "consumer" \/ FullyEmbedded(f)

\* Once the sources are at rest and can be ingested, repeating the script
\* repairs whatever earlier runs, aborts and overlaps left behind.
RerunRepairs == <>[]Ingestible => <>[]Mirrors

=============================================================================
