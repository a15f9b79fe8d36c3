------------------------------- MODULE Corpus -------------------------------
(***************************************************************************)
(* What the ingestion scripts make of one source file (database/ingestion):*)
(* the normalizers read a document out of it, the chunkers cut the         *)
(* document into the texts that are embedded.                              *)
(*                                                                         *)
(* A text is the sequence of its sentences, a sentence is its number of    *)
(* characters.  A version of a source is a record: `named' when the fields *)
(* every normalizer insists on are there, `header' for the names and dates *)
(* around the text, `parts' for the texts it holds (articles of a law,     *)
(* sections of a precedent, pages of the casebook, fields of a row), some  *)
(* of them perhaps empty, `preface' for the lines (publisher, number and   *)
(* title of the case) that the casebook script puts before its text.       *)
(***************************************************************************)
EXTENDS Naturals, Sequences, SequencesExt

CONSTANTS
    Kinds,              \* what is ingested, a subset of AllKinds
    Contents,           \* [version name -> version]
    GarbledSentences,   \* sentences full of replacement characters
    MaxCharacters,      \* MAX_CHUNK_CHARACTERS
    Overlap             \* OVERLAP_CHARACTERS

AllKinds == {"law", "case_api", "case_file", "casebook", "consumer", "labor"}

Versions == DOMAIN Contents

ASSUME CorpusAssumption ==
    /\ Kinds \subseteq AllKinds
    /\ MaxCharacters \in Nat \ {0} /\ Overlap \in 1..MaxCharacters
    /\ \A v \in Versions :
          /\ Contents[v].named \in BOOLEAN
          /\ Contents[v].parts \in Seq(Seq(Nat \ {0}))
          /\ Contents[v].preface \in Seq(Nat \ {0})

NoHeader == "no header"

NonEmpty(parts) ==
    FlattenSeq([i \in DOMAIN parts |-> IF parts[i] = <<>> THEN <<>>
                                                          ELSE <<parts[i]>>])

\* The characters of a text, its sentences joined by a space.
Chars(text) ==
    IF text = <<>> THEN 0
    ELSE FoldLeft(LAMBDA n, sentence : n + sentence, 0, text) + Len(text) - 1

\* A section of a document: what it is called and its text.
Section(title, text) == [title |-> title, text |-> text]

WithText(sections) ==
    FlattenSeq([i \in DOMAIN sections |->
                   IF sections[i].text = <<>> THEN <<>> ELSE <<sections[i]>>])

-----------------------------------------------------------------------------
(* Normalizers: the sections of the document, none when the source is       *)
(* refused.  The content hash of the document is its sections.              *)

\* parse_articles: elements without a text are no articles.
Articles(version) ==
    [i \in DOMAIN NonEmpty(version.parts) |->
        Section("article", NonEmpty(version.parts)[i])]

\* normalize_statute_xml
StatuteSections(version) == IF version.named THEN Articles(version) ELSE <<>>

\* normalize_precedent_xml
PrecedentSections(version) ==
    IF ~version.named THEN <<>>
    ELSE WithText([i \in DOMAIN version.parts |->
                      Section(i, version.parts[i])])

\* extract_pdf_text: the pages one after the other, pages without text are
\* empty.
PdfText(version) == FlattenSeq(version.parts)

\* split_sections: the order, and the reasons.  A judgment in which the reasons
\* are not found is kept whole as its reasons, the order included.
PdfSections(version) ==
    LET order == Head(version.parts)
        reasons == FlattenSeq(Tail(version.parts))
    IN WithText(<<Section("holding", order),
                  Section("reasoning", IF reasons = <<>> THEN PdfText(version)
                                                         ELSE reasons)>>)

\* parse_filename: a name of another form, with no such date or without a case
\* number is refused.
FileName(version) == IF version.named THEN {version.header} ELSE {}

\* normalize_precedent_pdf: a file without a text is refused as well.
JudgmentSections(version) ==
    IF FileName(version) = {} \/ PdfText(version) = <<>> THEN <<>>
    ELSE PdfSections(version)

\* extract_logical_pages: the halves of the spreads that have a text.
LogicalPages(version) == NonEmpty(version.parts)

\* normalize_documents of the casebook: the preface is hashed, and later cut,
\* with the text.
GuidelineSections(version) ==
    IF ~version.named \/ LogicalPages(version) = <<>> THEN <<>>
    ELSE <<Section("legal_aid_case",
                   version.preface \o FlattenSeq(LogicalPages(version)))>>

\* normalize_consumer_relief_xml: title, question and answer are all required.
ConsultationSections(version) ==
    IF ~version.named \/ <<>> \in Range(version.parts) THEN <<>>
    ELSE <<Section("question_answer", FlattenSeq(version.parts))>>

\* normalize_labor_decision_csv
DecisionSections(version) ==
    IF ~version.named THEN <<>>
    ELSE <<Section("decision_summary", FlattenSeq(version.parts))>>

-----------------------------------------------------------------------------
(* Chunkers.  A piece repeats `carry' characters from the end of the text   *)
(* `after' and goes on with `text'.                                          *)

Piece(after, carry, text) == [after |-> after, carry |-> carry, text |-> text]

Size(piece) ==
    Chars(piece.text) + IF piece.carry = 0 THEN 0 ELSE piece.carry + 1

\* One sentence more: into the current piece if it fits or the piece is empty.
NextSentence(cut, sentence) ==
    LET longer == [cut.current EXCEPT !.text = Append(@, sentence)]
    IN IF Size(longer) <= MaxCharacters \/ cut.current.text = <<>>
       THEN [cut EXCEPT !.current = longer]
       ELSE [done    |-> Append(cut.done, cut.current),
             current |-> Piece(cut.current.text,
                               IF Size(cut.current) < Overlap
                               THEN Size(cut.current) ELSE Overlap,
                               <<sentence>>)]

\* The pieces that are done and the current one, after all sentences.
CutOf(text) ==
    LET cut[n \in 0..Len(text)] ==
            IF n = 0 THEN [done |-> <<>>, current |-> Piece(<<>>, 0, <<>>)]
                     ELSE NextSentence(cut[n - 1], text[n])
    IN  cut[Len(text)]

\* split_long_text
SplitLongText(text) ==
    IF text = <<>> THEN <<>>
    ELSE IF Chars(text) <= MaxCharacters THEN <<Piece(<<>>, 0, text)>>
    ELSE LET cut == CutOf(text) IN Append(cut.done, cut.current)

\* A chunk: the header in front of its piece, and the section it is from.
Chunk(header, section, piece) ==
    [header |-> header, section |-> section, piece |-> piece]

ChunksOfSection(header, section) ==
    LET pieces == SplitLongText(section.text)
    IN [i \in DOMAIN pieces |-> Chunk(header, section.title, pieces[i])]

\* build_precedent_chunks
PrecedentChunks(header, sections) ==
    FlattenSeq([i \in DOMAIN sections |->
                   ChunksOfSection(header, sections[i])])

\* build_statute_chunks: an article is never cut.
StatuteChunks(header, sections) ==
    [i \in DOMAIN sections |->
        Chunk(header, "article", Piece(<<>>, 0, sections[i].text))]

\* build_consumer_relief_chunk: the text has its title inside, no header.
ConsumerReliefChunk(sections) ==
    <<Chunk(NoHeader, "question_answer", Piece(<<>>, 0, sections[1].text))>>

\* build_labor_decision_chunk
LaborDecisionChunk(sections) ==
    <<Chunk(NoHeader, "decision_summary", Piece(<<>>, 0, sections[1].text))>>

\* split_long_text of the casebook script
SplitGuideline(text) == SplitLongText(text)

\* build_chunks of the casebook script
GuidelineChunks(header, sections) ==
    LET pieces == SplitGuideline(sections[1].text)
    IN [i \in DOMAIN pieces |->
           Chunk(header, "legal_aid_case", pieces[i])]

\* validate_embedding_text.  The header alone has the least length.
Embeddable(chunk) == Range(chunk.piece.text) \cap GarbledSentences = {}

-----------------------------------------------------------------------------
(* A source file of each kind                                               *)

SectionsOf == [k \in Kinds |-> [v \in Versions |->
    CASE k = "law"       -> StatuteSections(Contents[v])
      [] k = "case_api"  -> PrecedentSections(Contents[v])
      [] k = "case_file" -> JudgmentSections(Contents[v])
      [] k = "casebook"  -> GuidelineSections(Contents[v])
      [] k = "consumer"  -> ConsultationSections(Contents[v])
      [] k = "labor"     -> DecisionSections(Contents[v])]]

DocumentOf == [k \in Kinds |-> [v \in Versions |->
    [header |-> Contents[v].header, sections |-> SectionsOf[k][v]]]]

ChunksOfSections(k, header, sections) ==
    CASE sections = <<>> -> <<>>
      [] sections # <<>> /\ k = "law" -> StatuteChunks(header, sections)
      [] sections # <<>> /\ k \in {"case_api", "case_file"} ->
             PrecedentChunks(header, sections)
      [] sections # <<>> /\ k = "casebook" ->
             GuidelineChunks(header, sections)
      [] sections # <<>> /\ k = "consumer" -> ConsumerReliefChunk(sections)
      [] sections # <<>> /\ k = "labor" -> LaborDecisionChunk(sections)

ChunksOf == [k \in Kinds |-> [v \in Versions |->
    ChunksOfSections(k, Contents[v].header, SectionsOf[k][v])]]

=============================================================================
