------------------------------- MODULE Answers -------------------------------
(***************************************************************************)
(* One legal question answered in MCP mode, as run by                      *)
(* answer_question_from_mcp: the intake agent, the parallel searches of    *)
(* LegalAgentRuntime with their progress callback, the bounded context,    *)
(* the model's draft, its citation check and review, one repair, and the   *)
(* fallback; besides it the search of one kind of documents on its own.    *)
(*                                                                         *)
(* A text is a sequence of sentences [hits, proviso]: how many of the      *)
(* question's syllable pairs a sentence has, and whether it opens an       *)
(* exception ("provided that ...").  A quotation is a range of sentences   *)
(* of a document, white space not counting.                                *)
(***************************************************************************)
EXTENDS Retrieval, SequencesExt

CONSTANTS
    Requests,       \* [kind, corpus, category, mode, fusion, filtered] served
    TopK,           \* documents per search
    MaxDocuments, MaxWindows,
    Budget,         \* sentences in the windows of one document
    Visible,        \* sentences in the first 1500 characters
    MaxClaims       \* bound: claims of a draft, each with one citation

Texts == Seq([hits : Nat, proviso : BOOLEAN])

\* Chunks as the tables hold them: document and chunk_index are a key.
IsCorpus(corpus) ==
    /\ IsFiniteSet(corpus)
    /\ corpus \subseteq [doc : Nat, n : Nat, type : Types, near : Int,
                          found : [Terms -> Nat], text : Texts]
    /\ \A c, e \in corpus : c.doc = e.doc /\ c.n = e.n => c = e

ASSUME AnswersAssumption ==
    /\ \A r \in Requests : r.kind \in {"question", "search"} /\ IsCorpus(r.corpus)
    /\ TopK \in Nat
    /\ Visible \in Nat
    /\ MaxClaims \in Nat

VARIABLES
    request,        \* the request and the server's settings
    step,           \* how far the request is
    attempt,        \* of the intake agent, then of the answer
    call,           \* what the task of each tool is doing
    found,          \* the evidence each tool returned
    reporting,      \* the task holding callback_lock
    events,         \* what the event callback has been told, in order
    evidence,       \* the merged evidence
    draft,          \* the draft under review
    judged,         \* the claims of the draft that the last review supports
    response

vars == <<request, step, attempt, call, found, reporting, events, evidence,
          draft, judged, response>>

ToolNames == {"search_laws", "search_cases", "search_consultations",
              "search_legal_documents"}

\* SOURCE_TYPES, and the document types each tool searches.
SourceTypes(tool) ==
    CASE tool = "search_laws"            -> {"law"}
      [] tool = "search_cases"           -> {"case"}
      [] tool = "search_consultations"   -> {"consultation"}
      [] tool = "search_legal_documents" -> {"law", "case"}

\* select_tools; every profile allows all of them.
SelectedTools ==
    IF request.category = "consumer"
    THEN <<"search_laws", "search_consultations", "search_cases">>
    ELSE <<"search_cases", "search_legal_documents">>

Tasks == Range(SelectedTools)

Nobody == "nobody"
NoDraft == [claims |-> << >>, used |-> {}]
NoResponse == [status |-> "none", documents |-> << >>, claims |-> << >>, used |-> {}]

Ids(documents) == {documents[i].id : i \in DOMAIN documents}

\* The tool's rows as evidence: evidence_id is the type and the document.
Searched(tool) ==
    LET rows == HybridSearched(request.corpus, SourceTypes(tool), TopK,
                               request.fusion, request.filtered)
    IN  [i \in DOMAIN rows |-> [id    |-> <<rows[i].type, rows[i].doc>>,
                                score |-> rows[i].score, text |-> rows[i].text]]

-----------------------------------------------------------------------------
(* Pure parts: the windows of a text, the context, citations *)

\* The sentence, its neighbours and every proviso that follows.
Window(text, i) ==
    LET right == Min({i + 1, Len(text)})
        last  == Max({r \in right .. Len(text) :
                        \A s \in right + 1 .. r : text[s].proviso})
    IN  <<Max({1, i - 1}), last>>

Length(window) == window[2] - window[1] + 1

Fits(window, chosen) ==
    /\ Cardinality(chosen) < MaxWindows
    /\ \A c \in chosen : window[1] > c[2] \/ window[2] < c[1]
    /\ FoldSet(LAMBDA c, sum : sum + Length(c), Length(window), chosen) <= Budget

With(window, chosen) == chosen \cup (IF Fits(window, chosen) THEN {window} ELSE {})

\* select_windows: the best sentences first; a window that overlaps a chosen
\* one or goes over the budget is passed over whole.
Windows(text) ==
    LET order == RankedBy(DOMAIN text, [i \in DOMAIN text |-> text[i].hits],
                          [i \in DOMAIN text |-> i])
        chosen[n \in 0 .. Len(text)] ==
            IF n = 0 THEN {} ELSE With(Window(text, order[n]), chosen[n - 1])
    IN  chosen[Len(text)]

ByScore(S) == [i \in S |-> Place(i, S, [j \in S |-> evidence[j].score], [j \in S |-> j])]

TypeOrder == [law |-> 1, case |-> 2, consultation |-> 3]

\* build_context: the best document of each type, in the order of the types,
\* then the best of the rest, as long as an excerpt of it fits.
ContextDocuments ==
    LET fits == {i \in DOMAIN evidence : Windows(evidence[i].text) # {}}
        type(i) == evidence[i].id[1]
        best == {i \in fits : ByScore({j \in fits : type(j) = type(i)})[i] = 1}
        diverse == {i \in best :
            Cardinality({j \in best : TypeOrder[type(j)] < TypeOrder[type(i)]}) < MaxDocuments}
        rest == fits \ diverse
    IN  diverse \cup {i \in rest : ByScore(rest)[i] <= MaxDocuments - Cardinality(diverse)}

Spans == UNION {{[id |-> evidence[i].id, from |-> w[1], to |-> w[2]] :
                    w \in Windows(evidence[i].text)} : i \in ContextDocuments}

\* The quotations the first 1500 characters of the evidence contain.
Quotations ==
    UNION {{[id |-> evidence[i].id, from |-> r[1], to |-> r[2]] :
                r \in {r \in (1 .. Visible) \X (1 .. Visible) :
                         r[1] <= r[2] /\ r[2] <= Len(evidence[i].text)}} :
           i \in DOMAIN evidence}

Citable == IF request.mode = "quotes" THEN Quotations ELSE Spans

\* A span or quotation no source has, and one of a text that was cut off.
Invented == [id |-> <<"law", 0>>, from |-> 1, to |-> 1]
CutOff == {[id |-> e.id, from |-> 1, to |-> Visible + 1] :
              e \in {e \in Range(evidence) : Len(e.text) > Visible}}

Cited(claims) == {claims[i].cites.id : i \in DOMAIN claims}

\* What the model may answer: up to MaxClaims claims with a citation each, and
\* a list of used documents of its own when it writes quotations.
Drafts ==
    LET offered == Citable \cup {Invented} \cup
                        (IF request.mode = "quotes" THEN CutOff ELSE {})
        claims  == UNION {{c \in [1 .. n -> [name : 1 .. n, cites : offered]] :
                              \A i \in 1 .. n : c[i].name = i} : n \in 1 .. MaxClaims}
    IN  IF request.mode = "quotes"
        THEN [claims : claims \cup {<< >>},
              used   : {{}, {Invented.id}} \cup {Ids(evidence)}]
        ELSE {[claims |-> c, used |-> Cited(c)] : c \in claims}

\* resolve_span_draft and validate_citations.
Valid(d) == /\ d.claims # << >>
            /\ \A i \in DOMAIN d.claims : d.claims[i].cites \in Citable
            /\ d.used \subseteq Ids(evidence)

\* used_evidence_ids becomes the list of the cited documents.
Normalized(d) == [d EXCEPT !.used = Cited(d.claims)]

-----------------------------------------------------------------------------
(* The review *)

\* A verdict on some claim at each place; review_answer wants every claim once.
Reviews(d) == [DOMAIN d.claims -> [claim : DOMAIN d.claims, supported : BOOLEAN]]
Covers(review, d) == {review[i].claim : i \in DOMAIN review} = DOMAIN d.claims

\* Mutant: the place in the review is taken for the claim's index.
ApprovedPlaces(review) == {i \in DOMAIN review : review[i].supported}

Approved(review) == {review[i].claim : i \in {i \in DOMAIN review : review[i].supported}}

\* retain_supported
Retained(d, review) ==
    LET kept == InOrder(Approved(review))
        claims == [i \in DOMAIN kept |-> d.claims[kept[i]]]
    IN  [claims |-> claims, used |-> Cited(claims)]

SupportedClaims(review) ==
    {review[i].claim : i \in {i \in DOMAIN review : review[i].supported}}

-----------------------------------------------------------------------------
(* The end of a request *)

Init ==
    /\ request \in Requests
    /\ step = (IF request.kind = "question" THEN "intake" ELSE "search")
    /\ attempt = 1
    /\ call = [t \in ToolNames |-> "waiting"]
    /\ found = [t \in ToolNames |-> << >>]
    /\ reporting = Nobody
    /\ events = << >>
    /\ evidence = << >>
    /\ draft = NoDraft
    /\ judged = {}
    /\ response = NoResponse

Fail == step' = "failed"

Told(stage, tool) == events' = Append(events, <<stage, tool>>)

Respond(status, documents, d) ==
    /\ step' = "answered"
    /\ response' = [status |-> status, documents |-> documents,
                    claims |-> d.claims, used |-> d.used]

\* generation_completed is told before the response is made; the callback may
\* raise, or the deadline meet it, after it has told.
Complete(status, d) ==
    /\ Told("generation_completed", status)
    /\ \/ Respond(status, evidence, d)
       \/ Fail /\ UNCHANGED response

\* AnswerAgent.create_draft: every document is listed as used.
FallbackDraft == [claims |-> << >>, used |-> Ids(evidence)]
Fallback == Complete("fallback", FallbackDraft)

-----------------------------------------------------------------------------
(* Intake *)

\* IntakeAgent.assess: an output of the wrong form, or a request to clarify
\* without a question, is asked for once more; any other failure ends it.
Assess ==
    /\ step = "intake"
    /\ \/ /\ step' = "selecting"
          /\ attempt' = 1
          /\ UNCHANGED response
       \/ /\ Respond("clarification", << >>, NoDraft)
          /\ UNCHANGED attempt
       \/ /\ attempt = 1
          /\ attempt' = 2
          /\ UNCHANGED <<step, response>>
       \/ /\ Fail
          /\ UNCHANGED <<attempt, response>>
    /\ UNCHANGED <<request, call, found, reporting, events, evidence, draft, judged>>

-----------------------------------------------------------------------------
(* LegalAgentRuntime.run *)

\* Every tool is announced before the first is called.  The callback may raise.
Select ==
    /\ step = "selecting"
    /\ LET next == Len(events) + 1
       IN  /\ Told("tool_selected", SelectedTools[next])
           /\ \/ /\ next < Len(SelectedTools)
                 /\ UNCHANGED <<step, call>>
              \/ /\ next = Len(SelectedTools)
                 /\ step' = "searching"
                 /\ call' = [t \in ToolNames |->
                                IF t \in Tasks THEN "running" ELSE "waiting"]
              \/ Fail /\ UNCHANGED call
    /\ UNCHANGED <<request, attempt, found, reporting, evidence, draft, judged, response>>

\* call_tool and search_evidence: the evidence, or an error of the connection,
\* the tool, the contract or the time limit.
Receive(t) ==
    /\ call[t] = "running"
    /\ \/ /\ call' = [call EXCEPT ![t] = "failed"]
          /\ UNCHANGED found
       \/ /\ call' = [call EXCEPT ![t] = "found"]
          /\ found' = [found EXCEPT ![t] = Searched(t)]
    /\ UNCHANGED <<request, step, attempt, reporting, events, evidence, draft, judged, response>>

BeginReport(t) ==
    /\ call[t] = "found"
    /\ reporting = Nobody
    /\ reporting' = t
    /\ call' = [call EXCEPT ![t] = "reporting"]
    /\ UNCHANGED <<request, step, attempt, found, events, evidence, draft, judged, response>>

\* The callback returns, or raises after its effect or before it.
EndReport(t) ==
    /\ call[t] = "reporting"
    /\ reporting' = Nobody
    /\ \/ /\ Told("tool_completed", t)
          /\ call' = [call EXCEPT ![t] = "done"]
       \/ /\ call' = [call EXCEPT ![t] = "failed"]
          /\ Told("tool_completed", t) \/ UNCHANGED events
    /\ UNCHANGED <<request, step, attempt, found, evidence, draft, judged, response>>

Ended(t) == call[t] \in {"done", "failed", "cancelled"}

\* gather raises the first error, or the deadline of the run cancels it: the
\* tasks that are not done are cancelled ...
Unwind ==
    /\ step = "searching"
    /\ step' = "unwinding"
    /\ call' = [t \in ToolNames |-> IF t \in Tasks /\ ~Ended(t)
                                    THEN "cancelling" ELSE call[t]]
    /\ UNCHANGED <<request, attempt, found, reporting, events, evidence, draft, judged, response>>

\* ... each ends at its await, one in the callback perhaps after its effect ...
Cancelled(t) ==
    /\ call[t] = "cancelling"
    /\ call' = [call EXCEPT ![t] = "cancelled"]
    /\ \/ reporting = t /\ reporting' = Nobody /\ Told("tool_completed", t)
       \/ reporting' = (IF reporting = t THEN Nobody ELSE reporting) /\ UNCHANGED events
    /\ UNCHANGED <<request, step, attempt, found, evidence, draft, judged, response>>

\* Mutant: the tasks are cancelled, but nobody waits for them.
AllOverUnchecked == TRUE

AllOver == \A t \in Tasks : Ended(t)

\* ... and the error is raised when all of them are over.
Unwound ==
    /\ step = "unwinding"
    /\ AllOver
    /\ Fail
    /\ UNCHANGED <<request, attempt, call, found, reporting, events, evidence, draft, judged, response>>

\* In the order of the tools, each evidence_id once.
Deduplicated ==
    LET places == UNION {{<<i, j>> : j \in DOMAIN found[SelectedTools[i]]} :
                            i \in DOMAIN SelectedTools}
        item(p) == found[SelectedTools[p[1]]][p[2]]
        number(p) == p[1] * TopK + p[2]
        firsts == {p \in places : \A q \in places :
                        item(q).id = item(p).id => number(p) <= number(q)}
        order == RankedBy(firsts, [p \in firsts |-> 0], [p \in firsts |-> number(p)])
    IN  [i \in DOMAIN order |-> item(order[i])]

Merge ==
    /\ step = "searching"
    /\ \A t \in Tasks : call[t] = "done"
    /\ evidence' = Deduplicated
    /\ Told("generation_started", "none")
    /\ step' = "generating" \/ Fail
    /\ UNCHANGED <<request, attempt, call, found, reporting, draft, judged, response>>

-----------------------------------------------------------------------------
(* _generate_answer *)

\* Without evidence, or without anything to cite, no model is asked; an error
\* of the model or an invalid citation is answered with the titles found.
AnswerWithoutModel ==
    /\ step = "generating"
    /\ Fallback
    /\ UNCHANGED <<request, attempt, call, found, reporting, evidence, draft, judged>>

Write ==
    /\ step = "generating"
    /\ evidence # << >>
    /\ request.mode # "quotes" => Spans # {}
    /\ \E d \in Drafts :
        /\ Valid(d)
        /\ IF request.mode = "verified"
           THEN /\ step' = "reviewing"
                /\ draft' = Normalized(d)
                /\ UNCHANGED <<events, response>>
           ELSE /\ Complete("llm", Normalized(d))
                /\ UNCHANGED draft
    /\ UNCHANGED <<request, attempt, call, found, reporting, evidence, judged>>

\* Mutant: every reviewed draft may be repaired.
AlwaysRepairs == TRUE

MayRepair == attempt = 1

\* A review with an unsupported claim buys one repair; after it only the
\* supported claims stay, and a draft without any is given up.
Review ==
    /\ step = "reviewing"
    /\ \E review \in Reviews(draft) :
        /\ Covers(review, draft)
        /\ IF Approved(review) # DOMAIN draft.claims /\ MayRepair
           THEN /\ step' = "generating"
                /\ attempt' = 2
                /\ draft' = NoDraft
                /\ UNCHANGED <<events, judged, response>>
           ELSE /\ judged' = SupportedClaims(review)
                /\ IF Approved(review) = {} THEN Fallback
                   ELSE Complete("llm", Retained(draft, review))
                /\ UNCHANGED <<attempt, draft>>
    /\ UNCHANGED <<request, call, found, reporting, evidence>>

\* The reviewer fails, or judges a claim twice and another never.
ReviewFails ==
    /\ step = "reviewing"
    /\ Fallback
    /\ UNCHANGED <<request, attempt, call, found, reporting, evidence, draft, judged>>

\* Any other await: the deadline of the run, or an error of the callback.
Interrupted ==
    /\ step \in {"intake", "selecting", "generating", "reviewing"}
    /\ Fail
    /\ UNCHANGED <<request, attempt, call, found, reporting, events, evidence, draft, judged, response>>

-----------------------------------------------------------------------------
(* One kind of documents *)

\* _search_by_tool with run_single_tool.
SearchOne ==
    /\ step = "search"
    /\ \/ Fail /\ UNCHANGED <<found, response>>
       \/ \E tool \in ToolNames \ {"search_legal_documents"} :
            /\ found' = [found EXCEPT ![tool] = Searched(tool)]
            /\ Respond("found", Searched(tool), NoDraft)
    /\ UNCHANGED <<request, attempt, call, reporting, events, evidence, draft, judged>>

Next ==
    \/ Interrupted \/ Assess \/ Select \/ Unwind \/ Unwound \/ Merge
    \/ \E t \in ToolNames : Receive(t) \/ BeginReport(t) \/ EndReport(t) \/ Cancelled(t)
    \/ AnswerWithoutModel \/ Write \/ Review \/ ReviewFails
    \/ SearchOne

\* Every wait of the pipeline has a time limit of its own or the run's.
Spec == Init /\ [][Next]_vars /\ WF_vars(Next)

-----------------------------------------------------------------------------
(* Properties *)

Documents == Range(response.documents)

\* The end of a quotation does not cut an exception off.
KeepsExceptions(cite, text) == cite.to < Len(text) => ~text[cite.to + 1].proviso

\* An answer written by the model rests on the documents shown with it: every
\* claim cites text that one of them really has - in span mode with the
\* exceptions that follow it - the documents named as used are the cited ones,
\* and with verification on, every claim is one the last review supports.  A
\* fallback names all documents and claims nothing.  (legal_question_service,
\* answer_contract, evidence_context and the comments in text_spans.py:37 and
\* evidence_context.py:55.)
AnswerIsGrounded ==
    /\ response.status = "llm" =>
        /\ response.claims # << >>
        /\ response.used = Cited(response.claims)
        /\ \A i \in DOMAIN response.claims :
            LET claim == response.claims[i]
            IN  /\ \E e \in Documents :
                    /\ e.id = claim.cites.id
                    /\ claim.cites.to <= Len(e.text)
                    /\ request.mode = "quotes" => claim.cites.to <= Visible
                    /\ request.mode # "quotes" => KeepsExceptions(claim.cites, e.text)
                /\ request.mode = "verified" => claim.name \in judged
    /\ response.status = "fallback" =>
        response.claims = << >> /\ response.used = Ids(response.documents)

Completed(t) == <<"tool_completed", t>>
Reported(t) == \E i \in DOMAIN events : events[i] = Completed(t)
Announced == \A i \in DOMAIN SelectedTools :
    i \in DOMAIN events /\ events[i] = <<"tool_selected", SelectedTools[i]>>
OnceAtMost(t) ==
    \A i, j \in DOMAIN events : events[i] = Completed(t) /\ events[j] = Completed(t) => i = j
Over == step \in {"answered", "failed"}

\* Progress never runs behind the analysis or ahead of it: every tool is
\* announced before any reports, a tool reports at most once, nothing is
\* reported once the analysis has moved on or ended, and a document reported
\* with a tool is among those of the answer.  (runtime.py:61-63, 74-77, 88-92.)
ProgressInOrder ==
    [][/\ Over => UNCHANGED events
       /\ \A t \in Tasks :
            /\ Reported(t)' /\ ~Reported(t) =>
                step \in {"searching", "unwinding"} /\ Announced
            /\ OnceAtMost(t)'
            /\ step = "searching" /\ step' = "generating" =>
                Reported(t) /\ Ids(found[t]) \subseteq Ids(evidence')]_vars

\* Whatever fails, hangs or is judged unsupported, the request is answered or
\* fails: tools, reviews and repairs do not go on for ever.
AnalysisEnds == <>Over

BestNear(d, rows) == Best({r.near : r \in Of(d, rows)})
BestMatch(d, rows) == Best({r.match : r \in Of(d, rows)})

\* What a search returns are different documents, at most top_k, and no
\* candidate left out is both nearer and matching better than one returned,
\* whichever fusion ranks them.  (legal_search_service.py:61-151.)
BestCandidatesFirst ==
    \A t \in ToolNames : found[t] # << >> =>
        LET vector   == VectorRows(request.corpus, SourceTypes(t))
            keyword  == KeywordRows(request.corpus, SourceTypes(t))
            returned == {found[t][i].id[2] : i \in DOMAIN found[t]}
        IN  /\ Cardinality(returned) = Len(found[t]) /\ Len(found[t]) <= TopK
            /\ \A d \in {r.doc : r \in vector \cup keyword} \ returned :
                \A e \in returned : ~(/\ BestNear(d, vector) > BestNear(e, vector)
                                      /\ BestMatch(d, keyword) > BestMatch(e, keyword))

=============================================================================
