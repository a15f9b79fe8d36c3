------------------------- MODULE SavedConversations -------------------------
(***************************************************************************)
(* The history members keep: analyses and term chats saved in PostgreSQL   *)
(* (backend/app/repositories/saved_conversation_repository.py, its         *)
(* service, and the routes and the worker that call it).  An answer is     *)
(* produced once, by its worker or its chat request, and may be saved by   *)
(* it, by the save button, or by both; other requests delete saved         *)
(* conversations, open them, or ask a question that follows one up.        *)
(*                                                                         *)
(* A step is one statement or one await.  What a transaction has written   *)
(* is its own until it commits; the row it inserted or updated is locked   *)
(* until then, so the messages of a conversation are stored in the order   *)
(* their transactions commit.                                              *)
(***************************************************************************)
EXTENDS Naturals, Sequences, FiniteSets, Lists

CONSTANTS
    Members,        \* users who are signed in
    Analyses,       \* run ids
    TermChats,      \* request ids of legal term chats
    Author,         \* who asked each of them
    Requests,       \* calls of the routes that save, open or delete
    Connections,    \* max_size of the pool
    MaxId           \* bound: conversations ever inserted

Answers == Analyses \cup TermChats
Callers == Answers \cup Requests

ASSUME MemberAssumption ==
    /\ Author \in [Answers -> Members]
    /\ Connections \in Nat \ {0}
    /\ MaxId \in Nat

VARIABLES
    ready,          \* the answers in the run store
    rows,           \* saved_conversations by source_request_id
    lines,          \* saved_messages, oldest first
    lastId,         \* the sequence of saved_conversations.id
    calls           \* the work of every caller

memberVars == <<ready, rows, lines, lastId, calls>>

\* Ids start at 1; 0 stands for no conversation_id.
NoId == 0
NoRow == [id |-> NoId, owner |-> "none", category |-> "none"]

\* The category column of what a caller saves.
CategoryOf(k) == IF k \in TermChats THEN "legal_terms" ELSE "analysis"

\* saved_conversations_category_check of migration 006 lists the three
\* categories of analyses.
CategoryCheck == {"analysis"}

Idle == [at |-> "idle", does |-> "nothing", by |-> "none", key |-> "none",
         id |-> NoId, row |-> NoRow, got |-> << >>]

MemberInit ==
    /\ ready = {}
    /\ rows = << >>
    /\ lines = << >>
    /\ lastId = 0
    /\ calls = [c \in Callers |-> Idle]

-----------------------------------------------------------------------------
(* Calls and connections *)

Is(c, does, position) == calls[c].does = does /\ calls[c].at = position

MoveTo(c, position) == calls' = [calls EXCEPT ![c].at = position]

\* async with pool.acquire(): the connection is given back on every path.
Connected == {c \in Callers : calls[c].at \in {"first", "second", "commit"}}

Acquire(c) ==
    /\ calls[c].at = "acquire"
    /\ Cardinality(Connected) < Connections
    /\ MoveTo(c, "first")
    /\ UNCHANGED <<ready, rows, lines, lastId>>

\* The row of source_request_id k is locked by the transaction of a save.
Locked(k) == \E c \in Callers : calls[c].key = k /\ calls[c].row # NoRow

\* The rows a member's statement with WHERE id = ... AND user_id = ... finds.
Owned(m, i) == {k \in DOMAIN rows : rows[k].id = i /\ rows[k].owner = m}

\* The reply of a route, after which the next request may come, or the end of
\* the only call that produces an answer.  A chat's record keeps its
\* conversation_id.  The database's refusal is remembered.
End(c, outcome) ==
    calls' = [calls EXCEPT ![c] =
        [Idle EXCEPT !.at = IF outcome = "refused" THEN "refused"
                            ELSE IF c \in Requests THEN "idle" ELSE "done",
                     !.id = IF c \in TermChats THEN calls[c].id ELSE NoId]]

\* The work of a caller fails.  The run of an analysis that could not be saved
\* has failed, with nothing to save: the result comes after the save.
Fails(c) == End(c, "failed") /\ UNCHANGED ready

-----------------------------------------------------------------------------
(* Asking *)

\* The worker of a run, or the chat request, starts.  With a conversation_id
\* it first reads the conversation it follows up.
Ask(k, i) ==
    /\ calls[k].at = "idle"
    /\ calls' = [calls EXCEPT ![k] =
          [@ EXCEPT !.does = "context", !.by = Author[k], !.key = k, !.id = i,
                    !.at = IF i = NoId THEN "analysing" ELSE "acquire"]]
    /\ UNCHANGED <<ready, rows, lines, lastId>>

\* restore_context and restore: the first SELECT, of the owner's row.
FindRow(c) ==
    /\ calls[c].does \in {"context", "open"}
    /\ calls[c].at = "first"
    /\ \/ /\ \E k \in Owned(calls[c].by, calls[c].id) :
                c \in TermChats => rows[k].category = "legal_terms"
          /\ MoveTo(c, "second")
          /\ UNCHANGED ready
       \/ /\ \A k \in Owned(calls[c].by, calls[c].id) :
                c \in TermChats /\ rows[k].category # "legal_terms"
          /\ Fails(c)
    /\ UNCHANGED <<rows, lines, lastId>>

\* The rows of saved_messages, as far as they matter.
Lines == [in: 0..MaxId, key: Answers, role: {"user", "assistant"}]

LinesOf(i) == Kept(lines, {line \in Lines : line.in = i})

\* The first question and the last three messages, as the statement of
\* restore_context and _context_from_messages select them.
ContextOf(i) ==
    LET all    == LinesOf(i)
        asked  == Kept(all, {line \in Lines : line.role = "user"})
        recent == {all[n] : n \in {n \in DOMAIN all : n + 3 > Len(all)}}
    IN  Kept(all, {Head(asked)} \cup recent)

\* Mutant: the context is used without looking at it.
ContextUnchecked(k, context) == k \in Answers /\ Len(context) >= 0

\* "if not context: raise PermissionError" in the worker of a run; the term
\* chat goes on without a context.
ContextAccepted(k, context) == k \in Analyses => context # << >>

\* The second SELECT, of the messages of that conversation.  Nothing keeps
\* the conversation from being deleted between the two.
ReadContext(k) ==
    /\ Is(k, "context", "second")
    /\ LET context == ContextOf(calls[k].id)
       IN  IF ContextAccepted(k, context)
           THEN /\ calls' = [calls EXCEPT ![k].at = "analysing",
                                          ![k].got = context]
                /\ UNCHANGED ready
           ELSE Fails(k)
    /\ UNCHANGED <<rows, lines, lastId>>

\* The rest of restore_history_for_actor.
ReadLines(c) ==
    /\ Is(c, "open", "second")
    /\ calls' = [calls EXCEPT ![c].at = "shown",
                              ![c].got = LinesOf(calls[c].id)]
    /\ UNCHANGED <<ready, rows, lines, lastId>>

Shown(c) ==
    /\ Is(c, "open", "shown")
    /\ End(c, "ok")
    /\ UNCHANGED <<ready, rows, lines, lastId>>

\* The answer is there.  A chat is remembered for the save button before
\* anything else; an analysis is published when its save is over.  Either is
\* saved at once if the question asked for it.
Answered(k) ==
    /\ calls[k].at = "analysing"
    /\ IF k \in TermChats THEN ready' = ready \cup {k}
                          ELSE UNCHANGED ready
    /\ calls' = [calls EXCEPT ![k].at = "acquire", ![k].does = "save",
                              ![k].got = << >>]
    /\ UNCHANGED <<rows, lines, lastId>>

AnsweredUnsaved(k) ==
    /\ calls[k].at = "analysing"
    /\ End(k, "ok")
    /\ ready' = ready \cup {k}
    /\ UNCHANGED <<rows, lines, lastId>>

\* The analysis fails, or the chat model cannot be reached.
Unanswered(k) ==
    /\ calls[k].at = "analysing"
    /\ Fails(k)
    /\ UNCHANGED <<rows, lines, lastId>>

-----------------------------------------------------------------------------
(* The routes *)

\* get_run_for_save and save_run, or get_for_actor of the term chat store:
\* otherwise the reply is 403, 404 or 409.  That an
\* answer expires only takes the button's effect away.
MaySave(m, k) == m = Author[k] /\ k \in ready

\* The save button under an answer.
PressSave(c, m, k) ==
    /\ calls[c].at = "idle"
    /\ MaySave(m, k)
    /\ calls' = [calls EXCEPT ![c] =
          [@ EXCEPT !.does = "save", !.by = m, !.key = k, !.at = "acquire",
                    !.id = IF k \in TermChats THEN calls[k].id ELSE NoId]]
    /\ UNCHANGED <<ready, rows, lines, lastId>>

\* The history page: details and deletion, of an id that was given out.
OpenOrDelete(c, m, i, does) ==
    /\ calls[c].at = "idle"
    /\ calls' = [calls EXCEPT ![c] =
          [@ EXCEPT !.does = does, !.by = m, !.id = i, !.at = "acquire"]]
    /\ UNCHANGED <<ready, rows, lines, lastId>>

\* delete: one statement; it waits for a save of that conversation, and the
\* messages go with the row.
Delete(c) ==
    /\ Is(c, "delete", "first")
    /\ LET found == Owned(calls[c].by, calls[c].id)
       IN  /\ \A k \in found : ~Locked(k)
           /\ rows' = [k \in DOMAIN rows \ found |-> rows[k]]
           /\ lines' = Kept(lines, {line \in Lines :
                                        \A k \in found : line.in # rows[k].id})
           /\ End(c, "ok")
    /\ UNCHANGED <<ready, lastId>>

-----------------------------------------------------------------------------
(* Saving: one transaction *)

\* INSERT ... ON CONFLICT (source_request_id) DO UPDATE: the row there is, or
\* a new one.  It waits while another transaction holds the key.  The messages
\* and the sources follow in the same transaction.
Upsert(c) ==
    /\ Is(c, "save", "first")
    /\ calls[c].id = NoId \/ calls[c].key \in Analyses
    /\ ~Locked(calls[c].key)
    /\ LET k   == calls[c].key
           row == IF k \in DOMAIN rows THEN rows[k]
                  ELSE [id |-> lastId + 1, owner |-> calls[c].by,
                        category |-> CategoryOf(k)]
       IN  \/ /\ CategoryOf(k) \notin CategoryCheck
              /\ End(c, "refused")
              /\ UNCHANGED lastId
           \/ /\ CategoryOf(k) \in CategoryCheck /\ row.owner # calls[c].by
              /\ End(c, "failed")
              /\ UNCHANGED lastId
           \/ /\ CategoryOf(k) \in CategoryCheck /\ row.owner = calls[c].by
              /\ k \in DOMAIN rows \/ lastId < MaxId
              /\ calls' = [calls EXCEPT ![c].at = "commit", ![c].row = row]
              /\ lastId' = IF k \in DOMAIN rows THEN lastId ELSE lastId + 1
    /\ UNCHANGED <<ready, rows, lines>>

\* UPDATE ... WHERE id = ... AND category = 'legal_terms': a chat that
\* continues a saved one.  No row has that category, so it finds none.
UpdateContinued(c) ==
    /\ Is(c, "save", "first")
    /\ calls[c].id # NoId /\ calls[c].key \in TermChats
    /\ \A k \in Owned(calls[c].by, calls[c].id) :
          rows[k].category # "legal_terms"
    /\ Fails(c)
    /\ UNCHANGED <<rows, lines, lastId>>

Line(c, role) == [in |-> calls[c].row.id, key |-> calls[c].key, role |-> role]

\* ON CONFLICT (execution_key, role): a message that is there stays in its
\* place.
Added(c) ==
    Kept(<<Line(c, "user"), Line(c, "assistant")>>, {new \in Lines :
        \A n \in DOMAIN lines : <<lines[n].key, lines[n].role>> #
                                <<new.key, new.role>>})

RowsWith(k, row) ==
    [l \in DOMAIN rows \cup {k} |-> IF l = k THEN row ELSE rows[l]]

Committed(c) ==
    /\ rows' = RowsWith(calls[c].key, calls[c].row)
    /\ lines' = lines \o Added(c)

Commit(c) ==
    /\ Is(c, "save", "commit")
    /\ Committed(c)
    /\ End(c, "ok")
    /\ ready' = ready \cup ({c} \cap Analyses)
    /\ UNCHANGED lastId

\* Mutant: every statement commits on its own.
FirstStatement(c) ==
    /\ rows' = IF calls[c].row = NoRow THEN rows
               ELSE RowsWith(calls[c].key, calls[c].row)
    /\ UNCHANGED lines

RolledBack(c) == c \in Callers /\ UNCHANGED <<rows, lines>>

\* No connection can be had (the pool's wait fails, or is cancelled), the
\* connection breaks or a statement takes longer than command_timeout: the
\* transaction, if there is one, is rolled back.  A commit may have happened
\* although its confirmation is lost.
Break(c) ==
    /\ c \in Connected \/ calls[c].at = "acquire"
    /\ Fails(c)
    /\ \/ RolledBack(c)
       \/ Is(c, "save", "commit") /\ Committed(c)
    /\ UNCHANGED lastId

-----------------------------------------------------------------------------

Work(c) ==
    \/ Acquire(c)
    \/ FindRow(c) \/ ReadContext(c) \/ ReadLines(c) \/ Shown(c)
    \/ Answered(c) \/ AnsweredUnsaved(c) \/ Unanswered(c)
    \/ Delete(c)
    \/ Upsert(c) \/ UpdateContinued(c) \/ Commit(c)
    \/ Break(c)

MemberNext ==
    \/ \E k \in Answers, i \in 0..lastId : Ask(k, i)
    \/ \E c \in Requests, m \in Members :
          \/ \E k \in Answers : PressSave(c, m, k)
          \/ \E i \in 1..lastId, does \in {"open", "delete"} :
                OpenOrDelete(c, m, i, does)
    \/ \E c \in Callers : Work(c)

-----------------------------------------------------------------------------
(* Properties *)

\* However the worker's save, the button, its repetitions after a lost
\* confirmation and deletions overlap, what is stored is always whole: every
\* conversation belongs to the member who asked and holds the question and
\* then the answer, once each, and no message is left without its
\* conversation.
SavedIsWhole ==
    /\ \A k \in DOMAIN rows :
          /\ rows[k].owner = Author[k]
          /\ LinesOf(rows[k].id) =
                <<[in |-> rows[k].id, key |-> k, role |-> "user"],
                  [in |-> rows[k].id, key |-> k, role |-> "assistant"]>>
    /\ \A n \in DOMAIN lines : \E k \in DOMAIN rows : rows[k].id = lines[n].in

\* A question that follows up a conversation is analysed with messages of
\* that conversation or not at all, even if it is deleted while it is being
\* read, and no member reads what another one saved.
FollowUpsHaveTheirContext ==
    \A c \in Callers :
        /\ \A n \in DOMAIN calls[c].got :
              Author[calls[c].got[n].key] = calls[c].by
        /\ c \in Analyses /\ calls[c].at = "analysing" /\ calls[c].id # NoId
              => calls[c].got # << >>

\* What docs/UNIFIED_HISTORY_API.md and POST_RESULT_SAVE_CONTRACT.md say: a
\* member's term chats are saved with the analyses.  The database accepts
\* what the application asks it to save.
TermChatsAreAccepted == \A c \in Callers : calls[c].at # "refused"

=============================================================================
