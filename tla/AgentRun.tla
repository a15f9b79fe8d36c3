------------------------------ MODULE AgentRun ------------------------------
(***************************************************************************)
(* One analysis run of LawPath, from its reservation in Redis to its       *)
(* terminal snapshot: the asyncio task that executes it                    *)
(* (backend/app/services/agent_run_service.py), the Redis key both sides   *)
(* share, and the readers that poll it and may declare it interrupted      *)
(* (backend/app/services/agent_run_store.py).                              *)
(*                                                                         *)
(* A step of the model is the code between two awaits.  A save is a        *)
(* message: Redis may execute it now, later, after its sender has given    *)
(* up on it, or twice when the client library resends it, and its reply    *)
(* may be lost.                                                            *)
(***************************************************************************)
EXTENDS RunSnapshot, FiniteSets

CONSTANTS
    Pollers,        \* concurrent readers of the run
    SearchSteps     \* events between the end of the intake and the answer

ASSUME SearchStepsIsNat == SearchSteps \in Nat

VARIABLES
    \* shared state
    snapshot,       \* the value of lawpath:run:<run_id>
    saves,          \* save requests Redis may still execute
    overdue,        \* created_at lies more than the timeout + 10 s back
    \* the worker task
    request,        \* the parts of the run fixed at creation
    run,            \* its dict in store.agent_runs
    held,           \* the dict is still in store.agent_runs
    pc,             \* the await the task is suspended at
    stage,          \* the purpose of the save it awaits
    cause,          \* the exception that will continue after that save
    sends,          \* number of saves sent: the id of the latest
    reply,          \* what Redis answered to the latest save
    answer,         \* the result object the analysis returned
    \* side effects outside Redis runs
    stored,         \* the member's conversation is committed in PostgreSQL
    remembered,     \* the guest's temporary history lists the run
    \* the readers
    poll,           \* the overdue snapshot a reader is about to interrupt
    reported        \* every terminal snapshot handed to a reader

storeVars == <<snapshot, saves, overdue>>
workerVars == <<request, run, held, pc, stage, cause, sends, reply, answer>>
effectVars == <<stored, remembered>>
readerVars == <<poll, reported>>
vars == <<storeVars, workerVars, effectVars, readerVars>>

-----------------------------------------------------------------------------
(* Types *)

RunRequests == [role: {"GUEST", "USER"}, save_selected: BOOLEAN,
                follow_up: BOOLEAN]

\* A guest may not ask for a conversation to be saved.
LegalRequests == {r \in RunRequests : r.role = "GUEST" => ~r.save_selected}

SaveRequest == [id: Nat, expected: Nat, candidate: Snapshot]

NoReply == [verdict |-> "none", current |-> NoSnapshot]
Expired == [verdict |-> "expired", current |-> NoSnapshot]
Verdicts == {"revision", "unchanged", "terminal", "saved", "invalid"}
Replies == {NoReply, Expired} \cup [verdict: Verdicts, current: Snapshot]

Awaits == {"ready", "saving", "context", "analysis", "storing", "guest", "done"}
Stages == {"start", "step", "validated", "final", "last"}
Causes == {"none", "failed", "timeout", "shutdown"}

TypeOK ==
    /\ snapshot \in Snapshot \cup {NoSnapshot}
    /\ saves \in SUBSET SaveRequest
    /\ overdue \in BOOLEAN
    /\ request \in LegalRequests
    /\ run \in Snapshot
    /\ held \in BOOLEAN
    /\ pc \in Awaits
    /\ stage \in Stages
    /\ cause \in Causes
    /\ sends \in Nat
    /\ reply \in Replies
    /\ answer \in Results
    /\ stored \in BOOLEAN
    /\ remembered \in BOOLEAN
    /\ poll \in [Pollers -> Snapshot \cup {NoSnapshot}]
    /\ reported \in SUBSET Snapshot

-----------------------------------------------------------------------------
(* Init: reserve_run has answered and start_run has created the task. *)

Init ==
    /\ snapshot = Reserved
    /\ saves = {}
    /\ overdue = FALSE
    /\ request \in LegalRequests
    /\ run = Reserved
    /\ held = TRUE
    /\ pc = "ready"
    /\ stage = "start"
    /\ cause = "none"
    /\ sends = 0
    /\ reply = NoReply
    /\ answer = "none"
    /\ stored = FALSE
    /\ remembered = FALSE
    /\ poll = [p \in Pollers |-> NoSnapshot]
    /\ reported = {}

-----------------------------------------------------------------------------
(* Steps the handlers below are made of *)

\* append_event
Appended(r, event) == [r EXCEPT !.events = Append(@, event)]

\* Mutant: no event announces the failure.
FailedSilently(r, code) == [r EXCEPT !.status = "failed", !.error = code]

\* status, error and run.failed, as every failure handler assigns them.
Failed(r, code) ==
    Appended([r EXCEPT !.status = "failed", !.error = code], "run.failed")

\* The requests that stay on their way when the worker stops waiting for
\* the latest one: it was lost, or it may still reach Redis.
Abandoned == {saves, {q \in saves : q.id # sends}}

\* The request that asks Redis to save r.
SaveOf(r) == [id |-> sends + 1, expected |-> r.revision,
              candidate |-> [r EXCEPT !.revision = @ + 1]]

\* save_snapshot(r): send the candidate and wait, for the purpose given.
Send(r, purpose, exception, pending) ==
    /\ run' = r
    /\ saves' = pending \cup {SaveOf(r)}
    /\ sends' = sends + 1
    /\ reply' = NoReply
    /\ pc' = "saving"
    /\ stage' = purpose
    /\ cause' = exception
    /\ UNCHANGED held

\* The task is over; execute_run's finally clause forgets a terminal run.
Finish(r, exception, pending) ==
    /\ run' = r
    /\ saves' = pending
    /\ held' = (held /\ ~Terminal(r))
    /\ pc' = "done"
    /\ cause' = exception
    /\ reply' = NoReply
    /\ UNCHANGED <<stage, sends>>

\* Mutant: a run that is already terminal fails, too.
HandleErrorAlwaysFails(r, code, pending) ==
    Send(Failed(r, code), "last", "none", pending)

\* execute_run's handler for an exception that is not a conflict.
HandleError(r, code, pending) ==
    Send(IF Terminal(r) THEN r ELSE Failed(r, code), "last", "none", pending)

\* _execute_run's handler for an exception that is not a conflict.
AnalysisFailed(r, pending) ==
    Send(Failed(r, "ANALYSIS_FAILED"), "final", "none", pending)

\* What follows the final save, unless it was rejected.
AfterFinal(r, pending) ==
    IF cause = "timeout" THEN HandleError(r, "ANALYSIS_TIMEOUT", pending)
                         ELSE Finish(r, cause, pending)

\* The task goes on inside _execute_run.
Resume(r, await) ==
    /\ run' = r
    /\ pc' = await
    /\ reply' = NoReply
    /\ UNCHANGED <<saves, held, stage, cause, sends>>

\* Mutant: the run is not forgotten.
AdoptWithoutPop(r, current) ==
    /\ run' = IF current = NoSnapshot THEN r ELSE current
    /\ pc' = "done"
    /\ reply' = NoReply
    /\ UNCHANGED <<held, stage, cause>>

\* _adopt_snapshot: the writer lost its revision; its run becomes the stored
\* one, if there is one, and it stops.
Adopt(r, current) ==
    /\ run' = IF current = NoSnapshot THEN r ELSE current
    /\ held' = FALSE
    /\ pc' = "done"
    /\ reply' = NoReply
    /\ UNCHANGED <<stage, cause>>

\* The result is set before the status; a guest's history is written
\* between the status and the event that announces it.
Announced(r) ==
    Appended(r, IF r.status = "stopped" THEN "input.required"
                                        ELSE "run.completed")

Publish(result) ==
    LET r == [run EXCEPT !.result = result,
                         !.status = IF result = "clarification"
                                    THEN "stopped" ELSE "completed"]
    IN  IF request.role = "GUEST"
        THEN Resume(r, "guest")
        ELSE Send(Announced(r), "final", "none", saves)

\* The worker awaits something inside the try block of _execute_run.
InTry ==
    \/ pc \in {"context", "analysis", "storing", "guest"}
    \/ pc = "saving" /\ stage \in {"step", "validated"}

AwaitsSave(purposes) == pc = "saving" /\ stage \in purposes

\* A cancelled call to PostgreSQL or to the guest history may have
\* taken effect.
EffectsOfCancelledCall ==
    /\ stored' \in {stored, stored \/ pc = "storing"}
    /\ remembered' \in {remembered, remembered \/ pc = "guest"}

-----------------------------------------------------------------------------
(* The worker task *)

Start ==
    /\ pc = "ready"
    /\ Send(Appended([run EXCEPT !.status = "running"], "run.started"),
            "start", "none", saves)
    /\ UNCHANGED <<snapshot, overdue, request, answer, effectVars, readerVars>>

\* A follow-up question first reads the conversation it continues.
ContextRead ==
    /\ pc = "context"
    /\ Resume(run, "analysis")
    /\ UNCHANGED <<snapshot, overdue, request, answer, effectVars, readerVars>>

\* The validation events, then one event per search or generation step.
\* The conflict of a save is recognised except in "validated": there the
\* intake agent turns every exception of its callback into its own.
StepReported ==
    /\ pc = "analysis"
    /\ Len(run.events) < 3 + SearchSteps
    /\ Send(Appended(run, "step"),
            IF Len(run.events) = 2 THEN "validated" ELSE "step",
            "none", saves)
    /\ UNCHANGED <<snapshot, overdue, request, answer, effectVars, readerVars>>

AnalysisFails ==
    /\ pc \in {"context", "analysis"}
    /\ AnalysisFailed(run, saves)
    /\ UNCHANGED <<snapshot, overdue, request, answer, effectVars, readerVars>>

\* Mutant: the result is published before the conversation is stored.
AnalysisAnswersUnsaved(result) ==
    /\ pc = "analysis"
    /\ \/ result = "clarification" /\ Len(run.events) = 3
       \/ result = "answer" /\ Len(run.events) = 3 + SearchSteps
    /\ answer' = result
    /\ Publish(result)
    /\ UNCHANGED <<snapshot, overdue, request, effectVars, readerVars>>

AnalysisAnswers(result) ==
    /\ pc = "analysis"
    /\ \/ result = "clarification" /\ Len(run.events) = 3
       \/ result = "answer" /\ Len(run.events) = 3 + SearchSteps
    /\ answer' = result
    /\ IF request.save_selected /\ request.role # "GUEST"
       THEN Resume(run, "storing")
       ELSE Publish(result)
    /\ UNCHANGED <<snapshot, overdue, request, effectVars, readerVars>>

ConversationStored ==
    /\ pc = "storing"
    /\ stored' = TRUE
    /\ Publish(answer)
    /\ UNCHANGED <<snapshot, overdue, request, answer, remembered, readerVars>>

\* The commit may have succeeded although its confirmation never came.
ConversationFails ==
    /\ pc = "storing"
    /\ AnalysisFailed(run, saves)
    /\ EffectsOfCancelledCall
    /\ UNCHANGED <<snapshot, overdue, request, answer, readerVars>>

GuestRemembered ==
    /\ pc = "guest"
    /\ remembered' = TRUE
    /\ Send(Announced(run), "final", "none", saves)
    /\ UNCHANGED <<snapshot, overdue, request, answer, stored, readerVars>>

GuestSaveFails ==
    /\ pc = "guest"
    /\ Send(Announced(Appended(run, "guest.storage_failed")),
            "final", "none", saves)
    /\ EffectsOfCancelledCall
    /\ UNCHANGED <<snapshot, overdue, request, answer, readerVars>>

-----------------------------------------------------------------------------
(* The save the worker awaits: accepted, rejected, or no answer at all *)

SaveReturns ==
    /\ pc = "saving"
    /\ Accepted(reply.verdict)
    /\ LET r == [run EXCEPT !.revision = reply.current.revision]
       IN  \/ /\ stage = "start"
              /\ Resume(r, IF request.follow_up THEN "context" ELSE "analysis")
           \/ /\ stage \in {"step", "validated"} /\ cause = "none"
              /\ Resume(r, "analysis")
           \/ /\ stage = "step" /\ cause = "failed"
              /\ AnalysisFailed(r, saves)
           \/ /\ stage = "final"
              /\ AfterFinal(r, saves)
           \/ /\ stage = "last"
              /\ Finish(r, "none", saves)
    /\ UNCHANGED <<snapshot, overdue, request, answer, effectVars, readerVars>>

\* One of several parallel searches has reported, another is still to come
\* and may wait for the callback lock.
SearchReported == stage = "step" /\ cause = "none"
                  /\ Len(run.events) \in 4..(2 + SearchSteps)

\* In the second disjunct a search that waited for the callback lock appends
\* its event and sends its save before it is cancelled; nobody waits for it.
SaveConflicts ==
    /\ pc = "saving"
    /\ reply # NoReply
    /\ ~Accepted(reply.verdict)
    /\ \/ /\ \/ stage \in {"start", "final", "last"}
             \/ stage = "step" /\ cause = "none"
          /\ Adopt(run, reply.current)
          /\ UNCHANGED <<saves, sends>>
       \/ /\ SearchReported
          /\ Adopt(Appended(run, "step"), reply.current)
          /\ saves' = saves \cup {SaveOf(Appended(run, "step"))}
          /\ sends' = sends + 1
       \/ /\ \/ stage = "validated"
             \/ stage = "step" /\ cause = "failed"
          /\ AnalysisFailed(run, saves)
    /\ UNCHANGED <<snapshot, overdue, request, answer, effectVars, readerVars>>

\* The store is unavailable, or a parallel search failed and the progress
\* save of another one was cancelled.  In the second disjunct a search that
\* waited for the callback lock still reports before it is cancelled too.
SaveFails ==
    /\ pc = "saving"
    /\ reply = NoReply
    /\ \E pending \in Abandoned :
        \/ /\ stage \in {"step", "validated"}
           /\ AnalysisFailed(run, pending)
        \/ /\ SearchReported
           /\ Send(Appended(run, "step"), "step", "failed", pending)
        \/ /\ stage = "start"
           /\ HandleError(run, "RUN_STORE_UNAVAILABLE", pending)
        \/ /\ stage = "final"
           /\ AfterFinal(run, pending)
        \/ /\ stage = "last"
           /\ Finish(run, "none", pending)
    /\ UNCHANGED <<snapshot, overdue, request, answer, effectVars, readerVars>>

-----------------------------------------------------------------------------
(* Deadline, shutdown and crash *)

\* Mutant: the deadline covers the saves only.
TimeoutOfSaves ==
    /\ \E pending \in Abandoned :
        \/ /\ AwaitsSave({"start"})
           /\ HandleError(run, "ANALYSIS_TIMEOUT", pending)
        \/ /\ AwaitsSave({"final"}) /\ cause = "none"
           /\ HandleError(run, "ANALYSIS_TIMEOUT", pending)
    /\ UNCHANGED <<snapshot, overdue, request, answer, effectVars, readerVars>>

\* asyncio.timeout cancels the await once; a task that is being shut down
\* keeps the cancellation, any other sees a TimeoutError.
Timeout ==
    /\ \E pending \in Abandoned :
        \/ /\ AwaitsSave({"start"})
           /\ HandleError(run, "ANALYSIS_TIMEOUT", pending)
        \/ /\ InTry
           /\ Send(run, "final", "timeout", pending)
        \/ /\ AwaitsSave({"final"}) /\ cause = "none"
           /\ HandleError(run, "ANALYSIS_TIMEOUT", pending)
        \/ /\ AwaitsSave({"final"}) /\ cause = "shutdown"
           /\ Finish(run, "shutdown", pending)
    /\ EffectsOfCancelledCall
    /\ UNCHANGED <<snapshot, overdue, request, answer, readerVars>>

\* close_active_runs cancels the task; one that never ran just ends.
Shutdown ==
    /\ \E pending \in Abandoned :
        \/ /\ pc = "ready"
           /\ pc' = "done"
           /\ cause' = "shutdown"
           /\ UNCHANGED <<run, saves, held, stage, sends, reply>>
        \/ /\ InTry
           /\ Send(run, "final", "shutdown", pending)
        \/ /\ AwaitsSave({"start", "final", "last"})
           /\ Finish(run, "shutdown", pending)
    /\ EffectsOfCancelledCall
    /\ UNCHANGED <<snapshot, overdue, request, answer, readerVars>>

\* The process dies with everything it holds in memory.
Crash ==
    /\ pc # "done"
    /\ pc' = "done"
    /\ held' = FALSE
    /\ reply' = NoReply
    /\ saves' \in Abandoned
    /\ EffectsOfCancelledCall
    /\ UNCHANGED <<snapshot, overdue, request, run, stage, cause, sends,
                   answer, readerVars>>

-----------------------------------------------------------------------------
(* Redis *)

\* Redis runs the save script for a request.  The reply to the latest one
\* reaches the worker, or is lost, and then the client may send it again.
SaveExecutes(q) ==
    LET verdict == SaveVerdict(snapshot, q)
    IN  /\ q \in saves
        /\ snapshot' = IF verdict = "saved" THEN q.candidate ELSE snapshot
        /\ \/ /\ q.id = sends /\ pc = "saving" /\ reply = NoReply
              /\ reply' = [verdict |-> verdict, current |-> snapshot']
              /\ saves' = saves \ {q}
           \/ /\ saves' \in {saves, saves \ {q}}
              /\ UNCHANGED reply
        /\ UNCHANGED <<overdue, request, run, held, pc, stage, cause, sends,
                       answer, effectVars, readerVars>>

Expire ==
    /\ snapshot # NoSnapshot
    /\ snapshot' = NoSnapshot
    /\ UNCHANGED <<saves, overdue, workerVars, effectVars, readerVars>>

Age ==
    /\ ~overdue
    /\ overdue' = TRUE
    /\ UNCHANGED <<snapshot, saves, workerVars, effectVars, readerVars>>

-----------------------------------------------------------------------------
(* Readers: read_snapshot, called by the status, save and event routes *)

ReadTerminal(p) ==
    /\ poll[p] = NoSnapshot
    /\ snapshot # NoSnapshot
    /\ Terminal(snapshot)
    /\ reported' = reported \cup {snapshot}
    /\ UNCHANGED <<storeVars, workerVars, effectVars, poll>>

\* Mutant: only a run that has started can be overdue.
ReadOverdueRunning(p) ==
    /\ poll[p] = NoSnapshot
    /\ snapshot # NoSnapshot
    /\ snapshot.status = "running"
    /\ overdue
    /\ poll' = [poll EXCEPT ![p] = snapshot]
    /\ UNCHANGED <<storeVars, workerVars, effectVars, reported>>

\* Mutant: whatever is old counts as overdue, ended or not.
ReadOverdueOrEnded(p) ==
    /\ poll[p] = NoSnapshot
    /\ snapshot # NoSnapshot
    /\ overdue
    /\ poll' = [poll EXCEPT ![p] = snapshot]
    /\ UNCHANGED <<storeVars, workerVars, effectVars, reported>>

ReadOverdue(p) ==
    /\ poll[p] = NoSnapshot
    /\ snapshot # NoSnapshot
    /\ Active(snapshot)
    /\ overdue
    /\ poll' = [poll EXCEPT ![p] = snapshot]
    /\ UNCHANGED <<storeVars, workerVars, effectVars, reported>>

\* The interruption script runs; its answer, the winning snapshot, is
\* handed to the reader, or is lost and may be asked for again.
Interrupt(p) ==
    LET winner == InterruptResult(snapshot, poll[p])
        known == {s \in {winner} : s # NoSnapshot /\ Terminal(s)}
    IN  /\ poll[p] # NoSnapshot
        /\ snapshot' = winner
        /\ \/ /\ poll' = [poll EXCEPT ![p] = NoSnapshot]
              /\ reported' \in {reported, reported \cup known}
           \/ UNCHANGED <<poll, reported>>
        /\ UNCHANGED <<saves, overdue, workerVars, effectVars>>

-----------------------------------------------------------------------------
(* Specification *)

Worker ==
    \/ Start \/ ContextRead \/ StepReported \/ AnalysisFails
    \/ \E result \in {"answer", "clarification"} : AnalysisAnswers(result)
    \/ ConversationStored \/ ConversationFails
    \/ GuestRemembered \/ GuestSaveFails
    \/ SaveReturns \/ SaveConflicts \/ SaveFails
    \/ Timeout \/ Shutdown \/ Crash

Store == Expire \/ Age \/ \E q \in saves : SaveExecutes(q)

Reader == \E p \in Pollers : ReadTerminal(p) \/ ReadOverdue(p) \/ Interrupt(p)

Next == Worker \/ Store \/ Reader

Spec == Init /\ [][Next]_vars

-----------------------------------------------------------------------------
(* Properties *)

Lifecycle == INSTANCE RunLifecycle WITH
    status <- IF snapshot = NoSnapshot THEN "gone" ELSE snapshot.status,
    log <- IF snapshot = NoSnapshot THEN <<>> ELSE snapshot.events,
    version <- IF snapshot = NoSnapshot THEN 0 ELSE snapshot.revision

\* Whatever order late saves, interruptions and expiry take effect in, the
\* stored snapshot only ever makes the steps of the run contract.
RefinesLifecycle == Lifecycle!Spec

\* No two readers are ever told different outcomes of the run, and the
\* outcome they were told is the one that is stored until it expires.
OneOutcome ==
    /\ \A a, b \in reported : a = b
    /\ snapshot # NoSnapshot => reported \subseteq {snapshot}

\* A run that was to be saved is never shown as ended with a result
\* before the member's conversation is committed.
SavedBeforeCompleted ==
    /\ snapshot # NoSnapshot
    /\ snapshot.status \in {"completed", "stopped"}
    /\ request.save_selected
    => stored

\* A save of the worker is only ever turned down because it is stale: no
\* request in flight would break a transition, an event log or a terminal
\* snapshot if its revision matched.
OnlyStaleSavesRejected ==
    \A q \in saves :
        SaveVerdict(snapshot, q) \in {"saved", "unchanged", "revision", "expired"}

\* A finished task leaves its run in process memory only if the process is
\* shutting down.
FinishedRunForgotten == pc = "done" /\ held => cause = "shutdown"

\* While someone keeps reading it, a run reaches an outcome or expires,
\* even if its worker died, lost its revision or lost a reply.
RunSettles ==
    <>(IF snapshot = NoSnapshot THEN TRUE ELSE Terminal(snapshot))

\* The task ends although the searches, the models and the databases it
\* waits for may never answer: the deadline ends them.
WorkerEnds == <>(pc = "done")

\* A writer whose save was rejected stops: it sends nothing more.
RejectedWriterStops == [][SaveConflicts => sends' = sends]_vars

\* A stored result has been followed by the event that announces it.
ResultAnnounced ==
    \/ snapshot = NoSnapshot
    \/ snapshot.status \in {"completed", "stopped"}
       => \E i \in DOMAIN snapshot.events :
             snapshot.events[i] \in {"run.completed", "input.required"}

-----------------------------------------------------------------------------
(* The inductive invariant behind the safety properties: every snapshot,   *)
(* wherever it is (stored, on its way, in the worker's or a reader's       *)
(* hands), is coherent, and the worker's position says which ones it may   *)
(* send.                                                                   *)

Silent(events, n) == \A i \in 1..n : events[i] \notin TerminalEvents

Ended(s) == s.status \in {"completed", "stopped"}

\* The status and the event log of a snapshot agree.
Coherent(s) ==
    /\ Active(s) => Silent(s.events, Len(s.events))
    /\ Terminal(s) =>
         /\ Len(s.events) > 0
         /\ Silent(s.events, Len(s.events) - 1)
         /\ s.events[Len(s.events)] = "run.failed" <=> s.status = "failed"

\* A run that was to be saved has been, before it ends with a result.
Committed(s, selected, commit) == Ended(s) /\ selected => commit

\* A snapshot the worker may send.
Sendable(s, selected, commit) ==
    /\ Coherent(s)
    /\ s.status # "queued"
    /\ Len(s.events) > 0
    /\ Committed(s, selected, commit)

AtWork ==
    \/ pc \in {"context", "analysis", "storing"}
    \/ AwaitsSave({"start", "step", "validated"})

WorkerInv ==
    /\ pc = "ready" => run = Reserved
    /\ pc \notin {"ready", "done"} =>
          Sendable(run, request.save_selected, stored)
    /\ AtWork => Active(run)
    /\ pc = "guest" => Ended(run) /\ Silent(run.events, Len(run.events))

SavesInv ==
    \A q \in saves :
        /\ q.candidate.revision = q.expected + 1
        /\ Sendable(q.candidate, request.save_selected, stored)

SnapshotInv ==
    snapshot # NoSnapshot =>
        /\ Coherent(snapshot)
        /\ Committed(snapshot, request.save_selected, stored)

ReaderInv ==
    /\ \A p \in Pollers :
          poll[p] # NoSnapshot => Active(poll[p]) /\ Coherent(poll[p])
    /\ \A s \in reported : Terminal(s)
    /\ OneOutcome

IInv == TypeOK /\ WorkerInv /\ SavesInv /\ SnapshotInv /\ ReaderInv

(***************************************************************************)
(* Fairness.  Readers poll (the event route every half second) and the     *)
(* clock runs.  The event loop runs a ready task, the deadline fires, and  *)
(* Redis answers or the connection breaks; nothing is assumed of the       *)
(* services the analysis calls.                                            *)
(***************************************************************************)
ReaderFairness ==
    /\ WF_vars(Age)
    /\ \A p \in Pollers : WF_vars(ReadOverdue(p)) /\ WF_vars(Interrupt(p))

WorkerFairness ==
    /\ WF_vars(Start)
    /\ WF_vars(Timeout)
    /\ WF_vars(SaveReturns \/ SaveConflicts \/ SaveFails)

FairSpec == Spec /\ ReaderFairness /\ WorkerFairness
=============================================================================
