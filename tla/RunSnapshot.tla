---------------------------- MODULE RunSnapshot ----------------------------
(***************************************************************************)
(* The run snapshot LawPath keeps in Redis under lawpath:run:<run_id>, and  *)
(* the two Lua scripts that are its only writers after the reservation:    *)
(* the worker's revision-checked save and the poller's interruption of an  *)
(* overdue run (backend/app/services/agent_run_store.py).                  *)
(*                                                                         *)
(* Events carry consecutive ids 1..n in the code, so an event log is a     *)
(* sequence of event names and an id is a position in it.  The identity    *)
(* fields (run_id, owner, question, created_at, ...) are never assigned    *)
(* after creation and are left out, with the check that compares them.     *)
(***************************************************************************)
EXTENDS Naturals, Sequences, SequencesExt

CONSTANT NoSnapshot     \* the key is absent: GET answered nil

TerminalStatuses == {"completed", "stopped", "failed"}
Statuses == {"queued", "running"} \cup TerminalStatuses

TerminalEvents == {"input.required", "run.completed", "run.failed"}
EventNames == {"run.started", "step", "guest.storage_failed"} \cup TerminalEvents

Results == {"none", "answer", "clarification"}
Errors == {"none", "ANALYSIS_FAILED", "ANALYSIS_TIMEOUT",
           "RUN_STORE_UNAVAILABLE", "ANALYSIS_INTERRUPTED"}

Snapshot == [status: Statuses, revision: Nat, events: Seq(EventNames),
             result: Results, error: Errors]

ASSUME NoSnapshotIsNone == NoSnapshot \notin Snapshot

\* What reserve_run writes: a queued run with revision 1 and no event yet.
Reserved == [status |-> "queued", revision |-> 1, events |-> <<>>,
             result |-> "none", error |-> "none"]

Terminal(s) == s.status \in TerminalStatuses
Active(s) == s.status \in {"queued", "running"}

\* The status transitions the save script allows.
AllowedTransitions ==
    {"queued"} \X {"queued", "running", "failed"}
        \cup {"running"} \X {"running", "completed", "stopped", "failed"}

\* A completed or stopped run carries its result, a failed one its error.
CarriesOutcome(s) ==
    /\ s.status \in {"completed", "stopped"} => s.result # "none"
    /\ s.status = "failed" => s.error # "none"

\* The save script: the new snapshot may replace the old one.
MayReplace(old, new) ==
    /\ <<old.status, new.status>> \in AllowedTransitions
    /\ IsPrefix(old.events, new.events)
    /\ CarriesOutcome(new)

\* Mutant: the revision is not compared.
SaveVerdictWithoutRevision(old, q) ==
    IF old = NoSnapshot THEN "expired"
    ELSE IF Terminal(old) THEN "terminal"
    ELSE IF MayReplace(old, q.candidate) THEN "saved" ELSE "invalid"

(***************************************************************************)
(* The answer of the save script to a request [id, expected, candidate],   *)
(* in the order in which the script tests its conditions.                  *)
(***************************************************************************)
SaveVerdict(old, q) ==
    IF old = NoSnapshot THEN "expired"
    ELSE IF old.revision # q.expected THEN "revision"
    ELSE IF Terminal(old) THEN
        IF [q.candidate EXCEPT !.revision = old.revision] = old
        THEN "unchanged" ELSE "terminal"
    ELSE IF MayReplace(old, q.candidate) THEN "saved" ELSE "invalid"

Accepted(verdict) == verdict \in {"saved", "unchanged"}

\* The failed snapshot a poller proposes for an overdue run it has read.
Interrupted(s) ==
    [s EXCEPT !.status = "failed", !.revision = @ + 1,
              !.error = "ANALYSIS_INTERRUPTED",
              !.events = Append(@, "run.failed")]

\* The interruption script: compare with the value read, then write.
InterruptResult(current, raw) ==
    IF current = raw THEN Interrupted(raw) ELSE current
=============================================================================
