---------------------------- MODULE RunLifecycle ----------------------------
(***************************************************************************)
(* What a run promises to everyone who reads its snapshot, whoever writes  *)
(* it: one version at a time it works, then finishes or fails, once; its   *)
(* event log only grows and announces no outcome other than the status;    *)
(* and a key that has expired is not created a second time.                *)
(***************************************************************************)
EXTENDS Naturals, Sequences, SequencesExt

VARIABLES
    status,     \* what GET /api/agent-runs/{run_id} says, or "gone"
    log,        \* the events GET /api/agent-runs/{run_id}/events replays
    version     \* the revision of the stored snapshot

vars == <<status, log, version>>

Outcomes == {"input.required", "run.completed", "run.failed"}

\* Mutant: the status is written after the events, one save later.
SpeaksUpTo(events, n) == n \in 0..Len(events)

\* The log says nothing about the outcome up to its n-th event.
SilentUpTo(events, n) == \A i \in 1..n : events[i] \notin Outcomes

Init ==
    /\ status = "queued"
    /\ log = <<>>
    /\ version = 1

Grow ==
    /\ IsPrefix(log, log')
    /\ version' = version + 1

\* The run starts or makes progress.
Work ==
    /\ status \in {"queued", "running"}
    /\ status' = "running"
    /\ Grow
    /\ SilentUpTo(log', Len(log'))

\* The run ends with a result; the last event may announce it.
Finish ==
    /\ status = "running"
    /\ status' \in {"completed", "stopped"}
    /\ Grow
    /\ Len(log') > 0
    /\ SilentUpTo(log', Len(log') - 1)
    /\ log'[Len(log')] # "run.failed"

\* The run ends without one, and says so.
Fail ==
    /\ status \in {"queued", "running"}
    /\ status' = "failed"
    /\ Grow
    /\ Len(log') > 0
    /\ SilentUpTo(log', Len(log') - 1)
    /\ log'[Len(log')] = "run.failed"

\* The key's time to live runs out.
Expire ==
    /\ status # "gone"
    /\ status' = "gone"
    /\ log' = <<>>
    /\ version' = 0

Next == Work \/ Finish \/ Fail \/ Expire

Spec == Init /\ [][Next]_vars
=============================================================================
