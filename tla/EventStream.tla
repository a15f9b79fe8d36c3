---------------------------- MODULE EventStream ----------------------------
(***************************************************************************)
(* A browser session follows a run: receive_run                            *)
(* (frontend/clients/agent_stream.py) reads the event stream that          *)
(* get_agent_run_events (backend/app/routers/mock_api.py) produces from    *)
(* the run's snapshot, connects again with Last-Event-ID when it breaks,   *)
(* and asks for the snapshot before, between and after its attempts.  What *)
(* it has shown stays in the session, so that asking the same question     *)
(* again goes on where it was (frontend/components/stream_analysis.py).    *)
(*                                                                         *)
(* The run is any that keeps the contract RunLifecycle, which AgentRun     *)
(* implements.  An event is its id and its name.                           *)
(***************************************************************************)
EXTENDS Naturals, Sequences, SequencesExt

CONSTANTS
    MaxAttempts,    \* one connection and two more
    MaxEvents,      \* bound: events of the run
    MaxVersion      \* bound: saves of the run

ASSUME StreamAssumption == MaxAttempts \in Nat \ {0} /\ MaxEvents \in Nat

VARIABLES
    status, log, version,   \* the run, see RunLifecycle
    sent,           \* sent_id of the generator of the open stream
    stream,         \* what the connection is: none, open, ended or broken
    wire,           \* events on their way to the client
    pc,             \* where receive_run is
    attempt,        \* its attempt
    overdue,        \* its deadline has passed
    lastId,         \* pending["last_id"] of the session
    outcome,        \* what the last call said
    shown,          \* history: the events shown in the session
    told            \* history: the log, also after the snapshot has expired

runVars == <<status, log, version, told>>
streamVars == <<sent, stream, wire>>
clientVars == <<pc, attempt, overdue, lastId, outcome, shown>>
followVars == <<runVars, streamVars, clientVars>>

Run == INSTANCE RunLifecycle

EventNames == {"step"} \cup Run!Outcomes
Final == {"completed", "stopped"}

StreamInit ==
    /\ Run!Init
    /\ told = <<>>
    /\ sent = 0 /\ stream = "none" /\ wire = <<>>
    /\ pc = "idle" /\ attempt = 1 /\ overdue = FALSE
    /\ lastId = 0 /\ outcome = "none" /\ shown = <<>>

-----------------------------------------------------------------------------
(* The run *)

\* What a save adds; after saves that failed, several events at once.
Additions == UNION {[1..n -> EventNames] : n \in 0..MaxEvents}

RunMoves ==
    /\ version < MaxVersion
    /\ \E news \in Additions :
        /\ Len(log) + Len(news) <= MaxEvents
        /\ log' = log \o news
        /\ Run!Work \/ Run!Finish \/ Run!Fail
    /\ told' = log'
    /\ UNCHANGED <<streamVars, clientVars>>

RunExpires ==
    /\ Run!Expire
    /\ UNCHANGED <<told, streamVars, clientVars>>

-----------------------------------------------------------------------------
(* The server's generator *)

\* Last-Event-ID of the request.
LastEventId == lastId

EventAt(i) == [id |-> i, name |-> log[i]]

\* The events after sent_id.
Unsent == [i \in 1..(Len(log) - sent) |-> EventAt(sent + i)]

\* One round of the loop: all pending events; a finished run ends the stream,
\* an expired one aborts it.
Poll ==
    /\ stream = "open"
    /\ IF status = "gone"
       THEN /\ stream' = "broken"
            /\ UNCHANGED <<sent, wire>>
       ELSE /\ wire' = IF Len(log) > sent THEN wire \o Unsent ELSE wire
            /\ sent' = IF Len(log) > sent THEN Len(log) ELSE sent
            /\ stream' = IF status \in Final \cup {"failed"}
                         THEN "ended" ELSE "open"
    /\ UNCHANGED <<runVars, clientVars>>

\* The connection breaks, the store fails or nothing arrives for 30 seconds:
\* the client gets some of what was on its way and then an error.
Break ==
    /\ stream \in {"open", "ended"}
    /\ stream' = "broken"
    /\ \E n \in 0..Len(wire) : wire' = SubSeq(wire, 1, n)
    /\ UNCHANGED <<sent, runVars, clientVars>>

-----------------------------------------------------------------------------
(* receive_run *)

Disconnected == stream' = "none" /\ wire' = <<>> /\ sent' = 0

\* The call is over; the session keeps the run and the last id.
LeaveCall(said) ==
    /\ pc' = "idle"
    /\ outcome' = said
    /\ Disconnected
    /\ attempt' = 1
    /\ overdue' = FALSE
    /\ UNCHANGED <<lastId, shown, runVars>>

\* The session is done with the run.
Finished(said) ==
    /\ pc' = "finished"
    /\ outcome' = said
    /\ Disconnected
    /\ attempt' = 1
    /\ overdue' = FALSE
    /\ UNCHANGED <<lastId, shown, runVars>>

\* The analysis is asked for, the first time or again.
Ask ==
    /\ pc = "idle"
    /\ pc' = "check"
    /\ UNCHANGED <<attempt, overdue, lastId, outcome, shown, runVars, streamVars>>

\* Mutant: a run that needs more input does not count as finished.
AnswersCompleted == status = "completed"

\* The snapshot has a result (final_result).
Answers == status \in Final

\* The snapshot answers: it has a result, a failure, or nothing yet; an
\* expired run is an error.
Snapshot(nothing) ==
    \/ Answers /\ Finished("result")
    \/ status = "failed" /\ Finished("failed")
    \/ status = "gone" /\ LeaveCall("error")
    \/ status \in {"queued", "running"} \cup Final /\ ~Answers /\ nothing

\* The call goes on at p with the connection closed.
Continue(p) ==
    /\ pc' = p
    /\ Disconnected
    /\ UNCHANGED <<attempt, overdue, lastId, outcome, shown, runVars>>

Check == pc = "check" /\ Snapshot(Continue(IF overdue THEN "last" ELSE "connect"))

\* After a terminal event the result must be there.
CheckFinal == pc = "final" /\ Snapshot(LeaveCall("mismatch"))

CheckLast == pc = "last" /\ Snapshot(LeaveCall("disconnected"))

\* The snapshot cannot be read.
CheckFails == pc \in {"check", "final", "last"} /\ LeaveCall("error")

\* The next attempt, if there is one.
TryAgain ==
    /\ IF attempt < MaxAttempts
       THEN pc' = "check" /\ attempt' = attempt + 1
       ELSE pc' = "last" /\ UNCHANGED attempt
    /\ Disconnected
    /\ UNCHANGED <<overdue, lastId, outcome, shown, runVars>>

Connect ==
    /\ pc = "connect"
    /\ status # "gone"
    /\ pc' = "reading"
    /\ stream' = "open" /\ sent' = LastEventId /\ wire' = <<>>
    /\ UNCHANGED <<attempt, overdue, lastId, outcome, shown, runVars>>

\* The server refuses, or cannot be reached.
ConnectFails == pc = "connect" /\ (LeaveCall("error") \/ TryAgain)

\* Mutant: the last id is not updated.
ShowForgetting(e) == shown' = Append(shown, e) /\ UNCHANGED lastId

\* on_event: the session shows the event and keeps its id.
Show(e) == shown' = Append(shown, e) /\ lastId' = e.id

\* An event that was shown is skipped; a terminal one ends the stream.
Receive ==
    /\ pc = "reading"
    /\ ~overdue
    /\ wire # <<>>
    /\ LET e == Head(wire) IN
        IF e.id <= lastId
        THEN /\ wire' = Tail(wire)
             /\ UNCHANGED <<lastId, shown, pc, sent, stream>>
        ELSE /\ Show(e)
             /\ IF e.name \in Run!Outcomes
                THEN pc' = "final" /\ Disconnected
                ELSE wire' = Tail(wire) /\ UNCHANGED <<pc, sent, stream>>
    /\ UNCHANGED <<attempt, overdue, outcome, runVars>>

\* Mutant: the lines of the stream are read without looking at the time.
ConnectionOver == wire = <<>> /\ stream \in {"ended", "broken"}

\* The stream is over, or the deadline was noticed at the next line; the
\* server sends a heartbeat every ten seconds.
ReadingOver == overdue \/ (wire = <<>> /\ stream \in {"ended", "broken"})

StopReading == pc = "reading" /\ ReadingOver /\ TryAgain

\* The total time is over.
Tick ==
    /\ pc \notin {"idle", "finished"}
    /\ overdue' = TRUE
    /\ UNCHANGED <<pc, attempt, lastId, outcome, shown, runVars, streamVars>>

Receiver ==
    \/ Check \/ CheckFinal \/ CheckLast \/ CheckFails
    \/ Connect \/ ConnectFails \/ Receive \/ StopReading

StreamNext ==
    \/ RunMoves \/ RunExpires
    \/ Poll \/ Break
    \/ Ask \/ Receiver \/ Tick

StreamSpec == StreamInit /\ [][StreamNext]_followVars

\* The script runs, time passes, the server polls, and of a request that is
\* repeated for ever some get an answer; the user asks again.
StreamFairSpec ==
    /\ StreamSpec
    /\ WF_followVars(Receiver) /\ WF_followVars(Tick) /\ WF_followVars(Poll)
    /\ WF_followVars(Ask) /\ SF_followVars(Check)

-----------------------------------------------------------------------------
(* Properties *)

\* The session shows every event at most once and none before the events it
\* follows, over all connections and repeated calls.
ShownInOrder ==
    /\ Len(shown) = lastId
    /\ Len(shown) <= Len(told)
    /\ \A i \in DOMAIN shown : shown[i] = [id |-> i, name |-> told[i]]

\* What the session says of the run is what the run says: a terminal event is
\* never seen before its result is there, and a result that was shown stays.
SessionAgrees ==
    /\ outcome # "mismatch"
    /\ outcome = "result" => status \in Final \cup {"gone"}
    /\ outcome = "failed" => status \in {"failed", "gone"}

\* A call ends, whatever the network and the run do.
CallEnds == pc = "check" ~> pc \in {"idle", "finished"}

\* A session whose user asks again gets the outcome of a run that has one,
\* unless the run expires before.
OutcomeArrives ==
    status \in Final \cup {"failed"} ~> pc = "finished" \/ status = "gone"

=============================================================================
