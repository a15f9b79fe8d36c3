--------------------------- MODULE AgentRunProofs ---------------------------
(***************************************************************************)
(* Proofs about AgentRun for any set of readers and any number of search   *)
(* steps: every snapshot is coherent, the run implements RunLifecycle, and *)
(* the worker's run continues what is stored.                              *)
(***************************************************************************)
EXTENDS AgentRun, TLAPS

-----------------------------------------------------------------------------
(* Lemmas about snapshots and their event logs *)

\* Appending an event keeps a snapshot a snapshot.
LEMMA AppendedType ==
    ASSUME NEW r \in Snapshot, NEW event \in EventNames
    PROVE  Appended(r, event) \in Snapshot
  BY DEF Appended, Snapshot

\* A log is a prefix of itself and of itself with one event more.
LEMMA PrefixOfAppended ==
    ASSUME NEW S, NEW log \in Seq(S), NEW event \in S
    PROVE  IsPrefix(log, Append(log, event)) /\ IsPrefix(log, log)
  BY DEF IsPrefix

\* The reserved snapshot is a snapshot.
LEMMA ReservedType == Reserved \in Snapshot
  BY DEF Reserved, Snapshot, Statuses, TerminalStatuses, Results, Errors

\* The constants the writers use belong to the types.
LEMMA Members ==
    /\ "failed" \in Statuses
    /\ "running" \in Statuses
    /\ {"run.failed", "run.started", "step", "run.completed",
        "input.required", "guest.storage_failed"} \subseteq EventNames
    /\ "ANALYSIS_INTERRUPTED" \in Errors
  BY DEF Statuses, TerminalStatuses, EventNames, TerminalEvents, Errors

\* Every failure handler produces a snapshot.
LEMMA FailedType ==
    ASSUME NEW r \in Snapshot, NEW code \in Errors
    PROVE  Failed(r, code) \in Snapshot
  <1>1. [r EXCEPT !.status = "failed", !.error = code] \in Snapshot
    BY Members DEF Snapshot
  <1>2. QED
    BY <1>1, AppendedType, Members DEF Failed

\* The fields of a snapshot with an event appended.
LEMMA AppendedFields ==
    ASSUME NEW r \in Snapshot, NEW event \in EventNames
    PROVE  /\ Appended(r, event).status = r.status
           /\ Appended(r, event).revision = r.revision
           /\ Appended(r, event).result = r.result
           /\ Appended(r, event).error = r.error
           /\ Appended(r, event).events = Append(r.events, event)
  BY DEF Appended, Snapshot

\* The fields of the snapshot a failure handler produces.
LEMMA FailedFields ==
    ASSUME NEW r \in Snapshot, NEW code \in Errors
    PROVE  /\ Failed(r, code).status = "failed"
           /\ Failed(r, code).revision = r.revision
           /\ Failed(r, code).error = code
           /\ Failed(r, code).events = Append(r.events, "run.failed")
  <1> DEFINE f == [r EXCEPT !.status = "failed", !.error = code]
  <1>1. f \in Snapshot
    BY Members DEF Snapshot
  <1>2. f.status = "failed" /\ f.error = code /\ f.revision = r.revision
            /\ f.events = r.events
    BY DEF Snapshot
  <1> HIDE DEF f
  <1>3. Appended(f, "run.failed").status = "failed"
            /\ Appended(f, "run.failed").revision = r.revision
            /\ Appended(f, "run.failed").error = code
            /\ Appended(f, "run.failed").events = Append(r.events, "run.failed")
    BY <1>1, <1>2, AppendedFields, Members
  <1>4. QED
    BY <1>3 DEF Failed, f

\* The interruption script produces a snapshot, one revision further.
LEMMA InterruptedFields ==
    ASSUME NEW s \in Snapshot
    PROVE  /\ Interrupted(s) \in Snapshot
           /\ Interrupted(s).status = "failed"
           /\ Interrupted(s).revision = s.revision + 1
           /\ Interrupted(s).error = "ANALYSIS_INTERRUPTED"
           /\ Interrupted(s).events = Append(s.events, "run.failed")
  <1> DEFINE a == [s EXCEPT !.status = "failed"]
             b == [a EXCEPT !.revision = @ + 1]
             c == [b EXCEPT !.error = "ANALYSIS_INTERRUPTED"]
             log == Append(s.events, "run.failed")
             d == [c EXCEPT !.events = log]
  <1>0. log \in Seq(EventNames)
    BY Members DEF Snapshot
  <1>1. a \in Snapshot /\ a.status = "failed" /\ a.revision = s.revision
            /\ a.events = s.events
    BY Members DEF Snapshot
  <1> HIDE DEF a
  <1>2. b \in Snapshot /\ b.status = "failed" /\ b.revision = s.revision + 1
            /\ b.events = s.events
    BY <1>1 DEF Snapshot
  <1> HIDE DEF b
  <1>3. c \in Snapshot /\ c.status = "failed" /\ c.revision = s.revision + 1
            /\ c.events = s.events /\ c.error = "ANALYSIS_INTERRUPTED"
    BY <1>2, Members DEF Snapshot
  <1> HIDE DEF c
  <1> HIDE DEF log
  <1>4. d \in Snapshot /\ d.status = "failed" /\ d.revision = s.revision + 1
            /\ d.events = log /\ d.error = "ANALYSIS_INTERRUPTED"
    BY <1>0, <1>3 DEF Snapshot
  <1>5. d = [c EXCEPT !.events = Append(@, "run.failed")]
    BY <1>3 DEF log
  <1> HIDE DEF d
  <1>6. Interrupted(s) = d
    BY <1>5 DEF Interrupted, a, b, c
  <1>7. QED
    BY <1>4, <1>6 DEF log

-----------------------------------------------------------------------------
(* Lemmas about coherence *)

\* A failure handler turns an active coherent snapshot into a sendable one.
LEMMA FailedSendable ==
    ASSUME NEW r \in Snapshot, NEW code \in Errors,
           Active(r), Coherent(r), NEW selected, NEW commit
    PROVE  Sendable(Failed(r, code), selected, commit) /\ Terminal(Failed(r, code))
  <1> DEFINE f == Failed(r, code)
  <1>1. f.status = "failed" /\ f.events = Append(r.events, "run.failed")
    BY FailedFields
  <1>2. r.events \in Seq(EventNames) /\ Silent(r.events, Len(r.events))
    BY DEF Snapshot, Coherent
  <1>3. /\ Len(f.events) = Len(r.events) + 1
        /\ Len(r.events) \in Nat
        /\ f.events[Len(f.events)] = "run.failed"
        /\ \A i \in 1..Len(r.events) : f.events[i] = r.events[i]
    BY <1>1, <1>2, Members
  <1> HIDE DEF f
  <1>4. Silent(f.events, Len(f.events) - 1)
    BY <1>2, <1>3 DEF Silent
  <1>5. QED
    BY <1>1, <1>3, <1>4
       DEF f, Sendable, Coherent, Committed, Ended, Active, Terminal,
           TerminalStatuses

\* Progress keeps an active snapshot coherent.
LEMMA ProgressSendable ==
    ASSUME NEW r \in Snapshot, r.status = "running", Coherent(r),
           NEW event \in {"run.started", "step"}, NEW selected, NEW commit
    PROVE  Sendable(Appended(r, event), selected, commit)
  <1> DEFINE a == Appended(r, event)
  <1>0. event \in EventNames /\ event \notin TerminalEvents
    BY Members DEF TerminalEvents
  <1>1. a.status = "running" /\ a.events = Append(r.events, event)
    BY <1>0, AppendedFields
  <1>2. r.events \in Seq(EventNames) /\ Silent(r.events, Len(r.events))
    BY DEF Snapshot, Coherent, Active
  <1>3. /\ Len(a.events) = Len(r.events) + 1
        /\ Len(r.events) \in Nat
        /\ a.events[Len(a.events)] = event
        /\ \A i \in 1..Len(r.events) : a.events[i] = r.events[i]
    BY <1>0, <1>1, <1>2
  <1> HIDE DEF a
  <1>4. Silent(a.events, Len(a.events))
    <2> SUFFICES ASSUME NEW i \in 1..Len(a.events)
                 PROVE  a.events[i] \notin TerminalEvents
      BY DEF Silent
    <2>1. CASE i = Len(a.events)
      BY <1>0, <1>3, <2>1
    <2>2. CASE i # Len(a.events)
      <3>1. i \in 1..Len(r.events)
        BY <1>3, <2>2
      <3>2. a.events[i] = r.events[i]
        BY <1>3, <3>1
      <3> QED BY <1>2, <3>1, <3>2 DEF Silent
    <2> QED BY <2>1, <2>2
  <1>5. /\ ~Terminal(a) /\ ~Ended(a) /\ a.status # "queued"
        /\ Len(a.events) > 0
    <2>1. ~Terminal(a) /\ ~Ended(a) /\ a.status # "queued"
      BY <1>1 DEF Terminal, TerminalStatuses, Ended
    <2>2. Len(a.events) > 0
      BY <1>3
    <2> QED BY <2>1, <2>2
  <1>6. Coherent(a)
    BY <1>4, <1>5 DEF Coherent
  <1>7. Sendable(a, selected, commit)
    BY <1>5, <1>6 DEF Sendable, Committed
  <1>8. QED
    BY <1>7 DEF a

\* So does the event that announces a result.
LEMMA AnnouncedSendable ==
    ASSUME NEW r \in Snapshot, Ended(r), Silent(r.events, Len(r.events)),
           NEW selected, NEW commit, Committed(r, selected, commit)
    PROVE  /\ Announced(r) \in Snapshot
           /\ Sendable(Announced(r), selected, commit)
  <1> DEFINE event == IF r.status = "stopped" THEN "input.required"
                                              ELSE "run.completed"
             a == Announced(r)
  <1>0. event \in EventNames /\ event # "run.failed"
    BY Members
  <1> HIDE DEF event
  <1>1. a = Appended(r, event)
    BY DEF Announced, event
  <1>2. a \in Snapshot /\ a.status = r.status /\ a.events = Append(r.events, event)
    BY <1>0, <1>1, AppendedFields, AppendedType
  <1>3. r.events \in Seq(EventNames)
    BY DEF Snapshot
  <1>4. /\ Len(a.events) = Len(r.events) + 1
        /\ Len(r.events) \in Nat
        /\ a.events[Len(a.events)] = event
        /\ \A i \in 1..Len(r.events) : a.events[i] = r.events[i]
    BY <1>0, <1>2, <1>3
  <1> HIDE DEF a
  <1>5. Silent(a.events, Len(a.events) - 1)
    BY <1>4 DEF Silent
  <1>6. QED
    BY <1>0, <1>2, <1>4, <1>5
       DEF a, Sendable, Coherent, Committed, Ended, Active, Terminal,
           TerminalStatuses

\* The revision of a snapshot has no part in its coherence.
LEMMA RevisionIrrelevant ==
    ASSUME NEW r \in Snapshot, NEW n \in Nat, NEW selected, NEW commit
    PROVE  LET v == [r EXCEPT !.revision = n]
           IN  /\ v \in Snapshot /\ v.revision = n
               /\ v.status = r.status /\ v.events = r.events
               /\ Coherent(v) <=> Coherent(r)
               /\ Sendable(v, selected, commit) <=> Sendable(r, selected, commit)
  <1> DEFINE v == [r EXCEPT !.revision = n]
  <1>1. /\ v \in Snapshot /\ v.revision = n
        /\ v.status = r.status /\ v.events = r.events
    BY DEF Snapshot
  <1> HIDE DEF v
  <1>2. Coherent(v) <=> Coherent(r)
    BY <1>1 DEF Coherent, Active, Terminal
  <1>3. Sendable(v, selected, commit) <=> Sendable(r, selected, commit)
    BY <1>1, <1>2 DEF Sendable, Committed, Ended
  <1>4. QED
    BY <1>1, <1>2, <1>3 DEF v

-----------------------------------------------------------------------------
(* Lemmas about the steps the worker's handlers are made of.  Each says    *)
(* that the step re-establishes the worker's share of the invariant.       *)

WorkerTypes ==
    /\ run \in Snapshot
    /\ saves \in SUBSET SaveRequest
    /\ held \in BOOLEAN
    /\ pc \in Awaits
    /\ stage \in Stages
    /\ cause \in Causes
    /\ sends \in Nat
    /\ reply \in Replies

WorkerShare == WorkerTypes /\ WorkerInv /\ SavesInv

\* The facts a step may rely on about what it does not itself assign.
Undisturbed == request' = request /\ (stored => stored')

\* Requests on their way stay sendable while nothing is uncommitted.
LEMMA PendingKept ==
    ASSUME SavesInv, Undisturbed, NEW pending \in SUBSET saves
    PROVE  \A q \in pending :
              /\ q.candidate.revision = q.expected + 1
              /\ Sendable(q.candidate, request'.save_selected, stored')
  BY DEF SavesInv, Undisturbed, Sendable, Committed

\* The request for a sendable snapshot.
LEMMA SaveOfFacts ==
    ASSUME WorkerShare, NEW r \in Snapshot, NEW selected, NEW commit,
           Sendable(r, selected, commit)
    PROVE  /\ SaveOf(r) \in SaveRequest
           /\ SaveOf(r).id = sends + 1
           /\ SaveOf(r).expected = r.revision
           /\ SaveOf(r).candidate.revision = r.revision + 1
           /\ Sendable(SaveOf(r).candidate, selected, commit)
  <1> DEFINE c == [r EXCEPT !.revision = @ + 1]
  <1>1. r.revision \in Nat /\ sends \in Nat
    BY DEF Snapshot, WorkerShare, WorkerTypes
  <1>2. c \in Snapshot /\ c.revision = r.revision + 1 /\ Sendable(c, selected, commit)
    BY <1>1, RevisionIrrelevant
  <1>3. SaveOf(r) = [id |-> sends + 1, expected |-> r.revision, candidate |-> c]
    BY DEF SaveOf
  <1> HIDE DEF c
  <1>4. QED
    BY <1>1, <1>2, <1>3 DEF SaveRequest

\* Sending a sendable snapshot.
LEMMA SendKeeps ==
    ASSUME WorkerShare, Undisturbed,
           NEW r \in Snapshot, Sendable(r, request'.save_selected, stored'),
           NEW purpose \in Stages, NEW exception \in Causes,
           NEW pending \in SUBSET saves,
           purpose \in {"start", "step", "validated"} => Active(r),
           Send(r, purpose, exception, pending)
    PROVE  WorkerShare'
  <1>1. /\ SaveOf(r) \in SaveRequest
        /\ SaveOf(r).candidate.revision = SaveOf(r).expected + 1
        /\ Sendable(SaveOf(r).candidate, request'.save_selected, stored')
    BY SaveOfFacts
  <1>2. run' = r /\ saves' = pending \cup {SaveOf(r)} /\ sends' = sends + 1
            /\ reply' = NoReply /\ pc' = "saving" /\ stage' = purpose
            /\ cause' = exception /\ held' = held
    BY DEF Send
  <1>3. WorkerTypes'
    BY <1>1, <1>2 DEF WorkerShare, WorkerTypes, Awaits, Replies
  <1>4. WorkerInv'
    BY <1>2 DEF WorkerInv, AtWork, AwaitsSave
  <1>5. SavesInv'
    BY <1>1, <1>2, PendingKept DEF SavesInv, WorkerShare
  <1>6. QED
    BY <1>3, <1>4, <1>5 DEF WorkerShare

\* The task ends.
LEMMA FinishKeeps ==
    ASSUME WorkerShare, Undisturbed, NEW r \in Snapshot,
           NEW exception \in Causes, NEW pending \in SUBSET saves,
           Finish(r, exception, pending)
    PROVE  WorkerShare'
  <1>1. WorkerTypes'
    BY DEF WorkerShare, WorkerTypes, Finish, Awaits, Replies
  <1>2. WorkerInv'
    BY DEF WorkerInv, AtWork, AwaitsSave, Finish
  <1>3. SavesInv'
    BY PendingKept DEF SavesInv, WorkerShare, Finish
  <1>4. QED
    BY <1>1, <1>2, <1>3 DEF WorkerShare

\* The task goes on to its next await.
LEMMA ResumeKeeps ==
    ASSUME WorkerShare, Undisturbed,
           NEW r \in Snapshot, Sendable(r, request'.save_selected, stored'),
           NEW await \in {"context", "analysis", "storing", "guest"},
           await # "guest" => Active(r),
           await = "guest" => Ended(r) /\ Silent(r.events, Len(r.events)),
           Resume(r, await)
    PROVE  WorkerShare'
  <1>1. WorkerTypes'
    BY DEF WorkerShare, WorkerTypes, Resume, Awaits, Replies
  <1>2. WorkerInv'
    BY DEF WorkerInv, AtWork, AwaitsSave, Resume
  <1>3. SavesInv'
    BY PendingKept DEF SavesInv, WorkerShare, Resume
  <1>4. QED
    BY <1>1, <1>2, <1>3 DEF WorkerShare

\* The task adopts the stored snapshot and ends; a cancelled search may have
\* sent one save more.
LEMMA AdoptKeeps ==
    ASSUME WorkerShare, Undisturbed, NEW r \in Snapshot,
           NEW current \in Snapshot \cup {NoSnapshot}, Adopt(r, current),
           \/ UNCHANGED <<saves, sends>>
           \/ /\ Sendable(r, request'.save_selected, stored')
              /\ saves' = saves \cup {SaveOf(r)} /\ sends' = sends + 1
    PROVE  WorkerShare'
  <1>1. SavesInv'
    <2>1. \A q \in saves :
              /\ q.candidate.revision = q.expected + 1
              /\ Sendable(q.candidate, request'.save_selected, stored')
      BY PendingKept DEF WorkerShare
    <2>2. Sendable(r, request'.save_selected, stored') =>
              /\ SaveOf(r).candidate.revision = SaveOf(r).expected + 1
              /\ Sendable(SaveOf(r).candidate, request'.save_selected, stored')
      BY SaveOfFacts
    <2>3. QED
      BY <2>1, <2>2 DEF SavesInv
  <1>2. saves' \in SUBSET SaveRequest /\ sends' \in Nat
    BY SaveOfFacts DEF WorkerShare, WorkerTypes
  <1>3. WorkerTypes'
    BY <1>2 DEF WorkerShare, WorkerTypes, Adopt, Awaits, Replies
  <1>4. WorkerInv'
    BY DEF WorkerInv, AtWork, AwaitsSave, Adopt
  <1>5. QED
    BY <1>1, <1>3, <1>4 DEF WorkerShare

\* The outer handler: a terminal run is sent again, any other one fails.
LEMMA HandleErrorKeeps ==
    ASSUME WorkerShare, Undisturbed,
           NEW r \in Snapshot, Sendable(r, request'.save_selected, stored'),
           NEW code \in Errors, NEW pending \in SUBSET saves,
           HandleError(r, code, pending)
    PROVE  WorkerShare'
  <1> DEFINE s == IF Terminal(r) THEN r ELSE Failed(r, code)
  <1>1. Active(r) \/ Terminal(r)
    BY DEF Snapshot, Statuses, Active, Terminal
  <1>2. s \in Snapshot /\ Sendable(s, request'.save_selected, stored')
    BY <1>1, FailedType, FailedSendable DEF Sendable
  <1> HIDE DEF s
  <1>3. Send(s, "last", "none", pending)
    BY DEF HandleError, s
  <1>4. QED
    BY <1>2, <1>3, SendKeeps DEF Stages, Causes

\* The inner handler: the run fails.
LEMMA AnalysisFailedKeeps ==
    ASSUME WorkerShare, Undisturbed,
           NEW r \in Snapshot, Active(r), Coherent(r),
           NEW pending \in SUBSET saves, AnalysisFailed(r, pending)
    PROVE  WorkerShare'
  <1>1. "ANALYSIS_FAILED" \in Errors
    BY DEF Errors
  <1>2. /\ Failed(r, "ANALYSIS_FAILED") \in Snapshot
        /\ Sendable(Failed(r, "ANALYSIS_FAILED"), request'.save_selected, stored')
    BY <1>1, FailedType, FailedSendable
  <1>3. Send(Failed(r, "ANALYSIS_FAILED"), "final", "none", pending)
    BY DEF AnalysisFailed
  <1>4. QED
    BY <1>2, <1>3, SendKeeps DEF Stages, Causes

\* After the final save: the deadline's handler, or the end.
LEMMA AfterFinalKeeps ==
    ASSUME WorkerShare, Undisturbed,
           NEW r \in Snapshot, Sendable(r, request'.save_selected, stored'),
           NEW pending \in SUBSET saves, AfterFinal(r, pending)
    PROVE  WorkerShare'
  <1>1. CASE cause = "timeout"
    <2>1. HandleError(r, "ANALYSIS_TIMEOUT", pending) /\ "ANALYSIS_TIMEOUT" \in Errors
      BY <1>1 DEF AfterFinal, Errors
    <2>2. QED
      BY <2>1, HandleErrorKeeps
  <1>2. CASE cause # "timeout"
    <2>1. Finish(r, cause, pending) /\ cause \in Causes
      BY <1>2 DEF AfterFinal, WorkerShare, WorkerTypes
    <2>2. QED
      BY <2>1, FinishKeeps
  <1>3. QED
    BY <1>1, <1>2

\* The result is published.
LEMMA PublishKeeps ==
    ASSUME WorkerShare, Undisturbed,
           Sendable(run, request'.save_selected, stored'), Active(run),
           request'.save_selected => stored',
           NEW result \in Results, Publish(result)
    PROVE  WorkerShare'
  <1> DEFINE ending == IF result = "clarification" THEN "stopped" ELSE "completed"
             r == [run EXCEPT !.result = result, !.status = ending]
  <1>1. run \in Snapshot /\ ending \in {"stopped", "completed"}
            /\ {"stopped", "completed"} \subseteq Statuses
    BY DEF WorkerShare, WorkerTypes, Statuses, TerminalStatuses
  <1> HIDE DEF ending
  <1>2. r \in Snapshot /\ r.status = ending /\ r.events = run.events
    BY <1>1 DEF Snapshot
  <1> HIDE DEF r
  <1>3. Silent(r.events, Len(r.events)) /\ Len(r.events) > 0 /\ Len(r.events) \in Nat
    BY <1>1, <1>2 DEF Sendable, Coherent, Snapshot
  <1>4. Ended(r) /\ Committed(r, request'.save_selected, stored')
    BY <1>1, <1>2 DEF Ended, Committed
  <1>5. r.events[Len(r.events)] \notin TerminalEvents
    BY <1>3 DEF Silent
  <1>6. Sendable(r, request'.save_selected, stored')
    BY <1>1, <1>2, <1>3, <1>4, <1>5
       DEF Sendable, Coherent, Silent, Active, Terminal, TerminalEvents
  <1>7. CASE request.role = "GUEST"
    <2>1. Resume(r, "guest")
      BY <1>7 DEF Publish, r, ending
    <2>2. QED
      BY <1>2, <1>3, <1>4, <1>6, <2>1, ResumeKeeps
  <1>8. CASE request.role # "GUEST"
    <2>1. Send(Announced(r), "final", "none", saves)
      BY <1>8 DEF Publish, r, ending
    <2>2. /\ Announced(r) \in Snapshot
          /\ Sendable(Announced(r), request'.save_selected, stored')
      BY <1>2, <1>3, <1>4, AnnouncedSendable
    <2>3. QED
      BY <2>1, <2>2, SendKeeps DEF Stages, Causes
  <1>9. QED
    BY <1>7, <1>8

-----------------------------------------------------------------------------
(* Every step preserves the inductive invariant *)

\* A step of the worker leaves Redis and the readers alone; what is left to
\* show of it is the worker's share.
LEMMA WorkerStepKeeps ==
    ASSUME IInv, WorkerShare', Undisturbed,
           snapshot' = snapshot, overdue' = overdue,
           poll' = poll, reported' = reported,
           stored' \in BOOLEAN, remembered' \in BOOLEAN, answer' \in Results
    PROVE  IInv'
  <1>1. TypeOK'
    BY DEF IInv, TypeOK, WorkerShare, WorkerTypes, Undisturbed
  <1>2. SnapshotInv'
    BY DEF IInv, SnapshotInv, Undisturbed, Committed
  <1>3. ReaderInv'
    BY DEF IInv, ReaderInv, OneOutcome
  <1>4. QED
    BY <1>1, <1>2, <1>3 DEF IInv, WorkerShare

\* What the invariant says about the worker, in the form the steps use it.
LEMMA WorkerFacts ==
    ASSUME IInv
    PROVE  /\ WorkerShare
           /\ run \in Snapshot
           /\ pc \notin {"ready", "done"} =>
                 Sendable(run, request.save_selected, stored)
           /\ AtWork => Active(run)
           /\ \A pending \in Abandoned : pending \in SUBSET saves
           /\ saves \in SUBSET saves
           /\ stored \in BOOLEAN /\ remembered \in BOOLEAN /\ answer \in Results
  <1>1. WorkerShare
    BY DEF IInv, TypeOK, WorkerShare, WorkerTypes
  <1>2. QED
    BY <1>1 DEF IInv, TypeOK, WorkerInv, Abandoned

\* A cancelled call may only add its effect.
LEMMA EffectsOnlyAdd ==
    ASSUME IInv, EffectsOfCancelledCall
    PROVE  /\ stored => stored'
           /\ stored' \in BOOLEAN /\ remembered' \in BOOLEAN
  BY DEF IInv, TypeOK, EffectsOfCancelledCall

\* Sendability in the terms of the next state.
LEMMA SendableNext ==
    ASSUME NEW r, Sendable(r, request.save_selected, stored), Undisturbed
    PROVE  Sendable(r, request'.save_selected, stored')
  BY DEF Sendable, Committed, Undisturbed

\* Sending the first save, with the run started.
LEMMA StartKeeps == IInv /\ Start => IInv'
  <1> SUFFICES ASSUME IInv, Start PROVE IInv'
    OBVIOUS
  <1> USE WorkerFacts
  <1> DEFINE r == [run EXCEPT !.status = "running"]
  <1>1. Undisturbed
    BY DEF Start, effectVars, Undisturbed
  <1>2. run = Reserved
    BY DEF Start, IInv, WorkerInv
  <1>3. r \in Snapshot /\ r.status = "running" /\ r.events = <<>>
    BY <1>2, Members DEF Reserved, Snapshot
  <1> HIDE DEF r
  <1>4. Coherent(r)
    BY <1>3 DEF Coherent, Silent, Terminal, TerminalStatuses
  <1>5. "run.started" \in EventNames
    BY Members
  <1>6. /\ Appended(r, "run.started") \in Snapshot
        /\ Appended(r, "run.started").status = "running"
        /\ Sendable(Appended(r, "run.started"), request'.save_selected, stored')
    BY <1>3, <1>4, <1>5, AppendedType, AppendedFields, ProgressSendable
  <1>7. Send(Appended(r, "run.started"), "start", "none", saves)
    BY DEF Start, r
  <1>8. WorkerShare'
    BY <1>1, <1>6, <1>7, SendKeeps DEF Stages, Causes, Active
  <1>9. QED
    BY <1>1, <1>8, WorkerStepKeeps DEF Start, effectVars, readerVars

\* The conversation a follow-up continues has been read.
LEMMA ContextReadKeeps == IInv /\ ContextRead => IInv'
  <1> SUFFICES ASSUME IInv, ContextRead PROVE IInv'
    OBVIOUS
  <1> USE WorkerFacts
  <1>1. Undisturbed
    BY DEF ContextRead, effectVars, Undisturbed
  <1>2. Active(run) /\ Sendable(run, request'.save_selected, stored')
    BY <1>1, SendableNext DEF ContextRead, AtWork
  <1>3. WorkerShare'
    BY <1>1, <1>2, ResumeKeeps DEF ContextRead
  <1>4. QED
    BY <1>1, <1>3, WorkerStepKeeps DEF ContextRead, effectVars, readerVars

\* An active sendable run is running, and stays sendable with a step more.
LEMMA StepSendable ==
    ASSUME NEW r \in Snapshot, Active(r), NEW selected, NEW commit,
           Sendable(r, selected, commit)
    PROVE  /\ Appended(r, "step") \in Snapshot
           /\ Active(Appended(r, "step"))
           /\ Sendable(Appended(r, "step"), selected, commit)
  <1>1. r.status = "running" /\ Coherent(r)
    BY DEF Active, Sendable
  <1>2. "step" \in EventNames
    BY Members
  <1>3. QED
    BY <1>1, <1>2, AppendedType, AppendedFields, ProgressSendable DEF Active

\* Sending a progress save.
LEMMA StepReportedKeeps == IInv /\ StepReported => IInv'
  <1> SUFFICES ASSUME IInv, StepReported PROVE IInv'
    OBVIOUS
  <1> USE WorkerFacts
  <1> DEFINE purpose == IF Len(run.events) = 2 THEN "validated" ELSE "step"
  <1>1. Undisturbed
    BY DEF StepReported, effectVars, Undisturbed
  <1>2. Active(run) /\ Sendable(run, request'.save_selected, stored')
    BY <1>1, SendableNext DEF StepReported, AtWork
  <1>3. purpose \in Stages /\ "none" \in Causes
    BY DEF Stages, Causes
  <1>4. Send(Appended(run, "step"), purpose, "none", saves)
    BY DEF StepReported
  <1> HIDE DEF purpose
  <1>5. WorkerShare'
    BY <1>1, <1>2, <1>3, <1>4, StepSendable, SendKeeps
  <1>6. QED
    BY <1>1, <1>5, WorkerStepKeeps DEF StepReported, effectVars, readerVars

\* The analysis raised.
LEMMA AnalysisFailsKeeps == IInv /\ AnalysisFails => IInv'
  <1> SUFFICES ASSUME IInv, AnalysisFails PROVE IInv'
    OBVIOUS
  <1> USE WorkerFacts
  <1>1. Undisturbed
    BY DEF AnalysisFails, effectVars, Undisturbed
  <1>2. Active(run) /\ Coherent(run)
    BY DEF AnalysisFails, AtWork, Sendable
  <1>3. WorkerShare'
    BY <1>1, <1>2, AnalysisFailedKeeps DEF AnalysisFails
  <1>4. QED
    BY <1>1, <1>3, WorkerStepKeeps DEF AnalysisFails, effectVars, readerVars

\* The analysis answered, or asks back.
LEMMA AnalysisAnswersKeeps ==
    ASSUME NEW result \in {"answer", "clarification"}
    PROVE  IInv /\ AnalysisAnswers(result) => IInv'
  <1> SUFFICES ASSUME IInv, AnalysisAnswers(result) PROVE IInv'
    OBVIOUS
  <1> USE WorkerFacts
  <1>1. Undisturbed /\ result \in Results /\ answer' = result
    BY DEF AnalysisAnswers, effectVars, Undisturbed, Results
  <1>2. Active(run) /\ Sendable(run, request'.save_selected, stored')
    BY <1>1, SendableNext DEF AnalysisAnswers, AtWork
  <1>3. CASE request.save_selected /\ request.role # "GUEST"
    <2>1. Resume(run, "storing")
      BY <1>3 DEF AnalysisAnswers
    <2>2. WorkerShare'
      BY <1>1, <1>2, <2>1, ResumeKeeps
    <2>3. QED
      BY <1>1, <2>2, WorkerStepKeeps DEF AnalysisAnswers, effectVars, readerVars
  <1>4. CASE ~(request.save_selected /\ request.role # "GUEST")
    <2>1. Publish(result)
      BY <1>4 DEF AnalysisAnswers
    <2>2. request' = request /\ ~request.save_selected
      BY <1>1, <1>4
         DEF IInv, TypeOK, LegalRequests, RunRequests, Undisturbed
    <2>3. WorkerShare'
      BY <1>1, <1>2, <2>1, <2>2, PublishKeeps
    <2>4. QED
      BY <1>1, <2>3, WorkerStepKeeps DEF AnalysisAnswers, effectVars, readerVars
  <1>5. QED
    BY <1>3, <1>4

\* The member's conversation is committed, and the result published.
LEMMA ConversationStoredKeeps == IInv /\ ConversationStored => IInv'
  <1> SUFFICES ASSUME IInv, ConversationStored PROVE IInv'
    OBVIOUS
  <1> USE WorkerFacts
  <1>1. Undisturbed /\ stored' = TRUE
    BY DEF ConversationStored, Undisturbed
  <1>2. Active(run) /\ Sendable(run, request'.save_selected, stored')
    BY <1>1, SendableNext DEF ConversationStored, AtWork
  <1>3. Publish(answer)
    BY DEF ConversationStored
  <1>4. WorkerShare'
    BY <1>1, <1>2, <1>3, PublishKeeps
  <1>5. QED
    BY <1>1, <1>4, WorkerStepKeeps DEF ConversationStored, readerVars

\* The commit failed, or seems to have.
LEMMA ConversationFailsKeeps == IInv /\ ConversationFails => IInv'
  <1> SUFFICES ASSUME IInv, ConversationFails PROVE IInv'
    OBVIOUS
  <1> USE WorkerFacts, EffectsOnlyAdd
  <1>1. Undisturbed
    BY DEF ConversationFails, Undisturbed
  <1>2. Active(run) /\ Coherent(run)
    BY DEF ConversationFails, AtWork, Sendable
  <1>3. WorkerShare'
    BY <1>1, <1>2, AnalysisFailedKeeps DEF ConversationFails
  <1>4. QED
    BY <1>1, <1>3, WorkerStepKeeps DEF ConversationFails, readerVars

\* The guest's history lists the run.
LEMMA GuestRememberedKeeps == IInv /\ GuestRemembered => IInv'
  <1> SUFFICES ASSUME IInv, GuestRemembered PROVE IInv'
    OBVIOUS
  <1> USE WorkerFacts
  <1>1. Undisturbed
    BY DEF GuestRemembered, Undisturbed
  <1>2. Ended(run) /\ Silent(run.events, Len(run.events))
    BY DEF GuestRemembered, IInv, WorkerInv
  <1>3. Committed(run, request'.save_selected, stored')
    BY <1>1, SendableNext DEF GuestRemembered, Sendable
  <1>4. WorkerShare'
    BY <1>1, <1>2, <1>3, AnnouncedSendable, SendKeeps
       DEF GuestRemembered, Stages, Causes
  <1>5. QED
    BY <1>1, <1>4, WorkerStepKeeps DEF GuestRemembered, readerVars

\* The history could not be written; the run says so and ends all the same.
LEMMA GuestSaveFailsKeeps == IInv /\ GuestSaveFails => IInv'
  <1> SUFFICES ASSUME IInv, GuestSaveFails PROVE IInv'
    OBVIOUS
  <1> USE WorkerFacts, EffectsOnlyAdd
  <1> DEFINE w == Appended(run, "guest.storage_failed")
  <1>1. Undisturbed
    BY DEF GuestSaveFails, Undisturbed
  <1>2. Ended(run) /\ Silent(run.events, Len(run.events))
    BY DEF GuestSaveFails, IInv, WorkerInv
  <1>3. Committed(run, request'.save_selected, stored')
    BY <1>1, SendableNext DEF GuestSaveFails, Sendable
  <1>4. /\ "guest.storage_failed" \in EventNames
        /\ "guest.storage_failed" \notin TerminalEvents
    BY Members DEF TerminalEvents
  <1>5. /\ w \in Snapshot /\ w.status = run.status
        /\ w.events = Append(run.events, "guest.storage_failed")
    BY <1>4, AppendedType, AppendedFields
  <1> HIDE DEF w
  <1>6. run.events \in Seq(EventNames)
    BY DEF Snapshot
  <1>7. /\ Len(w.events) = Len(run.events) + 1
        /\ Len(run.events) \in Nat
        /\ w.events[Len(w.events)] = "guest.storage_failed"
        /\ \A i \in 1..Len(run.events) : w.events[i] = run.events[i]
    BY <1>4, <1>5, <1>6
  <1>8. Silent(w.events, Len(w.events))
    BY <1>2, <1>4, <1>7 DEF Silent
  <1>9. Ended(w) /\ Committed(w, request'.save_selected, stored')
    BY <1>2, <1>3, <1>5 DEF Ended, Committed
  <1>10. Send(Announced(w), "final", "none", saves)
    BY DEF GuestSaveFails, w
  <1>11. WorkerShare'
    BY <1>1, <1>5, <1>8, <1>9, <1>10, AnnouncedSendable, SendKeeps
       DEF Stages, Causes
  <1>12. QED
    BY <1>1, <1>11, WorkerStepKeeps DEF GuestSaveFails, readerVars

\* An accepted save.
LEMMA SaveReturnsKeeps == IInv /\ SaveReturns => IInv'
  <1> SUFFICES ASSUME IInv, SaveReturns PROVE IInv'
    OBVIOUS
  <1> USE WorkerFacts
  <1> DEFINE r == [run EXCEPT !.revision = reply.current.revision]
  <1>1. Undisturbed
    BY DEF SaveReturns, effectVars, Undisturbed
  <1>2. reply.current \in Snapshot
    BY DEF SaveReturns, IInv, TypeOK, Replies, NoReply, Expired, Accepted
  <1>3. reply.current.revision \in Nat
    BY <1>2 DEF Snapshot
  <1>4. Sendable(run, request'.save_selected, stored')
    BY <1>1, SendableNext DEF SaveReturns
  <1>5. r \in Snapshot /\ r.status = run.status
            /\ Sendable(r, request'.save_selected, stored')
    BY <1>3, <1>4, RevisionIrrelevant
  <1>6. stage \in {"start", "step", "validated"} => Active(r) /\ Coherent(r)
    BY <1>5 DEF SaveReturns, AtWork, AwaitsSave, Active, Sendable
  <1>7. \/ /\ stage = "start"
           /\ Resume(r, IF request.follow_up THEN "context" ELSE "analysis")
        \/ /\ stage \in {"step", "validated"} /\ Resume(r, "analysis")
        \/ /\ stage = "step" /\ AnalysisFailed(r, saves)
        \/ AfterFinal(r, saves)
        \/ Finish(r, "none", saves)
    BY DEF SaveReturns
  <1> HIDE DEF r
  <1>8. CASE stage = "start"
             /\ Resume(r, IF request.follow_up THEN "context" ELSE "analysis")
    BY <1>1, <1>5, <1>6, <1>8, ResumeKeeps, WorkerStepKeeps
       DEF SaveReturns, effectVars, readerVars
  <1>9. CASE stage \in {"step", "validated"} /\ Resume(r, "analysis")
    BY <1>1, <1>5, <1>6, <1>9, ResumeKeeps, WorkerStepKeeps
       DEF SaveReturns, effectVars, readerVars
  <1>10. CASE stage = "step" /\ AnalysisFailed(r, saves)
    BY <1>1, <1>5, <1>6, <1>10, AnalysisFailedKeeps, WorkerStepKeeps
       DEF SaveReturns, effectVars, readerVars
  <1>11. CASE AfterFinal(r, saves)
    BY <1>1, <1>5, <1>11, AfterFinalKeeps, WorkerStepKeeps
       DEF SaveReturns, effectVars, readerVars
  <1>12. CASE Finish(r, "none", saves)
    BY <1>1, <1>5, <1>12, FinishKeeps, WorkerStepKeeps
       DEF SaveReturns, effectVars, readerVars, Causes
  <1>13. QED
    BY <1>7, <1>8, <1>9, <1>10, <1>11, <1>12

\* A rejected save.
LEMMA SaveConflictsKeeps == IInv /\ SaveConflicts => IInv'
  <1> SUFFICES ASSUME IInv, SaveConflicts PROVE IInv'
    OBVIOUS
  <1> USE WorkerFacts
  <1>1. Undisturbed
    BY DEF SaveConflicts, effectVars, Undisturbed
  <1>2. reply.current \in Snapshot \cup {NoSnapshot}
    BY DEF IInv, TypeOK, Replies, NoReply, Expired
  <1>3. CASE Adopt(run, reply.current) /\ UNCHANGED <<saves, sends>>
    BY <1>1, <1>2, <1>3, AdoptKeeps, WorkerStepKeeps
       DEF SaveConflicts, effectVars, readerVars
  <1>5. CASE /\ stage = "step"
             /\ Adopt(Appended(run, "step"), reply.current)
             /\ saves' = saves \cup {SaveOf(Appended(run, "step"))}
             /\ sends' = sends + 1
    <2>1. Active(run) /\ Sendable(run, request'.save_selected, stored')
      BY <1>1, <1>5, SendableNext DEF SaveConflicts, AtWork, AwaitsSave
    <2>2. /\ Appended(run, "step") \in Snapshot
          /\ Sendable(Appended(run, "step"), request'.save_selected, stored')
      BY <2>1, StepSendable
    <2>3. WorkerShare'
      BY <1>1, <1>2, <1>5, <2>2, AdoptKeeps
    <2>4. QED
      BY <1>1, <2>3, WorkerStepKeeps DEF SaveConflicts, effectVars, readerVars
  <1>4. CASE stage \in {"step", "validated"} /\ AnalysisFailed(run, saves)
    <2>1. Active(run) /\ Coherent(run)
      BY <1>4 DEF SaveConflicts, AtWork, AwaitsSave, Sendable
    <2>2. QED
      BY <1>1, <1>4, <2>1, AnalysisFailedKeeps, WorkerStepKeeps
         DEF SaveConflicts, effectVars, readerVars
  <1>6. QED
    BY <1>3, <1>4, <1>5 DEF SaveConflicts, SearchReported

\* No answer to a save.
LEMMA SaveFailsKeeps == IInv /\ SaveFails => IInv'
  <1> SUFFICES ASSUME IInv, SaveFails PROVE IInv'
    OBVIOUS
  <1> USE WorkerFacts
  <1>1. Undisturbed
    BY DEF SaveFails, effectVars, Undisturbed
  <1>2. Sendable(run, request'.save_selected, stored')
    BY <1>1, SendableNext DEF SaveFails
  <1>3. stage \in {"start", "step", "validated"} => Active(run) /\ Coherent(run)
    BY <1>2 DEF SaveFails, AtWork, AwaitsSave, Sendable
  <1>4. {"RUN_STORE_UNAVAILABLE"} \subseteq Errors
    BY DEF Errors
  <1>5. PICK pending \in Abandoned :
        \/ stage \in {"step", "validated"} /\ AnalysisFailed(run, pending)
        \/ stage = "step" /\ Send(Appended(run, "step"), "step", "failed", pending)
        \/ HandleError(run, "RUN_STORE_UNAVAILABLE", pending)
        \/ AfterFinal(run, pending)
        \/ Finish(run, "none", pending)
    BY DEF SaveFails, SearchReported
  <1>6. WorkerShare'
    <2>1. CASE stage \in {"step", "validated"} /\ AnalysisFailed(run, pending)
      BY <1>1, <1>3, <2>1, AnalysisFailedKeeps
    <2>2. CASE stage = "step" /\ Send(Appended(run, "step"), "step", "failed", pending)
      BY <1>1, <1>2, <1>3, <2>2, StepSendable, SendKeeps DEF Stages, Causes
    <2>3. CASE HandleError(run, "RUN_STORE_UNAVAILABLE", pending)
      BY <1>1, <1>2, <1>4, <2>3, HandleErrorKeeps
    <2>4. CASE AfterFinal(run, pending)
      BY <1>1, <1>2, <2>4, AfterFinalKeeps
    <2>5. CASE Finish(run, "none", pending)
      BY <1>1, <2>5, FinishKeeps DEF Causes
    <2>6. QED
      BY <1>5, <2>1, <2>2, <2>3, <2>4, <2>5
  <1>7. QED
    BY <1>1, <1>6, WorkerStepKeeps DEF SaveFails, effectVars, readerVars

\* Where the worker is inside the try block, its run may be sent.
LEMMA InTrySendable ==
    ASSUME IInv, Undisturbed, InTry
    PROVE  Sendable(run, request'.save_selected, stored')
  BY WorkerFacts, SendableNext DEF InTry

\* The deadline fires.
LEMMA TimeoutKeeps == IInv /\ Timeout => IInv'
  <1> SUFFICES ASSUME IInv, Timeout PROVE IInv'
    OBVIOUS
  <1> USE WorkerFacts, EffectsOnlyAdd
  <1>1. Undisturbed
    BY DEF Timeout, Undisturbed
  <1>2. pc = "saving" \/ InTry => Sendable(run, request'.save_selected, stored')
    BY <1>1, SendableNext, InTrySendable
  <1>3. PICK pending \in Abandoned :
        \/ pc = "saving" /\ HandleError(run, "ANALYSIS_TIMEOUT", pending)
        \/ InTry /\ Send(run, "final", "timeout", pending)
        \/ Finish(run, "shutdown", pending)
    BY DEF Timeout, AwaitsSave
  <1>4. WorkerShare'
    <2>1. CASE pc = "saving" /\ HandleError(run, "ANALYSIS_TIMEOUT", pending)
      BY <1>1, <1>2, <2>1, HandleErrorKeeps DEF Errors
    <2>2. CASE InTry /\ Send(run, "final", "timeout", pending)
      BY <1>1, <1>2, <2>2, SendKeeps DEF Stages, Causes
    <2>3. CASE Finish(run, "shutdown", pending)
      BY <1>1, <2>3, FinishKeeps DEF Causes
    <2>4. QED
      BY <1>3, <2>1, <2>2, <2>3
  <1>5. QED
    BY <1>1, <1>4, WorkerStepKeeps DEF Timeout, readerVars

\* A task that never ran is cancelled.
LEMMA NeverRanKeeps ==
    ASSUME WorkerShare, Undisturbed, pc' = "done", cause' = "shutdown",
           UNCHANGED <<run, saves, held, stage, sends, reply>>
    PROVE  WorkerShare'
  <1>1. WorkerTypes'
    BY DEF WorkerShare, WorkerTypes, Awaits, Causes
  <1>2. WorkerInv'
    BY DEF WorkerInv, AtWork, AwaitsSave
  <1>3. SavesInv'
    BY PendingKept DEF SavesInv, WorkerShare
  <1>4. QED
    BY <1>1, <1>2, <1>3 DEF WorkerShare

\* The application shuts down.
LEMMA ShutdownKeeps == IInv /\ Shutdown => IInv'
  <1> SUFFICES ASSUME IInv, Shutdown PROVE IInv'
    OBVIOUS
  <1> USE WorkerFacts, EffectsOnlyAdd
  <1>1. Undisturbed
    BY DEF Shutdown, Undisturbed
  <1>2. PICK pending \in Abandoned :
        \/ pc' = "done" /\ cause' = "shutdown"
              /\ UNCHANGED <<run, saves, held, stage, sends, reply>>
        \/ InTry /\ Send(run, "final", "shutdown", pending)
        \/ Finish(run, "shutdown", pending)
    BY DEF Shutdown
  <1>3. WorkerShare'
    <2>1. CASE pc' = "done" /\ cause' = "shutdown"
              /\ UNCHANGED <<run, saves, held, stage, sends, reply>>
      BY <1>1, <2>1, NeverRanKeeps
    <2>2. CASE InTry /\ Send(run, "final", "shutdown", pending)
      BY <1>1, <2>2, InTrySendable, SendKeeps DEF Stages, Causes
    <2>3. CASE Finish(run, "shutdown", pending)
      BY <1>1, <2>3, FinishKeeps DEF Causes
    <2>4. QED
      BY <1>2, <2>1, <2>2, <2>3
  <1>4. QED
    BY <1>1, <1>3, WorkerStepKeeps DEF Shutdown, readerVars

\* The process dies.
LEMMA CrashKeeps == IInv /\ Crash => IInv'
  <1> SUFFICES ASSUME IInv, Crash PROVE IInv'
    OBVIOUS
  <1> USE WorkerFacts, EffectsOnlyAdd
  <1>1. Undisturbed
    BY DEF Crash, Undisturbed
  <1>2. saves' \in SUBSET saves
    BY DEF Crash
  <1>3. WorkerTypes'
    BY <1>2 DEF Crash, WorkerShare, WorkerTypes, Awaits, Replies
  <1>4. WorkerInv'
    BY DEF Crash, WorkerInv, AtWork, AwaitsSave
  <1>5. SavesInv'
    BY <1>1, <1>2, PendingKept DEF SavesInv, WorkerShare
  <1>6. QED
    BY <1>1, <1>3, <1>4, <1>5, WorkerStepKeeps
       DEF Crash, WorkerShare, readerVars

-----------------------------------------------------------------------------
(* Redis and the readers *)

\* A stored snapshot that is not terminal has been reported to nobody.
LEMMA ActiveUnreported ==
    ASSUME IInv, snapshot # NoSnapshot, ~Terminal(snapshot)
    PROVE  reported = {}
  BY DEF IInv, ReaderInv, OneOutcome

\* What the save script stores, if it stores the candidate of a request.
LEMMA SavedFacts ==
    ASSUME IInv, NEW q \in saves, SaveVerdict(snapshot, q) = "saved"
    PROVE  /\ snapshot # NoSnapshot /\ ~Terminal(snapshot)
           /\ snapshot.revision = q.expected
           /\ MayReplace(snapshot, q.candidate)
           /\ q.candidate \in Snapshot /\ q.candidate.revision = q.expected + 1
           /\ Sendable(q.candidate, request.save_selected, stored)
  <1>1. /\ snapshot # NoSnapshot /\ ~Terminal(snapshot)
        /\ snapshot.revision = q.expected
        /\ MayReplace(snapshot, q.candidate)
    BY DEF SaveVerdict
  <1>2. q \in SaveRequest
    BY DEF IInv, TypeOK
  <1>3. QED
    BY <1>1, <1>2 DEF IInv, SavesInv, SaveRequest

\* The verdicts of the save script on a snapshot that is there.
LEMMA VerdictType ==
    ASSUME NEW s, NEW q
    PROVE  /\ s # NoSnapshot => SaveVerdict(s, q) \in Verdicts
           /\ s = NoSnapshot => SaveVerdict(s, q) = "expired"
  BY DEF SaveVerdict, Verdicts

\* Redis runs the save script.
LEMMA SaveExecutesKeeps ==
    ASSUME NEW q \in saves
    PROVE  IInv /\ SaveExecutes(q) => IInv'
  <1> SUFFICES ASSUME IInv, SaveExecutes(q) PROVE IInv'
    OBVIOUS
  <1> DEFINE verdict == SaveVerdict(snapshot, q)
  <1>1. snapshot' = IF verdict = "saved" THEN q.candidate ELSE snapshot
    BY DEF SaveExecutes
  <1>2. UNCHANGED <<overdue, request, run, held, pc, stage, cause, sends,
                    answer, effectVars, readerVars>>
    BY DEF SaveExecutes
  <1>3. saves' \in SUBSET saves
    BY DEF SaveExecutes
  <1>4. snapshot' \in Snapshot \cup {NoSnapshot}
    BY <1>1, SavedFacts DEF IInv, TypeOK
  <1>5. reply' \in Replies
    <2>1. CASE reply' = [verdict |-> verdict, current |-> snapshot']
      <3>1. CASE snapshot = NoSnapshot
        BY <1>1, <2>1, <3>1, VerdictType DEF Replies, Expired
      <3>2. CASE snapshot # NoSnapshot
        <4>1. snapshot' \in Snapshot /\ verdict \in Verdicts
          BY <1>1, <3>2, SavedFacts, VerdictType DEF IInv, TypeOK
        <4>2. QED
          BY <2>1, <4>1 DEF Replies
      <3>3. QED
        BY <3>1, <3>2
    <2>2. CASE reply' = reply
      BY <2>2 DEF IInv, TypeOK
    <2>3. QED
      BY <2>1, <2>2 DEF SaveExecutes
  <1> HIDE DEF verdict
  <1>6. TypeOK'
    BY <1>2, <1>3, <1>4, <1>5 DEF IInv, TypeOK, effectVars, readerVars
  <1>7. WorkerInv'
    BY <1>2 DEF IInv, WorkerInv, AtWork, AwaitsSave, effectVars
  <1>8. SavesInv'
    BY <1>2, <1>3 DEF IInv, SavesInv, effectVars
  <1>9. SnapshotInv'
    BY <1>1, <1>2, SavedFacts
       DEF IInv, SnapshotInv, Sendable, effectVars, verdict
  <1>10. ReaderInv'
    <2>1. CASE verdict = "saved"
      <3>1. reported = {} /\ reported' = {} /\ poll' = poll
        BY <1>2, <2>1, SavedFacts, ActiveUnreported DEF readerVars, verdict
      <3>2. QED
        BY <3>1 DEF IInv, ReaderInv, OneOutcome
    <2>2. CASE verdict # "saved"
      BY <1>1, <1>2, <2>2 DEF IInv, ReaderInv, OneOutcome, readerVars
    <2>3. QED
      BY <2>1, <2>2
  <1>11. QED
    BY <1>6, <1>7, <1>8, <1>9, <1>10 DEF IInv

\* The key expires, or the run comes of age.
LEMMA TimeKeeps == IInv /\ (Expire \/ Age) => IInv'
  <1> SUFFICES ASSUME IInv, Expire \/ Age PROVE IInv'
    OBVIOUS
  <1>1. /\ snapshot' \in {snapshot, NoSnapshot} /\ overdue' \in BOOLEAN
        /\ UNCHANGED <<saves, workerVars, effectVars, readerVars>>
    BY DEF Expire, Age, IInv, TypeOK
  <1>2. TypeOK'
    BY <1>1 DEF IInv, TypeOK, workerVars, effectVars, readerVars
  <1>3. WorkerInv' /\ SavesInv'
    BY <1>1 DEF IInv, WorkerInv, SavesInv, AtWork, AwaitsSave, workerVars,
                effectVars
  <1>4. SnapshotInv' /\ ReaderInv'
    BY <1>1 DEF IInv, SnapshotInv, ReaderInv, OneOutcome, workerVars,
                effectVars, readerVars
  <1>5. QED
    BY <1>2, <1>3, <1>4 DEF IInv

\* What a reader's step leaves alone.
LEMMA ReaderStepKeeps ==
    ASSUME IInv, UNCHANGED <<saves, overdue, workerVars, effectVars>>,
           snapshot' \in Snapshot \cup {NoSnapshot},
           poll' \in [Pollers -> Snapshot \cup {NoSnapshot}],
           reported' \in SUBSET Snapshot,
           SnapshotInv', ReaderInv'
    PROVE  IInv'
  <1>1. TypeOK'
    BY DEF IInv, TypeOK, workerVars, effectVars
  <1>2. WorkerInv' /\ SavesInv'
    BY DEF IInv, WorkerInv, SavesInv, AtWork, AwaitsSave, workerVars,
                effectVars
  <1>3. QED
    BY <1>1, <1>2 DEF IInv

\* A reader sees the outcome.
LEMMA ReadTerminalKeeps ==
    ASSUME NEW p \in Pollers
    PROVE  IInv /\ ReadTerminal(p) => IInv'
  <1> SUFFICES ASSUME IInv, ReadTerminal(p) PROVE IInv'
    OBVIOUS
  <1>1. /\ snapshot' = snapshot /\ poll' = poll
        /\ reported' = reported \cup {snapshot}
        /\ snapshot \in Snapshot /\ Terminal(snapshot)
        /\ UNCHANGED <<saves, overdue, workerVars, effectVars>>
    BY DEF ReadTerminal, storeVars, IInv, TypeOK
  <1>2. poll' \in [Pollers -> Snapshot \cup {NoSnapshot}]
            /\ reported' \in SUBSET Snapshot
    BY <1>1 DEF IInv, TypeOK
  <1>3. SnapshotInv'
    BY <1>1 DEF IInv, SnapshotInv, workerVars, effectVars
  <1>4. ReaderInv'
    BY <1>1, NoSnapshotIsNone DEF IInv, ReaderInv, OneOutcome
  <1>5. QED
    BY <1>1, <1>2, <1>3, <1>4, ReaderStepKeeps

\* A reader sees an overdue run.
LEMMA ReadOverdueKeeps ==
    ASSUME NEW p \in Pollers
    PROVE  IInv /\ ReadOverdue(p) => IInv'
  <1> SUFFICES ASSUME IInv, ReadOverdue(p) PROVE IInv'
    OBVIOUS
  <1>1. /\ snapshot' = snapshot /\ reported' = reported
        /\ poll' = [poll EXCEPT ![p] = snapshot]
        /\ snapshot \in Snapshot /\ Active(snapshot) /\ Coherent(snapshot)
        /\ UNCHANGED <<saves, overdue, workerVars, effectVars>>
    BY DEF ReadOverdue, storeVars, IInv, TypeOK, SnapshotInv
  <1>2. /\ poll \in [Pollers -> Snapshot \cup {NoSnapshot}]
        /\ reported' \in SUBSET Snapshot
    BY <1>1 DEF IInv, TypeOK
  <1>3. SnapshotInv'
    BY <1>1 DEF IInv, SnapshotInv, workerVars, effectVars
  <1>4. ReaderInv'
    BY <1>1, <1>2 DEF IInv, ReaderInv, OneOutcome
  <1>5. QED
    BY <1>1, <1>2, <1>3, <1>4, ReaderStepKeeps

\* An interrupted run is coherent.
LEMMA InterruptedCoherent ==
    ASSUME NEW s \in Snapshot, Active(s), Coherent(s)
    PROVE  /\ Coherent(Interrupted(s)) /\ Terminal(Interrupted(s))
           /\ ~Ended(Interrupted(s))
  <1> DEFINE f == Interrupted(s)
  <1>1. f.status = "failed" /\ f.events = Append(s.events, "run.failed")
    BY InterruptedFields
  <1>2. s.events \in Seq(EventNames) /\ Silent(s.events, Len(s.events))
    BY DEF Snapshot, Coherent
  <1>3. /\ Len(f.events) = Len(s.events) + 1
        /\ Len(s.events) \in Nat
        /\ f.events[Len(f.events)] = "run.failed"
        /\ \A i \in 1..Len(s.events) : f.events[i] = s.events[i]
    BY <1>1, <1>2, Members
  <1> HIDE DEF f
  <1>4. Silent(f.events, Len(f.events) - 1)
    BY <1>2, <1>3 DEF Silent
  <1>5. QED
    BY <1>1, <1>3, <1>4 DEF f, Coherent, Ended, Active, Terminal, TerminalStatuses

\* The interruption script compares and writes.
LEMMA InterruptKeeps ==
    ASSUME NEW p \in Pollers
    PROVE  IInv /\ Interrupt(p) => IInv'
  <1> SUFFICES ASSUME IInv, Interrupt(p) PROVE IInv'
    OBVIOUS
  <1> DEFINE winner == InterruptResult(snapshot, poll[p])
             known == {s \in {winner} : s # NoSnapshot /\ Terminal(s)}
  <1>1. /\ poll \in [Pollers -> Snapshot \cup {NoSnapshot}]
        /\ snapshot \in Snapshot \cup {NoSnapshot}
        /\ reported \in SUBSET Snapshot
    BY DEF IInv, TypeOK
  <1>2. poll[p] \in Snapshot /\ Active(poll[p]) /\ Coherent(poll[p])
    BY <1>1 DEF Interrupt, IInv, ReaderInv
  <1>3. UNCHANGED <<saves, overdue, workerVars, effectVars>>
    BY DEF Interrupt
  <1>4. snapshot' = winner
    BY DEF Interrupt
  <1>5. poll' \in [Pollers -> Snapshot \cup {NoSnapshot}]
            /\ \A x \in Pollers : poll'[x] \in {poll[x], NoSnapshot}
    BY <1>1 DEF Interrupt
  <1>6. reported' \in {reported, reported \cup known}
    BY DEF Interrupt
  <1>7. CASE snapshot = poll[p]
    <2>1. winner = Interrupted(poll[p])
      BY <1>7 DEF InterruptResult
    <2>2. winner \in Snapshot /\ Coherent(winner) /\ Terminal(winner)
              /\ ~Ended(winner)
      BY <1>2, <2>1, InterruptedFields, InterruptedCoherent
    <2>3. reported = {}
      BY <1>2, <1>7, NoSnapshotIsNone, ActiveUnreported
         DEF Active, Terminal, TerminalStatuses
    <2> HIDE DEF winner
    <2>4. reported' \in SUBSET {winner}
      BY <1>6, <2>3
    <2>5. SnapshotInv'
      BY <1>4, <2>2 DEF SnapshotInv, Committed
    <2>6. ReaderInv'
      BY <1>4, <1>5, <2>2, <2>4 DEF IInv, ReaderInv, OneOutcome
    <2>7. QED
      BY <1>3, <1>4, <1>5, <2>2, <2>4, <2>5, <2>6, ReaderStepKeeps
  <1>8. CASE snapshot # poll[p]
    <2>1. winner = snapshot
      BY <1>8 DEF InterruptResult
    <2> HIDE DEF winner
    <2>2. /\ reported' \in SUBSET Snapshot
          /\ \A s \in reported' :
                \/ s \in reported
                \/ (s = snapshot /\ snapshot # NoSnapshot /\ Terminal(snapshot))
      BY <1>1, <1>6, <2>1
    <2>3. SnapshotInv'
      BY <1>3, <1>4, <2>1 DEF IInv, SnapshotInv, workerVars, effectVars
    <2>4. ReaderInv'
      BY <1>4, <1>5, <2>1, <2>2 DEF IInv, ReaderInv, OneOutcome
    <2>5. QED
      BY <1>1, <1>3, <1>4, <1>5, <2>1, <2>2, <2>3, <2>4, ReaderStepKeeps
  <1>9. QED
    BY <1>7, <1>8

-----------------------------------------------------------------------------
(* The theorems *)

\* The invariant holds when the task is created.
LEMMA InitIInv == Init => IInv
  <1> SUFFICES ASSUME Init PROVE IInv
    OBVIOUS
  <1>1. TypeOK
    BY ReservedType
       DEF Init, TypeOK, Awaits, Stages, Causes, Replies, Results
  <1>2. Coherent(Reserved) /\ ~Ended(Reserved)
    BY DEF Coherent, Silent, Ended, Reserved, Active, Terminal, TerminalStatuses
  <1>3. WorkerInv /\ SavesInv
    BY DEF Init, WorkerInv, SavesInv, AtWork, AwaitsSave
  <1>4. SnapshotInv /\ ReaderInv
    BY <1>2 DEF Init, SnapshotInv, ReaderInv, OneOutcome, Committed
  <1>5. QED
    BY <1>1, <1>3, <1>4 DEF IInv

\* Every step of the worker, of Redis and of the readers preserves it.
LEMMA NextIInv == IInv /\ [Next]_vars => IInv'
  <1> SUFFICES ASSUME IInv, [Next]_vars PROVE IInv'
    OBVIOUS
  <1>1. CASE Worker
    BY <1>1, StartKeeps, ContextReadKeeps, StepReportedKeeps,
       AnalysisFailsKeeps, AnalysisAnswersKeeps, ConversationStoredKeeps,
       ConversationFailsKeeps, GuestRememberedKeeps, GuestSaveFailsKeeps,
       SaveReturnsKeeps, SaveConflictsKeeps, SaveFailsKeeps, TimeoutKeeps,
       ShutdownKeeps, CrashKeeps DEF Worker
  <1>2. CASE Store
    BY <1>2, TimeKeeps, SaveExecutesKeeps DEF Store
  <1>3. CASE Reader
    BY <1>3, ReadTerminalKeeps, ReadOverdueKeeps, InterruptKeeps DEF Reader
  <1>4. CASE UNCHANGED vars
    BY <1>4 DEF vars, storeVars, workerVars, effectVars, readerVars, IInv,
                TypeOK, WorkerInv, SavesInv, SnapshotInv, ReaderInv,
                OneOutcome, AtWork, AwaitsSave
  <1>5. QED
    BY <1>1, <1>2, <1>3, <1>4 DEF Next

\* Whatever the order of late saves, interruptions, timeouts, crashes and
\* expiry, the snapshots of a run stay coherent, wherever they are.
THEOREM Invariance == Spec => []IInv
  BY InitIInv, NextIInv, PTL DEF Spec

\* Every variable keeps its type: no handler leaves the run contract's
\* statuses, events and errors.
THEOREM TypeCorrect == Spec => []TypeOK
  <1>1. IInv => TypeOK
    BY DEF IInv
  <1>2. QED
    BY <1>1, Invariance, PTL

\* No two readers are ever told different outcomes of a run, and what they
\* were told stays stored until it expires.
THEOREM OutcomeIsUnique == Spec => []OneOutcome
  <1>1. IInv => OneOutcome
    BY DEF IInv, ReaderInv
  <1>2. QED
    BY <1>1, Invariance, PTL

\* A run that was to be saved never shows a result before the member's
\* conversation is committed.
THEOREM ResultIsSavedFirst == Spec => []SavedBeforeCompleted
  <1>1. IInv => SavedBeforeCompleted
    BY DEF IInv, SnapshotInv, SavedBeforeCompleted, Committed, Ended
  <1>2. QED
    BY <1>1, Invariance, PTL

-----------------------------------------------------------------------------
(* The run implements the abstract lifecycle *)

\* The two modules name the same events.
LEMMA SilentAgrees ==
    ASSUME NEW events, NEW n
    PROVE  Lifecycle!SilentUpTo(events, n) <=> Silent(events, n)
  BY DEF Lifecycle!SilentUpTo, Lifecycle!Outcomes, Silent, TerminalEvents

\* The initial state of the run is one of the lifecycle's.
LEMMA InitRefines == Init => Lifecycle!Init
  <1> SUFFICES ASSUME Init PROVE Lifecycle!Init
    OBVIOUS
  <1>1. snapshot = Reserved /\ snapshot # NoSnapshot
    BY ReservedType, NoSnapshotIsNone DEF Init
  <1>2. QED
    BY <1>1 DEF Lifecycle!Init, Reserved

\* A step that leaves the stored snapshot alone is a stutter.
LEMMA SameSnapshot == snapshot' = snapshot => UNCHANGED Lifecycle!vars
  BY DEF Lifecycle!vars

\* A coherent successor of the stored snapshot is a step of the lifecycle.
LEMMA SuccessorRefines ==
    ASSUME snapshot \in Snapshot, snapshot' \in Snapshot,
           snapshot'.revision = snapshot.revision + 1,
           IsPrefix(snapshot.events, snapshot'.events),
           <<snapshot.status, snapshot'.status>> \in AllowedTransitions
               \/ (Active(snapshot) /\ snapshot'.status = "failed"),
           snapshot'.status # "queued", Coherent(snapshot')
    PROVE  Lifecycle!Next
  <1>1. snapshot # NoSnapshot /\ snapshot' # NoSnapshot
    BY NoSnapshotIsNone
  <1>2. Lifecycle!Grow
    BY <1>1 DEF Lifecycle!Grow, Lifecycle!IsPrefix, IsPrefix
  <1>3. CASE snapshot'.status = "running"
    <2>1. snapshot.status \in {"queued", "running"}
      BY <1>3 DEF AllowedTransitions
    <2>2. Silent(snapshot'.events, Len(snapshot'.events))
      BY <1>3 DEF Coherent, Active
    <2>3. Lifecycle!Work
      BY <1>1, <1>2, <1>3, <2>1, <2>2, SilentAgrees DEF Lifecycle!Work
    <2>4. QED
      BY <2>3 DEF Lifecycle!Next
  <1>4. CASE snapshot'.status \in {"completed", "stopped"}
    <2>1. snapshot.status = "running"
      BY <1>4 DEF AllowedTransitions
    <2>2. /\ Len(snapshot'.events) > 0
          /\ Silent(snapshot'.events, Len(snapshot'.events) - 1)
          /\ snapshot'.events[Len(snapshot'.events)] # "run.failed"
      BY <1>4 DEF Coherent, Terminal, TerminalStatuses
    <2>3. Lifecycle!Finish
      BY <1>1, <1>2, <1>4, <2>1, <2>2, SilentAgrees DEF Lifecycle!Finish
    <2>4. QED
      BY <2>3 DEF Lifecycle!Next
  <1>5. CASE snapshot'.status = "failed"
    <2>1. snapshot.status \in {"queued", "running"}
      BY <1>5 DEF AllowedTransitions, Active
    <2>2. /\ Len(snapshot'.events) > 0
          /\ Silent(snapshot'.events, Len(snapshot'.events) - 1)
          /\ snapshot'.events[Len(snapshot'.events)] = "run.failed"
      BY <1>5 DEF Coherent, Terminal, TerminalStatuses
    <2>3. Lifecycle!Fail
      BY <1>1, <1>2, <1>5, <2>1, <2>2, SilentAgrees DEF Lifecycle!Fail
    <2>4. QED
      BY <2>3 DEF Lifecycle!Next
  <1>6. QED
    BY <1>3, <1>4, <1>5 DEF Snapshot, Statuses, TerminalStatuses

\* The save script makes a step of the lifecycle, or none.
LEMMA SaveRefines ==
    ASSUME NEW q \in saves, IInv, SaveExecutes(q)
    PROVE  Lifecycle!Next \/ UNCHANGED Lifecycle!vars
  <1>1. CASE SaveVerdict(snapshot, q) = "saved"
    <2>1. snapshot' = q.candidate
      BY <1>1 DEF SaveExecutes
    <2>2. snapshot \in Snapshot
      BY <1>1, SavedFacts DEF IInv, TypeOK
    <2>3. QED
      BY <1>1, <2>1, <2>2, SavedFacts, SuccessorRefines
         DEF MayReplace, Sendable
  <1>2. CASE SaveVerdict(snapshot, q) # "saved"
    BY <1>2, SameSnapshot DEF SaveExecutes
  <1>3. QED
    BY <1>1, <1>2

\* So does the interruption script.
LEMMA InterruptRefines ==
    ASSUME NEW p \in Pollers, IInv, Interrupt(p)
    PROVE  Lifecycle!Next \/ UNCHANGED Lifecycle!vars
  <1>1. CASE snapshot = poll[p]
    <2>1. /\ snapshot \in Snapshot /\ Active(snapshot) /\ Coherent(snapshot)
          /\ snapshot' = Interrupted(snapshot)
      BY <1>1 DEF Interrupt, InterruptResult, IInv, TypeOK, ReaderInv
    <2>2. /\ snapshot' \in Snapshot /\ snapshot'.status = "failed"
          /\ snapshot'.revision = snapshot.revision + 1
          /\ snapshot'.events = Append(snapshot.events, "run.failed")
          /\ Coherent(snapshot')
      BY <2>1, InterruptedFields, InterruptedCoherent
    <2>3. snapshot.events \in Seq(EventNames) /\ "run.failed" \in EventNames
      BY <2>1, Members DEF Snapshot
    <2>4. IsPrefix(snapshot.events, snapshot'.events)
      BY <2>2, <2>3, PrefixOfAppended
    <2>5. QED
      BY <2>1, <2>2, <2>4, SuccessorRefines
  <1>2. CASE snapshot # poll[p]
    BY <1>2, SameSnapshot DEF Interrupt, InterruptResult
  <1>3. QED
    BY <1>1, <1>2

\* And so does every other step.
LEMMA NextRefines ==
    IInv /\ [Next]_vars => [Lifecycle!Next]_(Lifecycle!vars)
  <1> SUFFICES ASSUME IInv, [Next]_vars
               PROVE  Lifecycle!Next \/ UNCHANGED Lifecycle!vars
    OBVIOUS
  <1>1. CASE Worker \/ Age \/ UNCHANGED vars
    <2>1. snapshot' = snapshot
      BY <1>1 DEF Worker, Start, ContextRead, StepReported, AnalysisFails,
                  AnalysisAnswers, ConversationStored, ConversationFails,
                  GuestRemembered, GuestSaveFails, SaveReturns,
                  SaveConflicts, SaveFails, Timeout, Shutdown, Crash, Age,
                  vars, storeVars
    <2>2. QED
      BY <2>1, SameSnapshot
  <1>2. CASE Expire
    BY <1>2, NoSnapshotIsNone
       DEF Expire, IInv, TypeOK, Snapshot, Statuses, TerminalStatuses,
           Lifecycle!Next, Lifecycle!Expire
  <1>3. CASE \E q \in saves : SaveExecutes(q)
    BY <1>3, SaveRefines
  <1>4. CASE Reader
    <2>1. PICK p \in Pollers : ReadTerminal(p) \/ ReadOverdue(p) \/ Interrupt(p)
      BY <1>4 DEF Reader
    <2>2. CASE ReadTerminal(p) \/ ReadOverdue(p)
      BY <2>2, SameSnapshot DEF ReadTerminal, ReadOverdue, storeVars
    <2>3. CASE Interrupt(p)
      BY <2>3, InterruptRefines
    <2>4. QED
      BY <2>1, <2>2, <2>3
  <1>5. QED
    BY <1>1, <1>2, <1>3, <1>4 DEF Next, Store

\* The run keeps the promises of RunLifecycle to everyone who reads it:
\* with saves delayed, resent or lost, readers interrupting and the key
\* expiring, the stored snapshot only makes the steps of the contract.
THEOREM RunImplementsLifecycle == Spec => RefinesLifecycle
  BY Invariance, InitRefines, NextRefines, PTL
     DEF Spec, RefinesLifecycle, Lifecycle!Spec

-----------------------------------------------------------------------------
(* The course of a run: the store turns down a save only because it is     *)
(* stale, and a finished task forgets its run.  Both need to know that the *)
(* worker's run, and every request on its way, continues the stored        *)
(* snapshot whenever it is based on its revision.                          *)

\* The save script would accept `new' if the revision matched.
Continues(old, new) ==
    IF Terminal(old) THEN [new EXCEPT !.revision = old.revision] = old
    ELSE MayReplace(old, new)

\* A snapshot based on the revision given is stale or continues the stored one.
Follows(revision, new) ==
    snapshot # NoSnapshot =>
        /\ revision <= snapshot.revision
        /\ revision = snapshot.revision => Continues(snapshot, new)

\* The run is stored as running, if its revision is the stored one.
Started(r) ==
    snapshot # NoSnapshot /\ snapshot.revision = r.revision
        => snapshot.status = "running"

CourseInv ==
    /\ pc # "done" => Follows(run.revision, run)
    /\ InTry => Started(run)
    /\ pc = "storing" => answer # "none"

\* The request the worker waits for carries its run.
FlightInv ==
    \A q \in saves :
        /\ q.id <= sends
        /\ Follows(q.expected, q.candidate)
        /\ q.id = sends /\ pc = "saving" =>
              q.candidate = [run EXCEPT !.revision = @ + 1]

\* An accepted save stored the worker's run.
ReplyInv ==
    pc = "saving" /\ Accepted(reply.verdict) =>
        /\ reply.current = [run EXCEPT !.revision = reply.current.revision]
        /\ snapshot # NoSnapshot =>
              /\ reply.current.revision <= snapshot.revision
              /\ reply.current.revision = snapshot.revision
                    => reply.current = snapshot

\* A task that is about to end has a terminal run, or was told to stop.
EndInv ==
    /\ AwaitsSave({"final"}) => cause \in {"timeout", "shutdown"} \/ Terminal(run)
    /\ AwaitsSave({"last"}) => Terminal(run)
    /\ FinishedRunForgotten

ProgressInv == CourseInv /\ FlightInv /\ ReplyInv /\ EndInv

-----------------------------------------------------------------------------
(* What continues a snapshot *)

\* A log that grows keeps its prefixes.
LEMMA PrefixGrows ==
    ASSUME NEW S, NEW log \in Seq(S), NEW longer \in Seq(S), NEW event \in S,
           IsPrefix(log, longer)
    PROVE  IsPrefix(log, Append(longer, event))
  BY DEF IsPrefix

\* A snapshot continues itself.
LEMMA SelfContinues == \A r \in Snapshot : Continues(r, r)
  <1> SUFFICES ASSUME NEW r \in Snapshot PROVE Continues(r, r)
    OBVIOUS
  <1>1. CASE Terminal(r)
    BY <1>1 DEF Continues, Snapshot
  <1>2. CASE ~Terminal(r)
    <2>1. r.status \in {"queued", "running"} /\ r.events \in Seq(EventNames)
      BY <1>2 DEF Snapshot, Terminal, Statuses, TerminalStatuses
    <2>2. IsPrefix(r.events, r.events)
      BY <2>1 DEF IsPrefix
    <2>3. MayReplace(r, r)
      BY <2>1, <2>2 DEF MayReplace, AllowedTransitions, CarriesOutcome
    <2>4. QED
      BY <1>2, <2>3 DEF Continues
  <1>3. QED
    BY <1>1, <1>2

\* The revision of the new snapshot plays no part.
LEMMA RevisionFree ==
    ASSUME NEW s \in Snapshot, NEW r \in Snapshot, NEW n \in Nat, Continues(s, r)
    PROVE  Continues(s, [r EXCEPT !.revision = n])
  <1>1. CASE Terminal(s)
    BY <1>1 DEF Continues, Snapshot
  <1>2. CASE ~Terminal(s)
    <2> DEFINE v == [r EXCEPT !.revision = n]
    <2>1. v.status = r.status /\ v.events = r.events /\ v.result = r.result
              /\ v.error = r.error
      BY DEF Snapshot
    <2> HIDE DEF v
    <2>2. MayReplace(s, v)
      BY <1>2, <2>1 DEF Continues, MayReplace, CarriesOutcome
    <2>3. QED
      BY <1>2, <2>2 DEF Continues, v
  <1>3. QED
    BY <1>1, <1>2

\* An active snapshot continues active ones only.
LEMMA ActiveContinues ==
    ASSUME NEW s \in Snapshot, NEW r \in Snapshot, Active(r), Continues(s, r)
    PROVE  Active(s) /\ MayReplace(s, r)
  <1>1. ~Terminal(s)
    <2>1. SUFFICES ASSUME Terminal(s) PROVE FALSE
      OBVIOUS
    <2>2. [r EXCEPT !.revision = s.revision].status = r.status
      BY DEF Snapshot
    <2>3. s.status = r.status
      BY <2>1, <2>2 DEF Continues
    <2>4. QED
      BY <2>1, <2>3 DEF Active, Terminal, TerminalStatuses
  <1>2. QED
    BY <1>1 DEF Continues, Active, Terminal, Snapshot, Statuses, TerminalStatuses

\* One event more may still replace.
LEMMA GrownMayReplace ==
    ASSUME NEW s \in Snapshot, NEW r \in Snapshot, NEW event \in EventNames,
           MayReplace(s, r)
    PROVE  MayReplace(s, Appended(r, event))
  <1>1. IsPrefix(s.events, Append(r.events, event))
    BY PrefixGrows DEF MayReplace, Snapshot
  <1>2. QED
    BY <1>1, AppendedFields DEF MayReplace, CarriesOutcome

\* Whatever a failure handler makes of an active run continues what it did.
LEMMA FailedContinues ==
    ASSUME NEW s \in Snapshot, NEW r \in Snapshot, NEW code \in Errors \ {"none"},
           Active(r), Continues(s, r)
    PROVE  Continues(s, Failed(r, code))
  <1> DEFINE f == Failed(r, code)
  <1>1. Active(s) /\ MayReplace(s, r)
    BY ActiveContinues
  <1>2. f.status = "failed" /\ f.error = code
            /\ f.events = Append(r.events, "run.failed")
    BY FailedFields
  <1>3. IsPrefix(s.events, f.events)
    BY <1>1, <1>2, PrefixGrows, Members DEF MayReplace, Snapshot
  <1> HIDE DEF f
  <1>4. MayReplace(s, f)
    BY <1>1, <1>2, <1>3 DEF MayReplace, Active, AllowedTransitions, CarriesOutcome
  <1>5. QED
    BY <1>1, <1>4 DEF f, Continues, Active, Terminal, TerminalStatuses

-----------------------------------------------------------------------------
(* The steps the worker's handlers are made of.  The stored snapshot stays. *)

\* One request more for what follows the stored snapshot.
LEMMA FlightGrows ==
    ASSUME IInv, ProgressInv, snapshot' = snapshot,
           NEW r \in Snapshot, Follows(r.revision, r),
           NEW pending \in SUBSET saves,
           saves' = pending \cup {SaveOf(r)}, sends' = sends + 1,
           pc' = "saving" => run' = r
    PROVE  FlightInv'
  <1> DEFINE c == [r EXCEPT !.revision = @ + 1]
             q == SaveOf(r)
  <1>1. /\ snapshot \in Snapshot \cup {NoSnapshot} /\ sends \in Nat
        /\ r.revision \in Nat /\ r.revision + 1 \in Nat
    BY DEF IInv, TypeOK, Snapshot
  <1>2. saves' = pending \cup {q}
    OBVIOUS
  <1>3. Follows(r.revision, c)
    BY <1>1, RevisionFree DEF Follows
  <1>4. \A p \in saves : p.id \in Nat
    BY DEF IInv, TypeOK, SaveRequest
  <1>5. q.id = sends + 1 /\ q.expected = r.revision /\ q.candidate = c
    BY DEF SaveOf
  <1> HIDE DEF q
  <1> SUFFICES ASSUME NEW p \in saves'
               PROVE  /\ p.id <= sends + 1
                      /\ Follows(p.expected, p.candidate)
                      /\ p.id = sends + 1 => p.candidate = c
    BY DEF FlightInv, Follows, c
  <1>6. CASE p = q
    BY <1>1, <1>3, <1>5, <1>6
  <1>7. CASE p # q
    <2>1. p \in saves /\ p.id <= sends /\ p.id \in Nat
              /\ Follows(p.expected, p.candidate)
      BY <1>2, <1>4, <1>7 DEF ProgressInv, FlightInv
    <2>2. QED
      BY <1>1, <2>1
  <1>8. QED
    BY <1>6, <1>7

\* Sending what follows the stored snapshot.
LEMMA SendProgress ==
    ASSUME IInv, ProgressInv, snapshot' = snapshot,
           NEW r \in Snapshot, Follows(r.revision, r),
           NEW purpose, NEW exception, NEW pending \in SUBSET saves,
           purpose \in {"step", "validated"} => Started(r),
           purpose = "final" => exception \in {"timeout", "shutdown"} \/ Terminal(r),
           purpose = "last" => Terminal(r),
           Send(r, purpose, exception, pending)
    PROVE  ProgressInv'
  <1>1. run' = r /\ saves' = pending \cup {SaveOf(r)} /\ sends' = sends + 1
            /\ reply' = NoReply /\ pc' = "saving" /\ stage' = purpose
            /\ cause' = exception
    BY DEF Send
  <1>2. CourseInv'
    BY <1>1 DEF CourseInv, InTry, Follows, Started
  <1>3. FlightInv'
    BY <1>1, FlightGrows
  <1>4. ReplyInv'
    BY <1>1 DEF ReplyInv, Accepted, NoReply
  <1>5. EndInv'
    BY <1>1 DEF EndInv, AwaitsSave, FinishedRunForgotten, Terminal
  <1>6. QED
    BY <1>2, <1>3, <1>4, <1>5 DEF ProgressInv

\* Whatever is on its way follows the stored snapshot still.
LEMMA FlightKept ==
    ASSUME ProgressInv, snapshot' = snapshot, NEW pending \in SUBSET saves,
           saves' = pending, sends' = sends, pc' # "saving"
    PROVE  FlightInv'
  BY DEF ProgressInv, FlightInv, Follows

\* The task ends with a terminal run, or because the application does.
LEMMA FinishProgress ==
    ASSUME ProgressInv, snapshot' = snapshot,
           NEW r, NEW exception, NEW pending \in SUBSET saves,
           exception = "shutdown" \/ Terminal(r), Finish(r, exception, pending)
    PROVE  ProgressInv'
  <1>1. CourseInv'
    BY DEF CourseInv, InTry, Finish
  <1>2. FlightInv'
    BY FlightKept DEF Finish
  <1>3. ReplyInv' /\ EndInv'
    BY DEF ReplyInv, EndInv, AwaitsSave, FinishedRunForgotten, Finish
  <1>4. QED
    BY <1>1, <1>2, <1>3 DEF ProgressInv

\* The task goes on.
LEMMA ResumeProgress ==
    ASSUME ProgressInv, snapshot' = snapshot,
           NEW r, Follows(r.revision, r), Started(r),
           NEW await \in {"context", "analysis", "storing", "guest"},
           await = "storing" => answer' # "none", Resume(r, await)
    PROVE  ProgressInv'
  <1>1. CourseInv'
    BY DEF CourseInv, InTry, Follows, Started, Resume
  <1>2. FlightInv'
    BY FlightKept DEF Resume
  <1>3. ReplyInv' /\ EndInv'
    BY DEF ReplyInv, EndInv, AwaitsSave, FinishedRunForgotten, Resume
  <1>4. QED
    BY <1>1, <1>2, <1>3 DEF ProgressInv

\* The task adopts the stored snapshot, forgets the run and ends.
LEMMA AdoptProgress ==
    ASSUME IInv, ProgressInv, snapshot' = snapshot,
           NEW r \in Snapshot, NEW current, Adopt(r, current),
           \/ UNCHANGED <<saves, sends>>
           \/ /\ Follows(r.revision, r)
              /\ saves' = saves \cup {SaveOf(r)} /\ sends' = sends + 1
    PROVE  ProgressInv'
  <1>1. CourseInv'
    BY DEF CourseInv, InTry, Adopt
  <1>2. pc' = "done"
    BY DEF Adopt
  <1>3. FlightInv'
    <2>1. CASE UNCHANGED <<saves, sends>>
      BY <1>2, <2>1, FlightKept
    <2>2. CASE /\ Follows(r.revision, r)
               /\ saves' = saves \cup {SaveOf(r)} /\ sends' = sends + 1
      BY <1>2, <2>2, FlightGrows
    <2>3. QED
      BY <2>1, <2>2
  <1>4. ReplyInv' /\ EndInv'
    BY DEF ReplyInv, EndInv, AwaitsSave, FinishedRunForgotten, Adopt
  <1>5. QED
    BY <1>1, <1>3, <1>4 DEF ProgressInv

\* A failed run follows what the run followed.
LEMMA FailedFollows ==
    ASSUME IInv, NEW r \in Snapshot, NEW code \in Errors \ {"none"},
           Active(r), Follows(r.revision, r)
    PROVE  Follows(Failed(r, code).revision, Failed(r, code))
  <1>1. Failed(r, code).revision = r.revision
    BY FailedFields
  <1>2. snapshot \in Snapshot \cup {NoSnapshot}
    BY DEF IInv, TypeOK
  <1>3. QED
    BY <1>1, <1>2, FailedContinues DEF Follows

\* The inner handler.
LEMMA AnalysisFailedProgress ==
    ASSUME IInv, ProgressInv, snapshot' = snapshot,
           NEW r \in Snapshot, Active(r), Follows(r.revision, r),
           NEW pending \in SUBSET saves, AnalysisFailed(r, pending)
    PROVE  ProgressInv'
  <1> DEFINE f == Failed(r, "ANALYSIS_FAILED")
  <1>1. "ANALYSIS_FAILED" \in Errors \ {"none"}
    BY DEF Errors
  <1>2. f \in Snapshot /\ Terminal(f) /\ Follows(f.revision, f)
    BY <1>1, FailedType, FailedFields, FailedFollows DEF Terminal, TerminalStatuses
  <1>3. Send(f, "final", "none", pending)
    BY DEF AnalysisFailed
  <1> HIDE DEF f
  <1>4. QED
    BY <1>2, <1>3, SendProgress

\* The outer handler.
LEMMA HandleErrorProgress ==
    ASSUME IInv, ProgressInv, snapshot' = snapshot,
           NEW r \in Snapshot, Follows(r.revision, r),
           NEW code \in Errors \ {"none"},
           NEW pending \in SUBSET saves, HandleError(r, code, pending)
    PROVE  ProgressInv'
  <1> DEFINE s == IF Terminal(r) THEN r ELSE Failed(r, code)
  <1>1. Active(r) \/ Terminal(r)
    BY DEF Snapshot, Statuses, Active, Terminal
  <1>2. s \in Snapshot /\ Terminal(s) /\ Follows(s.revision, s)
    BY <1>1, FailedType, FailedFields, FailedFollows DEF Terminal, TerminalStatuses
  <1>3. Send(s, "last", "none", pending)
    BY DEF HandleError
  <1> HIDE DEF s
  <1>4. QED
    BY <1>2, <1>3, SendProgress

\* After the final save.
LEMMA AfterFinalProgress ==
    ASSUME IInv, ProgressInv, snapshot' = snapshot,
           NEW r \in Snapshot, Follows(r.revision, r),
           cause \in {"timeout", "shutdown"} \/ Terminal(r),
           NEW pending \in SUBSET saves, AfterFinal(r, pending)
    PROVE  ProgressInv'
  <1>1. CASE cause = "timeout"
    BY <1>1, HandleErrorProgress DEF AfterFinal, Errors
  <1>2. CASE cause # "timeout"
    BY <1>2, FinishProgress DEF AfterFinal
  <1>3. QED
    BY <1>1, <1>2

\* The announcement of a result follows what the result follows.
LEMMA AnnouncedFollows ==
    ASSUME IInv, NEW r \in Snapshot, Follows(r.revision, r), Started(r)
    PROVE  /\ Announced(r) \in Snapshot
           /\ Announced(r).revision = r.revision
           /\ Announced(r).status = r.status
           /\ Follows(Announced(r).revision, Announced(r))
  <1> DEFINE event == IF r.status = "stopped" THEN "input.required"
                                              ELSE "run.completed"
             a == Appended(r, event)
  <1>1. event \in EventNames
    BY Members
  <1> HIDE DEF event
  <1>2. a \in Snapshot /\ a.revision = r.revision /\ a.status = r.status
    BY <1>1, AppendedType, AppendedFields
  <1>3. ASSUME snapshot # NoSnapshot, r.revision = snapshot.revision
        PROVE  Continues(snapshot, a)
    <2>1. snapshot \in Snapshot /\ ~Terminal(snapshot) /\ MayReplace(snapshot, r)
      BY <1>3 DEF IInv, TypeOK, Started, Follows, Continues, Terminal, TerminalStatuses
    <2>2. QED
      BY <1>1, <2>1, GrownMayReplace DEF Continues
  <1>4. Announced(r) = a
    BY DEF Announced, event
  <1> HIDE DEF a
  <1>5. QED
    BY <1>2, <1>3, <1>4 DEF Follows

\* The result is published.
LEMMA PublishProgress ==
    ASSUME IInv, ProgressInv, snapshot' = snapshot,
           Active(run), Follows(run.revision, run), Started(run),
           NEW result \in Results \ {"none"}, Publish(result)
    PROVE  ProgressInv'
  <1> DEFINE ending == IF result = "clarification" THEN "stopped" ELSE "completed"
             r == [run EXCEPT !.result = result, !.status = ending]
  <1>1. /\ run \in Snapshot /\ ending \in {"stopped", "completed"}
        /\ {"stopped", "completed"} \subseteq Statuses
    BY DEF IInv, TypeOK, Statuses, TerminalStatuses
  <1> HIDE DEF ending
  <1>2. /\ r \in Snapshot /\ r.status = ending /\ r.events = run.events
        /\ r.revision = run.revision /\ r.result = result
    BY <1>1 DEF Snapshot
  <1>3. request.role = "GUEST" => Resume(r, "guest")
    BY DEF Publish, ending
  <1>4. request.role # "GUEST" => Send(Announced(r), "final", "none", saves)
    BY DEF Publish, ending
  <1> HIDE DEF r
  <1>5. ASSUME snapshot # NoSnapshot, run.revision = snapshot.revision
        PROVE  Continues(snapshot, r)
    <2>1. snapshot.status = "running" /\ MayReplace(snapshot, run)
      BY <1>5 DEF Started, Follows, Continues, Terminal, TerminalStatuses
    <2>2. MayReplace(snapshot, r)
      BY <1>1, <1>2, <2>1 DEF MayReplace, AllowedTransitions, CarriesOutcome
    <2>3. QED
      BY <2>1, <2>2 DEF Continues, Terminal, TerminalStatuses
  <1>6. Follows(r.revision, r) /\ Started(r) /\ Terminal(r)
    BY <1>1, <1>2, <1>5 DEF Follows, Started, Terminal, TerminalStatuses
  <1>7. CASE request.role = "GUEST"
    BY <1>3, <1>6, <1>7, ResumeProgress
  <1>8. CASE request.role # "GUEST"
    <2>1. Announced(r) \in Snapshot /\ Terminal(Announced(r))
              /\ Follows(Announced(r).revision, Announced(r))
      BY <1>2, <1>6, AnnouncedFollows DEF Terminal
    <2>2. QED
      BY <1>4, <1>8, <2>1, SendProgress
  <1>9. QED
    BY <1>7, <1>8

-----------------------------------------------------------------------------
(* Every step preserves the invariant *)

\* What the invariants say of the worker's run.
LEMMA RunFacts ==
    ASSUME IInv, ProgressInv
    PROVE  /\ run \in Snapshot
           /\ pc # "done" => Follows(run.revision, run)
           /\ InTry => Started(run)
           /\ AtWork => Active(run) /\ run.status = "running"
           /\ \A pending \in Abandoned : pending \in SUBSET saves
           /\ saves \in SUBSET saves
           /\ {"ANALYSIS_FAILED", "ANALYSIS_TIMEOUT", "RUN_STORE_UNAVAILABLE"}
                 \subseteq Errors \ {"none"}
  <1>1. AtWork => pc \notin {"ready", "done"}
    BY DEF AtWork, AwaitsSave
  <1>2. AtWork => Active(run) /\ run.status # "queued"
    BY <1>1, WorkerFacts DEF Sendable
  <1>3. QED
    BY <1>2, WorkerFacts DEF ProgressInv, CourseInv, Active, Errors

\* The first save.
LEMMA StartProgress ==
    ASSUME IInv, ProgressInv, Start
    PROVE  ProgressInv'
  <1> DEFINE s == [run EXCEPT !.status = "running"]
             r == Appended(s, "run.started")
  <1>1. run = Reserved /\ Follows(run.revision, run) /\ snapshot' = snapshot
    BY RunFacts DEF Start, IInv, WorkerInv
  <1>2. /\ s \in Snapshot /\ s.status = "running" /\ s.events = <<>>
        /\ s.revision = run.revision
    BY <1>1, ReservedType, Members DEF Reserved, Snapshot
  <1>3. Send(r, "start", "none", saves)
    BY DEF Start
  <1> HIDE DEF s
  <1>4. "run.started" \in EventNames
    BY Members
  <1>5. r \in Snapshot /\ r.revision = run.revision
    BY <1>2, <1>4, AppendedType, AppendedFields
  <1>6. ASSUME snapshot # NoSnapshot, run.revision = snapshot.revision
        PROVE  Continues(snapshot, r)
    <2>1. snapshot \in Snapshot
      BY <1>6 DEF IInv, TypeOK
    <2>2. Active(snapshot) /\ MayReplace(snapshot, Reserved)
      BY <1>1, <1>6, <2>1, ReservedType, ActiveContinues
         DEF Follows, Active, Reserved
    <2>3. snapshot.status = "queued" /\ IsPrefix(snapshot.events, <<>>)
      BY <2>2 DEF MayReplace, AllowedTransitions, Reserved
    <2>4. MayReplace(snapshot, s)
      BY <1>2, <2>3 DEF MayReplace, AllowedTransitions, CarriesOutcome
    <2>5. MayReplace(snapshot, r)
      BY <1>2, <1>4, <2>1, <2>4, GrownMayReplace
    <2>6. QED
      BY <2>2, <2>5 DEF Continues, Active, Terminal, TerminalStatuses
  <1> HIDE DEF r
  <1>7. Follows(r.revision, r)
    BY <1>1, <1>5, <1>6 DEF Follows
  <1>8. QED
    BY <1>1, <1>3, <1>5, <1>7, RunFacts, SendProgress

\* The conversation has been read.
LEMMA ContextReadProgress ==
    ASSUME IInv, ProgressInv, ContextRead
    PROVE  ProgressInv'
  BY RunFacts, ResumeProgress DEF ContextRead, InTry

\* One step more follows what the run follows.
LEMMA StepFollows ==
    ASSUME IInv, NEW r \in Snapshot, Active(r), Follows(r.revision, r), Started(r)
    PROVE  /\ Appended(r, "step") \in Snapshot
           /\ Follows(Appended(r, "step").revision, Appended(r, "step"))
           /\ Started(Appended(r, "step"))
  <1> DEFINE a == Appended(r, "step")
  <1>1. "step" \in EventNames
    BY Members
  <1>2. a \in Snapshot /\ a.revision = r.revision
    BY <1>1, AppendedType, AppendedFields
  <1>3. ASSUME snapshot # NoSnapshot, r.revision = snapshot.revision
        PROVE  Continues(snapshot, a)
    <2>1. snapshot \in Snapshot /\ ~Terminal(snapshot) /\ MayReplace(snapshot, r)
      BY <1>3 DEF IInv, TypeOK, Started, Follows, Continues, Terminal, TerminalStatuses
    <2>2. QED
      BY <1>1, <2>1, GrownMayReplace DEF Continues
  <1> HIDE DEF a
  <1>4. QED
    BY <1>2, <1>3 DEF a, Follows, Started

\* Progress.
LEMMA StepReportedProgress ==
    ASSUME IInv, ProgressInv, StepReported
    PROVE  ProgressInv'
  <1> DEFINE purpose == IF Len(run.events) = 2 THEN "validated" ELSE "step"
  <1>1. snapshot' = snapshot /\ Send(Appended(run, "step"), purpose, "none", saves)
    BY DEF StepReported
  <1>2. purpose \in {"step", "validated"}
    OBVIOUS
  <1> HIDE DEF purpose
  <1>3. pc = "analysis"
    BY DEF StepReported
  <1>4. Active(run) /\ Follows(run.revision, run) /\ Started(run) /\ run \in Snapshot
    BY <1>3, RunFacts DEF InTry, AtWork
  <1>5. QED
    BY <1>1, <1>2, <1>4, RunFacts, StepFollows, SendProgress

\* The analysis, the conversation's save or the reading of a context failed.
LEMMA FailureProgress ==
    ASSUME IInv, ProgressInv, AnalysisFails \/ ConversationFails
    PROVE  ProgressInv'
  <1>1. /\ pc \in {"context", "analysis", "storing"} /\ snapshot' = snapshot
        /\ AnalysisFailed(run, saves)
    BY DEF AnalysisFails, ConversationFails
  <1>2. QED
    BY <1>1, RunFacts, AnalysisFailedProgress DEF AtWork

\* An answer.
LEMMA AnalysisAnswersProgress ==
    ASSUME IInv, ProgressInv, NEW result \in {"answer", "clarification"},
           AnalysisAnswers(result)
    PROVE  ProgressInv'
  <1>1. /\ pc = "analysis" /\ snapshot' = snapshot /\ answer' = result
        /\ result \in Results \ {"none"}
    BY DEF AnalysisAnswers, Results
  <1>2. run \in Snapshot /\ Active(run) /\ Follows(run.revision, run) /\ Started(run)
    BY <1>1, RunFacts DEF InTry, AtWork
  <1>3. CASE Resume(run, "storing")
    BY <1>1, <1>2, <1>3, ResumeProgress
  <1>4. CASE Publish(result)
    BY <1>1, <1>2, <1>4, PublishProgress
  <1>5. QED
    BY <1>3, <1>4 DEF AnalysisAnswers

\* The conversation is stored.
LEMMA ConversationStoredProgress ==
    ASSUME IInv, ProgressInv, ConversationStored
    PROVE  ProgressInv'
  <1>1. /\ pc = "storing" /\ snapshot' = snapshot /\ Publish(answer)
        /\ answer \in Results \ {"none"}
    BY DEF ConversationStored, ProgressInv, CourseInv, IInv, TypeOK
  <1>2. run \in Snapshot /\ Active(run) /\ Follows(run.revision, run) /\ Started(run)
    BY <1>1, RunFacts DEF InTry, AtWork
  <1>3. QED
    BY <1>1, <1>2, PublishProgress

\* The guest's history was written, or not.
LEMMA GuestProgress ==
    ASSUME IInv, ProgressInv, GuestRemembered \/ GuestSaveFails
    PROVE  ProgressInv'
  <1> DEFINE w == Appended(run, "guest.storage_failed")
  <1>1. /\ pc = "guest" /\ snapshot' = snapshot
        /\ \/ Send(Announced(run), "final", "none", saves)
           \/ Send(Announced(w), "final", "none", saves)
    BY DEF GuestRemembered, GuestSaveFails
  <1>2. /\ run \in Snapshot /\ Follows(run.revision, run) /\ Started(run)
        /\ Terminal(run)
    BY <1>1, RunFacts
       DEF InTry, IInv, WorkerInv, Ended, Terminal, TerminalStatuses
  <1>3. "guest.storage_failed" \in EventNames
    BY Members
  <1>4. w \in Snapshot /\ w.revision = run.revision /\ w.status = run.status
    BY <1>2, <1>3, AppendedType, AppendedFields
  <1>5. ASSUME snapshot # NoSnapshot, run.revision = snapshot.revision
        PROVE  Continues(snapshot, w)
    <2>1. snapshot \in Snapshot /\ ~Terminal(snapshot) /\ MayReplace(snapshot, run)
      BY <1>2, <1>5
         DEF IInv, TypeOK, Started, Follows, Continues, Terminal, TerminalStatuses
    <2>2. QED
      BY <1>2, <1>3, <2>1, GrownMayReplace DEF Continues
  <1> HIDE DEF w
  <1>6. Follows(w.revision, w) /\ Started(w)
    BY <1>2, <1>4, <1>5 DEF Follows, Started
  <1>7. \A r \in {run, w} :
            /\ Announced(r) \in Snapshot /\ Terminal(Announced(r))
            /\ Follows(Announced(r).revision, Announced(r))
    BY <1>2, <1>4, <1>6, AnnouncedFollows DEF Terminal
  <1>8. QED
    BY <1>1, <1>7, RunFacts, SendProgress

\* An accepted save: what the store holds at the revision returned is the run.
LEMMA SaveReturnsProgress ==
    ASSUME IInv, ProgressInv, SaveReturns
    PROVE  ProgressInv'
  <1> DEFINE r == [run EXCEPT !.revision = reply.current.revision]
  <1>1. pc = "saving" /\ snapshot' = snapshot /\ Accepted(reply.verdict)
    BY DEF SaveReturns
  <1>2. reply.current \in Snapshot
    BY <1>1 DEF IInv, TypeOK, Replies, NoReply, Expired, Accepted
  <1>3. /\ r = reply.current
        /\ snapshot # NoSnapshot =>
              /\ r.revision <= snapshot.revision
              /\ r.revision = snapshot.revision => r = snapshot
    BY <1>1 DEF ProgressInv, ReplyInv
  <1>4. r \in Snapshot /\ r.status = run.status
    BY <1>2, <1>3, RunFacts DEF Snapshot
  <1>5. \/ /\ stage = "start"
           /\ Resume(r, IF request.follow_up THEN "context" ELSE "analysis")
        \/ /\ stage \in {"step", "validated"} /\ Resume(r, "analysis")
        \/ /\ stage = "step" /\ AnalysisFailed(r, saves)
        \/ stage = "final" /\ AfterFinal(r, saves)
        \/ stage = "last" /\ Finish(r, "none", saves)
    BY DEF SaveReturns
  <1> HIDE DEF r
  <1>6. Follows(r.revision, r)
    BY <1>3, <1>4, SelfContinues DEF Follows
  <1>7. stage \in {"start", "step", "validated"} => Active(r) /\ Started(r)
    BY <1>1, <1>3, <1>4, RunFacts DEF AtWork, AwaitsSave, Started, Active
  <1>8. stage = "final" => cause \in {"timeout", "shutdown"} \/ Terminal(r)
    BY <1>1, <1>4 DEF ProgressInv, EndInv, AwaitsSave, Terminal
  <1>9. stage = "last" => Terminal(r)
    BY <1>1, <1>4 DEF ProgressInv, EndInv, AwaitsSave, Terminal
  <1>10. CASE stage = "start"
              /\ Resume(r, IF request.follow_up THEN "context" ELSE "analysis")
    BY <1>1, <1>6, <1>7, <1>10, ResumeProgress
  <1>11. CASE stage \in {"step", "validated"} /\ Resume(r, "analysis")
    BY <1>1, <1>6, <1>7, <1>11, ResumeProgress
  <1>12. CASE stage = "step" /\ AnalysisFailed(r, saves)
    BY <1>1, <1>4, <1>6, <1>7, <1>12, AnalysisFailedProgress
  <1>13. CASE stage = "final" /\ AfterFinal(r, saves)
    BY <1>1, <1>4, <1>6, <1>8, <1>13, AfterFinalProgress
  <1>14. CASE stage = "last" /\ Finish(r, "none", saves)
    BY <1>1, <1>9, <1>14, FinishProgress
  <1>15. QED
    BY <1>5, <1>10, <1>11, <1>12, <1>13, <1>14

\* A rejected save.
LEMMA SaveConflictsProgress ==
    ASSUME IInv, ProgressInv, SaveConflicts
    PROVE  ProgressInv'
  <1>1. pc = "saving" /\ snapshot' = snapshot
    BY DEF SaveConflicts
  <1>2. CASE Adopt(run, reply.current) /\ UNCHANGED <<saves, sends>>
    BY <1>1, <1>2, RunFacts, AdoptProgress
  <1>3. CASE /\ stage = "step"
             /\ Adopt(Appended(run, "step"), reply.current)
             /\ saves' = saves \cup {SaveOf(Appended(run, "step"))}
             /\ sends' = sends + 1
    <2>1. Active(run) /\ Follows(run.revision, run) /\ Started(run) /\ run \in Snapshot
      BY <1>1, <1>3, RunFacts DEF AtWork, AwaitsSave, InTry
    <2>2. /\ Appended(run, "step") \in Snapshot
          /\ Follows(Appended(run, "step").revision, Appended(run, "step"))
      BY <2>1, StepFollows
    <2>3. QED
      BY <1>1, <1>3, <2>2, AdoptProgress
  <1>4. CASE stage \in {"step", "validated"} /\ AnalysisFailed(run, saves)
    BY <1>1, <1>4, RunFacts, AnalysisFailedProgress DEF AtWork, AwaitsSave
  <1>5. QED
    BY <1>2, <1>3, <1>4 DEF SaveConflicts, SearchReported

\* No answer to a save.
LEMMA SaveFailsProgress ==
    ASSUME IInv, ProgressInv, SaveFails
    PROVE  ProgressInv'
  <1>1. pc = "saving" /\ snapshot' = snapshot
    BY DEF SaveFails
  <1>2. PICK pending \in Abandoned :
        \/ stage \in {"step", "validated"} /\ AnalysisFailed(run, pending)
        \/ stage = "step" /\ Send(Appended(run, "step"), "step", "failed", pending)
        \/ HandleError(run, "RUN_STORE_UNAVAILABLE", pending)
        \/ stage = "final" /\ AfterFinal(run, pending)
        \/ stage = "last" /\ Finish(run, "none", pending)
    BY DEF SaveFails, SearchReported
  <1>3. pending \in SUBSET saves /\ run \in Snapshot /\ Follows(run.revision, run)
    BY <1>1, RunFacts
  <1>4. stage \in {"step", "validated"} => Active(run) /\ Started(run)
    BY <1>1, RunFacts DEF AtWork, AwaitsSave, InTry
  <1>5. CASE stage \in {"step", "validated"} /\ AnalysisFailed(run, pending)
    BY <1>1, <1>3, <1>4, <1>5, AnalysisFailedProgress
  <1>6. CASE stage = "step" /\ Send(Appended(run, "step"), "step", "failed", pending)
    BY <1>1, <1>3, <1>4, <1>6, StepFollows, SendProgress
  <1>7. CASE HandleError(run, "RUN_STORE_UNAVAILABLE", pending)
    BY <1>1, <1>3, <1>7, RunFacts, HandleErrorProgress
  <1>8. CASE stage = "final" /\ AfterFinal(run, pending)
    BY <1>1, <1>3, <1>8, AfterFinalProgress DEF ProgressInv, EndInv, AwaitsSave
  <1>9. CASE stage = "last" /\ Finish(run, "none", pending)
    BY <1>1, <1>3, <1>9, FinishProgress DEF ProgressInv, EndInv, AwaitsSave
  <1>10. QED
    BY <1>2, <1>5, <1>6, <1>7, <1>8, <1>9

\* The deadline.
LEMMA TimeoutProgress ==
    ASSUME IInv, ProgressInv, Timeout
    PROVE  ProgressInv'
  <1>1. snapshot' = snapshot
    BY DEF Timeout
  <1>2. PICK pending \in Abandoned :
        \/ pc = "saving" /\ HandleError(run, "ANALYSIS_TIMEOUT", pending)
        \/ InTry /\ Send(run, "final", "timeout", pending)
        \/ Finish(run, "shutdown", pending)
    BY DEF Timeout, AwaitsSave
  <1>3. CASE pc = "saving" /\ HandleError(run, "ANALYSIS_TIMEOUT", pending)
    BY <1>1, <1>3, RunFacts, HandleErrorProgress
  <1>4. CASE InTry /\ Send(run, "final", "timeout", pending)
    BY <1>1, <1>4, RunFacts, SendProgress DEF InTry
  <1>5. CASE Finish(run, "shutdown", pending)
    BY <1>1, <1>5, RunFacts, FinishProgress
  <1>6. QED
    BY <1>2, <1>3, <1>4, <1>5

\* The application shuts down.
LEMMA ShutdownProgress ==
    ASSUME IInv, ProgressInv, Shutdown
    PROVE  ProgressInv'
  <1>1. snapshot' = snapshot
    BY DEF Shutdown
  <1>2. PICK pending \in Abandoned :
        \/ /\ pc' = "done" /\ cause' = "shutdown"
           /\ UNCHANGED <<run, saves, held, stage, sends, reply>>
        \/ InTry /\ Send(run, "final", "shutdown", pending)
        \/ Finish(run, "shutdown", pending)
    BY DEF Shutdown
  <1>3. CASE /\ pc' = "done" /\ cause' = "shutdown"
             /\ UNCHANGED <<run, saves, held, stage, sends, reply>>
    <2>1. FlightInv'
      BY <1>1, <1>3, FlightKept
    <2>2. CourseInv' /\ ReplyInv' /\ EndInv'
      BY <1>3 DEF CourseInv, InTry, ReplyInv, EndInv, AwaitsSave, FinishedRunForgotten
    <2>3. QED
      BY <2>1, <2>2 DEF ProgressInv
  <1>4. CASE InTry /\ Send(run, "final", "shutdown", pending)
    BY <1>1, <1>4, RunFacts, SendProgress DEF InTry
  <1>5. CASE Finish(run, "shutdown", pending)
    BY <1>1, <1>5, RunFacts, FinishProgress
  <1>6. QED
    BY <1>2, <1>3, <1>4, <1>5

\* The process dies.
LEMMA CrashProgress ==
    ASSUME IInv, ProgressInv, Crash
    PROVE  ProgressInv'
  <1>1. /\ snapshot' = snapshot /\ pc' = "done" /\ held' = FALSE
        /\ saves' \in SUBSET saves /\ sends' = sends
    BY RunFacts DEF Crash
  <1>2. FlightInv'
    BY <1>1, FlightKept
  <1>3. CourseInv' /\ ReplyInv' /\ EndInv'
    BY <1>1 DEF CourseInv, InTry, ReplyInv, EndInv, AwaitsSave, FinishedRunForgotten
  <1>4. QED
    BY <1>2, <1>3 DEF ProgressInv

-----------------------------------------------------------------------------
(* Redis and the readers: the stored snapshot stays, goes, or is replaced by *)
(* one of the next revision                                                  *)

Advances ==
    \/ snapshot' = snapshot
    \/ snapshot' = NoSnapshot
    \/ /\ snapshot # NoSnapshot /\ snapshot' \in Snapshot
       /\ snapshot'.revision = snapshot.revision + 1

\* What was based on an older revision is stale then.
LEMMA StillFollows ==
    ASSUME IInv, Advances, NEW revision \in Nat, NEW new, Follows(revision, new)
    PROVE  snapshot' # NoSnapshot =>
              /\ revision <= snapshot'.revision
              /\ revision = snapshot'.revision => Continues(snapshot', new)
  <1>1. snapshot # NoSnapshot => snapshot.revision \in Nat
    BY DEF IInv, TypeOK, Snapshot
  <1>2. QED
    BY <1>1 DEF Advances, Follows

\* The worker's run and the requests keep their relation to the snapshot.
LEMMA AdvanceKeeps ==
    ASSUME IInv, ProgressInv, Advances, saves' \in SUBSET saves,
           UNCHANGED <<run, held, pc, stage, cause, sends, answer>>
    PROVE  CourseInv' /\ FlightInv' /\ EndInv'
  <1>1. run.revision \in Nat /\ \A q \in saves : q.expected \in Nat
    BY DEF IInv, TypeOK, Snapshot, SaveRequest
  <1>2. pc' # "done" => Follows(run.revision, run)'
    BY <1>1, StillFollows DEF ProgressInv, CourseInv, Follows
  <1>3. InTry' => Started(run)'
    <2>1. snapshot # NoSnapshot => snapshot.revision \in Nat
      BY DEF IInv, TypeOK, Snapshot
    <2>2. InTry' => pc # "done" /\ InTry
      BY DEF InTry
    <2>3. QED
      BY <1>1, <2>1, <2>2
         DEF ProgressInv, CourseInv, Advances, Started, Follows
  <1>4. CourseInv'
    BY <1>2, <1>3 DEF ProgressInv, CourseInv
  <1>5. FlightInv'
    <2> SUFFICES ASSUME NEW q \in saves'
                 PROVE  /\ q.id <= sends
                        /\ Follows(q.expected, q.candidate)'
                        /\ q.id = sends /\ pc = "saving" =>
                              q.candidate = [run EXCEPT !.revision = @ + 1]
      BY DEF FlightInv, Follows
    <2>1. q \in saves
      OBVIOUS
    <2>2. Follows(q.expected, q.candidate)'
      BY <1>1, <2>1, StillFollows DEF ProgressInv, FlightInv, Follows
    <2>3. QED
      BY <2>1, <2>2 DEF ProgressInv, FlightInv
  <1>6. EndInv'
    BY DEF ProgressInv, EndInv, AwaitsSave, FinishedRunForgotten
  <1>7. QED
    BY <1>4, <1>5, <1>6

\* A reply that is not disturbed stays true.
LEMMA ReplyKept ==
    ASSUME IInv, ProgressInv, Advances, UNCHANGED <<run, pc, reply>>
    PROVE  ReplyInv'
  <1>1. Accepted(reply.verdict) => reply.current.revision \in Nat
    BY DEF IInv, TypeOK, Replies, NoReply, Expired, Accepted, Snapshot
  <1>2. snapshot # NoSnapshot => snapshot.revision \in Nat
    BY DEF IInv, TypeOK, Snapshot
  <1>3. QED
    BY <1>1, <1>2 DEF ProgressInv, ReplyInv, Advances

\* The save script.
LEMMA SaveExecutesProgress ==
    ASSUME IInv, ProgressInv, NEW q \in saves, SaveExecutes(q)
    PROVE  ProgressInv'
  <1> DEFINE verdict == SaveVerdict(snapshot, q)
  <1>1. /\ snapshot' = IF verdict = "saved" THEN q.candidate ELSE snapshot
        /\ UNCHANGED <<run, held, pc, stage, cause, sends, answer>>
        /\ saves' \in SUBSET saves
        /\ \/ /\ q.id = sends /\ pc = "saving"
              /\ reply' = [verdict |-> verdict, current |-> snapshot']
           \/ reply' = reply
    BY DEF SaveExecutes
  <1>2. Advances
    BY <1>1, SavedFacts DEF Advances
  <1>3. CASE reply' = reply
    BY <1>1, <1>2, <1>3, AdvanceKeeps, ReplyKept DEF ProgressInv
  <1>4. CASE /\ q.id = sends /\ pc = "saving"
             /\ reply' = [verdict |-> verdict, current |-> snapshot']
    <2>1. q.candidate = [run EXCEPT !.revision = @ + 1] /\ run \in Snapshot
      BY <1>4, RunFacts DEF ProgressInv, FlightInv
    <2>2. reply'.current = snapshot' /\ reply'.verdict = verdict
      BY <1>4
    <2>3. CASE verdict = "saved"
      <3>1. q.candidate = [run EXCEPT !.revision = q.candidate.revision]
        BY <2>1 DEF Snapshot
      <3>2. snapshot' = q.candidate /\ snapshot'.revision \in Nat
        BY <1>1, <2>3, SavedFacts DEF Snapshot
      <3>3. ReplyInv'
        BY <1>1, <2>2, <3>1, <3>2 DEF ReplyInv
      <3>4. QED
        BY <1>1, <1>2, <3>3, AdvanceKeeps DEF ProgressInv
    <2>4. CASE verdict = "unchanged"
      <3>1. /\ snapshot # NoSnapshot /\ snapshot' = snapshot
            /\ [q.candidate EXCEPT !.revision = snapshot.revision] = snapshot
        BY <1>1, <2>4 DEF SaveVerdict
      <3>2. snapshot.revision \in Nat
        BY <3>1 DEF IInv, TypeOK, Snapshot
      <3>3. [run EXCEPT !.revision = snapshot.revision] = snapshot
        BY <2>1, <3>1 DEF Snapshot
      <3>4. ReplyInv'
        BY <1>1, <2>2, <3>1, <3>2, <3>3 DEF ReplyInv
      <3>5. QED
        BY <1>1, <1>2, <3>4, AdvanceKeeps DEF ProgressInv
    <2>5. CASE ~Accepted(verdict)
      <3>1. ReplyInv'
        BY <2>2, <2>5 DEF ReplyInv
      <3>2. QED
        BY <1>1, <1>2, <3>1, AdvanceKeeps DEF ProgressInv
    <2>6. QED
      BY <2>3, <2>4, <2>5 DEF Accepted
  <1>5. QED
    BY <1>1, <1>3, <1>4

\* Expiry, the clock, and the readers.
LEMMA ReaderProgress ==
    ASSUME IInv, ProgressInv, Expire \/ Age \/ Reader
    PROVE  ProgressInv'
  <1>1. UNCHANGED <<saves, workerVars>>
    BY DEF Expire, Age, Reader, ReadTerminal, ReadOverdue, Interrupt, storeVars
  <1>2. Advances
    <2>1. CASE Expire \/ Age
      BY <2>1 DEF Expire, Age, Advances
    <2>2. CASE \E p \in Pollers : ReadTerminal(p) \/ ReadOverdue(p)
      BY <2>2 DEF ReadTerminal, ReadOverdue, storeVars, Advances
    <2>3. ASSUME NEW p \in Pollers, Interrupt(p) PROVE Advances
      <3>1. snapshot' = InterruptResult(snapshot, poll[p]) /\ poll[p] # NoSnapshot
        BY <2>3 DEF Interrupt
      <3>2. snapshot = poll[p] => snapshot \in Snapshot
        BY <3>1 DEF IInv, TypeOK
      <3>3. QED
        BY <3>1, <3>2, InterruptedFields DEF InterruptResult, Advances
    <2>4. QED
      BY <2>1, <2>2, <2>3 DEF Reader
  <1>3. QED
    BY <1>1, <1>2, AdvanceKeeps, ReplyKept DEF ProgressInv, workerVars

-----------------------------------------------------------------------------
(* The theorems *)

\* When the task is created, nothing is on its way.
LEMMA InitProgress == Init => ProgressInv
  <1> SUFFICES ASSUME Init PROVE ProgressInv
    OBVIOUS
  <1>1. snapshot = Reserved /\ run = Reserved /\ Reserved.revision = 1
    BY DEF Init, Reserved
  <1>2. Follows(run.revision, run)
    BY <1>1, ReservedType, SelfContinues DEF Follows
  <1>3. CourseInv /\ FlightInv
    BY <1>2 DEF Init, CourseInv, FlightInv, InTry
  <1>4. ReplyInv /\ EndInv
    BY DEF Init, ReplyInv, EndInv, AwaitsSave, FinishedRunForgotten
  <1>5. QED
    BY <1>3, <1>4 DEF ProgressInv

\* Every step preserves it.
LEMMA NextProgress == IInv /\ ProgressInv /\ [Next]_vars => ProgressInv'
  <1> SUFFICES ASSUME IInv, ProgressInv, [Next]_vars PROVE ProgressInv'
    OBVIOUS
  <1>1. CASE Worker
    BY <1>1, StartProgress, ContextReadProgress, StepReportedProgress,
       FailureProgress, AnalysisAnswersProgress, ConversationStoredProgress,
       GuestProgress, SaveReturnsProgress, SaveConflictsProgress,
       SaveFailsProgress, TimeoutProgress, ShutdownProgress, CrashProgress
       DEF Worker
  <1>2. CASE Store \/ Reader
    BY <1>2, SaveExecutesProgress, ReaderProgress DEF Store
  <1>3. CASE UNCHANGED vars
    BY <1>3 DEF vars, storeVars, workerVars, ProgressInv, CourseInv, FlightInv,
                ReplyInv, EndInv, Follows, Started, InTry, AwaitsSave,
                FinishedRunForgotten
  <1>4. QED
    BY <1>1, <1>2, <1>3 DEF Next

\* Whatever is lost, late or resent, the worker's run and its requests are
\* stale or continue the snapshot the store holds.
THEOREM RunsContinue == Spec => []ProgressInv
  <1>1. IInv /\ ProgressInv /\ [Next]_vars => IInv' /\ ProgressInv'
    BY NextIInv, NextProgress
  <1>2. Init => IInv /\ ProgressInv
    BY InitIInv, InitProgress
  <1>3. QED
    BY <1>1, <1>2, PTL DEF Spec

\* The store never turns down a save of the worker as an illegal transition, a
\* rewritten log or a changed outcome: only as stale, or because the run has
\* expired.
THEOREM RejectedSavesAreStale == Spec => []OnlyStaleSavesRejected
  <1>1. ASSUME IInv, ProgressInv PROVE OnlyStaleSavesRejected
    <2> SUFFICES ASSUME NEW q \in saves
                 PROVE  SaveVerdict(snapshot, q)
                           \in {"saved", "unchanged", "revision", "expired"}
      BY DEF OnlyStaleSavesRejected
    <2>1. Follows(q.expected, q.candidate)
      BY <1>1 DEF ProgressInv, FlightInv
    <2>2. QED
      BY <2>1 DEF SaveVerdict, Follows, Continues
  <1>2. QED
    BY <1>1, Invariance, RunsContinue, PTL

\* A task that has ended keeps its run in process memory only when the process
\* is shutting down.
THEOREM RunsAreForgotten == Spec => []FinishedRunForgotten
  <1>1. ProgressInv => FinishedRunForgotten
    BY DEF ProgressInv, EndInv
  <1>2. QED
    BY <1>1, RunsContinue, PTL
==============================================================================
