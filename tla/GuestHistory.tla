---------------------------- MODULE GuestHistory ----------------------------
(***************************************************************************)
(* The temporary history of one guest                                      *)
(* (backend/app/services/guest_session_service.py, Redis mode): a list of  *)
(* records, newest first, that analyses and term chats of any process      *)
(* update by reading it and writing it back if it has not changed since.   *)
(* A step is the code between two awaits.  A list that is not there and    *)
(* the empty list are the same to every operation.                         *)
(***************************************************************************)
EXTENDS Naturals, Sequences, FiniteSets, Lists

CONSTANTS
    Savers,         \* calls of _save_record for this guest
    Runs,           \* the run ids they save
    MaxAttempts     \* _MAX_SAVE_ATTEMPTS

ASSUME HistoryAssumption == MaxAttempts \in Nat \ {0}

VARIABLES
    stored,         \* lawpath:guest:<id>:analyses, a sequence of records
    saves,          \* the calls
    late,           \* scripts on their way although nobody waits for them
    reported        \* history: records whose save succeeded, not cleared since

vars == <<stored, saves, late, reported>>

\* The record of a call; two calls may save the same run.
Records == [saver: Savers, run: Runs]

\* The lists that hold no run twice.
Histories == {h \in UNION {[1..n -> Records] : n \in 0..Cardinality(Runs)} :
                 \A i, j \in DOMAIN h : h[i].run = h[j].run => i = j}

Init ==
    /\ stored = <<>>
    /\ saves \in [Savers -> [at: {"idle"}, run: Runs,
                             attempt: {1}, base: {<<>>}]]
    /\ late = {}
    /\ reported = {}

-----------------------------------------------------------------------------
(* The list *)

RecordOf(s) == [saver |-> s, run |-> saves[s].run]

OfOtherRuns(run) == {record \in Records : record.run # run}

\* Mutant: the record of an earlier save of the run stays.
PrependedTwice(record, base) == <<record>> \o base

\* The record first, then the others without the record of the same run.
Prepended(record, base) ==
    <<record>> \o Kept(base, OfOtherRuns(record.run))

\* Mutant: the list is written without looking at it.
AlwaysUnchanged(base) == base \in Histories

\* The comparison of _SAVE_RECORDS.
Unchanged(base) == stored = base

\* _SAVE_RECORDS
Script(record, base) ==
    IF Unchanged(base) THEN stored' = Prepended(record, base)
                       ELSE UNCHANGED stored

-----------------------------------------------------------------------------
(* A call *)

At(s, position) == saves[s].at = position

Goto(s, position) == saves' = [saves EXCEPT ![s].at = position]

Begin(s) ==
    /\ At(s, "idle")
    /\ Goto(s, "get")
    /\ UNCHANGED <<stored, late, reported>>

Read(s) ==
    /\ At(s, "get")
    /\ saves' = [saves EXCEPT ![s].at = "eval", ![s].base = stored]
    /\ UNCHANGED <<stored, late, reported>>

\* The comparison failed: another attempt, after a short sleep, from the GET.
Retry(s) ==
    IF saves[s].attempt < MaxAttempts
    THEN saves' = [saves EXCEPT ![s].at = "get", ![s].attempt = @ + 1,
                                ![s].base = <<>>]
    ELSE Goto(s, "contended")

\* The script runs and its reply arrives.
Save(s) ==
    /\ At(s, "eval")
    /\ Script(RecordOf(s), saves[s].base)
    /\ IF Unchanged(saves[s].base)
       THEN /\ Goto(s, "saved")
            /\ reported' = reported \cup {RecordOf(s)}
       ELSE /\ Retry(s)
            /\ UNCHANGED reported
    /\ UNCHANGED late

\* The script runs, the connection breaks before the reply, and the client
\* library sends the script again.
SaveUnanswered(s) ==
    /\ At(s, "eval")
    /\ Script(RecordOf(s), saves[s].base)
    /\ UNCHANGED <<saves, late, reported>>

\* Redis fails or the call is cancelled.  A script it has sent may still run.
Fail(s) ==
    /\ saves[s].at \in {"get", "eval"}
    /\ Goto(s, "failed")
    /\ \/ UNCHANGED late
       \/ /\ At(s, "eval")
          /\ late' = late \cup {[record |-> RecordOf(s),
                                 base |-> saves[s].base]}
    /\ UNCHANGED <<stored, reported>>

LateScript(e) ==
    /\ Script(e.record, e.base)
    /\ late' = late \ {e}
    /\ UNCHANGED <<saves, reported>>

\* clear: the guest deletes the history while saves may be under way.
Clear ==
    /\ stored' = <<>>
    /\ reported' = {}
    /\ UNCHANGED <<saves, late>>

\* The time to live, which every save renews, is over.
Expire ==
    /\ stored # <<>>
    /\ stored' = <<>>
    /\ reported' = {}
    /\ UNCHANGED <<saves, late>>

Next ==
    \/ \E s \in Savers :
        \/ Begin(s) \/ Read(s)
        \/ Save(s) \/ SaveUnanswered(s) \/ Fail(s)
    \/ \E e \in late : LateScript(e)
    \/ Clear
    \/ Expire

Spec == Init /\ [][Next]_vars

-----------------------------------------------------------------------------
(* Properties *)

\* A save that reported success is not lost to another save: until the
\* history is cleared or expires, it holds a record of that run
\* (docs/GUEST_HISTORY_CONCURRENCY.md).
ReportedIsKept ==
    \A r \in reported : \E i \in DOMAIN stored : stored[i].run = r.run

\* Whatever calls overlap, the list only ever changes as if one of them had
\* put its record in front at once, in the place of the record of the same
\* run, or is emptied; term_context replays the records in this order as the
\* conversation.
AtomicUpdates ==
    [][ stored' \notin {stored, <<>>} =>
          Tail(stored') = Kept(stored, OfOtherRuns(Head(stored').run)) ]_vars

=============================================================================
