---------------------------- MODULE RunAdmission ----------------------------
(***************************************************************************)
(* How POST /api/agent-runs admits an analysis (create_agent_run in        *)
(* backend/app/routers/mock_api.py): a slot of the process                 *)
(* (backend/app/services/run_capacity.py), an idempotency reservation that *)
(* all processes share in Redis (find_reserved_run and reserve_run in      *)
(* backend/app/services/agent_run_store.py), then the task, which releases *)
(* the slot when it ends.                                                  *)
(*                                                                         *)
(* A key stands for a principal with its Idempotency-Key.  The keys of the *)
(* model are those that an older release did not tell apart: a guest and a *)
(* member with the same id share one legacy reservation, and its run may   *)
(* belong to Other, who sends no request.                                  *)
(***************************************************************************)
EXTENDS Naturals, FiniteSets

CONSTANTS
    Processes,      \* API processes
    Clients,        \* concurrent requests
    Keys,           \* principals with their Idempotency-Key
    Bodies,         \* fingerprints of request bodies
    Runs,           \* run ids; each is generated once
    LegacyRun,      \* the run a legacy reservation names
    Capacity,       \* agent_run_max_concurrency
    Other, None

ASSUME AdmissionAssumption ==
    /\ Capacity \in Nat \ {0}
    /\ LegacyRun \in Runs

VARIABLES
    \* Redis
    reservation,    \* lawpath:run-idempotency:v2:<hash>, per key
    legacy,         \* lawpath:run-idempotency:<hash>
    snapshots,      \* the runs whose snapshot is there
    late,           \* reservations on their way although nobody waits
    \* the processes
    used,           \* run_capacity.used
    local,          \* the keys of store.agent_runs
    tasks,          \* the running tasks
    requests,       \* the requests being handled
    \* history
    origin,         \* who asked for a run, and what; None: never generated
    released,       \* the runs whose slot has been released
    launched,       \* the runs whose task was started
    lapsed,         \* the runs whose reservation has expired
    answers         \* the 202 responses

redisVars == <<reservation, legacy, snapshots, late>>
processVars == <<used, local, tasks, requests, released>>
historyVars == <<origin, launched, lapsed, answers>>
vars == <<redisVars, processVars, historyVars>>

Origins == [key: Keys \cup {Other}, body: Bodies]
Reservation == [run: Runs, body: Bodies]
Request == [at: {"look", "read", "reserve", "reread", "created"},
            probe: {"current", "legacy"},
            process: Processes, key: Keys, body: Bodies,
            run: Runs \cup {None}, found: Reservation \cup {None}]

\* "Nothing" is not something.
ASSUME NoneAssumption ==
    None \notin Runs \cup Origins \cup Reservation \cup Request

TypeOK ==
    /\ reservation \in [Keys -> Reservation \cup {None}]
    /\ legacy \in Reservation \cup {None}
    /\ snapshots \in SUBSET Runs
    /\ late \in SUBSET [key: Keys, body: Bodies, run: Runs]
    /\ used \in [Processes -> 0..Capacity]
    /\ local \in [Processes -> SUBSET Runs]
    /\ tasks \in [Processes -> SUBSET Runs]
    /\ requests \in [Clients -> Request \cup {None}]
    /\ origin \in [Runs -> Origins \cup {None}]
    /\ released \in SUBSET Runs
    /\ launched \in SUBSET Runs
    /\ lapsed \in SUBSET Runs
    /\ answers \in SUBSET [key: Keys, body: Bodies, run: Runs]

\* A run of the older release may still be reserved, for any principal.
Init ==
    /\ reservation = [k \in Keys |-> None]
    /\ \E o \in Origins \cup {None} :
        /\ origin = [r \in Runs |-> IF r = LegacyRun THEN o ELSE None]
        /\ legacy = IF o = None THEN None
                    ELSE [run |-> LegacyRun, body |-> o.body]
        /\ snapshots = IF o = None THEN {} ELSE {LegacyRun}
        /\ launched = IF o = None THEN {} ELSE {LegacyRun}
    /\ late = {}
    /\ used = [p \in Processes |-> 0]
    /\ local = [p \in Processes |-> {}]
    /\ tasks = [p \in Processes |-> {}]
    /\ requests = [c \in Clients |-> None]
    /\ released = {}
    /\ lapsed = {}
    /\ answers = {}

-----------------------------------------------------------------------------
(* Slots and steps *)

\* RunSlot.release: the slot of run r counts once, however often it is called.
Release(p, r) ==
    /\ used' = IF r \in Runs \ released
               THEN [used EXCEPT ![p] = @ - 1] ELSE used
    /\ released' = released \cup ({r} \ {None})

Goto(c, q) == requests' = [requests EXCEPT ![c] = q]

\* The handler returns or raises before it started a task: the slot, if it
\* has one, is released, and its provisional run forgotten where the code
\* does so.
Leave(c, forgotten) ==
    LET q == requests[c]
    IN  /\ Goto(c, None)
        /\ local' = [local EXCEPT ![q.process] = @ \ forgotten]
        /\ Release(q.process, q.run)

\* Mutant: the provisional run stays in store.agent_runs.
RejectKeepingRun(c) ==
    /\ Leave(c, {})
    /\ UNCHANGED answers

\* 409 and 503 responses, and cancellation.
Reject(c) ==
    /\ Leave(c, {requests[c].run})
    /\ UNCHANGED answers

\* 202 for a run that was there already.  A handler whose own reservation
\* turns out to be the existing one keeps its entry in store.agent_runs.
AnswerExisting(c, r) ==
    LET q == requests[c]
    IN  /\ Leave(c, {q.run} \ {r})
        /\ answers' = answers \cup {[key |-> q.key, body |-> q.body, run |-> r]}

\* Mutant: the owner of the snapshot is not compared.
OwnedByAnyone(q, r) == r \in snapshots

\* owns_run: the snapshot belongs to the principal that asks.
Owned(q, r) == r \in snapshots /\ origin[r].key = q.key

\* The reservation was made for the same request body.
SameBody(q, held) == held.body = q.body

-----------------------------------------------------------------------------
(* The request handler *)

Submit(c, p, k, b) ==
    /\ requests[c] = None
    /\ Goto(c, [at |-> "look", probe |-> "current", process |-> p, key |-> k,
                body |-> b, run |-> None, found |-> None])
    /\ UNCHANGED <<redisVars, used, local, tasks, released, historyVars>>

\* run_capacity.acquire and create_run, between two awaits.
Admit(c) ==
    LET q == requests[c]
    IN  \/ /\ used[q.process] < Capacity
           /\ \E r \in Runs \ {LegacyRun} :
                /\ origin[r] = None
                /\ origin' = [origin EXCEPT ![r] = [key |-> q.key, body |-> q.body]]
                /\ local' = [local EXCEPT ![q.process] = @ \cup {r}]
                /\ Goto(c, [q EXCEPT !.at = "look", !.probe = "current",
                                     !.run = r, !.found = None])
           /\ used' = [used EXCEPT ![q.process] = @ + 1]
           /\ UNCHANGED <<released, answers>>
        \/ /\ used[q.process] >= Capacity
           /\ Reject(c)
           /\ UNCHANGED origin

\* find_reserved_run found nothing under this key: the legacy key is next,
\* then the end of the first search, or of the one inside reserve_run.
NothingFound(c) ==
    LET q == requests[c]
    IN  \/ /\ q.probe = "current"
           /\ Goto(c, [q EXCEPT !.at = "look", !.probe = "legacy", !.found = None])
           /\ UNCHANGED <<used, local, released, origin, answers>>
        \/ q.probe = "legacy" /\ q.run = None /\ Admit(c)
        \/ /\ q.probe = "legacy" /\ q.run # None
           /\ Goto(c, [q EXCEPT !.at = "reserve", !.found = None])
           /\ UNCHANGED <<used, local, released, origin, answers>>

\* GET of a reservation.
Look(c) ==
    /\ requests[c] # None
    /\ requests[c].at = "look"
    /\ LET q == requests[c]
           held == IF q.probe = "current" THEN reservation[q.key] ELSE legacy
       IN  IF held = None
           THEN NothingFound(c)
           ELSE /\ Goto(c, [q EXCEPT !.at = "read", !.found = held])
                /\ UNCHANGED <<used, local, released, origin, answers>>
    /\ UNCHANGED <<redisVars, tasks, launched, lapsed>>

\* read_snapshot of the run the reservation names.
Read(c) ==
    /\ requests[c] # None
    /\ requests[c].at = "read"
    /\ LET q == requests[c]
           r == q.found.run
       IN  \/ ~Owned(q, r) /\ q.probe = "legacy" /\ NothingFound(c)
           \/ /\ ~Owned(q, r) /\ q.probe = "current"
              /\ Reject(c) /\ UNCHANGED origin
           \/ /\ Owned(q, r) /\ ~SameBody(q, q.found)
              /\ Reject(c) /\ UNCHANGED origin
           \/ /\ Owned(q, r) /\ SameBody(q, q.found)
              /\ AnswerExisting(c, r) /\ UNCHANGED origin
    /\ UNCHANGED <<redisVars, tasks, launched, lapsed>>

\* Mutants: an existing reservation is overwritten; the snapshot is left to
\* a later save.
ReservationOverwritten(k, b, r) ==
    /\ reservation' = [reservation EXCEPT ![k] = [run |-> r, body |-> b]]
    /\ snapshots' = snapshots \cup {r}
ReservationWithoutSnapshot(k, b, r) ==
    /\ reservation' = IF reservation[k] = None
           THEN [reservation EXCEPT ![k] = [run |-> r, body |-> b]]
           ELSE reservation
    /\ UNCHANGED snapshots

\* The reservation script on key k: write both keys, or neither.
ReservationWritten(k, b, r) ==
    IF reservation[k] = None
    THEN /\ reservation' = [reservation EXCEPT ![k] = [run |-> r, body |-> b]]
         /\ snapshots' = snapshots \cup {r}
    ELSE UNCHANGED <<reservation, snapshots>>

\* The script runs; its reply arrives, or is lost and the client library
\* sends the request again.
ReserveExecutes(c) ==
    /\ requests[c] # None
    /\ requests[c].at = "reserve"
    /\ LET q == requests[c]
           old == reservation[q.key]
       IN  /\ ReservationWritten(q.key, q.body, q.run)
           /\ \/ UNCHANGED <<used, local, released, requests, answers>>
              \/ /\ old = None
                 /\ Goto(c, [q EXCEPT !.at = "created"])
                 /\ UNCHANGED <<used, local, released, answers>>
              \/ old # None /\ ~SameBody(q, old) /\ Reject(c)
              \/ /\ old # None /\ SameBody(q, old)
                 /\ Goto(c, [q EXCEPT !.at = "reread", !.found = old])
                 /\ UNCHANGED <<used, local, released, answers>>
    /\ UNCHANGED <<legacy, late, tasks, origin, launched, lapsed>>

\* read_snapshot of the run that won the reservation.
Reread(c) ==
    /\ requests[c] # None
    /\ requests[c].at = "reread"
    /\ LET q == requests[c]
           r == q.found.run
       IN  IF Owned(q, r) THEN AnswerExisting(c, r) ELSE Reject(c)
    /\ UNCHANGED <<redisVars, tasks, origin, launched, lapsed>>

\* Mutant: the handler releases the slot it has handed to the task.
LaunchReleasingSlot(c) ==
    /\ requests[c] # None
    /\ requests[c].at = "created"
    /\ LET q == requests[c]
       IN  /\ local' = [local EXCEPT ![q.process] = @ \cup {q.run}]
           /\ tasks' = [tasks EXCEPT ![q.process] = @ \cup {q.run}]
           /\ launched' = launched \cup {q.run}
           /\ answers' = answers \cup
                  {[key |-> q.key, body |-> q.body, run |-> q.run]}
           /\ Release(q.process, q.run)
    /\ Goto(c, None)
    /\ UNCHANGED <<redisVars, origin, lapsed>>

\* start_run: from here on the slot belongs to the task.
Launch(c) ==
    /\ requests[c] # None
    /\ requests[c].at = "created"
    /\ LET q == requests[c]
       IN  /\ local' = [local EXCEPT ![q.process] = @ \cup {q.run}]
           /\ tasks' = [tasks EXCEPT ![q.process] = @ \cup {q.run}]
           /\ launched' = launched \cup {q.run}
           /\ answers' = answers \cup
                  {[key |-> q.key, body |-> q.body, run |-> q.run]}
    /\ Goto(c, None)
    /\ UNCHANGED <<redisVars, used, released, origin, lapsed>>

\* Redis is unavailable, or the request is cancelled, at any await.  A
\* reservation already sent may still be executed.
RequestFails(c) ==
    /\ requests[c] # None
    /\ requests[c].at # "created"
    /\ Reject(c)
    /\ LET q == requests[c]
       IN  \/ UNCHANGED late
           \/ /\ q.at = "reserve"
              /\ late' = late \cup {[key |-> q.key, body |-> q.body, run |-> q.run]}
    /\ UNCHANGED <<reservation, legacy, snapshots, tasks, origin, launched, lapsed>>

\* The done callback of the task, whatever ended it, releases the slot.
TaskEnds(p, r) ==
    /\ r \in tasks[p]
    /\ tasks' = [tasks EXCEPT ![p] = @ \ {r}]
    /\ local' = [local EXCEPT ![p] = @ \ {r}]
    /\ Release(p, r)
    /\ UNCHANGED <<redisVars, requests, historyVars>>

-----------------------------------------------------------------------------
(* Crashes, late requests and expiry *)

\* A process dies with its requests, tasks and slots, and starts again.
Crash(p) ==
    /\ local' = [local EXCEPT ![p] = {}]
    /\ tasks' = [tasks EXCEPT ![p] = {}]
    /\ used' = [used EXCEPT ![p] = 0]
    /\ requests' = [c \in Clients |->
           IF requests[c] # None THEN IF requests[c].process = p THEN None
                                      ELSE requests[c]
           ELSE None]
    /\ UNCHANGED <<redisVars, released, historyVars>>

LateReserve(m) ==
    /\ m \in late
    /\ late' = late \ {m}
    /\ ReservationWritten(m.key, m.body, m.run)
    /\ UNCHANGED <<legacy, processVars, historyVars>>

\* Both keys get the same time to live; only the saves of a task that was
\* started renew the snapshot's.
ExpireReservation(k) ==
    /\ reservation[k] # None
    /\ LET r == reservation[k].run
       IN  /\ lapsed' = lapsed \cup {r}
           /\ \/ snapshots' = snapshots \ {r}
              \/ r \in launched /\ UNCHANGED snapshots
    /\ reservation' = [reservation EXCEPT ![k] = None]
    /\ UNCHANGED <<legacy, late, processVars, origin, launched, answers>>

ExpireLegacy ==
    /\ legacy # None
    /\ legacy' = None
    /\ lapsed' = lapsed \cup {LegacyRun}
    /\ UNCHANGED <<reservation, snapshots, late, processVars, origin, launched,
                   answers>>

ExpireSnapshot(r) ==
    /\ r \in snapshots \cap lapsed
    /\ \A k \in Keys : reservation[k] # None => reservation[k].run # r
    /\ snapshots' = snapshots \ {r}
    /\ UNCHANGED <<reservation, legacy, late, processVars, historyVars>>

-----------------------------------------------------------------------------
(* Specification *)

Handler(c) ==
    \/ \E p \in Processes, k \in Keys, b \in Bodies : Submit(c, p, k, b)
    \/ Look(c) \/ Read(c) \/ ReserveExecutes(c) \/ Reread(c)
    \/ Launch(c) \/ RequestFails(c)

Environment ==
    \/ \E p \in Processes : Crash(p) \/ \E r \in tasks[p] : TaskEnds(p, r)
    \/ \E m \in late : LateReserve(m)
    \/ \E k \in Keys : ExpireReservation(k)
    \/ ExpireLegacy
    \/ \E r \in Runs : ExpireSnapshot(r)

Next == (\E c \in Clients : Handler(c)) \/ Environment

Spec == Init /\ [][Next]_vars

-----------------------------------------------------------------------------
(* Properties *)

Waiting(p) == {c \in Clients : requests[c] # None /\ requests[c].process = p}

\* The runs that hold a slot of p: admitted by a request, or running.
Holders(p) == tasks[p] \cup ({requests[c].run : c \in Waiting(p)} \ {None})

\* Every path, with every failure and cancellation, gives its slot back
\* once: the counter is the number of admitted requests and running tasks.
SlotsAccounted == \A p \in Processes : used[p] = Cardinality(Holders(p))

\* The run a key stands for at the moment.
Stands(k, r) ==
    \/ r \in lapsed
    \/ k \in Keys /\ reservation[k] # None /\ reservation[k].run = r
    \/ legacy # None /\ legacy.run = r

\* While a reservation lasts, no second run is started for its key, by
\* whichever process and after however many retries; and no run twice.
StartedOncePerKey ==
    /\ \A r \in launched : Stands(origin[r].key, r)
    /\ \A p1, p2 \in Processes : p1 # p2 => tasks[p1] \cap tasks[p2] = {}

\* A 202 response names a run of the same principal for the same question,
\* and while the reservation lasts every response to it names that run.
AnswersAgree ==
    \A a \in answers :
        /\ origin[a.run] = [key |-> a.key, body |-> a.body]
        /\ Stands(a.key, a.run)

\* A reservation never names a run that cannot be read: a retry is answered
\* with the run, not with an error.
ReservedRunReadable ==
    \A k \in Keys : reservation[k] # None => reservation[k].run \in snapshots

\* A run that a 202 response named although no task was started for it: the
\* handler met its own reservation, written by the script whose reply was
\* lost.  Nothing removes its entry from store.agent_runs before a restart.
AnsweredUnstarted(r) == r \notin launched /\ \E a \in answers : a.run = r

\* A process remembers the runs it works on.  Of all the ways out of the
\* handler and of the task, refusals, failures and cancellations among them,
\* only the one above leaves an entry behind.
LocalRunsAccounted ==
    \A p \in Processes : \A r \in local[p] :
        r \in Holders(p) \/ AnsweredUnstarted(r)
=============================================================================
