# A verification project for LawPath

LawPath answers everyday legal questions. A Streamlit frontend talks to a
FastAPI backend; the backend runs an analysis in the background (intake, tool
selection, searches through an MCP server over PostgreSQL/pgvector, answer and
citation check), keeps the state of the run in Redis and streams its progress
to the browser. Results are kept for members in PostgreSQL and for guests in
Redis, for an hour. Scripts fill the corpus that is searched.

This directory holds TLA+ models of the parts of LawPath whose correctness
depends on interleavings, failures and order, the TLC configurations that check
them, and proofs of the most important results.

## 1. The system: components, state, operations

| Component | State | Operations | What makes it correct |
|---|---|---|---|
| Run worker (`backend/app/services/agent_run_service.py`) | the run dict in `store.agent_runs`, the asyncio task | start, progress callback, publish, fail, deadline, shutdown | ends, stops when it loses its revision, saves before it publishes, forgets finished runs |
| Run store (`agent_run_store.py`) | `lawpath:run:<id>`, reservations | save script, interruption script, reservation script | transitions, growing event log, one outcome, no resurrection after expiry |
| Admission (`routers/mock_api.py`, `run_capacity.py`) | slot counter per process, reservations | `POST /api/agent-runs` | one run per key, own run only, slots given back once |
| Event stream (`mock_api.py`, `frontend/clients/agent_stream.py`) | last event id on both sides | SSE generator, reconnecting client | every event once and in order, the outcome shown is the run's |
| Guest history (`guest_session_service.py`) | one JSON array per guest with a TTL | compare-and-set save, list, clear | no lost record, one record per run |
| Saved conversations (`saved_conversation_service.py`, repository) | tables of migrations 001-006 | idempotent save, delete, restore, context of a follow-up | stored whole and once per execution key, owner only |
| Term chat (`legal_terms.py`, `legal_term_run_store.py`) | short-lived results, saved chats | chat, save | as above |
| Answer pipeline (`agents/`, `legal_question_service.py`, `answer_contract.py`, `evidence_context.py`, ...) | none between requests; parallel tool tasks and a callback lock within one | assess, select, search, report, merge, write, review, repair, fall back | claims rest on the documents shown, progress in order, every request ends |
| Synchronous endpoint (`routers/legal.py`) | `store.idempotency` | `POST /api/legal/questions`, single searches | one answer per key |
| Search server (`legal_mcp`) | query cache, embedding clients | hybrid search, cached load, lease of a client | one load per cold key, no client closed in use, no better candidate left out |
| Sessions and accounts (`session_service.py`, `auth_service.py`, `mock_store.py`) | opaque tokens in Redis or memory, accounts | register, login, read, logout, deactivation | a refused token opens nothing, one account per email |
| Community (`mock_api.py`, `mock_store.py`) | dicts in process memory, threads | ask, answer, comment, edit, resubmit, remove, FAQs | private records for their owner, removed records stay away |
| Pages (`frontend/core`, `frontend/components`) | Streamlit session: token, user, what is shown | one request at a time, time limit, logout | nothing of another user is shown |
| Corpus (`database/ingestion`, `database/scripts`) | files under `database/raw`, `legal_documents`, `legal_chunks` | collect, normalize, chunk, embed, save, `--only-new` | text, chunks and vectors of one edition; a rerun repairs |
| Database pool (`db/pool.py`, `main.py`) | the pool | lazy open, close | opened once, closed after the last run |

Components interact like this: a browser's request is admitted (slot, then
reservation in Redis), the reservation carries the first snapshot of the run,
the task takes over the slot and writes further snapshots under a revision
check, every API process answers status and event requests from those
snapshots, and any of them may declare an overdue run interrupted. The task
calls the search server and the models through callbacks that save progress,
then PostgreSQL or the guest history, and only then publishes the result.

What is hard: two writers of one key (worker and readers) and saves that are
delayed, lost or resent; a deadline that may fire at any await, with clean-up
that itself awaits; crash and shutdown without resumption; the reservation
race between processes; slots that are handed from a request to a task;
compare-and-set with bounded retries; saves repeated by the run and by the user
while another request deletes; leases on shared clients; parallel tools that
report through one lock while a sibling fails; records of the board that a
handler still holds when another removed them; scripts that are interrupted
between embedding and commit, or run twice at a time over changing files.
`PROJECT.json` lists each hazard at its line with the properties that cover it.

## 2. Modules

| Module | Models |
|---|---|
| `RunSnapshot` | the snapshot, the save script and the interruption script |
| `RunLifecycle` | abstract: what a reader of a run may rely on |
| `AgentRun`, `MCAgentRun` | worker, Redis, readers; implements `RunLifecycle` |
| `RunAdmission`, `MCRunAdmission` | idempotent admission and capacity slots across processes |
| `EventStream`, `MCEventStream` | the event stream and the session that follows it, over any run that keeps `RunLifecycle` |
| `Lists` | pure: what a selection keeps of a list, as a recursive function |
| `GuestHistory` | the optimistic updates of a guest's history |
| `SavedConversations` | analyses and term chats of members in PostgreSQL, statement by statement |
| `Histories`, `MCHistories` | `GuestHistory` or `SavedConversations`, as the asker's role decides |
| `SearchThreads` | the threads that `QueryCache` and `EmbeddingClients` have in common |
| `QueryCache` | the cache with one load per key |
| `EmbeddingClients`, `MCEmbeddingClients` | leases on the shared clients |
| `HybridSearch`, `MCHybridSearch` | a search through two caches and a shared client, with shutdown; extends `QueryCache` and `EmbeddingClients`, and has a second instance of `QueryCache` for the vectors |
| `Retrieval` | pure: candidates, fusion and ranking of one search |
| `Answers`, `MCAnswers` | one question through intake, tools, context, draft, review, repair, fallback; uses `Retrieval` |
| `Corpus` | pure: what normalizers and chunkers make of a source |
| `Ingestion`, `MCIngestion` | files, the ingestion scripts of every kind, and the corpus tables; uses `Corpus` |
| `Web`, `MCWeb` | browser pages, login sessions, accounts and the community board |
| `AgentRunProofs`, `HybridSearchProofs`, `HistoriesProofs`, `AnswersProofs`, `IngestionProofs`, `WebProofs` | the theorems about the module each is named for; those of `Histories` are about both of its parts, those of `Answers` and `Ingestion` about `Retrieval` and `Corpus` too |
| `RunRoutesProofs` | the theorems about `RunAdmission` and `EventStream`, the routes of a run |
| `SearchPartsProofs` | the theorems about `QueryCache` and `EmbeddingClients` |

## 3. How the modules correspond to the code

### RunSnapshot

One record per snapshot: `status`, `revision`, `events`, `result`, `error`. The
log is the sequence of event names; the ids 1..n of the code are its positions.
Fields that nobody assigns after creation (owner, question, created_at, ...)
are left out, and with them the `identity` check of the save script, which
compares only such fields, and the check that ids are consecutive, which
`append_event` and the interruption satisfy by construction. `SaveVerdict`
answers as the Lua script does, test by test; `InterruptResult` is the second
script. Comparing decoded records stands for comparing the raw strings: two
snapshots of a run with equal revisions differ in `updated_at` only if their
contents differ too.

### AgentRun

A step is the code between two awaits. `pc` is the await at which the task is
suspended, `stage` what a pending save is for, `cause` the exception that
continues when it is over:

| `pc`, `stage` | where the task is |
|---|---|
| `ready` | created by `start_run`, not yet scheduled |
| `saving`, `start` | first save, outside the inner `try` |
| `context`, `analysis`, `storing`, `guest` | reading the conversation, answering, saving for a member, saving for a guest |
| `saving`, `step` / `validated` | save of a progress event; `validated` is the one inside the intake agent's `try` |
| `saving`, `final` | the save in the inner `finally` |
| `saving`, `last` | the save in `execute_run`'s handler, outside the deadline |
| `done` | ended, adopted a newer snapshot, cancelled or crashed |

`Send` puts a request into `saves`. `SaveExecutes` runs the script on it: the
reply reaches the worker, or is lost, and the request may stay there and be
executed once more (the Redis client resends a command after a broken
connection). `Abandoned` keeps or drops the request the worker stops waiting
for. `Timeout`, `Shutdown` and `Crash` may happen at any await. A reader is
`ReadTerminal`, or `ReadOverdue` followed later by `Interrupt`, with the
snapshot it read in between in `poll`.

Step events stand for all progress events; the intake has two of them, a
search or the generation one each, `SearchSteps` in all. When the save of one
search fails or conflicts, a search that waited for the callback lock may still
append its event and send its save before it is cancelled (`SearchReported`).

### RunAdmission

A request walks through the awaits of `create_agent_run`: `look` (GET of the
current, then of the legacy reservation), `read` (the snapshot it names), once
before admission and once inside `reserve_run`, `reserve` (the script),
`reread` (the snapshot of the winner), `created`. A run holds at most one slot,
so the model names a slot after its run; `released` is `RunSlot.released`.
`ReserveExecutes` may lose its reply, and then runs again or fails;
`RequestFails` stands for a store failure and for cancellation at any await and
may leave the script on its way (`late`). Task ends, expiry and crashes come
from the environment.

If the reply to the reservation is lost and the resent script meets the
reservation it wrote before, the handler takes its own run for a duplicate: it
answers 202, starts nothing, and leaves the run's entry in `store.agent_runs`.
`AnsweredUnstarted` names that case, which `LocalRunsAccounted` excepts. No
property forbids it; what is checked is that it does no further harm: no second
run starts for the key, the slot is given back, no other entry is left, and the
run settles, since its readers interrupt it (`RunSettles` of `AgentRun`).

### EventStream

The run is not `AgentRun` but its contract: `RunMoves` lets it take any step
that `RunLifecycle` allows, with any number of new events. Since
`AgentRun` implements that contract (section 5), what holds here holds for a
session that follows a real run. `Poll` is one round of the generator: it puts
all pending events on the `wire`, and a status that is final ends the stream.
`Break` cuts the connection after any number of those events.

| `pc` | where `receive_run` is |
|---|---|
| `idle` | not called; the session keeps `last_id` and the run |
| `check` | before an attempt, at the snapshot |
| `connect`, `reading` | opening the stream, at its next line |
| `final` | at the snapshot after a terminal event |
| `last` | at the snapshot after the attempts |
| `finished` | the session has an outcome |

`outcome` is what the call told its caller; `mismatch` is the contract error of
a terminal event whose result is not stored. `lastId` stands for both
`pending["last_id"]` of the session and the local `last_id`, which change
together. `shown` and `told` are history variables.

The proofs about `AgentRun` say nothing of finding 2: there a run ends without
a terminal event. `RunLifecycle!Finish` allows that, and the session learns the
outcome from the snapshot when the stream ends.

### GuestHistory, SavedConversations, Histories

*Guests.* A call of `_save_record` is at its `get`, at its `eval`, or over.
`Save` is the script with its reply, `SaveUnanswered` the script whose reply was
lost, so that the client library sends it again; `Fail` ends a call and may
leave its script on the way (`late`). `Clear` and `Expire` empty the list; the
code treats a missing key and an empty list alike (`raw or ''`, `if raw`). A
record is the call that made it and its run. `changes` counts the changes of the
list during a call, `reported` holds the records whose save succeeded.

*Members.* A step is one statement or one await. A caller is an answer (a run's
worker, a term chat's request) or a request of the routes that save, open or
delete. `at` says where it is: waiting for a connection (`acquire`), at its
first or second statement (`first`, `second`), before the commit (`commit`),
producing the answer (`analysing`), with the rows of a page in its hands
(`shown`). A connection counts against `Connections` from the first statement
on. The row of a save is kept with its caller until `Commit`, so what a
transaction writes is invisible before; another save or deletion of the same
row waits (`Locked`). `Break` is a failing wait for the pool or a lost
connection: the transaction is rolled back, or it has committed and only the
confirmation is lost. `CategoryCheck` is
the check constraint of migration 006. `MaxId` bounds the conversations ever
inserted.

`Histories` starts as a guest's session or as members' and then takes steps of
that history only, as `role` in the code decides where a record goes.

### QueryCache

A step is what a thread does while it holds the lock, or one operation on a
future. A waiter of a future gets the outcome in the step that resolves it, so
the order in which threads wake up is left out: a waiter does nothing with the
cache afterwards. `resolved` is an owner between resolving its future and
removing it from `pending`; who misses in between shares the old outcome, as in
the code. Entries carry `fresh` in place of a time; `Lapse` is the clock. A
time to live of zero bypasses the cache and is left out.

### EmbeddingClients

A step is what a thread does while it holds the condition's lock. `closer` is
where a call of `close` is: `draining` waits for the users, `drain` has been
woken; `waiting` waits for another call, `woken` may go on. Closing a
client may raise (`broken`); the lease is removed all the same. Each client is
created at most once, which bounds the rotations by `Clients`.

### HybridSearch

A thread's search is a call of the result cache whose loader is a call of the
vector cache whose loader leases a client. The module extends `QueryCache` and
`EmbeddingClients`, which have their threads in common (`SearchThreads`), and
instantiates `QueryCache` once more for the vectors; `Search` begins a search and
`CloseServer` is the lifespan's end; every other action is one step of one of the three, at the place in the
loader where the code takes it. The key of a vector is the query with the
configuration that `create_embedding` reads (`VectorKeys`), so searches of one
query under two configurations embed it twice. A loader may fail before it asks
for the vector (`LoaderFails`); database search and ranking are part of
`ResultLoaded`, which may fail.

### Retrieval, Answers

`Retrieval` states what one search returns: `VectorRows` and `KeywordRows` are
the candidates of the two SQL statements, as sets of rows with the place `at`
where the merge meets them, `HybridSearched` joins, fuses
(`weighted` or `rrf`), filters by the threshold and keeps the best chunk of each
document. A sort is `RankedBy`: the place of a member is one more than the number
of those ahead of it. Reciprocal ranks are integers, parts of a `Unit` so large
that rounding them reverses no order. A chunk is its document, its place, how near its vector is to the
question (`Unembedded` if there is none) and what each keyword adds. A document
without chunks is one `Chunkless` record: keywords find it, vectors do not.
`BestCandidatesFirst` starts from the candidates. The LIMIT of the vector SQL
counts chunks, so many near chunks of one document may keep another document
out of the candidates; that is in `VectorRows`, and no property forbids it.

`Answers` takes one request through the pipeline, a step per await. `step` is
where the request is; `call` what each tool's task does; `reporting` is
the holder of `callback_lock`; `events` is what the event callback has been
told. When a tool fails or the deadline fires, `Unwind` cancels the others;
each ends at its await (`Cancelled`), one inside the callback perhaps after its
effect, and only then the error is raised (`Unwound`): that is
`asyncio.gather` with the clean-up around it. A text is a sequence of
sentences, each with how well it matches the question and whether it opens an
exception. The model may write any draft over the citable quotations or spans
and some it must not cite; a reviewer may judge any claim either way. The mode
(`quotes`, `spans`, `verified`), fusion and corpus are part of the request. A
draft has at most `MaxClaims` claims with one citation each. `Complete` is the
end of an answer: the callback is told `generation_completed`, and may still
raise or meet the deadline after that, which fails the request.

### Corpus, Ingestion

In `Corpus` a text is the sequence of its sentences' lengths. `SectionsOf` gives
the sections a normalizer of each kind reads out of a version of a source (of a
guideline with its `preface`, the title and publisher put before the pages),
`ChunksOf` the chunks its chunker makes of them, cut at `MaxCharacters` with
`Overlap`.

In `Ingestion` files are collected, placed, replaced or discarded while script
runs go on. A run takes the steps of its script's `main`: it reads all its files
(`Start`), asks the database which are done (`Choose`, `--only-new`), embeds the
chunks (`Embed`) and saves in one transaction (`Commit`); `Abort` may end it
anywhere. The saves differ from script to script in what they compare before
they overwrite. The `Repairer` is an operator who follows the documentation of
the scripts: all files, with embeddings, with `--only-new` where there is one.
`MaxEdits` bounds how often a file is replaced or deleted. In one behaviour all
files are of one kind, so `--source all` of the case script, which reads XML and
PDF files in one run, is left out. Each file is one document: two files with
the same court and case number, which would share an `external_id`, are assumed
away.

### Web

A page is a browser session. It sends one request at a time but may give up
waiting; the handler goes on and its answer is dropped. A handler's steps are
its awaits and, on the board, its accesses to the shared dicts: routes run in a
thread pool without a lock. `pc` names the step reached (`hashed` after the
password hash, `known` after the session was read, `found` when it holds a
record, `linking` before the second lookup of `resubmit` and `edit_faq`, ...). A record found
before another handler removed it stays in the hands of its finder, as a Python
object does. A scene fixes what the pages do in one behaviour: the session mode
(`mock`, `memory`, `redis`), the operations and how many requests are sent.
In memory mode an expired session is removed when it is read; in Redis mode it
disappears by itself. `Cleared` takes away everything a page fetched. Drafts
typed into the board's forms and the notice of a created question are not in
the list of `clear_private_state`; they stay in the browser session, were never
fetched, and are not modelled.

## 4. Runs

| Run | Instance | Shows |
|---|---|---|
| `run` | 1 reader, 2 search steps | types and the inductive invariant (`IInv`), one outcome, saved before shown, only stale saves are rejected, finished runs are forgotten; the run implements `RunLifecycle`; a polled run settles, the worker ends |
| `rejected_writer` | 1 reader, 1 step | finding 1: a rejected writer writes once more |
| `result_announced` | 1 reader, 1 step | finding 2: a result without its terminal event |
| `admission` | 2 processes, 2 clients, 1 key, 2 bodies, 2 fresh runs and a reservation of the older release, capacity 1 | one start per reservation, agreeing answers, readable reservations, no run left behind, slots accounted for |
| `event_stream` | 3 events, 5 saves, 3 attempts as in the code | every event once and in order, the session's outcome is the run's; calls end, outcomes arrive |
| `histories` | guest: 3 saves of 2 runs, 2 attempts; members: 2 members, 2 analyses, 1 term chat, 2 requests, 2 connections, 2 ids | nothing reported is lost, conversations are whole, follow-ups have their context, the guest's list changes as whole updates |
| `term_chats` | 1 member, 1 term chat | finding 3: the database refuses a member's term chat |
| `embedding_clients` | 3 threads, 2 calls of close, 2 configurations, 3 clients | nothing closed in use, nothing leaked, closing drains, every close returns |
| `hybrid_search` | 3 threads, 1 query with 2 filters, 1 configuration, 1 client, 1 entry, 1 close | loads shared, waiters served, failures forgotten, one request per query; every search answers; no deadlock |
| `corpus` | 6 kinds, 2 files with 5 editions, 2 script runs, 1 edit | vectors match their texts, chunks their document; a documented rerun repairs |
| `answers` | 3 small corpora, both categories, all citation modes, both fusions, filtered or not; drafts of 2 claims; single searches | answers rest on documents shown, no better candidate is left out, progress in order, every request ends |
| `web` | 2 pages, 2 accounts, 1 email and the administrator's, 2 tokens, 2 records, 2 threads, 4 requests; accounts in three modes, the board | a page shows only its user's data, one account per email, removed records stay away |

Bounds. One reader of a run races with the worker; readers meet each other only
in the snapshot, and two were checked for the safety properties (1.8 million
states), which the proofs cover for any number. Two search steps give a
save that overtakes another and a sibling that reports after a failure. Two
requests are the least that race for a key; requests repeat, so a client's
retry after a lost answer is there, and each run id is generated once, which
bounds the number of admissions by `Runs`. A capacity of one makes the requests
of a process contend, and a slot given back twice would be counted below zero.
Three savers over two runs of a guest are the least in which one call loses to
two others, one of them for its own run; two attempts instead of eight reach
the end of the loop. Among members, worker, button and one more request meet at
one row; the third caller that wants a connection waits. Three threads are the
least in which two wait for one load or hold an old client when a third rotates
it. One query suffices in `HybridSearch`, since searches of different queries
meet only in the client and in eviction. In `corpus` the editions are a text
of one chunk, one that is cut, one that differs in its header only, a garbled
one and one that no normalizer takes. In `answers` two chunks of one case, a
case only keywords find, an unembedded law, a law without chunks, a text too long for its budget and
exceptions after a rule are there. In `web` four requests are a registration or
login, an action, a late answer and a logout.

`CHECK_DEADLOCK FALSE` stands where a system may come to rest: a worker that
ended with nobody polling, a script that is not run again, pages that sent their
last request. The threads of `hybrid_search` never rest for good; deadlock is
checked there.

Symmetry is used in `admission`, `histories` and `web`, whose runs check safety
only.

Every property of a passing run has a mutant, a definition with a plausible bug
next to the original (`AdoptWithoutPop`, `SaveVerdictWithoutRevision`, ...);
nothing refers to them, and the property fails when they replace the original.

### Fairness

- `AgentRun!FairSpec`: readers keep polling (the event route does so
  every half second) and the clock runs (`Age`); the event loop runs a ready
  task; `asyncio.timeout` fires; and Redis answers or its connection breaks.
  Nothing is assumed of searches, models, PostgreSQL or the guest history: the
  deadline ends waiting for them. The last assumption is one the code does not
  enforce itself: the Redis client has no socket timeout, and the save in
  `execute_run`'s handler runs outside the deadline.
- `EventStream!StreamFairSpec`: the page's script runs and the clock moves
  (`Receiver`, `Tick`), the generator polls, and the user asks again (`Ask`;
  without it a call that was cut off would be the last). `SF(Check)`: a request
  for the snapshot that is repeated for ever is answered once; `CallEnds` does
  not need it.
- `EmbeddingClients!LeasesFairSpec` and `HybridSearch!FairSpec`: threads run, requests
  end (the client has a timeout of 20 seconds and one retry) and a woken thread
  gets the lock.
- `Answers!Spec`: weak fairness of the whole, since every wait of the pipeline
  has a time limit of its own or the run's.
- `Ingestion!FairSpec`: strong fairness of the steps of the operator who follows
  the documentation, whom other runs or edits may interrupt, but not always. The
  consumer script never adds a vector that is missing, with whatever flags it is
  run: a document with the same text is skipped. `RerunRepairs` leaves that kind's
  vectors out.

### Disagreements with the documents

1. *A stale writer must stop* (`run_state` contract). The
   `validation_completed` callback saves inside `IntakeAgent.assess`, whose
   `except Exception` turns a `SnapshotConflictError` into
   `IntakeAssessmentError`; the worker then saves a failed snapshot. The store
   rejects it, so no reader sees it.
2. *A terminal event follows the stored result.* A deadline or shutdown during
   the guest's history write saves a completed run without `run.completed`.
3. *A member's term chats are saved.* The application inserts them with the
   category `legal_terms`, which the check constraint of migration 006 does not
   list: the insert fails and the route answers 503.

## 5. Proofs

What a run shows on its instance, the theorems show for every value of the
constants. Each module of proofs has one inductive invariant, one lemma per
action that it is preserved, and the properties as its consequences.

`AgentRunProofs`, for any set of readers and any number of search steps:
`Invariance` (`Spec => []IInv`), `TypeCorrect`, `OutcomeIsUnique`,
`ResultIsSavedFirst`, and `RunImplementsLifecycle` (`Spec => RefinesLifecycle`).
The assumptions are that `NoSnapshot` is not a snapshot and
`SearchSteps` a natural number. `OneOutcome` and `SavedBeforeCompleted` are
not inductive: a save on its way may later become the stored snapshot. `IInv`
adds what makes them so: every snapshot in flight is coherent (its status and
its log agree: at most one terminal event, the last one, and a failure is always
announced) and committed if it shows a result that was to be saved; the worker's
position bounds what it may send next; a reader only ever interrupts an active
snapshot; and a reported snapshot is terminal, so the scripts leave it alone.
The worker's handlers are built from a few steps (`Send`, `Finish`, `Resume`,
`Adopt`, `HandleError`, `AnalysisFailed`, `Publish`), each with a lemma of its
own. For the refinement a coherent successor of the stored snapshot is a step of
`RunLifecycle`, and both scripts write only such successors.

Its second part, under the same assumptions: `RunsContinue`
(`Spec => []ProgressInv`) and from it `RejectedSavesAreStale` and
`RunsAreForgotten`. A save may only be called stale if everything else about it
is right, so `ProgressInv` says what a save is built on: the worker's run, and
every request still on its way, continues the stored snapshot (its log is a
prefix, its status may follow) if it is based on the stored revision
(`CourseInv`, `FlightInv`); an accepted reply stored what the worker holds
(`ReplyInv`); and a task about to end has a terminal run or was told to stop
(`EndInv`).

`RunRoutesProofs` about `RunAdmission`, for any processes, clients, keys, bodies and runs and any
capacity: `AdmissionIsSound` (`Spec => []AdmissionInv`), `AdmissionTyped` and
all five properties of the run: `OneStartPerKey`, `AnswersNameOneRun`,
`ReservationsAreReadable`, `LocalRunsAreAccounted`, `SlotsAreCounted`. A
reservation, and a script that is still on its way, resent or late, names a run
that was generated for this key and body (`RedisInv`); requests hold
different runs that are not started yet (`RequestsInv`), so that a late script
cannot reserve what another request starts; a task is a started run that still
holds its slot, in one process (`TasksInv`); a process remembers a run of a
request only if it serves that request (`LocalInv`), and otherwise one of a task,
or one that was answered with 202 and never started (`LocalRunsAccounted`, itself
a part of the invariant); and the counter is the
number of slots held (`SlotsInv`), by a request or by a task, never by both.
Assumed: `AdmissionAssumption`, `NoneAssumption` (the placeholder is no run,
request or record).

`RunRoutesProofs` about `EventStream`, for any numbers of attempts, events and saves:
`StreamIsSound`, `EventsShownInOrder`, `OutcomeIsTheRuns`. What was shown is the
log up to the last id because the wire always continues where the session
stopped, and the log only grows; the outcome told is the stored one because a
terminal snapshot does not change any more.

`SearchPartsProofs` about `EmbeddingClients`, for any finite set of threads and
any sets of calls of `close`, configurations and clients: `LeasesAreSound`
(`LeasesSpec => []LeasesInv`) and from it `NoClientClosedInUse`, `CountsAreRight`,
`NoClientLeaks` and the action property `CloseDrains`. These are not inductive
on their own: a thread may hold a client only if its lease is open (`EntriesAreOpen`), a
counter is right only if a client that a rotation creates was not counted
before (`UncreatedIsUnused`). The counter is a cardinality; the lemmas
`LeaseCounts` and `ReleaseCounts` say how one thread changes it, and
`LastUserIsAlone` that a count of one means that nobody else holds the client.
`None` must not be a client or a configuration.

`SearchPartsProofs` about `QueryCache`, for any sets of threads and keys and any
size of the cache: `LoadsAreSound` (`CacheSpec => []LoadsInv`) and from it `LoadsAreShared`,
`NobodyIsForgotten` and `ErrorsAreNotCached`. The three need each other: a
future's owner is unique because its load is pending, it is pending until its
owner removes it, and a waiter is served because the owner is still loading.
The entries themselves play no part in it.

`HybridSearchProofs`, for any threads, filters, queries, clients and sizes:
`SearchesAreSound` (`Spec => []HybridInv`), `QueriesAreEmbeddedOnce`,
`SharedResultsAreSound`, `PartsKeepTheirSpecs` and `SearchesUseOpenClients`. The
lemmas about `QueryCache` are used twice, by name for the results and through an
`INSTANCE` for the vectors. What the composition adds is where a thread may be:
who holds a client is loading a vector and its request is not over
(`HoldersEmbed`), and who looks a vector up is loading a result, for the query
of its key (`LoadersLookUp`); one owner for each pending vector then means one
request for each query and configuration. `PartsKeepTheirSpecs` says that a search takes only
steps its parts take, so that theorems about `QueryCache` and
`EmbeddingClients` are true in it; `SearchesUseOpenClients` is what follows for
the clients. Assumed: `CacheAssumption`, `ClientsAssumption`,
`HybridAssumption` (every key has a query; the placeholder is no vector's key).

`WebProofs`, for any pages, accounts, emails, tokens, records and threads, any
scenes and any number of requests: `WebIsSound` (`Spec => []WebInv`), `WebTyped`
and the three properties of the run: `PagesArePrivate`, `EmailsAreUnique`,
`RemovalsAreFinal`. A page shows only its user's data because the answer that
reaches it was asked for with the token it still has: `CallsInv` says so of every
call, with what a call may still do by its position (`PageCall`, `SignInCall`,
`LateCall`, `ItemCall`), and `OneRequest` that a page waits for one call only.
`TokensInv` keeps a token with one user, `BoardInv` a removed record out of the
store although a handler still holds it. Assumed: `WebAssumption` (a page is no
user; scenes use known operations; finitely many records), `NoneAssumption`.

`HistoriesProofs`, for any savers, runs and attempts of a guest, and any
members, answers, requests, connections and ids of members:
`ReportedSavesAreKept` and `UpdatesAreAtomic`; `SavedConversationsAreWhole` and
`FollowUpsAreTheMembersOwn`. For a guest types suffice beside `ReportedIsKept`
itself, but every step needs what a selection does to a list: an element that is
selected stays, nothing else appears. For members `SavedIsWhole` is not
inductive: `MemberInv` adds that ids are unique and never used again (`OwnIds`),
that the rows of open transactions are of different answers and agree with the
stored ones (`TransactionsApart`), that what a caller holds is its own member's
(`CallsConsistent`), and that between its two SELECTs a reader's conversation
may vanish but nobody else gets its id (`ReadersApart`). Assumed:
`HistoryAssumption`, `MemberAssumption`.

`IngestionProofs`, for any kinds of sources, versions, files and selections, any
number of overlapping runs, any chunk size and any smaller overlap:
`IngestionIsSound` (`Spec => []IngestionInv`), `IngestionTypedAlways`,
`EmbeddingsMatchTexts` and `ChunksMatchDocuments`. The invariant is short: types,
runs that hold legible versions only (`ReadsAreLegible`), and rows that are sound
document by document (`RowsSound`, which is the two properties). The work is in
what the operators compute. The vectors of all chunks of a run are one sequence
and a script finds the first vector of a file by counting; `FlattenAt` says where
the elements of the k-th of many sequences come to lie, `OffsetFinds` that the
script counts right whatever files it left out. `SplitLongText` cuts a text into
pieces that repeat the end of their predecessor: `CutStep` and `CutOfCuts` say
that no cut loses a sentence, `FlattenMapped` that the chunks of the sections of a
document then hold the document (`ChunksHold`, kind by kind). `UpsertSound` is the
CASE of the upsert, `SaveConsultationsSound` the document the consumer script
leaves alone. Assumed: `CorpusAssumption` (an overlap is not longer than a chunk,
a text consists of sentences of at least one character) and
`IngestionAssumption` (files are numbered as they are read; a version is not
called absent or partial).

The selection is `Kept` of `Lists`, a recursive function, since `SelectSeq` is
a RECURSIVE operator or built from one and the provers cannot unfold it. The
library's induction theorems take an operator, which no installed prover can
instantiate; `NatInduct` and `SeqInduct` state induction with a set in its place
and are proved from the well-foundedness of `<`. From them follow the existence
and the steps of the recursion (`SelectsExists`, `KeptAppend`) and the facts the
invariants use (`KeptElements`, `KeptNone`, `KeptConcat`, `KeptKept`,
`KeptPair`). `FlattenSeq` of the community modules and `CutOf` are recursive
functions as well and are treated alike (`FlattensExists`, `CutsExist`).

`AnswersProofs`, for any requests, corpora, terms and budgets, and any settings
the code accepts: `AnswersAreSound` (`Spec => []AnswersInv`), `AnswersAreGrounded`
and `BestAreFirst`. Everything ordered in `Retrieval` and `Answers` is a
`RankedBy`, so one set of lemmas serves all: every member has a place
(`PlaceType`), no two have the same (`PlaceApart`), every place is taken
(`PlaceTaken`, by counting), hence the ranking lists each member once
(`RankedByIs`). A best candidate exists because finite sets of numbers have
maxima (`MaxIs`). `RowsAre` says that no two rows of a search are met at one
place: those of the t-th statement lie beyond `t * CandidateLimit`. Then
`MergedAre` and `RankedIs` say what the merge keeps, and `RankedBest` that who is
nearer and matches better is ranked higher: with weights because one of them is
positive, with reciprocal ranks because a better place counts for more
(`ReciprocalRises`, which is where the size of `Unit` is needed). For the answer,
`WindowIs` and `WindowsAre` say that a window ends before no exception,
`CitableIsGrounded` that what may be cited is text of a document shown, and
`RetainedShows` that the review keeps claims it supports. `AnswersInv` adds to
`AnswerIsGrounded` where the evidence comes from and that a draft under review
already stands on it. Assumed: `RetrievalAssumption` (the ranges `config.py`
enforces; the weights add up to one) and `AnswersAssumption` (corpora are
finite; document and `chunk_index` identify a chunk; the bounds are natural numbers).

Its second part, under the same assumptions: `ProgressIsSound`
(`Spec => []ProgressInv`) and the action property `ProgressIsInOrder`.
`ProgressInv` says of every tool what its task's state, the step of the request
and the events have to do with each other (`TaskInv`): a task still searching,
reporting or being cancelled keeps the request in that step, and it has not been
reported before its callback ran. So nothing is told once the request has moved
on, and that nothing found is lost in the merge is `DeduplicatedIs`.

Only model-checked: everything about liveness, which is out of the prover's
reach, and with it `RerunRepairs` of `Ingestion`: `RunSettles`, `WorkerEnds`,
`CloseReturns`, `EverySearchAnswers`, `CallEnds`, `OutcomeArrives`,
`AnalysisEnds`. Every other property of a passing run is a theorem.

## 6. What could follow

- The in-memory modes of mock deployments for runs, streams and the synchronous
  endpoint.

## 7. Not modelled

- Prompt texts, model output and ranking quality: a model answers anything of the
  declared form. Regular expressions, character clean-up and token counts of the
  corpus are abstracted to sentences and their lengths.
- Mock-mode conversations; in mock mode also the in-memory idempotency cache, the
  event generator over the live dict and runs without Redis. The synchronous
  question endpoint with its own idempotency table: two equal requests may both
  run, which its hazard records; the pipeline it calls is in `Answers`.
- Lists and history pages that only read, and their order; the detail lookups and
  the search scripts, which read and print; notifications and the log of removals
  of the board.
- Of two hazards the outcome is modelled but not forbidden: the run that is
  answered with 202 and never started (section 3, RunAdmission), and the partial
  download that is skipped for ever because it exists; every run over it fails
  until someone deletes it (`Discard`), and `RerunRepairs` speaks only of sources
  that can be ingested from some time on.
- The lazy creation of the database pool and the lifespan around it; wrappers of
  the model providers and the MCP transport.
- Streamlit rendering, benchmark, review and document scripts, deployment.

`PROJECT.json` gives the reason for each component.
