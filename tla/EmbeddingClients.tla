-------------------------- MODULE EmbeddingClients --------------------------
(***************************************************************************)
(* The shared embedding client of the search server                        *)
(* (legal_mcp/providers/embedding_provider.py, class EmbeddingClients).    *)
(* Searches lease the client of the current configuration from worker      *)
(* threads, a changed configuration retires the client before it, and the  *)
(* end of the HTTP server drains and closes what is left.  A step is the   *)
(* code that runs while a thread holds the lock of the condition.          *)
(***************************************************************************)
EXTENDS SearchThreads, Naturals, FiniteSets

CONSTANTS
    Closers,        \* calls of close()
    Configurations, \* (model, dimension, hash of the API key)
    Clients         \* the clients ever created

ASSUME ClientsAssumption ==
    /\ IsFiniteSet(Threads)
    /\ None \notin Clients \cup Configurations

VARIABLES
    current,        \* the lease of the current configuration
    entries,        \* the leases not disposed of
    key,            \* the configuration of a lease
    users,          \* _Lease.users
    retired,        \* the leases with the flag set
    closing,        \* close() is under way
    open,           \* clients whose connections are not closed
    broken,         \* clients whose close() raised
    holds,          \* the client a thread is embedding with
    closer          \* where a call of close() is

leaseVars == <<current, entries, key, users, retired>>
clientVars == <<leaseVars, closing, open, broken, holds, closer>>

LeasesTypeOK ==
    /\ current \in Clients \cup {None}
    /\ entries \in SUBSET Clients
    /\ key \in [Clients -> Configurations \cup {None}]
    /\ users \in [Clients -> Nat]
    /\ retired \in SUBSET Clients
    /\ closing \in BOOLEAN
    /\ open \in SUBSET Clients
    /\ broken \in SUBSET Clients
    /\ holds \in [Threads -> Clients \cup {None}]
    /\ closer \in [Closers -> {"idle", "draining", "drain", "waiting",
                               "woken", "returned"}]

LeasesInit ==
    /\ current = None
    /\ entries = {}
    /\ key = [c \in Clients |-> None]
    /\ users = [c \in Clients |-> 0]
    /\ retired = {}
    /\ closing = FALSE
    /\ open = {}
    /\ broken = {}
    /\ holds = [t \in Threads |-> None]
    /\ closer = [k \in Closers |-> "idle"]

-----------------------------------------------------------------------------
(* Disposing and waking *)

\* _dispose for each of a set of leases.  close() raises for some of them.
\* Their connections may stay open; the leases are forgotten all the same.
Dispose(old, left) ==
    \E raised \in SUBSET old :
        /\ entries' = left \ old
        /\ open' = (open \ old) \cup raised
        /\ broken' = broken \cup raised

\* Mutant: nobody is told.
NotWoken == closer

\* notify_all: a thread that waits for the drain or for another close() wakes.
Woken == [k \in Closers |-> CASE closer[k] = "draining" -> "drain"
                              [] closer[k] = "waiting" -> "woken"
                              [] OTHER -> closer[k]]

NotifyAll == closer' = Woken

-----------------------------------------------------------------------------
(* acquire and the end of a lease *)

Lease(t, c) ==
    /\ holds' = [holds EXCEPT ![t] = c]
    /\ users' = [users EXCEPT ![c] = @ + 1]

Serves(k) == current # None /\ key[current] = k

\* The configuration is the current one.
Reuse(t, k) ==
    /\ holds[t] = None
    /\ ~closing
    /\ Serves(k)
    /\ Lease(t, current)
    /\ UNCHANGED <<current, entries, key, retired, closing, open, broken,
                   closer>>

\* Mutant: the client before is closed although others use it.
UnusedUnchecked(c) == {c}

\* What is disposed of when a lease retires: nothing that is still used.
Unused(c) == {d \in {c} : users[d] = 0}

\* A new configuration: the lease before it, if any, retires.  If closing an
\* unused one raises, the new lease is in place but the search fails.
Rotate(t, k, c) ==
    /\ holds[t] = None
    /\ ~closing
    /\ key[c] = None
    /\ ~Serves(k)
    /\ key' = [key EXCEPT ![c] = k]
    /\ current' = c
    /\ LET old == IF current = None THEN {} ELSE Unused(current)
       IN  \E raised \in SUBSET old :
            /\ retired' = retired \cup ({current} \ {None})
            /\ entries' = (entries \cup {c}) \ old
            /\ open' = (open \ old) \cup raised \cup {c}
            /\ broken' = broken \cup raised
            /\ IF raised = {} THEN Lease(t, c)
                              ELSE UNCHANGED <<holds, users>>
    /\ UNCHANGED <<closing, closer>>

\* Mutant: a retired client is left to the next close().
LastUseOfNothing(c) == {}

\* The lease to dispose of after its last user.
LastUse(c) == {d \in {c} : d \in retired /\ users[d] = 1}

\* The request returned or failed: the finally clause of acquire.
Release(t) ==
    LET c == holds[t]
    IN  /\ c # None
        /\ holds' = [holds EXCEPT ![t] = None]
        /\ users' = [users EXCEPT ![c] = @ - 1]
        /\ Dispose(LastUse(c), entries)
        /\ NotifyAll
        /\ UNCHANGED <<current, key, retired, closing>>

-----------------------------------------------------------------------------
(* close *)

\* Mutant: close() does not wait for the searches under way.
DrainedAtOnce == entries \in SUBSET Clients

Drained == \A c \in entries : users[c] = 0

\* The end of close(): every lease goes, and those who wait are told.
Finish(k) ==
    /\ Dispose(entries, entries)
    /\ current' = None
    /\ closing' = FALSE
    /\ closer' = [Woken EXCEPT ![k] = "returned"]
    /\ UNCHANGED <<key, users, retired, holds>>

Wait(k) ==
    /\ closer' = [Woken EXCEPT ![k] = "draining"]
    /\ closing' = TRUE
    /\ UNCHANGED <<leaseVars, open, broken, holds>>

Close(k) ==
    /\ closer[k] = "idle"
    /\ ~closing
    /\ IF Drained THEN Finish(k) ELSE Wait(k)

\* The loop of close(), after wait() returned.
Drain(k) ==
    /\ closer[k] = "drain"
    /\ IF Drained
       THEN Finish(k)
       ELSE /\ closer' = [closer EXCEPT ![k] = "draining"]
            /\ UNCHANGED <<leaseVars, closing, open, broken, holds>>

\* Another close() is under way: wait_for.
CloseAgain(k) ==
    /\ \/ closer[k] = "idle" /\ closing
       \/ closer[k] = "woken"
    /\ closer' = [closer EXCEPT ![k] = IF closing THEN "waiting" ELSE "returned"]
    /\ UNCHANGED <<leaseVars, closing, open, broken, holds>>

Embed(t) ==
    \/ \E k \in Configurations :
        \/ Reuse(t, k)
        \/ \E c \in Clients : Rotate(t, k, c)
    \/ Release(t)

Shut(k) == Close(k) \/ Drain(k) \/ CloseAgain(k)

LeasesNext ==
    \/ \E t \in Threads : Embed(t)
    \/ \E k \in Closers : Shut(k)

LeasesSpec == LeasesInit /\ [][LeasesNext]_clientVars

\* Requests end (the client's timeout is 20 s with one retry), and a thread
\* that was woken runs.
LeasesFairSpec ==
    /\ LeasesSpec
    /\ \A t \in Threads : WF_clientVars(Release(t))
    /\ \A k \in Closers : WF_clientVars(Drain(k)) /\ WF_clientVars(CloseAgain(k))

-----------------------------------------------------------------------------
(* Properties *)

Holders(c) == {t \in Threads : holds[t] = c}

\* No client is closed while a search uses it, whatever rotation or shutdown
\* happens meanwhile, and its lease is not forgotten.
InUseIsOpen ==
    \A t \in Threads : holds[t] # None => holds[t] \in open \cap entries

\* users counts the searches that use a client: a lease is neither lost by a
\* request that fails nor given back twice.
UsersCounted == \A c \in Clients : users[c] = Cardinality(Holders(c))

\* Only the current client and old ones still in use are kept, and nothing
\* else is open but clients whose close() failed
\* (docs/EMBEDDING_CLIENT_REUSE.md).
NothingLeaks ==
    /\ \A c \in entries : c = current \/ (c \in retired /\ users[c] > 0)
    /\ open \subseteq entries \cup broken
    /\ current # None => current \in entries \ retired

\* A lease that is not disposed of has an open client.
EntriesAreOpen == entries \subseteq open

\* A client that was not created yet is nowhere.
UncreatedIsUnused ==
    \A c \in Clients : key[c] = None =>
        c \notin entries \cup open \cup retired \cup {current}

\* The inductive invariant.
LeasesInv ==
    /\ LeasesTypeOK
    /\ InUseIsOpen
    /\ UsersCounted
    /\ NothingLeaks
    /\ EntriesAreOpen
    /\ UncreatedIsUnused

\* While it closes, nobody acquires a client; and when close() lets go of the
\* current client, all searches have returned theirs and no client stays open.
ClosingDrains ==
    [][ /\ closing => \A t \in Threads : holds'[t] \in {holds[t], None}
        /\ current # None /\ current' = None =>
              /\ \A t \in Threads : holds'[t] = None
              /\ open' \subseteq broken' ]_clientVars

\* close() returns: no wake-up is missed.
CloseReturns ==
    \A k \in Closers : closer[k] # "idle" ~> closer[k] = "returned"

=============================================================================
