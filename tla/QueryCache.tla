----------------------------- MODULE QueryCache -----------------------------
(***************************************************************************)
(* The cache of the search server (legal_mcp/core/cache.py): entries with  *)
(* a time to live, the least recently used evicted first, and one load for *)
(* all callers that miss the same key at the same time.  A step is the     *)
(* code a thread runs while it holds the lock, or one operation on a       *)
(* future.  A caller that is about to wait gets the outcome when the       *)
(* future is resolved.  A ttl of zero bypasses all of this.                *)
(***************************************************************************)
EXTENDS SearchThreads, Naturals, Sequences

CONSTANTS
    Keys,           \* cache keys
    MaxEntries      \* max_entries

VARIABLES
    values,         \* the OrderedDict: entries, least recently used first
    pending,        \* the futures of the loads under way
    calls           \* the calls of get_or_load

cacheVars == <<values, pending, calls>>

Entries == [key: Keys, fresh: BOOLEAN]
Outcomes == {"value", "error"}
Futures == [owner: Threads, outcome: Outcomes \cup {None}]
Calls == [at: {"idle", "waiting", "loading", "stored", "resolved", "answered"},
          key: Keys \cup {None}, outcome: Outcomes \cup {None}]

ASSUME CacheAssumption ==
    /\ MaxEntries \in Nat \ {0}
    /\ None \notin Keys \cup Futures \cup Outcomes

NoCall == [at |-> "idle", key |-> None, outcome |-> None]

LoadsTypeOK ==
    /\ pending \in [Keys -> Futures \cup {None}]
    /\ calls \in [Threads -> Calls]

\* No key is cached twice and no more than max_entries of them.
CacheTypeOK ==
    /\ values \in Seq(Entries)
    /\ Len(values) <= MaxEntries
    /\ \A i, j \in DOMAIN values : values[i].key = values[j].key => i = j
    /\ LoadsTypeOK

CacheInit ==
    /\ values = <<>>
    /\ pending = [k \in Keys |-> None]
    /\ calls = [c \in Threads |-> NoCall]

-----------------------------------------------------------------------------
(* Entries *)

\* popitem(last=False) until the cache has its size again.
Newest(entries) ==
    SubSeq(entries, 1 + Len(entries) - MaxEntries, Len(entries))

Others(k) == SelectSeq(values, LAMBDA e : e.key # k)

\* Key k becomes the most recently used one.
Put(k) ==
    LET entries == Append(Others(k), [key |-> k, fresh |-> TRUE])
    IN  IF Len(entries) > MaxEntries THEN Newest(entries) ELSE entries

Cached(k) == \E i \in DOMAIN values : values[i] = [key |-> k, fresh |-> TRUE]

-----------------------------------------------------------------------------
(* get_or_load *)

Answer(c, k, outcome) ==
    calls' = [calls EXCEPT ![c] =
                 [at |-> "answered", key |-> k, outcome |-> outcome]]

Goto(c, position) == calls' = [calls EXCEPT ![c].at = position]

\* A fresh entry answers and becomes the most recently used.
Hit(c, k) ==
    /\ calls[c].at = "idle"
    /\ Cached(k)
    /\ values' = Put(k)
    /\ Answer(c, k, "value")
    /\ UNCHANGED pending

\* Somebody loads the key: its outcome, when it is there, is the answer.
Share(c, k) ==
    /\ calls[c].at = "idle"
    /\ ~Cached(k)
    /\ pending[k] # None
    /\ IF pending[k].outcome = None
       THEN calls' = [calls EXCEPT ![c] = [at |-> "waiting", key |-> k,
                                           outcome |-> None]]
       ELSE Answer(c, k, pending[k].outcome)
    /\ UNCHANGED <<values, pending>>

\* Mutant: callers that miss at the same time all load.
MissAlone(c, k) ==
    /\ calls[c].at = "idle"
    /\ ~Cached(k)
    /\ pending' = [pending EXCEPT ![k] = [owner |-> c, outcome |-> None]]
    /\ calls' = [calls EXCEPT ![c] = [at |-> "loading", key |-> k,
                                      outcome |-> None]]
    /\ UNCHANGED values

\* Nobody does.
Miss(c, k) ==
    /\ calls[c].at = "idle"
    /\ ~Cached(k)
    /\ pending[k] = None
    /\ pending' = [pending EXCEPT ![k] = [owner |-> c, outcome |-> None]]
    /\ calls' = [calls EXCEPT ![c] = [at |-> "loading", key |-> k,
                                      outcome |-> None]]
    /\ UNCHANGED values

Look(c, k) == Hit(c, k) \/ Share(c, k) \/ Miss(c, k)

\* The loader returned: the value is cached.
Store(c) ==
    /\ calls[c].at = "loading"
    /\ values' = Put(calls[c].key)
    /\ Goto(c, "stored")
    /\ UNCHANGED pending

\* The future has an outcome: everybody who waits for it goes on.
Settle(c, outcome) ==
    LET k == calls[c].key
    IN  /\ pending' = [pending EXCEPT ![k].outcome = outcome]
        /\ calls' = [d \in Threads |->
               IF d = c THEN [at |-> "resolved", key |-> k, outcome |-> outcome]
               ELSE IF calls[d].at = "waiting" /\ calls[d].key = k
                    THEN [at |-> "answered", key |-> k, outcome |-> outcome]
                    ELSE calls[d]]
        /\ UNCHANGED values

\* future.set_result
SetResult(c) == calls[c].at = "stored" /\ Settle(c, "value")

\* Mutant: an exception of the loader only reaches the one who loads.
SetExceptionForOwner(c) ==
    /\ calls[c].at = "loading"
    /\ calls' = [calls EXCEPT ![c].at = "resolved", ![c].outcome = "error"]
    /\ UNCHANGED <<values, pending>>

\* future.set_exception: the loader raised.
SetException(c) == calls[c].at = "loading" /\ Settle(c, "error")

\* Mutant: a failed load stays pending.
PopOnSuccess(c) ==
    /\ calls[c].at = "resolved"
    /\ pending' = IF calls[c].outcome = "value"
                  THEN [pending EXCEPT ![calls[c].key] = None] ELSE pending
    /\ Goto(c, "answered")
    /\ UNCHANGED values

\* The finally clause.
Pop(c) ==
    /\ calls[c].at = "resolved"
    /\ pending' = [pending EXCEPT ![calls[c].key] = None]
    /\ Goto(c, "answered")
    /\ UNCHANGED values

\* The caller has its answer and may call again.
Return(c) ==
    /\ calls[c].at = "answered"
    /\ calls' = [calls EXCEPT ![c] = NoCall]
    /\ UNCHANGED <<values, pending>>

\* The time to live of an entry is over; it stays until it is replaced.
Lapse(i) ==
    /\ values[i].fresh
    /\ values' = [values EXCEPT ![i].fresh = FALSE]
    /\ UNCHANGED <<pending, calls>>

\* clear
Clear ==
    /\ values' = <<>>
    /\ UNCHANGED <<pending, calls>>

\* What a thread does without its loader.
Proceed(c) == SetResult(c) \/ Pop(c)

CacheNext ==
    \/ \E c \in Threads :
        \/ \E k \in Keys : Look(c, k)
        \/ Store(c) \/ SetException(c)
        \/ Proceed(c) \/ Return(c)
    \/ \E i \in DOMAIN values : Lapse(i)
    \/ Clear

CacheSpec == CacheInit /\ [][CacheNext]_cacheVars

-----------------------------------------------------------------------------
(* Properties *)

\* The load of a key is known to those who look for it from its start to its
\* end, and there is one load of a key at a time.
OneLoad ==
    \A c \in Threads :
        calls[c].at \in {"loading", "stored", "resolved"} =>
            pending[calls[c].key] = [owner |-> c, outcome |-> calls[c].outcome]

\* Who waits, waits for a thread that is still going to resolve the future.
WaitersAreServed ==
    \A c \in Threads : calls[c].at = "waiting" =>
        LET future == pending[calls[c].key]
        IN  /\ future # None
            /\ future.outcome = None
            /\ calls[future.owner].at \in {"loading", "stored"}
            /\ calls[future.owner].key = calls[c].key

\* A failure is not remembered: it is known for a key only until the thread
\* whose load failed has raised it.
FailuresAreForgotten ==
    \A k \in Keys : pending[k] # None =>
        LET owner == pending[k].owner
        IN  /\ calls[owner].key = k
            /\ calls[owner].at \in {"loading", "stored", "resolved"}

\* A call that is under way has a key, and an outcome once it is resolved.
CallsAreComplete ==
    \A c \in Threads :
        /\ calls[c].at # "idle" => calls[c].key \in Keys
        /\ calls[c].at = "resolved" => calls[c].outcome \in Outcomes

\* The inductive invariant of the loads.
LoadsInv ==
    /\ LoadsTypeOK
    /\ CallsAreComplete
    /\ OneLoad
    /\ WaitersAreServed
    /\ FailuresAreForgotten

=============================================================================
