-------------------------- MODULE SearchPartsProofs --------------------------
(***************************************************************************)
(* Proofs about the parts of a search.                                     *)
(*                                                                         *)
(* QueryCache, for any threads, keys and size: a key has one load at a     *)
(* time, every waiting thread waits for a load that will tell it, and      *)
(* failures are not remembered.                                            *)
(*                                                                         *)
(* EmbeddingClients, for any finite set of threads and any number of calls *)
(* of close(), configurations and clients: no client is closed in use, the *)
(* counts are right, and nothing but the current client and those still in *)
(* use is kept.                                                            *)
(***************************************************************************)
EXTENDS QueryCache, EmbeddingClients, FiniteSetTheorems, TLAPS

-----------------------------------------------------------------------------
(* Inductive steps *)

LEMMA CacheInitInv == CacheInit => LoadsInv
  BY CacheAssumption DEF CacheInit, LoadsInv, LoadsTypeOK, CallsAreComplete,
     OneLoad, WaitersAreServed, FailuresAreForgotten, NoCall, Calls

\* The future of a key that a call loads is the one of that call.
LEMMA LoadIsPending ==
    ASSUME LoadsInv, NEW c \in Threads,
           calls[c].at \in {"loading", "stored", "resolved"}
    PROVE  /\ calls[c].key \in Keys
           /\ pending[calls[c].key] # None
           /\ pending[calls[c].key] \in Futures
           /\ pending[calls[c].key].owner = c
           /\ pending[calls[c].key].outcome = calls[c].outcome
  <1> DEFINE future == [owner |-> c, outcome |-> calls[c].outcome]
  <1>1. calls[c].key \in Keys /\ pending[calls[c].key] = future
    BY DEF LoadsInv, CallsAreComplete, OneLoad
  <1>2. calls[c] \in Calls
    BY DEF LoadsInv, LoadsTypeOK
  <1>3. future \in Futures /\ future.owner = c
        /\ future.outcome = calls[c].outcome
    BY <1>2 DEF Calls, Futures
  <1>4. None \notin Futures
    BY CacheAssumption
  <1> HIDE DEF future
  <1> QED BY <1>1, <1>3, <1>4

\* A step that leaves the loads and everybody in them alone: the call that
\* moves goes between idle and answered.
LEMMA BystanderInv ==
    ASSUME LoadsInv, NEW c \in Threads, NEW call \in Calls,
           calls[c].at \in {"idle", "answered"},
           call.at \in {"idle", "answered"},
           call.at = "answered" => call.key \in Keys,
           pending' = pending, calls' = [calls EXCEPT ![c] = call]
    PROVE  LoadsInv'
  <1>1. LoadsTypeOK'
    BY DEF LoadsInv, LoadsTypeOK
  <1>2. /\ calls'[c] = call
        /\ \A d \in Threads \ {c} : calls'[d] = calls[d]
    BY DEF LoadsInv, LoadsTypeOK
  <1>3. CallsAreComplete' /\ OneLoad'
    BY <1>2 DEF LoadsInv, CallsAreComplete, OneLoad
  <1>4. \A k \in Keys : pending[k] # None =>
            pending[k].owner \in Threads /\ pending[k].owner # c
    BY DEF LoadsInv, LoadsTypeOK, FailuresAreForgotten, Futures
  <1>5. FailuresAreForgotten'
    BY <1>2, <1>4 DEF LoadsInv, FailuresAreForgotten
  <1>6. WaitersAreServed'
    BY <1>2, <1>4 DEF LoadsInv, WaitersAreServed, CallsAreComplete
  <1> QED BY <1>1, <1>3, <1>5, <1>6 DEF LoadsInv

\* A caller joins a load that is still under way.
LEMMA WaitInv ==
    ASSUME LoadsInv, NEW c \in Threads, NEW k \in Keys,
           calls[c].at = "idle", pending[k] # None, pending[k].outcome = None,
           pending' = pending,
           calls' = [calls EXCEPT ![c] = [at |-> "waiting", key |-> k,
                                          outcome |-> None]]
    PROVE  LoadsInv'
  <1>1. LoadsTypeOK'
    BY DEF LoadsInv, LoadsTypeOK, Calls
  <1>2. /\ calls'[c] = [at |-> "waiting", key |-> k, outcome |-> None]
        /\ \A d \in Threads \ {c} : calls'[d] = calls[d]
    BY DEF LoadsInv, LoadsTypeOK
  <1>3. CallsAreComplete' /\ OneLoad'
    BY <1>2 DEF LoadsInv, CallsAreComplete, OneLoad
  <1>4. \A j \in Keys : pending[j] # None =>
            pending[j].owner \in Threads /\ pending[j].owner # c
    BY DEF LoadsInv, LoadsTypeOK, FailuresAreForgotten, Futures
  <1>5. FailuresAreForgotten'
    BY <1>2, <1>4 DEF LoadsInv, FailuresAreForgotten
  <1>6. /\ calls[pending[k].owner].at \in {"loading", "stored"}
        /\ calls[pending[k].owner].key = k
    <2>1. /\ calls[pending[k].owner].at \in {"loading", "stored", "resolved"}
          /\ calls[pending[k].owner].key = k
      BY DEF LoadsInv, FailuresAreForgotten
    <2>2. pending[k].outcome = calls[pending[k].owner].outcome
      BY <1>4, <2>1, LoadIsPending
    <2> QED BY <1>4, <2>1, <2>2, CacheAssumption
            DEF LoadsInv, CallsAreComplete
  <1>7. WaitersAreServed'
    <2> SUFFICES ASSUME NEW d \in Threads, calls'[d].at = "waiting"
                 PROVE  LET future == pending'[calls'[d].key]
                        IN  /\ future # None
                            /\ future.outcome = None
                            /\ calls'[future.owner].at \in {"loading", "stored"}
                            /\ calls'[future.owner].key = calls'[d].key
      BY DEF WaitersAreServed
    <2>1. CASE d = c
      <3>1. calls'[d].key = k /\ pending[k].owner \in Threads \ {c}
        BY <1>2, <1>4, <2>1
      <3> QED BY <1>2, <1>6, <2>1, <3>1
    <2>2. CASE d # c
      <3>1. calls'[d] = calls[d] /\ calls[d].key \in Keys
        BY <1>2, <2>2 DEF LoadsInv, CallsAreComplete
      <3>2. LET future == pending[calls[d].key]
            IN  /\ future # None
                /\ future.outcome = None
                /\ calls[future.owner].at \in {"loading", "stored"}
                /\ calls[future.owner].key = calls[d].key
        BY <3>1 DEF LoadsInv, WaitersAreServed
      <3>3. pending[calls[d].key].owner \in Threads \ {c}
        BY <1>4, <3>1, <3>2
      <3> QED BY <1>2, <3>1, <3>2, <3>3
    <2> QED BY <2>1, <2>2
  <1> QED BY <1>1, <1>3, <1>5, <1>7 DEF LoadsInv

\* A caller starts the load of a key that nobody loads.
LEMMA MissInv ==
    ASSUME LoadsInv, NEW c \in Threads, NEW k \in Keys, Miss(c, k)
    PROVE  LoadsInv'
  <1>1. /\ calls[c].at = "idle" /\ pending[k] = None
        /\ pending' = [pending EXCEPT ![k] = [owner |-> c, outcome |-> None]]
        /\ calls' = [calls EXCEPT ![c] = [at |-> "loading", key |-> k,
                                          outcome |-> None]]
    BY DEF Miss
  <1>2. LoadsTypeOK'
    BY <1>1 DEF LoadsInv, LoadsTypeOK, Calls, Futures
  <1>3. /\ calls'[c] = [at |-> "loading", key |-> k, outcome |-> None]
        /\ \A d \in Threads \ {c} : calls'[d] = calls[d]
        /\ pending'[k] = [owner |-> c, outcome |-> None]
        /\ \A j \in Keys \ {k} : pending'[j] = pending[j]
    BY <1>1 DEF LoadsInv, LoadsTypeOK
  <1>4. \A d \in Threads : calls[d].at \in {"loading", "stored", "resolved"}
                             => calls[d].key \in Keys \ {k}
    BY <1>1, LoadIsPending
  <1>5. CallsAreComplete'
    BY <1>3 DEF LoadsInv, CallsAreComplete
  <1>6. OneLoad'
    BY <1>3, <1>4 DEF LoadsInv, OneLoad
  <1>7. \A j \in Keys : pending[j] # None =>
            pending[j].owner \in Threads /\ pending[j].owner # c
    BY <1>1 DEF LoadsInv, LoadsTypeOK, FailuresAreForgotten, Futures
  <1>8. FailuresAreForgotten'
    BY <1>3, <1>7 DEF LoadsInv, FailuresAreForgotten
  <1>9. WaitersAreServed'
    <2> SUFFICES ASSUME NEW d \in Threads, calls'[d].at = "waiting"
                 PROVE  LET future == pending'[calls'[d].key]
                        IN  /\ future # None
                            /\ future.outcome = None
                            /\ calls'[future.owner].at \in {"loading", "stored"}
                            /\ calls'[future.owner].key = calls'[d].key
      BY DEF WaitersAreServed
    <2>1. d # c /\ calls'[d] = calls[d]
      BY <1>3
    <2>2. /\ calls[d].key \in Keys /\ pending[calls[d].key] # None
          /\ pending[calls[d].key].outcome = None
          /\ calls[pending[calls[d].key].owner].at \in {"loading", "stored"}
          /\ calls[pending[calls[d].key].owner].key = calls[d].key
      BY <2>1 DEF LoadsInv, WaitersAreServed, CallsAreComplete
    <2>3. calls[d].key # k
      BY <1>1, <2>2
    <2>4. pending'[calls[d].key] = pending[calls[d].key]
      BY <1>3, <2>2, <2>3
    <2>5. calls'[pending[calls[d].key].owner] = calls[pending[calls[d].key].owner]
      BY <1>3, <1>7, <2>2
    <2> QED BY <2>1, <2>2, <2>4, <2>5
  <1> QED BY <1>2, <1>5, <1>6, <1>8, <1>9 DEF LoadsInv

\* The loader returned.
LEMMA StoreInv ==
    ASSUME LoadsInv, NEW c \in Threads, calls[c].at = "loading",
           pending' = pending, calls' = [calls EXCEPT ![c].at = "stored"]
    PROVE  LoadsInv'
  <1>2. LoadsTypeOK'
    BY DEF LoadsInv, LoadsTypeOK, Calls
  <1>3. /\ calls'[c].at = "stored"
        /\ calls'[c].key = calls[c].key /\ calls'[c].outcome = calls[c].outcome
        /\ \A d \in Threads \ {c} : calls'[d] = calls[d]
    BY DEF LoadsInv, LoadsTypeOK, Calls
  <1>4. CallsAreComplete' /\ OneLoad'
    BY <1>3 DEF LoadsInv, CallsAreComplete, OneLoad
  <1>5. \A j \in Keys : pending[j] # None => pending[j].owner \in Threads
    BY DEF LoadsInv, LoadsTypeOK, Futures
  <1>6. FailuresAreForgotten'
    BY <1>3, <1>5 DEF LoadsInv, FailuresAreForgotten
  <1>7. WaitersAreServed'
    <2> SUFFICES ASSUME NEW d \in Threads, calls'[d].at = "waiting"
                 PROVE  LET future == pending'[calls'[d].key]
                        IN  /\ future # None
                            /\ future.outcome = None
                            /\ calls'[future.owner].at \in {"loading", "stored"}
                            /\ calls'[future.owner].key = calls'[d].key
      BY DEF WaitersAreServed
    <2>1. d # c /\ calls'[d] = calls[d] /\ calls[d].key \in Keys
      BY <1>3 DEF LoadsInv, CallsAreComplete
    <2>2. LET future == pending[calls[d].key]
          IN  /\ future # None
              /\ future.outcome = None
              /\ calls[future.owner].at \in {"loading", "stored"}
              /\ calls[future.owner].key = calls[d].key
      BY <2>1 DEF LoadsInv, WaitersAreServed
    <2>3. pending[calls[d].key].owner \in Threads
      BY <1>5, <2>1, <2>2
    <2> QED BY <1>3, <2>1, <2>2, <2>3
  <1> QED BY <1>2, <1>4, <1>6, <1>7 DEF LoadsInv

\* The future of a load gets its outcome.
LEMMA SettleInv ==
    ASSUME LoadsInv, NEW c \in Threads, NEW o \in Outcomes,
           calls[c].at \in {"loading", "stored"}, Settle(c, o)
    PROVE  LoadsInv'
  <1> DEFINE k == calls[c].key
  <1>1. k \in Keys /\ pending[k].owner = c /\ pending[k] \in Futures
    BY LoadIsPending
  <1>2. /\ pending' = [pending EXCEPT ![k].outcome = o]
        /\ calls' = [d \in Threads |->
               IF d = c THEN [at |-> "resolved", key |-> k, outcome |-> o]
               ELSE IF calls[d].at = "waiting" /\ calls[d].key = k
                    THEN [at |-> "answered", key |-> k, outcome |-> o]
                    ELSE calls[d]]
    BY DEF Settle
  <1>3. LoadsTypeOK'
    BY <1>1, <1>2 DEF LoadsInv, LoadsTypeOK, Calls, Futures
  <1>4. /\ pending'[k] = [owner |-> c, outcome |-> o]
        /\ \A j \in Keys \ {k} : pending'[j] = pending[j]
    BY <1>1, <1>2 DEF LoadsInv, LoadsTypeOK, Futures
  <1>5. CallsAreComplete'
    BY <1>1, <1>2 DEF LoadsInv, CallsAreComplete
  <1>6. ASSUME NEW d \in Threads, d # c,
               calls[d].at \in {"loading", "stored", "resolved"}
        PROVE  calls'[d] = calls[d] /\ calls[d].key \in Keys \ {k}
    BY <1>1, <1>2, <1>6, LoadIsPending
  <1>7. OneLoad'
    <2> SUFFICES ASSUME NEW d \in Threads,
                        calls'[d].at \in {"loading", "stored", "resolved"}
                 PROVE  pending'[calls'[d].key]
                          = [owner |-> d, outcome |-> calls'[d].outcome]
      BY DEF OneLoad
    <2>1. CASE d = c
      BY <1>2, <1>4, <2>1
    <2>2. CASE d # c
      <3>1. calls[d].at \in {"loading", "stored", "resolved"}
        BY <1>2, <2>2
      <3> QED BY <1>4, <1>6, <2>2, <3>1 DEF LoadsInv, OneLoad
    <2> QED BY <2>1, <2>2
  <1>8. FailuresAreForgotten'
    <2> SUFFICES ASSUME NEW j \in Keys, pending'[j] # None
                 PROVE  /\ calls'[pending'[j].owner].key = j
                        /\ calls'[pending'[j].owner].at
                             \in {"loading", "stored", "resolved"}
      BY DEF FailuresAreForgotten
    <2>1. CASE j = k
      <3>1. pending'[j].owner = c
        BY <1>4, <2>1
      <3>2. calls'[c] = [at |-> "resolved", key |-> k, outcome |-> o]
        BY <1>2
      <3> QED BY <2>1, <3>1, <3>2
    <2>2. CASE j # k
      <3>1. pending'[j] = pending[j] /\ pending[j] \in Futures
        BY <1>4, <2>2 DEF LoadsInv, LoadsTypeOK
      <3>2. /\ calls[pending[j].owner].key = j
            /\ calls[pending[j].owner].at \in {"loading", "stored", "resolved"}
        BY <3>1 DEF LoadsInv, FailuresAreForgotten
      <3>3. pending[j].owner \in Threads /\ pending[j].owner # c
        BY <2>2, <3>1, <3>2 DEF Futures
      <3> QED BY <1>6, <3>1, <3>2, <3>3
    <2> QED BY <2>1, <2>2
  <1>9. WaitersAreServed'
    <2> SUFFICES ASSUME NEW d \in Threads, calls'[d].at = "waiting"
                 PROVE  LET future == pending'[calls'[d].key]
                        IN  /\ future # None
                            /\ future.outcome = None
                            /\ calls'[future.owner].at \in {"loading", "stored"}
                            /\ calls'[future.owner].key = calls'[d].key
      BY DEF WaitersAreServed
    <2>1. /\ d # c /\ calls'[d] = calls[d] /\ calls[d].at = "waiting"
          /\ calls[d].key \in Keys \ {k}
      BY <1>2 DEF LoadsInv, CallsAreComplete
    <2>2. pending'[calls[d].key] = pending[calls[d].key]
      BY <1>4, <2>1
    <2>3. LET future == pending[calls[d].key]
          IN  /\ future # None
              /\ future.outcome = None
              /\ calls[future.owner].at \in {"loading", "stored"}
              /\ calls[future.owner].key = calls[d].key
      BY <2>1 DEF LoadsInv, WaitersAreServed
    <2>4. /\ pending[calls[d].key].owner \in Threads
          /\ pending[calls[d].key].owner # c
      BY <2>1, <2>3 DEF LoadsInv, LoadsTypeOK, Futures
    <2> QED BY <1>6, <2>1, <2>2, <2>3, <2>4
  <1> QED BY <1>3, <1>5, <1>7, <1>8, <1>9 DEF LoadsInv

\* The future of a finished load goes.
LEMMA PopInv ==
    ASSUME LoadsInv, NEW c \in Threads, Pop(c)
    PROVE  LoadsInv'
  <1> DEFINE k == calls[c].key
  <1>1. /\ calls[c].at = "resolved"
        /\ pending' = [pending EXCEPT ![k] = None]
        /\ calls' = [calls EXCEPT ![c].at = "answered"]
    BY DEF Pop, Goto
  <1>2. /\ k \in Keys /\ pending[k].owner = c /\ pending[k].outcome # None
    BY <1>1, CacheAssumption, LoadIsPending DEF LoadsInv, CallsAreComplete
  <1>3. LoadsTypeOK'
    BY <1>1 DEF LoadsInv, LoadsTypeOK, Calls
  <1>4. /\ calls'[c].at = "answered" /\ calls'[c].key = k
        /\ \A d \in Threads \ {c} : calls'[d] = calls[d]
        /\ pending'[k] = None
        /\ \A j \in Keys \ {k} : pending'[j] = pending[j]
    BY <1>1, <1>2 DEF LoadsInv, LoadsTypeOK, Calls
  <1>5. CallsAreComplete'
    BY <1>2, <1>4 DEF LoadsInv, CallsAreComplete
  <1>6. ASSUME NEW d \in Threads, d # c,
               calls[d].at \in {"loading", "stored", "resolved"}
        PROVE  calls[d].key \in Keys \ {k}
    BY <1>2, <1>6, LoadIsPending
  <1>7. OneLoad'
    BY <1>4, <1>6 DEF LoadsInv, OneLoad
  <1>8. \A j \in Keys \ {k} : pending[j] # None =>
            pending[j].owner \in Threads /\ pending[j].owner # c
    BY DEF LoadsInv, LoadsTypeOK, FailuresAreForgotten, Futures
  <1>9. FailuresAreForgotten'
    BY <1>4, <1>8 DEF LoadsInv, FailuresAreForgotten
  <1>10. WaitersAreServed'
    <2>1. \A d \in Threads : calls[d].at = "waiting" =>
              calls[d].key \in Keys \ {k}
      BY <1>2 DEF LoadsInv, WaitersAreServed, CallsAreComplete
    <2> QED BY <1>4, <1>8, <2>1 DEF LoadsInv, WaitersAreServed
  <1> QED BY <1>3, <1>5, <1>7, <1>9, <1>10 DEF LoadsInv

\* A step that only changes the entries.
LEMMA EntriesInv ==
    LoadsInv /\ UNCHANGED <<pending, calls>> => LoadsInv'
  BY DEF LoadsInv, LoadsTypeOK, CallsAreComplete, OneLoad, WaitersAreServed,
     FailuresAreForgotten

LEMMA CacheNextInv == LoadsInv /\ [CacheNext]_cacheVars => LoadsInv'
  <1> SUFFICES ASSUME LoadsInv, CacheNext PROVE LoadsInv'
    BY EntriesInv DEF cacheVars
  <1>1. ASSUME NEW c \in Threads, NEW k \in Keys, Hit(c, k) PROVE LoadsInv'
    <2> DEFINE call == [at |-> "answered", key |-> k, outcome |-> "value"]
    <2>1. call \in Calls
      BY DEF Calls, Outcomes
    <2> QED BY <1>1, <2>1, BystanderInv DEF Hit, Answer
  <1>2. ASSUME NEW c \in Threads, NEW k \in Keys, Share(c, k) PROVE LoadsInv'
    <2>1. CASE pending[k].outcome = None
      BY <1>2, <2>1, WaitInv DEF Share
    <2>2. CASE pending[k].outcome # None
      <3> DEFINE call == [at |-> "answered", key |-> k,
                          outcome |-> pending[k].outcome]
      <3>1. call \in Calls
        BY <1>2, <2>2 DEF Share, Calls, LoadsInv, LoadsTypeOK, Futures
      <3> QED BY <1>2, <2>2, <3>1, BystanderInv DEF Share, Answer
    <2> QED BY <2>1, <2>2
  <1>3. ASSUME NEW c \in Threads, NEW k \in Keys, Look(c, k) PROVE LoadsInv'
    BY <1>1, <1>2, <1>3, MissInv DEF Look
  <1>4. ASSUME NEW c \in Threads, SetException(c) \/ SetResult(c)
        PROVE  LoadsInv'
    BY <1>4, SettleInv DEF SetException, SetResult, Outcomes
  <1>5. ASSUME NEW c \in Threads, Return(c) PROVE LoadsInv'
    <2>1. NoCall \in Calls /\ NoCall.at = "idle"
      BY DEF NoCall, Calls
    <2> QED BY <1>5, <2>1, BystanderInv DEF Return
  <1>6. ASSUME NEW i \in DOMAIN values, Lapse(i) PROVE LoadsInv'
    BY <1>6, EntriesInv DEF Lapse
  <1>7. ASSUME Clear PROVE LoadsInv'
    BY <1>7, EntriesInv DEF Clear
  <1> QED BY <1>3, <1>4, <1>5, <1>6, <1>7, StoreInv, PopInv
          DEF CacheNext, Proceed, Store, Goto

-----------------------------------------------------------------------------
(* Theorems *)

\* The inductive invariant of the loads holds for any callers and keys.
THEOREM LoadsAreSound == CacheSpec => []LoadsInv
  BY CacheInitInv, CacheNextInv, PTL DEF CacheSpec

\* All callers that miss a key at the same time share one load
\* (QueryCache.get_or_load).
THEOREM LoadsAreShared == CacheSpec => []OneLoad
  <1>1. LoadsInv => OneLoad
    BY DEF LoadsInv
  <1> QED BY <1>1, LoadsAreSound, PTL

\* Nobody waits for a future that no thread will resolve.
THEOREM NobodyIsForgotten == CacheSpec => []WaitersAreServed
  <1>1. LoadsInv => WaitersAreServed
    BY DEF LoadsInv
  <1> QED BY <1>1, LoadsAreSound, PTL

\* A failed load is forgotten as soon as its caller has raised.
THEOREM ErrorsAreNotCached == CacheSpec => []FailuresAreForgotten
  <1>1. LoadsInv => FailuresAreForgotten
    BY DEF LoadsInv
  <1> QED BY <1>1, LoadsAreSound, PTL

-----------------------------------------------------------------------------
(* Counting *)

\* The holders of a client can be counted.
LEMMA HoldersFinite ==
    ASSUME NEW c
    PROVE  IsFiniteSet(Holders(c)) /\ Cardinality(Holders(c)) \in Nat
  <1>1. Holders(c) \in SUBSET Threads
    BY DEF Holders
  <1>2. IsFiniteSet(Holders(c))
    BY <1>1, FS_Subset, ClientsAssumption
  <1> QED BY <1>2, FS_CardinalityType

\* A client with the count zero has no holder.
LEMMA UnusedHasNoHolder ==
    ASSUME UsersCounted, NEW c \in Clients, users[c] = 0
    PROVE  \A t \in Threads : holds[t] # c
  <1>1. Cardinality(Holders(c)) = 0
    BY DEF UsersCounted
  <1>2. Holders(c) = {}
    BY <1>1, HoldersFinite, FS_EmptySet
  <1> QED BY <1>2 DEF Holders

\* A client that somebody holds has a positive count.
LEMMA HeldIsCounted ==
    ASSUME LeasesTypeOK, UsersCounted, NEW t \in Threads, holds[t] # None
    PROVE  holds[t] \in Clients /\ users[holds[t]] > 0
  <1>1. holds[t] \in Clients /\ users[holds[t]] \in Nat
    BY DEF LeasesTypeOK
  <1> QED BY <1>1, UnusedHasNoHolder

\* A client with the count one has a single holder.
LEMMA LastUserIsAlone ==
    ASSUME UsersCounted, NEW c \in Clients, users[c] = 1,
           NEW t \in Threads, holds[t] = c
    PROVE  \A u \in Threads : holds[u] = c => u = t
  <1>1. Cardinality(Holders(c)) = 1
    BY DEF UsersCounted
  <1>2. PICK x : Holders(c) = {x}
    BY <1>1, HoldersFinite, FS_Singleton
  <1> QED BY <1>2 DEF Holders

\* A lease adds one holder and one to the count.
LEMMA LeaseCounts ==
    ASSUME LeasesTypeOK, UsersCounted, NEW t \in Threads, NEW c \in Clients,
           holds[t] = None, Lease(t, c)
    PROVE  UsersCounted'
  <1> SUFFICES ASSUME NEW d \in Clients
               PROVE  users'[d] = Cardinality(Holders(d)')
    BY DEF UsersCounted
  <1>0. d # None /\ c # None
    BY ClientsAssumption
  <1>1. CASE d = c
    <2>1. Holders(d)' = Holders(d) \cup {t} /\ t \notin Holders(d)
      BY <1>0, <1>1 DEF Holders, Lease, LeasesTypeOK
    <2>2. users'[d] = users[d] + 1
      BY <1>1 DEF Lease, LeasesTypeOK
    <2>3. Cardinality(Holders(d) \cup {t}) = Cardinality(Holders(d)) + 1
      BY <2>1, HoldersFinite, FS_AddElement
    <2>4. users[d] = Cardinality(Holders(d))
      BY DEF UsersCounted
    <2> QED BY <2>1, <2>2, <2>3, <2>4
  <1>2. CASE d # c
    <2>1. Holders(d)' = Holders(d)
      BY <1>0, <1>2 DEF Holders, Lease, LeasesTypeOK
    <2>2. users'[d] = users[d]
      BY <1>2 DEF Lease, LeasesTypeOK
    <2> QED BY <2>1, <2>2 DEF UsersCounted
  <1> QED BY <1>1, <1>2

\* The end of a lease takes one holder and one from the count.
LEMMA ReleaseCounts ==
    ASSUME LeasesTypeOK, UsersCounted, NEW t \in Threads, Release(t)
    PROVE  UsersCounted' /\ users' \in [Clients -> Nat]
  <1> DEFINE c == holds[t]
  <1>0. c \in Clients /\ users[c] > 0 /\ None \notin Clients
    BY HeldIsCounted, ClientsAssumption DEF Release
  <1>1. /\ users' = [users EXCEPT ![c] = @ - 1]
        /\ holds' = [holds EXCEPT ![t] = None]
    BY DEF Release
  <1>2. users' \in [Clients -> Nat]
    BY <1>0, <1>1 DEF LeasesTypeOK
  <1>3. ASSUME NEW d \in Clients
        PROVE  users'[d] = Cardinality(Holders(d)')
    <2>1. CASE d = c
      <3>1. Holders(d)' = Holders(d) \ {t} /\ t \in Holders(d)
        BY <1>0, <1>1, <2>1 DEF Holders, LeasesTypeOK
      <3>2. users'[d] = users[d] - 1
        BY <1>0, <1>1, <2>1 DEF LeasesTypeOK
      <3>3. Cardinality(Holders(d) \ {t}) = Cardinality(Holders(d)) - 1
        BY <3>1, HoldersFinite, FS_RemoveElement
      <3>4. users[d] = Cardinality(Holders(d))
        BY DEF UsersCounted
      <3> QED BY <3>1, <3>2, <3>3, <3>4
    <2>2. CASE d # c
      <3>1. Holders(d)' = Holders(d)
        BY <1>0, <1>1, <1>3, <2>2 DEF Holders, LeasesTypeOK
      <3>2. users'[d] = users[d]
        BY <1>0, <1>1, <2>2 DEF LeasesTypeOK
      <3> QED BY <3>1, <3>2 DEF UsersCounted
    <2> QED BY <2>1, <2>2
  <1> QED BY <1>2, <1>3 DEF UsersCounted

-----------------------------------------------------------------------------
(* Inductive steps *)

LEMMA LeasesInitInv == LeasesInit => LeasesInv
  <1> SUFFICES ASSUME LeasesInit PROVE LeasesInv
    OBVIOUS
  <1>1. LeasesTypeOK /\ InUseIsOpen /\ NothingLeaks /\ EntriesAreOpen
    BY DEF LeasesInit, LeasesTypeOK, InUseIsOpen, NothingLeaks, EntriesAreOpen
  <1>2. UsersCounted
    <2> SUFFICES ASSUME NEW c \in Clients PROVE Cardinality(Holders(c)) = 0
      BY DEF LeasesInit, UsersCounted
    <2>1. Holders(c) = {}
      BY ClientsAssumption DEF LeasesInit, Holders
    <2> QED BY <2>1, FS_EmptySet
  <1>3. UncreatedIsUnused
    BY ClientsAssumption DEF LeasesInit, UncreatedIsUnused
  <1> QED BY <1>1, <1>2, <1>3 DEF LeasesInv

\* Reusing the current client.
LEMMA ReuseInv ==
    ASSUME LeasesInv, NEW t \in Threads, NEW k \in Configurations, Reuse(t, k)
    PROVE  LeasesInv'
  <1> USE DEF LeasesInv
  <1>1. /\ current \in Clients /\ current \in entries \ retired
        /\ current \in open
    BY DEF Reuse, Serves, NothingLeaks, LeasesTypeOK, EntriesAreOpen
  <1>2. /\ holds' = [holds EXCEPT ![t] = current]
        /\ users' = [users EXCEPT ![current] = @ + 1]
        /\ UNCHANGED <<current, entries, key, retired, closing, open, broken,
                       closer>>
    BY DEF Reuse, Lease
  <1>3. LeasesTypeOK'
    BY <1>1, <1>2 DEF LeasesTypeOK
  <1>4. InUseIsOpen'
    BY <1>1, <1>2 DEF InUseIsOpen, LeasesTypeOK
  <1>5. UsersCounted'
    BY <1>1, LeaseCounts DEF Reuse
  <1>6. NothingLeaks'
    BY <1>1, <1>2 DEF NothingLeaks, LeasesTypeOK
  <1>7. EntriesAreOpen' /\ UncreatedIsUnused'
    BY <1>2 DEF EntriesAreOpen, UncreatedIsUnused
  <1> QED BY <1>3, <1>4, <1>5, <1>6, <1>7

\* A new client; the one before it retires, and is closed unless it is used.
LEMMA RotateInv ==
    ASSUME LeasesInv, NEW t \in Threads, NEW k \in Configurations,
           NEW c \in Clients, Rotate(t, k, c)
    PROVE  LeasesInv'
  <1> USE DEF LeasesInv
  <1> DEFINE old == IF current = None THEN {} ELSE Unused(current)
  <1>1. PICK raised \in SUBSET old :
            /\ retired' = retired \cup ({current} \ {None})
            /\ entries' = (entries \cup {c}) \ old
            /\ open' = (open \ old) \cup raised \cup {c}
            /\ broken' = broken \cup raised
            /\ IF raised = {} THEN Lease(t, c)
                              ELSE UNCHANGED <<holds, users>>
    BY DEF Rotate
  <1>2. /\ key[c] = None /\ current' = c /\ holds[t] = None
        /\ key' = [key EXCEPT ![c] = k]
        /\ UNCHANGED <<closing, closer>>
    BY DEF Rotate
  <1>3. /\ c \notin entries \cup open \cup retired \cup {current}
        /\ c # None /\ k # None
    BY <1>2, ClientsAssumption DEF UncreatedIsUnused
  <1>4. /\ old \subseteq {current} \ {None} /\ old \subseteq Clients
        /\ \A d \in old : users[d] = 0
        /\ current # None /\ current \notin old => users[current] # 0
    BY DEF Unused, LeasesTypeOK
  <1>5. /\ users' \in [Clients -> Nat]
        /\ holds' \in [Threads -> Clients \cup {None}]
        /\ \A u \in Threads : holds'[u] \in {holds[u], c}
        /\ \A d \in Clients \ {c} : users'[d] = users[d]
    BY <1>1 DEF Lease, LeasesTypeOK
  <1>6. LeasesTypeOK'
    <2>1. current' \in Clients /\ closing' \in BOOLEAN
          /\ closer' \in [Closers -> {"idle", "draining", "drain", "waiting",
                                      "woken", "returned"}]
          /\ key' \in [Clients -> Configurations \cup {None}]
      BY <1>2 DEF LeasesTypeOK
    <2>2. /\ entries' \in SUBSET Clients /\ retired' \in SUBSET Clients
          /\ open' \in SUBSET Clients /\ broken' \in SUBSET Clients
      BY <1>1, <1>4 DEF LeasesTypeOK
    <2> QED BY <2>1, <2>2, <1>5 DEF LeasesTypeOK
  <1>7. InUseIsOpen'
    <2> SUFFICES ASSUME NEW u \in Threads, holds'[u] # None
                 PROVE  holds'[u] \in open' \cap entries'
      BY DEF InUseIsOpen
    <2>1. CASE holds'[u] = c
      BY <1>1, <1>3, <1>4, <2>1
    <2>2. CASE holds'[u] = holds[u]
      <3>1. holds[u] \in open \cap entries
        BY <2>2 DEF InUseIsOpen
      <3>2. holds[u] \notin old
        BY <1>4, UnusedHasNoHolder
      <3> QED BY <1>1, <2>2, <3>1, <3>2
    <2> QED BY <1>5, <2>1, <2>2
  <1>8. UsersCounted'
    <2>1. CASE raised = {}
      BY <1>1, <1>2, <2>1, LeaseCounts
    <2>2. CASE raised # {}
      BY <1>1, <2>2 DEF UsersCounted, Holders
    <2> QED BY <2>1, <2>2
  <1>9. NothingLeaks'
    <2>1. ASSUME NEW d \in entries'
          PROVE  d = current' \/ (d \in retired' /\ users'[d] > 0)
      <3>1. CASE d = c
        BY <1>2, <3>1
      <3>2. CASE d # c
        <4>1. d \in entries /\ d \notin old /\ d \in Clients
          BY <1>1, <2>1, <3>2 DEF LeasesTypeOK
        <4>2. users'[d] = users[d] /\ users[d] \in Nat
          BY <1>5, <3>2, <4>1 DEF LeasesTypeOK
        <4>3. CASE d = current
          BY <1>1, <1>4, <4>1, <4>2, <4>3, ClientsAssumption
        <4>4. CASE d # current
          BY <1>1, <4>1, <4>2, <4>4 DEF NothingLeaks
        <4> QED BY <4>3, <4>4
      <3> QED BY <3>1, <3>2
    <2>2. open' \subseteq entries' \cup broken'
      BY <1>1, <1>3, <1>4 DEF NothingLeaks
    <2>3. current' \in entries' \ retired'
      BY <1>1, <1>2, <1>3, <1>4
    <2> QED BY <2>1, <2>2, <2>3 DEF NothingLeaks
  <1>10. EntriesAreOpen'
    BY <1>1 DEF EntriesAreOpen
  <1>11. UncreatedIsUnused'
    <2> SUFFICES ASSUME NEW d \in Clients, key'[d] = None
                 PROVE  d \notin entries' \cup open' \cup retired' \cup {current'}
      BY DEF UncreatedIsUnused
    <2>1. d # c /\ key[d] = None
      BY <1>2, <1>3 DEF LeasesTypeOK
    <2>2. d \notin entries \cup open \cup retired \cup {current}
      BY <2>1 DEF UncreatedIsUnused
    <2> QED BY <1>1, <1>2, <1>4, <2>1, <2>2
  <1> QED BY <1>6, <1>7, <1>8, <1>9, <1>10, <1>11

\* The end of a lease closes a retired client after its last user.
LEMMA ReleaseInv ==
    ASSUME LeasesInv, NEW t \in Threads, Release(t)
    PROVE  LeasesInv'
  <1> USE DEF LeasesInv
  <1> DEFINE c == holds[t]
             old == LastUse(c)
  <1>1. c \in Clients /\ users[c] > 0 /\ c \in open \cap entries
    BY HeldIsCounted DEF Release, InUseIsOpen
  <1>2. PICK raised \in SUBSET old :
            /\ entries' = entries \ old
            /\ open' = (open \ old) \cup raised
            /\ broken' = broken \cup raised
    BY DEF Release, Dispose
  <1>3. /\ holds' = [holds EXCEPT ![t] = None]
        /\ users' = [users EXCEPT ![c] = @ - 1]
        /\ closer' = Woken
        /\ UNCHANGED <<current, key, retired, closing>>
    BY DEF Release, NotifyAll
  <1>4. /\ old \subseteq {c}
        /\ c \in old <=> c \in retired /\ users[c] = 1
    BY DEF LastUse
  <1>5. UsersCounted' /\ users' \in [Clients -> Nat]
    BY ReleaseCounts
  <1>6. LeasesTypeOK'
    <2>1. closer' \in [Closers -> {"idle", "draining", "drain", "waiting",
                                   "woken", "returned"}]
      BY <1>3 DEF Woken, LeasesTypeOK
    <2>2. /\ entries' \in SUBSET Clients /\ open' \in SUBSET Clients
          /\ broken' \in SUBSET Clients
      BY <1>1, <1>2, <1>4 DEF LeasesTypeOK
    <2> QED BY <2>1, <2>2, <1>3, <1>5 DEF LeasesTypeOK
  <1>7. InUseIsOpen'
    <2> SUFFICES ASSUME NEW u \in Threads, holds'[u] # None
                 PROVE  holds'[u] \in open' \cap entries'
      BY DEF InUseIsOpen
    <2>1. u # t /\ holds'[u] = holds[u] /\ holds[u] \in open \cap entries
      BY <1>3 DEF InUseIsOpen, LeasesTypeOK
    <2>2. holds[u] \notin old
      BY <1>1, <1>4, <2>1, LastUserIsAlone
    <2> QED BY <1>2, <2>1, <2>2
  <1>8. NothingLeaks'
    <2>1. ASSUME NEW d \in entries'
          PROVE  d = current' \/ (d \in retired' /\ users'[d] > 0)
      <3>1. d \in entries /\ d \notin old /\ d \in Clients
        BY <1>2, <2>1 DEF LeasesTypeOK
      <3>2. CASE d = c
        <4>1. users'[c] = users[c] - 1 /\ users[c] \in Nat
          BY <1>1, <1>3 DEF LeasesTypeOK
        <4> QED BY <1>3, <1>4, <3>1, <3>2, <4>1, <1>1 DEF NothingLeaks
      <3>3. CASE d # c
        <4>1. users'[d] = users[d]
          BY <1>1, <1>3, <3>1, <3>3 DEF LeasesTypeOK
        <4> QED BY <1>3, <3>1, <4>1 DEF NothingLeaks
      <3> QED BY <3>2, <3>3
    <2>2. open' \subseteq entries' \cup broken'
      BY <1>2 DEF NothingLeaks
    <2>3. current' # None => current' \in entries' \ retired'
      BY <1>2, <1>3, <1>4 DEF NothingLeaks
    <2> QED BY <2>1, <2>2, <2>3 DEF NothingLeaks
  <1>9. EntriesAreOpen'
    BY <1>2 DEF EntriesAreOpen
  <1>10. UncreatedIsUnused'
    BY <1>1, <1>2, <1>3, <1>4 DEF UncreatedIsUnused
  <1> QED BY <1>5, <1>6, <1>7, <1>8, <1>9, <1>10

\* close() finishes: nobody holds a client that it closes.
LEMMA FinishInv ==
    ASSUME LeasesInv, Drained, NEW k \in Closers, Finish(k)
    PROVE  LeasesInv'
  <1> USE DEF LeasesInv
  <1>1. PICK raised \in SUBSET entries :
            /\ entries' = {}
            /\ open' = (open \ entries) \cup raised
            /\ broken' = broken \cup raised
    BY DEF Finish, Dispose
  <1>2. /\ current' = None /\ closing' = FALSE
        /\ closer' = [Woken EXCEPT ![k] = "returned"]
        /\ UNCHANGED <<key, users, retired, holds>>
    BY DEF Finish
  <1>3. LeasesTypeOK'
    <2>1. closer' \in [Closers -> {"idle", "draining", "drain", "waiting",
                                   "woken", "returned"}]
      BY <1>2 DEF Woken, LeasesTypeOK
    <2> QED BY <1>1, <1>2, <2>1 DEF LeasesTypeOK
  <1>4. \A t \in Threads : holds[t] = None
    BY UnusedHasNoHolder DEF InUseIsOpen, Drained, LeasesTypeOK
  <1>5. InUseIsOpen'
    BY <1>2, <1>4 DEF InUseIsOpen
  <1>6. UsersCounted'
    BY <1>2 DEF UsersCounted, Holders
  <1>7. NothingLeaks'
    BY <1>1, <1>2 DEF NothingLeaks
  <1>8. EntriesAreOpen'
    BY <1>1 DEF EntriesAreOpen
  <1>9. UncreatedIsUnused'
    BY <1>1, <1>2, ClientsAssumption DEF UncreatedIsUnused
  <1> QED BY <1>3, <1>5, <1>6, <1>7, <1>8, <1>9

\* A step that leaves the leases alone.
LEMMA LeasesUnchangedInv ==
    ASSUME LeasesInv, LeasesTypeOK', UNCHANGED <<leaseVars, open, broken, holds>>
    PROVE  LeasesInv'
  <1>1. /\ UNCHANGED <<current, entries, key, users, retired>>
        /\ UNCHANGED <<open, broken, holds>>
    BY DEF leaseVars
  <1>2. UsersCounted'
    BY <1>1 DEF LeasesInv, UsersCounted, Holders
  <1> QED BY <1>1, <1>2 DEF LeasesInv, InUseIsOpen, NothingLeaks, EntriesAreOpen,
                            UncreatedIsUnused

\* close(), from its first step to its return.
LEMMA ShutInv ==
    ASSUME LeasesInv, NEW k \in Closers, Shut(k)
    PROVE  LeasesInv'
  <1>1. CASE (Close(k) \/ Drain(k)) /\ Drained
    BY <1>1, FinishInv DEF Close, Drain
  <1>2. CASE Close(k) /\ ~Drained
    <2>1. Wait(k)
      BY <1>2 DEF Close
    <2>2. LeasesTypeOK'
      BY <2>1 DEF Wait, Woken, leaseVars, LeasesInv, LeasesTypeOK
    <2> QED BY <2>1, <2>2, LeasesUnchangedInv DEF Wait
  <1>3. CASE Drain(k) /\ ~Drained
    <2>1. LeasesTypeOK'
      BY <1>3 DEF Drain, leaseVars, LeasesInv, LeasesTypeOK
    <2> QED BY <1>3, <2>1, LeasesUnchangedInv DEF Drain
  <1>4. CASE CloseAgain(k)
    <2>1. LeasesTypeOK'
      BY <1>4 DEF CloseAgain, leaseVars, LeasesInv, LeasesTypeOK
    <2> QED BY <1>4, <2>1, LeasesUnchangedInv DEF CloseAgain
  <1> QED BY <1>1, <1>2, <1>3, <1>4 DEF Shut

LEMMA LeasesStutterInv == LeasesInv /\ UNCHANGED clientVars => LeasesInv'
  <1> SUFFICES ASSUME LeasesInv, UNCHANGED clientVars PROVE LeasesInv'
    OBVIOUS
  <1>1. LeasesTypeOK'
    BY DEF clientVars, leaseVars, LeasesInv, LeasesTypeOK
  <1> QED BY <1>1, LeasesUnchangedInv DEF clientVars

LEMMA LeasesNextInv == LeasesInv /\ [LeasesNext]_clientVars => LeasesInv'
  <1> SUFFICES ASSUME LeasesInv, LeasesNext PROVE LeasesInv'
    BY LeasesStutterInv
  <1>1. ASSUME NEW t \in Threads, Embed(t) PROVE LeasesInv'
    BY <1>1, ReuseInv, RotateInv, ReleaseInv DEF Embed
  <1>2. ASSUME NEW k \in Closers, Shut(k) PROVE LeasesInv'
    BY <1>2, ShutInv
  <1> QED BY <1>1, <1>2 DEF LeasesNext

-----------------------------------------------------------------------------
(* Theorems *)

\* The inductive invariant of the leases holds for any number of threads,
\* clients and calls of close().
THEOREM LeasesAreSound == LeasesSpec => []LeasesInv
  BY LeasesInitInv, LeasesNextInv, PTL DEF LeasesSpec

\* No client is closed while a search uses it (EmbeddingClients._dispose).
THEOREM NoClientClosedInUse == LeasesSpec => []InUseIsOpen
  <1>1. LeasesInv => InUseIsOpen
    BY DEF LeasesInv
  <1> QED BY <1>1, LeasesAreSound, PTL

\* _Lease.users is the number of searches that use the client.
THEOREM CountsAreRight == LeasesSpec => []UsersCounted
  <1>1. LeasesInv => UsersCounted
    BY DEF LeasesInv
  <1> QED BY <1>1, LeasesAreSound, PTL

\* What is kept is current or in use, and nothing else stays open unless its
\* close() failed.
THEOREM NoClientLeaks == LeasesSpec => []NothingLeaks
  <1>1. LeasesInv => NothingLeaks
    BY DEF LeasesInv
  <1> QED BY <1>1, LeasesAreSound, PTL

\* Only the end of close() takes the current client away, and it does so when
\* every lease has been given back.
LEMMA FinishDrains ==
    ASSUME LeasesInv, Drained, NEW k \in Closers, Finish(k)
    PROVE  /\ \A t \in Threads : holds'[t] = None
           /\ open' \subseteq broken'
  <1>1. holds' = holds
    BY DEF Finish
  <1>2. ASSUME NEW t \in Threads PROVE holds[t] = None
    <2>1. SUFFICES ASSUME holds[t] # None PROVE FALSE
      OBVIOUS
    <2>2. holds[t] \in Clients /\ users[holds[t]] > 0 /\ holds[t] \in entries
      BY <2>1, HeldIsCounted DEF LeasesInv, InUseIsOpen
    <2> QED BY <2>2 DEF Drained
  <1>3. PICK raised \in SUBSET entries :
            /\ open' = (open \ entries) \cup raised
            /\ broken' = broken \cup raised
    BY DEF Finish, Dispose
  <1>4. open' \subseteq broken'
    BY <1>3 DEF LeasesInv, NothingLeaks
  <1> QED BY <1>1, <1>2, <1>4

LEMMA StepsDrain ==
    ASSUME LeasesInv, LeasesNext
    PROVE  /\ closing => \A t \in Threads : holds'[t] \in {holds[t], None}
           /\ current # None /\ current' = None =>
                 /\ \A t \in Threads : holds'[t] = None
                 /\ open' \subseteq broken'
  <1> DEFINE Goal == /\ closing => \A t \in Threads : holds'[t] \in {holds[t], None}
                     /\ current # None /\ current' = None =>
                           /\ \A t \in Threads : holds'[t] = None
                           /\ open' \subseteq broken'
  <1>1. ASSUME NEW t \in Threads, NEW k \in Configurations, Reuse(t, k)
        PROVE  Goal
    BY <1>1 DEF Reuse
  <1>2. ASSUME NEW t \in Threads, NEW k \in Configurations, NEW c \in Clients,
               Rotate(t, k, c)
        PROVE  Goal
    <2>1. ~closing /\ current' = c /\ c # None
      BY <1>2, ClientsAssumption DEF Rotate
    <2> QED BY <2>1
  <1>3. ASSUME NEW t \in Threads, Release(t)
        PROVE  Goal
    <2>1. current' = current /\ holds' = [holds EXCEPT ![t] = None]
      BY <1>3 DEF Release
    <2>2. \A u \in Threads : holds'[u] \in {holds[u], None}
      BY <2>1 DEF LeasesInv, LeasesTypeOK
    <2> QED BY <2>1, <2>2
  <1>4. ASSUME NEW k \in Closers, Shut(k)
        PROVE  Goal
    <2>1. holds' = holds
      BY <1>4 DEF Shut, Close, Drain, CloseAgain, Finish, Wait
    <2>2. CASE Drained /\ Finish(k)
      BY <2>1, <2>2, FinishDrains
    <2>3. CASE current' = current
      BY <2>1, <2>3
    <2>4. (Drained /\ Finish(k)) \/ current' = current
      BY <1>4 DEF Shut, Close, Drain, CloseAgain, Wait, leaseVars
    <2> QED BY <2>2, <2>3, <2>4
  <1> HIDE DEF Goal
  <1>5. Goal
    BY <1>1, <1>2, <1>3, <1>4 DEF LeasesNext, Embed
  <1> QED BY <1>5 DEF Goal

\* While close() waits nobody acquires a client, and when it lets go of the
\* current one all are given back and nothing stays open but what failed to
\* close.
THEOREM CloseDrains == LeasesSpec => ClosingDrains
  <1>1. LeasesInv /\ [LeasesNext]_clientVars =>
            [ /\ closing => \A t \in Threads : holds'[t] \in {holds[t], None}
              /\ current # None /\ current' = None =>
                    /\ \A t \in Threads : holds'[t] = None
                    /\ open' \subseteq broken' ]_clientVars
    BY StepsDrain
  <1> QED BY <1>1, LeasesAreSound, PTL DEF LeasesSpec, ClosingDrains

=============================================================================
